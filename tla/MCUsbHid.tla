------------------------------ MODULE MCUsbHid ------------------------------
(* The USB mouse with its constants given by UsbHid.cfg and UsbClaim.cfg. *)
EXTENDS UsbHid
=============================================================================
