------------------------------ MODULE MCCliRtc ------------------------------
(* CliRtc for TLC: lines on both sides of every limit the parser checks.   *)
EXTENDS CliRtc, TLC

X == <<NonDigit, NonDigit>>

TimeArgs ==
  {<<h, ":", m, ":", s>> : h \in {<<2, 3>>, <<2, 4>>}, m \in {<<5, 9>>, <<6, 0>>},
                           s \in {<<5, 8>>, X}}
    \cup {<<<<0, 9>>, "-", <<1, 0>>, ":", <<0, 0>>>>}

DateArgs ==
  {<<y, ":", m, ":", d>> : y \in {<<9, 9>>, X}, m \in {<<0, 0>>, <<1, 2>>, <<1, 3>>},
                           d \in {<<0, 0>>, <<3, 1>>, <<3, 2>>}}
    \cup {<<<<2, 4>>, ":", <<NonDigit, 1>>, "2", <<NonDigit, 3>>>>}

MCLines ==
  {[cmd |-> "pin", verb |-> "set", arg |-> <<a>>] : a \in {0, 1, 2}}
    \cup {[cmd |-> c, verb |-> "get", arg |-> <<>>] : c \in {"time", "date", "pin"}}
    \cup {[cmd |-> "time", verb |-> "set", arg |-> a] : a \in TimeArgs}
    \cup {[cmd |-> "date", verb |-> "set", arg |-> a] : a \in DateArgs}
    \cup {[cmd |-> "i2c", verb |-> v, arg |-> <<>>] : v \in {"read", "write"}}
==============================================================================
