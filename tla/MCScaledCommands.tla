--------------------------- MODULE MCScaledCommands ---------------------------
(* Instances of ScaledCommands for TLC.                                     *)
EXTENDS ScaledCommands

CONSTANTS A, B   \* two scales

AllSupported == [s \in Scales |-> Cmds]

\* One good command for each scale.
GoodDatagrams == {[id |-> s, code |-> "SZ"] : s \in Scales}

\* The same, and a command for an unknown scale.
KnownOrNot == GoodDatagrams \cup {[id |-> NULL, code |-> "SZ"]}

\* These, a command the models lack, and one with unknown letters (cmd keeps its
\* value).
MixedDatagrams ==
  KnownOrNot \cup {[id |-> A, code |-> "RT"], [id |-> B, code |-> "??"]}

NoTare == [s \in Scales |-> {"SZ", "ST"}]

\* The scales do not differ, so the first datagram, if it is a plain good one, and
\* the first message are for A; and those of A are weights enough while B has no command.
FirstForA ==
  /\ ureq' = 1 /\ udg'.code = "SZ" => udg'.id # B
  /\ mcnt' = 1 => cur_scale' \in {A, NULL}
  /\ line'[B] = <<"weight">> => lpc[B] \in {"catch", "get2"}

\* Clients send datagrams or the broker calibration messages, never both: with
\* messages runcommand's cmd, which nobody reads, may as well be "max".
Apart == mcnt' > 0 => ureq' = 0 /\ ucode = "max"

ApartSpec == Init /\ [][Next /\ Apart /\ FirstForA]_vars
=============================================================================
