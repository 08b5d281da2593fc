-------------------------------- MODULE Framer --------------------------------
(***************************************************************************)
(* What the receive buffer of a serial port promises its readers: bytes    *)
(* come in, packets ended by CR go out.  While the port streams every      *)
(* packet comes out, whole and in order, but for what a command takes;     *)
(* while the terminal is being questioned older packets may be dropped for *)
(* the last one.                                                           *)
(***************************************************************************)
EXTENDS Naturals, Sequences

CONSTANTS
  Byte,  \* what a terminal sends
  CR     \* the byte that ends a packet

VARIABLES
  pending,     \* bytes received and not yet handed out
  packet,      \* the packet handed out, <<>> when there is none
  streaming,   \* the terminal has been questioned
  commanding,  \* a command is being carried out
  broken       \* the port has failed: nothing is promised any more

vars == <<pending, packet, streaming, commanding, broken>>

Init ==
  /\ pending = <<>> /\ packet = <<>>
  /\ streaming = FALSE /\ commanding = FALSE /\ broken = FALSE

From(i) == SubSeq(pending, i, Len(pending))

\* Bytes i to j of pending are one packet.
IsPacket(i, j) ==
  /\ j \in i .. Len(pending) /\ pending[j] = CR
  /\ \A n \in i .. j - 1 : pending[n] # CR
  /\ i = 1 \/ pending[i - 1] = CR

HandOut(i, j) ==
  /\ IsPacket(i, j)
  /\ packet' = SubSeq(pending, i, j) /\ pending' = From(j + 1)
  /\ UNCHANGED broken

Arrive ==
  /\ \E b \in Byte : pending' = Append(pending, b)
  /\ UNCHANGED <<packet, streaming, commanding, broken>>

Deliver ==
  /\ streaming /\ streaming' /\ ~commanding /\ ~commanding'
  /\ \E j \in DOMAIN pending : HandOut(1, j)

\* The answer to the last question starts the stream.
Answer ==
  /\ ~streaming /\ streaming' \in BOOLEAN /\ UNCHANGED commanding
  /\ \E i, j \in DOMAIN pending : HandOut(i, j)

\* Whole packets, or what is left of one when the terminal fell silent.
Drop ==
  /\ ~streaming /\ UNCHANGED <<streaming, commanding, broken>>
  /\ packet' = <<>>
  /\ \E i \in DOMAIN pending : pending' = From(i + 1)

Taken == packet' = <<>> /\ UNCHANGED <<pending, streaming, commanding, broken>>

Start ==
  /\ ~streaming /\ streaming' /\ packet' = <<>>
  /\ UNCHANGED <<pending, commanding, broken>>

\* A command begins or ends.
Command ==
  /\ streaming /\ commanding' = ~commanding
  /\ UNCHANGED <<pending, packet, streaming, broken>>

\* Its reader takes bytes i+1 to j.  What it cannot reach, the first i bytes,
\* is a piece of one packet.
Lose ==
  /\ commanding
  /\ \E i \in 0 .. Len(pending), j \in DOMAIN pending :
       /\ i < j /\ \A n \in 1 .. i : pending[n] # CR
       /\ pending' = SubSeq(pending, 1, i) \o From(j + 1)
  /\ UNCHANGED <<packet, streaming, commanding, broken>>

Next ==
  Arrive \/ Deliver \/ Answer \/ Drop \/ Taken \/ Start \/ Command \/ Lose \/ broken'

Spec == Init /\ [][Next]_vars
=============================================================================
