------------------------------ MODULE SlotPool ------------------------------
(***************************************************************************)
(* What the client table of scaled and the client pool of devdrvd promise, *)
(* whatever their threads do: a connection is given one free slot, keeps   *)
(* it, gives it back once, and is never seated again.                      *)
(***************************************************************************)
CONSTANTS
  Slots,   \* entries of cli_array, client_pool
  Conns,   \* connections ever accepted
  None     \* the value of a free slot (-1 in the code)

VARIABLES
  owner,   \* [Slots -> Conns \cup {None}], who is seated where
  past     \* connections that have given their slot back

vars == <<owner, past>>

Init == owner = [c \in Slots |-> None] /\ past = {}

Seat(c, k) ==
  /\ owner[c] = None
  /\ k \notin past
  /\ \A d \in Slots : owner[d] # k
  /\ owner' = [owner EXCEPT ![c] = k]
  /\ UNCHANGED past

Release(c) ==
  /\ owner[c] # None
  /\ past' = past \cup {owner[c]}
  /\ owner' = [owner EXCEPT ![c] = None]

Next == \E c \in Slots : Release(c) \/ \E k \in Conns : Seat(c, k)

Spec == Init /\ [][Next]_vars
=============================================================================
