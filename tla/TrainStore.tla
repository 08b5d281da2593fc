------------------------------ MODULE TrainStore ------------------------------
(***************************************************************************)
(* What the tables train and car promise to their readers: a train appears *)
(* with all its cars at once, under an id of its own, and stays.           *)
(***************************************************************************)
EXTENDS Naturals

CONSTANTS Trains, CarCnt, MaxId

VARIABLE rows   \* <<id, c, t>>: c = 0 the row in train, c > 0 a row in car

Whole(id, t) == {<<id, c, t>> : c \in 0 .. CarCnt}

Init == rows = {}

Store(id, t) ==
  /\ \A r \in rows : r[1] # id
  /\ rows' = rows \cup Whole(id, t)

Next == \E id \in 1 .. MaxId, t \in Trains : Store(id, t)

Spec == Init /\ [][Next]_rows
=============================================================================
