----------------------------- MODULE MCWriteTrain -----------------------------
(* An instance of WriteTrain for TLC.                                       *)
EXTENDS WriteTrain, TLC

CONSTANTS p1, p2, t1, t2   \* two programs, two trains

\* The programs are interchangeable, and so are the trains.
InstanceSymmetry == Permutations(Instances) \cup Permutations(Trains)
=============================================================================
