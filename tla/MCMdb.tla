-------------------------------- MODULE MCMdb --------------------------------
(* An instance of Mdb for TLC.                                               *)
EXTENDS Mdb, TLC

\* Connections are interchangeable.
ConnSymmetry == Permutations(Conns)
=============================================================================
