------------------------------ MODULE MCStartup ------------------------------
(* An instance of Startup for TLC.                                          *)
EXTENDS Startup, TLC

\* Two scales of any kinds.  Their loops race from the creation on, so which of
\* the two is created first makes no difference.
Rank == "weight" :> 1 @@ "raw" :> 2 @@ "dis2" :> 3 @@ "dis4" :> 4
RankedInit == Init /\ Rank[kind[0]] <= Rank[kind[1]]

RankedSpec == RankedInit /\ [][Next]_vars /\ Fairness
=============================================================================
