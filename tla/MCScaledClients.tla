--------------------------- MODULE MCScaledClients ---------------------------
(* Instances of ScaledClients for TLC.                                      *)
EXTENDS ScaledClients, FiniteSets, TLC

\* Connections are interchangeable (safety run only).
ConnSymmetry == Permutations(Conns)

\* The daemon in service: the operator sends no SIGINT.
ServeSpec == Init /\ [][Next /\ mpc' = "run"]_vars

\* SIGINT comes, if at all, while one client at most has ever connected; until
\* then clients come and go in the same slot.
FirstClient == Cardinality({k \in Conns : peer[k] # "new"}) <= 1
LiveSpec == Init /\ [][Next /\ (mpc' = "run" \/ FirstClient')]_vars /\ Fairness
=============================================================================
