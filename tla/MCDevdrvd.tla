------------------------------ MODULE MCDevdrvd ------------------------------
(* Instances of Devdrvd for TLC.                                            *)
EXTENDS Devdrvd, TLC

\* Clients are interchangeable (safety run only).
ConnSymmetry == Permutations(Conns)

\* For safety, a connect_client that sleeps is one that does not move, and whether
\* a server is up matters only while it is connected or being connected.
Relevant ==
  \A s \in Servers :
    /\ cpc'[s] # "sleep"
    /\ ServerDown(s) => connected[s] \/ cpc[s] = "connect"
    /\ ServerBack(s) => cpc[s] = "connect"
SafeSpec == Init /\ [][Next /\ Relevant]_vars

\* Only server 0 goes down and comes back, as often as it likes, what comes is
\* read at once, and clients read what they are sent.
Quiet ==
  /\ \A s \in Servers \ {0} : up'[s]
  /\ mlen' = 0 /\ \A k \in Conns : peer'[k] # "slow"
LiveSpec == Init /\ [][Next /\ Quiet]_vars /\ Fairness
=============================================================================
