------------------------- MODULE ScaledClientsProofs -------------------------
(***************************************************************************)
(* Proofs about ScaledClients for every number of slots, scales,           *)
(* connections and every pipe capacity.                                    *)
(***************************************************************************)
EXTENDS ScaledClients, TLAPS

\* Labels at which a feed still has its read ends, and at which runpacket
\* works on a connection, on a slot of it, on the pipes in that slot.
Reading(k) == fpc[k] \in {"loop", "drain", "quit"}
Holding == {"scan", "pipe", "fin", "go", "create", "clean"}
InSlot  == {"pipe", "fin", "go", "create"}
Piped   == {"fin", "go", "create", "clean"}

\* runpacket's connection is new to all feeds, and is seated while it is
\* being registered.
AcceptorInv ==
  /\ apc = "accept" => aconn = None
  /\ apc \in Holding => aconn \in Conns
  /\ aconn \in Conns => fpc[aconn] = "none"
  /\ apc \in InSlot \cup {"clean"} => acli \in Slots
  /\ apc = "stop" /\ aconn # None => acli \in Slots
  /\ apc \in InSlot => sock[acli] = aconn
  /\ apc = "clean" => sock[acli] = None

\* A connection not yet accepted has left no trace.
FreshInv == \A k \in Conns : peer[k] \in {"new", "backlog"} => fpc[k] = "none" /\ aconn # k

\* sock[c] = k exactly while a feed serves k in c or runpacket registers it.
SeatInv ==
  /\ \A c \in Slots, k \in Conns : sock[c] = k =>
       (Serving(k) /\ fslot[k] = c) \/ (apc \in InSlot /\ acli = c /\ aconn = k)
  /\ \A k \in Conns : Serving(k) => sock[fslot[k]] = k

\* A slot holds read ends exactly while its tenant still has them.
ReadInv ==
  /\ \A c \in Slots, s \in Scales, k \in Conns : rdfd[c][s] = k =>
       (Reading(k) /\ fslot[k] = c) \/ (apc \in Piped /\ acli = c /\ aconn = k)
  /\ \A k \in Conns : Reading(k) => \A s \in Scales : rdfd[fslot[k]][s] = k
  /\ apc \in Piped => \A s \in Scales : rdfd[acli][s] = aconn
  /\ \A k \in Conns, s \in Scales : <<k, s>> \in ropen =>
       Reading(k) \/ (apc \in Piped /\ aconn = k)

\* What the slot of a served connection holds for the scales is its own.
WriteInv ==
  /\ \A k \in Conns : Serving(k) => \A s \in Scales : wrfd[fslot[k]][s] \in {k, None}
  /\ apc \in {"fin", "go", "create"} => \A s \in Scales : wrfd[acli][s] \in {aconn, None}

\* The locals of the scale loops and of main where they are used.
LocalInv ==
  /\ \A s \in Scales : spc[s] \in {"act", "close", "clear"} =>
       scli[s] \in Slots /\ swr[s] \in Conns
  /\ mpc \in {"join", "wait"} => mcli \in Slots
  /\ mpc = "wait" => mthr \in Conns

IInv ==
  /\ AcceptorInv /\ FreshInv /\ SeatInv /\ ReadInv /\ WriteInv /\ LocalInv
  /\ NoCrossTalk

(***************************************************************************)
(* Type correctness.                                                       *)
(***************************************************************************)
\* init_clients and the static initialisers are well typed.
LEMMA TypeInit == Init => TypeOK
<1>1. 0 \in Slots /\ 0 \in 0 .. MaxClients /\ 0 \in 0 .. PipeCap
  BY ClientsAssumption DEF Slots
<1>2. NoFds \in [Scales -> ConnOrNone]
  BY DEF NoFds, ConnOrNone
<1> SUFFICES ASSUME Init PROVE TypeOK
  OBVIOUS
<1>3. wrfd \in [Slots -> [Scales -> ConnOrNone]] /\ rdfd \in [Slots -> [Scales -> ConnOrNone]]
  BY <1>2 DEF Init
<1>4. queued \in [Conns -> [Scales -> 0 .. PipeCap]]
  BY <1>1 DEF Init
<1>5. /\ scli \in [Scales -> 0 .. MaxClients] /\ fslot \in [Conns -> Slots]
      /\ acli \in 0 .. MaxClients /\ mcli \in 0 .. MaxClients
  BY <1>1 DEF Init
<1>6. QED
  BY <1>3, <1>4, <1>5 DEF Init, TypeOK, ConnOrNone,
     AcceptPCs, FeedPCs, ScalePCs, MainPCs, PeerStates

\* Every step keeps the types.
LEMMA TypeStep == TypeOK /\ IInv /\ [Next]_vars => TypeOK'
<1> SUFFICES ASSUME TypeOK, IInv, [Next]_vars PROVE TypeOK'
  OBVIOUS
<1> USE ClientsAssumption DEF TypeOK, table, kernel, accv, feedv, scalev, mainv,
    AcceptPCs, FeedPCs, ScalePCs, MainPCs, PeerStates, ConnOrNone
<1>1. ASSUME NEW k \in Conns, Connect(k) PROVE TypeOK'
  BY <1>1 DEF Connect, Peer
<1>2. ASSUME NEW k \in Conns, Stall(k) PROVE TypeOK'
  BY <1>2 DEF Stall, Peer
<1>3. ASSUME NEW k \in Conns, Resume(k) PROVE TypeOK'
  BY <1>3 DEF Resume, Peer
<1>4. ASSUME NEW k \in Conns, Leave(k) PROVE TypeOK'
  BY <1>4 DEF Leave, Peer
<1>5. ASSUME NEW k \in Conns, Reset(k) PROVE TypeOK'
  BY <1>5 DEF Reset, Peer
<1>6. ASSUME NEW k \in Conns, Accept(k) PROVE TypeOK'
  BY <1>6 DEF Accept
<1>7. ASSUME AcceptStop PROVE TypeOK'
  BY <1>7 DEF AcceptStop
<1>8. ASSUME ScanBusy PROVE TypeOK'
  BY <1>8 DEF ScanBusy, Slots
<1>9. ASSUME Refuse PROVE TypeOK'
  BY <1>9 DEF Refuse
<1>10. ASSUME TakeSlot PROVE TypeOK'
  BY <1>10 DEF TakeSlot, IInv, AcceptorInv, Slots
<1>11. ASSUME MakePipes PROVE TypeOK'
  BY <1>11 DEF MakePipes, Pipes, IInv, AcceptorInv, Holding
<1>12. ASSUME ClearFin PROVE TypeOK'
  BY <1>12 DEF ClearFin
<1>13. ASSUME SetGo PROVE TypeOK'
  BY <1>13 DEF SetGo
<1>14. ASSUME CreateFeed PROVE TypeOK'
  BY <1>14 DEF CreateFeed, IInv, AcceptorInv, InSlot, Holding
<1>15. ASSUME CreateFail PROVE TypeOK'
  BY <1>15 DEF CreateFail
<1>16. ASSUME Clean PROVE TypeOK'
  BY <1>16 DEF Clean, NoFds, IInv, AcceptorInv
<1>17. ASSUME NEW k \in Conns, FeedSelect(k) PROVE TypeOK'
  BY <1>17 DEF FeedSelect, ReadyIn
<1>18. ASSUME NEW k \in Conns, FeedStop(k) PROVE TypeOK'
  BY <1>18 DEF FeedStop
<1>19. ASSUME NEW k \in Conns, NEW s \in Scales, FeedEof(k, s) PROVE TypeOK'
  BY <1>19 DEF FeedEof, IInv, ReadInv, Reading
<1>20. ASSUME NEW k \in Conns, NEW s \in Scales, FeedWrite(k, s) PROVE TypeOK'
  <2>1. rdfd[fslot[k]][s] = k /\ sock[fslot[k]] = k
    BY <1>20 DEF FeedWrite, IInv, ReadInv, SeatInv, Reading, Serving
  <2>2. QED
    BY <1>20, <2>1 DEF FeedWrite
<1>21. ASSUME NEW k \in Conns, NEW s \in Scales, FeedWriteError(k, s) PROVE TypeOK'
  BY <1>21 DEF FeedWriteError, IInv, ReadInv, Reading
<1>22. ASSUME NEW k \in Conns, FeedQuit(k) PROVE TypeOK'
  BY <1>22 DEF FeedQuit, NoFds
<1>23. ASSUME NEW k \in Conns, FeedFin(k) PROVE TypeOK'
  BY <1>23 DEF FeedFin
<1>24. ASSUME NEW k \in Conns, FeedFree(k) PROVE TypeOK'
  BY <1>24 DEF FeedFree
<1>25. ASSUME NEW k \in Conns, FeedClearThr(k) PROVE TypeOK'
  BY <1>25 DEF FeedClearThr
<1>26. ASSUME NEW s \in Scales, ScaleMsg(s) PROVE TypeOK'
  BY <1>26 DEF ScaleMsg
<1>27. ASSUME NEW s \in Scales, ScaleStop(s) PROVE TypeOK'
  BY <1>27 DEF ScaleStop
<1>28. ASSUME NEW s \in Scales, ReadWrfd(s) PROVE TypeOK'
  <2>1. scli[s] \in Slots /\ scli[s] + 1 \in 0 .. MaxClients
    BY <1>28 DEF ReadWrfd, Slots
  <2>2. wrfd[scli[s]][s] \in ConnOrNone
    BY <2>1
  <2>3. scli' \in [Scales -> 0 .. MaxClients]
    BY <1>28, <2>1 DEF ReadWrfd
  <2>4. spc' \in [Scales -> ScalePCs] /\ swr' \in [Scales -> ConnOrNone]
    BY <1>28, <2>2 DEF ReadWrfd
  <2>5. UNCHANGED <<table, kernel, accv, feedv, mainv, got>>
    BY <1>28 DEF ReadWrfd
  <2>6. QED
    BY <2>3, <2>4, <2>5
<1>29. ASSUME NEW s \in Scales, RoundDone(s) PROVE TypeOK'
  BY <1>29 DEF RoundDone
<1>30. ASSUME NEW s \in Scales, WriteMsg(s) PROVE TypeOK'
  <2>1. scli[s] + 1 \in 0 .. MaxClients /\ swr[s] \in Conns
    BY <1>30 DEF WriteMsg, IInv, LocalInv, Slots
  <2>2. queued[swr[s]][s] + 1 \in 0 .. PipeCap
    BY <1>30, <2>1 DEF WriteMsg, Writable
  <2>3. queued' \in [Conns -> [Scales -> 0 .. PipeCap]]
    BY <1>30, <2>1, <2>2 DEF WriteMsg
  <2>4. scli' \in [Scales -> 0 .. MaxClients]
    BY <1>30, <2>1 DEF WriteMsg
  <2>5. spc' \in [Scales -> ScalePCs] /\ swr' \in [Scales -> ConnOrNone]
    BY <1>30 DEF WriteMsg
  <2>6. UNCHANGED <<table, ropen, wopen, csock, peer, accv, feedv, mainv, got>>
    BY <1>30 DEF WriteMsg
  <2>7. QED
    BY <2>3, <2>4, <2>5, <2>6
<1>31. ASSUME NEW s \in Scales, GiveUp(s) PROVE TypeOK'
  BY <1>31 DEF GiveUp
<1>32. ASSUME NEW s \in Scales, CloseWrfd(s) PROVE TypeOK'
  BY <1>32 DEF CloseWrfd
<1>33. ASSUME NEW s \in Scales, ClearWrfd(s) PROVE TypeOK'
  <2>1. scli[s] \in Slots /\ scli[s] + 1 \in 0 .. MaxClients
    BY <1>33 DEF ClearWrfd, IInv, LocalInv, Slots
  <2>2. QED
    BY <1>33, <2>1 DEF ClearWrfd
<1>34. ASSUME SigInt PROVE TypeOK'
  BY <1>34 DEF SigInt
<1>35. ASSUME CancelThreads PROVE TypeOK'
  BY <1>35 DEF CancelThreads
<1>36. ASSUME ClearGo PROVE TypeOK'
  BY <1>36 DEF ClearGo
<1>37. ASSUME TestSock PROVE TypeOK'
  BY <1>37 DEF TestSock, Slots
<1>38. ASSUME ReadThr PROVE TypeOK'
  BY <1>38 DEF ReadThr, IInv, LocalInv
<1>39. ASSUME Joined PROVE TypeOK'
  BY <1>39 DEF Joined, IInv, LocalInv, Slots
<1>40. ASSUME ClientsStopped PROVE TypeOK'
  BY <1>40 DEF ClientsStopped
<1>41. ASSUME ScalesJoined PROVE TypeOK'
  BY <1>41 DEF ScalesJoined
<1>42. CASE UNCHANGED vars
  BY <1>42 DEF vars
<1>43. QED
    BY <1>1, <1>2, <1>3, <1>4, <1>5, <1>6, <1>7, <1>8, <1>9, <1>10, <1>11,
     <1>12, <1>13, <1>14, <1>15, <1>16, <1>17, <1>18, <1>19, <1>20, <1>21,
     <1>22, <1>23, <1>24, <1>25, <1>26, <1>27, <1>28, <1>29, <1>30, <1>31,
     <1>32, <1>33, <1>34, <1>35, <1>36, <1>37, <1>38, <1>39, <1>40, <1>41,
     <1>42
  DEF Next, Remote, Acceptor, Feed, Scale, Distribute, StopClients

(***************************************************************************)
(* The inductive invariant.                                                *)
(***************************************************************************)
\* The empty table satisfies the invariant.
LEMMA InvInit == Init => IInv
  BY ClientsAssumption DEF Init, IInv, AcceptorInv, FreshInv, SeatInv, ReadInv,
     WriteInv, LocalInv, NoCrossTalk, Holding, InSlot, Piped, Serving, Reading,
     ConnOrNone, NoFds

\* Every step of every thread keeps it, on the one before.
LEMMA InvStep == TypeOK /\ IInv /\ [Next]_vars => IInv'
<1> SUFFICES ASSUME TypeOK, IInv, [Next]_vars PROVE IInv'
  OBVIOUS
<1> USE ClientsAssumption DEF TypeOK, table, kernel, accv, feedv, scalev, mainv,
    FeedPCs, ConnOrNone,
    IInv, AcceptorInv, FreshInv, SeatInv, ReadInv, WriteInv, LocalInv,
    NoCrossTalk, Holding, InSlot, Piped, Serving, Reading
<1>1. ASSUME NEW k \in Conns, Connect(k) PROVE IInv'
  BY <1>1 DEF Connect, Peer
<1>2. ASSUME NEW k \in Conns, Stall(k) PROVE IInv'
  BY <1>2 DEF Stall, Peer
<1>3. ASSUME NEW k \in Conns, Resume(k) PROVE IInv'
  BY <1>3 DEF Resume, Peer
<1>4. ASSUME NEW k \in Conns, Leave(k) PROVE IInv'
  BY <1>4 DEF Leave, Peer
<1>5. ASSUME NEW k \in Conns, Reset(k) PROVE IInv'
  BY <1>5 DEF Reset, Peer
<1>6. ASSUME NEW k \in Conns, Accept(k) PROVE IInv'
  BY <1>6 DEF Accept
<1>7. ASSUME AcceptStop PROVE IInv'
  BY <1>7 DEF AcceptStop
<1>8. ASSUME ScanBusy PROVE IInv'
  BY <1>8 DEF ScanBusy, Slots
<1>9. ASSUME Refuse PROVE IInv'
  BY <1>9 DEF Refuse
<1>10. ASSUME TakeSlot PROVE IInv'
  BY <1>10 DEF TakeSlot, Slots
<1>11. ASSUME MakePipes PROVE IInv'
  BY <1>11 DEF MakePipes, Pipes
<1>12. ASSUME ClearFin PROVE IInv'
  BY <1>12 DEF ClearFin
<1>13. ASSUME SetGo PROVE IInv'
  BY <1>13 DEF SetGo
<1>14. ASSUME CreateFeed PROVE IInv'
  BY <1>14 DEF CreateFeed
<1>15. ASSUME CreateFail PROVE IInv'
  BY <1>15 DEF CreateFail
<1>16. ASSUME Clean PROVE IInv'
  BY <1>16 DEF Clean, NoFds
<1>17. ASSUME NEW k \in Conns, FeedSelect(k) PROVE IInv'
  BY <1>17 DEF FeedSelect
<1>18. ASSUME NEW k \in Conns, FeedStop(k) PROVE IInv'
  BY <1>18 DEF FeedStop
<1>19. ASSUME NEW k \in Conns, NEW s \in Scales, FeedEof(k, s) PROVE IInv'
  BY <1>19 DEF FeedEof
<1>20. ASSUME NEW k \in Conns, NEW s \in Scales, FeedWrite(k, s) PROVE IInv'
  BY <1>20 DEF FeedWrite
<1>21. ASSUME NEW k \in Conns, NEW s \in Scales, FeedWriteError(k, s) PROVE IInv'
  BY <1>21 DEF FeedWriteError
<1>22. ASSUME NEW k \in Conns, FeedQuit(k) PROVE IInv'
  BY <1>22 DEF FeedQuit, NoFds
<1>23. ASSUME NEW k \in Conns, FeedFin(k) PROVE IInv'
  BY <1>23 DEF FeedFin
<1>24. ASSUME NEW k \in Conns, FeedFree(k) PROVE IInv'
  BY <1>24 DEF FeedFree
<1>25. ASSUME NEW k \in Conns, FeedClearThr(k) PROVE IInv'
  BY <1>25 DEF FeedClearThr
<1>26. ASSUME NEW s \in Scales, ScaleMsg(s) PROVE IInv'
  BY <1>26 DEF ScaleMsg
<1>27. ASSUME NEW s \in Scales, ScaleStop(s) PROVE IInv'
  BY <1>27 DEF ScaleStop
<1>28. ASSUME NEW s \in Scales, ReadWrfd(s) PROVE IInv'
  <2>1. wrfd[scli[s]][s] # None => scli[s] \in Slots /\ wrfd[scli[s]][s] \in Conns
    BY <1>28 DEF ReadWrfd, Slots
  <2>2. LocalInv'
    BY <1>28, <2>1 DEF ReadWrfd
  <2>3. QED
    BY <1>28, <2>2 DEF ReadWrfd
<1>29. ASSUME NEW s \in Scales, RoundDone(s) PROVE IInv'
  BY <1>29 DEF RoundDone
<1>30. ASSUME NEW s \in Scales, WriteMsg(s) PROVE IInv'
  BY <1>30 DEF WriteMsg
<1>31. ASSUME NEW s \in Scales, GiveUp(s) PROVE IInv'
  BY <1>31 DEF GiveUp
<1>32. ASSUME NEW s \in Scales, CloseWrfd(s) PROVE IInv'
  BY <1>32 DEF CloseWrfd
<1>33. ASSUME NEW s \in Scales, ClearWrfd(s) PROVE IInv'
  BY <1>33 DEF ClearWrfd
<1>34. ASSUME SigInt PROVE IInv'
  BY <1>34 DEF SigInt
<1>35. ASSUME CancelThreads PROVE IInv'
  BY <1>35 DEF CancelThreads
<1>36. ASSUME ClearGo PROVE IInv'
  BY <1>36 DEF ClearGo
<1>37. ASSUME TestSock PROVE IInv'
  BY <1>37 DEF TestSock, Slots
<1>38. ASSUME ReadThr PROVE IInv'
  BY <1>38 DEF ReadThr
<1>39. ASSUME Joined PROVE IInv'
  BY <1>39 DEF Joined
<1>40. ASSUME ClientsStopped PROVE IInv'
  BY <1>40 DEF ClientsStopped
<1>41. ASSUME ScalesJoined PROVE IInv'
  BY <1>41 DEF ScalesJoined
<1>42. CASE UNCHANGED vars
  BY <1>42 DEF vars
<1>43. QED
    BY <1>1, <1>2, <1>3, <1>4, <1>5, <1>6, <1>7, <1>8, <1>9, <1>10, <1>11,
     <1>12, <1>13, <1>14, <1>15, <1>16, <1>17, <1>18, <1>19, <1>20, <1>21,
     <1>22, <1>23, <1>24, <1>25, <1>26, <1>27, <1>28, <1>29, <1>30, <1>31,
     <1>32, <1>33, <1>34, <1>35, <1>36, <1>37, <1>38, <1>39, <1>40, <1>41,
     <1>42
  DEF Next, Remote, Acceptor, Feed, Scale, Distribute, StopClients

(***************************************************************************)
(* The theorems.                                                           *)
(***************************************************************************)
\* The client table with all its threads keeps IInv: who is seated where, who
\* may read which pipe, and what the slot of a served connection holds.
THEOREM Invariance == Spec => [](TypeOK /\ IInv)
<1>1. Init => TypeOK /\ IInv
  BY TypeInit, InvInit
<1>2. (TypeOK /\ IInv) /\ [Next]_vars => (TypeOK /\ IInv)'
  BY TypeStep, InvStep
<1>3. QED
  BY <1>1, <1>2, PTL DEF Spec

\* Every variable of the client table and of its threads keeps its type: no
\* index leaves the table, no pipe holds more than its capacity.
THEOREM TypeCorrect == Spec => []TypeOK
  BY Invariance, PTL

\* packet_feed never sends one connection what was written for another.
THEOREM CrossTalkFree == Spec => []NoCrossTalk
<1>1. IInv => NoCrossTalk
  BY DEF IInv
<1>2. QED
  BY <1>1, Invariance, PTL

\* No read end outlives the tenancy of its slot.
THEOREM ReadEndsAlwaysHeld == Spec => []ReadEndsHeld
<1>1. TypeOK /\ IInv => ReadEndsHeld
  <2> SUFFICES ASSUME TypeOK, IInv, NEW p \in ropen
               PROVE  \E c \in Slots :
                        /\ rdfd[c][p[2]] = p[1]
                        /\ sock[c] = p[1] \/ (apc = "clean" /\ acli = c)
    BY DEF ReadEndsHeld
  <2> PICK k \in Conns, s \in Scales : p = <<k, s>>
    BY DEF TypeOK, Pipes
  <2>1. CASE Reading(k)
    <3>1. fslot[k] \in Slots /\ rdfd[fslot[k]][s] = k /\ sock[fslot[k]] = k
      BY <2>1 DEF TypeOK, IInv, ReadInv, SeatInv, Reading, Serving
    <3>2. QED
      BY <3>1
  <2>2. CASE apc \in Piped /\ aconn = k
    <3>1. acli \in Slots /\ rdfd[acli][s] = k /\ (sock[acli] = k \/ apc = "clean")
      BY <2>2 DEF IInv, ReadInv, AcceptorInv, Piped, InSlot
    <3>2. QED
      BY <3>1
  <2>3. QED
    BY <2>1, <2>2 DEF IInv, ReadInv
<1>2. QED
  BY <1>1, Invariance, PTL

\* A feed finds its own socket and pipes in its slot, a free slot has none.
THEOREM SeatAlwaysConsistent == Spec => []SeatConsistent
<1>1. TypeOK /\ IInv => SeatConsistent
  <2> SUFFICES ASSUME TypeOK, IInv, NEW c \in Slots, NEW s \in Scales
               PROVE  /\ sock[c] = None /\ ~(apc = "clean" /\ acli = c) => rdfd[c][s] = None
                      /\ \A k \in Conns : Serving(k) /\ fslot[k] = c =>
                           /\ sock[c] = k
                           /\ wrfd[c][s] \in {k, None}
                           /\ rdfd[c][s] = IF fpc[k] \in {"fin", "free"} THEN None ELSE k
    BY DEF SeatConsistent
  <2>1. ASSUME NEW k \in Conns, rdfd[c][s] = k
        PROVE  sock[c] = k \/ (apc = "clean" /\ acli = c /\ sock[c] = None)
    BY <2>1 DEF IInv, ReadInv, SeatInv, AcceptorInv, Reading, Serving, Piped, InSlot
  <2>2. sock[c] = None /\ ~(apc = "clean" /\ acli = c) => rdfd[c][s] = None
    BY <2>1, ClientsAssumption DEF TypeOK, ConnOrNone
  <2>3. ASSUME NEW k \in Conns, Serving(k), fslot[k] = c
        PROVE  sock[c] = k /\ wrfd[c][s] \in {k, None}
    BY <2>3 DEF IInv, SeatInv, WriteInv
  <2>4. ASSUME NEW k \in Conns, Serving(k), fslot[k] = c, fpc[k] \in {"fin", "free"}
        PROVE  rdfd[c][s] = None
    <3>1. ASSUME NEW j \in Conns, rdfd[c][s] = j PROVE FALSE
      <4>1. sock[c] = k /\ fpc[k] # "none"
        BY <2>4 DEF IInv, SeatInv, Serving
      <4>2. j = k /\ ~Reading(k)
        BY <2>1, <2>4, <3>1, <4>1, ClientsAssumption DEF Reading
      <4>3. QED
        BY <3>1, <4>1, <4>2 DEF IInv, ReadInv, AcceptorInv
    <3>2. QED
      BY <3>1 DEF TypeOK, ConnOrNone
  <2>5. ASSUME NEW k \in Conns, Serving(k), fslot[k] = c, fpc[k] \notin {"fin", "free"}
        PROVE  rdfd[c][s] = k
    BY <2>5 DEF IInv, ReadInv, Reading, Serving
  <2>6. QED
    BY <2>2, <2>3, <2>4, <2>5
<1>2. QED
  BY <1>1, Invariance, PTL

\* The table with all its races implements the slot pool.
THEOREM PoolImplemented == Spec => PoolSpec
<1>1. Init => Pool!Init
  BY ClientsAssumption DEF Init, Pool!Init, Retired
<1>2. TypeOK /\ IInv /\ [Next]_vars => [Pool!Next]_Pool!vars
  <2> SUFFICES ASSUME TypeOK, IInv, [Next]_vars PROVE [Pool!Next]_Pool!vars
    OBVIOUS
  <2> USE ClientsAssumption DEF TypeOK, table, kernel, accv, feedv, scalev, mainv,
      FeedPCs, ConnOrNone, Retired
  <2>1. CASE TakeSlot
    <3>1. acli \in Slots /\ aconn \in Conns
      BY <2>1 DEF TakeSlot, IInv, AcceptorInv, Holding, Slots
    <3>2. aconn \notin Retired /\ Retired' = Retired
      BY <2>1, <3>1 DEF TakeSlot, IInv, AcceptorInv
    <3>3. \A d \in Slots : sock[d] # aconn
      BY <2>1, <3>1 DEF TakeSlot, IInv, AcceptorInv, SeatInv, InSlot, Serving
    <3>4. Pool!Seat(acli, aconn)
      BY <2>1, <3>2, <3>3 DEF TakeSlot, Pool!Seat
    <3>5. QED
      BY <3>1, <3>4 DEF Pool!Next
  <2>2. CASE CreateFail
    <3>1. acli \in Slots /\ Pool!Release(acli)
      BY <2>2 DEF CreateFail, Pool!Release, IInv, AcceptorInv, Holding, InSlot
    <3>2. QED
      BY <3>1 DEF Pool!Next, Pool!Release
  <2>3. ASSUME NEW k \in Conns, FeedFree(k) PROVE Pool!Next
    <3>1. fslot[k] \in Slots /\ sock[fslot[k]] = k
      BY <2>3 DEF FeedFree, IInv, SeatInv, Serving
    <3>2. Retired' = Retired \cup {k}
      BY <2>3 DEF FeedFree
    <3>3. Pool!Release(fslot[k])
      BY <2>3, <3>1, <3>2 DEF FeedFree, Pool!Release
    <3>4. QED
      BY <3>1, <3>3 DEF Pool!Next, Pool!Release
  <2>4. ASSUME NEW k \in Conns, Remote(k) PROVE UNCHANGED <<sock, Retired>>
    BY <2>4 DEF Remote, Connect, Stall, Resume, Leave, Reset, Peer
  <2>5. ASSUME NEW k \in Conns, Accept(k) PROVE UNCHANGED <<sock, Retired>>
    BY <2>5 DEF Accept
  <2>6. CASE AcceptStop \/ ScanBusy \/ Refuse \/ MakePipes \/ ClearFin \/ SetGo \/ Clean
    <3>1. UNCHANGED <<sock, Retired>>
      BY <2>6 DEF AcceptStop, ScanBusy, Refuse, MakePipes, ClearFin, SetGo, Clean,
         IInv, AcceptorInv
    <3>2. QED
      BY <3>1 DEF Pool!vars
  <2>7. CASE CreateFeed
    <3>1. UNCHANGED <<sock, Retired>>
      BY <2>7 DEF CreateFeed, IInv, AcceptorInv, Holding
    <3>2. QED
      BY <3>1 DEF Pool!vars
  <2>8. ASSUME NEW k \in Conns, Feed(k), ~FeedFree(k) PROVE UNCHANGED <<sock, Retired>>
    <3>1. CASE FeedSelect(k) \/ FeedStop(k) \/ FeedQuit(k) \/ FeedFin(k) \/ FeedClearThr(k)
      BY <3>1 DEF FeedSelect, FeedStop, FeedQuit, FeedFin, FeedClearThr
    <3>2. CASE \E s \in Scales : FeedEof(k, s) \/ FeedWrite(k, s) \/ FeedWriteError(k, s)
      BY <3>2 DEF FeedEof, FeedWrite, FeedWriteError
    <3>3. QED
      BY <2>8, <3>1, <3>2 DEF Feed
  <2>9. ASSUME NEW s \in Scales, Scale(s) PROVE UNCHANGED <<sock, Retired>>
    BY <2>9 DEF Scale, Distribute, ScaleMsg, ScaleStop, ReadWrfd, RoundDone, WriteMsg,
       GiveUp, CloseWrfd, ClearWrfd
  <2>10. CASE SigInt \/ StopClients
    <3>1. UNCHANGED <<sock, Retired>>
      BY <2>10 DEF SigInt, StopClients, CancelThreads, ClearGo, TestSock, ReadThr,
         Joined, ClientsStopped, ScalesJoined
    <3>2. QED
      BY <3>1 DEF Pool!vars
  <2>11. CASE UNCHANGED vars
    BY <2>11 DEF vars, Pool!vars
  <2>12. QED
    BY <2>1, <2>2, <2>3, <2>4, <2>5, <2>6, <2>7, <2>8, <2>9, <2>10, <2>11
    DEF Next, Acceptor, Pool!vars
<1>3. QED
  BY <1>1, <1>2, Invariance, PTL DEF Spec, PoolSpec, Pool!Spec

(***************************************************************************)
(* Write ends.  Where a pipe's write end is, the slot is the one its       *)
(* connection was given, and while a scale works on a write end the slot   *)
(* still holds it unless the slot has had another tenant.                  *)
(***************************************************************************)
Working(s) == spc[s] \in {"act", "close", "clear"}

Another(k, c) == \E j \in Conns \ {k} : Tenant(j, c)

WriteEndInv ==
  /\ \A c \in Slots, s \in Scales, k \in Conns : wrfd[c][s] = k => Tenant(k, c)
  /\ \A s \in Scales : swr[s] # None => Working(s)
  /\ \A s \in Scales, c \in Slots, k \in Conns :
       Working(s) /\ scli[s] = c /\ swr[s] = k =>
         /\ Tenant(k, c)
         /\ spc[s] = "clear" => <<k, s>> \notin wopen
         /\ <<k, s>> \in wopen => wrfd[c][s] = k \/ Another(k, c)
  /\ \A k \in Conns, s \in Scales : <<k, s>> \in wopen =>
       \E c \in Slots : /\ Tenant(k, c)
                        /\ swr[s] = k \/ wrfd[c][s] = k \/ Another(k, c)

\* A connection has one home, and never another.
LEMMA TenantHome ==
  ASSUME IInv, NEW k \in Conns, NEW c \in Slots, Tenant(k, c)
  PROVE  SlotOf(k) = c
BY DEF IInv, AcceptorInv, Tenant, SlotOf

\* A slot once given to a connection is remembered as its slot for good.
LEMMA TenantStable ==
  ASSUME TypeOK, IInv, [Next]_vars, NEW k \in Conns, NEW c \in Slots, Tenant(k, c)
  PROVE  Tenant(k, c)'
<1> USE DEF TypeOK, IInv, AcceptorInv, Tenant, Holding, table, kernel, accv, feedv, scalev,
    mainv
<1>1. ASSUME NEW j \in Conns, Accept(j) PROVE Tenant(k, c)'
  BY <1>1 DEF Accept
<1>2. ASSUME AcceptStop PROVE Tenant(k, c)'
  BY <1>2 DEF AcceptStop
<1>3. ASSUME ScanBusy PROVE Tenant(k, c)'
  BY <1>3 DEF ScanBusy
<1>4. ASSUME Refuse PROVE Tenant(k, c)'
  BY <1>4 DEF Refuse
<1>5. ASSUME TakeSlot PROVE Tenant(k, c)'
  BY <1>5 DEF TakeSlot
<1>6. ASSUME MakePipes PROVE Tenant(k, c)'
  BY <1>6 DEF MakePipes
<1>7. ASSUME ClearFin PROVE Tenant(k, c)'
  BY <1>7 DEF ClearFin
<1>8. ASSUME SetGo PROVE Tenant(k, c)'
  BY <1>8 DEF SetGo
<1>9. ASSUME CreateFeed PROVE Tenant(k, c)'
  BY <1>9 DEF CreateFeed
<1>10. ASSUME CreateFail PROVE Tenant(k, c)'
  BY <1>10 DEF CreateFail
<1>11. ASSUME Clean PROVE Tenant(k, c)'
  BY <1>11 DEF Clean
<1>12. ASSUME NEW j \in Conns, FeedSelect(j) PROVE Tenant(k, c)'
  BY <1>12 DEF FeedSelect
<1>13. ASSUME NEW j \in Conns, FeedStop(j) PROVE Tenant(k, c)'
  BY <1>13 DEF FeedStop
<1>14. ASSUME NEW j \in Conns, NEW s \in Scales, FeedEof(j, s) PROVE Tenant(k, c)'
  BY <1>14 DEF FeedEof
<1>15. ASSUME NEW j \in Conns, NEW s \in Scales, FeedWrite(j, s) PROVE Tenant(k, c)'
  BY <1>15 DEF FeedWrite
<1>16. ASSUME NEW j \in Conns, NEW s \in Scales, FeedWriteError(j, s) PROVE Tenant(k, c)'
  BY <1>16 DEF FeedWriteError
<1>17. ASSUME NEW j \in Conns, FeedQuit(j) PROVE Tenant(k, c)'
  BY <1>17 DEF FeedQuit
<1>18. ASSUME NEW j \in Conns, FeedFin(j) PROVE Tenant(k, c)'
  BY <1>18 DEF FeedFin
<1>19. ASSUME NEW j \in Conns, FeedFree(j) PROVE Tenant(k, c)'
  BY <1>19 DEF FeedFree
<1>20. ASSUME NEW j \in Conns, FeedClearThr(j) PROVE Tenant(k, c)'
  BY <1>20 DEF FeedClearThr
<1>21. ASSUME NEW j \in Conns, Remote(j) PROVE Tenant(k, c)'
  BY <1>21 DEF Remote, Connect, Stall, Resume, Leave, Reset, Peer
<1>22. ASSUME NEW s \in Scales, Scale(s) PROVE Tenant(k, c)'
  BY <1>22 DEF Scale, Distribute, ScaleMsg, ScaleStop, ReadWrfd, RoundDone, WriteMsg,
     GiveUp, CloseWrfd, ClearWrfd
<1>23. CASE SigInt \/ StopClients
  BY <1>23 DEF SigInt, StopClients, CancelThreads, ClearGo, TestSock, ReadThr,
     Joined, ClientsStopped, ScalesJoined
<1>24. CASE UNCHANGED vars
  BY <1>24 DEF vars
<1>25. QED
    BY <1>1, <1>2, <1>3, <1>4, <1>5, <1>6, <1>7, <1>8, <1>9, <1>10, <1>11,
     <1>12, <1>13, <1>14, <1>15, <1>16, <1>17, <1>18, <1>19, <1>20, <1>21,
     <1>22, <1>23, <1>24
  DEF Next, Acceptor, Feed

\* No write end is open at the start.
LEMMA WriteEndInit == Init => WriteEndInv
  BY ClientsAssumption DEF Init, WriteEndInv, NoFds, Working

\* Every step keeps track of the open write ends.
LEMMA WriteEndStep == TypeOK /\ IInv /\ WriteEndInv /\ [Next]_vars => WriteEndInv'
<1> SUFFICES ASSUME TypeOK, IInv, WriteEndInv, [Next]_vars PROVE WriteEndInv'
  OBVIOUS
<1>a. \A k \in Conns, c \in Slots : Tenant(k, c) => Tenant(k, c)'
  BY TenantStable
<1>b. \A k \in Conns, c \in Slots : Another(k, c) => Another(k, c)'
  BY <1>a DEF Another
<1>c. \A s \in Scales : Working(s) => scli[s] \in Slots /\ swr[s] \in Conns
  BY DEF IInv, LocalInv, Working
<1>d. ASSUME NEW k \in Conns, NEW c \in Slots, NEW d \in Slots, Tenant(k, c), Tenant(k, d)
      PROVE  c = d
  BY <1>d, TenantHome
<1>1. CASE UNCHANGED <<wrfd, wopen, scalev>>
  BY <1>1, <1>a, <1>b DEF WriteEndInv, scalev, Working
<1>2. CASE MakePipes
  <2> PICK a \in Conns, d \in Slots : a = aconn /\ d = acli
    BY <1>2 DEF MakePipes, IInv, AcceptorInv, Holding, InSlot
  <2>1. Tenant(a, d)' /\ UNCHANGED scalev /\ ~\E c \in Slots : Tenant(a, c)
    BY <1>2 DEF MakePipes, Tenant, IInv, AcceptorInv, Holding
  <2>2. \A c \in Slots, s \in Scales : wrfd'[c][s] = IF c = d THEN a ELSE wrfd[c][s]
    BY <1>2 DEF MakePipes, TypeOK
  <2>3. \A k \in Conns, s \in Scales : <<k, s>> \in wopen' <=> k = a \/ <<k, s>> \in wopen
    BY <1>2 DEF MakePipes
  <2>4. \A k \in Conns \ {a} : Another(k, d)'
    BY <2>1 DEF Another
  <2>5. \A c \in Slots, s \in Scales, k \in Conns : wrfd'[c][s] = k => Tenant(k, c)'
    BY <1>a, <2>1, <2>2 DEF WriteEndInv
  <2>6. ASSUME NEW s \in Scales, NEW c \in Slots, NEW k \in Conns,
               Working(s), scli[s] = c, swr[s] = k
        PROVE  /\ Tenant(k, c)'
               /\ spc[s] = "clear" => <<k, s>> \notin wopen'
               /\ <<k, s>> \in wopen' => wrfd'[c][s] = k \/ Another(k, c)'
    <3>1. Tenant(k, c) /\ k # a
      BY <2>1, <2>6 DEF WriteEndInv
    <3>2. QED
      BY <1>a, <1>b, <2>2, <2>3, <2>4, <2>6, <3>1 DEF WriteEndInv
  <2>7. ASSUME NEW k \in Conns, NEW s \in Scales, <<k, s>> \in wopen'
        PROVE  \E c \in Slots : /\ Tenant(k, c)'
                                /\ swr[s] = k \/ wrfd'[c][s] = k \/ Another(k, c)'
    <3>1. CASE k = a
      BY <2>1, <2>2, <3>1
    <3>2. CASE k # a
      <4>1. <<k, s>> \in wopen
        BY <2>3, <2>7, <3>2
      <4>2. PICK c \in Slots : /\ Tenant(k, c)
                               /\ swr[s] = k \/ wrfd[c][s] = k \/ Another(k, c)
        BY <4>1 DEF WriteEndInv
      <4>3. Tenant(k, c)' /\ (Another(k, c) => Another(k, c)')
        BY <1>a, <1>b, <4>2
      <4>4. wrfd[c][s] = k => wrfd'[c][s] = k \/ Another(k, c)'
        BY <2>2, <2>4, <3>2
      <4>5. QED
        BY <4>2, <4>3, <4>4
    <3>3. QED
      BY <3>1, <3>2
  <2>8. QED
    BY <2>1, <2>5, <2>6, <2>7 DEF WriteEndInv, scalev, Working
<1>3. CASE Clean
  <2> PICK a \in Conns, d \in Slots : a = aconn /\ d = acli
    BY <1>3 DEF Clean, IInv, AcceptorInv, Holding, InSlot
  <2>1. Tenant(a, d)' /\ UNCHANGED scalev
    BY <1>3 DEF Clean, Tenant
  <2>2. \A c \in Slots, s \in Scales : wrfd'[c][s] = IF c = d THEN None ELSE wrfd[c][s]
    BY <1>3 DEF Clean, TypeOK, NoFds
  <2>3. \A k \in Conns, s \in Scales : <<k, s>> \in wopen' => <<k, s>> \in wopen /\ k # wrfd[d][s]
    BY <1>3 DEF Clean
  <2>4. \A c \in Slots, s \in Scales, k \in Conns : wrfd'[c][s] = k => Tenant(k, c)'
    BY <1>a, <2>2, ClientsAssumption DEF WriteEndInv
  <2>5. ASSUME NEW s \in Scales, NEW c \in Slots, NEW k \in Conns,
               Working(s), scli[s] = c, swr[s] = k
        PROVE  /\ Tenant(k, c)'
               /\ spc[s] = "clear" => <<k, s>> \notin wopen'
               /\ <<k, s>> \in wopen' => wrfd'[c][s] = k \/ Another(k, c)'
    BY <1>a, <1>b, <2>2, <2>3, <2>5 DEF WriteEndInv
  <2>6. ASSUME NEW k \in Conns, NEW s \in Scales, <<k, s>> \in wopen'
        PROVE  \E c \in Slots : /\ Tenant(k, c)'
                                /\ swr[s] = k \/ wrfd'[c][s] = k \/ Another(k, c)'
    <3>1. <<k, s>> \in wopen /\ k # wrfd[d][s]
      BY <2>3, <2>6
    <3>2. PICK c \in Slots : /\ Tenant(k, c)
                             /\ swr[s] = k \/ wrfd[c][s] = k \/ Another(k, c)
      BY <3>1 DEF WriteEndInv
    <3>3. Tenant(k, c)' /\ (Another(k, c) => Another(k, c)')
      BY <1>a, <1>b, <3>2
    <3>4. wrfd[c][s] = k => wrfd'[c][s] = k
      BY <2>2, <3>1
    <3>5. QED
      BY <3>2, <3>3, <3>4
  <2>7. QED
    BY <2>1, <2>4, <2>5, <2>6 DEF WriteEndInv, scalev, Working
<1>4. ASSUME NEW t \in Scales, ScaleMsg(t) \/ ScaleStop(t) \/ RoundDone(t) PROVE WriteEndInv'
  <2>1. UNCHANGED <<wrfd, wopen, swr>>
    BY <1>4 DEF ScaleMsg, ScaleStop, RoundDone, table, kernel
  <2>2. \A s \in Scales : /\ Working(s)' <=> Working(s)
                          /\ Working(s) => spc'[s] = spc[s] /\ scli'[s] = scli[s]
    BY <1>4 DEF ScaleMsg, ScaleStop, RoundDone, Working, TypeOK
  <2>3. QED
    <3>1. ASSUME NEW s \in Scales, NEW c \in Slots, NEW k \in Conns,
                 Working(s)', scli'[s] = c, swr'[s] = k
          PROVE  /\ Tenant(k, c)'
                 /\ spc'[s] = "clear" => <<k, s>> \notin wopen'
                 /\ <<k, s>> \in wopen' => wrfd'[c][s] = k \/ Another(k, c)'
      <4>1. Working(s) /\ scli[s] = c /\ swr[s] = k /\ spc'[s] = spc[s]
        BY <2>1, <2>2, <3>1 DEF Working
      <4>2. QED
        BY <1>a, <1>b, <2>1, <4>1 DEF WriteEndInv
    <3>2. \A s \in Scales : swr'[s] # None => Working(s)'
      BY <2>1, <2>2 DEF WriteEndInv
    <3>3. QED
      BY <1>a, <1>b, <2>1, <3>1, <3>2 DEF WriteEndInv
<1>5. ASSUME NEW t \in Scales, ReadWrfd(t) PROVE WriteEndInv'
  <2>1. UNCHANGED <<wrfd, wopen>>
    BY <1>5 DEF ReadWrfd, table, kernel
  <2>2. ~Working(t) /\ swr[t] = None
    BY <1>5 DEF ReadWrfd, Working, WriteEndInv
  <2>3. CASE wrfd[scli[t]][t] = None
    <3>1. UNCHANGED <<spc, swr>> /\ \A s \in Scales : Working(s) => scli'[s] = scli[s]
      BY <1>5, <2>2, <2>3 DEF ReadWrfd, TypeOK
    <3>2. QED
      BY <1>a, <1>b, <2>1, <3>1 DEF WriteEndInv, Working
  <2>4. CASE wrfd[scli[t]][t] # None
    <3>1. PICK c \in Slots, k \in Conns : scli[t] = c /\ wrfd[c][t] = k
      <4>1. scli[t] \in Slots
        BY <1>5, ClientsAssumption DEF ReadWrfd, TypeOK, Slots
      <4>2. QED
        BY <2>4, <4>1 DEF TypeOK, ConnOrNone
    <3>2. /\ scli' = scli
          /\ swr' = [swr EXCEPT ![t] = k]
          /\ spc' = [spc EXCEPT ![t] = "act"]
      BY <1>5, <2>4, <3>1 DEF ReadWrfd
    <3>3. Tenant(k, c)'
      BY <1>a, <3>1 DEF WriteEndInv
    <3>4. \A s \in Scales : Working(s)' <=> Working(s) \/ s = t
      BY <3>2 DEF Working, TypeOK
    <3>5. \A s \in Scales : s # t => swr'[s] = swr[s] /\ spc'[s] = spc[s]
      BY <3>2 DEF TypeOK
    <3>6. swr'[t] = k /\ spc'[t] = "act"
      BY <3>2 DEF TypeOK
    <3>7. \A j \in Conns, s \in Scales : swr[s] = j => swr'[s] = j
      BY <2>2, <3>5, ClientsAssumption
    <3>8. QED
      BY <1>a, <1>b, <2>1, <3>1, <3>2, <3>3, <3>4, <3>5, <3>6, <3>7 DEF WriteEndInv
  <2>5. QED
    BY <2>3, <2>4
<1>9. ASSUME NEW t \in Scales, ClearWrfd(t) PROVE WriteEndInv'
  <2>1. PICK c \in Slots, k \in Conns : scli[t] = c /\ swr[t] = k
    BY <1>9, <1>c DEF ClearWrfd, Working
  <2>2. wopen' = wopen /\ <<k, t>> \notin wopen /\ Tenant(k, c)
    BY <1>9, <2>1 DEF ClearWrfd, WriteEndInv, Working, kernel
  <2>3. \A d \in Slots, s \in Scales :
          wrfd'[d][s] = IF d = c /\ s = t THEN None ELSE wrfd[d][s]
    BY <1>9, <2>1 DEF ClearWrfd, TypeOK
  <2>4. /\ swr'[t] = None /\ ~Working(t)'
        /\ \A s \in Scales : s # t => /\ swr'[s] = swr[s] /\ spc'[s] = spc[s]
                                      /\ scli'[s] = scli[s]
    BY <1>9 DEF ClearWrfd, TypeOK, Working
  <2>5. \A j \in Conns : j # k => Another(j, c)'
    BY <1>a, <2>2 DEF Another
  <2>6. \A d \in Slots, s \in Scales, j \in Conns : wrfd'[d][s] = j => Tenant(j, d)'
    BY <1>a, <2>3, ClientsAssumption DEF WriteEndInv
  <2>7. ASSUME NEW s \in Scales, NEW d \in Slots, NEW j \in Conns,
               Working(s)', scli'[s] = d, swr'[s] = j
        PROVE  /\ Tenant(j, d)'
               /\ spc'[s] = "clear" => <<j, s>> \notin wopen'
               /\ <<j, s>> \in wopen' => wrfd'[d][s] = j \/ Another(j, d)'
    <3>1. s # t /\ Working(s) /\ scli[s] = d /\ swr[s] = j /\ spc'[s] = spc[s]
      BY <2>4, <2>7 DEF Working
    <3>2. wrfd'[d][s] = wrfd[d][s]
      BY <2>3, <3>1
    <3>3. QED
      BY <1>a, <1>b, <2>2, <3>1, <3>2 DEF WriteEndInv
  <2>8. ASSUME NEW j \in Conns, NEW s \in Scales, <<j, s>> \in wopen'
        PROVE  \E d \in Slots : /\ Tenant(j, d)'
                                /\ swr'[s] = j \/ wrfd'[d][s] = j \/ Another(j, d)'
    <3>1. PICK d \in Slots : /\ Tenant(j, d)
                             /\ swr[s] = j \/ wrfd[d][s] = j \/ Another(j, d)
      BY <2>2, <2>8 DEF WriteEndInv
    <3>2. Tenant(j, d)' /\ (Another(j, d) => Another(j, d)')
      BY <1>a, <1>b, <3>1
    <3>3. s = t => j # k
      BY <2>2, <2>8
    <3>4. swr[s] = j => swr'[s] = j
      <4>1. CASE s = t
        BY <2>1, <3>3, <4>1
      <4>2. CASE s # t
        BY <2>4, <4>2
      <4>3. QED
        BY <4>1, <4>2
    <3>5. wrfd[d][s] = j => wrfd'[d][s] = j \/ Another(j, d)'
      BY <2>3, <2>5, <3>3
    <3>6. QED
      BY <3>1, <3>2, <3>4, <3>5
  <2>9. QED
    <3>1. \A s \in Scales : swr'[s] # None => Working(s)'
      BY <2>4 DEF WriteEndInv, Working
    <3>2. QED
      BY <2>6, <2>7, <2>8, <3>1 DEF WriteEndInv
<1> USE DEF WriteEndInv, scalev, Working, TypeOK, table, kernel
<1>6. ASSUME NEW t \in Scales, WriteMsg(t) PROVE WriteEndInv'
  BY <1>6, <1>a, <1>b, <1>c, <1>d DEF WriteMsg
<1>7. ASSUME NEW t \in Scales, GiveUp(t) PROVE WriteEndInv'
  BY <1>7, <1>a, <1>b, <1>c DEF GiveUp
<1>8. ASSUME NEW t \in Scales, CloseWrfd(t) PROVE WriteEndInv'
  BY <1>8, <1>a, <1>b, <1>c DEF CloseWrfd
<1>10. ASSUME NEW k \in Conns, Remote(k) PROVE UNCHANGED <<wrfd, wopen, scalev>>
  BY <1>10 DEF Remote, Connect, Stall, Resume, Leave, Reset, Peer
<1>11. ASSUME NEW k \in Conns, Accept(k) PROVE UNCHANGED <<wrfd, wopen, scalev>>
  BY <1>11 DEF Accept
<1>12. CASE \/ AcceptStop \/ ScanBusy \/ Refuse \/ TakeSlot \/ ClearFin \/ SetGo
            \/ CreateFeed \/ CreateFail
  <2>1. UNCHANGED <<wrfd, wopen, scalev>>
    BY <1>12 DEF AcceptStop, ScanBusy, Refuse, TakeSlot, ClearFin, SetGo, CreateFeed,
       CreateFail
  <2>2. QED
    BY <1>1, <2>1
<1>13. ASSUME NEW k \in Conns, Feed(k) PROVE UNCHANGED <<wrfd, wopen, scalev>>
  <2>1. CASE FeedSelect(k) \/ FeedStop(k) \/ FeedQuit(k) \/ FeedFin(k) \/ FeedFree(k)
             \/ FeedClearThr(k)
    BY <2>1 DEF FeedSelect, FeedStop, FeedQuit, FeedFin, FeedFree, FeedClearThr
  <2>2. CASE \E s \in Scales : FeedEof(k, s) \/ FeedWrite(k, s) \/ FeedWriteError(k, s)
    BY <2>2 DEF FeedEof, FeedWrite, FeedWriteError
  <2>3. QED
    BY <1>13, <2>1, <2>2 DEF Feed
<1>14. CASE SigInt \/ StopClients
  <2>1. UNCHANGED <<wrfd, wopen, scalev>>
    BY <1>14 DEF SigInt, StopClients, CancelThreads, ClearGo, TestSock, ReadThr,
       Joined, ClientsStopped, ScalesJoined
  <2>2. QED
    BY <1>1, <2>1
<1>15. CASE UNCHANGED vars
  <2>1. UNCHANGED <<wrfd, wopen, scalev>>
    BY <1>15 DEF vars
  <2>2. QED
    BY <1>1, <2>1
<1>16. QED
  BY <1>1, <1>2, <1>3, <1>4, <1>5, <1>6, <1>7, <1>8, <1>9, <1>10, <1>11, <1>12, <1>13,
     <1>14, <1>15
  DEF Next, Acceptor, Scale, Distribute

\* What DISTRIBUTE_WEIGHT, register_client and clean_client do between them
\* never loses a write end of a slot's first tenant.
THEOREM LossOnlyByReuse == Spec => []LossNeedsReuse
<1>1. Init => WriteEndInv
  BY WriteEndInit
<1>2. TypeOK /\ IInv /\ WriteEndInv /\ [Next]_vars => WriteEndInv'
  BY WriteEndStep
<1>3. TypeOK /\ IInv /\ WriteEndInv => LossNeedsReuse
  <2> SUFFICES ASSUME TypeOK, IInv, WriteEndInv, NEW p \in wopen
               PROVE  Held(p) \/ \E k \in Conns \ {p[1]} : Tenant(k, SlotOf(p[1]))
    BY DEF LossNeedsReuse
  <2>1. PICK j \in Conns, s \in Scales : p = <<j, s>>
    BY DEF TypeOK, Pipes
  <2>2. PICK c \in Slots : /\ Tenant(j, c)
                           /\ swr[s] = j \/ wrfd[c][s] = j \/ Another(j, c)
    BY <2>1 DEF WriteEndInv
  <2>3. SlotOf(j) = c
    BY <2>2, TenantHome
  <2>4. QED
    BY <2>1, <2>2, <2>3 DEF Held, Another
<1>4. QED
  BY <1>1, <1>2, <1>3, Invariance, PTL DEF Spec
=============================================================================
