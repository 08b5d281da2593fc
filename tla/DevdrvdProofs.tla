---------------------------- MODULE DevdrvdProofs ----------------------------
(***************************************************************************)
(* Proofs about Devdrvd for any number of servers, slots and connections.  *)
(* The invariant says who holds which lock, which servers main may read    *)
(* from, and who uses a slot of the pool.                                  *)
(***************************************************************************)
EXTENDS Devdrvd, FiniteSetTheorems, TLAPS

\* A server has a connect_client or a connection; the server whose thread is
\* in connect() holds connect_lock; main holds it while it serves, and what
\* it has selected stays connected until main itself closes it.
ServerInv ==
  /\ \A s \in Servers : connected[s] => cpc[s] = "done"
  /\ \A s \in Servers : cpc[s] = "done" /\ Running => connected[s]
  /\ \A s \in Servers : cpc[s] = "connect" => clock = "connect"
  /\ \A s, t \in Servers : cpc[s] = "connect" /\ cpc[t] = "connect" => s = t
  /\ mpc \in {"serve", "slot", "write"} => clock = "main"
  /\ mpc \in {"select", "relock", "serve", "slot", "write"} =>
       \A s \in selected : connected[s]

\* Where main's indices point.
MainInv ==
  /\ mpc \in {"slot", "write"} => mi \in Servers
  /\ mpc = "write" => mj \in Slots

\* Who holds the lock of a slot.
LockInv ==
  /\ \A c \in Slots : slock[c] = "main" <=> mpc = "write" /\ mj = c
  /\ \A c \in Slots, k \in Conns :
       slock[c] = k <=> fpc[k] \in {"close", "clear"} /\ fslot[k] = c

\* Who uses a slot; what runcontrol registers has no feed and no slot yet.
ConnInv ==
  /\ \A c, d \in Slots : owner[c] # None /\ owner[c] = owner[d] => c = d
  /\ \A k \in Conns : peer[k] = "new" =>
       fpc[k] = "none" /\ k \notin orphans /\ \A c \in Slots : owner[c] # k
  /\ \A k \in orphans : fpc[k] = "none"
  /\ rpc \in {"register", "create"} =>
       /\ rconn \in Conns /\ rconn \in wopen /\ rconn \notin orphans
       /\ fpc[rconn] = "none" /\ peer[rconn] # "new"
  /\ rpc = "register" => \A c \in Slots : owner[c] # rconn
  /\ rpc = "create" => ri \in Slots /\ owner[ri] = rconn

Used == {c \in Slots : owner[c] # None}

\* All but clients_number, whose type follows from ClientsCounted.
Types ==
  /\ connected \in [Servers -> BOOLEAN]
  /\ selected \subseteq Servers
  /\ up \in [Servers -> BOOLEAN]
  /\ data \in [Servers -> BOOLEAN]
  /\ broken \in [Servers -> BOOLEAN]
  /\ cpc \in [Servers -> ConnectPCs]
  /\ clock \in {"free", "main", "connect"}
  /\ mpc \in MainPCs
  /\ mi \in 0 .. ServerCnt /\ mj \in 0 .. MaxClients
  /\ maxfd \in BOOLEAN /\ mlen \in 0 .. 1 /\ shutdown_flag \in BOOLEAN
  /\ owner \in [Slots -> Conns \cup {None}]
  /\ slock \in [Slots -> Conns \cup {None, "main"}]
  /\ rpc \in {"accept", "register", "create", "quit"}
  /\ rconn \in Conns \cup {None}
  /\ ri \in 0 .. MaxClients
  /\ fpc \in [Conns -> FeedPCs]
  /\ fslot \in [Conns -> Slots]
  /\ piped \in [Conns -> 0 .. PipeCap]
  /\ wopen \subseteq Conns
  /\ peer \in [Conns -> {"new", "up", "slow", "gone"}]
  /\ strayed \subseteq Conns /\ orphans \subseteq Conns

IInv ==
  /\ Types /\ ServerInv /\ MainInv /\ LockInv /\ ConnInv
  /\ FeedHasSlot /\ SlotHasFeed /\ NoStray /\ ClientsCounted

\* What a step that leaves the pool and main's place in it alone preserves.
PoolPart == LockInv /\ ConnInv /\ FeedHasSlot /\ SlotHasFeed /\ NoStray /\ ClientsCounted

\* A step that leaves the pool alone keeps what is said of it.
LEMMA PoolUntouched ==
  ASSUME IInv, UNCHANGED pool,
         UNCHANGED <<mpc, mj>> \/ (mpc # "write" /\ mpc' # "write")
  PROVE  PoolPart'
<1>1. LockInv'
  BY DEF IInv, LockInv, pool
<1>2. ConnInv' /\ FeedHasSlot' /\ SlotHasFeed' /\ NoStray' /\ ClientsCounted'
  BY DEF IInv, ConnInv, FeedHasSlot, SlotHasFeed, NoStray, ClientsCounted, pool
<1>3. QED
  BY <1>1, <1>2 DEF PoolPart

\* What a step that leaves servers, main and connect_lock alone preserves.
ServerPart == ServerInv /\ MainInv

\* A step that leaves servers, lock and main alone keeps what is said of them.
LEMMA ServerUntouched ==
  ASSUME IInv, UNCHANGED <<server, clock, main>>
  PROVE  ServerPart'
BY DEF IInv, ServerInv, MainInv, ServerPart, Running, server, main

\* The number of slots in use is a number of slots.
LEMMA UsedSlots == IsFiniteSet(Used) /\ Cardinality(Used) \in 0 .. MaxClients
<1>1. IsFiniteSet(Slots) /\ Cardinality(Slots) = MaxClients
  BY FS_Interval, DevdrvdAssumption, SMT DEF Slots
<1>2. IsFiniteSet(Used) /\ Cardinality(Used) <= Cardinality(Slots)
  BY <1>1, FS_Subset DEF Used
<1>3. Cardinality(Used) \in Nat
  BY <1>2, FS_CardinalityType
<1>4. QED
  BY <1>1, <1>2, <1>3, DevdrvdAssumption, SMT

\* The invariant gives the type of every variable.
LEMMA IInvTypes == IInv => TypeOK
BY UsedSlots DEF IInv, Types, TypeOK, ClientsCounted, Used

\* The invariant holds at the start.
LEMMA InitIInv == Init => IInv
<1> SUFFICES ASSUME Init PROVE IInv
  OBVIOUS
<1>1. Types
  <2>1. 0 \in 0 .. ServerCnt /\ 0 \in 0 .. MaxClients /\ 0 \in 0 .. PipeCap /\ 0 \in Slots
    BY DevdrvdAssumption, SMT DEF Slots
  <2>2. 0 \in 0 .. 1
    BY SMT
  <2>3. QED
    BY <2>1, <2>2 DEF Init, Types, ConnectPCs, MainPCs, FeedPCs
<1>2. ServerInv /\ MainInv
  BY DEF Init, ServerInv, MainInv
<1>3. LockInv /\ ConnInv
  BY DevdrvdAssumption DEF Init, LockInv, ConnInv
<1>4. FeedHasSlot /\ SlotHasFeed /\ NoStray
  BY DEF Init, FeedHasSlot, SlotHasFeed, NoStray
<1>5. ClientsCounted
  <2>1. {c \in Slots : owner[c] # None} = {}
    BY DEF Init
  <2>2. QED
    BY <2>1, FS_EmptySet DEF Init, ClientsCounted
<1>6. QED
  BY <1>1, <1>2, <1>3, <1>4, <1>5 DEF IInv

\* Servers that send touch no lock.
LEMMA ServerSendsKeeps ==
  ASSUME IInv, NEW s \in Servers, ServerSends(s)
  PROVE  IInv'
<1>1. Types'
  BY DevdrvdAssumption, SMT
  DEF IInv, Types, MainInv, ConnectPCs, MainPCs, FeedPCs, Servers, Slots, ServerSends, main,
      pool
<1>2. ServerInv' /\ MainInv'
  BY DevdrvdAssumption
  DEF IInv, Types, ServerInv, Running, MainPCs, MainInv, ServerSends, main
<1>3. PoolPart'
  BY PoolUntouched DEF ServerSends, main, IInv, Types, MainPCs
<1>4. QED
  BY <1>1, <1>2, <1>3 DEF IInv, PoolPart

\* A server may go at any time: connected is not the same as alive.
LEMMA ServerDownKeeps ==
  ASSUME IInv, NEW s \in Servers, ServerDown(s)
  PROVE  IInv'
<1>1. Types'
  BY DevdrvdAssumption, SMT
  DEF IInv, Types, MainInv, ConnectPCs, MainPCs, FeedPCs, Servers, Slots, ServerDown, main,
      pool
<1>2. ServerInv' /\ MainInv'
  BY DevdrvdAssumption
  DEF IInv, Types, ServerInv, Running, MainPCs, MainInv, ServerDown, main
<1>3. PoolPart'
  BY PoolUntouched DEF ServerDown, main, IInv, Types, MainPCs
<1>4. QED
  BY <1>1, <1>2, <1>3 DEF IInv, PoolPart

\* A server that is back changes nothing here.
LEMMA ServerBackKeeps ==
  ASSUME IInv, NEW s \in Servers, ServerBack(s)
  PROVE  IInv'
<1>1. Types'
  BY DevdrvdAssumption, SMT
  DEF IInv, Types, MainInv, ConnectPCs, MainPCs, FeedPCs, Servers, Slots, ServerBack, main,
      pool
<1>2. ServerInv' /\ MainInv'
  BY DevdrvdAssumption
  DEF IInv, Types, ServerInv, Running, MainPCs, MainInv, ServerBack, main
<1>3. PoolPart'
  BY PoolUntouched DEF ServerBack, main, IInv, Types, MainPCs
<1>4. QED
  BY <1>1, <1>2, <1>3 DEF IInv, PoolPart

\* connect_client starts only for a server without a connection.
LEMMA ConnectStartKeeps ==
  ASSUME IInv, NEW s \in Servers, ConnectStart(s)
  PROVE  IInv'
<1>1. Types'
  BY DevdrvdAssumption, SMT
  DEF IInv, Types, MainInv, ConnectPCs, MainPCs, FeedPCs, Servers, Slots, ConnectStart,
      Connector, main, pool
<1>2. ServerInv' /\ MainInv'
  BY DevdrvdAssumption
  DEF IInv, Types, ServerInv, Running, MainPCs, MainInv, ConnectStart, Connector, main
<1>3. PoolPart'
  BY PoolUntouched DEF ConnectStart, Connector, main, IInv, Types, MainPCs
<1>4. QED
  BY <1>1, <1>2, <1>3 DEF IInv, PoolPart

\* connect() is called with the lock, which was free.
LEMMA ConnectTryKeeps ==
  ASSUME IInv, NEW s \in Servers, ConnectTry(s)
  PROVE  IInv'
<1>1. Types'
  BY DevdrvdAssumption, SMT
  DEF IInv, Types, MainInv, ConnectPCs, MainPCs, FeedPCs, Servers, Slots, ConnectTry,
      Connector, main, pool
<1>2. ServerInv' /\ MainInv'
  BY DevdrvdAssumption
  DEF IInv, Types, ServerInv, Running, MainPCs, MainInv, ConnectTry, Connector, main
<1>3. PoolPart'
  BY PoolUntouched DEF ConnectTry, Connector, main, IInv, Types, MainPCs
<1>4. QED
  BY <1>1, <1>2, <1>3 DEF IInv, PoolPart

\* connected is set while the lock is still held.
LEMMA ConnectDoneKeeps ==
  ASSUME IInv, NEW s \in Servers, ConnectDone(s)
  PROVE  IInv'
<1>1. Types'
  BY DevdrvdAssumption, SMT
  DEF IInv, Types, MainInv, ConnectPCs, MainPCs, FeedPCs, Servers, Slots, ConnectDone,
      Connector, main, pool
<1>2. ServerInv' /\ MainInv'
  BY DevdrvdAssumption
  DEF IInv, Types, ServerInv, Running, MainPCs, MainInv, ConnectDone, Connector, main
<1>3. PoolPart'
  BY PoolUntouched DEF ConnectDone, Connector, main, IInv, Types, MainPCs
<1>4. QED
  BY <1>1, <1>2, <1>3 DEF IInv, PoolPart

\* A failed attempt gives the lock back.
LEMMA ConnectFailsKeeps ==
  ASSUME IInv, NEW s \in Servers, ConnectFails(s)
  PROVE  IInv'
<1>1. Types'
  <2>1. PICK l \in {"sleep", "again", "failed"} : cpc' = [cpc EXCEPT ![s] = l]
    BY DEF ConnectFails
  <2>2. cpc' \in [Servers -> ConnectPCs]
    BY <2>1 DEF IInv, Types, ConnectPCs
  <2>3. QED
    BY <2>2 DEF IInv, Types, ConnectFails, main, pool
<1>2. ServerInv' /\ MainInv'
  BY DevdrvdAssumption
  DEF IInv, Types, ServerInv, Running, MainPCs, MainInv, ConnectFails, main
<1>3. PoolPart'
  BY PoolUntouched DEF ConnectFails, main, IInv, Types, MainPCs
<1>4. QED
  BY <1>1, <1>2, <1>3 DEF IInv, PoolPart

\* The thread goes from its sleep to the lock, without it.
LEMMA ConnectAwakeKeeps ==
  ASSUME IInv, NEW s \in Servers, ConnectAwake(s)
  PROVE  IInv'
<1>1. Types'
  BY DevdrvdAssumption, SMT
  DEF IInv, Types, MainInv, ConnectPCs, MainPCs, FeedPCs, Servers, Slots, ConnectAwake,
      Connector, main, pool
<1>2. ServerInv' /\ MainInv'
  BY DevdrvdAssumption
  DEF IInv, Types, ServerInv, Running, MainPCs, MainInv, ConnectAwake, Connector, main
<1>3. PoolPart'
  BY PoolUntouched DEF ConnectAwake, Connector, main, IInv, Types, MainPCs
<1>4. QED
  BY <1>1, <1>2, <1>3 DEF IInv, PoolPart

\* main tests shutdown_flag.
LEMMA LoopTestKeeps ==
  ASSUME IInv, LoopTest
  PROVE  IInv'
<1>1. Types'
  BY DevdrvdAssumption, SMT
  DEF IInv, Types, MainInv, ConnectPCs, MainPCs, FeedPCs, Servers, Slots, LoopTest, Main,
      server, pool
<1>2. ServerInv' /\ MainInv'
  BY DevdrvdAssumption
  DEF IInv, Types, ServerInv, Running, MainPCs, MainInv, LoopTest, Main, server
<1>3. PoolPart'
  BY PoolUntouched DEF LoopTest, Main, main, IInv, Types, MainPCs
<1>4. QED
  BY <1>1, <1>2, <1>3 DEF IInv, PoolPart

\* What is selected is connected.
LEMMA FdSetKeeps ==
  ASSUME IInv, FdSet
  PROVE  IInv'
<1>1. Types'
  BY DevdrvdAssumption, SMT
  DEF IInv, Types, MainInv, ConnectPCs, MainPCs, FeedPCs, Servers, Slots, FdSet, pool
<1>2. ServerInv' /\ MainInv'
  BY DevdrvdAssumption DEF IInv, Types, ServerInv, Running, MainPCs, MainInv, FdSet
<1>3. PoolPart'
  BY PoolUntouched DEF FdSet, main, IInv, Types, MainPCs
<1>4. QED
  BY <1>1, <1>2, <1>3 DEF IInv, PoolPart

\* pselect leaves some of the selected.
LEMMA SelectReadyKeeps ==
  ASSUME IInv, SelectReady
  PROVE  IInv'
<1>1. Types'
  <2>1. selected' \subseteq Servers
    BY DEF IInv, Types, SelectReady
  <2>2. QED
    BY <2>1 DEF IInv, Types, MainPCs, SelectReady, Main, pool
<1>2. ServerInv' /\ MainInv'
  BY DevdrvdAssumption
  DEF IInv, Types, ServerInv, Running, MainPCs, MainInv, SelectReady, Main
<1>3. PoolPart'
  BY PoolUntouched DEF SelectReady, Main, main, IInv, Types, MainPCs
<1>4. QED
  BY <1>1, <1>2, <1>3 DEF IInv, PoolPart

\* Nothing is selected any more.
LEMMA SelectTimeoutKeeps ==
  ASSUME IInv, SelectTimeout
  PROVE  IInv'
<1>1. Types'
  BY DevdrvdAssumption, SMT
  DEF IInv, Types, MainInv, ConnectPCs, MainPCs, FeedPCs, Servers, Slots, SelectTimeout,
      Main, pool
<1>2. ServerInv' /\ MainInv'
  BY DevdrvdAssumption
  DEF IInv, Types, ServerInv, Running, MainPCs, MainInv, SelectTimeout, Main
<1>3. PoolPart'
  BY PoolUntouched DEF SelectTimeout, Main, main, IInv, Types, MainPCs
<1>4. QED
  BY <1>1, <1>2, <1>3 DEF IInv, PoolPart

\* main keeps the lock, and is about to stop.
LEMMA SelectInterruptedKeeps ==
  ASSUME IInv, SelectInterrupted
  PROVE  IInv'
<1>1. Types'
  BY DevdrvdAssumption, SMT
  DEF IInv, Types, MainInv, ConnectPCs, MainPCs, FeedPCs, Servers, Slots, SelectInterrupted,
      server, pool
<1>2. ServerInv' /\ MainInv'
  BY DevdrvdAssumption
  DEF IInv, Types, ServerInv, Running, MainPCs, MainInv, SelectInterrupted, server
<1>3. PoolPart'
  BY PoolUntouched DEF SelectInterrupted, main, IInv, Types, MainPCs
<1>4. QED
  BY <1>1, <1>2, <1>3 DEF IInv, PoolPart

\* No connect_client is inside its attempt when main has the lock.
LEMMA RelockKeeps ==
  ASSUME IInv, Relock
  PROVE  IInv'
<1>1. Types'
  BY DevdrvdAssumption, SMT
  DEF IInv, Types, MainInv, ConnectPCs, MainPCs, FeedPCs, Servers, Slots, Relock, Main,
      server, pool
<1>2. ServerInv' /\ MainInv'
  BY DevdrvdAssumption
  DEF IInv, Types, ServerInv, Running, MainPCs, MainInv, Relock, Main, server
<1>3. PoolPart'
  BY PoolUntouched DEF Relock, Main, main, IInv, Types, MainPCs
<1>4. QED
  BY <1>1, <1>2, <1>3 DEF IInv, PoolPart

\* A server without data is passed by.
LEMMA ServeNoneKeeps ==
  ASSUME IInv, ServeNone
  PROVE  IInv'
<1>1. Types'
  BY DevdrvdAssumption, SMT
  DEF IInv, Types, MainInv, ConnectPCs, MainPCs, FeedPCs, Servers, Slots, ServeNone, server,
      pool
<1>2. ServerInv' /\ MainInv'
  BY DevdrvdAssumption
  DEF IInv, Types, ServerInv, Running, MainPCs, MainInv, ServeNone, server
<1>3. PoolPart'
  BY PoolUntouched DEF ServeNone, main, IInv, Types, MainPCs
<1>4. QED
  BY <1>1, <1>2, <1>3 DEF IInv, PoolPart

\* The new connect_client finds no other of its server.
LEMMA ServeBrokenKeeps ==
  ASSUME IInv, ServeBroken
  PROVE  IInv'
<1>1. Types'
  BY DevdrvdAssumption, SMT
  DEF IInv, Types, MainInv, ConnectPCs, MainPCs, FeedPCs, Servers, Slots, ServeBroken,
      Disconnect, pool
<1>2. ServerInv' /\ MainInv'
  BY DevdrvdAssumption
  DEF IInv, Types, ServerInv, Running, MainPCs, MainInv, ServeBroken, Disconnect
<1>3. PoolPart'
  BY PoolUntouched DEF ServeBroken, Disconnect, main, IInv, Types, MainPCs
<1>4. QED
  BY <1>1, <1>2, <1>3 DEF IInv, PoolPart

\* A chunk is read from a server that is connected.
LEMMA ServeDataKeeps ==
  ASSUME IInv, ServeData
  PROVE  IInv'
<1>1. Types'
  BY DevdrvdAssumption, SMT
  DEF IInv, Types, MainInv, ConnectPCs, MainPCs, FeedPCs, Servers, Slots, ServeData, Main,
      pool
<1>2. ServerInv' /\ MainInv'
  BY DevdrvdAssumption
  DEF IInv, Types, ServerInv, Running, MainPCs, MainInv, ServeData, Main
<1>3. PoolPart'
  BY PoolUntouched DEF ServeData, Main, main, IInv, Types, MainPCs
<1>4. QED
  BY <1>1, <1>2, <1>3 DEF IInv, PoolPart

\* The lock of the slot keeps its feed from closing the pipe.
LEMMA LockSlotKeeps ==
  ASSUME IInv, LockSlot
  PROVE  IInv'
<1>1. Types'
  BY DevdrvdAssumption, SMT
  DEF IInv, Types, MainInv, ConnectPCs, MainPCs, FeedPCs, Servers, Slots, LockSlot, Main,
      server
<1>2. ServerPart'
  BY DEF IInv, Types, ServerInv, Running, MainPCs, MainInv, ServerPart, LockSlot, Main,
         server
<1>3. LockInv'
  BY DevdrvdAssumption DEF IInv, Types, LockInv, MainInv, FeedHasSlot, LockSlot, Main
<1>4. ConnInv'
  BY DevdrvdAssumption DEF IInv, Types, ConnInv, FeedHasSlot, SlotHasFeed, LockSlot, Main
<1>5. FeedHasSlot'
  BY DevdrvdAssumption
  DEF IInv, Types, LockInv, ConnInv, FeedHasSlot, SlotHasFeed, LockSlot, Main
<1>6. SlotHasFeed'
  BY DevdrvdAssumption
  DEF IInv, Types, LockInv, ConnInv, FeedHasSlot, SlotHasFeed, LockSlot, Main
<1>7. NoStray'
  BY DevdrvdAssumption
  DEF IInv, Types, LockInv, ConnInv, FeedHasSlot, SlotHasFeed, NoStray, LockSlot, Main
<1>8. ClientsCounted'
  BY DevdrvdAssumption DEF IInv, ClientsCounted, LockSlot, Main
<1>9. QED
  BY <1>1, <1>2, <1>3, <1>4, <1>5, <1>6, <1>7, <1>8 DEF IInv, ServerPart

\* main writes with the lock of the slot, so the pipe is open.
LEMMA WriteSlotKeeps ==
  ASSUME IInv, WriteSlot
  PROVE  IInv'
<1>1. Types'
  BY DevdrvdAssumption, SMT
  DEF IInv, Types, MainInv, ConnectPCs, MainPCs, FeedPCs, Servers, Slots, WriteSlot, Main,
      server
<1>2. ServerPart'
  BY DEF IInv, Types, ServerInv, Running, MainPCs, MainInv, ServerPart, WriteSlot, Main,
         server
<1>3. LockInv'
  BY DevdrvdAssumption DEF IInv, Types, LockInv, MainInv, FeedHasSlot, WriteSlot, Main
<1>4. ConnInv'
  BY DevdrvdAssumption DEF IInv, Types, ConnInv, FeedHasSlot, SlotHasFeed, WriteSlot, Main
<1>5. FeedHasSlot'
  BY DevdrvdAssumption
  DEF IInv, Types, LockInv, ConnInv, FeedHasSlot, SlotHasFeed, WriteSlot, Main
<1>6. SlotHasFeed'
  BY DevdrvdAssumption
  DEF IInv, Types, LockInv, ConnInv, FeedHasSlot, SlotHasFeed, WriteSlot, Main
<1>7. NoStray'
  BY DevdrvdAssumption
  DEF IInv, Types, MainInv, LockInv, ConnInv, FeedHasSlot, SlotHasFeed, NoStray, WriteSlot,
      Main
<1>8. ClientsCounted'
  BY DevdrvdAssumption DEF IInv, ClientsCounted, WriteSlot, Main
<1>9. QED
  BY <1>1, <1>2, <1>3, <1>4, <1>5, <1>6, <1>7, <1>8 DEF IInv, ServerPart

\* The next chunk, or the next server.
LEMMA ChunkDoneKeeps ==
  ASSUME IInv, ChunkDone
  PROVE  IInv'
<1>1. Types'
  BY DevdrvdAssumption, SMT
  DEF IInv, Types, MainInv, ConnectPCs, MainPCs, FeedPCs, Servers, Slots, ChunkDone, server,
      pool
<1>2. ServerInv' /\ MainInv'
  BY DevdrvdAssumption
  DEF IInv, Types, ServerInv, Running, MainPCs, MainInv, ChunkDone, server
<1>3. PoolPart'
  BY PoolUntouched DEF ChunkDone, main, IInv, Types, MainPCs
<1>4. QED
  BY <1>1, <1>2, <1>3 DEF IInv, PoolPart

\* A server that fails between two chunks is closed as well.
LEMMA ChunkFailsKeeps ==
  ASSUME IInv, ChunkFails
  PROVE  IInv'
<1>1. Types'
  BY DevdrvdAssumption, SMT
  DEF IInv, Types, MainInv, ConnectPCs, MainPCs, FeedPCs, Servers, Slots, ChunkFails,
      Disconnect, pool
<1>2. ServerInv' /\ MainInv'
  BY DevdrvdAssumption
  DEF IInv, Types, ServerInv, Running, MainPCs, MainInv, ChunkFails, Disconnect
<1>3. PoolPart'
  BY PoolUntouched DEF ChunkFails, Disconnect, main, IInv, Types, MainPCs
<1>4. QED
  BY <1>1, <1>2, <1>3 DEF IInv, PoolPart

\* main gives the lock back.
LEMMA ServedAllKeeps ==
  ASSUME IInv, ServedAll
  PROVE  IInv'
<1>1. Types'
  BY DevdrvdAssumption, SMT
  DEF IInv, Types, MainInv, ConnectPCs, MainPCs, FeedPCs, Servers, Slots, ServedAll, Main,
      pool
<1>2. ServerInv' /\ MainInv'
  BY DevdrvdAssumption
  DEF IInv, Types, ServerInv, Running, MainPCs, MainInv, ServedAll, Main
<1>3. PoolPart'
  BY PoolUntouched DEF ServedAll, Main, main, IInv, Types, MainPCs
<1>4. QED
  BY <1>1, <1>2, <1>3 DEF IInv, PoolPart

\* The signal sets a flag.
LEMMA SigIntKeeps ==
  ASSUME IInv, SigInt
  PROVE  IInv'
<1>1. Types'
  BY DevdrvdAssumption, SMT
  DEF IInv, Types, MainInv, ConnectPCs, MainPCs, FeedPCs, Servers, Slots, SigInt, server,
      pool
<1>2. ServerInv' /\ MainInv'
  BY DevdrvdAssumption DEF IInv, Types, ServerInv, Running, MainPCs, MainInv, SigInt, server
<1>3. PoolPart'
  BY PoolUntouched DEF SigInt, main, IInv, Types, MainPCs
<1>4. QED
  BY <1>1, <1>2, <1>3 DEF IInv, PoolPart

\* main ends.
LEMMA JoinControlKeeps ==
  ASSUME IInv, JoinControl
  PROVE  IInv'
<1>1. Types'
  BY DevdrvdAssumption, SMT
  DEF IInv, Types, MainInv, ConnectPCs, MainPCs, FeedPCs, Servers, Slots, JoinControl, Main,
      server, pool
<1>2. ServerInv' /\ MainInv'
  BY DevdrvdAssumption
  DEF IInv, Types, ServerInv, Running, MainPCs, MainInv, JoinControl, Main, server
<1>3. PoolPart'
  BY PoolUntouched DEF JoinControl, Main, main, IInv, Types, MainPCs
<1>4. QED
  BY <1>1, <1>2, <1>3 DEF IInv, PoolPart

\* A client that goes leaves its slot to its feed.
LEMMA LeaveKeeps ==
  ASSUME IInv, NEW k \in Conns, Leave(k)
  PROVE  IInv'
<1>1. Types'
  BY DevdrvdAssumption, SMT
  DEF IInv, Types, MainInv, ConnectPCs, MainPCs, FeedPCs, Servers, Slots, Leave, Peer,
      server, main
<1>2. ServerPart'
  BY ServerUntouched DEF Leave, Peer
<1>3. LockInv'
  BY DevdrvdAssumption DEF IInv, Types, LockInv, MainInv, FeedHasSlot, Leave, Peer, main
<1>4. ConnInv'
  BY DevdrvdAssumption DEF IInv, Types, ConnInv, FeedHasSlot, SlotHasFeed, Leave, Peer
<1>5. FeedHasSlot'
  BY DevdrvdAssumption
  DEF IInv, Types, LockInv, ConnInv, FeedHasSlot, SlotHasFeed, Leave, Peer
<1>6. SlotHasFeed'
  BY DevdrvdAssumption
  DEF IInv, Types, LockInv, ConnInv, FeedHasSlot, SlotHasFeed, Leave, Peer
<1>7. NoStray'
  BY DevdrvdAssumption
  DEF IInv, Types, LockInv, ConnInv, FeedHasSlot, SlotHasFeed, NoStray, Leave, Peer
<1>8. ClientsCounted'
  BY DevdrvdAssumption DEF IInv, ClientsCounted, Leave, Peer
<1>9. QED
  BY <1>1, <1>2, <1>3, <1>4, <1>5, <1>6, <1>7, <1>8 DEF IInv, ServerPart

\* A client that does not read keeps its slot.
LEMMA SlowKeeps ==
  ASSUME IInv, NEW k \in Conns, Slow(k)
  PROVE  IInv'
<1>1. Types'
  BY DevdrvdAssumption, SMT
  DEF IInv, Types, MainInv, ConnectPCs, MainPCs, FeedPCs, Servers, Slots, Slow, Peer,
      server, main
<1>2. ServerPart'
  BY ServerUntouched DEF Slow, Peer
<1>3. LockInv'
  BY DevdrvdAssumption DEF IInv, Types, LockInv, MainInv, FeedHasSlot, Slow, Peer, main
<1>4. ConnInv'
  BY DevdrvdAssumption DEF IInv, Types, ConnInv, FeedHasSlot, SlotHasFeed, Slow, Peer
<1>5. FeedHasSlot'
  BY DevdrvdAssumption
  DEF IInv, Types, LockInv, ConnInv, FeedHasSlot, SlotHasFeed, Slow, Peer
<1>6. SlotHasFeed'
  BY DevdrvdAssumption
  DEF IInv, Types, LockInv, ConnInv, FeedHasSlot, SlotHasFeed, Slow, Peer
<1>7. NoStray'
  BY DevdrvdAssumption
  DEF IInv, Types, LockInv, ConnInv, FeedHasSlot, SlotHasFeed, NoStray, Slow, Peer
<1>8. ClientsCounted'
  BY DevdrvdAssumption DEF IInv, ClientsCounted, Slow, Peer
<1>9. QED
  BY <1>1, <1>2, <1>3, <1>4, <1>5, <1>6, <1>7, <1>8 DEF IInv, ServerPart

\* A new connection has its pipe, and no slot yet.
LEMMA AcceptKeeps ==
  ASSUME IInv, NEW k \in Conns, Accept(k)
  PROVE  IInv'
<1>1. Types'
  BY DevdrvdAssumption, SMT
  DEF IInv, Types, MainInv, ConnectPCs, MainPCs, FeedPCs, Servers, Slots, Accept, Control,
      server, main
<1>2. ServerPart'
  BY ServerUntouched DEF Accept, Control
<1>3. LockInv'
  BY DevdrvdAssumption DEF IInv, Types, LockInv, MainInv, FeedHasSlot, Accept, Control, main
<1>4. ConnInv'
  BY DevdrvdAssumption DEF IInv, Types, ConnInv, FeedHasSlot, SlotHasFeed, Accept, Control
<1>5. FeedHasSlot'
  BY DevdrvdAssumption
  DEF IInv, Types, LockInv, ConnInv, FeedHasSlot, SlotHasFeed, Accept, Control
<1>6. SlotHasFeed'
  BY DevdrvdAssumption
  DEF IInv, Types, LockInv, ConnInv, FeedHasSlot, SlotHasFeed, Accept, Control
<1>7. NoStray'
  BY DevdrvdAssumption
  DEF IInv, Types, LockInv, ConnInv, FeedHasSlot, SlotHasFeed, NoStray, Accept, Control
<1>8. ClientsCounted'
  BY DevdrvdAssumption DEF IInv, ClientsCounted, Accept, Control
<1>9. QED
  BY <1>1, <1>2, <1>3, <1>4, <1>5, <1>6, <1>7, <1>8 DEF IInv, ServerPart

\* runcontrol ends between two clients.
LEMMA ControlQuitsKeeps ==
  ASSUME IInv, ControlQuits
  PROVE  IInv'
<1>1. Types'
  BY DevdrvdAssumption, SMT
  DEF IInv, Types, MainInv, ConnectPCs, MainPCs, FeedPCs, Servers, Slots, ControlQuits,
      Control, server, main
<1>2. ServerPart'
  BY ServerUntouched DEF ControlQuits, Control
<1>3. LockInv'
  BY DevdrvdAssumption
  DEF IInv, Types, LockInv, MainInv, FeedHasSlot, ControlQuits, Control, main
<1>4. ConnInv'
  BY DevdrvdAssumption
  DEF IInv, Types, ConnInv, FeedHasSlot, SlotHasFeed, ControlQuits, Control
<1>5. FeedHasSlot'
  BY DevdrvdAssumption
  DEF IInv, Types, LockInv, ConnInv, FeedHasSlot, SlotHasFeed, ControlQuits, Control
<1>6. SlotHasFeed'
  BY DevdrvdAssumption
  DEF IInv, Types, LockInv, ConnInv, FeedHasSlot, SlotHasFeed, ControlQuits, Control
<1>7. NoStray'
  BY DevdrvdAssumption
  DEF IInv, Types, LockInv, ConnInv, FeedHasSlot, SlotHasFeed, NoStray, ControlQuits,
      Control
<1>8. ClientsCounted'
  BY DevdrvdAssumption DEF IInv, ClientsCounted, ControlQuits, Control
<1>9. QED
  BY <1>1, <1>2, <1>3, <1>4, <1>5, <1>6, <1>7, <1>8 DEF IInv, ServerPart

\* A slot in use is passed by.
LEMMA RegisterBusyKeeps ==
  ASSUME IInv, RegisterBusy
  PROVE  IInv'
<1>1. Types'
  BY DevdrvdAssumption, SMT
  DEF IInv, Types, MainInv, ConnectPCs, MainPCs, FeedPCs, Servers, Slots, RegisterBusy,
      Control, server, main
<1>2. ServerPart'
  BY ServerUntouched DEF RegisterBusy, Control
<1>3. LockInv'
  BY DevdrvdAssumption
  DEF IInv, Types, LockInv, MainInv, FeedHasSlot, RegisterBusy, Control, main
<1>4. ConnInv'
  BY DevdrvdAssumption
  DEF IInv, Types, ConnInv, FeedHasSlot, SlotHasFeed, RegisterBusy, Control
<1>5. FeedHasSlot'
  BY DevdrvdAssumption
  DEF IInv, Types, LockInv, ConnInv, FeedHasSlot, SlotHasFeed, RegisterBusy, Control
<1>6. SlotHasFeed'
  BY DevdrvdAssumption
  DEF IInv, Types, LockInv, ConnInv, FeedHasSlot, SlotHasFeed, RegisterBusy, Control
<1>7. NoStray'
  BY DevdrvdAssumption
  DEF IInv, Types, LockInv, ConnInv, FeedHasSlot, SlotHasFeed, NoStray, RegisterBusy,
      Control
<1>8. ClientsCounted'
  BY DevdrvdAssumption DEF IInv, ClientsCounted, RegisterBusy, Control
<1>9. QED
  BY <1>1, <1>2, <1>3, <1>4, <1>5, <1>6, <1>7, <1>8 DEF IInv, ServerPart

\* A free slot gets its client, and the count one more.
LEMMA RegisterKeeps ==
  ASSUME IInv, Register
  PROVE  IInv'
<1>1. Types'
  BY DevdrvdAssumption, SMT
  DEF IInv, Types, MainInv, ConnectPCs, MainPCs, FeedPCs, Servers, Slots, Register, Control,
      server, main
<1>2. ServerPart'
  BY ServerUntouched DEF Register, Control
<1>3. LockInv'
  BY DevdrvdAssumption
  DEF IInv, Types, LockInv, MainInv, FeedHasSlot, Register, Control, main
<1>4. ConnInv'
  BY DevdrvdAssumption DEF IInv, Types, ConnInv, FeedHasSlot, SlotHasFeed, Register, Control
<1>5. FeedHasSlot'
  BY DevdrvdAssumption
  DEF IInv, Types, LockInv, ConnInv, FeedHasSlot, SlotHasFeed, Register, Control
<1>6. SlotHasFeed'
  BY DevdrvdAssumption
  DEF IInv, Types, LockInv, ConnInv, FeedHasSlot, SlotHasFeed, Register, Control
<1>7. NoStray'
  BY DevdrvdAssumption
  DEF IInv, Types, LockInv, ConnInv, FeedHasSlot, SlotHasFeed, NoStray, Register, Control
<1>8. ClientsCounted'
  <2>1. /\ ri \in Slots /\ owner[ri] = None /\ owner' = [owner EXCEPT ![ri] = rconn]
        /\ clients_number' = clients_number + 1 /\ rconn \in Conns
    BY DEF Register, Control, IInv, ConnInv
  <2>2. Used' = Used \cup {ri} /\ ri \notin Used
    BY <2>1, DevdrvdAssumption DEF IInv, Types, Used
  <2>3. Cardinality(Used') = Cardinality(Used) + 1
    BY <2>2, UsedSlots, FS_AddElement
  <2>4. QED
    BY <2>1, <2>3 DEF IInv, ClientsCounted, Used
<1>9. QED
  BY <1>1, <1>2, <1>3, <1>4, <1>5, <1>6, <1>7, <1>8 DEF IInv, ServerPart

\* The client that was registered last gets its feed.
LEMMA CreateFeedKeeps ==
  ASSUME IInv, CreateFeed
  PROVE  IInv'
<1>1. Types'
  <2>1. rconn \in Conns /\ ri \in Slots
    BY DEF IInv, ConnInv, CreateFeed, ControlNext, Control
  <2>2. 0 \in 0 .. MaxClients
    BY DevdrvdAssumption, SMT
  <2>3. QED
    BY <2>1, <2>2 DEF IInv, Types, FeedPCs, CreateFeed, ControlNext, Control, server, main
<1>2. ServerPart'
  BY ServerUntouched DEF CreateFeed, ControlNext, Control
<1>3. LockInv'
  BY DevdrvdAssumption
  DEF IInv, Types, LockInv, MainInv, ConnInv, FeedHasSlot, CreateFeed, ControlNext, Control,
      main
<1>4. ConnInv'
  BY DevdrvdAssumption
  DEF IInv, Types, ConnInv, FeedHasSlot, SlotHasFeed, CreateFeed, ControlNext, Control
<1>5. FeedHasSlot'
  BY DevdrvdAssumption
  DEF IInv, Types, LockInv, ConnInv, FeedHasSlot, SlotHasFeed, CreateFeed, ControlNext,
      Control
<1>6. SlotHasFeed'
  BY DevdrvdAssumption
  DEF IInv, Types, LockInv, ConnInv, FeedHasSlot, SlotHasFeed, CreateFeed, ControlNext,
      Control
<1>7. NoStray'
  BY DevdrvdAssumption
  DEF IInv, Types, LockInv, ConnInv, FeedHasSlot, SlotHasFeed, NoStray, CreateFeed,
      ControlNext, Control
<1>8. ClientsCounted'
  BY DevdrvdAssumption DEF IInv, ClientsCounted, CreateFeed, ControlNext, Control
<1>9. QED
  BY <1>1, <1>2, <1>3, <1>4, <1>5, <1>6, <1>7, <1>8 DEF IInv, ServerPart

\* The slot stays with a connection that is closed.
LEMMA CreateFailsKeeps ==
  ASSUME IInv, CreateFails
  PROVE  IInv'
<1>1. Types'
  <2>1. rconn \in Conns /\ ri \in Slots
    BY DEF IInv, ConnInv, CreateFails, ControlNext, Control
  <2>2. 0 \in 0 .. MaxClients
    BY DevdrvdAssumption, SMT
  <2>3. QED
    BY <2>1, <2>2 DEF IInv, Types, FeedPCs, CreateFails, ControlNext, Control, server, main
<1>2. ServerPart'
  BY ServerUntouched DEF CreateFails, ControlNext, Control
<1>3. LockInv'
  BY DevdrvdAssumption
  DEF IInv, Types, LockInv, MainInv, ConnInv, FeedHasSlot, CreateFails, ControlNext,
      Control, main
<1>4. ConnInv'
  BY DevdrvdAssumption
  DEF IInv, Types, ConnInv, FeedHasSlot, SlotHasFeed, CreateFails, ControlNext, Control
<1>5. FeedHasSlot'
  BY DevdrvdAssumption
  DEF IInv, Types, LockInv, ConnInv, FeedHasSlot, SlotHasFeed, CreateFails, ControlNext,
      Control
<1>6. SlotHasFeed'
  BY DevdrvdAssumption
  DEF IInv, Types, LockInv, ConnInv, FeedHasSlot, SlotHasFeed, CreateFails, ControlNext,
      Control
<1>7. NoStray'
  BY DevdrvdAssumption
  DEF IInv, Types, LockInv, ConnInv, FeedHasSlot, SlotHasFeed, NoStray, CreateFails,
      ControlNext, Control
<1>8. ClientsCounted'
  BY DevdrvdAssumption DEF IInv, ClientsCounted, CreateFails, ControlNext, Control
<1>9. QED
  BY <1>1, <1>2, <1>3, <1>4, <1>5, <1>6, <1>7, <1>8 DEF IInv, ServerPart

\* The refused connection was in no slot.
LEMMA PoolFullKeeps ==
  ASSUME IInv, PoolFull
  PROVE  IInv'
<1>1. Types'
  <2>1. rconn \in Conns
    BY DEF IInv, ConnInv, PoolFull, ControlNext, Control
  <2>2. 0 \in 0 .. MaxClients
    BY DevdrvdAssumption, SMT
  <2>3. QED
    BY <2>1, <2>2 DEF IInv, Types, FeedPCs, PoolFull, ControlNext, Control, server, main
<1>2. ServerPart'
  BY ServerUntouched DEF PoolFull, ControlNext, Control
<1>3. LockInv'
  BY DevdrvdAssumption
  DEF IInv, Types, LockInv, MainInv, ConnInv, FeedHasSlot, PoolFull, ControlNext, Control,
      main
<1>4. ConnInv'
  BY DevdrvdAssumption
  DEF IInv, Types, ConnInv, FeedHasSlot, SlotHasFeed, PoolFull, ControlNext, Control
<1>5. FeedHasSlot'
  BY DevdrvdAssumption
  DEF IInv, Types, LockInv, ConnInv, FeedHasSlot, SlotHasFeed, PoolFull, ControlNext,
      Control
<1>6. SlotHasFeed'
  BY DevdrvdAssumption
  DEF IInv, Types, LockInv, ConnInv, FeedHasSlot, SlotHasFeed, PoolFull, ControlNext,
      Control
<1>7. NoStray'
  BY DevdrvdAssumption
  DEF IInv, Types, LockInv, ConnInv, FeedHasSlot, SlotHasFeed, NoStray, PoolFull,
      ControlNext, Control
<1>8. ClientsCounted'
  BY DevdrvdAssumption DEF IInv, ClientsCounted, PoolFull, ControlNext, Control
<1>9. QED
  BY <1>1, <1>2, <1>3, <1>4, <1>5, <1>6, <1>7, <1>8 DEF IInv, ServerPart

\* A feed copies its own pipe.
LEMMA FeedCopyKeeps ==
  ASSUME IInv, NEW k \in Conns, FeedCopy(k)
  PROVE  IInv'
<1>1. Types'
  BY DevdrvdAssumption, SMT
  DEF IInv, Types, MainInv, ConnectPCs, MainPCs, FeedPCs, Servers, Slots, FeedCopy, Feed,
      server, main
<1>2. ServerPart'
  BY ServerUntouched DEF FeedCopy, Feed
<1>3. LockInv'
  BY DevdrvdAssumption DEF IInv, Types, LockInv, MainInv, FeedHasSlot, FeedCopy, Feed, main
<1>4. ConnInv'
  BY DevdrvdAssumption DEF IInv, Types, ConnInv, FeedHasSlot, SlotHasFeed, FeedCopy, Feed
<1>5. FeedHasSlot'
  BY DevdrvdAssumption
  DEF IInv, Types, LockInv, ConnInv, FeedHasSlot, SlotHasFeed, FeedCopy, Feed
<1>6. SlotHasFeed'
  BY DevdrvdAssumption
  DEF IInv, Types, LockInv, ConnInv, FeedHasSlot, SlotHasFeed, FeedCopy, Feed
<1>7. NoStray'
  BY DevdrvdAssumption
  DEF IInv, Types, LockInv, ConnInv, FeedHasSlot, SlotHasFeed, NoStray, FeedCopy, Feed
<1>8. ClientsCounted'
  BY DevdrvdAssumption DEF IInv, ClientsCounted, FeedCopy, Feed
<1>9. QED
  BY <1>1, <1>2, <1>3, <1>4, <1>5, <1>6, <1>7, <1>8 DEF IInv, ServerPart

\* A feed that quits still has its slot.
LEMMA FeedQuitKeeps ==
  ASSUME IInv, NEW k \in Conns, FeedQuit(k)
  PROVE  IInv'
<1>1. Types'
  BY DevdrvdAssumption, SMT
  DEF IInv, Types, MainInv, ConnectPCs, MainPCs, FeedPCs, Servers, Slots, FeedQuit, Feed,
      server, main
<1>2. ServerPart'
  BY ServerUntouched DEF FeedQuit, Feed
<1>3. LockInv'
  BY DevdrvdAssumption DEF IInv, Types, LockInv, MainInv, FeedHasSlot, FeedQuit, Feed, main
<1>4. ConnInv'
  BY DevdrvdAssumption DEF IInv, Types, ConnInv, FeedHasSlot, SlotHasFeed, FeedQuit, Feed
<1>5. FeedHasSlot'
  BY DevdrvdAssumption
  DEF IInv, Types, LockInv, ConnInv, FeedHasSlot, SlotHasFeed, FeedQuit, Feed
<1>6. SlotHasFeed'
  BY DevdrvdAssumption
  DEF IInv, Types, LockInv, ConnInv, FeedHasSlot, SlotHasFeed, FeedQuit, Feed
<1>7. NoStray'
  BY DevdrvdAssumption
  DEF IInv, Types, LockInv, ConnInv, FeedHasSlot, SlotHasFeed, NoStray, FeedQuit, Feed
<1>8. ClientsCounted'
  BY DevdrvdAssumption DEF IInv, ClientsCounted, FeedQuit, Feed
<1>9. QED
  BY <1>1, <1>2, <1>3, <1>4, <1>5, <1>6, <1>7, <1>8 DEF IInv, ServerPart

\* The feed takes the lock of its slot.
LEMMA UnregisterLockKeeps ==
  ASSUME IInv, NEW k \in Conns, UnregisterLock(k)
  PROVE  IInv'
<1>1. Types'
  BY DevdrvdAssumption, SMT
  DEF IInv, Types, MainInv, ConnectPCs, MainPCs, FeedPCs, Servers, Slots, UnregisterLock,
      Feed, server, main
<1>2. ServerPart'
  BY ServerUntouched DEF UnregisterLock, Feed
<1>3. LockInv'
  BY DevdrvdAssumption
  DEF IInv, Types, LockInv, MainInv, FeedHasSlot, UnregisterLock, Feed, main
<1>4. ConnInv'
  BY DevdrvdAssumption
  DEF IInv, Types, ConnInv, FeedHasSlot, SlotHasFeed, UnregisterLock, Feed
<1>5. FeedHasSlot'
  BY DevdrvdAssumption
  DEF IInv, Types, LockInv, ConnInv, FeedHasSlot, SlotHasFeed, UnregisterLock, Feed
<1>6. SlotHasFeed'
  BY DevdrvdAssumption
  DEF IInv, Types, LockInv, ConnInv, FeedHasSlot, SlotHasFeed, UnregisterLock, Feed
<1>7. NoStray'
  BY DevdrvdAssumption
  DEF IInv, Types, LockInv, ConnInv, FeedHasSlot, SlotHasFeed, NoStray, UnregisterLock, Feed
<1>8. ClientsCounted'
  BY DevdrvdAssumption DEF IInv, ClientsCounted, UnregisterLock, Feed
<1>9. QED
  BY <1>1, <1>2, <1>3, <1>4, <1>5, <1>6, <1>7, <1>8 DEF IInv, ServerPart

\* The feed closes its own pipe and socket, with the lock.
LEMMA UnregisterCloseKeeps ==
  ASSUME IInv, NEW k \in Conns, UnregisterClose(k)
  PROVE  IInv'
<1>1. Types'
  BY DevdrvdAssumption, SMT
  DEF IInv, Types, MainInv, ConnectPCs, MainPCs, FeedPCs, Servers, Slots, UnregisterClose,
      Feed, server, main
<1>2. ServerPart'
  BY ServerUntouched DEF UnregisterClose, Feed
<1>3. LockInv'
  BY DevdrvdAssumption
  DEF IInv, Types, LockInv, MainInv, FeedHasSlot, UnregisterClose, Feed, main
<1>4. ConnInv'
  BY DevdrvdAssumption
  DEF IInv, Types, ConnInv, FeedHasSlot, SlotHasFeed, UnregisterClose, Feed
<1>5. FeedHasSlot'
  BY DevdrvdAssumption
  DEF IInv, Types, LockInv, ConnInv, FeedHasSlot, SlotHasFeed, UnregisterClose, Feed
<1>6. SlotHasFeed'
  BY DevdrvdAssumption
  DEF IInv, Types, LockInv, ConnInv, FeedHasSlot, SlotHasFeed, UnregisterClose, Feed
<1>7. NoStray'
  BY DevdrvdAssumption
  DEF IInv, Types, LockInv, ConnInv, FeedHasSlot, SlotHasFeed, NoStray, UnregisterClose,
      Feed
<1>8. ClientsCounted'
  BY DevdrvdAssumption DEF IInv, ClientsCounted, UnregisterClose, Feed
<1>9. QED
  BY <1>1, <1>2, <1>3, <1>4, <1>5, <1>6, <1>7, <1>8 DEF IInv, ServerPart

\* The slot is free, and the count one less.
LEMMA UnregisterClearKeeps ==
  ASSUME IInv, NEW k \in Conns, UnregisterClear(k)
  PROVE  IInv'
<1>1. Types'
  BY DevdrvdAssumption, SMT
  DEF IInv, Types, MainInv, ConnectPCs, MainPCs, FeedPCs, Servers, Slots, UnregisterClear,
      Feed, server, main
<1>2. ServerPart'
  BY ServerUntouched DEF UnregisterClear, Feed
<1>3. LockInv'
  BY DevdrvdAssumption
  DEF IInv, Types, LockInv, MainInv, FeedHasSlot, UnregisterClear, Feed, main
<1>4. ConnInv'
  BY DevdrvdAssumption
  DEF IInv, Types, ConnInv, FeedHasSlot, SlotHasFeed, UnregisterClear, Feed
<1>5. FeedHasSlot'
  BY DevdrvdAssumption
  DEF IInv, Types, LockInv, ConnInv, FeedHasSlot, SlotHasFeed, UnregisterClear, Feed
<1>6. SlotHasFeed'
  BY DevdrvdAssumption
  DEF IInv, Types, LockInv, ConnInv, FeedHasSlot, SlotHasFeed, UnregisterClear, Feed
<1>7. NoStray'
  BY DevdrvdAssumption
  DEF IInv, Types, LockInv, ConnInv, FeedHasSlot, SlotHasFeed, NoStray, UnregisterClear,
      Feed
<1>8. ClientsCounted'
  <2>1. /\ fslot[k] \in Slots /\ owner[fslot[k]] = k
        /\ owner' = [owner EXCEPT ![fslot[k]] = None]
        /\ clients_number' = clients_number - 1
    BY DEF UnregisterClear, Feed, IInv, Types, FeedHasSlot
  <2>2. Used' = Used \ {fslot[k]} /\ fslot[k] \in Used
    BY <2>1, DevdrvdAssumption DEF IInv, Types, Used
  <2>3. Cardinality(Used') = Cardinality(Used) - 1
    BY <2>2, UsedSlots, FS_RemoveElement
  <2>4. QED
    BY <2>1, <2>3 DEF IInv, ClientsCounted, Used
<1>9. QED
  BY <1>1, <1>2, <1>3, <1>4, <1>5, <1>6, <1>7, <1>8 DEF IInv, ServerPart

\* Every step keeps the invariant.
LEMMA NextIInv ==
  ASSUME IInv, [Next]_vars
  PROVE  IInv'
<1>1. CASE Next
  BY <1>1, ServerSendsKeeps, ServerDownKeeps, ServerBackKeeps, ConnectStartKeeps,
     ConnectTryKeeps, ConnectDoneKeeps, ConnectFailsKeeps, ConnectAwakeKeeps, LoopTestKeeps,
     FdSetKeeps, SelectReadyKeeps, SelectTimeoutKeeps, SelectInterruptedKeeps, RelockKeeps,
     ServeNoneKeeps, ServeBrokenKeeps, ServeDataKeeps, LockSlotKeeps, WriteSlotKeeps,
     ChunkDoneKeeps, ChunkFailsKeeps, ServedAllKeeps, SigIntKeeps, JoinControlKeeps,
     LeaveKeeps, SlowKeeps, AcceptKeeps, ControlQuitsKeeps, RegisterBusyKeeps,
     RegisterKeeps, CreateFeedKeeps, CreateFailsKeeps, PoolFullKeeps, FeedCopyKeeps,
     FeedQuitKeeps, UnregisterLockKeeps, UnregisterCloseKeeps, UnregisterClearKeeps
  DEF Next, Environment, ConnectClient, MainLoop, RunControl, PacketFeed
<1>2. CASE UNCHANGED vars
  <2>1. Types'
    BY <1>2 DEF IInv, Types, vars, server, main, pool
  <2>2. ServerPart'
    BY <1>2, ServerUntouched DEF vars
  <2>3. PoolPart'
    BY <1>2, PoolUntouched DEF vars, main
  <2>4. QED
    BY <2>1, <2>2, <2>3 DEF IInv, ServerPart, PoolPart
<1>3. QED
  BY <1>1, <1>2

\* The invariant behind every theorem of this module.
THEOREM Invariance == Spec => []IInv
<1>1. Init => IInv
  BY InitIInv
<1>2. IInv /\ [Next]_vars => IInv'
  BY NextIInv
<1>3. QED
  BY <1>1, <1>2, PTL DEF Spec

\* Indices of main, runcontrol and the feeds stay inside their arrays.
THEOREM TypeCorrect == Spec => []TypeOK
BY Invariance, IInvTypes, PTL

\* A server never has two connect_client threads, nor one and a connection.
THEOREM OneConnectorEach == Spec => []OneConnector
<1>1. IInv => OneConnector
  BY DEF IInv, ServerInv, OneConnector
<1>2. QED
  BY Invariance, <1>1, PTL

\* main reads only from servers that are connected, although connect_lock is
\* free during pselect.
THEOREM ServesConnected == Spec => []ServeConnected
<1>1. IInv => ServeConnected
  BY DEF IInv, Types, ServerInv, ServeConnected
<1>2. QED
  BY Invariance, <1>1, PTL

\* main never writes into a pipe that a feed has closed.
THEOREM NeverStrays == Spec => []NoStray
<1>1. IInv => NoStray
  BY DEF IInv
<1>2. QED
  BY Invariance, <1>1, PTL

\* The pool and the feeds agree on who has which slot.
THEOREM PoolStaysConsistent == Spec => []PoolConsistent
<1>1. IInv => PoolConsistent
  BY DEF IInv, PoolConsistent
<1>2. QED
  BY Invariance, <1>1, PTL

\* A step that leaves the entries and the feeds' ends alone stutters.
LEMMA PoolStutters ==
  ASSUME UNCHANGED owner, \A k \in Conns : fpc'[k] = "done" <=> fpc[k] = "done"
  PROVE  UNCHANGED Pool!vars
BY DEF Pool!vars

\* register_client seats a connection that has no slot and never had one.
LEMMA RegisterSeats == IInv /\ Register => Pool!Next
<1> SUFFICES ASSUME IInv, Register PROVE Pool!Next
  OBVIOUS
<1>1. /\ ri \in Slots /\ owner[ri] = None /\ owner' = [owner EXCEPT ![ri] = rconn]
      /\ fpc' = fpc /\ rpc = "register"
  BY DEF Register, Control
<1>2. rconn \in Conns /\ fpc[rconn] = "none" /\ \A c \in Slots : owner[c] # rconn
  BY <1>1 DEF IInv, ConnInv
<1>3. Pool!Seat(ri, rconn)
  BY <1>1, <1>2 DEF Pool!Seat
<1> QED BY <1>1, <1>2, <1>3 DEF Pool!Next

\* unregister_client frees the slot of the connection it serves, which ends.
LEMMA ClearReleases ==
  ASSUME IInv, NEW k \in Conns, UnregisterClear(k)
  PROVE  Pool!Next
<1>1. /\ fpc[k] = "clear" /\ fpc' = [fpc EXCEPT ![k] = "done"]
      /\ owner' = [owner EXCEPT ![fslot[k]] = None]
  BY DEF UnregisterClear, Feed
<1>2. fslot[k] \in Slots /\ owner[fslot[k]] = k /\ fpc \in [Conns -> FeedPCs]
  BY <1>1 DEF IInv, Types, FeedHasSlot
<1>3. {j \in Conns : fpc'[j] = "done"} = {j \in Conns : fpc[j] = "done"} \cup {k}
  BY <1>1, <1>2
<1>4. PICK c \in Slots : c = fslot[k]
  BY <1>2
<1>5. owner[c] = k /\ owner[c] # None /\ owner' = [owner EXCEPT ![c] = None]
  BY <1>1, <1>2, <1>4, DevdrvdAssumption
<1>6. Pool!Release(c)
  BY <1>3, <1>5 DEF Pool!Release
<1> QED BY <1>6 DEF Pool!Next

\* A feed that comes to life, or moves on, had not ended and has not.
LEMMA FeedGoesOn ==
  ASSUME IInv, NEW k \in Conns, NEW l \in FeedPCs \ {"done"},
         fpc[k] # "done", fpc' = [fpc EXCEPT ![k] = l], UNCHANGED owner
  PROVE  UNCHANGED Pool!vars
<1>1. fpc \in [Conns -> FeedPCs]
  BY DEF IInv, Types
<1>2. \A j \in Conns : fpc'[j] = "done" <=> fpc[j] = "done"
  BY <1>1
<1> QED BY <1>2, PoolStutters

\* Every step of devdrvd is a step of the pool, or none.
LEMMA PoolStep == IInv /\ [Next]_vars => [Pool!Next]_Pool!vars
<1> SUFFICES ASSUME IInv, [Next]_vars PROVE Pool!Next \/ UNCHANGED Pool!vars
  OBVIOUS
<1>1. CASE Register
  BY <1>1, RegisterSeats
<1>2. ASSUME NEW k \in Conns, PacketFeed(k) PROVE Pool!Next \/ UNCHANGED Pool!vars
  <2>1. CASE UnregisterClear(k)
    BY <2>1, ClearReleases
  <2>2. CASE FeedCopy(k) \/ FeedQuit(k) \/ UnregisterLock(k) \/ UnregisterClose(k)
    <3>1. /\ fpc[k] # "done" /\ UNCHANGED owner
          /\ \E l \in FeedPCs \ {"done"} : fpc' = [fpc EXCEPT ![k] = l]
      BY <2>2 DEF FeedCopy, FeedQuit, UnregisterLock, UnregisterClose, Feed, FeedPCs
    <3> QED BY <3>1, FeedGoesOn
  <2> QED BY <1>2, <2>1, <2>2 DEF PacketFeed
<1>3. CASE CreateFeed
  <2>1. /\ fpc' = [fpc EXCEPT ![rconn] = "loop"] /\ UNCHANGED owner /\ rpc = "create"
        /\ "loop" \in FeedPCs \ {"done"}
    BY <1>3 DEF CreateFeed, ControlNext, Control, FeedPCs
  <2>2. rconn \in Conns /\ fpc[rconn] # "done"
    BY <2>1 DEF IInv, ConnInv
  <2> QED BY <2>1, <2>2, FeedGoesOn
<1>4. CASE \/ RegisterBusy \/ CreateFails \/ PoolFull \/ ControlQuits
           \/ \E k \in Conns : Accept(k)
  <2>1. UNCHANGED <<owner, fpc>>
    BY <1>4 DEF RegisterBusy, CreateFails, PoolFull, ControlQuits, Accept
  <2> QED BY <2>1, PoolStutters
<1>5. CASE Environment \/ SigInt \/ UNCHANGED vars
  <2>1. UNCHANGED <<owner, fpc>>
    BY <1>5
    DEF Environment, ServerSends, ServerDown, ServerBack, Leave, Slow, Peer, SigInt, vars,
        pool
  <2> QED BY <2>1, PoolStutters
<1>6. CASE MainLoop
  <2>1. UNCHANGED <<owner, fpc>>
    BY <1>6
    DEF MainLoop, LoopTest, FdSet, SelectReady, SelectTimeout, SelectInterrupted, Relock,
        ServeNone, ServeBroken, ServeData, LockSlot, WriteSlot, ChunkDone, ChunkFails,
        Disconnect, ServedAll, JoinControl, pool
  <2> QED BY <2>1, PoolStutters
<1>7. ASSUME NEW s \in Servers, ConnectClient(s) PROVE UNCHANGED Pool!vars
  <2>1. UNCHANGED <<owner, fpc>>
    BY <1>7
    DEF ConnectClient, ConnectStart, ConnectTry, ConnectDone, ConnectFails, ConnectAwake,
        pool
  <2> QED BY <2>1, PoolStutters
<1> QED BY <1>1, <1>2, <1>3, <1>4, <1>5, <1>6, <1>7 DEF Next, RunControl

\* The pool with its locks, runcontrol and the feeds implements the slot pool.
THEOREM PoolImplemented == Spec => PoolSpec
<1>1. Init => Pool!Init
  BY DEF Init, Pool!Init
<1> QED BY <1>1, PoolStep, Invariance, PTL DEF Spec, PoolSpec, Pool!Spec

\* clients_number counts the slots in use.
THEOREM CountStaysRight == Spec => []ClientsCounted
<1>1. IInv => ClientsCounted
  BY DEF IInv
<1>2. QED
  BY Invariance, <1>1, PTL
=============================================================================
