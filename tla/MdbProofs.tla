------------------------------ MODULE MdbProofs ------------------------------
(***************************************************************************)
(* Proofs about Mdb for any number of slots, connections and messages.     *)
(* The invariant has a part that always holds (types, the weights, what    *)
(* tcp_loop has in hand) and one that holds until a thread has read i too  *)
(* late: whose slot and whose descriptor is whose.                         *)
(***************************************************************************)
EXTENDS Mdb, TLAPS

Answering(t) == tpc[t] \in {"brutto", "netto", "reply"}
Active(t)    == Serving(t) \/ tpc[t] = "free"

\* What tcp_loop has in hand, and what each thread has got so far.
LoopInv ==
  /\ apc \in {"scan", "create"} =>
       /\ afd \in Fds /\ aconn \in Conns
       /\ tpc[aconn] = "none" /\ aconn \notin dropped
       /\ peer[aconn] \notin {"new", "backlog"}
  /\ apc \notin {"scan", "create"} => afd = None
  /\ apc = "create" => ai \in Slots
  /\ \A k \in Conns : peer[k] \in {"new", "backlog"} =>
       tpc[k] = "none" /\ k \notin dropped /\ \A f \in Fds : desc[f] # k
  /\ \A t \in Conns : tpc[t] # "none" => t \notin dropped
  /\ \A t \in Conns : tpc[t] \in {"fd", "loop", "close", "free"} \/ Answering(t) =>
       ttid[t] \in Slots
  /\ \A t \in Conns : tpc[t] \in {"none", "tid", "fd", "loop"} \/ Answering(t) =>
       tcnt[t] < MaxCnt
  /\ \A t \in Conns : Answering(t) => asker[t] \in Conns

\* Whose slot and whose descriptor is whose.
SlotInv ==
  mixed = {} =>
    /\ \A t \in Conns : Active(t) => ttid[t] \in Slots /\ fds[ttid[t]] \in Fds
    /\ \A t \in Conns : Serving(t) => desc[fds[ttid[t]]] = t
    /\ \A t \in Conns : Active(t) /\ tpc[t] \notin {"tid", "fd"} =>
         tfd[t] = fds[ttid[t]]
    /\ \A t, u \in Conns : Active(t) /\ Active(u) /\ t # u => ttid[t] # ttid[u]
    /\ \A t \in Conns : Answering(t) => asker[t] = t
    /\ apc \in {"scan", "create"} => desc[afd] = aconn
    /\ apc = "create" => fds[ai] = afd /\ \A t \in Conns : Active(t) => ttid[t] # ai
    /\ strayed = {}

\* Who answers for each slot and for each descriptor.
LossInv ==
  mixed = {} =>
    /\ \A c \in Slots : fds[c] # None =>
         \/ \E t \in Conns : ttid[t] = c /\ Active(t)
         \/ apc = "create" /\ ai = c
         \/ desc[fds[c]] \in dropped
    /\ \A f \in Fds : desc[f] # None =>
         \/ apc \in {"scan", "create"} /\ f = afd
         \/ desc[f] \in dropped
         \/ Serving(desc[f]) /\ fds[ttid[desc[f]]] = f

\* The image lags one word behind while a message is being stored.
WeightInv ==
  /\ wgt.brutto = qmsg /\ wgt.netto = Complete
  /\ qpc = "netto" => qmsg > 0
  /\ \A t \in Conns : Answering(t) => since[t] <= Complete
  /\ \A t \in Conns : tpc[t] \in {"netto", "reply"} =>
       treg[t].brutto >= since[t] /\ treg[t].brutto <= qmsg
  /\ \A t \in Conns : tpc[t] = "reply" =>
       treg[t].netto >= since[t] /\ treg[t].netto <= qmsg

IInv == TypeOK /\ LoopInv /\ SlotInv /\ LossInv /\ WeightInv

\* The invariant holds at the start.
LEMMA InitIInv == Init => IInv
<1> SUFFICES ASSUME Init PROVE IInv
  OBVIOUS
<1>1. TypeOK
  <2>1. 0 \in 0 .. MaxConn /\ 0 \in 0 .. MaxCnt /\ 0 \in 0 .. MaxMsg
    BY MdbAssumption, SMT
  <2>2. QED
    BY <2>1 DEF Init, TypeOK, NoWeights, PeerStates, ThreadPCs
<1>2. LoopInv
  BY MdbAssumption, SMT DEF Init, LoopInv, Answering
<1>3. SlotInv /\ LossInv
  BY DEF Init, SlotInv, LossInv, Active, Serving, Answering
<1>4. WeightInv
  BY SMT DEF Init, WeightInv, NoWeights, Complete, Answering
<1>5. QED
  BY <1>1, <1>2, <1>3, <1>4 DEF IInv

\* A client in the backlog.
LEMMA ConnectKeeps ==
  ASSUME IInv, NEW k \in Conns, Connect(k)
  PROVE  IInv'
<1>1. TypeOK'
  <2>1. peer' \in [Conns -> PeerStates]
    BY DEF IInv, TypeOK, PeerStates, Connect, Peer
  <2>2. QED
    BY <2>1 DEF IInv, TypeOK, Connect, Peer, tcp, thread, image, answer
<1>2. LoopInv'
  BY MdbAssumption
    DEF IInv, TypeOK, LoopInv, Answering, Slots, Behind, Connect, Peer, tcp,
        thread, image, answer
<1>3. SlotInv'
  BY MdbAssumption
    DEF IInv, TypeOK, LoopInv, SlotInv, Active, Serving, Answering, Behind,
        Connect, Peer, tcp, thread, image, answer
<1>4. LossInv'
  BY MdbAssumption
    DEF IInv, TypeOK, LoopInv, SlotInv, LossInv, Active, Serving, Connect,
        Peer, tcp, thread, image, answer
<1>5. WeightInv'
  BY MdbAssumption, SMT
    DEF IInv, TypeOK, WeightInv, Complete, Answering, Connect, Peer, tcp,
        thread, image, answer
<1>6. QED
  BY <1>1, <1>2, <1>3, <1>4, <1>5 DEF IInv

\* A client that sends a request.
LEMMA AskKeeps ==
  ASSUME IInv, NEW k \in Conns, Ask(k)
  PROVE  IInv'
<1>1. TypeOK'
  <2>1. peer' \in [Conns -> PeerStates]
    BY DEF IInv, TypeOK, PeerStates, Ask, Peer
  <2>2. QED
    BY <2>1 DEF IInv, TypeOK, Ask, Peer, tcp, thread, image, answer
<1>2. LoopInv'
  BY MdbAssumption
    DEF IInv, TypeOK, LoopInv, Answering, Slots, Behind, Ask, Peer, tcp,
        thread, image, answer
<1>3. SlotInv'
  BY MdbAssumption
    DEF IInv, TypeOK, LoopInv, SlotInv, Active, Serving, Answering, Behind,
        Ask, Peer, tcp, thread, image, answer
<1>4. LossInv'
  BY MdbAssumption
    DEF IInv, TypeOK, LoopInv, SlotInv, LossInv, Active, Serving, Ask, Peer,
        tcp, thread, image, answer
<1>5. WeightInv'
  BY MdbAssumption, SMT
    DEF IInv, TypeOK, WeightInv, Complete, Answering, Ask, Peer, tcp, thread,
        image, answer
<1>6. QED
  BY <1>1, <1>2, <1>3, <1>4, <1>5 DEF IInv

\* A client that closes.
LEMMA CloseKeeps ==
  ASSUME IInv, NEW k \in Conns, Close(k)
  PROVE  IInv'
<1>1. TypeOK'
  <2>1. peer' \in [Conns -> PeerStates]
    BY DEF IInv, TypeOK, PeerStates, Close, Peer
  <2>2. QED
    BY <2>1 DEF IInv, TypeOK, Close, Peer, tcp, thread, image, answer
<1>2. LoopInv'
  BY MdbAssumption
    DEF IInv, TypeOK, LoopInv, Answering, Slots, Behind, Close, Peer, tcp,
        thread, image, answer
<1>3. SlotInv'
  BY MdbAssumption
    DEF IInv, TypeOK, LoopInv, SlotInv, Active, Serving, Answering, Behind,
        Close, Peer, tcp, thread, image, answer
<1>4. LossInv'
  BY MdbAssumption
    DEF IInv, TypeOK, LoopInv, SlotInv, LossInv, Active, Serving, Close, Peer,
        tcp, thread, image, answer
<1>5. WeightInv'
  BY MdbAssumption, SMT
    DEF IInv, TypeOK, WeightInv, Complete, Answering, Close, Peer, tcp,
        thread, image, answer
<1>6. QED
  BY <1>1, <1>2, <1>3, <1>4, <1>5 DEF IInv

\* tcp_loop tests shutdown_flag.
LEMMA LoopTestKeeps ==
  ASSUME IInv, LoopTest
  PROVE  IInv'
<1>1. TypeOK'
  BY MdbAssumption, SMT
    DEF IInv, TypeOK, LoopInv, PeerStates, ThreadPCs, Answering, Behind,
        Slots, LoopTest, thread, image, answer
<1>2. LoopInv'
  BY MdbAssumption
    DEF IInv, TypeOK, LoopInv, Answering, Slots, Behind, LoopTest, thread,
        image, answer
<1>3. SlotInv'
  BY MdbAssumption
    DEF IInv, TypeOK, LoopInv, SlotInv, Active, Serving, Answering, Behind,
        LoopTest, thread, image, answer
<1>4. LossInv'
  BY MdbAssumption
    DEF IInv, TypeOK, LoopInv, SlotInv, LossInv, Active, Serving, LoopTest,
        thread, image, answer
<1>5. WeightInv'
  BY MdbAssumption, SMT
    DEF IInv, TypeOK, WeightInv, Complete, Answering, LoopTest, thread, image,
        answer
<1>6. QED
  BY <1>1, <1>2, <1>3, <1>4, <1>5 DEF IInv

\* The new descriptor was not open, so no slot holds it.
LEMMA AcceptKeeps ==
  ASSUME IInv, NEW k \in Conns, Accept(k)
  PROVE  IInv'
<1>1. TypeOK'
  BY MdbAssumption, SMT
    DEF IInv, TypeOK, LoopInv, PeerStates, ThreadPCs, Answering, Behind,
        Slots, Accept, thread, image, answer
<1>2. LoopInv'
  BY MdbAssumption
    DEF IInv, TypeOK, LoopInv, Answering, Slots, Behind, Accept, thread,
        image, answer
<1>3. SlotInv'
  BY MdbAssumption
    DEF IInv, TypeOK, LoopInv, SlotInv, Active, Serving, Answering, Behind,
        Accept, thread, image, answer
<1>4. LossInv'
  BY MdbAssumption
    DEF IInv, TypeOK, LoopInv, SlotInv, LossInv, Active, Serving, Accept,
        thread, image, answer
<1>5. WeightInv'
  BY MdbAssumption, SMT
    DEF IInv, TypeOK, WeightInv, Complete, Answering, Accept, thread, image,
        answer
<1>6. QED
  BY <1>1, <1>2, <1>3, <1>4, <1>5 DEF IInv

\* A slot in use is passed by.
LEMMA ScanBusyKeeps ==
  ASSUME IInv, ScanBusy
  PROVE  IInv'
<1>1. TypeOK'
  BY MdbAssumption, SMT
    DEF IInv, TypeOK, LoopInv, PeerStates, ThreadPCs, Answering, Behind,
        Slots, ScanBusy, thread, image, answer
<1>2. LoopInv'
  BY MdbAssumption
    DEF IInv, TypeOK, LoopInv, Answering, Slots, Behind, ScanBusy, thread,
        image, answer
<1>3. SlotInv'
  BY MdbAssumption
    DEF IInv, TypeOK, LoopInv, SlotInv, Active, Serving, Answering, Behind,
        ScanBusy, thread, image, answer
<1>4. LossInv'
  BY MdbAssumption
    DEF IInv, TypeOK, LoopInv, SlotInv, LossInv, Active, Serving, ScanBusy,
        thread, image, answer
<1>5. WeightInv'
  BY MdbAssumption, SMT
    DEF IInv, TypeOK, WeightInv, Complete, Answering, ScanBusy, thread, image,
        answer
<1>6. QED
  BY <1>1, <1>2, <1>3, <1>4, <1>5 DEF IInv

\* The refused connection is counted as dropped.
LEMMA RefuseKeeps ==
  ASSUME IInv, Refuse
  PROVE  IInv'
<1>1. TypeOK'
  <2>1. aconn \in Conns
    BY DEF IInv, LoopInv, Refuse
  <2>2. QED
    BY <2>1 DEF IInv, TypeOK, Refuse, thread, image, answer
<1>2. LoopInv'
  BY MdbAssumption
    DEF IInv, TypeOK, LoopInv, Answering, Slots, Behind, Refuse, thread,
        image, answer
<1>3. SlotInv'
  BY MdbAssumption
    DEF IInv, TypeOK, LoopInv, SlotInv, Active, Serving, Answering, Behind,
        Refuse, thread, image, answer
<1>4. LossInv'
  BY MdbAssumption
    DEF IInv, TypeOK, LoopInv, SlotInv, LossInv, Active, Serving, Refuse,
        thread, image, answer
<1>5. WeightInv'
  BY MdbAssumption, SMT
    DEF IInv, TypeOK, WeightInv, Complete, Answering, Refuse, thread, image,
        answer
<1>6. QED
  BY <1>1, <1>2, <1>3, <1>4, <1>5 DEF IInv

\* A free slot has no thread, so the new one will be alone in it.
LEMMA TakeSlotKeeps ==
  ASSUME IInv, TakeSlot
  PROVE  IInv'
<1>a. /\ ai \in Slots /\ fds[ai] = None /\ fds' = [fds EXCEPT ![ai] = afd]
      /\ afd \in Fds /\ afd # None /\ apc = "scan" /\ apc' = "create"
      /\ UNCHANGED <<desc, ai, afd, aconn, tpc, ttid, tfd, asker, strayed, mixed, dropped>>
  BY MdbAssumption, SMT
    DEF IInv, TypeOK, LoopInv, TakeSlot, Slots, Fds, thread, answer
<1>b. mixed = {} => \A t \in Conns : Active(t) => ttid[t] # ai
  BY <1>a, MdbAssumption DEF IInv, SlotInv, Fds
<1>1. TypeOK'
  <2>1. fds' \in [Slots -> Fds \cup {None}]
    BY <1>a DEF IInv, TypeOK
  <2>2. QED
    BY <1>a, <2>1 DEF IInv, TypeOK, TakeSlot, thread, image, answer
<1>2. LoopInv'
  BY MdbAssumption
    DEF IInv, TypeOK, LoopInv, Answering, Slots, Behind, TakeSlot, thread,
        image, answer
<1>3. SlotInv'
  <2>1. \A c \in Slots : c # ai => fds'[c] = fds[c]
    BY <1>a DEF IInv, TypeOK
  <2>2. fds'[ai] = afd
    BY <1>a DEF IInv, TypeOK
  <2>3. QED
    BY <1>a, <1>b, <2>1, <2>2 DEF IInv, SlotInv, Active, Serving, Answering
<1>4. LossInv'
  <2>1. \A c \in Slots : c # ai => fds'[c] = fds[c]
    BY <1>a DEF IInv, TypeOK
  <2>2. SUFFICES ASSUME mixed = {}
                 PROVE  LossInv'
    BY <1>a DEF LossInv
  <2>3. ASSUME NEW f \in Fds, Serving(desc[f]), desc[f] \in Conns
        PROVE  fds'[ttid[desc[f]]] = fds[ttid[desc[f]]]
    BY <1>b, <2>1, <2>2, <2>3 DEF IInv, SlotInv, Active
  <2>4. \A f \in Fds : desc[f] \in Conns \cup {None}
    BY DEF IInv, TypeOK
  <2>5. QED
    BY <1>a, <2>1, <2>2, <2>3, <2>4 DEF IInv, LossInv, Active, Serving
<1>5. WeightInv'
  BY MdbAssumption, SMT
    DEF IInv, TypeOK, WeightInv, Complete, Answering, TakeSlot, thread, image,
        answer
<1>6. QED
  BY <1>1, <1>2, <1>3, <1>4, <1>5 DEF IInv

\* The thread is to serve the connection accepted last.
LEMMA CreateThreadKeeps ==
  ASSUME IInv, CreateThread
  PROVE  IInv'
<1>a. /\ apc = "create" /\ apc' = "top" /\ afd' = None
      /\ aconn \in Conns /\ ai \in Slots /\ tpc[aconn] = "none" /\ aconn \notin dropped
      /\ ttid' = [ttid EXCEPT ![aconn] = ai]
      /\ UNCHANGED <<fds, desc, ai, peer, tfd, tcnt, asker, strayed, mixed>>
      /\ \/ tpc' = [tpc EXCEPT ![aconn] = "tid"] /\ UNCHANGED dropped
         \/ dropped' = dropped \cup {aconn} /\ UNCHANGED tpc
  BY DEF IInv, LoopInv, CreateThread, answer
<1>1. TypeOK'
  <2>1. aconn \in Conns /\ ai \in 0 .. MaxConn
    BY MdbAssumption, SMT DEF IInv, TypeOK, LoopInv, CreateThread, Slots
  <2>2. tpc' \in [Conns -> ThreadPCs] /\ dropped' \subseteq Conns
    BY <2>1 DEF IInv, TypeOK, ThreadPCs, CreateThread
  <2>3. ttid' \in [Conns -> 0 .. MaxConn]
    BY <2>1 DEF IInv, TypeOK, CreateThread
  <2>4. QED
    BY <2>1, <2>2, <2>3 DEF IInv, TypeOK, CreateThread, image, answer
<1>2. LoopInv'
  <2>1. CASE tpc' = [tpc EXCEPT ![aconn] = "tid"] /\ UNCHANGED dropped
    <3>1. peer[aconn] \notin {"new", "backlog"}
      BY <1>a DEF IInv, LoopInv
    <3>2. tcnt[aconn] < MaxCnt
      BY <1>a DEF IInv, LoopInv
    <3>3. QED
      BY <1>a, <2>1, <3>1, <3>2 DEF IInv, TypeOK, LoopInv, Answering
  <2>2. CASE dropped' = dropped \cup {aconn} /\ UNCHANGED tpc
    BY <1>a, <2>2 DEF IInv, TypeOK, LoopInv, Answering
  <2>3. QED
    BY <1>a, <2>1, <2>2
<1>3. SlotInv'
  BY MdbAssumption
    DEF IInv, TypeOK, LoopInv, SlotInv, Active, Serving, Answering, Behind,
        CreateThread, image, answer
<1>4. LossInv'
  <2>1. SUFFICES ASSUME mixed = {}
                 PROVE  LossInv'
    BY <1>a DEF LossInv
  <2>2. /\ fds[ai] = afd /\ desc[afd] = aconn
        /\ \A t \in Conns : Active(t) => ttid[t] # ai /\ t # aconn
    BY <1>a, <2>1 DEF IInv, SlotInv, Active, Serving
  <2>3. \A u \in Conns : u # aconn => tpc'[u] = tpc[u] /\ ttid'[u] = ttid[u]
    BY <1>a DEF IInv, TypeOK
  <2>4. ttid'[aconn] = ai /\ (tpc'[aconn] = "tid" \/ aconn \in dropped')
    BY <1>a DEF IInv, TypeOK
  <2>5. dropped \subseteq dropped'
    BY <1>a
  <2>6. ASSUME NEW c \in Slots, fds[c] # None
        PROVE  (\E t \in Conns : ttid'[t] = c /\ Active(t)') \/ desc[fds[c]] \in dropped'
    <3>1. CASE c = ai
      BY <1>a, <2>2, <2>4, <3>1 DEF Active, Serving
    <3>2. CASE c # ai
      BY <2>1, <2>2, <2>3, <2>5, <2>6, <3>2 DEF IInv, LossInv, Active, Serving
    <3>3. QED
      BY <3>1, <3>2
  <2>7. ASSUME NEW f \in Fds, desc[f] # None
        PROVE  desc[f] \in dropped' \/ (Serving(desc[f])' /\ fds[ttid'[desc[f]]] = f)
    <3>1. desc[f] \in Conns /\ desc' = desc
      BY <1>a, <2>7 DEF IInv, TypeOK
    <3>2. CASE f = afd
      BY <2>2, <2>4, <3>1, <3>2 DEF Serving
    <3>3. CASE f # afd /\ Serving(desc[f])
      <4>1. desc[f] # aconn
        BY <2>2, <3>1, <3>3 DEF Active
      <4>2. QED
        BY <2>1, <2>3, <2>5, <2>7, <3>1, <3>3, <4>1 DEF IInv, LossInv, Serving
    <3>4. CASE f # afd /\ ~Serving(desc[f])
      BY <2>1, <2>5, <2>7, <3>4 DEF IInv, LossInv
    <3>5. QED
      BY <3>2, <3>3, <3>4
  <2>8. QED
    BY <1>a, <2>6, <2>7 DEF LossInv
<1>5. WeightInv'
  BY MdbAssumption, SMT
    DEF IInv, TypeOK, WeightInv, Complete, Answering, CreateThread, image,
        answer
<1>6. QED
  BY <1>1, <1>2, <1>3, <1>4, <1>5 DEF IInv

\* The signal sets a flag.
LEMMA SigIntKeeps ==
  ASSUME IInv, SigInt
  PROVE  IInv'
<1>1. TypeOK'
  BY MdbAssumption, SMT
    DEF IInv, TypeOK, LoopInv, PeerStates, ThreadPCs, Answering, Behind,
        Slots, SigInt, thread, image, answer
<1>2. LoopInv'
  BY MdbAssumption
    DEF IInv, TypeOK, LoopInv, Answering, Slots, Behind, SigInt, thread,
        image, answer
<1>3. SlotInv'
  BY MdbAssumption
    DEF IInv, TypeOK, LoopInv, SlotInv, Active, Serving, Answering, Behind,
        SigInt, thread, image, answer
<1>4. LossInv'
  BY MdbAssumption
    DEF IInv, TypeOK, LoopInv, SlotInv, LossInv, Active, Serving, SigInt,
        thread, image, answer
<1>5. WeightInv'
  BY MdbAssumption, SMT
    DEF IInv, TypeOK, WeightInv, Complete, Answering, SigInt, thread, image,
        answer
<1>6. QED
  BY <1>1, <1>2, <1>3, <1>4, <1>5 DEF IInv

\* A thread that reads i in time gets its own slot; one that does not is in
\* mixed.
LEMMA ReadTidKeeps ==
  ASSUME IInv, NEW t \in Conns, ReadTid(t)
  PROVE  IInv'
<1>a. /\ tpc[t] = "tid" /\ UNCHANGED <<tcp, tfd, asker, strayed, dropped>>
      /\ mixed' = {} => mixed = {} /\ ttid' = ttid /\ tpc' = [tpc EXCEPT ![t] = "fd"]
  <2>1. ASSUME mixed' = {}
        PROVE  mixed = {} /\ ai = ttid[t]
    BY <2>1 DEF ReadTid
  <2>2. mixed = {} /\ tpc[t] = "tid" => ttid[t] \in Slots
    BY DEF IInv, SlotInv, Active, Serving
  <2>3. \A c \in Slots : c # MaxConn
    BY MdbAssumption, SMT DEF Slots
  <2>4. QED
    BY <2>1, <2>2, <2>3 DEF ReadTid, IInv, TypeOK, answer
<1>1. TypeOK'
  <2>1. ttid' \in [Conns -> 0 .. MaxConn]
    BY DEF IInv, TypeOK, ReadTid
  <2>2. tpc' \in [Conns -> ThreadPCs]
    BY DEF IInv, TypeOK, ThreadPCs, ReadTid
  <2>3. mixed' \subseteq Conns
    BY DEF IInv, TypeOK, ReadTid
  <2>4. QED
    BY <2>1, <2>2, <2>3 DEF IInv, TypeOK, ReadTid, tcp, image, answer
<1>2. LoopInv'
  <2>1. ai # MaxConn => ai \in Slots
    BY MdbAssumption, SMT DEF IInv, TypeOK, Slots
  <2>2. /\ tpc[t] = "tid" /\ ttid' = [ttid EXCEPT ![t] = ai]
        /\ tpc' = [tpc EXCEPT ![t] = IF ai = MaxConn THEN "undefined" ELSE "fd"]
        /\ UNCHANGED <<desc, apc, ai, afd, aconn, peer, tcnt, dropped, asker>>
    BY DEF ReadTid, tcp, answer
  <2>3. aconn = t => apc \notin {"scan", "create"}
    BY <2>2 DEF IInv, LoopInv
  <2>4. \A u \in Conns : u # t => tpc'[u] = tpc[u] /\ ttid'[u] = ttid[u]
    BY <2>2 DEF IInv, TypeOK
  <2>5. ttid'[t] = ai /\ tpc'[t] = IF ai = MaxConn THEN "undefined" ELSE "fd"
    BY <2>2 DEF IInv, TypeOK
  <2>6. QED
    BY <2>1, <2>2, <2>3, <2>4, <2>5 DEF IInv, LoopInv, Answering
<1>3. SlotInv'
  <2>1. SUFFICES ASSUME mixed' = {}
                 PROVE  SlotInv'
    BY DEF SlotInv
  <2>2. \A u \in Conns : Active(u)' = Active(u) /\ Serving(u)' = Serving(u)
    BY <1>a, <2>1 DEF IInv, TypeOK, Active, Serving
  <2>3. \A u \in Conns : Answering(u)' = Answering(u)
    BY <1>a, <2>1 DEF IInv, TypeOK, Answering
  <2>4. \A u \in Conns : tpc'[u] \notin {"tid", "fd"} => tpc[u] \notin {"tid",
  "fd"}
    BY <1>a, <2>1 DEF IInv, TypeOK
  <2>5. QED
    BY <1>a, <2>1, <2>2, <2>3, <2>4 DEF IInv, SlotInv, tcp
<1>4. LossInv'
  <2>1. SUFFICES ASSUME mixed' = {}
                 PROVE  LossInv'
    BY DEF LossInv
  <2>2. \A u \in Conns : Active(u)' = Active(u) /\ Serving(u)' = Serving(u)
    BY <1>a, <2>1 DEF IInv, TypeOK, Active, Serving
  <2>3. \A f \in Fds : desc[f] \in Conns \cup {None}
    BY DEF IInv, TypeOK
  <2>4. QED
    BY <1>a, <2>1, <2>2, <2>3 DEF IInv, LossInv, tcp
<1>5. WeightInv'
  BY MdbAssumption, SMT
    DEF IInv, TypeOK, WeightInv, Complete, Answering, ReadTid, tcp, image,
        answer
<1>6. QED
  BY <1>1, <1>2, <1>3, <1>4, <1>5 DEF IInv

\* The slot holds the descriptor of its thread.
LEMMA ReadFdKeeps ==
  ASSUME IInv, NEW t \in Conns, ReadFd(t)
  PROVE  IInv'
<1>1. TypeOK'
  <2>1. ttid[t] \in Slots
    BY DEF IInv, LoopInv, ReadFd
  <2>2. tfd' \in [Conns -> Fds \cup {None}]
    BY <2>1 DEF IInv, TypeOK, ReadFd
  <2>3. tpc' \in [Conns -> ThreadPCs]
    BY DEF IInv, TypeOK, ThreadPCs, ReadFd
  <2>4. QED
    BY <2>1, <2>2, <2>3 DEF IInv, TypeOK, ReadFd, tcp, image, answer
<1>2. LoopInv'
  BY MdbAssumption
    DEF IInv, TypeOK, LoopInv, Answering, Slots, Behind, ReadFd, tcp, image,
        answer
<1>3. SlotInv'
  BY MdbAssumption
    DEF IInv, TypeOK, LoopInv, SlotInv, Active, Serving, Answering, Behind,
        ReadFd, tcp, image, answer
<1>4. LossInv'
  BY MdbAssumption
    DEF IInv, TypeOK, LoopInv, SlotInv, LossInv, Active, Serving, ReadFd, tcp,
        image, answer
<1>5. WeightInv'
  BY MdbAssumption, SMT
    DEF IInv, TypeOK, WeightInv, Complete, Answering, ReadFd, tcp, image, answer
<1>6. QED
  BY <1>1, <1>2, <1>3, <1>4, <1>5 DEF IInv

\* A request starts with what is complete now.
LEMMA RequestKeeps ==
  ASSUME IInv, NEW t \in Conns, Request(t)
  PROVE  IInv'
<1> DEFINE j == Behind(t)
<1>a. j \in Conns
  BY MdbAssumption DEF IInv, TypeOK, Request, Behind
<1>b. /\ tpc[t] = "loop" /\ peer[j] = "asking" /\ UNCHANGED <<tcp, ttid, tfd, image>>
      /\ UNCHANGED <<treg, strayed, shutdown_flag, mixed, dropped>>
  BY DEF Request
<1>c. \/ /\ tpc' = [tpc EXCEPT ![t] = "brutto"]
         /\ asker' = [asker EXCEPT ![t] = j]
         /\ since' = [since EXCEPT ![t] = Complete]
         /\ UNCHANGED <<peer, tcnt>>
      \/ /\ peer' = [peer EXCEPT ![j] = "up"]
         /\ tcnt' = [tcnt EXCEPT ![t] = 0]
         /\ UNCHANGED <<tpc, asker, since>>
  BY DEF Request
<1>d. mixed = {} => j = t
  <2>1. ASSUME mixed = {}
        PROVE  desc[fds[ttid[t]]] = t /\ tfd[t] = fds[ttid[t]]
    BY <1>b, <2>1 DEF IInv, SlotInv, Active, Serving
  <2>2. QED
    BY <1>a, <2>1, MdbAssumption DEF Behind
<1> HIDE DEF j
<1>1. TypeOK'
  <2>1. Complete \in 0 .. MaxMsg
    BY MdbAssumption, SMT DEF IInv, TypeOK, WeightInv, Complete
  <2>2. 0 \in 0 .. MaxCnt
    BY MdbAssumption, SMT
  <2>3. CASE /\ tpc' = [tpc EXCEPT ![t] = "brutto"]
             /\ asker' = [asker EXCEPT ![t] = j]
             /\ since' = [since EXCEPT ![t] = Complete]
             /\ UNCHANGED <<peer, tcnt>>
    <3>1. tpc' \in [Conns -> ThreadPCs]
      BY <2>3 DEF IInv, TypeOK, ThreadPCs
    <3>2. asker' \in [Conns -> Conns \cup {None}]
      BY <1>a, <2>3 DEF IInv, TypeOK
    <3>3. since' \in [Conns -> 0 .. MaxMsg]
      BY <2>1, <2>3 DEF IInv, TypeOK
    <3>4. QED
      BY <1>b, <2>3, <3>1, <3>2, <3>3 DEF IInv, TypeOK, tcp, image
  <2>4. CASE /\ peer' = [peer EXCEPT ![j] = "up"]
             /\ tcnt' = [tcnt EXCEPT ![t] = 0]
             /\ UNCHANGED <<tpc, asker, since>>
    <3>1. peer' \in [Conns -> PeerStates]
      BY <2>4 DEF IInv, TypeOK, PeerStates
    <3>2. tcnt' \in [Conns -> 0 .. MaxCnt]
      BY <2>2, <2>4 DEF IInv, TypeOK
    <3>3. QED
      BY <1>b, <2>4, <3>1, <3>2 DEF IInv, TypeOK, tcp, image
  <2>5. QED
    BY <1>c, <2>3, <2>4
<1>2. LoopInv'
  <2>1. UNCHANGED <<apc, afd, aconn, ai, desc, dropped, ttid>>
    BY <1>b DEF tcp
  <2>2. aconn = t => apc \notin {"scan", "create"}
    BY <1>b DEF IInv, LoopInv
  <2>3. 0 < MaxCnt
    BY MdbAssumption, SMT
  <2>4. CASE tpc' = [tpc EXCEPT ![t] = "brutto"] /\ asker' = [asker EXCEPT ![t] = j]
             /\ UNCHANGED <<peer, tcnt>>
    BY <1>a, <1>b, <2>1, <2>2, <2>4 DEF IInv, TypeOK, LoopInv, Answering
  <2>5. CASE peer' = [peer EXCEPT ![j] = "up"] /\ tcnt' = [tcnt EXCEPT ![t] = 0]
             /\ UNCHANGED <<tpc, asker>>
    BY <1>a, <1>b, <2>1, <2>3, <2>5 DEF IInv, TypeOK, LoopInv, Answering
  <2>6. QED
    BY <1>c, <2>4, <2>5
<1>3. SlotInv'
  <2>1. UNCHANGED <<fds, apc, afd, aconn, ai, desc, ttid, tfd, mixed, strayed>>
    BY <1>b DEF tcp
  <2>2. CASE tpc' = [tpc EXCEPT ![t] = "brutto"] /\ asker' = [asker EXCEPT ![t] = j]
    BY <1>b, <1>d, <2>1, <2>2
      DEF IInv, TypeOK, SlotInv, Active, Serving, Answering
  <2>3. CASE UNCHANGED <<tpc, asker>>
    BY <2>1, <2>3 DEF IInv, SlotInv, Active, Serving, Answering
  <2>4. QED
    BY <1>c, <2>2, <2>3
<1>4. LossInv'
  <2>1. UNCHANGED <<fds, apc, afd, aconn, ai, desc, ttid, dropped, mixed>>
    BY <1>b DEF tcp
  <2>2. \A u \in Conns : Active(u)' = Active(u) /\ Serving(u)' = Serving(u)
    BY <1>b, <1>c DEF IInv, TypeOK, Active, Serving
  <2>3. \A f \in Fds : desc[f] \in Conns \cup {None}
    BY DEF IInv, TypeOK
  <2>4. QED
    BY <2>1, <2>2, <2>3 DEF IInv, LossInv
<1>5. WeightInv'
  BY MdbAssumption, SMT
    DEF IInv, TypeOK, WeightInv, Complete, Answering, Request, tcp, image
<1>6. QED
  BY <1>1, <1>2, <1>3, <1>4, <1>5 DEF IInv

\* A word is as new as the last message that was stored.
LEMMA ReadWeightsKeeps ==
  ASSUME IInv, NEW t \in Conns, ReadWeights(t)
  PROVE  IInv'
<1>a. PICK w \in {"brutto", "netto"} :
        /\ tpc[t] = w /\ treg' = [treg EXCEPT ![t][w] = wgt[w]]
        /\ tpc' = [tpc EXCEPT ![t] = IF w = "brutto" THEN "netto" ELSE "reply"]
        /\ UNCHANGED <<tcp, peer, ttid, tfd, tcnt, image, asker, since, strayed>>
        /\ UNCHANGED <<shutdown_flag, mixed, dropped>>
  BY DEF ReadWeights, ReadWord
<1>1. TypeOK'
  <2>1. treg' \in [Conns -> [brutto : 0 .. MaxMsg, netto : 0 .. MaxMsg]]
    BY <1>a DEF IInv, TypeOK
  <2>2. tpc' \in [Conns -> ThreadPCs]
    BY <1>a DEF IInv, TypeOK, ThreadPCs
  <2>3. QED
    BY <1>a, <2>1, <2>2 DEF IInv, TypeOK, tcp, image
<1>2. LoopInv'
  BY <1>a DEF IInv, TypeOK, LoopInv, Answering, tcp
<1>3. SlotInv'
  BY <1>a DEF IInv, TypeOK, SlotInv, Active, Serving, Answering, tcp
<1>4. LossInv'
  <2>1. UNCHANGED <<fds, apc, afd, aconn, ai, desc, ttid, dropped, mixed>>
    BY <1>a DEF tcp
  <2>2. \A u \in Conns : Active(u)' = Active(u) /\ Serving(u)' = Serving(u)
    BY <1>a DEF IInv, TypeOK, Active, Serving
  <2>3. \A f \in Fds : desc[f] \in Conns \cup {None}
    BY DEF IInv, TypeOK
  <2>4. QED
    BY <2>1, <2>2, <2>3 DEF IInv, LossInv
<1>5. WeightInv'
  <2>1. UNCHANGED <<wgt, qpc, qmsg,
  since>> /\ Complete' = Complete /\ Complete <= qmsg
    BY <1>a, SMT DEF IInv, TypeOK, image, Complete
  <2>2. \A u \in Conns : u # t => treg'[u] = treg[u] /\ tpc'[u] = tpc[u]
    BY <1>a DEF IInv, TypeOK
  <2>3. CASE w = "brutto"
    <3>1. treg'[t].brutto = wgt.brutto /\ tpc'[t] = "netto"
      BY <1>a, <2>3 DEF IInv, TypeOK
    <3>2. QED
      BY <1>a, <2>1, <2>2, <2>3, <3>1, SMT
        DEF IInv, TypeOK, WeightInv, Answering
  <2>4. CASE w = "netto"
    <3>1. /\ treg'[t].brutto = treg[t].brutto /\ treg'[t].netto = wgt.netto
          /\ tpc'[t] = "reply"
      BY <1>a, <2>4 DEF IInv, TypeOK
    <3>2. QED
      BY <1>a, <2>1, <2>2, <2>4, <3>1, SMT
        DEF IInv, TypeOK, WeightInv, Answering
  <2>5. QED
    BY <1>a, <2>3, <2>4
<1>6. QED
  BY <1>1, <1>2, <1>3, <1>4, <1>5 DEF IInv

\* The reply goes to the connection behind the descriptor.
LEMMA ReplyKeeps ==
  ASSUME IInv, NEW t \in Conns, Reply(t)
  PROVE  IInv'
<1>1. TypeOK'
  <2>1. asker[t] \in Conns
    BY DEF IInv, LoopInv, Answering, Reply
  <2>2. peer' \in [Conns -> PeerStates]
    BY <2>1 DEF IInv, TypeOK, PeerStates, Reply
  <2>3. strayed' \subseteq Conns
    BY DEF IInv, TypeOK, Reply, Behind
  <2>4. tpc' \in [Conns -> ThreadPCs]
    BY DEF IInv, TypeOK, ThreadPCs, Reply
  <2>5. 0 \in 0 .. MaxCnt /\ 0 \in 0 .. MaxMsg
    BY MdbAssumption, SMT
  <2>6. tcnt' \in [Conns -> 0 .. MaxCnt] /\ since' \in [Conns -> 0 .. MaxMsg]
    BY <2>5 DEF IInv, TypeOK, Reply, Forget
  <2>7. treg' \in [Conns -> [brutto : 0 .. MaxMsg, netto : 0 .. MaxMsg]]
    BY <2>5 DEF IInv, TypeOK, Reply, Forget, NoWeights
  <2>8. asker' \in [Conns -> Conns \cup {None}]
    BY DEF IInv, TypeOK, Reply, Forget
  <2>9. QED
    BY <2>1, <2>2, <2>3, <2>4, <2>5, <2>6, <2>7, <2>8
      DEF IInv, TypeOK, Reply, Forget, tcp, image
<1>2. LoopInv'
  <2>1. /\ tpc[t] = "reply" /\ tpc' = [tpc EXCEPT ![t] = "loop"]
        /\ tcnt' = [tcnt EXCEPT ![t] = 0] /\ asker' = [asker EXCEPT ![t] = None]
        /\ UNCHANGED <<desc, apc, ai, afd, aconn, ttid, dropped>>
    BY DEF Reply, Forget, tcp
  <2>2. asker[t] \in Conns /\ ttid[t] \in Slots
    BY <2>1 DEF IInv, LoopInv, Answering
  <2>3. \A u \in Conns : peer'[u] = peer[u] \/ (peer[u] = "asking" /\ peer'[u] = "up")
    BY <2>2 DEF IInv, TypeOK, Reply
  <2>4. 0 < MaxCnt
    BY MdbAssumption, SMT
  <2>5. aconn = t => apc \notin {"scan", "create"}
    BY <2>1 DEF IInv, LoopInv
  <2>6. QED
    BY <2>1, <2>2, <2>3, <2>4, <2>5 DEF IInv, TypeOK, LoopInv, Answering
<1>3. SlotInv'
  BY MdbAssumption
    DEF IInv, TypeOK, LoopInv, SlotInv, Active, Serving, Answering, Behind,
        Reply, Forget, tcp, image
<1>4. LossInv'
  BY MdbAssumption
    DEF IInv, TypeOK, LoopInv, SlotInv, LossInv, Active, Serving, Reply,
        Forget, tcp, image
<1>5. WeightInv'
  BY MdbAssumption, SMT
    DEF IInv, TypeOK, WeightInv, Complete, Answering, Reply, Forget, tcp, image
<1>6. QED
  BY <1>1, <1>2, <1>3, <1>4, <1>5 DEF IInv

\* The count of seconds stays below MAX_CNT until the thread leaves.
LEMMA TimeoutKeeps ==
  ASSUME IInv, NEW t \in Conns, Timeout(t)
  PROVE  IInv'
<1>a. tcnt[t] + 1 \in 0 .. MaxCnt /\ (~(tcnt[t] + 1 >= MaxCnt) => tcnt[t] + 1 < MaxCnt)
  BY MdbAssumption, SMT DEF IInv, TypeOK, LoopInv, Timeout
<1>1. TypeOK'
  <2>1. tcnt' \in [Conns -> 0 .. MaxCnt]
    BY <1>a DEF IInv, TypeOK, Timeout
  <2>2. tpc' \in [Conns -> ThreadPCs]
    BY DEF IInv, TypeOK, ThreadPCs, Timeout
  <2>3. QED
    BY <2>1, <2>2 DEF IInv, TypeOK, Timeout, tcp, image, answer
<1>2. LoopInv'
  <2>1. /\ tpc[t] = "loop" /\ tcnt' = [tcnt EXCEPT ![t] = @ + 1]
        /\ UNCHANGED <<desc, apc, ai, afd, aconn, ttid, dropped, peer, asker>>
    BY DEF Timeout, tcp, answer
  <2>2. \A u \in Conns : u # t => tpc'[u] = tpc[u] /\ tcnt'[u] = tcnt[u]
    BY DEF Timeout, IInv, TypeOK
  <2>3. tpc'[t] = "close" \/ (tpc'[t] = "loop" /\ tcnt'[t] < MaxCnt)
    BY <1>a, <2>1 DEF Timeout, IInv, TypeOK
  <2>4. aconn = t => apc \notin {"scan", "create"}
    BY <2>1 DEF IInv, LoopInv
  <2>5. QED
    BY <2>1, <2>2, <2>3, <2>4 DEF IInv, LoopInv, Answering
<1>3. SlotInv'
  BY MdbAssumption
    DEF IInv, TypeOK, LoopInv, SlotInv, Active, Serving, Answering, Behind,
        Timeout, tcp, image, answer
<1>4. LossInv'
  BY MdbAssumption
    DEF IInv, TypeOK, LoopInv, SlotInv, LossInv, Active, Serving, Timeout,
        tcp, image, answer
<1>5. WeightInv'
  BY MdbAssumption, SMT
    DEF IInv, TypeOK, WeightInv, Complete, Answering, Timeout, tcp, image,
        answer
<1>6. QED
  BY <1>1, <1>2, <1>3, <1>4, <1>5 DEF IInv

\* A thread leaves its loop with its slot.
LEMMA LeaveKeeps ==
  ASSUME IInv, NEW t \in Conns, Leave(t)
  PROVE  IInv'
<1>1. TypeOK'
  <2>1. tpc' \in [Conns -> ThreadPCs]
    BY DEF IInv, TypeOK, ThreadPCs, Leave
  <2>2. QED
    BY <2>1 DEF IInv, TypeOK, Leave, tcp, image, answer
<1>2. LoopInv'
  BY MdbAssumption
    DEF IInv, TypeOK, LoopInv, Answering, Slots, Behind, Leave, tcp, image,
        answer
<1>3. SlotInv'
  BY MdbAssumption
    DEF IInv, TypeOK, LoopInv, SlotInv, Active, Serving, Answering, Behind,
        Leave, tcp, image, answer
<1>4. LossInv'
  BY MdbAssumption
    DEF IInv, TypeOK, LoopInv, SlotInv, LossInv, Active, Serving, Leave, tcp,
        image, answer
<1>5. WeightInv'
  BY MdbAssumption, SMT
    DEF IInv, TypeOK, WeightInv, Complete, Answering, Leave, tcp, image, answer
<1>6. QED
  BY <1>1, <1>2, <1>3, <1>4, <1>5 DEF IInv

\* The descriptor closed is the thread's own.
LEMMA CloseSockKeeps ==
  ASSUME IInv, NEW t \in Conns, CloseSock(t)
  PROVE  IInv'
<1>1. TypeOK'
  <2>1. desc' \in [Fds -> Conns \cup {None}]
    BY DEF IInv, TypeOK, CloseSock
  <2>2. peer' \in [Conns -> PeerStates]
    BY DEF IInv, TypeOK, PeerStates, CloseSock
  <2>3. tpc' \in [Conns -> ThreadPCs]
    BY DEF IInv, TypeOK, ThreadPCs, CloseSock
  <2>4. QED
    BY <2>1, <2>2, <2>3 DEF IInv, TypeOK, CloseSock, image, answer
<1>2. LoopInv'
  BY MdbAssumption
    DEF IInv, TypeOK, LoopInv, Answering, Slots, Behind, CloseSock, image,
        answer
<1>3. SlotInv'
  BY MdbAssumption
    DEF IInv, TypeOK, LoopInv, SlotInv, Active, Serving, Answering, Behind,
        CloseSock, image, answer
<1>4. LossInv'
  BY MdbAssumption
    DEF IInv, TypeOK, LoopInv, SlotInv, LossInv, Active, Serving, CloseSock,
        image, answer
<1>5. WeightInv'
  BY MdbAssumption, SMT
    DEF IInv, TypeOK, WeightInv, Complete, Answering, CloseSock, image, answer
<1>6. QED
  BY <1>1, <1>2, <1>3, <1>4, <1>5 DEF IInv

\* The slot given back is the thread's own.
LEMMA FreeSlotKeeps ==
  ASSUME IInv, NEW t \in Conns, FreeSlot(t)
  PROVE  IInv'
<1>1. TypeOK'
  <2>1. 0 \in 0 .. MaxConn /\ 0 \in 0 .. MaxCnt
    BY MdbAssumption, SMT
  <2>2. fds' \in [Slots -> Fds \cup {None}]
    BY DEF IInv, TypeOK, FreeSlot
  <2>3. tpc' \in [Conns -> ThreadPCs] /\ ttid' \in [Conns -> 0 .. MaxConn]
    BY <2>1 DEF IInv, TypeOK, ThreadPCs, FreeSlot
  <2>4. tfd' \in [Conns -> Fds \cup {None}] /\ tcnt' \in [Conns -> 0 .. MaxCnt]
    BY <2>1 DEF IInv, TypeOK, FreeSlot
  <2>5. QED
    BY <2>1, <2>2, <2>3, <2>4 DEF IInv, TypeOK, FreeSlot, image, answer
<1>2. LoopInv'
  BY MdbAssumption
    DEF IInv, TypeOK, LoopInv, Answering, Slots, Behind, FreeSlot, image, answer
<1>3. SlotInv'
  BY MdbAssumption
    DEF IInv, TypeOK, LoopInv, SlotInv, Active, Serving, Answering, Behind,
        FreeSlot, image, answer
<1>4. LossInv'
  BY MdbAssumption
    DEF IInv, TypeOK, LoopInv, SlotInv, LossInv, Active, Serving, FreeSlot,
        image, answer
<1>5. WeightInv'
  BY MdbAssumption, SMT
    DEF IInv, TypeOK, WeightInv, Complete, Answering, FreeSlot, image, answer
<1>6. QED
  BY <1>1, <1>2, <1>3, <1>4, <1>5 DEF IInv

\* A message begins: the gross weight is newer than the net weight.
LEMMA StoreBruttoKeeps ==
  ASSUME IInv, StoreBrutto
  PROVE  IInv'
<1>1. TypeOK'
  <2>1. qmsg' \in 0 .. MaxMsg
    BY MdbAssumption, SMT DEF IInv, TypeOK, StoreBrutto
  <2>2. wgt' \in [brutto : 0 .. MaxMsg, netto : 0 .. MaxMsg]
    BY <2>1 DEF IInv, TypeOK, StoreBrutto
  <2>3. QED
    BY <2>1, <2>2 DEF IInv, TypeOK, StoreBrutto, tcp, thread, answer
<1>2. LoopInv'
  BY MdbAssumption
    DEF IInv, TypeOK, LoopInv, Answering, Slots, Behind, StoreBrutto, tcp,
        thread, answer
<1>3. SlotInv'
  BY MdbAssumption
    DEF IInv, TypeOK, LoopInv, SlotInv, Active, Serving, Answering, Behind,
        StoreBrutto, tcp, thread, answer
<1>4. LossInv'
  BY MdbAssumption
    DEF IInv, TypeOK, LoopInv, SlotInv, LossInv, Active, Serving, StoreBrutto,
        tcp, thread, answer
<1>5. WeightInv'
  <2>1. /\ qmsg \in Nat /\ qmsg' = qmsg + 1 /\ Complete = qmsg /\ Complete' = qmsg
        /\ wgt'.brutto = qmsg + 1 /\ wgt'.netto = wgt.netto
        /\ UNCHANGED <<tpc, treg, since>>
    BY MdbAssumption, SMT
      DEF IInv, TypeOK, StoreBrutto, Complete, thread, answer
  <2>2. ASSUME NEW u \in Conns
        PROVE  /\ treg[u].brutto \in Nat /\ treg[u].netto \in Nat /\ since[u] \in Nat
    BY SMT DEF IInv, TypeOK
  <2>3. QED
    BY <2>1, <2>2, SMT DEF IInv, WeightInv, Answering
<1>6. QED
  BY <1>1, <1>2, <1>3, <1>4, <1>5 DEF IInv

\* The message is complete.
LEMMA StoreNettoKeeps ==
  ASSUME IInv, StoreNetto
  PROVE  IInv'
<1>1. TypeOK'
  <2>1. wgt' \in [brutto : 0 .. MaxMsg, netto : 0 .. MaxMsg]
    BY DEF IInv, TypeOK, StoreNetto
  <2>2. QED
    BY <2>1 DEF IInv, TypeOK, StoreNetto, tcp, thread, answer
<1>2. LoopInv'
  BY MdbAssumption
    DEF IInv, TypeOK, LoopInv, Answering, Slots, Behind, StoreNetto, tcp,
        thread, answer
<1>3. SlotInv'
  BY MdbAssumption
    DEF IInv, TypeOK, LoopInv, SlotInv, Active, Serving, Answering, Behind,
        StoreNetto, tcp, thread, answer
<1>4. LossInv'
  BY MdbAssumption
    DEF IInv, TypeOK, LoopInv, SlotInv, LossInv, Active, Serving, StoreNetto,
        tcp, thread, answer
<1>5. WeightInv'
  BY MdbAssumption, SMT
    DEF IInv, TypeOK, WeightInv, Complete, Answering, StoreNetto, tcp, thread,
        answer
<1>6. QED
  BY <1>1, <1>2, <1>3, <1>4, <1>5 DEF IInv

\* Every step keeps the invariant.
LEMMA NextIInv ==
  ASSUME IInv, [Next]_vars
  PROVE  IInv'
<1>1. CASE Next
  BY <1>1, ConnectKeeps, AskKeeps, CloseKeeps, LoopTestKeeps, AcceptKeeps,
     ScanBusyKeeps, RefuseKeeps, TakeSlotKeeps, CreateThreadKeeps,
     SigIntKeeps, ReadTidKeeps, ReadFdKeeps, RequestKeeps, ReadWeightsKeeps,
     ReplyKeeps, TimeoutKeeps, LeaveKeeps, CloseSockKeeps, FreeSlotKeeps,
     StoreBruttoKeeps, StoreNettoKeeps
    DEF Next, TcpLoop, Thread, Client, OnMessage
<1>2. CASE UNCHANGED vars
  <2>1. TypeOK'
    BY <1>2 DEF IInv, TypeOK, vars, tcp, thread, image, answer
  <2>2. LoopInv'
    BY <1>2 DEF IInv, LoopInv, Answering, vars, tcp, thread, image, answer
  <2>3. SlotInv'
    BY <1>2
      DEF IInv, SlotInv, Active, Serving, Answering, vars, tcp, thread, image,
          answer
  <2>4. LossInv'
    BY <1>2 DEF IInv, LossInv, Active, Serving, vars, tcp, thread, image, answer
  <2>5. WeightInv'
    BY <1>2
      DEF IInv, WeightInv, Complete, Answering, vars, tcp, thread, image, answer
  <2>6. QED
    BY <2>1, <2>2, <2>3, <2>4, <2>5 DEF IInv
<1>3. QED
  BY <1>1, <1>2

\* The invariant behind every theorem of this module.
THEOREM Invariance == Spec => []IInv
<1>1. Init => IInv
  BY InitIInv
<1>2. IInv /\ [Next]_vars => IInv'
  BY NextIInv
<1>3. QED
  BY <1>1, <1>2, PTL DEF Spec

\* The indices into fds and tm_cnt keep their ranges, also when a thread has
\* read i too late (past the last slot its thread is in "undefined").
THEOREM TypeCorrect == Spec => []TypeOK
<1>1. IInv => TypeOK
  BY DEF IInv
<1>2. QED
  BY Invariance, <1>1, PTL

\* Every thread serves its own connection in a slot of its own.
THEOREM EachOwnSlot == Spec => []OwnSlot
<1>1. IInv => OwnSlot
  BY DEF IInv, TypeOK, SlotInv, OwnSlot, Active, Serving
<1>2. QED
  BY Invariance, <1>1, PTL

\* Replies go to whoever asked.
THEOREM NeverStrays == Spec => []NoStray
<1>1. IInv => NoStray
  BY DEF IInv, SlotInv, NoStray
<1>2. QED
  BY Invariance, <1>1, PTL

\* Slots and descriptors come back on every path but the ones named.
THEOREM NothingGetsLost == Spec => []NothingLost
<1>1. IInv => NothingLost
  <2>1. SUFFICES ASSUME IInv, mixed = {}
                 PROVE  NothingLost
    BY DEF NothingLost
  <2>2. ASSUME NEW c \in Slots, fds[c] # None
        PROVE  \/ \E t \in Conns : ttid[t] = c /\ (Serving(t) \/ tpc[t] = "free")
               \/ apc = "create" /\ ai = c
               \/ desc[fds[c]] \in dropped
    BY <2>1, <2>2 DEF IInv, LossInv, Active
  <2>3. ASSUME NEW f \in Fds, desc[f] # None
        PROVE  f = afd \/ desc[f] \in dropped \/ \E c \in Slots : fds[c] = f
    <3>1. CASE Serving(desc[f]) /\ fds[ttid[desc[f]]] = f
      BY <2>1, <2>3, <3>1 DEF IInv, TypeOK, SlotInv, Active
    <3>2. QED
      BY <2>1, <2>3, <3>1 DEF IInv, LossInv
  <2>4. QED
    BY <2>2, <2>3 DEF NothingLost
<1>2. QED
  BY Invariance, <1>1, PTL

\* A request reads weights no older than itself.
THEOREM WeightsFresh == Spec => []FreshWeights
<1>1. IInv => FreshWeights
  BY SMT DEF IInv, TypeOK, WeightInv, FreshWeights, Complete, Answering
<1>2. QED
  BY Invariance, <1>1, PTL
=============================================================================
