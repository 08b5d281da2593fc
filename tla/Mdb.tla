--------------------------------- MODULE Mdb ---------------------------------
(***************************************************************************)
(* The Modbus gateway mdb: tcp_loop gives each connection one of four      *)
(* slots of fds and a thread; proc_connect answers requests until its      *)
(* client has closed, or has said nothing for MAX_CNT seconds; on_message, *)
(* in the MQTT thread, stores the weights that requests read.  No lock.    *)
(*                                                                         *)
(* A thread is named after the connection it was created for.  It learns   *)
(* its slot from *context, which is the variable i of tcp_loop, whatever i *)
(* is by then.  Descriptors are numbers here, reused lowest first, because *)
(* a thread may close one that is not its own.                             *)
(***************************************************************************)
EXTENDS Naturals

CONSTANTS
  Conns,    \* connections clients may open during a run
  MaxConn,  \* MAX_CONNECTIONS
  MaxCnt,   \* MAX_CNT
  NFd,      \* descriptors the process may still open
  MaxMsg,   \* bound: messages on matrix/wgt during a run
  None      \* -1

ASSUME MdbAssumption ==
  /\ MaxConn \in Nat \ {0} /\ MaxCnt \in Nat \ {0}
  /\ NFd \in Nat /\ MaxMsg \in Nat
  /\ None \notin Conns /\ None \notin Nat

Slots == 0 .. MaxConn - 1
Fds   == 1 .. NFd

VARIABLES
  fds,              \* the slots
  desc,             \* kernel: the connection behind each descriptor
  peer,             \* clients
  apc, ai, afd,     \* tcp_loop: label, i, fd
  aconn,            \* the connection that was accepted with fd
  tpc, ttid, tfd,   \* proc_connect: label, tid, csfd
  tcnt,             \* tm_cnt
  wgt,              \* w[0] and w[1]: the weights of the last messages
  qpc, qmsg,        \* on_message: label, number of the message
  treg,             \* rt_db of a request that is being answered
  shutdown_flag,
  asker, since,     \* history: who sent the request, what was stored by then
  mixed,            \* history: threads that took another slot than their own
  strayed,          \* history: connections that got another one's reply
  dropped           \* history: refused, or left without a thread

tcp    == <<fds, desc, apc, ai, afd, aconn>>
thread == <<tpc, ttid, tfd, tcnt>>
image  == <<wgt, qpc, qmsg>>
answer == <<treg, asker, since, strayed>>
vars   == <<tcp, peer, thread, image, answer, shutdown_flag, mixed, dropped>>

PeerStates == {"new", "backlog", "up", "asking", "closed"}
ThreadPCs  == {"none", "tid", "fd", "loop", "brutto", "netto", "reply",
               "close", "free", "done", "undefined"}

NoWeights == [brutto |-> 0, netto |-> 0]

Init ==
  /\ fds = [c \in Slots |-> None]
  /\ desc = [f \in Fds |-> None]
  /\ peer = [k \in Conns |-> "new"]
  /\ apc = "top" /\ ai = 0 /\ afd = None /\ aconn = None
  /\ tpc = [k \in Conns |-> "none"]
  /\ ttid = [k \in Conns |-> 0]
  /\ tfd = [k \in Conns |-> None]
  /\ tcnt = [k \in Conns |-> 0]
  /\ wgt = NoWeights
  /\ qpc = "idle" /\ qmsg = 0
  /\ treg = [k \in Conns |-> NoWeights]
  /\ shutdown_flag = FALSE
  /\ asker = [k \in Conns |-> None]
  /\ since = [k \in Conns |-> 0]
  /\ mixed = {} /\ strayed = {} /\ dropped = {}

Running == apc # "exit"
-----------------------------------------------------------------------------
(* The clients                                                              *)

Peer(k, from, to) ==
  /\ peer[k] \in from
  /\ peer' = [peer EXCEPT ![k] = to]
  /\ UNCHANGED <<tcp, thread, image, answer, shutdown_flag, mixed, dropped>>

\* Nothing depends on what a connection without a thread says.
Connect(k) == Peer(k, {"new"}, "backlog")
Ask(k)     == k \notin dropped /\ Peer(k, {"up"}, "asking")
Close(k)   == k \notin dropped /\ Peer(k, {"up"}, "closed")
-----------------------------------------------------------------------------
(* tcp_loop                                                                 *)

\* while( !shutdown_flag )
LoopTest ==
  /\ apc = "top"
  /\ apc' = IF shutdown_flag THEN "exit" ELSE "accept"
  /\ UNCHANGED <<fds, desc, ai, afd, aconn, peer, thread, image, answer,
                 shutdown_flag, mixed, dropped>>

\* accept() gives the lowest free descriptor.  With none left it fails, and
\* tcp_loop goes round and round.
Accept(k) ==
  /\ apc = "accept" /\ peer[k] = "backlog"
  /\ \E f \in Fds :
       /\ desc[f] = None /\ \A g \in Fds : desc[g] = None => f <= g
       /\ desc' = [desc EXCEPT ![f] = k]
       /\ afd' = f
  /\ peer' = [peer EXCEPT ![k] = "up"]
  /\ apc' = "scan" /\ ai' = 0 /\ aconn' = k
  /\ UNCHANGED <<fds, thread, image, answer, shutdown_flag, mixed, dropped>>

ScanBusy ==
  /\ apc = "scan" /\ ai < MaxConn /\ fds[ai] # None
  /\ ai' = ai + 1
  /\ UNCHANGED <<fds, desc, apc, afd, aconn, peer, thread, image, answer,
                 shutdown_flag, mixed, dropped>>

\* "Connection refused", without a close.
Refuse ==
  /\ apc = "scan" /\ ai = MaxConn
  /\ apc' = "top" /\ afd' = None /\ aconn' = None
  /\ dropped' = dropped \cup {aconn}
  /\ UNCHANGED <<fds, desc, ai, peer, thread, image, answer, shutdown_flag,
                 mixed>>

\* Slip: the first slot is taken, free or not.
TakeFirst ==
  /\ apc = "scan" /\ ai < MaxConn
  /\ fds' = [fds EXCEPT ![ai] = afd]
  /\ apc' = "create"
  /\ UNCHANGED <<desc, ai, afd, aconn, peer, thread, image, answer, shutdown_flag,
                 mixed, dropped>>

TakeSlot ==
  /\ apc = "scan" /\ ai < MaxConn /\ fds[ai] = None
  /\ fds' = [fds EXCEPT ![ai] = afd]
  /\ apc' = "create"
  /\ UNCHANGED <<desc, ai, afd, aconn, peer, thread, image, answer, shutdown_flag,
                 mixed, dropped>>

\* pthread_create(..., &i).  Without a thread the slot stays taken.
CreateThread ==
  /\ apc = "create"
  /\ \/ tpc' = [tpc EXCEPT ![aconn] = "tid"] /\ UNCHANGED dropped
     \/ dropped' = dropped \cup {aconn} /\ UNCHANGED tpc
  /\ ttid' = [ttid EXCEPT ![aconn] = ai]
  /\ apc' = "top" /\ afd' = None /\ aconn' = None
  /\ UNCHANGED <<fds, desc, ai, peer, tfd, tcnt, image, answer, shutdown_flag,
                 mixed>>

\* SIGINT; accept returns EINTR if it was already waiting.  mqtt_thr is
\* cancelled in mosquitto_loop, never inside on_message.
SigInt ==
  /\ ~shutdown_flag
  /\ shutdown_flag' = TRUE
  /\ apc' \in IF apc = "accept" THEN {"accept", "top"} ELSE {apc}
  /\ UNCHANGED <<fds, desc, ai, afd, aconn, peer, thread, image, answer, mixed,
                 dropped>>
-----------------------------------------------------------------------------
(* proc_connect                                                             *)

\* int tid=*(int *)context.  i may have moved on to another slot, or past
\* the last one, where fds[tid] is somebody else's memory.
ReadTid(t) ==
  /\ tpc[t] = "tid"
  /\ ttid' = [ttid EXCEPT ![t] = ai]
  /\ tpc' = [tpc EXCEPT ![t] = IF ai = MaxConn THEN "undefined" ELSE "fd"]
  /\ mixed' = IF ai = ttid[t] THEN mixed ELSE mixed \cup {t}
  /\ UNCHANGED <<tcp, peer, tfd, tcnt, image, answer, shutdown_flag, dropped>>

ReadFd(t) ==
  /\ tpc[t] = "fd"
  /\ tfd' = [tfd EXCEPT ![t] = fds[ttid[t]]]
  /\ tpc' = [tpc EXCEPT ![t] = IF fds[ttid[t]] = None THEN "close" ELSE "loop"]
  /\ UNCHANGED <<tcp, peer, ttid, tcnt, image, answer, shutdown_flag, mixed,
                 dropped>>

\* The connection behind csfd, None once somebody closed it.
Behind(t) == IF tfd[t] = None THEN None ELSE desc[tfd[t]]

\* Messages of which both weights are stored.
Complete == IF qpc = "netto" THEN qmsg - 1 ELSE qmsg

\* A request is there: FIONREAD and read.  A read of registers starts with
\* serialize_db.  Any other request is over at once, as it leaves nothing in this
\* process: one that is too short, a write of registers, and an unknown function
\* code, for which proc_mdb returns a size it never set, so that the client gets
\* any number of bytes of the stack, or none when write fails.
Request(t) ==
  LET k == Behind(t) IN
  /\ tpc[t] = "loop" /\ ~shutdown_flag
  /\ k # None /\ peer[k] = "asking"
  /\ \/ /\ tpc' = [tpc EXCEPT ![t] = "brutto"]
        /\ asker' = [asker EXCEPT ![t] = k]
        /\ since' = [since EXCEPT ![t] = Complete]
        /\ UNCHANGED <<peer, tcnt>>
     \/ /\ peer' = [peer EXCEPT ![k] = "up"]
        /\ tcnt' = [tcnt EXCEPT ![t] = 0]
        /\ UNCHANGED <<tpc, asker, since>>
  /\ UNCHANGED <<tcp, ttid, tfd, image, treg, strayed, shutdown_flag, mixed,
                 dropped>>

\* serialize_db copies word after word.
ReadWord(t, w, next) ==
  /\ tpc[t] = w
  /\ treg' = [treg EXCEPT ![t][w] = wgt[w]]
  /\ tpc' = [tpc EXCEPT ![t] = next]
  /\ UNCHANGED <<tcp, peer, ttid, tfd, tcnt, image, asker, since, strayed,
                 shutdown_flag, mixed, dropped>>

ReadWeights(t) == ReadWord(t, "brutto", "netto") \/ ReadWord(t, "netto", "reply")

\* rt_db goes out of scope.
Forget(t) ==
  /\ treg' = [treg EXCEPT ![t] = NoWeights]
  /\ asker' = [asker EXCEPT ![t] = None]
  /\ since' = [since EXCEPT ![t] = 0]

\* write(fd,mdb_buf,rep_size) to whatever csfd is by now
Reply(t) ==
  /\ tpc[t] = "reply"
  /\ peer' = [peer EXCEPT ![asker[t]] = IF @ = "asking" THEN "up" ELSE @]
  /\ strayed' = IF Behind(t) \in {None, asker[t]} THEN strayed
                ELSE strayed \cup {Behind(t)}
  /\ tpc' = [tpc EXCEPT ![t] = "loop"]
  /\ tcnt' = [tcnt EXCEPT ![t] = 0]
  /\ Forget(t)
  /\ UNCHANGED <<tcp, ttid, tfd, image, shutdown_flag, mixed, dropped>>

\* Nothing came for a second.
Timeout(t) ==
  /\ tpc[t] = "loop" /\ ~shutdown_flag
  /\ Behind(t) # None /\ peer[Behind(t)] = "up"
  /\ tcnt' = [tcnt EXCEPT ![t] = @ + 1]
  /\ tpc' = [tpc EXCEPT ![t] = IF tcnt[t] + 1 >= MaxCnt THEN "close" ELSE @]
  /\ UNCHANGED <<tcp, peer, ttid, tfd, image, answer, shutdown_flag, mixed,
                 dropped>>

\* The client has closed (len==0), the descriptor is not open (EBADF), or
\* shutdown_flag is set.
Leave(t) ==
  /\ tpc[t] = "loop"
  /\ Behind(t) # None => shutdown_flag \/ peer[Behind(t)] = "closed"
  /\ tpc' = [tpc EXCEPT ![t] = "close"]
  /\ UNCHANGED <<tcp, peer, ttid, tfd, tcnt, image, answer, shutdown_flag,
                 mixed, dropped>>

CloseSock(t) ==
  /\ tpc[t] = "close"
  /\ desc' = [f \in Fds |-> IF f = tfd[t] THEN None ELSE desc[f]]
  /\ peer' = [k \in Conns |-> IF k = Behind(t) THEN "closed" ELSE peer[k]]
  /\ tpc' = [tpc EXCEPT ![t] = "free"]
  /\ UNCHANGED <<fds, apc, ai, afd, aconn, ttid, tfd, tcnt, image, answer,
                 shutdown_flag, mixed, dropped>>

\* Slip: the slot is not given back.
KeepSlot(t) ==
  /\ tpc[t] = "free"
  /\ tpc' = [tpc EXCEPT ![t] = "done"]
  /\ UNCHANGED <<tcp, peer, ttid, tfd, tcnt, image, answer, shutdown_flag,
                 mixed, dropped>>

FreeSlot(t) ==
  /\ tpc[t] = "free"
  /\ fds' = [fds EXCEPT ![ttid[t]] = None]
  /\ tpc' = [tpc EXCEPT ![t] = "done"]
  /\ ttid' = [ttid EXCEPT ![t] = 0]
  /\ tfd' = [tfd EXCEPT ![t] = None]
  /\ tcnt' = [tcnt EXCEPT ![t] = 0]
  /\ UNCHANGED <<desc, apc, ai, afd, aconn, peer, image, answer, shutdown_flag,
                 mixed, dropped>>
-----------------------------------------------------------------------------
(* on_message: message number qmsg carries a weight of that number.         *)

StoreBrutto ==
  /\ qpc = "idle" /\ qmsg < MaxMsg /\ ~shutdown_flag
  /\ qmsg' = qmsg + 1
  /\ wgt' = [wgt EXCEPT !.brutto = qmsg + 1]
  /\ qpc' = "netto"
  /\ UNCHANGED <<tcp, peer, thread, answer, shutdown_flag, mixed, dropped>>

\* Slip: the net weight is computed from the old gross weight (a tare that
\* was forgotten in the image).
StoreNettoOld ==
  /\ qpc = "netto"
  /\ wgt' = [wgt EXCEPT !.netto = wgt.brutto - 1]
  /\ qpc' = "idle"
  /\ UNCHANGED <<tcp, peer, thread, qmsg, answer, shutdown_flag, mixed, dropped>>

StoreNetto ==
  /\ qpc = "netto"
  /\ wgt' = [wgt EXCEPT !.netto = wgt.brutto]
  /\ qpc' = "idle"
  /\ UNCHANGED <<tcp, peer, thread, qmsg, answer, shutdown_flag, mixed, dropped>>
-----------------------------------------------------------------------------
TcpLoop == LoopTest \/ (\E k \in Conns : Accept(k)) \/ ScanBusy \/ Refuse
             \/ TakeSlot \/ CreateThread

Thread(t) ==
  \/ ReadTid(t) \/ ReadFd(t) \/ Request(t) \/ ReadWeights(t) \/ Reply(t)
  \/ Timeout(t) \/ Leave(t) \/ CloseSock(t) \/ FreeSlot(t)

Client(k) == Connect(k) \/ Ask(k) \/ Close(k)

OnMessage == StoreBrutto \/ StoreNetto

Next ==
  /\ Running
  /\ \/ \E k \in Conns : Client(k) \/ Thread(k)
     \/ TcpLoop \/ OnMessage \/ SigInt

Spec == Init /\ [][Next]_vars

-----------------------------------------------------------------------------
(* Correctness                                                              *)

TypeOK ==
  /\ fds \in [Slots -> Fds \cup {None}]
  /\ desc \in [Fds -> Conns \cup {None}]
  /\ peer \in [Conns -> PeerStates]
  /\ apc \in {"top", "accept", "scan", "create", "exit"}
  /\ ai \in 0 .. MaxConn
  /\ afd \in Fds \cup {None} /\ aconn \in Conns \cup {None}
  /\ tpc \in [Conns -> ThreadPCs]
  /\ ttid \in [Conns -> 0 .. MaxConn]
  /\ tfd \in [Conns -> Fds \cup {None}]
  /\ tcnt \in [Conns -> 0 .. MaxCnt]
  /\ wgt \in [brutto : 0 .. MaxMsg, netto : 0 .. MaxMsg]
  /\ qpc \in {"idle", "netto"}
  /\ qmsg \in 0 .. MaxMsg
  /\ treg \in [Conns -> [brutto : 0 .. MaxMsg, netto : 0 .. MaxMsg]]
  /\ shutdown_flag \in BOOLEAN
  /\ asker \in [Conns -> Conns \cup {None}]
  /\ since \in [Conns -> 0 .. MaxMsg]
  /\ mixed \subseteq Conns /\ strayed \subseteq Conns /\ dropped \subseteq Conns

\* From the creation of its thread to the close, t has a slot.
Serving(t) == tpc[t] \in {"tid", "fd", "loop", "brutto", "netto", "reply", "close"}

\* Until a thread reads i too late, every thread serves the connection it was
\* created for, in a slot of its own that holds its descriptor, and nobody
\* else closes that descriptor.
OwnSlot ==
  mixed = {} =>
    \A t \in Conns : Serving(t) =>
      /\ ttid[t] \in Slots
      /\ fds[ttid[t]] \in Fds /\ desc[fds[ttid[t]]] = t
      /\ tpc[t] \notin {"tid", "fd"} => tfd[t] = fds[ttid[t]]
      /\ \A u \in Conns \ {t} :
           Serving(u) \/ tpc[u] = "free" => ttid[u] # ttid[t]

\* A reply reaches the connection that asked, unless a thread read i too late.
NoStray == strayed # {} => mixed # {}

\* No slot and no descriptor is lost on any path (client gone, silence,
\* shutdown) but a refusal, a failed pthread_create and i read too late.
NothingLost ==
  mixed = {} =>
    /\ \A c \in Slots : fds[c] # None =>
         \/ \E t \in Conns : ttid[t] = c /\ (Serving(t) \/ tpc[t] = "free")
         \/ apc = "create" /\ ai = c
         \/ desc[fds[c]] \in dropped
    /\ \A f \in Fds : desc[f] # None =>
         f = afd \/ desc[f] \in dropped \/ \E c \in Slots : fds[c] = f

\* What a request reads is never older than what was complete when it came,
\* and the two weights of one answer differ only when a message was stored
\* meanwhile.
FreshWeights ==
  \A t \in Conns : tpc[t] = "reply" =>
    /\ treg[t].brutto >= since[t] /\ treg[t].netto >= since[t]
    /\ treg[t].brutto # treg[t].netto => qmsg > since[t]
=============================================================================
