---------------------------- MODULE ScaledClients ----------------------------
(***************************************************************************)
(* The client table of scaled (cli_array) and the threads that share it    *)
(* without a lock:                                                         *)
(*   runpacket     accepts a connection, finds a slot, makes one pipe per  *)
(*                 scale and starts a packet_feed thread   (packet_daemon) *)
(*   packet_feed   copies what arrives in the pipes of its slot to the     *)
(*                 socket, and gives the slot back at the end              *)
(*   scale loops   write each weight into the pipes of all slots           *)
(*                 (DISTRIBUTE_WEIGHT / DISTRIBUTE_DATA)                   *)
(*   main          waits for SIGINT, then stop_clients and the joins       *)
(*                                                                         *)
(* A connection k names its socket, its feed thread and its pipes: the     *)
(* pipe of k and scale s is <<k, s>>.  Descriptor numbers are left out: no *)
(* number is closed by a thread that does not hold it, so a slot's entry   *)
(* wrfd[c][s] = k stands for "the write end of <<k, s>>".                  *)
(***************************************************************************)
EXTENDS Naturals

CONSTANTS
  Conns,       \* connections clients may open during a run
  MaxClients,  \* MAX_CLIENTS
  ScaleCnt,    \* scale_cnt
  PipeCap,     \* messages a pipe holds before a write gets EAGAIN
  None         \* -1

ASSUME ClientsAssumption ==
  /\ MaxClients \in Nat \ {0}
  /\ ScaleCnt \in Nat \ {0}
  /\ PipeCap \in Nat \ {0}
  /\ None \notin Conns

Slots  == 0 .. MaxClients - 1
Scales == 0 .. ScaleCnt - 1
Pipes  == Conns \X Scales
ConnOrNone == Conns \cup {None}
NoFds == [s \in Scales |-> None]

VARIABLES
  \* cli_array, field by field
  sock, thr, go, fin, wrfd, rdfd,
  \* the kernel: open pipe ends, messages queued, sockets, the remote ends
  ropen, wopen, queued, csock, peer,
  \* runpacket: label, newsockfd, index of the slot
  apc, aconn, acli,
  \* packet_feed of each connection: label, slot, descriptors select reported
  fpc, fslot, fready,
  \* each scale loop: label, index i, the local variable wrfd
  spc, scli, swr,
  \* main: label, index in stop_clients, thread being joined
  mpc, mcli, mthr, shutdown_flag,
  \* history: from whose pipes the bytes sent to a connection came
  got

table  == <<sock, thr, go, fin, wrfd, rdfd>>
kernel == <<ropen, wopen, queued, csock, peer>>
accv   == <<apc, aconn, acli>>
feedv  == <<fpc, fslot, fready>>
scalev == <<spc, scli, swr>>
mainv  == <<mpc, mcli, mthr, shutdown_flag>>
vars   == <<table, kernel, accv, feedv, scalev, mainv, got>>

PeerStates == {"new", "backlog", "up", "stalled", "gone", "reset"}
AcceptPCs  == {"accept", "scan", "pipe", "fin", "go", "create", "clean", "stop"}
FeedPCs    == {"none", "loop", "drain", "quit", "fin", "free", "thr", "done"}
ScalePCs   == {"idle", "read", "act", "close", "clear", "stop"}
MainPCs    == {"run", "cancel", "go0", "test", "join", "wait", "scales",
               "exit", "badjoin"}

Init ==
  /\ sock = [c \in Slots |-> None]
  /\ thr = [c \in Slots |-> None]
  /\ go = [c \in Slots |-> FALSE]
  /\ fin = [c \in Slots |-> FALSE]
  /\ wrfd = [c \in Slots |-> NoFds]
  /\ rdfd = [c \in Slots |-> NoFds]
  /\ ropen = {} /\ wopen = {}
  /\ queued = [k \in Conns |-> [s \in Scales |-> 0]]
  /\ csock = [k \in Conns |-> "none"]
  /\ peer = [k \in Conns |-> "new"]
  /\ apc = "accept" /\ aconn = None /\ acli = 0
  /\ fpc = [k \in Conns |-> "none"]
  /\ fslot = [k \in Conns |-> 0]
  /\ fready = [k \in Conns |-> {}]
  /\ spc = [s \in Scales |-> "idle"]
  /\ scli = [s \in Scales |-> 0]
  /\ swr = [s \in Scales |-> None]
  /\ mpc = "run" /\ mcli = 0 /\ mthr = None
  /\ shutdown_flag = FALSE
  /\ got = [k \in Conns |-> {}]
-----------------------------------------------------------------------------
(* The remote clients and the network, which the daemon does not control.  *)

Peer(k, from, to) ==
  /\ peer[k] \in from
  /\ peer' = [peer EXCEPT ![k] = to]
  /\ UNCHANGED <<table, ropen, wopen, queued, csock, accv, feedv, scalev,
                 mainv, got>>

Connect(k) == Peer(k, {"new"}, "backlog")

\* Nothing in the daemon depends on a client that has no slot, so the moves
\* below are those of seated ones.
Seated(k) == \E c \in Slots : sock[c] = k

\* The client stops reading: a write to its socket blocks.
Stall(k)   == Seated(k) /\ Peer(k, {"up"}, "stalled")
Resume(k)  == Seated(k) /\ Peer(k, {"stalled"}, "up")
\* The client goes away; a write still succeeds until its RST has come back.
Leave(k)   == Seated(k) /\ Peer(k, {"up", "stalled"}, "gone")
Reset(k)   == Seated(k) /\ Peer(k, {"gone"}, "reset")
-----------------------------------------------------------------------------
(* runpacket, register_client, clean_client                                *)

\* accept() returns a connection.  The test of shutdown_flag at the top of
\* the loop and the wait in accept are one label.
Accept(k) ==
  /\ apc = "accept" /\ mpc \in {"run", "cancel"}
  /\ peer[k] = "backlog"
  /\ peer' = [peer EXCEPT ![k] = "up"]
  /\ csock' = [csock EXCEPT ![k] = "open"]
  /\ apc' = "scan" /\ aconn' = k /\ acli' = 0
  /\ UNCHANGED <<table, ropen, wopen, queued, feedv, scalev, mainv, got>>

\* The loop sees shutdown_flag, or the cancellation is acted on in accept.
AcceptStop ==
  /\ apc = "accept" /\ shutdown_flag
  /\ apc' = "stop"
  /\ UNCHANGED <<table, kernel, aconn, acli, feedv, scalev, mainv, got>>

ScanBusy ==
  /\ apc = "scan" /\ acli < MaxClients
  /\ sock[acli] # None
  /\ acli' = acli + 1
  /\ UNCHANGED <<table, kernel, apc, aconn, feedv, scalev, mainv, got>>

\* No free slot: back to accept, and newsockfd stays open for good.
Refuse ==
  /\ apc = "scan" /\ acli = MaxClients
  /\ apc' = "accept" /\ aconn' = None /\ acli' = 0
  /\ UNCHANGED <<table, kernel, feedv, scalev, mainv, got>>

\* Slip: the search ends at the last slot, free or not.
TakeLastSlot ==
  /\ apc = "scan" /\ acli < MaxClients
  /\ sock[acli] = None \/ acli = MaxClients - 1
  /\ sock' = [sock EXCEPT ![acli] = aconn]
  /\ apc' = "pipe"
  /\ UNCHANGED <<thr, go, fin, wrfd, rdfd, kernel, aconn, acli, feedv, scalev,
                 mainv, got>>

TakeSlot ==
  /\ apc = "scan" /\ acli < MaxClients
  /\ sock[acli] = None
  /\ sock' = [sock EXCEPT ![acli] = aconn]
  /\ apc' = "pipe"
  /\ UNCHANGED <<thr, go, fin, wrfd, rdfd, kernel, aconn, acli, feedv, scalev,
                 mainv, got>>

\* pipe2 for every scale.  Each scale looks at its own pipe only, so the
\* iterations of the loop commute with every other step and are one step.
\* Whatever wrfd held is overwritten, open or not.
MakePipes ==
  /\ apc = "pipe"
  /\ wrfd' = [wrfd EXCEPT ![acli] = [s \in Scales |-> aconn]]
  /\ rdfd' = [rdfd EXCEPT ![acli] = [s \in Scales |-> aconn]]
  /\ ropen' = ropen \cup ({aconn} \X Scales)
  /\ wopen' = wopen \cup ({aconn} \X Scales)
  /\ apc' = "fin"
  /\ UNCHANGED <<sock, thr, go, fin, queued, csock, peer, aconn, acli, feedv,
                 scalev, mainv, got>>

ClearFin ==
  /\ apc = "fin"
  /\ fin' = [fin EXCEPT ![acli] = FALSE]
  /\ apc' = "go"
  /\ UNCHANGED <<sock, thr, go, wrfd, rdfd, kernel, aconn, acli, feedv, scalev,
                 mainv, got>>

SetGo ==
  /\ apc = "go"
  /\ go' = [go EXCEPT ![acli] = TRUE]
  /\ apc' = "create"
  /\ UNCHANGED <<sock, thr, fin, wrfd, rdfd, kernel, aconn, acli, feedv, scalev,
                 mainv, got>>

\* Slip: the thread is handed the slot after the one it was registered in.
CreateFeedNext ==
  /\ apc = "create"
  /\ thr' = [thr EXCEPT ![acli] = aconn]
  /\ fpc' = [fpc EXCEPT ![aconn] = "loop"]
  /\ fslot' = [fslot EXCEPT ![aconn] = (acli + 1) % MaxClients]
  /\ apc' = "accept" /\ aconn' = None /\ acli' = 0
  /\ UNCHANGED <<sock, go, fin, wrfd, rdfd, kernel, fready, scalev, mainv, got>>

CreateFeed ==
  /\ apc = "create"
  /\ thr' = [thr EXCEPT ![acli] = aconn]
  /\ fpc' = [fpc EXCEPT ![aconn] = "loop"]
  /\ fslot' = [fslot EXCEPT ![aconn] = acli]
  /\ apc' = "accept" /\ aconn' = None /\ acli' = 0
  /\ UNCHANGED <<sock, go, fin, wrfd, rdfd, kernel, fready, scalev, mainv, got>>

\* pthread_create failed: go=0 and the first statement of clean_client.  The
\* socket is forgotten, not closed.
CreateFail ==
  /\ apc = "create"
  /\ go' = [go EXCEPT ![acli] = FALSE]
  /\ sock' = [sock EXCEPT ![acli] = None]
  /\ apc' = "clean"
  /\ UNCHANGED <<thr, fin, wrfd, rdfd, kernel, aconn, acli, feedv, scalev,
                 mainv, got>>

\* The rest of clean_client; runpacket then leaves its loop.
Clean ==
  /\ apc = "clean"
  /\ ropen' = ropen \ {<<rdfd[acli][s], s>> : s \in Scales}
  /\ wopen' = wopen \ {<<wrfd[acli][s], s>> : s \in Scales}
  /\ wrfd' = [wrfd EXCEPT ![acli] = NoFds]
  /\ rdfd' = [rdfd EXCEPT ![acli] = NoFds]
  /\ apc' = "stop"
  /\ UNCHANGED <<sock, thr, go, fin, queued, csock, peer, aconn, acli, feedv,
                 scalev, mainv, got>>
-----------------------------------------------------------------------------
(* packet_feed(k).  Its slot is fixed when the thread starts; every field   *)
(* of the slot is read again each time it is used.                          *)

Readable(k, s) == queued[k][s] > 0 \/ <<k, s>> \notin wopen

\* rdfd entries select would report for slot c
ReadyIn(c) == {s \in Scales : rdfd[c][s] # None /\ Readable(rdfd[c][s], s)}

\* pselect returns with data or end of file in some pipe.
FeedSelect(k) ==
  /\ fpc[k] = "loop" /\ go[fslot[k]]
  /\ ReadyIn(fslot[k]) # {}
  /\ fready' = [fready EXCEPT ![k] = ReadyIn(fslot[k])]
  /\ fpc' = [fpc EXCEPT ![k] = "drain"]
  /\ UNCHANGED <<table, kernel, accv, fslot, scalev, mainv, got>>

\* Slip: the loop looks at fin instead of go.
FeedStopOnFin(k) ==
  /\ fpc[k] = "loop" /\ fin[fslot[k]]
  /\ fpc' = [fpc EXCEPT ![k] = "quit"]
  /\ UNCHANGED <<table, kernel, accv, fslot, fready, scalev, mainv, got>>

\* go was cleared; seen at the latest when pselect times out.
FeedStop(k) ==
  /\ fpc[k] = "loop" /\ ~go[fslot[k]]
  /\ fpc' = [fpc EXCEPT ![k] = "quit"]
  /\ UNCHANGED <<table, kernel, accv, fslot, fready, scalev, mainv, got>>

\* The reported pipes are served in the order of the scales.
NextReady(k, s) == s \in fready[k] /\ \A r \in fready[k] : s <= r

\* FIONREAD says 0: the write end is closed, the client is dropped.
FeedEof(k, s) ==
  LET c == fslot[k] IN
  /\ fpc[k] = "drain" /\ NextReady(k, s)
  /\ queued[rdfd[c][s]][s] = 0
  /\ fpc' = [fpc EXCEPT ![k] = "quit"]
  /\ fready' = [fready EXCEPT ![k] = {}]
  /\ UNCHANGED <<table, kernel, accv, fslot, scalev, mainv, got>>

\* Everything queued is read and written to the socket of the slot.
FeedWrite(k, s) ==
  LET c == fslot[k] IN
  /\ fpc[k] = "drain" /\ NextReady(k, s)
  /\ queued[rdfd[c][s]][s] > 0
  /\ peer[sock[c]] \in {"up", "gone"}
  /\ queued' = [queued EXCEPT ![rdfd[c][s]][s] = 0]
  /\ got' = [got EXCEPT ![sock[c]] = @ \cup {rdfd[c][s]}]
  /\ fready' = [fready EXCEPT ![k] = @ \ {s}]
  /\ fpc' = [fpc EXCEPT ![k] = IF fready[k] = {s} THEN "loop" ELSE "drain"]
  /\ UNCHANGED <<table, ropen, wopen, csock, peer, accv, fslot, scalev, mainv>>

\* Slip: a failed write does not end the loop.
FeedWriteErrorKept(k, s) ==
  LET c == fslot[k] IN
  /\ fpc[k] = "drain" /\ NextReady(k, s)
  /\ queued[rdfd[c][s]][s] > 0
  /\ peer[sock[c]] = "reset"
  /\ queued' = [queued EXCEPT ![rdfd[c][s]][s] = 0]
  /\ fpc' = [fpc EXCEPT ![k] = "loop"]
  /\ fready' = [fready EXCEPT ![k] = {}]
  /\ UNCHANGED <<table, ropen, wopen, csock, peer, accv, fslot, scalev, mainv,
                 got>>

\* What was read is lost: the socket answers EPIPE or ECONNRESET.
FeedWriteError(k, s) ==
  LET c == fslot[k] IN
  /\ fpc[k] = "drain" /\ NextReady(k, s)
  /\ queued[rdfd[c][s]][s] > 0
  /\ peer[sock[c]] = "reset"
  /\ queued' = [queued EXCEPT ![rdfd[c][s]][s] = 0]
  /\ fpc' = [fpc EXCEPT ![k] = "quit"]
  /\ fready' = [fready EXCEPT ![k] = {}]
  /\ UNCHANGED <<table, ropen, wopen, csock, peer, accv, fslot, scalev, mainv,
                 got>>

\* Slip: the read ends are forgotten without close.
FeedQuitOpen(k) ==
  LET c == fslot[k] IN
  /\ fpc[k] = "quit"
  /\ rdfd' = [rdfd EXCEPT ![c] = NoFds]
  /\ fpc' = [fpc EXCEPT ![k] = "fin"]
  /\ UNCHANGED <<sock, thr, go, fin, wrfd, kernel, accv, fslot, fready, scalev,
                 mainv, got>>

\* quit: all read ends are closed (one step, as for MakePipes), and what was
\* still queued in the pipes goes with them.
FeedQuit(k) ==
  LET c == fslot[k] IN
  /\ fpc[k] = "quit"
  /\ queued' = [j \in Conns |-> [s \in Scales |->
                   IF rdfd[c][s] = j THEN 0 ELSE queued[j][s]]]
  /\ ropen' = ropen \ {<<rdfd[c][s], s>> : s \in Scales}
  /\ rdfd' = [rdfd EXCEPT ![c] = NoFds]
  /\ fpc' = [fpc EXCEPT ![k] = "fin"]
  /\ UNCHANGED <<sock, thr, go, fin, wrfd, wopen, csock, peer, accv, fslot,
                 fready, scalev, mainv, got>>

\* "ask all scales to close their pipes"
FeedFin(k) ==
  /\ fpc[k] = "fin"
  /\ fin' = [fin EXCEPT ![fslot[k]] = TRUE]
  /\ fpc' = [fpc EXCEPT ![k] = "free"]
  /\ UNCHANGED <<sock, thr, go, wrfd, rdfd, kernel, accv, fslot, fready, scalev,
                 mainv, got>>

\* close(c->sock); c->sock=-1: from here runpacket may give the slot away.
FeedFree(k) ==
  LET c == fslot[k] IN
  /\ fpc[k] = "free"
  /\ csock' = [csock EXCEPT ![sock[c]] = "closed"]
  /\ sock' = [sock EXCEPT ![c] = None]
  /\ fpc' = [fpc EXCEPT ![k] = "thr"]
  /\ UNCHANGED <<thr, go, fin, wrfd, rdfd, ropen, wopen, queued, peer, accv,
                 fslot, fready, scalev, mainv, got>>

\* Slip: sock and thr are cleared together at the very end as well.
FeedClearBoth(k) ==
  /\ fpc[k] = "thr"
  /\ thr' = [thr EXCEPT ![fslot[k]] = None]
  /\ sock' = [sock EXCEPT ![fslot[k]] = None]
  /\ fpc' = [fpc EXCEPT ![k] = "done"]
  /\ UNCHANGED <<go, fin, wrfd, rdfd, kernel, accv, fslot, fready, scalev,
                 mainv, got>>

\* c->thr=-1, whoever the slot belongs to by now; the thread ends.
FeedClearThr(k) ==
  /\ fpc[k] = "thr"
  /\ thr' = [thr EXCEPT ![fslot[k]] = None]
  /\ fpc' = [fpc EXCEPT ![k] = "done"]
  /\ UNCHANGED <<sock, go, fin, wrfd, rdfd, kernel, accv, fslot, fready, scalev,
                 mainv, got>>
-----------------------------------------------------------------------------
(* DISTRIBUTE_WEIGHT in the loop of scale s                                 *)

\* A complete message arrived from the terminal.
ScaleMsg(s) ==
  /\ spc[s] = "idle"
  /\ spc' = [spc EXCEPT ![s] = "read"]
  /\ scli' = [scli EXCEPT ![s] = 0]
  /\ UNCHANGED <<table, kernel, accv, feedv, swr, mainv, got>>

ScaleStop(s) ==
  /\ spc[s] = "idle" /\ shutdown_flag
  /\ spc' = [spc EXCEPT ![s] = "stop"]
  /\ UNCHANGED <<table, kernel, accv, feedv, scli, swr, mainv, got>>

\* int wrfd=c->wrfd[s->idx]; if -1 continue
ReadWrfd(s) ==
  /\ spc[s] = "read" /\ scli[s] < MaxClients
  /\ IF wrfd[scli[s]][s] = None
     THEN scli' = [scli EXCEPT ![s] = @ + 1] /\ UNCHANGED <<spc, swr>>
     ELSE /\ swr' = [swr EXCEPT ![s] = wrfd[scli[s]][s]]
          /\ spc' = [spc EXCEPT ![s] = "act"]
          /\ UNCHANGED scli
  /\ UNCHANGED <<table, kernel, accv, feedv, mainv, got>>

RoundDone(s) ==
  /\ spc[s] = "read" /\ scli[s] = MaxClients
  /\ spc' = [spc EXCEPT ![s] = "idle"]
  /\ scli' = [scli EXCEPT ![s] = 0]
  /\ UNCHANGED <<table, kernel, accv, feedv, swr, mainv, got>>

\* A write end accepts a message: open at both ends and not full.
Writable(k, s) ==
  <<k, s>> \in wopen /\ <<k, s>> \in ropen /\ queued[k][s] < PipeCap

WriteMsg(s) ==
  /\ spc[s] = "act" /\ ~fin[scli[s]]
  /\ Writable(swr[s], s)
  /\ queued' = [queued EXCEPT ![swr[s]][s] = @ + 1]
  /\ spc' = [spc EXCEPT ![s] = "read"]
  /\ scli' = [scli EXCEPT ![s] = @ + 1]
  /\ swr' = [swr EXCEPT ![s] = None]
  /\ UNCHANGED <<table, ropen, wopen, csock, peer, accv, feedv, mainv, got>>

\* Slip: the close is skipped.
GiveUpOpen(s) ==
  /\ spc[s] = "act"
  /\ fin[scli[s]] \/ ~Writable(swr[s], s)
  /\ spc' = [spc EXCEPT ![s] = "clear"]
  /\ UNCHANGED <<table, kernel, accv, feedv, scli, swr, mainv, got>>

\* c->fin is set, or write failed (EPIPE, EAGAIN, EBADF).
GiveUp(s) ==
  /\ spc[s] = "act"
  /\ fin[scli[s]] \/ ~Writable(swr[s], s)
  /\ spc' = [spc EXCEPT ![s] = "close"]
  /\ UNCHANGED <<table, kernel, accv, feedv, scli, swr, mainv, got>>

CloseWrfd(s) ==
  /\ spc[s] = "close"
  /\ wopen' = wopen \ {<<swr[s], s>>}
  /\ spc' = [spc EXCEPT ![s] = "clear"]
  /\ UNCHANGED <<table, ropen, queued, csock, peer, accv, feedv, scli, swr,
                 mainv, got>>

\* c->wrfd[s->idx]=-1, whatever it holds by now.
ClearWrfd(s) ==
  /\ spc[s] = "clear"
  /\ wrfd' = [wrfd EXCEPT ![scli[s]][s] = None]
  /\ spc' = [spc EXCEPT ![s] = "read"]
  /\ scli' = [scli EXCEPT ![s] = @ + 1]
  /\ swr' = [swr EXCEPT ![s] = None]
  /\ UNCHANGED <<sock, thr, go, fin, rdfd, kernel, accv, feedv, mainv, got>>
-----------------------------------------------------------------------------
(* main: signal_handler on SIGINT, stop_clients, the joins                  *)

SigInt ==
  /\ mpc = "run"
  /\ shutdown_flag' = TRUE
  /\ mpc' = "cancel"
  /\ UNCHANGED <<table, kernel, accv, feedv, scalev, mcli, mthr, got>>

\* pthread_cancel(data_thread); pause() returns and the sockets are closed.
CancelThreads ==
  /\ mpc = "cancel"
  /\ mpc' = "go0"
  /\ UNCHANGED <<table, kernel, accv, feedv, scalev, mcli, mthr, shutdown_flag,
                 got>>

\* The first loop of stop_clients; runpacket sets go of one slot at most
\* while it runs, so the order of its iterations does not matter.
ClearGo ==
  /\ mpc = "go0"
  /\ go' = [c \in Slots |-> FALSE]
  /\ mpc' = "test" /\ mcli' = 0
  /\ UNCHANGED <<sock, thr, fin, wrfd, rdfd, kernel, accv, feedv, scalev, mthr,
                 shutdown_flag, got>>

TestSock ==
  /\ mpc = "test" /\ mcli < MaxClients
  /\ IF sock[mcli] = None THEN mcli' = mcli + 1 /\ UNCHANGED mpc
                          ELSE mpc' = "join" /\ UNCHANGED mcli
  /\ UNCHANGED <<table, kernel, accv, feedv, scalev, mthr, shutdown_flag, got>>

\* pthread_join(cli_array[i].thr): thr is read after sock.  Joining -1 is
\* undefined and the model stops there.
ReadThr ==
  /\ mpc = "join"
  /\ mthr' = thr[mcli]
  /\ mpc' = IF thr[mcli] = None THEN "badjoin" ELSE "wait"
  /\ UNCHANGED <<table, kernel, accv, feedv, scalev, mcli, shutdown_flag, got>>

Joined ==
  /\ mpc = "wait" /\ fpc[mthr] = "done"
  /\ mpc' = "test" /\ mcli' = mcli + 1 /\ mthr' = None
  /\ UNCHANGED <<table, kernel, accv, feedv, scalev, shutdown_flag, got>>

ClientsStopped ==
  /\ mpc = "test" /\ mcli = MaxClients
  /\ mpc' = "scales"
  /\ UNCHANGED <<table, kernel, accv, feedv, scalev, mcli, mthr, shutdown_flag,
                 got>>

ScalesJoined ==
  /\ mpc = "scales" /\ \A s \in Scales : spc[s] = "stop"
  /\ mpc' = "exit"
  /\ UNCHANGED <<table, kernel, accv, feedv, scalev, mcli, mthr, shutdown_flag,
                 got>>
-----------------------------------------------------------------------------
Remote(k) == Connect(k) \/ Stall(k) \/ Resume(k) \/ Leave(k) \/ Reset(k)

Acceptor ==
  \/ \E k \in Conns : Accept(k)
  \/ AcceptStop \/ ScanBusy \/ Refuse \/ TakeSlot \/ MakePipes
  \/ ClearFin \/ SetGo \/ CreateFeed \/ CreateFail \/ Clean

Feed(k) ==
  \/ FeedSelect(k) \/ FeedStop(k)
  \/ \E s \in Scales : FeedEof(k, s) \/ FeedWrite(k, s) \/ FeedWriteError(k, s)
  \/ FeedQuit(k) \/ FeedFin(k) \/ FeedFree(k) \/ FeedClearThr(k)

Distribute(s) ==
  \/ ReadWrfd(s) \/ RoundDone(s) \/ WriteMsg(s) \/ GiveUp(s)
  \/ CloseWrfd(s) \/ ClearWrfd(s)

Scale(s) == ScaleMsg(s) \/ ScaleStop(s) \/ Distribute(s)

StopClients ==
  CancelThreads \/ ClearGo \/ TestSock \/ ReadThr \/ Joined \/ ClientsStopped
    \/ ScalesJoined

Running == mpc \notin {"exit", "badjoin"}

Next ==
  /\ Running
  /\ \/ \E k \in Conns : Remote(k) \/ Feed(k)
     \/ \E s \in Scales : Scale(s)
     \/ Acceptor
     \/ SigInt \/ StopClients

Spec == Init /\ [][Next]_vars

(***************************************************************************)
(* Every thread of the daemon is scheduled; the terminals stream weights   *)
(* (a silent one is sent SW again every 3 seconds); a RST comes back in    *)
(* time.  Clients and the operator owe nothing.  Once shutdown_flag is set *)
(* a scale loop ends: its stop is what the loop test allows next.          *)
(***************************************************************************)
Fairness ==
  /\ WF_vars(Running /\ Acceptor)
  /\ WF_vars(Running /\ StopClients)
  /\ \A k \in Conns : WF_vars(Running /\ Feed(k)) /\ WF_vars(Running /\ Reset(k))
  /\ \A s \in Scales :
       /\ WF_vars(Running /\ (ScaleMsg(s) \/ Distribute(s)))
       /\ SF_vars(Running /\ ScaleStop(s))

FairSpec == Spec /\ Fairness
-----------------------------------------------------------------------------
(* Correctness                                                             *)

TypeOK ==
  /\ sock \in [Slots -> ConnOrNone]
  /\ thr \in [Slots -> ConnOrNone]
  /\ go \in [Slots -> BOOLEAN]
  /\ fin \in [Slots -> BOOLEAN]
  /\ wrfd \in [Slots -> [Scales -> ConnOrNone]]
  /\ rdfd \in [Slots -> [Scales -> ConnOrNone]]
  /\ ropen \subseteq Pipes
  /\ wopen \subseteq Pipes
  /\ queued \in [Conns -> [Scales -> 0 .. PipeCap]]
  /\ csock \in [Conns -> {"none", "open", "closed"}]
  /\ peer \in [Conns -> PeerStates]
  /\ apc \in AcceptPCs
  /\ aconn \in ConnOrNone
  /\ acli \in 0 .. MaxClients
  /\ fpc \in [Conns -> FeedPCs]
  /\ fslot \in [Conns -> Slots]
  /\ fready \in [Conns -> SUBSET Scales]
  /\ spc \in [Scales -> ScalePCs]
  /\ scli \in [Scales -> 0 .. MaxClients]
  /\ swr \in [Scales -> ConnOrNone]
  /\ mpc \in MainPCs
  /\ mcli \in 0 .. MaxClients
  /\ mthr \in ConnOrNone
  /\ shutdown_flag \in BOOLEAN
  /\ got \in [Conns -> SUBSET Conns]

\* From its start until it gives the slot back, a feed uses the slot.
Serving(k) == fpc[k] \in {"loop", "drain", "quit", "fin", "free"}

Registering(c) == acli = c /\ apc \in {"pipe", "fin", "go", "create"}

\* A weight taken from the pipes of one connection is never sent to another:
\* packet_feed reads c->sock and c->rdfd anew at each use, and the slot may
\* have changed hands as often as it likes before.
NoCrossTalk == \A k \in Conns : got[k] \subseteq {k}

\* A read end is open only while the slot of its connection holds it, so a
\* scale that writes to a pipe nobody reads gets EPIPE and not a full pipe.
ReadEndsHeld ==
  \A p \in ropen : \E c \in Slots :
    /\ rdfd[c][p[2]] = p[1]
    /\ sock[c] = p[1] \/ (apc = "clean" /\ acli = c)

\* A free slot has no read end, and the feed of a seated connection finds in
\* its slot no pipe of another: what register_client overwrites is never
\* something a feed still reads, and what a scale writes to through the slot
\* is a pipe of the seated connection.
SeatConsistent ==
  \A c \in Slots, s \in Scales :
    /\ sock[c] = None /\ ~(apc = "clean" /\ acli = c) => rdfd[c][s] = None
    /\ \A k \in Conns : Serving(k) /\ fslot[k] = c =>
         /\ sock[c] = k
         /\ wrfd[c][s] \in {k, None}
         /\ rdfd[c][s] = IF fpc[k] \in {"fin", "free"} THEN None ELSE k

\* The slot a connection was given.
SlotOf(k) == IF fpc[k] = "none" THEN acli ELSE fslot[k]

\* Some thread can still close the write end of p.
Held(p) ==
  \/ swr[p[2]] = p[1]
  \/ \E c \in Slots : wrfd[c][p[2]] = p[1]

\* Connection k has (or had) slot c and its pipes were made there.
Tenant(k, c) ==
  \/ fpc[k] # "none" /\ fslot[k] = c
  \/ aconn = k /\ acli = c /\ apc \in {"fin", "go", "create", "clean", "stop"}

\* A write end is lost (open, in no slot and in no scale's hands) only when
\* its slot has had another tenant: register_client overwrote it, or a scale
\* that still worked for the previous tenant wiped it.  In a slot's first
\* tenancy no pipe is lost on any path: full pipe, client gone, fin, shutdown,
\* failed pthread_create.
LossNeedsReuse ==
  \A p \in wopen : Held(p) \/ \E k \in Conns \ {p[1]} : Tenant(k, SlotOf(p[1]))

\* The table implements the slot pool: sock says who is seated.
Retired ==
  {k \in Conns : fpc[k] \in {"thr", "done"}}
    \cup (IF apc \in {"clean", "stop"} THEN {aconn} \ {None} ELSE {})

Pool == INSTANCE SlotPool WITH owner <- sock, past <- Retired
PoolSpec == Pool!Spec

\* No scale will ever tell the feed of k anything again.
Deaf(k) ==
  \A s \in Scales : /\ <<k, s>> \in wopen
                    /\ swr[s] # k
                    /\ wrfd[fslot[k]][s] # k

\* A client that went away gives its slot back once its RST is in: the next
\* weight makes the write of packet_feed fail.  The exceptions: a feed whose
\* pipes were all lost (see LossNeedsReuse), and weights stopped by SIGINT.
DeadClientReleased ==
  \A k \in Conns :
    (Serving(k) /\ peer[k] = "reset") ~> (~Serving(k) \/ Deaf(k) \/ shutdown_flag)

\* What can keep stop_clients waiting: the client does not read, or runpacket
\* set go again after stop_clients had cleared it.
Excuse == mpc = "wait" /\ (peer[mthr] = "stalled" \/ go[fslot[mthr]])

\* After SIGINT main gets to its end unless one of these lasts.
ShutdownEnds == []<>Excuse \/ (mpc = "cancel" ~> ~Running)
=============================================================================
