------------------------------- MODULE Devdrvd -------------------------------
(***************************************************************************)
(* devdrvd reads from several device servers (scaled, gpiod) and copies    *)
(* what they send to every client:                                         *)
(*   connect_client  one thread per server that is not connected; calls    *)
(*                   connect() with connect_lock held                      *)
(*   main            pselect over the connected servers; dispatches chunks *)
(*                   into the pipes of all clients, or starts a new        *)
(*                   connect_client for a server that is gone              *)
(*   runcontrol      accepts clients, register_client gives them a slot    *)
(*   packet_feed     copies the pipe of a slot to its socket, and          *)
(*                   unregisters the client at the end                     *)
(* connect_lock guards the servers, one lock per slot the clients; a feed  *)
(* reads its slot without the lock.  A connection names its socket, its    *)
(* pipe and its feed.  Descriptor numbers are left out, and with them the  *)
(* sockets that failed attempts of connect_client leave open.              *)
(***************************************************************************)
EXTENDS Naturals, FiniteSets

CONSTANTS
  ServerCnt,   \* connect_array_size
  MaxClients,  \* DEVDRVD_MAX_CLIENTS
  Conns,       \* connections clients may open during a run
  PipeCap,     \* chunks a pipe holds before a write gets EAGAIN
  None

ASSUME DevdrvdAssumption ==
  /\ ServerCnt \in Nat \ {0} /\ MaxClients \in Nat \ {0} /\ PipeCap \in Nat \ {0}
  /\ None \notin Conns /\ "main" \notin Conns \cup {None}

Servers == 0 .. ServerCnt - 1
Slots   == 0 .. MaxClients - 1

VARIABLES
  connected, selected,      \* servers: connected, FD_ISSET in readfds
  up, data,                 \* outside: the server runs; it has sent something
  broken,                   \* the connection has been closed by the server
  cpc,                      \* connect_client of each server
  clock,                    \* connect_lock: "free", "main" or "connect"
  mpc, mi, mj, maxfd, mlen, \* main: label, i, the inner i, maxfd>0, len
  shutdown_flag,
  owner,                    \* client_pool[c].socket_fd, read_fd, write_fd
  slock,                    \* client_pool[c].lock: None, "main" or a feed
  clients_number,
  rpc, rconn, ri,           \* runcontrol: label, newsockfd, i
  fpc, fslot,               \* packet_feed: label, id
  piped,                    \* chunks in the pipe of a connection
  wopen,                    \* connections whose pipe and socket are open
  peer,                     \* clients
  strayed,                  \* history: main wrote to a pipe closed before
  orphans                   \* history: clients registered without a feed

server == <<connected, selected, up, data, broken, cpc>>
main   == <<mpc, mi, mj, maxfd, mlen, shutdown_flag>>
pool   == <<owner, slock, clients_number, rpc, rconn, ri, fpc, fslot, piped,
            wopen, peer, strayed, orphans>>
vars   == <<server, clock, main, pool>>

ConnectPCs == {"start", "lock", "connect", "sleep", "again", "done", "failed"}
MainPCs    == {"test", "fdset", "select", "relock", "serve", "slot", "write",
               "unlock", "stop", "exit"}
FeedPCs    == {"none", "loop", "lock", "close", "clear", "done"}

Init ==
  /\ connected = [s \in Servers |-> FALSE]
  /\ selected = {}
  /\ up = [s \in Servers |-> TRUE]
  /\ data = [s \in Servers |-> FALSE]
  /\ broken = [s \in Servers |-> FALSE]
  /\ cpc = [s \in Servers |-> "start"]
  /\ clock = "free"
  /\ mpc = "test" /\ mi = 0 /\ mj = 0 /\ maxfd = FALSE /\ mlen = 0
  /\ shutdown_flag = FALSE
  /\ owner = [c \in Slots |-> None]
  /\ slock = [c \in Slots |-> None]
  /\ clients_number = 0
  /\ rpc = "accept" /\ rconn = None /\ ri = 0
  /\ fpc = [k \in Conns |-> "none"]
  /\ fslot = [k \in Conns |-> 0]
  /\ piped = [k \in Conns |-> 0]
  /\ wopen = {}
  /\ peer = [k \in Conns |-> "new"]
  /\ strayed = {} /\ orphans = {}

Running == mpc # "exit"
-----------------------------------------------------------------------------
(* The device servers and the clients                                       *)

\* A server sends, closes (crashes) or comes back.
ServerSends(s) ==
  /\ connected[s] /\ ~broken[s] /\ ~data[s]
  /\ data' = [data EXCEPT ![s] = TRUE]
  /\ UNCHANGED <<connected, selected, up, broken, cpc, clock, main, pool>>

ServerDown(s) ==
  /\ up[s]
  /\ up' = [up EXCEPT ![s] = FALSE]
  /\ broken' = [broken EXCEPT ![s] = connected[s]]
  /\ UNCHANGED <<connected, selected, data, cpc, clock, main, pool>>

ServerBack(s) ==
  /\ ~up[s]
  /\ up' = [up EXCEPT ![s] = TRUE]
  /\ UNCHANGED <<connected, selected, data, broken, cpc, clock, main, pool>>

Peer(k, from, to) ==
  /\ peer[k] \in from
  /\ peer' = [peer EXCEPT ![k] = to]
  /\ UNCHANGED <<server, clock, main, owner, slock, clients_number, rpc, rconn,
                 ri, fpc, fslot, piped, wopen, strayed, orphans>>

Seated(k)  == \E c \in Slots : owner[c] = k
Leave(k)   == Seated(k) /\ Peer(k, {"up", "slow"}, "gone")
\* The client does not read: the next write to its socket gets EAGAIN.
Slow(k)    == Seated(k) /\ Peer(k, {"up"}, "slow")
-----------------------------------------------------------------------------
(* connect_client                                                           *)

Connector(s, from, to) == cpc[s] = from /\ cpc' = [cpc EXCEPT ![s] = to]

\* connected=0 under the lock, which is free and taken and left in one step.
ConnectStart(s) ==
  /\ Connector(s, "start", "lock") /\ clock = "free"
  /\ connected' = [connected EXCEPT ![s] = FALSE]
  /\ UNCHANGED <<selected, up, data, broken, clock, main, pool>>

\* The loop goes on while shutdown_flag!=1 OR connected!=1, so it ends here
\* never; lock, socket(), connect().
ConnectTry(s) ==
  /\ cpc[s] \in {"lock", "again"} /\ clock = "free"
  /\ cpc' = [cpc EXCEPT ![s] = "connect"]
  /\ clock' = "connect"
  /\ UNCHANGED <<connected, selected, up, data, broken, main, pool>>

ConnectDone(s) ==
  /\ Connector(s, "connect", "done") /\ up[s]
  /\ connected' = [connected EXCEPT ![s] = TRUE]
  /\ broken' = [broken EXCEPT ![s] = FALSE]
  /\ data' = [data EXCEPT ![s] = FALSE]
  /\ clock' = "free"
  /\ UNCHANGED <<selected, up, main, pool>>

\* Slip: a retry keeps the lock.
ConnectFailsLocked(s) ==
  /\ cpc[s] = "connect" /\ ~up[s]
  /\ \E l \in {"sleep", "again", "failed"} :
       /\ cpc' = [cpc EXCEPT ![s] = l]
       /\ clock' = IF l = "failed" THEN "free" ELSE "connect"
  /\ UNCHANGED <<connected, selected, up, data, broken, main, pool>>

\* Refused, or the network cannot be reached: a sleep before the next attempt.
\* Timed out, or any error the switch does not name: the next one at once.  A
\* fatal one: the thread ends and nobody starts it again.
ConnectFails(s) ==
  /\ cpc[s] = "connect" /\ ~up[s]
  /\ \E l \in {"sleep", "again", "failed"} : cpc' = [cpc EXCEPT ![s] = l]
  /\ clock' = "free"
  /\ UNCHANGED <<connected, selected, up, data, broken, main, pool>>

\* sleep(reconnect_interval) is over.
ConnectAwake(s) ==
  /\ Connector(s, "sleep", "lock")
  /\ UNCHANGED <<connected, selected, up, data, broken, clock, main, pool>>
-----------------------------------------------------------------------------
(* main                                                                     *)

Main(from, to) == mpc = from /\ mpc' = to

LoopTest ==
  /\ Main("test", IF shutdown_flag THEN "stop" ELSE "fdset")
  /\ UNCHANGED <<server, clock, mi, mj, maxfd, mlen, shutdown_flag, pool>>

\* readfds under the lock.  maxfd never goes back to 0.
FdSet ==
  /\ mpc = "fdset" /\ clock = "free"
  /\ selected' = {s \in Servers : connected[s]}
  /\ maxfd' = (maxfd \/ selected' # {})
  /\ mpc' = IF maxfd' THEN "select" ELSE "test"
  /\ UNCHANGED <<connected, up, data, broken, cpc, clock, mi, mj, mlen,
                 shutdown_flag, pool>>

Readable(s) == data[s] \/ broken[s]

\* Slip: the descriptors of all servers are set in readfds.
SelectAll ==
  /\ Main("select", "relock")
  /\ \E s \in selected : Readable(s)
  /\ selected' = Servers
  /\ UNCHANGED <<connected, up, data, broken, cpc, clock, mi, mj, maxfd, mlen,
                 shutdown_flag, pool>>

SelectReady ==
  /\ Main("select", "relock")
  /\ \E s \in selected : Readable(s)
  /\ selected' = {s \in selected : Readable(s)}
  /\ UNCHANGED <<connected, up, data, broken, cpc, clock, mi, mj, maxfd, mlen,
                 shutdown_flag, pool>>

\* After 3 seconds, or by a signal: readfds is not looked at.
SelectTimeout ==
  /\ Main("select", "relock")
  /\ \A s \in selected : ~Readable(s)
  /\ selected' = {}
  /\ UNCHANGED <<connected, up, data, broken, cpc, clock, mi, mj, maxfd, mlen,
                 shutdown_flag, pool>>

\* Slip: the loop does not test shutdown_flag again.
SelectInterruptedOn ==
  /\ mpc = "relock" /\ selected = {} /\ shutdown_flag /\ clock = "free"
  /\ clock' = "main" /\ mpc' = "fdset"
  /\ UNCHANGED <<server, mi, mj, maxfd, mlen, shutdown_flag, pool>>

\* EINTR with shutdown_flag: continue, with connect_lock held for good.
SelectInterrupted ==
  /\ mpc = "relock" /\ selected = {} /\ shutdown_flag /\ clock = "free"
  /\ clock' = "main" /\ mpc' = "test"
  /\ UNCHANGED <<server, mi, mj, maxfd, mlen, shutdown_flag, pool>>

Relock ==
  /\ Main("relock", "serve") /\ clock = "free"
  /\ clock' = "main" /\ mi' = 0
  /\ UNCHANGED <<server, mj, maxfd, mlen, shutdown_flag, pool>>

ServeNone ==
  /\ mpc = "serve" /\ mi \in Servers /\ mi \notin selected
  /\ mi' = mi + 1
  /\ UNCHANGED <<server, clock, mpc, mj, maxfd, mlen, shutdown_flag, pool>>

\* Slip: nobody connects again.
ServeBrokenForgets ==
  /\ mpc = "serve" /\ mi \in selected
  /\ broken[mi]
  /\ connected' = [connected EXCEPT ![mi] = FALSE]
  /\ data' = [data EXCEPT ![mi] = FALSE]
  /\ selected' = selected \ {mi}
  /\ mi' = mi + 1
  /\ UNCHANGED <<up, broken, cpc, clock, mpc, mj, maxfd, mlen, shutdown_flag,
                 pool>>

\* The server is closed and gets a new connect_client; if that cannot be
\* created, main returns.
Disconnect(s) ==
  /\ connected' = [connected EXCEPT ![s] = FALSE]
  /\ data' = [data EXCEPT ![s] = FALSE]
  /\ selected' = selected \ {s}
  /\ \/ cpc' = [cpc EXCEPT ![s] = "start"]
        /\ mpc' = "serve"
        /\ mi' = mi + 1
     \/ mpc' = "exit" /\ UNCHANGED <<cpc, mi>>
  /\ UNCHANGED <<up, broken, clock, mj, maxfd, mlen, shutdown_flag, pool>>

\* FIONREAD is 0, or read fails.
ServeBroken ==
  /\ mpc = "serve" /\ mi \in selected
  /\ broken[mi]
  /\ Disconnect(mi)

\* FIONREAD says how many chunks of 1024 bytes there are, one or two; the
\* first is read.
ServeData ==
  /\ Main("serve", "slot") /\ mi \in selected
  /\ data[mi]
  /\ mlen' \in 0 .. 1
  /\ data' = [data EXCEPT ![mi] = FALSE]
  /\ mj' = 0
  /\ UNCHANGED <<connected, selected, up, broken, cpc, clock, mi, maxfd,
                 shutdown_flag, pool>>

LockSlot ==
  /\ Main("slot", "write") /\ mj \in Slots
  /\ slock[mj] = None
  /\ slock' = [slock EXCEPT ![mj] = "main"]
  /\ UNCHANGED <<server, clock, mi, mj, maxfd, mlen, shutdown_flag, owner,
                 clients_number, rpc, rconn, ri, fpc, fslot, piped, wopen,
                 peer, strayed, orphans>>

\* write to the pipe of the slot: a full one loses the chunk.
WriteSlot ==
  LET k == owner[mj] IN
  /\ Main("write", "slot")
  /\ piped' = IF k \in wopen /\ piped[k] < PipeCap
              THEN [piped EXCEPT ![k] = @ + 1] ELSE piped
  /\ strayed' = IF k \in Conns \ (wopen \cup orphans) THEN strayed \cup {k} ELSE strayed
  /\ slock' = [slock EXCEPT ![mj] = None]
  /\ mj' = mj + 1
  /\ UNCHANGED <<server, clock, mi, maxfd, mlen, shutdown_flag, owner,
                 clients_number, rpc, rconn, ri, fpc, fslot, wopen, peer,
                 orphans>>

\* len-=readen: the next chunk, or the next server.
ChunkDone ==
  /\ mpc = "slot" /\ mj = MaxClients
  /\ IF mlen > 0 THEN mlen' = mlen - 1 /\ mj' = 0 /\ UNCHANGED <<mpc, mi>>
     ELSE mpc' = "serve" /\ mi' = mi + 1 /\ mj' = 0 /\ UNCHANGED mlen
  /\ UNCHANGED <<server, clock, maxfd, shutdown_flag, pool>>

\* The read of the next chunk fails.
ChunkFails ==
  /\ mpc = "slot" /\ mj = MaxClients /\ mlen > 0
  /\ broken[mi]
  /\ Disconnect(mi)

ServedAll ==
  /\ Main("serve", "test") /\ mi = ServerCnt
  /\ clock' = "free" /\ mi' = 0 /\ selected' = {}
  /\ UNCHANGED <<connected, up, data, broken, cpc, mj, maxfd, mlen,
                 shutdown_flag, pool>>

\* SIGINT; its handler sets shutdown_flag.
SigInt ==
  /\ ~shutdown_flag /\ shutdown_flag' = TRUE
  /\ UNCHANGED <<server, clock, mpc, mi, mj, maxfd, mlen, pool>>

\* close(control_sockfd), cancel and join runcontrol.
JoinControl ==
  /\ Main("stop", "exit") /\ rpc \in {"accept", "quit"}
  /\ UNCHANGED <<server, clock, mi, mj, maxfd, mlen, shutdown_flag, pool>>
-----------------------------------------------------------------------------
(* runcontrol and register_client                                           *)

Control(from, to) ==
  /\ rpc = from /\ rpc' = to
  /\ UNCHANGED <<server, clock, main>>

\* accept may return a client after SIGINT: the flag is tested before it.
Accept(k) ==
  /\ Control("accept", "register")
  /\ peer[k] = "new"
  /\ peer' = [peer EXCEPT ![k] = "up"]
  /\ wopen' = wopen \cup {k}
  /\ rconn' = k /\ ri' = 0
  /\ UNCHANGED <<owner, slock, clients_number, fpc, fslot, piped, strayed,
                 orphans>>

\* accept, fcntl or pipe2 failed.
ControlQuits ==
  /\ Control("accept", "quit")
  /\ UNCHANGED <<owner, slock, clients_number, rconn, ri, fpc, fslot, piped,
                 wopen, peer, strayed, orphans>>

\* The slot is looked at with its lock held, for the length of this step.
RegisterBusy ==
  /\ Control("register", "register")
  /\ ri \in Slots /\ slock[ri] = None /\ owner[ri] # None
  /\ ri' = ri + 1
  /\ UNCHANGED <<owner, slock, clients_number, rconn, fpc, fslot, piped, wopen,
                 peer, strayed, orphans>>

\* Slip: clients_number is left alone.
RegisterUncounted ==
  /\ Control("register", "create")
  /\ ri \in Slots /\ slock[ri] = None /\ owner[ri] = None
  /\ owner' = [owner EXCEPT ![ri] = rconn]
  /\ UNCHANGED <<slock, clients_number, rconn, ri, fpc, fslot, piped, wopen,
                 peer, strayed, orphans>>

\* Slip: the slot is taken without a look at read_fd.
RegisterBlind ==
  /\ Control("register", "create")
  /\ ri \in Slots /\ slock[ri] = None
  /\ owner' = [owner EXCEPT ![ri] = rconn]
  /\ clients_number' = clients_number + 1
  /\ UNCHANGED <<slock, rconn, ri, fpc, fslot, piped, wopen, peer, strayed,
                 orphans>>

Register ==
  /\ Control("register", "create")
  /\ ri \in Slots /\ slock[ri] = None /\ owner[ri] = None
  /\ owner' = [owner EXCEPT ![ri] = rconn]
  /\ clients_number' = clients_number + 1
  /\ UNCHANGED <<slock, rconn, ri, fpc, fslot, piped, wopen, peer, strayed,
                 orphans>>

\* while( !shutdown_flag )
ControlNext(from) == Control(from, IF shutdown_flag THEN "quit" ELSE "accept")

CreateFeed ==
  /\ ControlNext("create")
  /\ fpc' = [fpc EXCEPT ![rconn] = "loop"]
  /\ fslot' = [fslot EXCEPT ![rconn] = ri]
  /\ rconn' = None /\ ri' = 0
  /\ UNCHANGED <<owner, slock, clients_number, piped, wopen, peer, strayed,
                 orphans>>

\* EXIT_FAILURE: runcontrol closes the socket, the slot stays registered.
CreateFails ==
  /\ ControlNext("create")
  /\ orphans' = orphans \cup {rconn}
  /\ wopen' = wopen \ {rconn}
  /\ peer' = [peer EXCEPT ![rconn] = "gone"]
  /\ rconn' = None /\ ri' = 0
  /\ UNCHANGED <<owner, slock, clients_number, fpc, fslot, piped, strayed>>

\* The pool is full: a message and close(newsockfd); the pipe stays open.
PoolFull ==
  /\ ControlNext("register") /\ ri = MaxClients
  /\ wopen' = wopen \ {rconn}
  /\ peer' = [peer EXCEPT ![rconn] = "gone"]
  /\ rconn' = None /\ ri' = 0
  /\ UNCHANGED <<owner, slock, clients_number, fpc, fslot, piped, strayed,
                 orphans>>
-----------------------------------------------------------------------------
(* packet_feed and unregister_client.  The feed reads the entry of its slot *)
(* each time, without the lock.                                             *)

Feed(k, from, to) ==
  /\ fpc[k] = from /\ fpc' = [fpc EXCEPT ![k] = to]
  /\ UNCHANGED <<server, clock, main, rpc, rconn, ri, fslot, strayed, orphans>>

\* Chunks go from the pipe to the socket.
FeedCopy(k) ==
  LET j == owner[fslot[k]] IN
  /\ ~shutdown_flag /\ peer[k] = "up"
  /\ Feed(k, "loop", "loop")
  /\ j \in Conns /\ piped[j] > 0
  /\ piped' = [piped EXCEPT ![j] = 0]
  /\ UNCHANGED <<owner, slock, clients_number, wopen, peer>>

\* The client has closed, or a write failed, or shutdown_flag is set.
FeedQuit(k) ==
  LET j == owner[fslot[k]] IN
  /\ \/ shutdown_flag \/ peer[k] = "gone"
     \/ peer[k] = "slow" /\ j \in Conns /\ piped[j] > 0
  /\ Feed(k, "loop", "lock")
  /\ UNCHANGED <<owner, slock, clients_number, piped, wopen, peer>>

\* Slip: the slot is wiped without its lock.
UnregisterUnlocked(k) ==
  /\ Feed(k, "lock", "close")
  /\ UNCHANGED <<owner, slock, clients_number, piped, wopen, peer>>

UnregisterLock(k) ==
  /\ slock[fslot[k]] = None
  /\ Feed(k, "lock", "close")
  /\ slock' = [slock EXCEPT ![fslot[k]] = k]
  /\ UNCHANGED <<owner, clients_number, piped, wopen, peer>>

\* Slip: the entry is free before its lock is given back.
UnregisterCloseFrees(k) ==
  /\ Feed(k, "close", "clear")
  /\ wopen' = wopen \ {owner[fslot[k]]}
  /\ piped' = [j \in Conns |-> IF j = owner[fslot[k]] THEN 0 ELSE piped[j]]
  /\ peer' = [j \in Conns |-> IF j = owner[fslot[k]] THEN "gone" ELSE peer[j]]
  /\ owner' = [owner EXCEPT ![fslot[k]] = None]
  /\ slock' = [slock EXCEPT ![fslot[k]] = None]
  /\ UNCHANGED clients_number

\* The three descriptors are closed, and what was queued is gone.
UnregisterClose(k) ==
  /\ Feed(k, "close", "clear")
  /\ wopen' = wopen \ {owner[fslot[k]]}
  /\ piped' = [j \in Conns |-> IF j = owner[fslot[k]] THEN 0 ELSE piped[j]]
  /\ peer' = [j \in Conns |-> IF j = owner[fslot[k]] THEN "gone" ELSE peer[j]]
  /\ UNCHANGED <<owner, slock, clients_number>>

\* The entry is set to -1, clients_number--, and the lock is given back.
UnregisterClear(k) ==
  /\ Feed(k, "clear", "done")
  /\ owner' = [owner EXCEPT ![fslot[k]] = None]
  /\ clients_number' = clients_number - 1
  /\ slock' = [slock EXCEPT ![fslot[k]] = None]
  /\ UNCHANGED <<piped, wopen, peer>>
-----------------------------------------------------------------------------
Environment ==
  \/ \E s \in Servers : ServerSends(s) \/ ServerDown(s) \/ ServerBack(s)
  \/ \E k \in Conns : Leave(k) \/ Slow(k)

ConnectClient(s) ==
  ConnectStart(s) \/ ConnectTry(s) \/ ConnectDone(s) \/ ConnectFails(s)
    \/ ConnectAwake(s)

MainLoop ==
  \/ LoopTest \/ FdSet \/ SelectReady \/ SelectTimeout \/ SelectInterrupted
  \/ Relock \/ ServeNone \/ ServeBroken \/ ServeData \/ LockSlot \/ WriteSlot
  \/ ChunkDone \/ ChunkFails \/ ServedAll \/ JoinControl

RunControl ==
  \/ \E k \in Conns : Accept(k)
  \/ RegisterBusy \/ Register \/ CreateFeed \/ CreateFails \/ PoolFull

PacketFeed(k) ==
  FeedCopy(k) \/ FeedQuit(k) \/ UnregisterLock(k) \/ UnregisterClose(k)
    \/ UnregisterClear(k)

Next ==
  /\ Running
  /\ \/ Environment \/ SigInt \/ MainLoop \/ RunControl \/ ControlQuits
     \/ \E s \in Servers : ConnectClient(s)
     \/ \E k \in Conns : PacketFeed(k)

Spec == Init /\ [][Next]_vars

\* connect_client goes from a failed attempt to the next without a sleep.
Rushes(s) == cpc[s] = "again"

\* main sleeps in pselect, without the lock.
MainSleeps == mpc = "select" /\ \A s \in selected : ~Readable(s)

(***************************************************************************)
(* Threads are scheduled and connect() returns.  A mutex owes nothing to   *)
(* those who wait for it: a thread that gives connect_lock back and takes  *)
(* it again at once may have it each time.  A thread that waits gets it if *)
(* again and again it is free and nobody is about to take it in that way:  *)
(* each of the others then sleeps, in pselect or before its next attempt,  *)
(* or has waited itself.                                                   *)
(***************************************************************************)
Fairness ==
  /\ WF_vars(Running /\ MainLoop)
  /\ SF_vars(Running /\ MainLoop /\ \A s \in Servers : ~Rushes(s))
  /\ WF_vars(Running /\ RunControl)
  /\ \A s \in Servers :
       /\ WF_vars(Running /\ ConnectClient(s))
       /\ SF_vars(/\ Running /\ ConnectClient(s) /\ MainSleeps
                  /\ \A t \in Servers \ {s} : ~Rushes(t))
  /\ \A k \in Conns : WF_vars(Running /\ PacketFeed(k))

FairSpec == Spec /\ Fairness
-----------------------------------------------------------------------------
(* Correctness                                                              *)

TypeOK ==
  /\ connected \in [Servers -> BOOLEAN]
  /\ selected \subseteq Servers
  /\ up \in [Servers -> BOOLEAN]
  /\ data \in [Servers -> BOOLEAN]
  /\ broken \in [Servers -> BOOLEAN]
  /\ cpc \in [Servers -> ConnectPCs]
  /\ clock \in {"free", "main", "connect"}
  /\ mpc \in MainPCs
  /\ mi \in 0 .. ServerCnt /\ mj \in 0 .. MaxClients
  /\ maxfd \in BOOLEAN /\ mlen \in 0 .. 1 /\ shutdown_flag \in BOOLEAN
  /\ owner \in [Slots -> Conns \cup {None}]
  /\ slock \in [Slots -> Conns \cup {None, "main"}]
  /\ clients_number \in 0 .. MaxClients
  /\ rpc \in {"accept", "register", "create", "quit"}
  /\ rconn \in Conns \cup {None}
  /\ ri \in 0 .. MaxClients
  /\ fpc \in [Conns -> FeedPCs]
  /\ fslot \in [Conns -> Slots]
  /\ piped \in [Conns -> 0 .. PipeCap]
  /\ wopen \subseteq Conns
  /\ peer \in [Conns -> {"new", "up", "slow", "gone"}]
  /\ strayed \subseteq Conns /\ orphans \subseteq Conns

\* A server has one connect_client or a connection, never both and never two:
\* main starts a thread only for a server whose last one has ended.
OneConnector ==
  \A s \in Servers :
    /\ connected[s] => cpc[s] \in {"start", "done"}
    /\ cpc[s] = "done" /\ Running => connected[s]
    /\ cpc[s] = "connect" =>
         clock = "connect" /\ \A t \in Servers \ {s} : cpc[t] # "connect"

\* main reads only from servers that are connected, though it does not look
\* at connected again after pselect: a server found readable is still the
\* one that was selected.
ServeConnected ==
  mpc \in {"serve", "slot", "write"} =>
    \A s \in selected : connected[s] /\ cpc[s] = "done"

\* main never writes into a pipe that its client's feed has closed, whenever
\* clients leave.
NoStray == strayed = {}

\* Every client that is registered has a feed that uses its slot, and leaves
\* it once; only a failed pthread_create leaves a slot without one.
FeedHasSlot ==
  \A k \in Conns : fpc[k] \in {"loop", "lock", "close", "clear"} =>
    owner[fslot[k]] = k /\ (k \in wopen <=> fpc[k] # "clear")
SlotHasFeed ==
  \A c \in Slots : owner[c] # None =>
    \/ owner[c] \in orphans
    \/ rpc = "create" /\ ri = c /\ rconn = owner[c]
    \/ fpc[owner[c]] \in {"loop", "lock", "close", "clear"} /\ fslot[owner[c]] = c
PoolConsistent == FeedHasSlot /\ SlotHasFeed

\* The pool under its locks implements the abstract one: a slot is given only
\* when free, to a connection that has none and never had, and freed once, for
\* the connection whose feed is at its end.
Pool == INSTANCE SlotPool WITH past <- {k \in Conns : fpc[k] = "done"}
PoolSpec == Pool!Spec

\* clients_number, which each slot's lock and client_lock guard, is the number
\* of slots in use.
ClientsCounted == clients_number = Cardinality({c \in Slots : owner[c] # None})

\* One server that is down does not stop the others, if its connect_client
\* sleeps between its attempts: what a connected server sent is dispatched,
\* however often they fail.  Against one that tries again at once, again and
\* again, main may never get connect_lock.
DataServed ==
  \/ []<>(\E s \in Servers : Rushes(s))
  \/ \A s \in Servers : data[s] ~> (~data[s] \/ shutdown_flag \/ ~Running)

\* A server that stays up is connected again in the end, unless its
\* connect_client gave up on it for good, another one keeps trying at once, or
\* main hardly ever sleeps: it spins on connect_lock until a first server is
\* connected, and goes round as long as there is something to read.
Reconnects ==
  \/ []<>(\E s \in Servers : Rushes(s)) \/ <>[]~MainSleeps
  \/ \A s \in Servers :
       <>[](up[s] /\ ~shutdown_flag) =>
         []<>((connected[s] /\ ~broken[s]) \/ cpc[s] = "failed" \/ ~Running)

\* SIGINT ends the daemon, also when main leaves its loop with connect_lock
\* held, unless a connect_client that tries again at once keeps main from
\* taking it.
ShutdownEnds == []<>(\E s \in Servers : Rushes(s)) \/ (shutdown_flag ~> ~Running)
=============================================================================
