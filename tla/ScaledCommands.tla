---------------------------- MODULE ScaledCommands ----------------------------
(***************************************************************************)
(* Commands to the terminals of scaled.  Three kinds of threads share one  *)
(* command slot (s->cmd), one semaphore (s->sem) and one serial port per   *)
(* scale:                                                                  *)
(*   runcommand   takes UDP datagrams, publishes a command, waits with a   *)
(*                timeout and answers with a code          (commands.c)    *)
(*   on_message   takes calibration commands from the MQTT broker, stops   *)
(*                the flow of weights and then talks to the terminal on    *)
(*                its own                                  (mqtt_thread.c) *)
(*   ldu_loop     one per scale: reads the port, runs pending commands     *)
(*                                          (ldu_loop.c, ldu_util.c)       *)
(* runcommand and on_message have one static cmd_pending_t each; s->cmd    *)
(* points to one of them.  What comes from a terminal is a sequence of     *)
(* packets, each ended by '\r'.                                            *)
(***************************************************************************)
EXTENDS Integers, Sequences

CONSTANTS
  Scales,     \* scale systems, by id
  Supported,  \* for each scale, the command codes its model has
  Datagrams,  \* datagrams clients send: [id, code]
  MaxReq,     \* bound: datagrams received
  Chans,      \* values of "chan" in calibration messages
  MaxMsg,     \* bound: calibration messages received
  LineCap,    \* bound: packets waiting in a serial port
  Room,       \* reads until the 64 bytes of catch_cmd_reply are used up
  NULL

Cmds == {"SZ", "ST", "RT"}

ASSUME CommandsAssumption ==
  /\ Supported \in [Scales -> SUBSET Cmds]
  /\ MaxReq \in Nat /\ MaxMsg \in Nat
  /\ LineCap \in Nat \ {0} /\ Room \in Nat \ {0}
  /\ NULL \notin Scales \cup {"udp", "mqtt"}

Reqs == 1 .. MaxReq

VARIABLES
  \* per scale: the command slot, the semaphore, the calibration switch
  cmd, sem, calibr_mode,
  \* runcommand: label, datagrams so far, the present one, local variable cmd
  upc, ureq, udg, ucode,
  \* its cur_cmd: cmdbuf, and the request it was set for; rc
  ubuf, urc,
  \* m->cmds strings that have been overwritten
  spoiled,
  \* on_message: label, messages so far, cur_scale, its cur_cmd.rc, obuf
  mpc, mcnt, cur_scale, switch_mode, mrc, obuf,
  \* ldu_loop of each scale: label, packets in its locbuf, reads left
  lpc, lb, room,
  \* each serial port: packets arrived, answers the terminal still owes
  line, due,
  \* history: each request's datagram, the scales it was written to, the
  \* answers of terminals to it, the reply sent; waits on each semaphore that
  \* timed out; the scale and the packet obuf was last filled with; the scales
  \* selected since a handshake first failed, its own included
  asked, wrote, ran, reply, late, idby, suspects

slot == <<cmd, sem, calibr_mode>>
udpv == <<upc, ureq, udg, ucode, ubuf, urc>>
mqttv == <<mpc, mcnt, cur_scale, switch_mode, mrc, obuf>>
loopv == <<lpc, lb, room>>
port == <<line, due>>
hist == <<asked, wrote, ran, reply, late, idby, suspects>>
vars == <<slot, udpv, spoiled, mqttv, loopv, port, hist>>

NoReply == <<"", "">>
NoDatagram == [id |-> NULL, code |-> "bad"]

Init ==
  /\ cmd = [s \in Scales |-> NULL]
  /\ sem = [s \in Scales |-> 0]
  /\ calibr_mode = [s \in Scales |-> FALSE]
  /\ upc = "recv" /\ ureq = 0 /\ udg = NoDatagram
  /\ ucode \in Cmds \cup {"max"}     \* not initialised
  /\ ubuf = [code |-> "max", req |-> 0] /\ urc = 0
  /\ spoiled = {}
  /\ mpc = "idle" /\ mcnt = 0 /\ cur_scale = NULL /\ switch_mode = FALSE
  /\ mrc = 0 /\ obuf = <<>>
  /\ lpc = [s \in Scales |-> "top"]
  /\ lb = [s \in Scales |-> <<>>]
  /\ room = [s \in Scales |-> Room]
  /\ line = [s \in Scales |-> <<>>]
  /\ due = [s \in Scales |-> <<>>]
  /\ asked = [r \in Reqs |-> NoDatagram]
  /\ wrote = [r \in Reqs |-> {}]
  /\ ran = [r \in Reqs |-> {}]
  /\ reply = [r \in Reqs |-> NoReply]
  /\ late = [s \in Scales |-> 0]
  /\ idby = <<>> /\ suspects = {}
-----------------------------------------------------------------------------
(* The terminals.  A terminal streams weights; a command is answered after  *)
(* a while, or never.                                                       *)

Arrive(s, packet) ==
  /\ Len(line[s]) < LineCap
  /\ line' = [line EXCEPT ![s] = Append(@, packet)]

Weight(s) ==
  /\ Arrive(s, "weight")
  /\ UNCHANGED <<slot, udpv, spoiled, mqttv, loopv, due, hist>>

\* The terminal runs the next command it was given.
Execute(s) ==
  /\ due[s] # <<>>
  /\ LET r == Head(due[s]) IN
     IF r \in Reqs
     THEN \E res \in {"OK", "ERR"} :
            Arrive(s, res) /\ ran' = [ran EXCEPT ![r] = @ \cup {<<s, res>>}]
     ELSE Arrive(s, IF r = 0 THEN "D:" ELSE "text") /\ UNCHANGED ran
  /\ due' = [due EXCEPT ![s] = Tail(@)]
  /\ UNCHANGED <<slot, udpv, spoiled, mqttv, loopv, asked, wrote, reply, late, idby,
                 suspects>>

Ignore(s) ==
  /\ due[s] # <<>>
  /\ due' = [due EXCEPT ![s] = Tail(@)]
  /\ UNCHANGED <<slot, udpv, spoiled, mqttv, loopv, line, hist>>

\* What a terminal owes: the number of the request for a UDP command, 0 for
\* ID and -1 for any other command of on_message.
Owe(s, answers) == due' = [due EXCEPT ![s] = @ \o answers]
-----------------------------------------------------------------------------
(* runcommand                                                              *)

\* parse_buf: the command code, and the local variable cmd as it leaves it.
\* A first letter other than S and R leaves cmd as it was.
Parsed(code) ==
  IF code \in Cmds THEN code ELSE IF code \in {"S?", "R?"} THEN "max" ELSE ucode

\* The code of the transmit level.
Transmit(d) ==
  IF d.code = "bad" \/ Parsed(d.code) = "max" THEN "01"
  ELSE IF d.id \notin Scales THEN "02"
  ELSE IF Parsed(d.code) \notin Supported[d.id] THEN "03" ELSE "00"

Receive(d) ==
  /\ upc = "recv" /\ ureq < MaxReq
  /\ ureq' = ureq + 1
  /\ udg' = d
  /\ ucode' = IF d.code = "bad" THEN ucode ELSE Parsed(d.code)
  /\ asked' = [asked EXCEPT ![ureq + 1] = d]

\* A damaged datagram, an unknown scale, an unsupported command.
Reject(d) ==
  /\ Receive(d) /\ Transmit(d) # "00"
  /\ reply' = [reply EXCEPT ![ureq + 1] = <<Transmit(d), "">>]
  /\ UNCHANGED <<slot, upc, ubuf, urc, spoiled, mqttv, loopv, port, wrote, ran,
                 late, idby, suspects>>

\* Slip: rc keeps the result of the previous command.
PrepareStale(d) ==
  /\ Receive(d) /\ Transmit(d) = "00"
  /\ ubuf' = [code |-> Parsed(d.code), req |-> ureq + 1]
  /\ upc' = "publish"
  /\ UNCHANGED <<slot, urc, spoiled, mqttv, loopv, port, wrote, ran, reply, late,
                 idby, suspects>>

\* cur_cmd.cmdbuf=..., cur_cmd.rc=-1
Prepare(d) ==
  /\ Receive(d) /\ Transmit(d) = "00"
  /\ ubuf' = [code |-> Parsed(d.code), req |-> ureq + 1]
  /\ urc' = -1
  /\ upc' = "publish"
  /\ UNCHANGED <<slot, spoiled, mqttv, loopv, port, wrote, ran, reply, late,
                 idby, suspects>>

\* s->cmd=&cur_cmd, whatever it pointed to
Publish ==
  /\ upc = "publish"
  /\ cmd' = [cmd EXCEPT ![udg.id] = "udp"]
  /\ upc' = "wait"
  /\ UNCHANGED <<sem, calibr_mode, ureq, udg, ucode, ubuf, urc, spoiled, mqttv,
                 loopv, port, hist>>

Woken ==
  /\ upc = "wait" /\ sem[udg.id] > 0
  /\ sem' = [sem EXCEPT ![udg.id] = @ - 1]
  /\ upc' = "answer"
  /\ UNCHANGED <<cmd, calibr_mode, ureq, udg, ucode, ubuf, urc, spoiled, mqttv,
                 loopv, port, hist>>

\* Slip: runcommand takes its command back itself.
TimedOutTakesBack ==
  /\ upc = "wait" /\ sem[udg.id] = 0
  /\ late' = [late EXCEPT ![udg.id] = @ + 1]
  /\ cmd' = [cmd EXCEPT ![udg.id] = NULL]
  /\ upc' = "answer"
  /\ UNCHANGED <<sem, calibr_mode, ureq, udg, ucode, ubuf, urc, spoiled, mqttv,
                 loopv, port, asked, wrote, ran, reply, idby, suspects>>

\* Slip: sem_wait for sem_timedwait.
TimedOutNever == upc = "wait" /\ sem[udg.id] = 0 /\ UNCHANGED vars

\* Nothing is taken back: s->cmd still points to cur_cmd.
TimedOut ==
  /\ upc = "wait" /\ sem[udg.id] = 0
  /\ late' = [late EXCEPT ![udg.id] = @ + 1]
  /\ upc' = "answer"
  /\ UNCHANGED <<slot, ureq, udg, ucode, ubuf, urc, spoiled, mqttv, loopv, port,
                 asked, wrote, ran, reply, idby, suspects>>

Answer ==
  /\ upc = "answer"
  /\ reply' = [reply EXCEPT ![ureq] =
       <<"00", IF urc = 0 THEN "00" ELSE IF urc = 1 THEN "02" ELSE "01">>]
  /\ upc' = "recv"
  /\ UNCHANGED <<slot, ureq, udg, ucode, ubuf, urc, spoiled, mqttv, loopv, port,
                 asked, wrote, ran, late, idby, suspects>>
-----------------------------------------------------------------------------
(* ldu_loop of scale s                                                     *)

\* s->cmd->rc, read and written through the pointer as it is now
Rc(s) == IF cmd[s] = "udp" THEN urc ELSE mrc
SetRc(s, v) ==
  IF cmd[s] = "udp" THEN urc' = v /\ UNCHANGED mrc ELSE mrc' = v /\ UNCHANGED urc

Goto(s, l) == lpc' = [lpc EXCEPT ![s] = l]

\* While calibr_mode is set the loop sleeps at its top.
Sleep(s) == lpc[s] = "top" /\ calibr_mode[s] /\ UNCHANGED vars

TakeCmd(s) ==
  /\ lpc[s] = "top" /\ ~calibr_mode[s]
  /\ cmd[s] # NULL /\ Rc(s) = -1
  /\ Goto(s, "write")
  /\ UNCHANGED <<slot, udpv, spoiled, mqttv, lb, room, port, hist>>

\* The command goes to the port, unless its text has been spoiled; should
\* s->cmd have become on_message's, what is in obuf goes there.
WriteCmd(s) ==
  /\ lpc[s] = "write"
  /\ IF cmd[s] = "udp" /\ ubuf.code \notin spoiled
     THEN /\ Owe(s, <<ubuf.req>>)
          /\ wrote' = [wrote EXCEPT ![ubuf.req] = @ \cup {s}]
     ELSE UNCHANGED <<due, wrote>>
  /\ Goto(s, "catch")
  /\ room' = [room EXCEPT ![s] = Room]
  /\ UNCHANGED <<slot, udpv, spoiled, mqttv, lb, line, asked, ran, reply, late,
                 idby, suspects>>

WriteCmdFail(s) ==
  /\ lpc[s] = "write"
  /\ Goto(s, "post")
  /\ UNCHANGED <<slot, udpv, spoiled, mqttv, lb, room, port, hist>>

Result(packet) == IF packet = "OK" THEN 0 ELSE 1

LastPacket(q) == q[Len(q)]

\* catch_cmd_reply: one read takes all there is and looks at its end.
CatchReply(s) ==
  /\ lpc[s] = "catch" /\ line[s] # <<>>
  /\ LastPacket(line[s]) \in {"OK", "ERR"}
  /\ SetRc(s, Result(LastPacket(line[s])))
  /\ line' = [line EXCEPT ![s] = <<>>]
  /\ Goto(s, "post")
  /\ UNCHANGED <<slot, upc, ureq, udg, ucode, ubuf, spoiled, mpc, mcnt,
                 cur_scale, switch_mode, obuf, lb, room, due, hist>>

\* catch_cmd_reply has failed: s->cmd->rc is set to -1 and GW is written; if
\* that fails get_cmd_reply2 gives -1 too.
GiveUpCatch(s) == SetRc(s, -1) /\ (Goto(s, "get2") \/ Goto(s, "post"))


CatchOther(s) ==
  /\ lpc[s] = "catch" /\ line[s] # <<>>
  /\ LastPacket(line[s]) \notin {"OK", "ERR"}
  /\ line' = [line EXCEPT ![s] = <<>>]
  /\ room' = [room EXCEPT ![s] = @ - 1]
  /\ IF room[s] = 1 THEN GiveUpCatch(s)
                     ELSE Goto(s, "catch") /\ UNCHANGED <<urc, mrc>>
  /\ UNCHANGED <<slot, upc, ureq, udg, ucode, ubuf, spoiled, mpc, mcnt,
                 cur_scale, switch_mode, obuf, lb, due, hist>>

\* Five reads found nothing.
CatchSilent(s) ==
  /\ lpc[s] = "catch" /\ line[s] = <<>>
  /\ GiveUpCatch(s)
  /\ UNCHANGED <<slot, upc, ureq, udg, ucode, ubuf, spoiled, mpc, mcnt,
                 cur_scale, switch_mode, obuf, lb, room, port, hist>>

\* get_cmd_reply2: looks at the first packet of each read, and reads on for
\* as long as something comes.
Get2Reply(s) ==
  /\ lpc[s] = "get2" /\ line[s] # <<>>
  /\ Head(line[s]) \in {"OK", "ERR"}
  /\ SetRc(s, Result(Head(line[s])))
  /\ line' = [line EXCEPT ![s] = <<>>]
  /\ Goto(s, "post")
  /\ UNCHANGED <<slot, upc, ureq, udg, ucode, ubuf, spoiled, mpc, mcnt,
                 cur_scale, switch_mode, obuf, lb, room, due, hist>>

Get2Other(s) ==
  /\ lpc[s] = "get2" /\ line[s] # <<>>
  /\ Head(line[s]) \notin {"OK", "ERR"}
  /\ line' = [line EXCEPT ![s] = <<>>]
  /\ UNCHANGED <<slot, udpv, spoiled, mqttv, loopv, due, hist>>

\* The read has cut the packet before its '\r': -1.  Its rest stays in the port;
\* of "OK" there are too few bytes for that.
Get2Cut(s) ==
  /\ lpc[s] = "get2" /\ line[s] # <<>> /\ Head(line[s]) # "OK"
  /\ SetRc(s, -1)
  /\ line' = [line EXCEPT ![s][1] = "text"]
  /\ Goto(s, "post")
  /\ UNCHANGED <<slot, upc, ureq, udg, ucode, ubuf, spoiled, mpc, mcnt,
                 cur_scale, switch_mode, obuf, lb, room, due, hist>>

Get2Silent(s) ==
  /\ lpc[s] = "get2" /\ line[s] = <<>>
  /\ SetRc(s, -1)
  /\ Goto(s, "post")
  /\ UNCHANGED <<slot, upc, ureq, udg, ucode, ubuf, spoiled, mpc, mcnt,
                 cur_scale, switch_mode, obuf, lb, room, port, hist>>

\* sem_post, and only then s->cmd=NULL.  "m" labels: on_message's command.
Post(s) ==
  /\ lpc[s] \in {"post", "mpost"}
  /\ sem' = [sem EXCEPT ![s] = @ + 1]
  /\ Goto(s, IF lpc[s] = "post" THEN "clear" ELSE "mclear")
  /\ UNCHANGED <<cmd, calibr_mode, udpv, spoiled, mqttv, lb, room, port, hist>>

\* Slip: s->cmd is not cleared.
ClearNothing(s) ==
  /\ lpc[s] \in {"clear", "mclear"}
  /\ Goto(s, IF lpc[s] = "clear" THEN "top" ELSE "parse")
  /\ UNCHANGED <<slot, udpv, spoiled, mqttv, lb, room, port, hist>>

ClearCmd(s) ==
  /\ lpc[s] \in {"clear", "mclear"}
  /\ cmd' = [cmd EXCEPT ![s] = NULL]
  /\ Goto(s, IF lpc[s] = "clear" THEN "top" ELSE "parse")
  /\ UNCHANGED <<sem, calibr_mode, udpv, spoiled, mqttv, lb, room, port, hist>>

\* No command of runcommand is pending: wait for input.
Select(s) ==
  /\ lpc[s] = "top" /\ ~calibr_mode[s]
  /\ ~(cmd[s] # NULL /\ Rc(s) = -1)
  /\ Goto(s, "select")
  /\ UNCHANGED <<slot, udpv, spoiled, mqttv, lb, room, port, hist>>


\* 3 seconds of silence; SW asks the terminal to stream again.
SelectTimeout(s) ==
  /\ lpc[s] = "select" /\ line[s] = <<>>
  /\ Goto(s, "top")
  /\ UNCHANGED <<slot, udpv, spoiled, mqttv, lb, room, port, hist>>

ReadPort(s) ==
  /\ lpc[s] = "select" /\ line[s] # <<>>
  /\ lb' = [lb EXCEPT ![s] = line[s]]
  /\ line' = [line EXCEPT ![s] = <<>>]
  /\ Goto(s, "parse")
  /\ UNCHANGED <<slot, udpv, spoiled, mqttv, room, due, hist>>

\* A short packet on_message waits for.
Wanted(s) ==
  lb[s] # <<>> /\ Head(lb[s]) # "weight" /\ cmd[s] # NULL /\ Rc(s) = -2

\* A weight is distributed (see ScaledClients), a short packet discarded.
Packet(s) ==
  /\ lpc[s] = "parse" /\ lb[s] # <<>> /\ ~Wanted(s)
  /\ lb' = [lb EXCEPT ![s] = Tail(@)]
  /\ UNCHANGED <<slot, udpv, spoiled, mqttv, lpc, room, port, hist>>

PacketsDone(s) ==
  /\ lpc[s] = "parse" /\ lb[s] = <<>>
  /\ Goto(s, "top")
  /\ UNCHANGED <<slot, udpv, spoiled, mqttv, lb, room, port, hist>>

Want(s) ==
  /\ lpc[s] = "parse" /\ Wanted(s)
  /\ Goto(s, "copy")
  /\ UNCHANGED <<slot, udpv, spoiled, mqttv, lb, room, port, hist>>

\* memcpy(s->cmd->cmdbuf,...): into obuf, or over the text of a command of
\* the terminal's model when runcommand has published in between.
Copy(s) ==
  /\ lpc[s] = "copy"
  /\ IF cmd[s] = "mqtt"
     THEN /\ obuf' = <<Head(lb[s])>> /\ idby' = <<s, Head(lb[s])>>
          /\ UNCHANGED spoiled
     ELSE spoiled' = spoiled \cup {ubuf.code} /\ UNCHANGED <<obuf, idby>>
  /\ lb' = [lb EXCEPT ![s] = Tail(@)]
  /\ Goto(s, "rc")
  /\ UNCHANGED <<slot, udpv, mpc, mcnt, cur_scale, switch_mode, mrc, room, port,
                 asked, wrote, ran, reply, late, suspects>>

\* s->cmd->rc=0
CopyDone(s) ==
  /\ lpc[s] = "rc"
  /\ SetRc(s, 0)
  /\ Goto(s, "mpost")
  /\ UNCHANGED <<slot, upc, ureq, udg, ucode, ubuf, spoiled, mpc, mcnt,
                 cur_scale, switch_mode, obuf, lb, room, port, hist>>
-----------------------------------------------------------------------------
(* on_message and exec_ldu_cmd                                              *)

\* The message is for the scale already selected.
MsgSame(c) ==
  /\ mpc = "idle" /\ mcnt < MaxMsg
  /\ cur_scale = c /\ c # NULL
  /\ mcnt' = mcnt + 1
  /\ switch_mode' = FALSE
  /\ mpc' = "send"
  /\ UNCHANGED <<slot, udpv, spoiled, cur_scale, mrc, obuf, loopv, port, hist>>

Suspect(c) == suspects' = IF suspects = {} THEN {} ELSE suspects \cup ({c} \cap Scales)

\* Slip: the scale left is not released.
MsgSwitchKeeps(c) ==
  /\ mpc = "idle" /\ mcnt < MaxMsg
  /\ cur_scale # c
  /\ mcnt' = mcnt + 1
  /\ cur_scale' = IF c \in Scales THEN c ELSE NULL
  /\ switch_mode' = (c \in Scales)
  /\ mpc' = IF c \in Scales THEN "hand" ELSE "idle"
  /\ Suspect(c)
  /\ UNCHANGED <<slot, udpv, spoiled, mrc, obuf, loopv, port, asked, wrote, ran, reply,
                 late, idby>>

\* The selected scale is released, and another one selected if c is one.
MsgSwitch(c) ==
  /\ mpc = "idle" /\ mcnt < MaxMsg
  /\ cur_scale # c
  /\ mcnt' = mcnt + 1
  /\ calibr_mode' = [s \in Scales |-> calibr_mode[s] /\ s # cur_scale]
  /\ cur_scale' = IF c \in Scales THEN c ELSE NULL
  /\ switch_mode' = (c \in Scales)
  /\ mpc' = IF c \in Scales THEN "hand" ELSE "idle"
  /\ Suspect(c)
  /\ UNCHANGED <<cmd, sem, udpv, spoiled, mrc, obuf, loopv, port, asked, wrote, ran,
                 reply, late, idby>>

\* cur_cmd is set up, ID and the command are written.
Handshake ==
  /\ mpc = "hand"
  /\ mrc' = -2
  /\ Owe(cur_scale, <<0, -1>>)
  /\ mpc' = "publish"
  /\ UNCHANGED <<slot, udpv, spoiled, mcnt, cur_scale, switch_mode, obuf, loopv,
                 line, hist>>

PublishMqtt ==
  /\ mpc = "publish"
  /\ cmd' = [cmd EXCEPT ![cur_scale] = "mqtt"]
  /\ mpc' = "wait"
  /\ UNCHANGED <<sem, calibr_mode, udpv, spoiled, mcnt, cur_scale, switch_mode,
                 mrc, obuf, loopv, port, hist>>

WokenMqtt ==
  /\ mpc = "wait" /\ sem[cur_scale] > 0
  /\ sem' = [sem EXCEPT ![cur_scale] = @ - 1]
  /\ mpc' = "check"
  /\ UNCHANGED <<cmd, calibr_mode, udpv, spoiled, mcnt, cur_scale, switch_mode,
                 mrc, obuf, loopv, port, hist>>

TimedOutMqtt ==
  /\ mpc = "wait" /\ sem[cur_scale] = 0
  /\ late' = [late EXCEPT ![cur_scale] = @ + 1]
  /\ mpc' = "check"
  /\ UNCHANGED <<slot, udpv, spoiled, mcnt, cur_scale, switch_mode, mrc, obuf,
                 loopv, port, asked, wrote, ran, reply, idby, suspects>>

\* Slip: any packet will do.
IdentifiedByAny == mrc = 0 /\ obuf # <<>>

Identified == mrc = 0 /\ obuf # <<>> /\ Head(obuf) = "D:"

\* The terminal said who it is: ldu_loop is told to stay away.
Calibrate ==
  /\ mpc = "check" /\ Identified
  /\ calibr_mode' = [calibr_mode EXCEPT ![cur_scale] = TRUE]
  /\ mpc' = "send"
  /\ UNCHANGED <<cmd, sem, udpv, spoiled, mcnt, cur_scale, switch_mode, mrc,
                 obuf, loopv, port, hist>>

\* return -1, COMM_ERR is published; cur_scale and s->cmd stay as they are.
NotIdentified ==
  /\ mpc = "check" /\ ~Identified
  /\ mpc' = "idle" /\ suspects' = suspects \cup {cur_scale}
  /\ UNCHANGED <<slot, udpv, spoiled, mcnt, cur_scale, switch_mode, mrc, obuf,
                 loopv, port, asked, wrote, ran, reply, late, idby>>

\* The command is written (again, after a handshake) and obuf emptied.
Send ==
  /\ mpc = "send"
  /\ Owe(cur_scale, <<-1>>)
  /\ obuf' = <<>>
  /\ mpc' = "read"
  /\ UNCHANGED <<slot, udpv, spoiled, mcnt, cur_scale, switch_mode, mrc, loopv,
                 line, hist>>

\* What there is ends with '\r' and is published as the response: it comes to
\* the front of obuf, whatever a loop has put there meanwhile.
Respond ==
  /\ mpc = "read" /\ line[cur_scale] # <<>>
  /\ obuf' = line[cur_scale] /\ idby' = <<cur_scale, Head(line[cur_scale])>>
  /\ line' = [line EXCEPT ![cur_scale] = <<>>]
  /\ mpc' = "idle"
  /\ UNCHANGED <<slot, udpv, spoiled, mcnt, cur_scale, switch_mode, mrc, loopv,
                 due, asked, wrote, ran, reply, late, suspects>>

\* A second of silence: COMM_ERR is published.
NoResponse ==
  /\ mpc = "read" /\ line[cur_scale] = <<>>
  /\ mpc' = "idle"
  /\ UNCHANGED <<slot, udpv, spoiled, mcnt, cur_scale, switch_mode, mrc, obuf,
                 loopv, port, hist>>
-----------------------------------------------------------------------------
Terminal(s) == Weight(s) \/ Execute(s) \/ Ignore(s)

RunCommand ==
  \/ \E d \in Datagrams : Reject(d) \/ Prepare(d)
  \/ Publish \/ Woken \/ TimedOut \/ Answer

Loop(s) ==
  \/ Sleep(s) \/ TakeCmd(s) \/ WriteCmd(s) \/ WriteCmdFail(s)
  \/ CatchReply(s) \/ CatchOther(s) \/ CatchSilent(s)
  \/ Get2Reply(s) \/ Get2Other(s) \/ Get2Cut(s) \/ Get2Silent(s)
  \/ Post(s) \/ ClearCmd(s)
  \/ Select(s) \/ SelectTimeout(s) \/ ReadPort(s)
  \/ Packet(s) \/ PacketsDone(s) \/ Want(s) \/ Copy(s) \/ CopyDone(s)

OnMessage ==
  \/ \E c \in Chans : MsgSame(c) \/ MsgSwitch(c)
  \/ Handshake \/ PublishMqtt \/ WokenMqtt \/ TimedOutMqtt
  \/ Calibrate \/ NotIdentified \/ Send \/ Respond \/ NoResponse

Next ==
  \/ \E s \in Scales : Terminal(s) \/ Loop(s)
  \/ RunCommand \/ OnMessage

Spec == Init /\ [][Next]_vars

(***************************************************************************)
(* The threads of the daemon are scheduled, and every wait in them has a   *)
(* timeout.  Clients and broker need not send, terminals need not answer.  *)
(***************************************************************************)
Fairness ==
  /\ WF_vars(Publish \/ Woken \/ TimedOut \/ Answer)
  /\ WF_vars(mpc # "idle" /\ OnMessage)
  /\ \A s \in Scales : WF_vars(Loop(s))

FairSpec == Spec /\ Fairness
-----------------------------------------------------------------------------
(* Correctness                                                             *)

Packets == {"weight", "OK", "ERR", "D:", "text"}

SeqTo(S, n) == UNION {[1 .. i -> S] : i \in 0 .. n}

TypeOK ==
  /\ cmd \in [Scales -> {NULL, "udp", "mqtt"}]
  /\ sem \in [Scales -> Nat]
  /\ calibr_mode \in [Scales -> BOOLEAN]
  /\ upc \in {"recv", "publish", "wait", "answer"}
  /\ ureq \in 0 .. MaxReq
  /\ udg \in Datagrams \cup {NoDatagram}
  /\ ucode \in Cmds \cup {"max"}
  /\ ubuf \in [code : Cmds \cup {"max"}, req : 0 .. MaxReq]
  /\ urc \in {-1, 0, 1}
  /\ spoiled \subseteq Cmds
  /\ mpc \in {"idle", "hand", "publish", "wait", "check", "send", "read"}
  /\ mcnt \in 0 .. MaxMsg
  /\ cur_scale \in Scales \cup {NULL}
  /\ switch_mode \in BOOLEAN
  /\ mrc \in {-2, -1, 0, 1}
  /\ obuf \in SeqTo(Packets, LineCap)
  /\ lpc \in [Scales -> {"top", "write", "catch", "get2", "post", "clear",
                         "select", "parse", "copy", "rc", "mpost", "mclear"}]
  /\ lb \in [Scales -> SeqTo(Packets, LineCap)]
  /\ room \in [Scales -> 0 .. Room]
  /\ line \in [Scales -> SeqTo(Packets, LineCap)]
  /\ due \in [Scales -> Seq(Reqs \cup {0, -1})]
  /\ asked \in [Reqs -> Datagrams \cup {NoDatagram}]
  /\ wrote \in [Reqs -> SUBSET Scales]
  /\ ran \in [Reqs -> SUBSET (Scales \X {"OK", "ERR"})]
  /\ late \in [Scales -> Nat]

\* ldu_loop dereferences s->cmd long after it has tested it; the pointer may
\* change in between but is never NULL then.
CmdHeld ==
  \A s \in Scales :
    lpc[s] \in {"write", "catch", "get2", "post", "copy", "rc", "mpost"} => cmd[s] # NULL

One(b) == IF b THEN 1 ELSE 0

\* Threads that wait on the semaphore of s
Waiters(s) == One(upc = "wait" /\ udg.id = s) + One(mpc = "wait" /\ cur_scale = s)

\* A credit on a semaphore that nobody waits for was made for a wait that
\* timed out: answers never outnumber the waits they were asked for in, with
\* two threads publishing in one slot and sem_post before s->cmd=NULL.
CreditsAccounted == \A s \in Scales : sem[s] <= late[s] + Waiters(s)

\* Nothing has upset the exchange before request r: every command before it
\* was answered by its terminal, and nobody calibrates.
Smooth(r) == mcnt = 0 /\ \A q \in 1 .. r - 1 : reply[q][2] # "01"

\* Up to the first command that a terminal left without an answer, a command
\* is written to the scale it names and to no other, and "OK" or "ERR" is what
\* that scale's terminal answered to it.
ReplyFaithful ==
  \A r \in Reqs : Smooth(r) =>
    /\ wrote[r] \subseteq {asked[r].id}
    /\ reply[r][2] = "00" => <<asked[r].id, "OK">> \in ran[r]
    /\ reply[r][2] = "02" => <<asked[r].id, "ERR">> \in ran[r]

\* At most one scale is in calibration, the selected one: ldu_loop of any
\* other is never left asleep.
CalibratedIsCurrent == \A s \in Scales : calibr_mode[s] => cur_scale = s

\* Transparent mode is entered on a "D:" of the very scale it is entered for,
\* however many handshakes were before: also when one with that scale has failed,
\* its command is still in the slot and its loop answers late.  Not so when
\* runcommand interferes, or another scale is selected after a failure: the loop
\* of the scale left may then answer into obuf and cur_cmd for the new one.
HandshakeSound ==
  mpc = "send" /\ switch_mode /\ ureq = 0 /\ suspects \subseteq {cur_scale}
    => idby = <<cur_scale, "D:">>

\* Every datagram is answered, whatever happens to its command.
AllAnswered == \A r \in Reqs : (ureq = r) ~> (reply[r] # NoReply)



\* commands.c:46, "00" - OK (from application level)
OkMeansDone ==
  \A r \in Reqs : reply[r] = <<"00", "00">> => <<asked[r].id, "OK">> \in ran[r]
=============================================================================
