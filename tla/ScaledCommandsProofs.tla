------------------------- MODULE ScaledCommandsProofs -------------------------
(***************************************************************************)
(* Proofs about ScaledCommands for any scales, datagrams, messages and     *)
(* bounds: the pointer and the credits (CInv), types (TInv), the handshake *)
(* (HInv), and what a reply is worth (RInv).                               *)
(***************************************************************************)
EXTENDS ScaledCommands, TLAPS

LoopPCs == {"top", "write", "catch", "get2", "post", "clear", "select", "parse",
            "copy", "rc", "mpost", "mclear"}

SlotType ==
  /\ cmd \in [Scales -> {NULL, "udp", "mqtt"}]
  /\ sem \in [Scales -> Nat]
  /\ late \in [Scales -> Nat]
  /\ lpc \in [Scales -> LoopPCs]
  /\ calibr_mode \in [Scales -> BOOLEAN]

\* The threads that use a scale have one.
TargetInv ==
  /\ upc \in {"recv", "publish", "wait", "answer"}
  /\ upc # "recv" => udg.id \in Scales
  /\ mpc \in {"idle", "hand", "publish", "wait", "check", "send", "read"}
  /\ cur_scale \in Scales \cup {NULL}
  /\ mpc # "idle" => cur_scale \in Scales

\* A command is in the slot of s and its sem_post is still to come.
Unposted(s) == One(cmd[s] # NULL /\ lpc[s] \notin {"clear", "mclear"})

\* A credit, or a post to come, for each wait that timed out or goes on.
CreditInv == \A s \in Scales : sem[s] + Unposted(s) <= late[s] + Waiters(s)

CInv == SlotType /\ TargetInv /\ CmdHeld /\ CreditInv /\ CalibratedIsCurrent

\* The NULL pointer is none of the two commands.
LEMMA NamesDiffer == NULL # "udp" /\ NULL # "mqtt"
  BY CommandsAssumption

\* init_scales and the static initialisers establish the invariant.
LEMMA CreditStart == Init => CInv
  BY CommandsAssumption
  DEF Init, CInv, SlotType, LoopPCs, TargetInv, CmdHeld, CreditInv, CalibratedIsCurrent,
      Unposted, Waiters, One

\* A loop that does not touch the semaphore moves between labels of the same
\* kind: where the pointer is needed, it was needed or has just been tested.
LEMMA LoopMoves ==
  ASSUME CInv, NEW s \in Scales, NEW l \in LoopPCs, Goto(s, l),
         UNCHANGED <<slot, upc, udg, mpc, cur_scale, late>>,
         l \in {"clear", "mclear"} <=> lpc[s] \in {"clear", "mclear"},
         l \in {"write", "catch", "get2", "post", "copy", "rc",
         "mpost"} => cmd[s] # NULL
  PROVE  CInv'
<1> USE DEF CInv, SlotType, slot, Goto
<1>1. SlotType' /\ TargetInv' /\ CalibratedIsCurrent'
  BY DEF TargetInv, CalibratedIsCurrent
<1>2. CmdHeld'
  BY DEF CmdHeld
<1>3. CreditInv'
  <2> SUFFICES ASSUME NEW t \in Scales
               PROVE  (sem[t] + Unposted(t) <= late[t] + Waiters(t))'
    BY DEF CreditInv
  <2>1. Unposted(t)' = Unposted(t) /\ Waiters(t)' = Waiters(t)
    BY DEF Unposted, Waiters
  <2>2. QED
    BY <2>1 DEF CreditInv
<1>4. QED
  BY <1>1, <1>2, <1>3

\* The invariant speaks of nothing else than these variables.
LEMMA CreditUnchanged ==
  ASSUME CInv, UNCHANGED <<slot, lpc, upc, udg, mpc, cur_scale, late>>
  PROVE  CInv'
  BY DEF CInv, SlotType, TargetInv, CmdHeld, CreditInv, CalibratedIsCurrent, Unposted,
         Waiters, slot

\* Every step of runcommand, on_message, the loops and the terminals keeps it.
LEMMA CreditStep == CInv /\ [Next]_vars => CInv'
<1> SUFFICES ASSUME CInv, [Next]_vars PROVE CInv'
  OBVIOUS
<1> USE DEF slot, udpv, mqttv, loopv, port, hist
<1>1. ASSUME NEW s \in Scales, Terminal(s) \/ Sleep(s) \/ Get2Other(s) \/ Packet(s)
      PROVE  CInv'
  <2>1. UNCHANGED <<slot, lpc, upc, udg, mpc, cur_scale, late>>
    BY <1>1 DEF Terminal, Weight, Execute, Ignore, Arrive, Sleep, Get2Other, Packet, vars
  <2>2. QED
    BY <2>1, CreditUnchanged
<1>2. ASSUME NEW d \in Datagrams, Reject(d) PROVE CInv'
  <2>1. upc = "recv" /\ UNCHANGED <<slot, lpc, upc, mpc, cur_scale, late>>
    BY <1>2 DEF Reject, Receive
  <2>2. QED
    BY <2>1
    DEF CInv, SlotType, TargetInv, CmdHeld, CreditInv, CalibratedIsCurrent, Unposted,
        Waiters
<1>3. ASSUME NEW d \in Datagrams, Prepare(d) PROVE CInv'
  <2>1. /\ upc = "recv" /\ upc' = "publish" /\ udg'.id \in Scales
        /\ UNCHANGED <<slot, lpc, mpc, cur_scale, late>>
    BY <1>3 DEF Prepare, Receive, Transmit
  <2>2. QED
    BY <2>1
    DEF CInv, SlotType, TargetInv, CmdHeld, CreditInv, CalibratedIsCurrent, Unposted,
        Waiters
<1>4. CASE Publish
  <2>1. PICK s \in Scales : /\ udg.id = s /\ upc = "publish" /\ upc' = "wait"
                            /\ cmd' = [cmd EXCEPT ![s] = "udp"]
                            /\ UNCHANGED <<sem, calibr_mode, lpc, udg, mpc, cur_scale, late>>
    BY <1>4 DEF Publish, CInv, TargetInv
  <2>2. SlotType' /\ TargetInv' /\ CalibratedIsCurrent'
    BY <2>1 DEF CInv, SlotType, TargetInv, CalibratedIsCurrent
  <2>3. CmdHeld'
    BY <2>1, NamesDiffer DEF CInv, SlotType, CmdHeld
  <2>4. CreditInv'
    <3> SUFFICES ASSUME NEW t \in Scales
                 PROVE  (sem[t] + Unposted(t) <= late[t] + Waiters(t))'
      BY DEF CreditInv
    <3>1. CASE t = s
      <4>1. Waiters(t)' = Waiters(t) + 1 /\ Unposted(t)' <= Unposted(t) + 1
        BY <2>1, <3>1 DEF Waiters, Unposted, One
      <4>2. QED
        BY <2>1, <4>1 DEF CInv, SlotType, CreditInv, Waiters, Unposted, One
    <3>2. CASE t # s
      <4>1. Waiters(t)' = Waiters(t) /\ Unposted(t)' = Unposted(t)
        BY <2>1, <3>2 DEF Waiters, Unposted, CInv, SlotType
      <4>2. QED
        BY <2>1, <4>1 DEF CInv, CreditInv
    <3>3. QED
      BY <3>1, <3>2
  <2>5. QED
    BY <2>2, <2>3, <2>4 DEF CInv
<1>5. CASE PublishMqtt
  <2>1. PICK s \in Scales : /\ cur_scale = s /\ mpc = "publish" /\ mpc' = "wait"
                            /\ cmd' = [cmd EXCEPT ![s] = "mqtt"]
                            /\ UNCHANGED <<sem, calibr_mode, lpc, upc, udg, cur_scale, late>>
    BY <1>5 DEF PublishMqtt, CInv, TargetInv
  <2>2. SlotType' /\ TargetInv' /\ CalibratedIsCurrent'
    BY <2>1 DEF CInv, SlotType, TargetInv, CalibratedIsCurrent
  <2>3. CmdHeld'
    BY <2>1, NamesDiffer DEF CInv, SlotType, CmdHeld
  <2>4. CreditInv'
    <3> SUFFICES ASSUME NEW t \in Scales
                 PROVE  (sem[t] + Unposted(t) <= late[t] + Waiters(t))'
      BY DEF CreditInv
    <3>1. CASE t = s
      <4>1. Waiters(t)' = Waiters(t) + 1 /\ Unposted(t)' <= Unposted(t) + 1
        BY <2>1, <3>1 DEF Waiters, Unposted, One
      <4>2. QED
        BY <2>1, <4>1 DEF CInv, SlotType, CreditInv, Waiters, Unposted, One
    <3>2. CASE t # s
      <4>1. Waiters(t)' = Waiters(t) /\ Unposted(t)' = Unposted(t)
        BY <2>1, <3>2 DEF Waiters, Unposted, CInv, SlotType
      <4>2. QED
        BY <2>1, <4>1 DEF CInv, CreditInv
    <3>3. QED
      BY <3>1, <3>2
  <2>5. QED
    BY <2>2, <2>3, <2>4 DEF CInv
<1>6. CASE Woken \/ TimedOut
  <2>1. PICK s \in Scales : /\ udg.id = s /\ upc = "wait" /\ upc' = "answer"
                            /\ \/ /\ sem[s] > 0 /\ sem' = [sem EXCEPT ![s] = @ - 1]
                                  /\ late' = late
                               \/ /\ sem' = sem
                                  /\ late' = [late EXCEPT ![s] = @ + 1]
                            /\ UNCHANGED <<cmd, calibr_mode, lpc, udg, mpc, cur_scale>>
    BY <1>6 DEF Woken, TimedOut, CInv, TargetInv
  <2>2. SlotType' /\ TargetInv' /\ CalibratedIsCurrent' /\ CmdHeld'
    BY <2>1 DEF CInv, SlotType, TargetInv, CalibratedIsCurrent, CmdHeld
  <2>3. CreditInv'
    <3> SUFFICES ASSUME NEW t \in Scales
                 PROVE  (sem[t] + Unposted(t) <= late[t] + Waiters(t))'
      BY DEF CreditInv
    <3>1. Unposted(t)' = Unposted(t) /\ Unposted(t) \in {0, 1}
      BY <2>1 DEF Unposted, One
    <3>2. Waiters(t)' = (IF t = s THEN Waiters(t) - 1 ELSE Waiters(t)) /\ Waiters(t) \in 0 .. 2
      BY <2>1 DEF Waiters, One
    <3>3. QED
      BY <2>1, <3>1, <3>2 DEF CInv, SlotType, CreditInv
  <2>4. QED
    BY <2>2, <2>3 DEF CInv
<1>7. CASE WokenMqtt \/ TimedOutMqtt
  <2>1. PICK s \in Scales : /\ cur_scale = s /\ mpc = "wait" /\ mpc' = "check"
                            /\ \/ /\ sem[s] > 0 /\ sem' = [sem EXCEPT ![s] = @ - 1]
                                  /\ late' = late
                               \/ /\ sem' = sem
                                  /\ late' = [late EXCEPT ![s] = @ + 1]
                            /\ UNCHANGED <<cmd, calibr_mode, lpc, upc, udg, cur_scale>>
    BY <1>7 DEF WokenMqtt, TimedOutMqtt, CInv, TargetInv
  <2>2. SlotType' /\ TargetInv' /\ CalibratedIsCurrent' /\ CmdHeld'
    BY <2>1 DEF CInv, SlotType, TargetInv, CalibratedIsCurrent, CmdHeld
  <2>3. CreditInv'
    <3> SUFFICES ASSUME NEW t \in Scales
                 PROVE  (sem[t] + Unposted(t) <= late[t] + Waiters(t))'
      BY DEF CreditInv
    <3>1. Unposted(t)' = Unposted(t) /\ Unposted(t) \in {0, 1}
      BY <2>1 DEF Unposted, One
    <3>2. Waiters(t)' = (IF t = s THEN Waiters(t) - 1 ELSE Waiters(t)) /\ Waiters(t) \in 0 .. 2
      BY <2>1 DEF Waiters, One
    <3>3. QED
      BY <2>1, <3>1, <3>2 DEF CInv, SlotType, CreditInv
  <2>4. QED
    BY <2>2, <2>3 DEF CInv
<1>8. CASE Answer
  <2>1. /\ upc = "answer" /\ upc' = "recv"
        /\ UNCHANGED <<slot, lpc, udg, mpc, cur_scale, late>>
    BY <1>8 DEF Answer
  <2>2. QED
    BY <2>1
    DEF CInv, SlotType, TargetInv, CmdHeld, CreditInv, CalibratedIsCurrent, Unposted,
        Waiters
<1>9. ASSUME NEW s \in Scales,
             \/ TakeCmd(s) \/ WriteCmd(s) \/ WriteCmdFail(s) \/ CatchReply(s) \/ Get2Reply(s)
             \/ Get2Cut(s) \/ Get2Silent(s) \/ Select(s)
             \/ SelectTimeout(s) \/ ReadPort(s) \/ PacketsDone(s) \/ Want(s) \/ Copy(s)
             \/ CopyDone(s)
      PROVE  CInv'
  <2>1. UNCHANGED <<slot, upc, udg, mpc, cur_scale, late>>
    BY <1>9
    DEF TakeCmd, WriteCmd, WriteCmdFail, CatchReply, Get2Reply, Get2Cut, Get2Silent, Select,
        SelectTimeout, ReadPort, PacketsDone, Want, Copy, CopyDone
  <2>2. PICK l \in LoopPCs \ {"clear", "mclear"} :
          /\ Goto(s, l) /\ lpc[s] \notin {"clear", "mclear"}
          /\ \/ l \in {"top", "select", "parse"}
             \/ cmd[s] # NULL
             \/ lpc[s] \in {"write", "catch", "get2", "post", "copy", "rc", "mpost"}
    BY <1>9
    DEF TakeCmd, WriteCmd, WriteCmdFail, CatchReply, Get2Reply, Get2Cut, Get2Silent, Select,
        SelectTimeout, ReadPort, PacketsDone, Want, Wanted, Copy, CopyDone, LoopPCs
  <2>3. l \in {"write", "catch", "get2", "post", "copy", "rc", "mpost"} => cmd[s] # NULL
    BY <2>2 DEF CInv, CmdHeld
  <2>4. QED
    BY <2>1, <2>2, <2>3, LoopMoves
<1>catch. ASSUME NEW s \in Scales, CatchOther(s) \/ CatchSilent(s) PROVE CInv'
  <2>1. /\ UNCHANGED <<slot, upc, udg, mpc, cur_scale, late>>
        /\ lpc[s] = "catch"
        /\ Goto(s, "catch") \/ Goto(s, "get2") \/ Goto(s, "post")
    BY <1>catch DEF CatchOther, CatchSilent, GiveUpCatch
  <2>2. cmd[s] # NULL
    BY <2>1 DEF CInv, CmdHeld
  <2>3. QED
    BY <2>1, <2>2, LoopMoves DEF LoopPCs
<1>10. ASSUME NEW s \in Scales, Post(s) PROVE CInv'
  <2>1. PICK l \in {"clear", "mclear"} :
          /\ lpc[s] \in {"post", "mpost"} /\ lpc' = [lpc EXCEPT ![s] = l]
          /\ sem' = [sem EXCEPT ![s] = @ + 1]
          /\ UNCHANGED <<cmd, calibr_mode, upc, udg, mpc, cur_scale, late>>
    BY <1>10 DEF Post, Goto
  <2>2. SlotType' /\ TargetInv' /\ CalibratedIsCurrent' /\ CmdHeld'
    BY <2>1 DEF CInv, SlotType, LoopPCs, TargetInv, CalibratedIsCurrent, CmdHeld
  <2>3. CreditInv'
    <3> SUFFICES ASSUME NEW t \in Scales
                 PROVE  (sem[t] + Unposted(t) <= late[t] + Waiters(t))'
      BY DEF CreditInv
    <3>1. Waiters(t)' = Waiters(t)
      BY <2>1 DEF Waiters
    <3>2. CASE t = s
      <4>1. Unposted(s) = 1 /\ Unposted(s)' = 0
        BY <2>1 DEF CInv, SlotType, CmdHeld, Unposted, One
      <4>2. QED
        BY <2>1, <3>1, <3>2, <4>1 DEF CInv, SlotType, CreditInv, Waiters, One
    <3>3. CASE t # s
      <4>1. Unposted(t)' = Unposted(t)
        BY <2>1, <3>3 DEF CInv, SlotType, Unposted
      <4>2. QED
        BY <2>1, <3>1, <3>3, <4>1 DEF CInv, SlotType, CreditInv
    <3>4. QED
      BY <3>2, <3>3
  <2>4. QED
    BY <2>2, <2>3 DEF CInv
<1>11. ASSUME NEW s \in Scales, ClearCmd(s) PROVE CInv'
  <2>1. PICK l \in {"top", "parse"} :
          /\ lpc[s] \in {"clear", "mclear"} /\ lpc' = [lpc EXCEPT ![s] = l]
          /\ cmd' = [cmd EXCEPT ![s] = NULL]
          /\ UNCHANGED <<sem, calibr_mode, upc, udg, mpc, cur_scale, late>>
    BY <1>11 DEF ClearCmd, Goto
  <2>2. SlotType' /\ TargetInv' /\ CalibratedIsCurrent' /\ CmdHeld'
    BY <2>1 DEF CInv, SlotType, LoopPCs, TargetInv, CalibratedIsCurrent, CmdHeld
  <2>3. CreditInv'
    <3> SUFFICES ASSUME NEW t \in Scales
                 PROVE  (sem[t] + Unposted(t) <= late[t] + Waiters(t))'
      BY DEF CreditInv
    <3>1. Waiters(t)' = Waiters(t)
      BY <2>1 DEF Waiters
    <3>2. Unposted(t)' = Unposted(t)
      BY <2>1 DEF CInv, SlotType, Unposted, One
    <3>3. QED
      BY <2>1, <3>1, <3>2 DEF CInv, CreditInv
  <2>4. QED
    BY <2>2, <2>3 DEF CInv
<1>12. ASSUME NEW c \in Chans, MsgSwitch(c) PROVE CInv'
  <2>1. /\ mpc = "idle" /\ mpc' \in {"idle", "hand"} /\ (mpc' # "idle" => cur_scale' \in Scales)
        /\ cur_scale' \in Scales \cup {NULL}
        /\ calibr_mode' = [s \in Scales |-> calibr_mode[s] /\ s # cur_scale]
        /\ UNCHANGED <<cmd, sem, lpc, upc, udg, late>>
    BY <1>12 DEF MsgSwitch
  <2>2. CalibratedIsCurrent' /\ calibr_mode' \in [Scales -> BOOLEAN]
    BY <2>1 DEF CInv, SlotType, CalibratedIsCurrent
  <2>3. QED
    BY <2>1, <2>2 DEF CInv, SlotType, TargetInv, CmdHeld, CreditInv, Unposted, Waiters
<1>13. CASE Calibrate
  <2>1. /\ mpc = "check" /\ mpc' = "send"
        /\ calibr_mode' = [calibr_mode EXCEPT ![cur_scale] = TRUE]
        /\ UNCHANGED <<cmd, sem, lpc, upc, udg, cur_scale, late>>
    BY <1>13 DEF Calibrate
  <2>2. CalibratedIsCurrent' /\ calibr_mode' \in [Scales -> BOOLEAN]
    BY <2>1 DEF CInv, SlotType, CalibratedIsCurrent
  <2>3. QED
    BY <2>1, <2>2 DEF CInv, SlotType, TargetInv, CmdHeld, CreditInv, Unposted, Waiters
<1>14. ASSUME \/ \E c \in Chans : MsgSame(c)
              \/ Handshake \/ NotIdentified \/ Send \/ Respond \/ NoResponse
       PROVE  CInv'
  <2>1. /\ UNCHANGED <<slot, lpc, upc, udg, cur_scale, late>>
        /\ mpc # "wait" /\ mpc' \in {"idle", "publish", "send", "read"}
        /\ mpc' # "idle" => cur_scale \in Scales
    BY <1>14
    DEF MsgSame, Handshake, NotIdentified, Send, Respond, NoResponse, CInv, TargetInv
  <2>2. QED
    BY <2>1
    DEF CInv, SlotType, TargetInv, CmdHeld, CreditInv, CalibratedIsCurrent, Unposted,
        Waiters
<1>15. CASE UNCHANGED vars
  BY <1>15, CreditUnchanged DEF vars
<1>16. QED
  BY <1>1, <1>2, <1>3, <1>4, <1>5, <1>6, <1>7, <1>8, <1>9, <1>10, <1>11,
      <1>12, <1>13,
     <1>14, <1>15, <1>catch
  DEF Next, Loop, RunCommand, OnMessage

\* CInv is an invariant of the command path.
LEMMA CreditInvariance == Spec => []CInv
<1>1. Init => CInv
  BY CreditStart
<1>2. CInv /\ [Next]_vars => CInv'
  BY CreditStep
<1>3. QED
  BY <1>1, <1>2, PTL DEF Spec

\* ldu_loop never follows a NULL s->cmd: the pointer it has tested may be
\* replaced by runcommand and on_message, but only it writes NULL.
THEOREM PointerHeld == Spec => []CmdHeld
  BY CreditInvariance, PTL DEF CInv

\* On no semaphore do the credits exceed the waits that timed out and those
\* going on: sem_post before s->cmd=NULL, and a command overwritten or lost in
\* between, never make one more.
THEOREM CreditsBounded == Spec => []CreditsAccounted
<1>1. CInv => CreditsAccounted
  <2> SUFFICES ASSUME CInv, NEW s \in Scales PROVE sem[s] <= late[s] + Waiters(s)
    BY DEF CreditsAccounted
  <2>1. sem[s] \in Nat /\ late[s] \in Nat /\ Waiters(s) \in Nat /\ Unposted(s) \in Nat
    BY DEF CInv, SlotType, Waiters, Unposted, One
  <2>2. sem[s] + Unposted(s) <= late[s] + Waiters(s)
    BY DEF CInv, CreditInv
  <2>3. QED
    BY <2>1, <2>2
<1>2. QED
  BY <1>1, CreditInvariance, PTL

\* on_message leaves no scale asleep but the selected one.
THEOREM OneCalibrated == Spec => []CalibratedIsCurrent
  BY CreditInvariance, PTL DEF CInv
-----------------------------------------------------------------------------
(* Types.  Beside CInv they need to know that catch_cmd_reply is left when   *)
(* its room is used up, that a packet is copied only while there is one, and *)
(* that runcommand never publishes an empty command.                         *)

PortType ==
  /\ lb \in [Scales -> SeqTo(Packets, LineCap)]
  /\ line \in [Scales -> SeqTo(Packets, LineCap)]
  /\ due \in [Scales -> Seq(Reqs \cup {0, -1})]

RoomInv ==
  /\ room \in [Scales -> 0 .. Room]
  /\ \A s \in Scales : lpc[s] = "catch" => room[s] > 0

ObufInv == obuf \in SeqTo(Packets, LineCap)

CopyInv == \A s \in Scales : lpc[s] = "copy" => lb[s] # <<>>

UdpType ==
  /\ ureq \in 0 .. MaxReq
  /\ udg \in Datagrams \cup {NoDatagram}
  /\ ucode \in Cmds \cup {"max"}
  /\ ubuf \in [code : Cmds \cup {"max"}, req : 0 .. MaxReq]
  /\ asked \in [Reqs -> Datagrams \cup {NoDatagram}]
  /\ wrote \in [Reqs -> SUBSET Scales]
  /\ ran \in [Reqs -> SUBSET (Scales \X {"OK", "ERR"})]

CodeInv ==
  /\ spoiled \subseteq Cmds
  /\ upc = "publish" => ubuf.code \in Cmds
  /\ \A s \in Scales : cmd[s] = "udp" => ubuf.code \in Cmds

MqttType ==
  /\ urc \in {-1, 0, 1}
  /\ mrc \in {-2, -1, 0, 1}
  /\ mcnt \in 0 .. MaxMsg

SwitchType == switch_mode \in BOOLEAN

TInv ==
  /\ PortType /\ RoomInv /\ ObufInv /\ CopyInv
  /\ UdpType /\ CodeInv /\ MqttType /\ SwitchType

\* Short sequences are the sequences with that bound on their length.
LEMMA ShortSeqs ==
  ASSUME NEW S, NEW n \in Nat
  PROVE  SeqTo(S, n) = {q \in Seq(S) : Len(q) <= n}
<1>1. ASSUME NEW q \in SeqTo(S, n) PROVE q \in Seq(S) /\ Len(q) <= n
  <2>1. PICK i \in 0 .. n : q \in [1 .. i -> S]
    BY DEF SeqTo
  <2>2. QED
    BY <2>1
<1>2. ASSUME NEW q \in Seq(S), Len(q) <= n PROVE q \in SeqTo(S, n)
  <2>1. Len(q) \in 0 .. n /\ q \in [1 .. Len(q) -> S]
    BY <1>2
  <2>2. QED
    BY <2>1 DEF SeqTo
<1>3. QED
  BY <1>1, <1>2

\* What the buffers and ports are filled with is short enough.
LEMMA ShortOps ==
  ASSUME NEW S, NEW n \in Nat
  PROVE  /\ <<>> \in SeqTo(S, n)
         /\ \A q \in SeqTo(S, n) : q # <<>> => Tail(q) \in SeqTo(S, n) /\ Head(q) \in S
         /\ \A q \in SeqTo(S, n), e \in S : Len(q) < n => Append(q, e) \in SeqTo(S, n)
         /\ n > 0 => \A e \in S : <<e>> \in SeqTo(S, n)
         /\ \A q \in SeqTo(S, n), e \in S : q # <<>> => [q EXCEPT ![1] = e] \in SeqTo(S, n)
<1>1. SeqTo(S, n) = {q \in Seq(S) : Len(q) <= n}
  BY ShortSeqs
<1>2. <<>> \in SeqTo(S, n)
  BY <1>1
<1>3. ASSUME NEW q \in SeqTo(S, n), q # <<>>
      PROVE  Tail(q) \in SeqTo(S, n) /\ Head(q) \in S
  BY <1>1, <1>3
<1>4. ASSUME NEW q \in SeqTo(S, n), NEW e \in S, Len(q) < n
      PROVE  Append(q, e) \in SeqTo(S, n)
  BY <1>1, <1>4
<1>5. ASSUME n > 0, NEW e \in S PROVE <<e>> \in SeqTo(S, n)
  <2>1. <<e>> \in Seq(S) /\ Len(<<e>>) = 1
    OBVIOUS
  <2>2. QED
    BY <1>1, <1>5, <2>1
<1>6. ASSUME NEW q \in SeqTo(S, n), NEW e \in S, q # <<>>
      PROVE  [q EXCEPT ![1] = e] \in SeqTo(S, n)
  <2>1. PICK i \in 0 .. n : q \in [1 .. i -> S]
    BY DEF SeqTo
  <2>2. [q EXCEPT ![1] = e] \in [1 .. i -> S]
    BY <2>1
  <2>3. QED
    BY <2>2 DEF SeqTo
<1>7. QED
  BY <1>2, <1>3, <1>4, <1>5, <1>6

\* The static initialisers have the types.
LEMMA TypeStart == Init => TInv
<1> SUFFICES ASSUME Init PROVE TInv
  OBVIOUS
<1>1. <<>> \in SeqTo(Packets, LineCap)
  BY CommandsAssumption, ShortOps
<1>2. PortType /\ ObufInv /\ CopyInv
  BY <1>1 DEF Init, PortType, ObufInv, CopyInv
<1>3. RoomInv
  BY CommandsAssumption DEF Init, RoomInv
<1>4. UdpType
  BY CommandsAssumption DEF Init, UdpType, NoDatagram
<1>5. CodeInv
  BY NamesDiffer DEF Init, CodeInv
<1>6. MqttType
  BY CommandsAssumption DEF Init, MqttType
<1>7. SwitchType
  BY DEF Init, SwitchType
<1>8. QED
  BY <1>2, <1>3, <1>4, <1>5, <1>6, <1>7 DEF TInv

\* Every step keeps the types.
LEMMA TypeStep == CInv /\ TInv /\ [Next]_vars => TInv'
<1> SUFFICES ASSUME CInv, TInv, [Next]_vars PROVE TInv'
  OBVIOUS
<1> USE DEF slot, udpv, mqttv, loopv, port, hist
<1> DEFINE Short == SeqTo(Packets, LineCap)
<1>seq. /\ <<>> \in Short
        /\ \A q \in Short : q # <<>> => Tail(q) \in Short /\ Head(q) \in Packets
        /\ \A q \in Short, e \in Packets : Len(q) < LineCap => Append(q, e) \in Short
        /\ \A e \in Packets : <<e>> \in Short
        /\ \A q \in Short : q # <<>> => [q EXCEPT ![1] = "text"] \in Short
  BY CommandsAssumption, ShortOps DEF Packets
<1>owe. ASSUME NEW s \in Scales, NEW answers \in Seq(Reqs \cup {0, -1}), Owe(s, answers)
        PROVE  due' \in [Scales -> Seq(Reqs \cup {0, -1})]
  <2>1. due[s] \o answers \in Seq(Reqs \cup {0, -1})
    BY DEF TInv, PortType
  <2>2. QED
    BY <1>owe, <2>1 DEF TInv, PortType, Owe
<1>1. ASSUME NEW s \in Scales, Weight(s) PROVE TInv'
  BY <1>1, <1>seq
  DEF TInv, PortType, RoomInv, ObufInv, CopyInv, UdpType, CodeInv, MqttType, SwitchType,
      Arrive, Packets, Weight
<1>2. ASSUME NEW s \in Scales, Execute(s) \/ Ignore(s) PROVE TInv'
  <2>1. Tail(due[s]) \in Seq(Reqs \cup {0, -1}) /\ due' = [due EXCEPT ![s] = Tail(@)]
    BY <1>2 DEF TInv, PortType, Execute, Ignore
  <2>2. line' \in [Scales -> Short]
    <3>1. CASE Ignore(s)
      BY <3>1 DEF TInv, PortType, Ignore
    <3>2. CASE Execute(s)
      <4>1. PICK packet \in Packets : Arrive(s, packet)
        BY <3>2 DEF Execute, Packets
      <4>2. QED
        BY <4>1, <1>seq DEF TInv, PortType, Arrive
    <3>3. QED
      BY <1>2, <3>1, <3>2
  <2>3. ran' \in [Reqs -> SUBSET (Scales \X {"OK", "ERR"})]
    <3>1. \/ UNCHANGED ran
          \/ \E r \in Reqs, res \in {"OK", "ERR"} :
               ran' = [ran EXCEPT ![r] = @ \cup {<<s, res>>}]
      BY <1>2 DEF Execute, Ignore
    <3>2. QED
      BY <3>1 DEF TInv, UdpType
  <2>4. PortType'
    BY <1>2, <2>1, <2>2 DEF TInv, PortType, Execute, Ignore
  <2>5. UdpType'
    BY <1>2, <2>3 DEF TInv, UdpType, Execute, Ignore
  <2>6. QED
    BY <1>2, <2>4, <2>5
    DEF TInv, RoomInv, ObufInv, CopyInv, CodeInv, MqttType, SwitchType, Execute, Ignore
<1>3. ASSUME NEW s \in Scales,
             \/ TakeCmd(s) \/ WriteCmdFail(s) \/ Post(s) \/ ClearCmd(s) \/ Select(s)
             \/ SelectTimeout(s) \/ PacketsDone(s) \/ Want(s)
      PROVE  TInv'
  <2>1. PICK l \in LoopPCs \ {"catch"} : Goto(s, l) /\ (l = "copy" => lb[s] # <<>>)
    BY <1>3
    DEF TakeCmd, WriteCmdFail, Post, ClearCmd, Select, SelectTimeout, PacketsDone, Want,
        Wanted, LoopPCs
  <2>2. /\ \A t \in Scales : cmd'[t] = "udp" => cmd[t] = "udp"
        /\ UNCHANGED <<udpv, spoiled, mqttv, lb, room, port, asked, wrote, ran>>
    BY <1>3, NamesDiffer
    DEF TakeCmd, WriteCmdFail, Post, ClearCmd, Select, SelectTimeout, PacketsDone, Want,
        CInv, SlotType
  <2>3. QED
    BY <2>1, <2>2
    DEF TInv, PortType, RoomInv, ObufInv, CopyInv, UdpType, CodeInv, MqttType, SwitchType,
        CInv, SlotType, Goto
<1>4. ASSUME NEW s \in Scales, WriteCmd(s) PROVE TInv'
  <2>1. /\ lpc' = [lpc EXCEPT ![s] = "catch"] /\ room' = [room EXCEPT ![s] = Room]
        /\ UNCHANGED <<slot, udpv, spoiled, mqttv, lb, line, asked, ran>>
    BY <1>4 DEF WriteCmd, Goto
  <2>2. PortType'
    <3>1. CASE UNCHANGED due
      BY <2>1, <3>1 DEF TInv, PortType
    <3>2. CASE Owe(s, <<ubuf.req>>)
      <4>1. <<ubuf.req>> \in Seq(Reqs \cup {0, -1})
        BY CommandsAssumption DEF TInv, UdpType, Reqs
      <4>2. QED
        BY <2>1, <3>2, <4>1, <1>owe DEF TInv, PortType
    <3>3. QED
      BY <1>4, <3>1, <3>2 DEF WriteCmd
  <2>3. UdpType'
    <3>1. \/ UNCHANGED wrote
          \/ wrote' = [wrote EXCEPT ![ubuf.req] = @ \cup {s}]
      BY <1>4 DEF WriteCmd
    <3>2. QED
      BY <2>1, <3>1 DEF TInv, UdpType
  <2>4. RoomInv'
    BY <2>1, CommandsAssumption DEF TInv, RoomInv, CInv, SlotType
  <2>5. QED
    BY <2>1, <2>2, <2>3, <2>4
    DEF TInv, ObufInv, CopyInv, CodeInv, MqttType, SwitchType, CInv, SlotType
<1>5. ASSUME NEW s \in Scales,

                         CatchReply(s) \/ CatchSilent(s) \/ Get2Reply(s) \/ Get2Silent(s) \/ CopyDone(s)
      PROVE  TInv'
  <2>1. /\ line' \in {line, [line EXCEPT ![s] = <<>>]}
        /\ \E l \in {"get2", "post", "mpost"} : lpc' = [lpc EXCEPT ![s] = l]
        /\ urc' \in {urc, -1, 0, 1} /\ mrc' \in {mrc, -1, 0, 1}
        /\ UNCHANGED <<slot, upc, ureq, udg, ucode, ubuf, spoiled, mpc, mcnt,
                       cur_scale, switch_mode, obuf, lb, room, due, hist>>
    BY <1>5
    DEF CatchReply, CatchSilent, Get2Reply, Get2Silent, CopyDone, GiveUpCatch, SetRc,
        Result, Goto
  <2>2. PortType' /\ MqttType'
    BY <2>1, <1>seq DEF TInv, PortType, MqttType
  <2>3. RoomInv' /\ CopyInv'
    BY <2>1 DEF TInv, RoomInv, CopyInv, CInv, SlotType
  <2>4. QED
    BY <2>1, <2>2, <2>3 DEF TInv, ObufInv, UdpType, CodeInv, SwitchType
<1>cut. ASSUME NEW s \in Scales, Get2Cut(s) PROVE TInv'
  <2>1. /\ line[s] # <<>> /\ line' = [line EXCEPT ![s] = [line[s] EXCEPT ![1] = "text"]]
        /\ lpc' = [lpc EXCEPT ![s] = "post"]
        /\ urc' \in {urc, -1} /\ mrc' \in {mrc, -1}
        /\ UNCHANGED <<slot, upc, ureq, udg, ucode, ubuf, spoiled, mpc, mcnt,
                       cur_scale, switch_mode, obuf, lb, room, due, hist>>
    BY <1>cut DEF Get2Cut, SetRc, Goto
  <2>2. PortType' /\ MqttType'
    <3>1. line \in [Scales -> Short] /\ line[s] \in Short
      BY DEF TInv, PortType
    <3>2. [line[s] EXCEPT ![1] = "text"] \in Short
      BY <2>1, <3>1, <1>seq
    <3>3. line' \in [Scales -> Short]
      BY <2>1, <3>1, <3>2
    <3>4. QED
      BY <2>1, <3>3 DEF TInv, PortType, MqttType
  <2>3. RoomInv' /\ CopyInv'
    BY <2>1 DEF TInv, RoomInv, CopyInv, CInv, SlotType
  <2>4. QED
    BY <2>1, <2>2, <2>3 DEF TInv, ObufInv, UdpType, CodeInv, SwitchType
<1>6. ASSUME NEW s \in Scales, CatchOther(s) PROVE TInv'
  <2>1. /\ lpc[s] = "catch" /\ line' = [line EXCEPT ![s] = <<>>]
        /\ room' = [room EXCEPT ![s] = @ - 1]
        /\ \/ room[s] = 1 /\ \E l \in {"get2", "post"} : lpc' = [lpc EXCEPT ![s] = l]
           \/ room[s] # 1 /\ lpc' = [lpc EXCEPT ![s] = "catch"]
        /\ urc' \in {urc, -1} /\ mrc' \in {mrc, -1}
        /\ UNCHANGED <<slot, upc, ureq, udg, ucode, ubuf, spoiled, mpc, mcnt,
                       cur_scale, switch_mode, obuf, lb, due, hist>>
    BY <1>6 DEF CatchOther, GiveUpCatch, SetRc, Goto
  <2>2. RoomInv'
    BY <2>1, CommandsAssumption DEF TInv, RoomInv, CInv, SlotType
  <2>3. PortType' /\ MqttType'
    BY <2>1, <1>seq DEF TInv, PortType, MqttType
  <2>4. QED
    BY <2>1, <2>2, <2>3
    DEF TInv, ObufInv, CopyInv, UdpType, CodeInv, SwitchType, CInv, SlotType
<1>7. ASSUME NEW s \in Scales, Get2Other(s) \/ ReadPort(s) \/ Packet(s) PROVE TInv'
  <2>1. /\ line' \in {line, [line EXCEPT ![s] = <<>>]}
        /\ \/ UNCHANGED <<lb, lpc>>
           \/ lb' = [lb EXCEPT ![s] = line[s]] /\ lpc' = [lpc EXCEPT ![s] = "parse"]
           \/ lb[s] # <<>> /\ lb' = [lb EXCEPT ![s] = Tail(@)] /\ lpc[s] = "parse" /\ lpc' = lpc
        /\ UNCHANGED <<slot, udpv, spoiled, mqttv, room, due, hist>>
    BY <1>7 DEF Get2Other, ReadPort, Packet, Goto
  <2>2. PortType'
    <3>1. lb \in [Scales -> Short] /\ line \in [Scales -> Short]
      BY DEF TInv, PortType
    <3>2. line' \in [Scales -> Short]
      BY <2>1, <3>1, <1>seq
    <3>3. lb' \in [Scales -> Short]
      <4>1. line[s] \in Short /\ (lb[s] # <<>> => Tail(lb[s]) \in Short)
        BY <3>1, <1>seq
      <4>2. QED
        BY <2>1, <3>1, <4>1
    <3>4. QED
      BY <2>1, <3>2, <3>3 DEF TInv, PortType
  <2>3. RoomInv'
    BY <2>1 DEF TInv, RoomInv, CInv, SlotType
  <2>4. CopyInv'
    <3>1. \A t \in Scales : lpc'[t] = "copy" => lpc[t] = "copy" /\ lb'[t] = lb[t]
      BY <2>1 DEF TInv, PortType, CInv, SlotType
    <3>2. QED
      BY <3>1 DEF TInv, CopyInv
  <2>5. QED
    BY <2>1, <2>2, <2>3, <2>4 DEF TInv, ObufInv, UdpType, CodeInv, MqttType, SwitchType
<1>8. ASSUME NEW s \in Scales, Copy(s) PROVE TInv'
  <2>1. /\ lpc[s] = "copy" /\ lpc' = [lpc EXCEPT ![s] = "rc"]
        /\ lb' = [lb EXCEPT ![s] = Tail(@)]
        /\ UNCHANGED <<slot, udpv, mpc, mcnt, switch_mode, mrc, room, port, asked, wrote, ran>>
    BY <1>8 DEF Copy, Goto
  <2>2. lb[s] \in Short /\ lb[s] # <<>>
    BY <2>1 DEF TInv, PortType, CopyInv
  <2>3. Tail(lb[s]) \in Short /\ <<Head(lb[s])>> \in Short
    BY <2>2, <1>seq
  <2>4. ObufInv'
    BY <1>8, <2>1, <2>3, <1>seq DEF TInv, ObufInv, Copy
  <2>5. CodeInv'
    <3>1. CASE cmd[s] = "mqtt"
      BY <1>8, <2>1, <3>1 DEF TInv, CodeInv, Copy
    <3>2. CASE cmd[s] # "mqtt"
      <4>1. cmd[s] = "udp"
        BY <2>1, <3>2 DEF CInv, SlotType, CmdHeld
      <4>2. QED
        BY <1>8, <2>1, <3>2, <4>1 DEF TInv, CodeInv, Copy
    <3>3. QED
      BY <3>1, <3>2
  <2>6. PortType' /\ CopyInv' /\ RoomInv'
    BY <2>1, <2>3 DEF TInv, PortType, CopyInv, RoomInv, CInv, SlotType
  <2>7. QED
    BY <2>1, <2>4, <2>5, <2>6 DEF TInv, UdpType, MqttType, SwitchType
<1>9. ASSUME NEW d \in Datagrams, Reject(d) \/ Prepare(d) PROVE TInv'
  <2>1. /\ ureq < MaxReq /\ ureq' = ureq + 1 /\ udg' = d
        /\ ucode' \in {ucode, Parsed(d.code)}
        /\ asked' = [asked EXCEPT ![ureq + 1] = d]
        /\ \/ UNCHANGED <<upc, ubuf, urc>>
           \/ /\ upc' = "publish" /\ urc' = -1 /\ Parsed(d.code) # "max"
              /\ ubuf' = [code |-> Parsed(d.code), req |-> ureq + 1]
        /\ UNCHANGED <<slot, spoiled, mqttv, loopv, port, wrote, ran>> /\ upc = "recv"
    BY <1>9 DEF Reject, Prepare, Receive, Transmit
  <2>2. Parsed(d.code) \in Cmds \cup {"max"}
    BY DEF TInv, UdpType, Parsed
  <2>3. ureq + 1 \in Reqs
    BY <2>1, CommandsAssumption DEF TInv, UdpType, Reqs
  <2>4. UdpType'
    BY <2>1, <2>2, <2>3 DEF TInv, UdpType, Reqs
  <2>5. CodeInv'
    BY <2>1, <2>2 DEF TInv, CodeInv
  <2>6. QED
    BY <2>1, <2>4, <2>5 DEF TInv, PortType, RoomInv, ObufInv, CopyInv, MqttType, SwitchType
<1>10. CASE Publish \/ Woken \/ TimedOut \/ Answer
  BY <1>10
  DEF TInv, PortType, RoomInv, ObufInv, CopyInv, UdpType, CodeInv, MqttType, SwitchType,
      CInv, SlotType, Publish, Woken, TimedOut, Answer
<1>11. ASSUME NEW c \in Chans, MsgSame(c) \/ MsgSwitch(c) PROVE TInv'
  <2>1. /\ mcnt < MaxMsg /\ mcnt' = mcnt + 1
        /\ UNCHANGED <<cmd, udpv, spoiled, mrc, obuf, loopv, port, asked, wrote, ran>>
    BY <1>11 DEF MsgSame, MsgSwitch
  <2>2. MqttType'
    BY <2>1, CommandsAssumption DEF TInv, MqttType
  <2>3. SwitchType'
    <3>1. CASE MsgSame(c)
      BY <3>1 DEF SwitchType, MsgSame
    <3>2. CASE MsgSwitch(c)
      <4>1. switch_mode' = TRUE \/ switch_mode' = FALSE
        BY <3>2 DEF MsgSwitch
      <4>2. QED
        BY <4>1 DEF SwitchType
    <3>3. QED
      BY <1>11, <3>1, <3>2
  <2>4. QED
    BY <2>1, <2>2, <2>3 DEF TInv, PortType, RoomInv, ObufInv, CopyInv, UdpType, CodeInv
<1>12. CASE Handshake \/ Send
  <2>1. cur_scale \in Scales
    BY <1>12 DEF CInv, TargetInv, Handshake, Send
  <2>2. due' \in [Scales -> Seq(Reqs \cup {0, -1})]
    <3>1. <<0, -1>> \in Seq(Reqs \cup {0, -1}) /\ <<-1>> \in Seq(Reqs \cup {0, -1})
      OBVIOUS
    <3>2. QED
      BY <1>12, <2>1, <3>1, <1>owe DEF Handshake, Send
  <2>3. ObufInv'
    BY <1>12, <1>seq DEF TInv, ObufInv, Handshake, Send
  <2>4. QED
    BY <1>12, <2>2, <2>3
    DEF TInv, PortType, RoomInv, CopyInv, UdpType, CodeInv, MqttType, SwitchType, Handshake,
        Send
<1>13. CASE \/ PublishMqtt \/ WokenMqtt \/ TimedOutMqtt \/ Calibrate \/ NotIdentified
            \/ NoResponse
  <2>1. /\ \A s \in Scales : cmd'[s] = "udp" => cmd[s] = "udp"
        /\ UNCHANGED <<udpv, spoiled, mcnt, switch_mode, mrc, obuf, loopv, port, asked, wrote,
                       ran>>
    BY <1>13
    DEF PublishMqtt, WokenMqtt, TimedOutMqtt, Calibrate, NotIdentified, NoResponse, CInv,
        SlotType
  <2>2. QED
    BY <2>1
    DEF TInv, PortType, RoomInv, ObufInv, CopyInv, UdpType, CodeInv, MqttType, SwitchType
<1>resp. CASE Respond
  <2>1. line[cur_scale] \in Short
    BY <1>resp DEF TInv, PortType, CInv, TargetInv, Respond
  <2>2. ObufInv'
    BY <1>resp, <2>1, <1>seq DEF ObufInv, Respond
  <2>3. PortType'
    BY <1>resp, <1>seq DEF TInv, PortType, Respond
  <2>4. QED
    BY <1>resp, <2>2, <2>3
    DEF TInv, RoomInv, CopyInv, UdpType, CodeInv, MqttType, SwitchType, Respond
<1>14. ASSUME NEW s \in Scales, Sleep(s) PROVE UNCHANGED vars
  BY <1>14 DEF Sleep
<1>15. CASE UNCHANGED vars
  BY <1>15
  DEF vars, TInv, PortType, RoomInv, ObufInv, CopyInv, UdpType, CodeInv, MqttType,
      SwitchType
<1>16. QED
  BY <1>1, <1>2, <1>3, <1>4, <1>5, <1>6, <1>7, <1>8, <1>9, <1>10, <1>11,
      <1>12, <1>13, <1>14,
     <1>15, <1>resp, <1>cut
  DEF Next, Terminal, Loop, RunCommand, OnMessage

\* CInv and TInv give the types of all variables.
LEMMA TypesFollow == CInv /\ TInv => TypeOK
  BY DEF CInv, SlotType, LoopPCs, TargetInv, TInv, PortType, RoomInv, ObufInv, UdpType,
         CodeInv, MqttType, SwitchType, TypeOK

\* Every variable of the command path keeps its type: catch_cmd_reply leaves
\* before its room is negative, and no packet is copied out of an empty buffer.
THEOREM CommandTypes == Spec => []TypeOK
<1>1. Init => CInv /\ TInv
  BY CreditStart, TypeStart
<1>2. CInv /\ TInv /\ [Next]_vars => CInv' /\ TInv'
  BY CreditStep, TypeStep
<1>3. QED
  BY <1>1, <1>2, TypesFollow, PTL DEF Spec
-----------------------------------------------------------------------------
(* The handshake.  As long as runcommand is idle and, from a handshake that  *)
(* failed on, one scale alone is selected, there is one command at a time:   *)
(* who answers it, what it was answered and what on_message makes of it      *)
(* belong together.                                                          *)

Quiet == ureq = 0 /\ \E s \in Scales : suspects \subseteq {s}

\* The command of on_message is in the slot of s and not yet answered.
Pending(s) == cmd[s] = "mqtt" /\ lpc[s] \in {"top", "select", "parse", "copy", "rc"}

\* What obuf holds, if anything, came from scale s.
From(s) == obuf # <<>> => idby = <<s, Head(obuf)>>

HandLabels ==
  /\ upc = "recv"
  /\ mrc \in {-2, 0}
  /\ \A s \in Scales :
       cmd[s] # "udp" /\ lpc[s] \notin {"write", "catch", "get2", "post", "clear"}

HandSuspects ==
  /\ suspects # {} => cur_scale = NULL \/ suspects = {cur_scale}
  /\ suspects = {} /\ mpc = "publish" => mrc = -2

HandPending ==
  \A s \in Scales :
    /\ suspects = {} /\ Pending(s) => s = cur_scale /\ mpc \in {"wait", "check"} /\ mrc = -2
    /\ suspects # {} /\ Pending(s) => suspects = {s}
    /\ lpc[s] \in {"copy", "rc"} => mrc = -2

HandAnswer ==
  /\ \A s \in Scales : lpc[s] = "rc" => From(s)
  /\ mpc \in {"publish", "wait", "check"} /\ mrc = 0 => From(cur_scale)
  /\ mpc = "send" /\ switch_mode => mrc = 0 /\ idby = <<cur_scale, "D:">>

HandInv == HandLabels /\ HandSuspects /\ HandPending /\ HandAnswer

HInv == Quiet => HandInv

\* Nothing is pending at the start.
LEMMA HandStart == Init => HInv
  BY NamesDiffer
  DEF Init, HInv, HandInv, HandLabels, HandSuspects, HandPending, HandAnswer, Pending, From

\* Nobody leaves the handshake but by failing it, or with the answer of the
\* scale it was for.
LEMMA HandStep == CInv /\ TInv /\ HInv /\ [Next]_vars => HInv'
<1> SUFFICES ASSUME CInv, TInv, HInv, [Next]_vars, Quiet' PROVE HandInv'
  BY DEF HInv
<1> USE DEF slot, udpv, mqttv, loopv, port, hist,
            HandInv, HandLabels, HandSuspects, HandPending, HandAnswer
<1>types. /\ cmd \in [Scales -> {NULL, "udp", "mqtt"}] /\ lpc \in [Scales -> LoopPCs]
          /\ ureq \in Nat /\ cur_scale \in Scales \cup {NULL}
          /\ mpc # "idle" => cur_scale \in Scales /\ cur_scale # NULL
  BY CommandsAssumption DEF CInv, SlotType, TargetInv, TInv, UdpType
<1>held. \A s \in Scales : lpc[s] \in {"copy", "rc", "mpost"} => cmd[s] # NULL
  BY DEF CInv, CmdHeld
<1>1. ASSUME NEW d \in Datagrams, Reject(d) \/ Prepare(d) PROVE FALSE
  <2>1. ureq' = ureq + 1
    BY <1>1 DEF Reject, Prepare, Receive
  <2>2. ureq' = 0
    BY DEF Quiet
  <2>3. QED
    BY <1>types, <2>1, <2>2
<1>grows. (~ \E d \in Datagrams : Reject(d) \/ Prepare(d))
            => ureq' = ureq /\ suspects \subseteq suspects'
  BY DEF Next, Terminal, Loop, RunCommand, OnMessage, Suspect, vars, Weight, Execute,
         Ignore, Sleep, TakeCmd, WriteCmd, WriteCmdFail, CatchReply, CatchOther,
         CatchSilent, Get2Reply, Get2Other, Get2Cut, Get2Silent, Post, ClearCmd, Select,
         SelectTimeout, ReadPort, Packet, PacketsDone, Want, Copy, CopyDone, Publish, Woken,
         TimedOut, Answer, MsgSame, MsgSwitch, Handshake, PublishMqtt, WokenMqtt,
         TimedOutMqtt, Calibrate, NotIdentified, Send, Respond, NoResponse
<1>now. HandInv
  <2>1. PICK s \in Scales : suspects' \subseteq {s}
    BY DEF Quiet
  <2>2. ureq = 0 /\ suspects \subseteq {s}
    BY <1>1, <1>grows, <2>1 DEF Quiet
  <2> QED BY <2>2 DEF HInv, Quiet
<1>2. CASE NotIdentified
  <2>1. /\ mpc = "check" /\ mpc' = "idle" /\ suspects' = suspects \cup {cur_scale}
        /\ UNCHANGED <<cmd, lpc, upc, mrc, cur_scale, switch_mode, obuf, idby>>
    BY <1>2 DEF NotIdentified
  <2>2. cur_scale \in Scales /\ suspects' = {cur_scale}
    BY <1>now, <1>types, <2>1
  <2>3. \A s \in Scales : Pending(s) => s = cur_scale
    BY <1>now, <1>types, <2>1, <2>2
  <2>4. HandPending'
    BY <1>now, <2>1, <2>2, <2>3 DEF Pending
  <2>5. HandLabels' /\ HandSuspects' /\ HandAnswer'
    BY <1>now, <2>1, <2>2 DEF From
  <2>6. QED
    BY <2>4, <2>5
<1>3. CASE Publish \/ Woken \/ TimedOut \/ Answer
  BY <1>3, <1>now DEF Publish, Woken, TimedOut, Answer
<1>4. ASSUME NEW s \in Scales, Terminal(s) \/ Sleep(s) \/ Get2Other(s) \/ Packet(s)
      PROVE  HandInv'
  <2>1. UNCHANGED <<cmd, lpc, upc, mrc, mpc, cur_scale, switch_mode, obuf, idby, suspects>>
    BY <1>4 DEF Terminal, Weight, Execute, Ignore, Sleep, Get2Other, Packet, vars
  <2>2. QED
    BY <1>now, <2>1 DEF Pending, From
<1>5. ASSUME NEW s \in Scales,
             \/ TakeCmd(s) \/ WriteCmd(s) \/ WriteCmdFail(s) \/ CatchReply(s) \/ CatchOther(s)
             \/ CatchSilent(s) \/ Get2Reply(s) \/ Get2Cut(s) \/ Get2Silent(s)
      PROVE  FALSE
  <2>1. lpc[s] \in {"write", "catch", "get2"} \/ (cmd[s] # NULL /\ Rc(s) = -1)
    BY <1>5
    DEF TakeCmd, WriteCmd, WriteCmdFail, CatchReply, CatchOther, CatchSilent, Get2Reply,
        Get2Cut, Get2Silent
  <2>2. QED
    BY <1>now, <2>1 DEF Rc
<1>6. ASSUME NEW s \in Scales, Select(s) \/ SelectTimeout(s) \/ ReadPort(s) \/ PacketsDone(s)
                               \/ Want(s)
      PROVE  HandInv'
  <2>1. /\ lpc[s] \in {"top", "select", "parse"}
        /\ \E l \in {"top", "select", "parse", "copy"} : lpc' = [lpc EXCEPT ![s] = l]
        /\ UNCHANGED <<cmd, upc, mrc, mpc, cur_scale, switch_mode, obuf, idby, suspects>>
    BY <1>6 DEF Select, SelectTimeout, ReadPort, PacketsDone, Want, Goto
  <2>2. lpc'[s] = "copy" => mrc = -2
    BY <1>6, <1>now, <1>types
    DEF Select, SelectTimeout, ReadPort, PacketsDone, Want, Wanted, Goto, Rc
  <2>3. /\ \A t \in Scales : Pending(t)' <=> Pending(t)
        /\ \A t \in Scales : lpc'[t] \in {"copy", "rc"} => t = s \/ lpc[t] = lpc'[t]
    BY <1>types, <2>1 DEF Pending
  <2>4. HandLabels' /\ HandSuspects'
    BY <1>now, <1>types, <2>1
  <2>5. HandPending'
    BY <1>now, <2>1, <2>2, <2>3
  <2>6. HandAnswer'
    BY <1>now, <1>types, <2>1 DEF From
  <2>7. QED
    BY <2>4, <2>5, <2>6
<1>7. ASSUME NEW s \in Scales, Copy(s) PROVE HandInv'
  <2>1. cmd[s] = "mqtt" /\ Pending(s)
    BY <1>7, <1>now, <1>types, <1>held DEF Pending, Copy
  <2>2. /\ obuf' = <<Head(lb[s])>> /\ idby' = <<s, Head(lb[s])>>
        /\ lpc' = [lpc EXCEPT ![s] = "rc"] /\ lpc[s] = "copy"
        /\ UNCHANGED <<cmd, upc, mrc, mpc, cur_scale, switch_mode, suspects>>
    BY <1>7, <2>1 DEF Copy, Goto
  <2>3. From(s)'
    BY <2>2 DEF From
  <2>4. mrc = -2
    BY <1>7, <1>now DEF Copy
  <2>5. \A t \in Scales : lpc[t] = "rc" => t = s
    <3>1. \A t \in Scales : lpc[t] = "rc" => Pending(t)
      BY <1>now, <1>types, <1>held DEF Pending
    <3>2. QED
      BY <1>now, <2>1, <3>1
  <2>7. ~(mpc = "send" /\ switch_mode)
    BY <1>now, <2>4
  <2>6. QED
    BY <1>now, <1>types, <2>1, <2>2, <2>3, <2>4, <2>5, <2>7 DEF Pending
<1>8. ASSUME NEW s \in Scales, CopyDone(s) PROVE HandInv'
  <2>1. cmd[s] = "mqtt" /\ Pending(s)
    BY <1>8, <1>now, <1>types, <1>held DEF Pending, CopyDone
  <2>3. /\ mrc' = 0 /\ lpc' = [lpc EXCEPT ![s] = "mpost"]
        /\ UNCHANGED <<cmd, upc, mpc, cur_scale, switch_mode, obuf, idby, suspects>>
    BY <1>8, <2>1 DEF CopyDone, SetRc, Goto
  <2>4. \A t \in Scales : Pending(t) => t = s
    BY <1>now, <2>1
  <2>5. /\ \A t \in Scales : ~Pending(t)'
        /\ \A t \in Scales : lpc'[t] \notin {"copy", "rc"}
    <3>1. \A t \in Scales : lpc[t] \in {"copy", "rc"} => Pending(t)
      BY <1>now, <1>types, <1>held DEF Pending
    <3>2. \A t \in Scales \ {s} : ~Pending(t) /\ lpc'[t] = lpc[t]
      BY <1>types, <2>3, <2>4
    <3>3. QED
      BY <1>types, <2>3, <3>1, <3>2 DEF Pending
  <2>6. /\ From(s) /\ mrc = -2
        /\ mpc # "idle" => s = cur_scale
        /\ suspects = {} => mpc \in {"wait", "check"}
    BY <1>8, <1>now, <1>types, <2>1 DEF CopyDone
  <2>7. HandLabels'
    BY <1>now, <1>types, <2>3
  <2>8. HandSuspects' /\ HandPending' /\ HandAnswer'
    BY <1>now, <2>3, <2>5, <2>6 DEF From
  <2>9. QED
    BY <2>7, <2>8
<1>9. ASSUME NEW s \in Scales, Post(s) \/ ClearCmd(s) PROVE HandInv'
  <2>1. lpc[s] \in {"mpost", "mclear"}
    BY <1>9, <1>now DEF Post, ClearCmd
  <2>2. /\ \/ lpc' = [lpc EXCEPT ![s] = "mclear"] /\ UNCHANGED cmd
           \/ lpc' = [lpc EXCEPT ![s] = "parse"] /\ cmd' = [cmd EXCEPT ![s] = NULL]
        /\ UNCHANGED <<upc, mrc, mpc, cur_scale, switch_mode, obuf, idby, suspects>>
    BY <1>9, <2>1 DEF Post, ClearCmd, Goto
  <2>3. QED
    BY <1>now, <1>types, <2>1, <2>2, NamesDiffer DEF Pending, From
<1>10. ASSUME NEW c \in Chans, MsgSame(c) \/ MsgSwitch(c) PROVE HandInv'
  <2>1. /\ mpc = "idle" /\ mpc' \in {"idle", "hand", "send"} /\ (mpc' = "send" => ~switch_mode')
        /\ cur_scale' \in {cur_scale, NULL} \cup ({c} \cap Scales)
        /\ UNCHANGED <<cmd, lpc, upc, mrc, obuf, idby>>
    BY <1>10 DEF MsgSame, MsgSwitch
  <2>2. suspects # {} => suspects' = suspects /\ (cur_scale' = NULL \/ suspects = {cur_scale'})
    <3>1. CASE MsgSame(c)
      BY <1>now, <3>1 DEF MsgSame
    <3>2. CASE MsgSwitch(c)
      <4>1. /\ cur_scale' = IF c \in Scales THEN c ELSE NULL
            /\ suspects # {} => suspects' = suspects \cup ({c} \cap Scales)
        BY <3>2 DEF MsgSwitch, Suspect
      <4>2. PICK s \in Scales : suspects' \subseteq {s}
        BY DEF Quiet
      <4>3. QED
        BY <4>1, <4>2
    <3>3. QED
      BY <1>10, <3>1, <3>2
  <2>3. suspects = {} => suspects' = {}
    BY <1>10 DEF MsgSame, MsgSwitch, Suspect
  <2>4. QED
    BY <1>now, <1>types, <2>1, <2>2, <2>3 DEF Pending, From
<1>11. CASE Handshake
  <2>1. /\ mpc = "hand" /\ mpc' = "publish" /\ mrc' = -2
        /\ UNCHANGED <<cmd, lpc, upc, cur_scale, switch_mode, obuf, idby, suspects>>
    BY <1>11 DEF Handshake
  <2>2. QED
    BY <1>now, <2>1 DEF Pending, From
<1>12. CASE PublishMqtt
  <2>1. /\ mpc = "publish" /\ mpc' = "wait" /\ cur_scale \in Scales
        /\ cmd' = [cmd EXCEPT ![cur_scale] = "mqtt"]
        /\ UNCHANGED <<lpc, upc, mrc, cur_scale, switch_mode, obuf, idby, suspects>>
    BY <1>12, <1>types DEF PublishMqtt
  <2>2. suspects # {} => suspects = {cur_scale}
    BY <1>now, <1>types, <2>1
  <2>3. \A s \in Scales : Pending(s)' => s = cur_scale \/ Pending(s)
    BY <1>types, <2>1 DEF Pending
  <2>4. suspects = {} => mrc = -2 /\ \A s \in Scales : ~Pending(s)
    BY <1>now, <2>1
  <2>5. HandPending'
    BY <1>now, <2>1, <2>2, <2>3, <2>4
  <2>6. HandLabels' /\ HandSuspects' /\ HandAnswer'
    BY <1>now, <1>types, <2>1, <2>2 DEF From
  <2>7. QED
    BY <2>5, <2>6
<1>13. CASE WokenMqtt \/ TimedOutMqtt
  <2>1. /\ mpc = "wait" /\ mpc' = "check"
        /\ UNCHANGED <<cmd, lpc, upc, mrc, cur_scale, switch_mode, obuf, idby, suspects>>
    BY <1>13 DEF WokenMqtt, TimedOutMqtt
  <2>2. QED
    BY <1>now, <2>1 DEF Pending, From
<1>14. CASE Calibrate
  <2>1. /\ mpc = "check" /\ mpc' = "send" /\ mrc = 0 /\ obuf # <<>> /\ Head(obuf) = "D:"
        /\ UNCHANGED <<cmd, lpc, upc, mrc, cur_scale, switch_mode, obuf, idby, suspects>>
    BY <1>14 DEF Calibrate, Identified
  <2>2. idby = <<cur_scale, "D:">>
    BY <1>now, <2>1 DEF From
  <2>3. suspects = {} => \A s \in Scales : ~Pending(s)
    BY <1>now, <2>1
  <2>4. QED
    BY <1>now, <2>1, <2>2, <2>3 DEF Pending, From
<1>15. CASE Send \/ Respond \/ NoResponse
  <2>1. /\ mpc \in {"send", "read"} /\ mpc' \in {"read", "idle"}
        /\ UNCHANGED <<cmd, lpc, upc, mrc, cur_scale, switch_mode, suspects>>
    BY <1>15 DEF Send, Respond, NoResponse
  <2>2. From(cur_scale)' \/ UNCHANGED <<obuf, idby>>
    BY <1>15 DEF Send, Respond, NoResponse, From
  <2>3. suspects = {} => \A s \in Scales : ~Pending(s) /\ lpc[s] # "rc"
    BY <1>now, <1>types, <1>held, <2>1 DEF Pending
  <2>4. suspects # {} => \A s \in Scales : lpc[s] = "rc" => s = cur_scale
    <3>1. \A s \in Scales : lpc[s] = "rc" => Pending(s)
      BY <1>now, <1>types, <1>held DEF Pending
    <3>2. suspects # {} => suspects = {cur_scale}
      BY <1>now, <1>types, <2>1
    <3>3. \A s \in Scales : suspects # {} /\ Pending(s) => suspects = {s}
      BY <1>now
    <3>4. QED
      BY <3>1, <3>2, <3>3
  <2>5. \A s \in Scales : lpc'[s] = "rc" => From(s)'
    BY <1>now, <2>1, <2>2, <2>3, <2>4 DEF From
  <2>6. QED
    BY <1>now, <2>1, <2>3, <2>5 DEF Pending
<1>16. CASE UNCHANGED vars
  BY <1>16, <1>now DEF vars, Pending, From
<1>17. QED
  BY <1>1, <1>2, <1>3, <1>4, <1>5, <1>6, <1>7, <1>8, <1>9, <1>10, <1>11,
      <1>12, <1>13, <1>14,
     <1>15, <1>16
  DEF Next, Loop, RunCommand, OnMessage

\* Transparent mode is entered only after a "D:" of the scale it is entered
\* for, however late its loop answers, unless another scale was selected after
\* a handshake had failed.
THEOREM HandshakesSound == Spec => []HandshakeSound
<1>1. Init => CInv /\ TInv /\ HInv
  BY CreditStart, TypeStart, HandStart
<1>2. CInv /\ TInv /\ HInv /\ [Next]_vars => CInv' /\ TInv' /\ HInv'
  BY CreditStep, TypeStep, HandStep
<1>3. CInv /\ TInv /\ HInv => HandshakeSound
  <2>1. CInv /\ mpc = "send" => cur_scale \in Scales
    BY DEF CInv, TargetInv
  <2>2. QED
    BY <2>1
    DEF HInv, Quiet, HandInv, HandLabels, HandSuspects, HandPending, HandAnswer,
        HandshakeSound
<1>4. QED
  BY <1>1, <1>2, <1>3, PTL DEF Spec
-----------------------------------------------------------------------------
(* The answers.  As long as nobody calibrates and every command so far was   *)
(* answered by its terminal, one command is on its way at a time: what the   *)
(* terminals owe, what waits in the ports and the result in cur_cmd belong   *)
(* to it.                                                                    *)

\* The last request that became a command, and its scale.
Live == ubuf.req
Id == asked[Live].id

Codes == {"", "00", "01", "02", "03"} \X {"", "00", "01", "02"}
HistType == reply \in [Reqs -> Codes]

\* What is known of a request before it is answered.
FreshInv ==
  /\ Live <= ureq
  /\ upc # "recv" => Live = ureq /\ ureq \in Reqs /\ asked[ureq] = udg
  /\ \A q \in Reqs :
       /\ q > ureq \/ (q = ureq /\ upc # "recv") => reply[q] = NoReply
       /\ q > Live => wrote[q] = {}

Holds(s, res) == \E i \in 1 .. Len(line[s]) : line[s][i] = res
Silent(s) == ~Holds(s, "OK") /\ ~Holds(s, "ERR")
Clean == \A s \in Scales : due[s] = <<>> /\ Silent(s)

\* The command is in the slot of s and its result is not known.
Open(s) == cmd[s] = "udp" /\ lpc[s] \notin {"post", "clear"}

NoMqtt ==
  /\ mpc = "idle"
  /\ \A s \in Scales : cmd[s] # "mqtt" /\ lpc[s] \notin {"copy", "rc", "mpost", "mclear"}

OpenInv ==
  \A s \in Scales : Open(s) =>
    /\ Live \in Reqs /\ s = Id /\ urc = -1 /\ upc # "publish"
    /\ lpc[s] \in {"top", "select", "parse", "write"} => Clean

PortInv ==
  \A s \in Scales :
    /\ due[s] # <<>> => due[s] = <<Live>> /\ Live \in Reqs /\ s = Id /\ Silent(s)
    /\ \A res \in {"OK", "ERR"} :
         Holds(s, res) => Live \in Reqs /\ s = Id /\ <<s, res>> \in ran[Live]

ResultInv ==
  /\ upc = "publish" => Clean /\ urc = -1
  /\ urc # -1 => Clean
  /\ Live \in Reqs =>
       /\ wrote[Live] \subseteq {Id}
       /\ urc = 0 => <<Id, "OK">> \in ran[Live]
       /\ urc = 1 => <<Id, "ERR">> \in ran[Live]
       /\ upc = "recv" /\ reply[Live][2] # "01" => urc # -1

CalmInv == NoMqtt /\ OpenInv /\ PortInv /\ ResultInv

RInv == HistType /\ FreshInv /\ (Smooth(Live) => CalmInv) /\ ReplyFaithful

\* A packet that arrives is added to what the port holds.
LEMMA ArriveHolds ==
  ASSUME TInv, NEW s \in Scales, NEW packet \in Packets, Arrive(s, packet),
         NEW t \in Scales, NEW res
  PROVE  Holds(t, res)' <=> Holds(t, res) \/ (t = s /\ packet = res)
<1>1. line \in [Scales -> SeqTo(Packets, LineCap)]
  BY DEF TInv, PortType
<1>2. line[s] \in Seq(Packets)
  BY <1>1, ShortSeqs, CommandsAssumption
<1>3. CASE t # s
  BY <1>1, <1>3 DEF Holds, Arrive
<1>4. CASE t = s
  <2>1. /\ line'[s] = Append(line[s], packet) /\ Len(line'[s]) = Len(line[s]) + 1
        /\ Len(line[s]) \in Nat
    BY <1>1, <1>2 DEF Arrive
  <2>2. /\ \A i \in 1 .. Len(line[s]) : line'[s][i] = line[s][i]
        /\ line'[s][Len(line[s]) + 1] = packet
    BY <1>2, <2>1
  <2>3. \A i : i \in 1 .. Len(line[s]) + 1 <=> i \in 1 .. Len(line[s]) \/ i = Len(line[s]) + 1
    BY <2>1
  <2>4. QED
    BY <1>4, <2>1, <2>2, <2>3 DEF Holds
<1>5. QED
  BY <1>3, <1>4

\* A read takes all that the port of s holds.
LEMMA ReadHolds ==
  ASSUME TInv, NEW s \in Scales, line' = [line EXCEPT ![s] = <<>>], NEW t \in Scales, NEW res
  PROVE  Holds(t, res)' <=> t # s /\ Holds(t, res)
<1>1. line \in [Scales -> SeqTo(Packets, LineCap)]
  BY DEF TInv, PortType
<1>2. QED
  BY <1>1 DEF Holds

\* What a read leaves of a packet it has cut is no answer.
LEMMA CutHolds ==
  ASSUME TInv, NEW s \in Scales, line' = [line EXCEPT ![s] = [line[s] EXCEPT ![1] = "text"]],
         NEW t \in Scales, NEW res \in {"OK", "ERR"}, Holds(t, res)'
  PROVE  Holds(t, res)
<1>1. line \in [Scales -> SeqTo(Packets, LineCap)]
  BY DEF TInv, PortType
<1>2. CASE t # s
  BY <1>1, <1>2 DEF Holds
<1>3. CASE t = s
  <2>1. PICK n \in 0 .. LineCap : line[s] \in [1 .. n -> Packets]
    BY <1>1 DEF SeqTo
  <2>2. n \in Nat /\ line'[s] = [line[s] EXCEPT ![1] = "text"]
    BY <1>1, CommandsAssumption
  <2>3. Len(line[s]) = n /\ Len(line'[s]) = n
    BY <2>1, <2>2
  <2>4. PICK i \in 1 .. n : line'[s][i] = res
    BY <1>3, <2>3 DEF Holds
  <2>5. line[s][i] = res
    BY <2>1, <2>2, <2>4
  <2>6. QED
    BY <1>3, <2>3, <2>5 DEF Holds
<1>4. QED
  BY <1>2, <1>3

\* What a read ends or begins with was in the port.
LEMMA EndsHeld ==
  ASSUME TInv, NEW s \in Scales, line[s] # <<>>
  PROVE  Holds(s, LastPacket(line[s])) /\ Holds(s, Head(line[s]))
<1>1. line[s] \in SeqTo(Packets, LineCap)
  BY DEF TInv, PortType
<1>2. line[s] \in Seq(Packets)
  BY <1>1, ShortSeqs, CommandsAssumption
<1>3. Len(line[s]) \in 1 .. Len(line[s]) /\ 1 \in 1 .. Len(line[s]) /\ Head(line[s]) = line[s][1]
  BY <1>2
<1>4. QED
  BY <1>3 DEF Holds, LastPacket

\* Nothing has been sent at the start.
LEMMA ReplyStart == Init => RInv
<1> SUFFICES ASSUME Init PROVE RInv
  OBVIOUS
<1>1. HistType
  BY DEF Init, HistType, NoReply, Codes
<1>2. FreshInv
  BY DEF Init, FreshInv, Live
<1>3. Clean
  <2>1. \A s \in Scales : line[s] = <<>> /\ Len(line[s]) = 0 /\ due[s] = <<>>
    BY DEF Init
  <2>2. ASSUME NEW s \in Scales, NEW i \in 1 .. Len(line[s]) PROVE FALSE
    BY <2>1
  <2>3. QED
    BY <2>1, <2>2 DEF Clean, Silent, Holds
<1>4. CalmInv
  BY <1>3, NamesDiffer, CommandsAssumption
  DEF Init, CalmInv, NoMqtt, OpenInv, Open, PortInv, ResultInv, Live, Reqs, Clean, Silent
<1>5. ReplyFaithful
  BY DEF Init, ReplyFaithful, NoReply
<1>6. QED
  BY <1>1, <1>2, <1>4, <1>5 DEF RInv

\* Types used below.
LEMMA ReplyTypes ==
  ASSUME CInv, TInv
  PROVE  /\ cmd \in [Scales -> {NULL, "udp", "mqtt"}] /\ lpc \in [Scales -> LoopPCs]
         /\ line \in [Scales -> SeqTo(Packets, LineCap)]
         /\ due \in [Scales -> Seq(Reqs \cup {0, -1})]
         /\ asked \in [Reqs -> Datagrams \cup {NoDatagram}]
         /\ wrote \in [Reqs -> SUBSET Scales]
         /\ ran \in [Reqs -> SUBSET (Scales \X {"OK", "ERR"})]
         /\ MaxReq \in Nat /\ ureq \in 0 .. MaxReq /\ Live \in 0 .. MaxReq /\ mcnt \in Nat
         /\ urc \in {-1, 0, 1}
         /\ \A r \in Reqs : r \in Int /\ 1 <= r /\ r <= MaxReq
         /\ \A r \in Int : 1 <= r /\ r <= MaxReq => r \in Reqs
  BY CommandsAssumption DEF CInv, SlotType, TInv, PortType, UdpType, MqttType, Live, Reqs

\* Requests are numbered in the order they come; each is answered once.
LEMMA FreshStep ==
  ASSUME CInv, TInv, HistType, FreshInv, [Next]_vars
  PROVE  HistType' /\ FreshInv'
<1> USE DEF slot, udpv, mqttv, loopv, port, hist
<1>types. /\ MaxReq \in Nat /\ ureq \in 0 .. MaxReq /\ Live \in 0 .. MaxReq
          /\ asked \in [Reqs -> Datagrams \cup {NoDatagram}] /\ wrote \in [Reqs -> SUBSET Scales]
          /\ \A r \in Reqs : r \in Int /\ 1 <= r /\ r <= MaxReq
          /\ \A r \in Int : 1 <= r /\ r <= MaxReq => r \in Reqs
  BY ReplyTypes
<1>1. ASSUME NEW d \in Datagrams, Reject(d) PROVE HistType' /\ FreshInv'
  <2>1. /\ upc = "recv" /\ ureq < MaxReq /\ ureq' = ureq + 1
        /\ \E code \in {"01", "02", "03"} : reply' = [reply EXCEPT ![ureq + 1] = <<code, "">>]
        /\ UNCHANGED <<upc, ubuf, wrote>>
    BY <1>1 DEF Reject, Receive, Transmit
  <2>2. HistType'
    <3>1. \A code \in {"01", "02", "03"} : <<code, "">> \in Codes
      BY DEF Codes
    <3>2. QED
      BY <2>1, <3>1 DEF HistType
  <2>3. FreshInv'
    <3>1. \A q \in Reqs : q > ureq + 1 => reply'[q] = reply[q]
      <4>1. PICK code \in {"01", "02", "03"} : reply' = [reply EXCEPT ![ureq + 1] = <<code, "">>]
        BY <2>1
      <4>2. \A q \in Reqs : q > ureq + 1 => q # ureq + 1
        BY <1>types
      <4>3. QED
        BY <4>1, <4>2 DEF HistType
    <3>2. Live' = Live /\ upc' = "recv" /\ wrote' = wrote /\ ureq' = ureq + 1
      BY <2>1 DEF Live
    <3>3. \A q \in Reqs : q > ureq + 1 => q > ureq
      BY <1>types
    <3>4. Live' <= ureq'
      BY <1>types, <3>2 DEF FreshInv
    <3>5. QED
      BY <3>1, <3>2, <3>3, <3>4 DEF FreshInv
  <2>4. QED
    BY <2>2, <2>3
<1>2. ASSUME NEW d \in Datagrams, Prepare(d) PROVE HistType' /\ FreshInv'
  <2>1. /\ upc = "recv" /\ ureq < MaxReq /\ ureq' = ureq + 1 /\ udg' = d
        /\ Live' = ureq + 1 /\ upc' = "publish"
        /\ asked' = [asked EXCEPT ![ureq + 1] = d]
        /\ UNCHANGED <<reply, wrote>>
    BY <1>2 DEF Prepare, Receive, Live
  <2>2. ureq + 1 \in Reqs
    BY <1>types, <2>1
  <2>3. QED
    BY <1>types, <2>1, <2>2 DEF HistType, FreshInv
<1>3. CASE Publish \/ Woken \/ TimedOut
  BY <1>3 DEF HistType, FreshInv, Live, Publish, Woken, TimedOut
<1>4. CASE Answer
  <2>1. /\ upc = "answer" /\ upc' = "recv"
        /\ \E code \in {"00", "01", "02"} : reply' = [reply EXCEPT ![ureq] = <<"00", code>>]
        /\ UNCHANGED <<ureq, udg, ubuf, asked, wrote>>
    BY <1>4 DEF Answer
  <2>2. HistType'
    <3>1. \A code \in {"00", "01", "02"} : <<"00", code>> \in Codes
      BY DEF Codes
    <3>2. QED
      BY <2>1, <3>1 DEF HistType
  <2>3. FreshInv'
    BY <1>types, <2>1 DEF HistType, FreshInv, Live
  <2>4. QED
    BY <2>2, <2>3
<1>5. ASSUME NEW s \in Scales, WriteCmd(s) PROVE HistType' /\ FreshInv'
  <2>1. /\ \/ UNCHANGED wrote
           \/ wrote' = [wrote EXCEPT ![Live] = @ \cup {s}]
        /\ UNCHANGED <<upc, ureq, udg, ubuf, asked, reply>>
    BY <1>5 DEF WriteCmd, Live
  <2>2. QED
    BY <1>types, <2>1 DEF HistType, FreshInv, Live
<1>6. CASE UNCHANGED <<upc, ureq, udg, ubuf, asked, wrote, reply>>
  BY <1>6 DEF HistType, FreshInv, Live
<1>7. ASSUME NEW s \in Scales, Terminal(s) \/ (Loop(s) /\ ~WriteCmd(s))
      PROVE  UNCHANGED <<upc, ureq, udg, ubuf, asked, wrote, reply>>
  BY <1>7
  DEF Terminal, Weight, Execute, Ignore, Loop, Sleep, vars, TakeCmd, WriteCmdFail,
      CatchReply, CatchOther, CatchSilent, Get2Reply, Get2Other, Get2Cut, Get2Silent, Post,
      ClearCmd, Select, SelectTimeout, ReadPort, Packet, PacketsDone, Want, Copy, CopyDone
<1>8. CASE OnMessage
  BY <1>8, <1>6
  DEF OnMessage, MsgSame, MsgSwitch, Handshake, PublishMqtt, WokenMqtt, TimedOutMqtt,
      Calibrate, NotIdentified, Send, Respond, NoResponse
<1>9. CASE UNCHANGED vars
  BY <1>9, <1>6 DEF vars
<1>10. QED
  BY <1>1, <1>2, <1>3, <1>4, <1>5, <1>6, <1>7, <1>8, <1>9 DEF Next, RunCommand

\* What has been upset stays upset.
LEMMA SmoothBack ==
  ASSUME CInv, TInv, HistType, FreshInv, [Next]_vars, NEW r \in 0 .. MaxReq, Smooth(r)'
  PROVE  Smooth(r)
<1> USE DEF slot, udpv, mqttv, loopv, port, hist
<1>types. /\ MaxReq \in Nat /\ ureq \in 0 .. MaxReq /\ mcnt \in Nat
          /\ \A q \in Int : 1 <= q /\ q <= MaxReq => q \in Reqs
          /\ \A q \in Reqs : q \in Int /\ 1 <= q /\ q <= MaxReq
  BY ReplyTypes
<1>1. mcnt' = mcnt \/ mcnt' = mcnt + 1
  BY DEF Next, Terminal, Loop, RunCommand, OnMessage, vars, Weight, Execute, Ignore, Sleep,
         TakeCmd, WriteCmd, WriteCmdFail, CatchReply, CatchOther, CatchSilent, Get2Reply,
         Get2Other, Get2Cut, Get2Silent, Post, ClearCmd, Select, SelectTimeout, ReadPort,
         Packet, PacketsDone, Want, Copy, CopyDone, Reject, Prepare, Publish, Woken,
         TimedOut, Answer, MsgSame, MsgSwitch, Handshake, PublishMqtt, WokenMqtt,
         TimedOutMqtt, Calibrate, NotIdentified, Send, Respond, NoResponse
<1>2. \/ reply' = reply
      \/ upc = "recv" /\ ureq < MaxReq /\ \E v : reply' = [reply EXCEPT ![ureq + 1] = v]
      \/ upc # "recv" /\ \E v : reply' = [reply EXCEPT ![ureq] = v]
  BY DEF Next, Terminal, Loop, RunCommand, OnMessage, vars, Weight, Execute, Ignore, Sleep,
         TakeCmd, WriteCmd, WriteCmdFail, CatchReply, CatchOther, CatchSilent, Get2Reply,
         Get2Other, Get2Cut, Get2Silent, Post, ClearCmd, Select, SelectTimeout, ReadPort,
         Packet, PacketsDone, Want, Copy, CopyDone, Reject, Receive, Prepare, Publish,
         Woken, TimedOut, Answer, MsgSame, MsgSwitch, Handshake, PublishMqtt, WokenMqtt,
         TimedOutMqtt, Calibrate, NotIdentified, Send, Respond, NoResponse
<1>3. \A q \in Reqs : reply'[q] = reply[q] \/ reply[q] = NoReply
  BY <1>2, <1>types DEF HistType, FreshInv
<1>4. mcnt = 0
  BY <1>1, <1>types DEF Smooth
<1>5. ASSUME NEW q \in 1 .. r - 1 PROVE reply[q][2] # "01"
  <2>1. q \in Reqs
    BY <1>types
  <2>2. reply'[q][2] # "01"
    BY DEF Smooth
  <2>3. NoReply[2] = ""
    BY DEF NoReply
  <2>4. QED
    BY <1>3, <2>1, <2>2, <2>3
<1>6. QED
  BY <1>4, <1>5 DEF Smooth

\* The terminals and the loops work for the live request only.
LEMMA CalmLoop ==
  ASSUME CInv, TInv, FreshInv, CalmInv, [Next]_vars, NEW s \in Scales, Terminal(s) \/ Loop(s)
  PROVE  CalmInv'
<1> USE DEF slot, udpv, mqttv, loopv, port, hist
<1>types. /\ cmd \in [Scales -> {NULL, "udp", "mqtt"}] /\ lpc \in [Scales -> LoopPCs]
          /\ line \in [Scales -> SeqTo(Packets, LineCap)]
          /\ due \in [Scales -> Seq(Reqs \cup {0, -1})]
          /\ wrote \in [Reqs -> SUBSET Scales]
          /\ ran \in [Reqs -> SUBSET (Scales \X {"OK", "ERR"})]
          /\ urc \in {-1, 0, 1}
  BY ReplyTypes
<1>calm. NoMqtt /\ OpenInv /\ PortInv /\ ResultInv
  BY DEF CalmInv
<1>frame. /\ UNCHANGED <<upc, ureq, ubuf, asked, reply, mpc>>
          /\ Live' = Live /\ Id' = Id
  BY DEF Terminal, Weight, Execute, Ignore, Loop, Sleep, vars, TakeCmd, WriteCmd,
         WriteCmdFail, CatchReply, CatchOther, CatchSilent, Get2Reply, Get2Other, Get2Cut,
         Get2Silent, Post, ClearCmd, Select, SelectTimeout, ReadPort, Packet, PacketsDone,
         Want, Copy, CopyDone, Live, Id
<1>open. ASSUME lpc[s] \in {"write", "catch", "get2"}
         PROVE  /\ Open(s) /\ cmd[s] = "udp"
                /\ Live \in Reqs /\ s = Id /\ urc = -1 /\ upc # "publish"
                /\ \A t \in Scales : t # s => ~Open(t) /\ due[t] = <<>> /\ Silent(t)
  <2>1. cmd[s] = "udp"
    BY <1>open, <1>types, <1>calm DEF CInv, CmdHeld, NoMqtt
  <2>2. Open(s)
    BY <1>open, <2>1 DEF Open
  <2>3. QED
    BY <2>1, <2>2, <1>calm DEF OpenInv, PortInv, Silent
\* A step of the loop between labels, or a read, that leaves the result alone.
<1>move. ASSUME UNCHANGED <<cmd, due, wrote, ran, urc>>,
                \/ line' \in {line, [line EXCEPT ![s] = <<>>]}
                \/ line' = [line EXCEPT ![s] = [line[s] EXCEPT ![1] = "text"]],
                \/ UNCHANGED lpc
                \/ \E l \in {"top", "select", "parse", "write", "catch", "get2", "post", "clear"} :
                     /\ lpc' = [lpc EXCEPT ![s] = l]
                     /\ Open(s)' => Open(s)
                     /\ Open(s)' /\ l \in {"top", "select", "parse", "write"} =>
                          lpc[s] \in {"top", "select", "parse", "write"}
         PROVE  CalmInv'
  <2>1. ASSUME NEW t \in Scales, NEW res \in {"OK", "ERR"}, Holds(t, res)'
        PROVE  Holds(t, res)
    <3>1. CASE UNCHANGED line
      BY <2>1, <3>1 DEF Holds
    <3>2. CASE line' = [line EXCEPT ![s] = <<>>]
      BY <2>1, <3>2, ReadHolds
    <3>3. CASE line' = [line EXCEPT ![s] = [line[s] EXCEPT ![1] = "text"]]
      BY <2>1, <3>3, CutHolds
    <3>4. QED
      BY <1>move, <3>1, <3>2, <3>3
  <2>2. Clean => Clean'
    BY <1>move, <2>1 DEF Clean, Silent
  <2>3. NoMqtt'
    BY <1>move, <1>types, <1>calm, <1>frame DEF NoMqtt
  <2>4. OpenInv'
    BY <1>move, <1>types, <1>calm, <1>frame, <2>2 DEF OpenInv, Open
  <2>5. PortInv'
    BY <1>move, <1>calm, <1>frame, <2>1 DEF PortInv, Silent
  <2>6. ResultInv'
    BY <1>move, <1>calm, <1>frame, <2>2 DEF ResultInv
  <2>7. QED
    BY <2>3, <2>4, <2>5, <2>6 DEF CalmInv
<1>1. CASE Weight(s)
  <2>1. Arrive(s, "weight") /\ UNCHANGED <<cmd, lpc, due, wrote, ran, urc>>
    BY <1>1 DEF Weight
  <2>2. \A t \in Scales, res \in {"OK", "ERR"} : Holds(t, res)' <=> Holds(t, res)
    BY <2>1, ArriveHolds DEF Packets
  <2>3. (\A t \in Scales : Silent(t)' <=> Silent(t)) /\ (Clean' <=> Clean)
    BY <2>1, <2>2 DEF Clean, Silent
  <2>4. QED
    BY <2>1, <2>2, <2>3, <1>calm, <1>frame
    DEF CalmInv, NoMqtt, OpenInv, Open, PortInv, ResultInv
<1>2. CASE Execute(s)
  <2>1. /\ due[s] = <<Live>> /\ Live \in Reqs /\ s = Id /\ Silent(s)
        /\ Head(due[s]) = Live /\ due' = [due EXCEPT ![s] = <<>>]
        /\ UNCHANGED <<cmd, lpc, wrote, urc>>
    <3>1. due[s] # <<>> /\ due' = [due EXCEPT ![s] = Tail(@)] /\ UNCHANGED <<cmd, lpc, wrote, urc>>
      BY <1>2 DEF Execute
    <3>2. due[s] = <<Live>> /\ Live \in Reqs /\ s = Id /\ Silent(s)
      BY <3>1, <1>calm DEF PortInv
    <3>3. Head(<<Live>>) = Live /\ Tail(<<Live>>) = <<>>
      OBVIOUS
    <3>4. QED
      BY <3>1, <3>2, <3>3
  <2>2. PICK res \in {"OK", "ERR"} :
          Arrive(s, res) /\ ran' = [ran EXCEPT ![Live] = @ \cup {<<s, res>>}]
    BY <1>2, <2>1 DEF Execute
  <2>3. \A t \in Scales, r \in {"OK", "ERR"} : Holds(t, r)' <=> Holds(t, r) \/ (t = s /\ r = res)
    BY <2>2, ArriveHolds DEF Packets
  <2>4. ~Clean
    BY <2>1 DEF Clean
  <2>5. PortInv'
    BY <2>1, <2>2, <2>3, <1>types, <1>calm, <1>frame DEF PortInv, Silent
  <2>6. OpenInv' /\ NoMqtt'
    BY <2>1, <2>4, <1>calm, <1>frame DEF OpenInv, Open, NoMqtt
  <2>7. ResultInv'
    BY <2>1, <2>2, <2>4, <1>types, <1>calm, <1>frame DEF ResultInv
  <2>8. QED
    BY <2>5, <2>6, <2>7 DEF CalmInv
<1>3. CASE Ignore(s)
  <2>1. /\ due[s] = <<Live>> /\ due' = [due EXCEPT ![s] = <<>>]
        /\ UNCHANGED <<cmd, lpc, line, wrote, ran, urc>>
    <3>1. /\ due[s] # <<>> /\ due' = [due EXCEPT ![s] = Tail(@)]
          /\ UNCHANGED <<cmd, lpc, line, wrote, ran, urc>>
      BY <1>3 DEF Ignore
    <3>2. due[s] = <<Live>>
      BY <3>1, <1>calm DEF PortInv
    <3>3. Tail(<<Live>>) = <<>>
      OBVIOUS
    <3>4. QED
      BY <3>1, <3>2, <3>3
  <2>2. ~Clean
    BY <2>1 DEF Clean
  <2>3. QED
    BY <2>1, <2>2, <1>types, <1>calm, <1>frame
    DEF CalmInv, OpenInv, Open, NoMqtt, PortInv, Silent, Holds, ResultInv
<1>4. CASE Sleep(s)
  <2>1. UNCHANGED <<cmd, lpc, line, due, wrote, ran, urc>>
    BY <1>4 DEF Sleep, vars
  <2>2. QED
    BY <2>1, <1>move
<1>5. CASE TakeCmd(s)
  <2>1. /\ lpc[s] = "top" /\ lpc' = [lpc EXCEPT ![s] = "write"]
        /\ UNCHANGED <<cmd, line, due, wrote, ran, urc>>
    BY <1>5 DEF TakeCmd, Goto
  <2>2. QED
    BY <2>1, <1>move DEF Open
<1>6. CASE WriteCmd(s)
  <2>1. /\ lpc[s] = "write" /\ lpc' = [lpc EXCEPT ![s] = "catch"]
        /\ UNCHANGED <<cmd, line, ran, urc>>
        /\ \/ UNCHANGED <<due, wrote>>
           \/ /\ due' = [due EXCEPT ![s] = @ \o <<Live>>]
              /\ wrote' = [wrote EXCEPT ![Live] = @ \cup {s}]
    BY <1>6 DEF WriteCmd, Goto, Owe, Live
  <2>2. /\ cmd[s] = "udp" /\ Open(s) /\ Clean
        /\ Live \in Reqs /\ s = Id /\ urc = -1 /\ upc # "publish"
        /\ \A t \in Scales : t # s => ~Open(t)
    BY <2>1, <1>open, <1>calm DEF OpenInv
  <2>3. CASE UNCHANGED <<due, wrote>>
    BY <2>1, <2>2, <2>3, <1>move DEF Open
  <2>4. CASE /\ due' = [due EXCEPT ![s] = @ \o <<Live>>]
             /\ wrote' = [wrote EXCEPT ![Live] = @ \cup {s}]
    <3>1. due' = [due EXCEPT ![s] = <<Live>>]
      <4>1. due[s] = <<>> /\ <<Live>> \in Seq(Reqs)
        BY <2>2 DEF Clean
      <4>2. \A q \in Seq(Reqs) : <<>> \o q = q
        OBVIOUS
      <4>3. QED
        BY <2>4, <4>1, <4>2
    <3>2. NoMqtt'
      BY <2>1, <1>types, <1>calm, <1>frame DEF NoMqtt
    <3>3. OpenInv'
      BY <2>1, <2>2, <1>types, <1>frame DEF OpenInv, Open
    <3>4. PortInv'
      <4>1. \A t \in Scales, res \in {"OK", "ERR"} : ~Holds(t, res)'
        BY <2>1, <2>2 DEF Clean, Silent, Holds
      <4>2. \A t \in Scales : due'[t] # <<>> => t = s /\ due'[t] = <<Live>>
        BY <2>2, <3>1, <1>types DEF Clean
      <4>3. QED
        BY <2>2, <4>1, <4>2, <1>frame DEF PortInv, Silent
    <3>5. ResultInv'
      BY <2>1, <2>2, <2>4, <1>types, <1>calm, <1>frame DEF ResultInv
    <3>6. QED
      BY <3>2, <3>3, <3>4, <3>5 DEF CalmInv
  <2>5. QED
    BY <2>1, <2>3, <2>4
<1>7. CASE WriteCmdFail(s) \/ Post(s)
  <2>1. /\ lpc' = [lpc EXCEPT ![s] = "post"] \/ lpc' = [lpc EXCEPT ![s] = "clear"]
        /\ UNCHANGED <<cmd, line, due, wrote, ran, urc>>
    BY <1>7, <1>calm DEF WriteCmdFail, Post, Goto, NoMqtt
  <2>2. ~Open(s)'
    BY <2>1, <1>types DEF Open
  <2>3. QED
    BY <2>1, <2>2, <1>move
<1>8. ASSUME NEW res \in {"OK", "ERR"}, Holds(s, res), lpc[s] \in {"catch", "get2"},
             urc' = Result(res), line' = [line EXCEPT ![s] = <<>>],
             lpc' = [lpc EXCEPT ![s] = "post"], UNCHANGED <<cmd, due, wrote,
             ran>>
      PROVE  CalmInv'
  <2>1. /\ Live \in Reqs /\ s = Id /\ upc # "publish"
        /\ \A t \in Scales : t # s => ~Open(t) /\ due[t] = <<>> /\ Silent(t)
    BY <1>8, <1>open
  <2>2. due[s] = <<>> /\ <<s, res>> \in ran[Live]
    BY <1>8, <1>calm DEF PortInv, Silent
  <2>3. \A t \in Scales : \A r : Holds(t, r)' <=> t # s /\ Holds(t, r)
    BY <1>8, ReadHolds
  <2>4. Clean'
    BY <1>8, <2>1, <2>2, <2>3 DEF Clean, Silent
  <2>5. NoMqtt'
    BY <1>8, <1>types, <1>calm, <1>frame DEF NoMqtt
  <2>6. OpenInv'
    BY <1>8, <2>1, <1>types DEF OpenInv, Open
  <2>7. PortInv'
    BY <1>8, <2>1, <2>2, <2>3, <2>4 DEF PortInv, Clean, Silent
  <2>8. ResultInv'
    BY <1>8, <2>1, <2>2, <2>4, <1>calm, <1>frame DEF ResultInv, Result
  <2>9. QED
    BY <2>5, <2>6, <2>7, <2>8 DEF CalmInv
<1>9. CASE CatchReply(s) \/ Get2Reply(s)
  <2>1. PICK res \in {"OK", "ERR"} :
          /\ line[s] # <<>> /\ res \in {LastPacket(line[s]), Head(line[s])}
          /\ SetRc(s, Result(res))
    BY <1>9 DEF CatchReply, Get2Reply
  <2>2. /\ lpc[s] \in {"catch", "get2"} /\ line' = [line EXCEPT ![s] = <<>>]
        /\ lpc' = [lpc EXCEPT ![s] = "post"] /\ UNCHANGED <<cmd, due, wrote, ran>>
    BY <1>9 DEF CatchReply, Get2Reply, Goto
  <2>3. Holds(s, res)
    BY <2>1, EndsHeld
  <2>4. urc' = Result(res)
    BY <2>1, <2>2, <1>open DEF SetRc
  <2>5. QED
    BY <2>2, <2>3, <2>4, <1>8
<1>10. CASE CatchOther(s) \/ CatchSilent(s) \/ Get2Other(s) \/ Get2Cut(s) \/ Get2Silent(s)
  <2>1. /\ lpc[s] \in {"catch", "get2"}
        /\ \/ UNCHANGED lpc
           \/ \E l \in {"catch", "get2", "post"} : lpc' = [lpc EXCEPT ![s] = l]
        /\ \/ line' \in {line, [line EXCEPT ![s] = <<>>]}
           \/ line' = [line EXCEPT ![s] = [line[s] EXCEPT ![1] = "text"]]
        /\ UNCHANGED urc \/ SetRc(s, -1)
        /\ UNCHANGED <<cmd, due, wrote, ran>>
    BY <1>10 DEF CatchOther, CatchSilent, Get2Other, Get2Cut, Get2Silent, GiveUpCatch, Goto
  <2>2. UNCHANGED urc /\ Open(s)
    BY <2>1, <1>open DEF SetRc
  <2>3. QED
    BY <2>1, <2>2, <1>types, <1>move DEF Open
<1>11. CASE ClearCmd(s)
  <2>1. /\ cmd' = [cmd EXCEPT ![s] = NULL] /\ lpc' = [lpc EXCEPT ![s] = "top"]
        /\ UNCHANGED <<line, due, wrote, ran, urc>>
    BY <1>11, <1>calm DEF ClearCmd, Goto, NoMqtt
  <2>2. \A t \in Scales : Open(t)' => Open(t) /\ lpc'[t] = lpc[t]
    BY <2>1, <1>types, NamesDiffer DEF Open
  <2>3. QED
    BY <2>1, <2>2, <1>types, <1>calm, <1>frame, NamesDiffer
    DEF CalmInv, NoMqtt, OpenInv, PortInv, ResultInv, Clean, Silent, Holds
<1>12. CASE Select(s) \/ SelectTimeout(s) \/ ReadPort(s) \/ Packet(s) \/ PacketsDone(s)
  <2>1. /\ lpc[s] \in {"top", "select", "parse"}
        /\ \/ UNCHANGED lpc
           \/ \E l \in {"top", "select", "parse"} : lpc' = [lpc EXCEPT ![s] = l]
        /\ line' \in {line, [line EXCEPT ![s] = <<>>]}
        /\ UNCHANGED <<cmd, due, wrote, ran, urc>>
    BY <1>12 DEF Select, SelectTimeout, ReadPort, Packet, PacketsDone, Goto
  <2>2. QED
    BY <2>1, <1>types, <1>move DEF Open
<1>13. CASE Want(s) \/ Copy(s) \/ CopyDone(s)
  <2>1. \/ lpc[s] \in {"copy", "rc"}
        \/ lpc[s] = "parse" /\ cmd[s] # NULL /\ Rc(s) = -2
    BY <1>13 DEF Want, Wanted, Copy, CopyDone
  <2>2. QED
    BY <2>1, <1>types, <1>calm DEF NoMqtt, Rc
<1>14. QED
  BY <1>1, <1>2, <1>3, <1>4, <1>5, <1>6, <1>7, <1>9, <1>10, <1>11, <1>12, <1>13
  DEF Terminal, Loop

\* A request becomes the live one when nothing of the one before is left.
LEMMA CalmRun ==
  ASSUME CInv, TInv, HistType, FreshInv, Smooth(Live) => CalmInv, [Next]_vars, RunCommand,
         Smooth(Live)'
  PROVE  CalmInv'
<1> USE DEF slot, udpv, mqttv, loopv, port, hist
<1>types. /\ cmd \in [Scales -> {NULL, "udp", "mqtt"}]
          /\ MaxReq \in Nat /\ ureq \in 0 .. MaxReq /\ Live \in 0 .. MaxReq
          /\ asked \in [Reqs -> Datagrams \cup {NoDatagram}] /\ urc \in {-1, 0, 1}
          /\ \A r \in Reqs : r \in Int /\ 1 <= r /\ r <= MaxReq
          /\ \A r \in Int : 1 <= r /\ r <= MaxReq => r \in Reqs
  BY ReplyTypes
<1>1. ASSUME NEW d \in Datagrams, Prepare(d) PROVE CalmInv'
  <2>1. /\ upc = "recv" /\ upc' = "publish" /\ ureq < MaxReq /\ ureq' = ureq + 1
        /\ Live' = ureq + 1 /\ urc' = -1 /\ asked' = [asked EXCEPT ![ureq + 1] = d]
        /\ UNCHANGED <<cmd, lpc, mpc, line, due, wrote, ran, reply, mcnt>>
    BY <1>1 DEF Prepare, Receive, Live
  <2>2. Smooth(ureq + 1)
    BY <2>1 DEF Smooth
  <2>3. Smooth(Live) /\ (Live \in Reqs => reply[Live][2] # "01")
    BY <1>types, <2>2 DEF Smooth, FreshInv
  <2>4. NoMqtt /\ OpenInv /\ PortInv /\ ResultInv
    BY <2>3 DEF CalmInv
  <2>5. Live \in Reqs => urc # -1
    BY <2>1, <2>3, <2>4 DEF ResultInv
  <2>6. Clean
    BY <2>4, <2>5 DEF PortInv, ResultInv, Clean, Silent
  <2>7. \A s \in Scales : ~Open(s)
    BY <2>4, <2>5 DEF OpenInv
  <2>8. Clean' /\ \A s \in Scales : ~Open(s)'
    BY <2>1, <2>6, <2>7 DEF Clean, Silent, Holds, Open
  <2>9. wrote'[Live'] = {}
    <3>1. ureq + 1 \in Reqs /\ ureq + 1 > Live
      BY <1>types, <2>1 DEF FreshInv
    <3>2. QED
      BY <2>1, <3>1 DEF FreshInv
  <2>10. NoMqtt' /\ OpenInv' /\ PortInv'
    BY <2>1, <2>4, <2>8 DEF NoMqtt, OpenInv, PortInv, Clean, Silent
  <2>11. ResultInv'
    BY <2>1, <2>8, <2>9 DEF ResultInv
  <2>12. QED
    BY <2>10, <2>11 DEF CalmInv
<1>2. ASSUME NEW d \in Datagrams, Reject(d) PROVE CalmInv'
  <2>1. /\ upc = "recv" /\ Live' = Live
        /\ \E v : reply' = [reply EXCEPT ![ureq + 1] = v]
        /\ asked' = [asked EXCEPT ![ureq + 1] = d]
        /\ UNCHANGED <<upc, urc, cmd, lpc, mpc, line, due, wrote, ran>>
    BY <1>2 DEF Reject, Receive, Live
  <2>2. Live # ureq + 1
    BY <1>types DEF FreshInv
  <2>3. Id' = Id /\ (Live \in Reqs => reply'[Live] = reply[Live])
    BY <2>1, <2>2, <1>types DEF Id, HistType
  <2>4. Smooth(Live)
    BY <2>1, SmoothBack, <1>types DEF Smooth
  <2>5. QED
    BY <2>1, <2>3, <2>4
    DEF CalmInv, NoMqtt, OpenInv, Open, PortInv, ResultInv, Clean, Silent, Holds
<1>3. CASE Publish
  <2>1. /\ upc = "publish" /\ upc' = "wait" /\ cmd' = [cmd EXCEPT ![udg.id] = "udp"]
        /\ Live' = Live /\ Id' = Id
        /\ UNCHANGED <<urc, lpc, mpc, line, due, wrote, ran, reply>>
    BY <1>3 DEF Publish, Live, Id
  <2>2. Smooth(Live)
    BY <2>1, SmoothBack, <1>types DEF Smooth
  <2>3. NoMqtt /\ OpenInv /\ PortInv /\ ResultInv
    BY <2>2 DEF CalmInv
  <2>4. Live \in Reqs /\ udg.id = Id
    BY <2>1 DEF FreshInv, Id
  <2>5. urc = -1 /\ Clean /\ \A s \in Scales : ~Open(s)
    BY <2>1, <2>3 DEF OpenInv, ResultInv
  <2>6. Clean'
    BY <2>1, <2>5 DEF Clean, Silent, Holds
  <2>7. \A s \in Scales : Open(s)' => s = Id
    BY <2>1, <2>4, <2>5, <1>types DEF Open
  <2>8. OpenInv'
    BY <2>1, <2>4, <2>5, <2>6, <2>7 DEF OpenInv
  <2>9. NoMqtt'
    BY <2>1, <2>3, <1>types DEF NoMqtt
  <2>10. PortInv' /\ ResultInv'
    BY <2>1, <2>3, <2>6 DEF PortInv, ResultInv, Silent, Holds
  <2>11. QED
    BY <2>8, <2>9, <2>10 DEF CalmInv
<1>4. CASE Woken \/ TimedOut
  <2>1. /\ upc' = "answer" /\ Live' = Live /\ Id' = Id
        /\ UNCHANGED <<urc, cmd, lpc, mpc, line, due, wrote, ran, reply>>
    BY <1>4 DEF Woken, TimedOut, Live, Id
  <2>2. Smooth(Live)
    BY <2>1, SmoothBack, <1>types DEF Smooth
  <2>3. QED
    BY <2>1, <2>2
    DEF CalmInv, NoMqtt, OpenInv, Open, PortInv, ResultInv, Clean, Silent, Holds
<1>5. CASE Answer
  <2>1. /\ upc = "answer" /\ upc' = "recv" /\ Live' = Live /\ Id' = Id
        /\ reply' = [reply EXCEPT ![ureq] =
                       <<"00", IF urc = 0 THEN "00" ELSE IF urc = 1 THEN "02" ELSE "01">>]
        /\ UNCHANGED <<urc, cmd, lpc, mpc, line, due, wrote, ran>>
    BY <1>5 DEF Answer, Live, Id
  <2>2. Smooth(Live)
    BY <2>1, SmoothBack, <1>types DEF Smooth
  <2>3. Live \in Reqs /\ (urc = -1 => reply'[Live][2] = "01")
    BY <2>1 DEF FreshInv, HistType
  <2>4. QED
    BY <2>1, <2>2, <2>3
    DEF CalmInv, NoMqtt, OpenInv, Open, PortInv, ResultInv, Clean, Silent, Holds
<1>6. QED
  BY <1>1, <1>2, <1>3, <1>4, <1>5 DEF RunCommand

\* A reply tells what became of its command.
LEMMA FaithfulStep ==
  ASSUME CInv, TInv, RInv, [Next]_vars
  PROVE  ReplyFaithful'
<1> USE DEF slot, udpv, mqttv, loopv, port, hist
<1>types. /\ MaxReq \in Nat /\ ureq \in 0 .. MaxReq /\ Live \in 0 .. MaxReq
          /\ asked \in [Reqs -> Datagrams \cup {NoDatagram}]
          /\ wrote \in [Reqs -> SUBSET Scales]
          /\ ran \in [Reqs -> SUBSET (Scales \X {"OK", "ERR"})]
          /\ \A r \in Reqs : r \in 0 .. MaxReq
  BY ReplyTypes
<1> SUFFICES ASSUME NEW r \in Reqs, Smooth(r)'
             PROVE  /\ wrote'[r] \subseteq {asked'[r].id}
                    /\ reply'[r][2] = "00" => <<asked'[r].id, "OK">> \in ran'[r]
                    /\ reply'[r][2] = "02" => <<asked'[r].id, "ERR">> \in ran'[r]
  BY DEF ReplyFaithful
<1>r. HistType /\ FreshInv /\ (Smooth(Live) => CalmInv) /\ ReplyFaithful
  BY DEF RInv
<1>smooth. Smooth(r)
  BY <1>types, <1>r, SmoothBack
<1>now. /\ wrote[r] \subseteq {asked[r].id}
        /\ reply[r][2] = "00" => <<asked[r].id, "OK">> \in ran[r]
        /\ reply[r][2] = "02" => <<asked[r].id, "ERR">> \in ran[r]
  BY <1>r, <1>smooth DEF ReplyFaithful
<1>live. r = Live => CalmInv
  BY <1>r, <1>smooth
<1>1. CASE UNCHANGED <<asked, wrote, reply>> /\ ran[r] \subseteq ran'[r]
  BY <1>1, <1>now
<1>2. ASSUME NEW d \in Datagrams, Reject(d) \/ Prepare(d), r # ureq + 1
      PROVE  UNCHANGED <<asked[r], wrote, reply[r], ran>>
  BY <1>2, <1>r, <1>types DEF Reject, Prepare, Receive, HistType
<1>3. ASSUME NEW d \in Datagrams, Reject(d) \/ Prepare(d), r = ureq + 1
      PROVE  wrote'[r] = {} /\ reply'[r][2] = ""
  <2>1. wrote'[r] = {}
    <3>1. wrote' = wrote
      BY <1>3 DEF Reject, Prepare
    <3>2. r > Live
      BY <1>3, <1>r, <1>types DEF FreshInv
    <3>3. QED
      BY <1>r, <3>1, <3>2 DEF FreshInv
  <2>2. reply'[r][2] = ""
    <3>1. CASE Reject(d)
      BY <3>1, <1>3, <1>r DEF Reject, HistType
    <3>2. CASE Prepare(d)
      <4>1. reply'[r] = NoReply
        BY <3>2, <1>3, <1>r, <1>types DEF Prepare, FreshInv
      <4>2. NoReply[2] = ""
        BY DEF NoReply
      <4>3. QED
        BY <4>1, <4>2
    <3>3. QED
      BY <1>3, <3>1, <3>2
  <2>3. QED
    BY <2>1, <2>2
<1>4. CASE Answer
  <2>1. /\ upc = "answer" /\ ureq = Live
        /\ reply' = [reply EXCEPT ![Live] =
                       <<"00", IF urc = 0 THEN "00" ELSE IF urc = 1 THEN "02" ELSE "01">>]
        /\ UNCHANGED <<asked, wrote, ran>>
    BY <1>4, <1>r DEF Answer, FreshInv
  <2>2. CASE r # Live
    BY <2>1, <2>2, <1>r, <1>now DEF HistType
  <2>3. CASE r = Live
    <3>1. /\ reply'[r][2] = "00" => urc = 0
          /\ reply'[r][2] = "02" => urc = 1
      BY <2>1, <2>3, <1>r DEF HistType
    <3>2. QED
      BY <2>1, <2>3, <3>1, <1>live, <1>now DEF CalmInv, ResultInv, Id
  <2>4. QED
    BY <2>2, <2>3
<1>5. ASSUME NEW s \in Scales, WriteCmd(s)
      PROVE  wrote'[r] \subseteq {asked[r].id} /\ UNCHANGED <<asked, ran, reply>>
  <2>1. /\ UNCHANGED <<asked, ran, reply>>
        /\ wrote' = wrote \/ wrote' = [wrote EXCEPT ![Live] = @ \cup {s}]
        /\ lpc[s] = "write"
    BY <1>5 DEF WriteCmd, Live
  <2>2. CASE r # Live
    BY <2>1, <2>2, <1>types, <1>now
  <2>3. CASE r = Live
    <3>1. cmd[s] = "udp"
      BY <2>1, <2>3, <1>live DEF CInv, SlotType, CmdHeld, CalmInv, NoMqtt
    <3>2. s = asked[r].id
      BY <2>1, <2>3, <3>1, <1>live DEF CalmInv, OpenInv, Open, Id
    <3>3. QED
      BY <2>1, <2>3, <3>2, <1>types, <1>now
  <2>4. QED
    BY <2>1, <2>2, <2>3
<1>6. ASSUME NEW s \in Scales, Execute(s)
      PROVE  UNCHANGED <<asked, wrote, reply>> /\ ran[r] \subseteq ran'[r]
  <2>1. /\ UNCHANGED <<asked, wrote, reply>>
        /\ \/ ran' = ran
           \/ \E q \in Reqs, res \in {"OK", "ERR"} : ran' = [ran EXCEPT ![q] = @ \cup {<<s, res>>}]
    BY <1>6 DEF Execute
  <2>2. QED
    BY <2>1, <1>types
<1>7. ASSUME NEW s \in Scales, Terminal(s) \/ Loop(s), ~WriteCmd(s), ~Execute(s)
      PROVE  UNCHANGED <<asked, wrote, reply, ran>>
  BY <1>7
  DEF Terminal, Weight, Ignore, Loop, Sleep, vars, TakeCmd, WriteCmdFail, CatchReply,
      CatchOther, CatchSilent, Get2Reply, Get2Other, Get2Cut, Get2Silent, Post, ClearCmd,
      Select, SelectTimeout, ReadPort, Packet, PacketsDone, Want, Copy, CopyDone
<1>8. CASE Publish \/ Woken \/ TimedOut \/ OnMessage \/ UNCHANGED vars
  BY <1>8, <1>1
  DEF vars, Publish, Woken, TimedOut, OnMessage, MsgSame, MsgSwitch, Handshake, PublishMqtt,
      WokenMqtt, TimedOutMqtt, Calibrate, NotIdentified, Send, Respond, NoResponse
<1>9. QED
  BY <1>1, <1>2, <1>3, <1>4, <1>5, <1>6, <1>7, <1>8, <1>now DEF Next, RunCommand

\* Every step keeps what is known of the answers.
LEMMA ReplyStep == CInv /\ TInv /\ RInv /\ [Next]_vars => RInv'
<1> SUFFICES ASSUME CInv, TInv, RInv, [Next]_vars PROVE RInv'
  OBVIOUS
<1>1. HistType /\ FreshInv /\ (Smooth(Live) => CalmInv)
  BY DEF RInv
<1>2. HistType' /\ FreshInv'
  BY <1>1, FreshStep
<1>3. ASSUME Smooth(Live)' PROVE CalmInv'
  <2>1. CASE RunCommand
    BY <2>1, <1>1, <1>3, CalmRun
  <2>2. ASSUME NEW s \in Scales, Terminal(s) \/ Loop(s) PROVE CalmInv'
    <3>1. Live' = Live
      BY <2>2
      DEF Terminal, Weight, Execute, Ignore, Loop, Sleep, vars, udpv, TakeCmd, WriteCmd,
          WriteCmdFail, CatchReply, CatchOther, CatchSilent, Get2Reply, Get2Other, Get2Cut,
          Get2Silent, Post, ClearCmd, Select, SelectTimeout, ReadPort, Packet, PacketsDone,
          Want, Copy, CopyDone, Live
    <3>2. Smooth(Live)
      BY <1>1, <1>3, <3>1, SmoothBack, ReplyTypes DEF Smooth
    <3>3. QED
      BY <1>1, <2>2, <3>2, CalmLoop
  <2>3. CASE OnMessage \/ UNCHANGED vars
    <3>1. Live' = Live
      BY <2>3
      DEF vars, udpv, OnMessage, MsgSame, MsgSwitch, Handshake, PublishMqtt, WokenMqtt,
          TimedOutMqtt, Calibrate, NotIdentified, Send, Respond, NoResponse, Live
    <3>2. Smooth(Live)
      BY <1>1, <1>3, <3>1, SmoothBack, ReplyTypes DEF Smooth
    <3>3. CalmInv /\ mpc = "idle" /\ mcnt' = 0 /\ mcnt = 0
      BY <1>1, <1>3, <3>2 DEF CalmInv, NoMqtt, Smooth
    <3>4. UNCHANGED vars
      BY <2>3, <3>3
      DEF OnMessage, MsgSame, MsgSwitch, Handshake, PublishMqtt, WokenMqtt, TimedOutMqtt,
          Calibrate, NotIdentified, Send, Respond, NoResponse
    <3>5. QED
      BY <3>3, <3>4
      DEF vars, slot, udpv, mqttv, loopv, port, hist, CalmInv, NoMqtt, OpenInv, Open,
          PortInv, ResultInv, Clean, Silent, Holds, Live, Id
  <2>4. QED
    BY <2>1, <2>2, <2>3 DEF Next
<1>4. ReplyFaithful'
  BY FaithfulStep
<1>5. QED
  BY <1>2, <1>3, <1>4 DEF RInv

\* Up to the first command that a terminal left without an answer, and as long
\* as nobody calibrates, every command goes to the scale it names and a reply
\* is what that scale's terminal said to it: for any number of scales,
\* requests and packets in a port.
THEOREM RepliesFaithful == Spec => []ReplyFaithful
<1>1. Init => CInv /\ TInv /\ RInv
  BY CreditStart, TypeStart, ReplyStart
<1>2. CInv /\ TInv /\ RInv /\ [Next]_vars => CInv' /\ TInv' /\ RInv'
  BY CreditStep, TypeStep, ReplyStep
<1>3. RInv => ReplyFaithful
  BY DEF RInv
<1>4. QED
  BY <1>1, <1>2, <1>3, PTL DEF Spec
=============================================================================
