------------------------------- MODULE Startup -------------------------------
(***************************************************************************)
(* How scaled starts and stops: main creates one thread per scale, then    *)
(* the servers, and waits in pause(); each LDU loop adds its calibration   *)
(* number to the shared JSON array and counts itself in started_cnt;       *)
(* mqtt_thr waits for the count, prints the array and deletes it; every    *)
(* loop but dis4_loop sets the one packet_length that all loops test.      *)
(* None of this is protected by a lock, and started_cnt++ is a load and a  *)
(* store.  What the loops do with commands is in ScaledCommands, clients   *)
(* and stop_clients are in ScaledClients.                                  *)
(***************************************************************************)
EXTENDS Naturals, FiniteSets

CONSTANTS
  ScaleCnt,   \* scale_cnt
  CfgLength   \* "Length" of the configuration: packets of a DIS 4

ASSUME StartupAssumption ==
  /\ ScaleCnt \in Nat \ {0}
  /\ CfgLength \in Nat

Scales == 0 .. ScaleCnt - 1
Kinds  == {"weight", "raw", "dis2", "dis4"}
LDU    == {"weight", "raw"}

\* Bytes of a packet of each kind of terminal, and what the loop of that
\* kind assigns to packet_length (dis4_loop leaves the configured value).
Length(k) == CASE k = "weight" -> 18 [] k = "raw" -> 9
               [] k = "dis2" -> 16 [] k = "dis4" -> CfgLength

VARIABLES
  kind,           \* model and datatype of each scale, from the configuration
  lpc, ltmp,      \* scale loops: label, value of started_cnt that was loaded
  m,              \* result of the set-up: "ok", "closed" (-2), "silent" (-1)
  started_cnt,
  packet_length,
  json_fail,      \* an allocation failed, or configuration was abandoned
  jarray,         \* "live" or "gone"
  added,          \* scales whose calibration number is in the array
  json_conf,      \* {} for NULL, {x} for the text that shows the scales in x
  qpc, qcancel,   \* mqtt_thr: label, pending pthread_cancel
  mpc, mi,        \* main: label, index of its loops
  shutdown_flag,
  raced,          \* history: two loops were between load and store at once
  lost,           \* history: scales of which a whole packet was discarded
  early,          \* history: SIGINT came before main was in pause()
  fault           \* history: something failed and the code did not notice

loops == <<kind, lpc, ltmp, m>>
json  == <<json_fail, jarray, added, json_conf>>
main  == <<mpc, mi, shutdown_flag, early>>
vars  == <<loops, started_cnt, packet_length, json, qpc, qcancel, main, raced,
           lost, fault>>

LoopPCs == {"off", "none", "open", "asking", "json", "add", "clean", "load",
            "store", "drop", "length", "loop", "stuck", "ended"}
MqttPCs == {"off", "wait", "convert", "connect", "hello", "serve", "lost",
            "ended"}
MainPCs == {"scales", "servers", "pause", "close", "stop", "join", "exit",
            "crash"}

Running == mpc \notin {"exit", "crash"}

\* The outcomes of undefined behaviour that are told apart: the process dies,
\* or goes on as if the statement had done nothing.
Crash == mpc' = "crash" /\ UNCHANGED <<mi, shutdown_flag, early>>

\* loadConfig has been through: one object per scale in the array.
Init ==
  /\ kind \in [Scales -> Kinds]
  /\ lpc = [s \in Scales |-> "off"]
  /\ ltmp = [s \in Scales |-> 0]
  /\ m = [s \in Scales |-> "ok"]
  /\ started_cnt = 0
  /\ packet_length = CfgLength
  /\ json_fail \in BOOLEAN
  /\ jarray = IF json_fail THEN "gone" ELSE "live"
  /\ added = {} /\ json_conf = {}
  /\ qpc = "off" /\ qcancel = FALSE
  /\ mpc = "scales" /\ mi = 0
  /\ shutdown_flag = FALSE
  /\ raced = FALSE /\ lost = {} /\ early = FALSE /\ fault = FALSE
-----------------------------------------------------------------------------
(* The start of the loop of scale s                                         *)

Goto(s, l) == lpc' = [lpc EXCEPT ![s] = l]

\* rs232_open, init_ldu; do_cdl and the tare of a DIS 2.  A DIS loop whose
\* port or tare fails just returns.
Open(s) ==
  /\ lpc[s] = "open"
  /\ \E r \in {"ok", "closed", "silent"} :
       /\ kind[s] = "dis4" => r # "silent"
       /\ m' = [m EXCEPT ![s] = r]
       /\ Goto(s, CASE kind[s] \in LDU -> "json"
                    [] kind[s] \notin LDU /\ r # "ok" -> "ended"
                    [] kind[s] = "dis2" /\ r = "ok" -> "length"
                    [] OTHER -> "loop")
  /\ UNCHANGED <<kind, ltmp, started_cnt, packet_length, json, qpc, qcancel,
                 main, raced, lost, fault>>

\* The set-up of an LDU does what is undefined: it clears a buffer it was not
\* given, takes atoi of the NULL it makes of a calibration number of zeros, or
\* reads the answer at a p get_resp never set, its read having failed.
OpenUndefined(s) ==
  /\ lpc[s] = "open" /\ kind[s] \in LDU
  /\ fault' = TRUE
  /\ \/ /\ \E r \in {"ok", "silent"} : m' = [m EXCEPT ![s] = r]
        /\ Goto(s, "json")
        /\ UNCHANGED main
     \/ Crash /\ UNCHANGED <<lpc, m>>
  /\ UNCHANGED <<kind, ltmp, started_cnt, packet_length, json, qpc, qcancel,
                 raced, lost>>

\* Bytes without a CR fill the buffer of an LDU: get_resp goes round for good.
OpenJams(s) ==
  /\ lpc[s] = "open" /\ kind[s] \in LDU
  /\ Goto(s, "asking")
  /\ UNCHANGED <<kind, ltmp, m, started_cnt, packet_length, json, qpc, qcancel,
                 main, raced, lost, fault>>

\* jobj_add_int: if json_fail return
TestFail(s) ==
  /\ lpc[s] = "json"
  /\ Goto(s, IF json_fail THEN "load" ELSE "add")
  /\ UNCHANGED <<kind, ltmp, m, started_cnt, packet_length, json, qpc, qcancel,
                 main, raced, lost, fault>>

\* cJSON_AddStringToObject.  On an array that is gone the behaviour is
\* undefined.
Add(s) ==
  /\ lpc[s] = "add"
  /\ \/ /\ jarray = "live"
        /\ added' = added \cup {s}
        /\ Goto(s, "load")
        /\ UNCHANGED <<json_fail, jarray, json_conf, main>>
     \/ /\ jarray = "gone"
        /\ Goto(s, "load")
        /\ UNCHANGED <<json, main>>
     \/ /\ jarray = "gone"
        /\ Crash
        /\ UNCHANGED <<lpc, json>>
  /\ UNCHANGED <<kind, ltmp, m, started_cnt, packet_length, qpc, qcancel,
                 raced, lost, fault>>

\* It returned NULL: json_fail=1, then clean_json.
AddFails(s) ==
  /\ lpc[s] = "add" /\ jarray = "live"
  /\ json_fail' = TRUE
  /\ Goto(s, "clean")
  /\ UNCHANGED <<kind, ltmp, m, started_cnt, packet_length, jarray, added,
                 json_conf, qpc, qcancel, main, raced, lost, fault>>

CleanJson(s) ==
  /\ lpc[s] = "clean"
  /\ jarray' = "gone" /\ json_conf' = {}
  /\ Goto(s, "load")
  /\ UNCHANGED <<kind, ltmp, m, started_cnt, packet_length, json_fail, added,
                 qpc, qcancel, main, raced, lost, fault>>

\* started_cnt++
LoadCnt(s) ==
  /\ lpc[s] = "load"
  /\ ltmp' = [ltmp EXCEPT ![s] = started_cnt]
  /\ Goto(s, "store")
  /\ raced' = (raced \/ \E r \in Scales : lpc[r] = "store")
  /\ UNCHANGED <<kind, m, started_cnt, packet_length, json, qpc, qcancel, main,
                 lost, fault>>

\* Slip: a terminal that is not ready is not counted.
StoreCntIfReady(s) ==
  /\ lpc[s] = "store"
  /\ started_cnt' = IF m[s] = "ok" THEN ltmp[s] + 1 ELSE started_cnt
  /\ Goto(s, IF m[s] = "ok" THEN "length" ELSE "drop")
  /\ UNCHANGED <<kind, ltmp, m, packet_length, json, qpc, qcancel, main, raced,
                 lost, fault>>

StoreCnt(s) ==
  /\ lpc[s] = "store"
  /\ started_cnt' = ltmp[s] + 1
  /\ Goto(s, IF m[s] = "ok" THEN "length" ELSE "drop")
  /\ UNCHANGED <<kind, ltmp, m, packet_length, json, qpc, qcancel, main, raced,
                 lost, fault>>

\* Slip: lb is set by nobody before delete_locbuf.
DropBufUnset(s) ==
  /\ lpc[s] = "drop"
  /\ \/ Goto(s, "ended") /\ UNCHANGED main
     \/ Crash /\ UNCHANGED lpc
  /\ UNCHANGED <<kind, ltmp, m, started_cnt, packet_length, json, qpc, qcancel,
                 raced, lost, fault>>

\* delete_locbuf(lb); return.  lb was never assigned when the port did not
\* open.
DropBuf(s) ==
  /\ lpc[s] = "drop"
  /\ \/ Goto(s, "ended") /\ UNCHANGED main
     \/ m[s] = "closed" /\ Crash /\ UNCHANGED lpc
  /\ UNCHANGED <<kind, ltmp, m, started_cnt, packet_length, json, qpc, qcancel,
                 raced, lost, fault>>

\* Slip: ldu_raw assigns what ldu_loop does.
SetLengthCopied(s) ==
  /\ lpc[s] = "length"
  /\ packet_length' = IF kind[s] = "dis2" THEN 16 ELSE 18
  /\ Goto(s, "loop")
  /\ UNCHANGED <<kind, ltmp, m, started_cnt, json, qpc, qcancel, main, raced,
                 lost, fault>>

SetLength(s) ==
  /\ lpc[s] = "length"
  /\ packet_length' = Length(kind[s])
  /\ Goto(s, "loop")
  /\ UNCHANGED <<kind, ltmp, m, started_cnt, json, qpc, qcancel, main, raced,
                 lost, fault>>

\* What the loop of kind k distributes: an LDU loop drops a packet shorter
\* than packet_length, dis4_loop any of another length, dis2_loop none.
Accepted(k) ==
  \/ k \in LDU /\ Length(k) >= packet_length
  \/ k = "dis4" /\ Length(k) = packet_length
  \/ k = "dis2"

\* A whole packet arrives.  Its distribution is in ScaledClients.
Packet(s) ==
  /\ lpc[s] = "loop" /\ ~shutdown_flag
  /\ ~Accepted(kind[s])
  /\ lost' = lost \cup {s}
  /\ UNCHANGED <<loops, started_cnt, packet_length, json, qpc, qcancel, main,
                 raced, fault>>

\* A loop that never sees shutdown_flag again: 63 bytes without a CR fill the
\* buffer of dis4_loop, which then goes on with its inner loop and reads no
\* byte; get_cmd_reply2 goes on as long as an LDU sends it neither OK nor ERR
\* but a CR in each of its reads.
Jam(s) ==
  /\ lpc[s] = "loop" /\ kind[s] \in LDU \cup {"dis4"}
  /\ Goto(s, "stuck")
  /\ UNCHANGED <<kind, ltmp, m, started_cnt, packet_length, json, qpc, qcancel,
                 main, raced, lost, fault>>


LoopStop(s) ==
  /\ lpc[s] = "loop" /\ shutdown_flag
  /\ Goto(s, "ended")
  /\ UNCHANGED <<kind, ltmp, m, started_cnt, packet_length, json, qpc, qcancel,
                 main, raced, lost, fault>>
-----------------------------------------------------------------------------
(* mqtt_thr                                                                 *)

Mqtt(from, to) ==
  /\ qpc \in from /\ qpc' = to
  /\ UNCHANGED <<loops, started_cnt, packet_length, json, qcancel, main, raced,
                 lost, fault>>

\* Slip: one scale too few is waited for.
MqttPassEarly ==
  /\ started_cnt + 1 >= ScaleCnt
  /\ Mqtt({"wait"}, "convert")

\* while( started_cnt<scale_cnt ) usleep(1000)
MqttPass ==
  /\ started_cnt >= ScaleCnt
  /\ Mqtt({"wait"}, "convert")

\* jarray_convert: the array is printed and deleted, printed or not.
MqttConvert ==
  /\ qpc = "convert" /\ qpc' = "connect"
  /\ IF json_fail THEN UNCHANGED <<json, fault>>
     ELSE /\ \/ json_conf' = {added} /\ UNCHANGED fault
             \/ fault' = TRUE /\ UNCHANGED json_conf
          /\ jarray' = "gone"
          /\ UNCHANGED <<json_fail, added>>
  /\ UNCHANGED <<loops, started_cnt, packet_length, qcancel, main, raced,
                 lost>>

MqttConnect     == Mqtt({"connect"}, "hello")
\* mosquitto_new or the first mosquitto_connect failed: no second attempt.
MqttGivesUp     == Mqtt({"wait", "connect"}, "ended")

\* on_connect: publish strlen(json_conf) bytes.  A NULL is undefined.
MqttHello ==
  \/ Mqtt({"hello"}, "serve")
  \/ /\ qpc = "hello" /\ json_conf = {}
     /\ Crash
     /\ UNCHANGED <<loops, started_cnt, packet_length, json, qpc, qcancel,
                    raced, lost, fault>>

\* mosquitto_loop fails: sleep(20), mosquitto_reconnect.
MqttBroken    == ~shutdown_flag /\ Mqtt({"serve"}, "lost")
MqttReconnect == Mqtt({"lost"}, "hello")
MqttStop      == shutdown_flag /\ Mqtt({"serve", "lost"}, "ended")

\* A cancellation is acted on in usleep, select, sleep and connect.
MqttCancelled == qcancel /\ Mqtt({"wait", "connect", "serve", "lost"}, "ended")
-----------------------------------------------------------------------------
(* main and signal_handler                                                  *)

\* pthread_create of the loop of scale mi; that it fails is not noticed.
StartScale ==
  /\ mpc = "scales" /\ mi < ScaleCnt
  /\ \/ Goto(mi, "open") /\ UNCHANGED fault
     \/ Goto(mi, "none") /\ fault' = TRUE
  /\ mi' = mi + 1
  /\ UNCHANGED <<kind, ltmp, m, started_cnt, packet_length, json, qpc, qcancel,
                 mpc, shutdown_flag, early, raced, lost>>

MainGoto(from, to) ==
  /\ mpc = from /\ mpc' = to
  /\ UNCHANGED <<loops, started_cnt, packet_length, json, qcancel,
                 shutdown_flag, early, raced, lost, fault>>

ScalesStarted ==
  mi = ScaleCnt /\ MainGoto("scales", "servers") /\ UNCHANGED <<mi, qpc>>

\* runpacket, runcommand and mqtt_thr; a failure ends the process.
StartServers ==
  \/ MainGoto("servers", "pause") /\ qpc' = "wait" /\ UNCHANGED mi
  \/ MainGoto("servers", "exit") /\ UNCHANGED <<mi, qpc>>

CloseSockets == MainGoto("close", "stop") /\ UNCHANGED <<mi, qpc>>
StopClients  == MainGoto("stop", "join") /\ mi' = 0 /\ UNCHANGED qpc

\* pthread_join of the loop of scale mi.  A thread that was never created is
\* joined by the 0 its pthread_t has, which is undefined.
JoinScale ==
  /\ mpc = "join" /\ mi < ScaleCnt
  /\ \/ /\ lpc[mi] \in {"ended", "none"}
        /\ mi' = mi + 1
        /\ UNCHANGED <<mpc, shutdown_flag, early>>
     \/ lpc[mi] = "none" /\ Crash
  /\ UNCHANGED <<loops, started_cnt, packet_length, json, qpc, qcancel, raced,
                 lost, fault>>

Return == mi = ScaleCnt /\ MainGoto("join", "exit") /\ UNCHANGED <<mi, qpc>>

\* SIGINT: shutdown_flag=1 and three pthread_cancel, which are undefined for
\* threads not yet created.  Only a signal that interrupts it ends pause().
SigInt ==
  LET starting == mpc \in {"scales", "servers"} IN
  /\ shutdown_flag' = TRUE
  /\ early' = (early \/ starting)
  /\ \/ /\ mpc' = IF mpc = "pause" THEN "close" ELSE mpc
        /\ qcancel' = (qcancel \/ ~starting)
     \/ starting /\ mpc' = "crash" /\ UNCHANGED qcancel
  /\ UNCHANGED <<loops, started_cnt, packet_length, json, qpc, mi, raced, lost,
                 fault>>

\* SIGUSR1 and SIGUSR2 have a handler that does nothing, and end pause() too.
SigUsr == MainGoto("pause", "close") /\ UNCHANGED <<mi, qpc>>
-----------------------------------------------------------------------------
Loop(s) ==
  \/ Open(s) \/ OpenUndefined(s) \/ OpenJams(s)
  \/ TestFail(s) \/ Add(s) \/ AddFails(s) \/ CleanJson(s) \/ LoadCnt(s)
  \/ StoreCnt(s) \/ DropBuf(s) \/ SetLength(s) \/ LoopStop(s)

MqttThread ==
  MqttPass \/ MqttConvert \/ MqttConnect \/ MqttHello \/ MqttReconnect
    \/ MqttStop \/ MqttCancelled

Main ==
  StartScale \/ ScalesStarted \/ StartServers \/ CloseSockets \/ StopClients
    \/ JoinScale \/ Return

Next ==
  /\ Running
  /\ \/ \E s \in Scales : Loop(s) \/ Packet(s) \/ Jam(s)
     \/ MqttThread \/ MqttGivesUp \/ MqttBroken
     \/ Main \/ SigInt \/ SigUsr

Spec == Init /\ [][Next]_vars

\* The threads are scheduled; signals, failures and packets are free.
Fairness ==
  /\ \A s \in Scales : WF_vars(Running /\ Loop(s))
  /\ WF_vars(Running /\ MqttThread)
  /\ WF_vars(Running /\ Main)

FairSpec == Spec /\ Fairness
-----------------------------------------------------------------------------
(* Correctness                                                              *)

\* started_cnt never exceeds the number of scales, by the type.
TypeOK ==
  /\ kind \in [Scales -> Kinds]
  /\ lpc \in [Scales -> LoopPCs]
  /\ ltmp \in [Scales -> 0 .. ScaleCnt]
  /\ m \in [Scales -> {"ok", "closed", "silent"}]
  /\ started_cnt \in 0 .. ScaleCnt
  /\ packet_length \in {9, 16, 18, CfgLength}
  /\ json_fail \in BOOLEAN
  /\ jarray \in {"live", "gone"}
  /\ added \subseteq Scales
  /\ json_conf \subseteq SUBSET Scales
  /\ qpc \in MqttPCs
  /\ qcancel \in BOOLEAN
  /\ mpc \in MainPCs
  /\ mi \in 0 .. ScaleCnt
  /\ shutdown_flag \in BOOLEAN
  /\ raced \in BOOLEAN
  /\ lost \subseteq Scales
  /\ early \in BOOLEAN
  /\ fault \in BOOLEAN

\* Loops that have counted themselves.
Counted == {s \in Scales :
              /\ kind[s] \in LDU
              /\ lpc[s] \in {"drop", "length", "loop", "stuck", "ended"}}

\* mqtt_thr gets past its wait only when every scale has been through its
\* set-up, however the increments of started_cnt overlap: the array it prints
\* shows the calibration of all scales, and no loop is left that would still
\* write into the array it deletes.
Passed == qpc \in {"convert", "connect", "hello", "serve", "lost"}
PrintedWhole ==
  /\ Passed => Counted = Scales
  /\ \A x \in json_conf : x = Scales

\* A loop works on the JSON array only while it exists, unless an allocation
\* failed in another loop (which cleans the array under it).
JsonAlive ==
  \A s \in Scales : lpc[s] = "add" /\ jarray = "gone" => json_fail

\* The threads' races over the array, its text and the counter bring the
\* daemon down only together with a failure: an allocation that failed, noticed
\* or not, a thread or a port that could not be had, an answer of a terminal
\* that init_ldu takes wrongly, or a SIGINT before pause().
CrashHasCause ==
  mpc = "crash" =>
    early \/ json_fail \/ fault \/ \E s \in Scales : m[s] = "closed"

\* A whole packet is discarded only when another scale has terminals of
\* another kind: with one kind of scale, packet_length fits all.
LostOnlyMixed ==
  \A s \in lost : \E r \in Scales : kind[r] # kind[s]

\* With LDU scales only, MQTT starts, whether or not their terminals answer,
\* unless two increments of started_cnt overlapped, a loop could not be created
\* or one never comes out of get_resp.
MqttStarts ==
  (mpc = "pause" /\ \A s \in Scales : kind[s] \in LDU)
     ~> \/ qpc # "wait" \/ raced \/ ~Running
        \/ \E s \in Scales : lpc[s] \in {"asking", "none"}

=============================================================================
