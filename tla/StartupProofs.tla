---------------------------- MODULE StartupProofs ----------------------------
(***************************************************************************)
(* Proofs about Startup for any number of scales of any kinds.  The heart  *)
(* is that started_cnt never exceeds the number of loops that counted      *)
(* themselves: overlapping increments lose counts, they never invent one.  *)
(***************************************************************************)
EXTENDS Startup, FiniteSetTheorems, TLAPS

\* The counter, and what a loop has loaded from it, are never too high.
CountInv ==
  /\ started_cnt <= Cardinality(Counted)
  /\ \A s \in Scales : lpc[s] = "store" => ltmp[s] <= Cardinality(Counted)
  /\ Passed => Counted = Scales

\* Unless an allocation failed, a loop that is past its addition has added,
\* and the array goes only when all have.
JsonInv ==
  /\ \A s \in Scales : lpc[s] = "clean" => json_fail
  /\ json_fail \/ \A s \in Scales :
       /\ kind[s] \in LDU
       /\ lpc[s] \in {"load", "store", "drop", "length", "loop", "stuck",
                     "ended"}
       => s \in added
  /\ jarray = "gone" => json_fail \/ Counted = Scales
  /\ qpc \in {"connect", "hello", "serve", "lost"} =>
       json_fail \/ fault \/ json_conf # {}
  /\ \A x \in json_conf : x = Scales

\* Which kind of loop is where; loops not yet created are "off", those that
\* could not be created "none".
KindInv ==
  /\ \A s \in Scales :
       lpc[s] \in {"json", "add", "clean", "load", "store",
       "drop"} => kind[s] \in LDU
  /\ \A s \in Scales : lpc[s] = "length" => kind[s] # "dis4"
  /\ mpc = "scales" => \A s \in Scales : s >= mi => lpc[s] = "off"
  /\ \A s \in Scales : lpc[s] = "none" => fault

\* With scales of one kind packet_length fits every loop that has started.
LengthInv ==
  \A s \in Scales :
    lpc[s] = "loop" \/ kind[s] = "dis4" =>
      packet_length = Length(kind[s]) \/ \E r \in Scales : kind[r] # kind[s]

\* TypeOK, but for the range of started_cnt and ltmp.
Types ==
  /\ kind \in [Scales -> Kinds]
  /\ lpc \in [Scales -> LoopPCs]
  /\ ltmp \in [Scales -> Nat]
  /\ m \in [Scales -> {"ok", "closed", "silent"}]
  /\ started_cnt \in Nat
  /\ packet_length \in {9, 16, 18, CfgLength}
  /\ json_fail \in BOOLEAN
  /\ jarray \in {"live", "gone"}
  /\ added \subseteq Scales
  /\ json_conf \subseteq SUBSET Scales
  /\ qpc \in MqttPCs
  /\ qcancel \in BOOLEAN
  /\ mpc \in MainPCs
  /\ mi \in 0 .. ScaleCnt
  /\ shutdown_flag \in BOOLEAN
  /\ raced \in BOOLEAN
  /\ lost \subseteq Scales
  /\ early \in BOOLEAN
  /\ fault \in BOOLEAN

\* Every loaded value has been the counter's.
LoadInv == started_cnt <= ScaleCnt /\ \A s \in Scales : ltmp[s] <= ScaleCnt

IInv ==
  /\ Types /\ LoadInv /\ CountInv /\ JsonInv /\ KindInv /\ LengthInv
  /\ CrashHasCause /\ LostOnlyMixed

\* There are ScaleCnt scales; when all are counted, Counted is Scales.
LEMMA CountedScales ==
  /\ IsFiniteSet(Counted) /\ Cardinality(Counted) \in 0 .. ScaleCnt
  /\ Cardinality(Counted) >= ScaleCnt => Counted = Scales
<1>1. IsFiniteSet(Scales) /\ Cardinality(Scales) = ScaleCnt
  BY FS_Interval, StartupAssumption, SMT DEF Scales
<1>2. /\ IsFiniteSet(Counted) /\ Cardinality(Counted) <= Cardinality(Scales)
      /\ Cardinality(Counted) = Cardinality(Scales) => Counted = Scales
  BY <1>1, FS_Subset DEF Counted
<1>3. Cardinality(Counted) \in Nat
  BY <1>2, FS_CardinalityType
<1>4. QED
  BY <1>1, <1>2, <1>3, StartupAssumption, SMT

\* The invariant gives the type of every variable.
LEMMA IInvTypes == IInv => TypeOK
BY StartupAssumption, SMT DEF IInv, Types, LoadInv, TypeOK

\* The invariant holds at the start.
LEMMA InitIInv == Init => IInv
<1> SUFFICES ASSUME Init PROVE IInv
  OBVIOUS
<1>1. 0 \in 0 .. ScaleCnt /\ 0 <= ScaleCnt
  BY StartupAssumption, SMT
<1>2. Types /\ LoadInv
  BY <1>1 DEF Init, Types, LoadInv, LoopPCs, MqttPCs, MainPCs
<1>3. CountInv
  BY CountedScales, StartupAssumption, SMT DEF Init, CountInv, Passed
<1>4. JsonInv /\ KindInv
  BY DEF Init, JsonInv, KindInv
<1>5. LengthInv
  BY DEF Init, LengthInv, Length
<1>6. CrashHasCause /\ LostOnlyMixed
  BY DEF Init, CrashHasCause, LostOnlyMixed
<1>7. QED
  BY <1>2, <1>3, <1>4, <1>5, <1>6 DEF IInv

\* A step that neither counts nor lets mqtt_thr pass.
LEMMA NotCounting ==
  ASSUME IInv, Counted' = Counted, started_cnt' = started_cnt,
         \A s \in Scales : lpc'[s] = "store" => lpc[s] = "store" /\ ltmp'[s] = ltmp[s],
         Passed' => Passed
  PROVE  CountInv'
BY DEF IInv, CountInv

\* The set-up of the terminal gives m; only an LDU loop goes on to the array.
LEMMA OpenKeeps ==
  ASSUME IInv, Running, NEW s \in Scales, Open(s)
  PROVE  IInv'
<1>1. Types'
  BY StartupAssumption
  DEF IInv, Types, LoopPCs, MqttPCs, MainPCs, LDU, Scales, Open, Goto, json, main
<1>2. LoadInv'
  BY StartupAssumption DEF IInv, Types, LoadInv, Open, Goto, json, main
<1>3. CountInv'
  <2>1. Counted' = Counted
    BY DEF IInv, Types, KindInv, Counted, LDU, Open, Goto, json, main
  <2>2. QED
    BY <2>1, NotCounting DEF IInv, Types, Passed, Open, Goto, json, main
<1>4. JsonInv'
  BY StartupAssumption
  DEF IInv, Types, JsonInv, KindInv, Passed, CountInv, Counted, LDU, Open, Goto, json, main
<1>5. KindInv'
  BY StartupAssumption DEF IInv, Types, KindInv, LDU, Scales, Open, Goto, json, main
<1>6. LengthInv'
  <2>1. UNCHANGED <<kind, packet_length>> /\ lpc[s] = "open"
    BY DEF Open
  <2>2. \A r \in Scales : r # s => lpc'[r] = lpc[r]
    BY DEF Open, Goto, IInv, Types
  <2>3. lpc'[s] = "loop" => kind[s] = "dis4"
    BY DEF Open, Goto, IInv, Types, Kinds, LDU
  <2>4. QED
    BY <2>1, <2>2, <2>3 DEF IInv, LengthInv
<1>7. CrashHasCause'
  BY StartupAssumption
  DEF IInv, Types, CrashHasCause, JsonInv, CountInv, Counted, Passed, Running, Open, Goto,
      json, main
<1>8. LostOnlyMixed'
  BY StartupAssumption DEF IInv, Types, LostOnlyMixed, LengthInv, Open, Goto, json, main
<1>9. QED
  BY <1>1, <1>2, <1>3, <1>4, <1>5, <1>6, <1>7, <1>8 DEF IInv

\* Undefined behaviour in the set-up is remembered in fault.
LEMMA OpenUndefinedKeeps ==
  ASSUME IInv, Running, NEW s \in Scales, OpenUndefined(s)
  PROVE  IInv'
<1>1. Types'
  <2>1. lpc' \in [Scales -> LoopPCs] /\ m' \in [Scales -> {"ok", "closed", "silent"}]
    BY DEF OpenUndefined, Goto, IInv, Types, LoopPCs
  <2>2. mpc' \in MainPCs /\ fault' \in BOOLEAN
    BY DEF OpenUndefined, Crash, main, IInv, Types, MainPCs
  <2>3. UNCHANGED <<kind, ltmp, started_cnt, packet_length, json_fail, jarray,
                    added, json_conf, qpc, qcancel, mi, shutdown_flag, raced,
                    lost, early>>
    BY DEF OpenUndefined, Crash, json, main
  <2>4. QED
    BY <2>1, <2>2, <2>3 DEF IInv, Types
<1>2. LoadInv'
  BY StartupAssumption DEF IInv, Types, LoadInv, OpenUndefined, Goto, Crash, json, main
<1>3. CountInv'
  <2>1. Counted' = Counted
    BY DEF IInv, Types, KindInv, Counted, LDU, OpenUndefined, Goto, Crash, json, main
  <2>2. QED
    BY <2>1, NotCounting DEF IInv, Types, Passed, OpenUndefined, Goto, Crash, json, main
<1>4. JsonInv'
  BY StartupAssumption
  DEF IInv, Types, JsonInv, KindInv, Passed, CountInv, Counted, LDU, OpenUndefined, Goto,
      Crash, json, main
<1>5. KindInv'
  BY StartupAssumption
  DEF IInv, Types, KindInv, LDU, Scales, OpenUndefined, Goto, Crash, json, main
<1>6. LengthInv'
  <2>1. UNCHANGED <<kind, packet_length>> /\ lpc[s] = "open"
    BY DEF OpenUndefined
  <2>2. \A r \in Scales : r # s => lpc'[r] = lpc[r]
    BY DEF OpenUndefined, Goto, Crash, IInv, Types
  <2>3. lpc'[s] = "loop" => kind[s] = "dis4"
    BY DEF OpenUndefined, Goto, Crash, IInv, Types, Kinds, LDU
  <2>4. QED
    BY <2>1, <2>2, <2>3 DEF IInv, LengthInv
<1>7. CrashHasCause'
  BY StartupAssumption
  DEF IInv, Types, CrashHasCause, JsonInv, CountInv, Counted, Passed, Running,
      OpenUndefined, Goto, Crash, json, main
<1>8. LostOnlyMixed'
  BY StartupAssumption
  DEF IInv, Types, LostOnlyMixed, LengthInv, OpenUndefined, Goto, Crash, json, main
<1>9. QED
  BY <1>1, <1>2, <1>3, <1>4, <1>5, <1>6, <1>7, <1>8 DEF IInv

\* A loop that stays in get_resp is not counted.
LEMMA OpenJamsKeeps ==
  ASSUME IInv, Running, NEW s \in Scales, OpenJams(s)
  PROVE  IInv'
<1>1. Types'
  BY StartupAssumption
  DEF IInv, Types, LoopPCs, MqttPCs, MainPCs, LDU, Scales, OpenJams, Goto, json, main
<1>2. LoadInv'
  BY StartupAssumption DEF IInv, Types, LoadInv, OpenJams, Goto, json, main
<1>3. CountInv'
  <2>1. Counted' = Counted
    BY DEF IInv, Types, KindInv, Counted, LDU, OpenJams, Goto, json, main
  <2>2. QED
    BY <2>1, NotCounting DEF IInv, Types, Passed, OpenJams, Goto, json, main
<1>4. JsonInv'
  BY StartupAssumption
  DEF IInv, Types, JsonInv, KindInv, Passed, CountInv, Counted, LDU, OpenJams, Goto, json,
      main
<1>5. KindInv'
  BY StartupAssumption DEF IInv, Types, KindInv, LDU, Scales, OpenJams, Goto, json, main
<1>6. LengthInv'
  <2>1. UNCHANGED <<kind, packet_length>> /\ lpc[s] = "open"
    BY DEF OpenJams
  <2>2. \A r \in Scales : r # s => lpc'[r] = lpc[r]
    BY DEF OpenJams, Goto, IInv, Types
  <2>3. lpc'[s] = "loop" => kind[s] = "dis4"
    BY DEF OpenJams, Goto, IInv, Types, Kinds, LDU
  <2>4. QED
    BY <2>1, <2>2, <2>3 DEF IInv, LengthInv
<1>7. CrashHasCause'
  BY StartupAssumption
  DEF IInv, Types, CrashHasCause, JsonInv, CountInv, Counted, Passed, Running, OpenJams,
      Goto, json, main
<1>8. LostOnlyMixed'
  BY StartupAssumption DEF IInv, Types, LostOnlyMixed, LengthInv, OpenJams, Goto, json, main
<1>9. QED
  BY <1>1, <1>2, <1>3, <1>4, <1>5, <1>6, <1>7, <1>8 DEF IInv

\* Past the test no allocation had failed.
LEMMA TestFailKeeps ==
  ASSUME IInv, Running, NEW s \in Scales, TestFail(s)
  PROVE  IInv'
<1>1. Types'
  BY StartupAssumption
  DEF IInv, Types, LoopPCs, MqttPCs, MainPCs, LDU, Scales, TestFail, Goto, json, main
<1>2. LoadInv'
  BY StartupAssumption DEF IInv, Types, LoadInv, TestFail, Goto, json, main
<1>3. CountInv'
  <2>1. Counted' = Counted
    BY DEF IInv, Types, KindInv, Counted, LDU, TestFail, Goto, json, main
  <2>2. QED
    BY <2>1, NotCounting DEF IInv, Types, Passed, TestFail, Goto, json, main
<1>4. JsonInv'
  BY StartupAssumption
  DEF IInv, Types, JsonInv, KindInv, Passed, CountInv, Counted, LDU, TestFail, Goto, json,
      main
<1>5. KindInv'
  BY StartupAssumption DEF IInv, Types, KindInv, LDU, Scales, TestFail, Goto, json, main
<1>6. LengthInv'
  BY StartupAssumption DEF IInv, Types, KindInv, LengthInv, LDU, TestFail, Goto, json, main
<1>7. CrashHasCause'
  BY StartupAssumption
  DEF IInv, Types, CrashHasCause, JsonInv, CountInv, Counted, Passed, Running, TestFail,
      Goto, json, main
<1>8. LostOnlyMixed'
  BY StartupAssumption DEF IInv, Types, LostOnlyMixed, LengthInv, TestFail, Goto, json, main
<1>9. QED
  BY <1>1, <1>2, <1>3, <1>4, <1>5, <1>6, <1>7, <1>8 DEF IInv

\* The array is there as long as this loop is not counted.
LEMMA AddKeeps ==
  ASSUME IInv, Running, NEW s \in Scales, Add(s)
  PROVE  IInv'
<1>1. Types'
  <2>1. lpc' \in [Scales -> LoopPCs]
    BY DEF Add, Goto, IInv, Types, LoopPCs
  <2>2. added' \subseteq Scales /\ UNCHANGED <<json_fail, jarray, json_conf>>
    BY DEF Add, json, IInv, Types
  <2>3. mpc' \in MainPCs /\ UNCHANGED <<mi, shutdown_flag, early>>
    BY DEF Add, Crash, main, IInv, Types, MainPCs
  <2>4. QED
    BY <2>1, <2>2, <2>3 DEF Add, IInv, Types
<1>2. LoadInv'
  BY StartupAssumption DEF IInv, Types, LoadInv, Add, Goto, Crash, json, main
<1>3. CountInv'
  <2>1. Counted' = Counted
    BY DEF IInv, Types, KindInv, Counted, LDU, Add, Goto, Crash, json, main
  <2>2. QED
    BY <2>1, NotCounting DEF IInv, Types, Passed, Add, Goto, Crash, json, main
<1>4. JsonInv'
  BY StartupAssumption
  DEF IInv, Types, JsonInv, KindInv, Passed, CountInv, Counted, LDU, Add, Goto, Crash, json,
      main
<1>5. KindInv'
  BY StartupAssumption DEF IInv, Types, KindInv, LDU, Scales, Add, Goto, Crash, json, main
<1>6. LengthInv'
  BY StartupAssumption
  DEF IInv, Types, KindInv, LengthInv, LDU, Add, Goto, Crash, json, main
<1>7. CrashHasCause'
  BY StartupAssumption
  DEF IInv, Types, CrashHasCause, JsonInv, CountInv, Counted, Passed, Running, Add, Goto,
      Crash, json, main
<1>8. LostOnlyMixed'
  BY StartupAssumption
  DEF IInv, Types, LostOnlyMixed, LengthInv, Add, Goto, Crash, json, main
<1>9. QED
  BY <1>1, <1>2, <1>3, <1>4, <1>5, <1>6, <1>7, <1>8 DEF IInv

\* json_fail is set before the array is deleted.
LEMMA AddFailsKeeps ==
  ASSUME IInv, Running, NEW s \in Scales, AddFails(s)
  PROVE  IInv'
<1>1. Types'
  BY StartupAssumption
  DEF IInv, Types, LoopPCs, MqttPCs, MainPCs, LDU, Scales, AddFails, Goto, main
<1>2. LoadInv'
  BY StartupAssumption DEF IInv, Types, LoadInv, AddFails, Goto, main
<1>3. CountInv'
  <2>1. Counted' = Counted
    BY DEF IInv, Types, KindInv, Counted, LDU, AddFails, Goto, main
  <2>2. QED
    BY <2>1, NotCounting DEF IInv, Types, Passed, AddFails, Goto, main
<1>4. JsonInv'
  BY StartupAssumption
  DEF IInv, Types, JsonInv, KindInv, Passed, CountInv, Counted, LDU, AddFails, Goto, main
<1>5. KindInv'
  BY StartupAssumption DEF IInv, Types, KindInv, LDU, Scales, AddFails, Goto, main
<1>6. LengthInv'
  BY StartupAssumption DEF IInv, Types, KindInv, LengthInv, LDU, AddFails, Goto, main
<1>7. CrashHasCause'
  BY StartupAssumption
  DEF IInv, Types, CrashHasCause, JsonInv, CountInv, Counted, Passed, Running, AddFails,
      Goto, main
<1>8. LostOnlyMixed'
  BY StartupAssumption DEF IInv, Types, LostOnlyMixed, LengthInv, AddFails, Goto, main
<1>9. QED
  BY <1>1, <1>2, <1>3, <1>4, <1>5, <1>6, <1>7, <1>8 DEF IInv

\* The array goes, and json_fail says so.
LEMMA CleanJsonKeeps ==
  ASSUME IInv, Running, NEW s \in Scales, CleanJson(s)
  PROVE  IInv'
<1>1. Types'
  BY StartupAssumption
  DEF IInv, Types, LoopPCs, MqttPCs, MainPCs, LDU, Scales, CleanJson, Goto, main
<1>2. LoadInv'
  BY StartupAssumption DEF IInv, Types, LoadInv, CleanJson, Goto, main
<1>3. CountInv'
  <2>1. Counted' = Counted
    BY DEF IInv, Types, KindInv, Counted, LDU, CleanJson, Goto, main
  <2>2. QED
    BY <2>1, NotCounting DEF IInv, Types, Passed, CleanJson, Goto, main
<1>4. JsonInv'
  BY StartupAssumption
  DEF IInv, Types, JsonInv, KindInv, Passed, CountInv, Counted, LDU, CleanJson, Goto, main
<1>5. KindInv'
  BY StartupAssumption DEF IInv, Types, KindInv, LDU, Scales, CleanJson, Goto, main
<1>6. LengthInv'
  BY StartupAssumption DEF IInv, Types, KindInv, LengthInv, LDU, CleanJson, Goto, main
<1>7. CrashHasCause'
  BY StartupAssumption
  DEF IInv, Types, CrashHasCause, JsonInv, CountInv, Counted, Passed, Running, CleanJson,
      Goto, main
<1>8. LostOnlyMixed'
  BY StartupAssumption DEF IInv, Types, LostOnlyMixed, LengthInv, CleanJson, Goto, main
<1>9. QED
  BY <1>1, <1>2, <1>3, <1>4, <1>5, <1>6, <1>7, <1>8 DEF IInv

\* The value loaded is at most the number of loops past their store.
LEMMA LoadCntKeeps ==
  ASSUME IInv, Running, NEW s \in Scales, LoadCnt(s)
  PROVE  IInv'
<1>1. Types'
  BY StartupAssumption
  DEF IInv, Types, LoopPCs, MqttPCs, MainPCs, LDU, Scales, LoadCnt, Goto, json, main
<1>2. LoadInv'
  BY DEF IInv, Types, LoadInv, LoadCnt
<1>3. CountInv'
  <2>1. Counted' = Counted
    BY DEF IInv, Types, Counted, LoadCnt, Goto, loops
  <2>2. QED
    BY <2>1 DEF IInv, Types, CountInv, Passed, LoadCnt, Goto
<1>4. JsonInv'
  BY StartupAssumption
  DEF IInv, Types, JsonInv, KindInv, Passed, CountInv, Counted, LDU, LoadCnt, Goto, json,
      main
<1>5. KindInv'
  BY StartupAssumption DEF IInv, Types, KindInv, LDU, Scales, LoadCnt, Goto, json, main
<1>6. LengthInv'
  BY StartupAssumption DEF IInv, Types, KindInv, LengthInv, LDU, LoadCnt, Goto, json, main
<1>7. CrashHasCause'
  BY StartupAssumption
  DEF IInv, Types, CrashHasCause, JsonInv, CountInv, Counted, Passed, Running, LoadCnt,
      Goto, json, main
<1>8. LostOnlyMixed'
  BY StartupAssumption DEF IInv, Types, LostOnlyMixed, LengthInv, LoadCnt, Goto, json, main
<1>9. QED
  BY <1>1, <1>2, <1>3, <1>4, <1>5, <1>6, <1>7, <1>8 DEF IInv

\* The loop counts itself once.
LEMMA StoreCntKeeps ==
  ASSUME IInv, Running, NEW s \in Scales, StoreCnt(s)
  PROVE  IInv'
<1>a. /\ lpc[s] = "store" /\ started_cnt' = ltmp[s] + 1
      /\ lpc' = [lpc EXCEPT ![s] = IF m[s] = "ok" THEN "length" ELSE "drop"]
      /\ ltmp[s] <= Cardinality(Counted)
      /\ UNCHANGED <<kind, ltmp, qpc, added, json_fail, jarray, json_conf, fault>>
  BY DEF StoreCnt, Goto, IInv, CountInv, json
<1>b. /\ Counted' = Counted \cup {s} /\ s \notin Counted
  BY <1>a DEF IInv, Types, KindInv, Counted
<1>c. Cardinality(Counted') = Cardinality(Counted) + 1 /\ Cardinality(Counted') <= ScaleCnt
  <2>1. Cardinality(Counted \cup {s}) = Cardinality(Counted) + 1
    BY <1>b, CountedScales, FS_AddElement
  <2>2. IsFiniteSet(Scales) /\ Cardinality(Scales) = ScaleCnt
    BY FS_Interval, StartupAssumption, SMT DEF Scales
  <2>3. Counted \cup {s} \subseteq Scales
    BY DEF Counted
  <2>4. Cardinality(Counted \cup {s}) <= ScaleCnt
    BY <2>2, <2>3, FS_Subset
  <2>5. QED
    BY <1>b, <2>1, <2>4
<1>1. Types'
  BY StartupAssumption
  DEF IInv, Types, LoopPCs, MqttPCs, MainPCs, LDU, Scales, StoreCnt, Goto, json, main
<1>2. LoadInv'
  <2>1. ltmp[s] + 1 <= ScaleCnt
    BY <1>a, <1>c, CountedScales, StartupAssumption, SMT DEF IInv, Types
  <2>2. QED
    BY <1>a, <2>1 DEF IInv, LoadInv
<1>3. CountInv'
  <2>1. started_cnt' <= Cardinality(Counted')
    BY <1>a, <1>c, CountedScales, SMT DEF IInv, Types
  <2>2. ASSUME NEW r \in Scales, lpc'[r] = "store"
        PROVE  ltmp'[r] <= Cardinality(Counted')
    <3>1. ltmp[r] <= Cardinality(Counted)
      BY <1>a, <2>2 DEF IInv, Types, CountInv
    <3>2. QED
      BY <1>a, <1>c, <3>1, CountedScales, SMT DEF IInv, Types
  <2>3. Passed' => Counted' = Scales
    BY <1>a, <1>b DEF IInv, CountInv, Passed, Counted
  <2>4. QED
    BY <2>1, <2>2, <2>3 DEF CountInv
<1>4. JsonInv'
  <2>1. Counted = Scales => Counted' = Scales
    BY <1>b DEF Counted
  <2>2. QED
    BY <1>a, <2>1 DEF IInv, Types, JsonInv, KindInv
<1>5. KindInv'
  BY StartupAssumption DEF IInv, Types, KindInv, LDU, Scales, StoreCnt, Goto, json, main
<1>6. LengthInv'
  BY StartupAssumption DEF IInv, Types, KindInv, LengthInv, LDU, StoreCnt, Goto, json, main
<1>7. CrashHasCause'
  BY StartupAssumption
  DEF IInv, Types, CrashHasCause, JsonInv, CountInv, Counted, Passed, Running, StoreCnt,
      Goto, json, main
<1>8. LostOnlyMixed'
  BY StartupAssumption DEF IInv, Types, LostOnlyMixed, LengthInv, StoreCnt, Goto, json, main
<1>9. QED
  BY <1>1, <1>2, <1>3, <1>4, <1>5, <1>6, <1>7, <1>8 DEF IInv

\* A port that did not open is a cause of a crash.
LEMMA DropBufKeeps ==
  ASSUME IInv, Running, NEW s \in Scales, DropBuf(s)
  PROVE  IInv'
<1>1. Types'
  <2>1. UNCHANGED <<kind, ltmp, m, started_cnt, packet_length, json_fail, jarray,
                    added, json_conf, qpc, qcancel, mi, shutdown_flag, raced,
                    lost, early, fault>>
    BY DEF DropBuf, Goto, Crash, json, main
  <2>2. mpc' \in MainPCs
    BY DEF IInv, Types, MainPCs, DropBuf, Crash, main
  <2>3. lpc' \in [Scales -> LoopPCs]
    BY DEF IInv, Types, LoopPCs, DropBuf, Goto
  <2>4. QED
    BY <2>1, <2>2, <2>3 DEF IInv, Types
<1>2. LoadInv'
  BY StartupAssumption DEF IInv, Types, LoadInv, DropBuf, Goto, Crash, json, main
<1>3. CountInv'
  <2>1. Counted' = Counted
    BY DEF IInv, Types, KindInv, Counted, LDU, DropBuf, Goto, Crash, json, main
  <2>2. QED
    BY <2>1, NotCounting DEF IInv, Types, Passed, DropBuf, Goto, Crash, json, main
<1>4. JsonInv'
  BY StartupAssumption
  DEF IInv, Types, JsonInv, KindInv, Passed, CountInv, Counted, LDU, DropBuf, Goto, Crash,
      json, main
<1>5. KindInv'
  BY StartupAssumption
  DEF IInv, Types, KindInv, LDU, Scales, DropBuf, Goto, Crash, json, main
<1>6. LengthInv'
  BY StartupAssumption
  DEF IInv, Types, KindInv, LengthInv, LDU, DropBuf, Goto, Crash, json, main
<1>7. CrashHasCause'
  BY StartupAssumption
  DEF IInv, Types, CrashHasCause, JsonInv, CountInv, Counted, Passed, Running, DropBuf,
      Goto, Crash, json, main
<1>8. LostOnlyMixed'
  BY StartupAssumption
  DEF IInv, Types, LostOnlyMixed, LengthInv, DropBuf, Goto, Crash, json, main
<1>9. QED
  BY <1>1, <1>2, <1>3, <1>4, <1>5, <1>6, <1>7, <1>8 DEF IInv

\* packet_length fits the kind of this scale.
LEMMA SetLengthKeeps ==
  ASSUME IInv, Running, NEW s \in Scales, SetLength(s)
  PROVE  IInv'
<1>1. Types'
  <2>1. lpc' \in [Scales -> LoopPCs]
    BY DEF SetLength, Goto, IInv, Types, LoopPCs
  <2>2. packet_length' \in {9, 16, 18, CfgLength}
    BY DEF SetLength, Length, IInv, Types, Kinds
  <2>3. QED
    BY <2>1, <2>2 DEF SetLength, IInv, Types, json, main
<1>2. LoadInv'
  BY StartupAssumption DEF IInv, Types, LoadInv, SetLength, Goto, json, main
<1>3. CountInv'
  <2>1. Counted' = Counted
    BY DEF IInv, Types, KindInv, Counted, LDU, SetLength, Goto, json, main
  <2>2. QED
    BY <2>1, NotCounting DEF IInv, Types, Passed, SetLength, Goto, json, main
<1>4. JsonInv'
  BY StartupAssumption
  DEF IInv, Types, JsonInv, KindInv, Passed, CountInv, Counted, LDU, SetLength, Goto, json,
      main
<1>5. KindInv'
  BY StartupAssumption DEF IInv, Types, KindInv, LDU, Scales, SetLength, Goto, json, main
<1>6. LengthInv'
  BY StartupAssumption DEF IInv, Types, KindInv, LengthInv, LDU, SetLength, Goto, json, main
<1>7. CrashHasCause'
  BY StartupAssumption
  DEF IInv, Types, CrashHasCause, JsonInv, CountInv, Counted, Passed, Running, SetLength,
      Goto, json, main
<1>8. LostOnlyMixed'
  BY StartupAssumption
  DEF IInv, Types, LostOnlyMixed, LengthInv, SetLength, Goto, json, main
<1>9. QED
  BY <1>1, <1>2, <1>3, <1>4, <1>5, <1>6, <1>7, <1>8 DEF IInv

\* A packet that is discarded has met the length of another kind.
LEMMA PacketKeeps ==
  ASSUME IInv, Running, NEW s \in Scales, Packet(s)
  PROVE  IInv'
<1>1. Types'
  BY StartupAssumption
  DEF IInv, Types, LoopPCs, MqttPCs, MainPCs, LDU, Scales, Packet, loops, json, main
<1>2. LoadInv'
  BY StartupAssumption DEF IInv, Types, LoadInv, Packet, loops, json, main
<1>3. CountInv'
  BY NotCounting DEF Counted, Passed, Packet, loops, json, main
<1>4. JsonInv'
  BY StartupAssumption
  DEF IInv, Types, JsonInv, KindInv, Passed, CountInv, Counted, LDU, Packet, loops, json,
      main
<1>5. KindInv'
  BY StartupAssumption DEF IInv, Types, KindInv, LDU, Scales, Packet, loops, json, main
<1>6. LengthInv'
  BY StartupAssumption DEF IInv, Types, KindInv, LengthInv, LDU, Packet, loops, json, main
<1>7. CrashHasCause'
  BY StartupAssumption
  DEF IInv, Types, CrashHasCause, JsonInv, CountInv, Counted, Passed, Running, Packet,
      loops, json, main
<1>8. LostOnlyMixed'
  <2>1. lpc[s] = "loop" /\ ~Accepted(kind[s]) /\ lost' = lost \cup {s} /\ kind' = kind
    BY DEF Packet, loops
  <2>2. packet_length # Length(kind[s])
    <3>1. kind[s] \in Kinds
      BY DEF IInv, Types
    <3>2. 18 >= 18 /\ 9 >= 9
      BY SMT
    <3>3. kind[s] \in LDU => Length(kind[s]) >= Length(kind[s])
      BY <3>2 DEF LDU, Length
    <3>4. QED
      BY <2>1, <3>1, <3>3 DEF Accepted, Kinds, LDU
  <2>3. \E r \in Scales : kind[r] # kind[s]
    BY <2>1, <2>2 DEF IInv, LengthInv
  <2>4. QED
    BY <2>1, <2>3 DEF IInv, LostOnlyMixed
<1>9. QED
  BY <1>1, <1>2, <1>3, <1>4, <1>5, <1>6, <1>7, <1>8 DEF IInv

\* A loop ends.
LEMMA LoopStopKeeps ==
  ASSUME IInv, Running, NEW s \in Scales, LoopStop(s)
  PROVE  IInv'
<1>1. Types'
  BY StartupAssumption
  DEF IInv, Types, LoopPCs, MqttPCs, MainPCs, LDU, Scales, LoopStop, Goto, json, main
<1>2. LoadInv'
  BY StartupAssumption DEF IInv, Types, LoadInv, LoopStop, Goto, json, main
<1>3. CountInv'
  <2>1. Counted' = Counted
    BY DEF IInv, Types, KindInv, Counted, LDU, LoopStop, Goto, json, main
  <2>2. QED
    BY <2>1, NotCounting DEF IInv, Types, Passed, LoopStop, Goto, json, main
<1>4. JsonInv'
  BY StartupAssumption
  DEF IInv, Types, JsonInv, KindInv, Passed, CountInv, Counted, LDU, LoopStop, Goto, json,
      main
<1>5. KindInv'
  BY StartupAssumption DEF IInv, Types, KindInv, LDU, Scales, LoopStop, Goto, json, main
<1>6. LengthInv'
  BY StartupAssumption DEF IInv, Types, KindInv, LengthInv, LDU, LoopStop, Goto, json, main
<1>7. CrashHasCause'
  BY StartupAssumption
  DEF IInv, Types, CrashHasCause, JsonInv, CountInv, Counted, Passed, Running, LoopStop,
      Goto, json, main
<1>8. LostOnlyMixed'
  BY StartupAssumption DEF IInv, Types, LostOnlyMixed, LengthInv, LoopStop, Goto, json, main
<1>9. QED
  BY <1>1, <1>2, <1>3, <1>4, <1>5, <1>6, <1>7, <1>8 DEF IInv

\* A loop that is stuck changes nothing else.
LEMMA JamKeeps ==
  ASSUME IInv, Running, NEW s \in Scales, Jam(s)
  PROVE  IInv'
<1>1. Types'
  BY StartupAssumption
  DEF IInv, Types, LoopPCs, MqttPCs, MainPCs, LDU, Scales, Jam, Goto, json, main
<1>2. LoadInv'
  BY StartupAssumption DEF IInv, Types, LoadInv, Jam, Goto, json, main
<1>3. CountInv'
  <2>1. Counted' = Counted
    BY DEF IInv, Types, KindInv, Counted, LDU, Jam, Goto, json, main
  <2>2. QED
    BY <2>1, NotCounting DEF IInv, Types, Passed, Jam, Goto, json, main
<1>4. JsonInv'
  BY StartupAssumption
  DEF IInv, Types, JsonInv, KindInv, Passed, CountInv, Counted, LDU, Jam, Goto, json, main
<1>5. KindInv'
  BY StartupAssumption DEF IInv, Types, KindInv, LDU, Scales, Jam, Goto, json, main
<1>6. LengthInv'
  BY StartupAssumption DEF IInv, Types, KindInv, LengthInv, LDU, Jam, Goto, json, main
<1>7. CrashHasCause'
  BY StartupAssumption
  DEF IInv, Types, CrashHasCause, JsonInv, CountInv, Counted, Passed, Running, Jam, Goto,
      json, main
<1>8. LostOnlyMixed'
  BY StartupAssumption DEF IInv, Types, LostOnlyMixed, LengthInv, Jam, Goto, json, main
<1>9. QED
  BY <1>1, <1>2, <1>3, <1>4, <1>5, <1>6, <1>7, <1>8 DEF IInv

\* started_cnt counts no loop twice, so all are through.
LEMMA MqttPassKeeps ==
  ASSUME IInv, Running, MqttPass
  PROVE  IInv'
<1>1. Types'
  BY StartupAssumption
  DEF IInv, Types, LoopPCs, MqttPCs, MainPCs, LDU, Scales, MqttPass, Mqtt, loops, json, main
<1>2. LoadInv'
  BY StartupAssumption DEF IInv, Types, LoadInv, MqttPass, Mqtt, loops, json, main
<1>3. CountInv'
  <2>1. Counted = Scales
    BY CountedScales, StartupAssumption, SMT DEF IInv, Types, CountInv, MqttPass
  <2>2. Counted' = Counted
    BY DEF Counted, MqttPass, Mqtt, loops
  <2>3. QED
    BY <2>1, <2>2 DEF IInv, CountInv, MqttPass, Mqtt, loops
<1>4. JsonInv'
  BY StartupAssumption
  DEF IInv, Types, JsonInv, KindInv, Passed, CountInv, Counted, LDU, MqttPass, Mqtt, loops,
      json, main
<1>5. KindInv'
  BY StartupAssumption
  DEF IInv, Types, KindInv, LDU, Scales, MqttPass, Mqtt, loops, json, main
<1>6. LengthInv'
  BY StartupAssumption
  DEF IInv, Types, KindInv, LengthInv, LDU, MqttPass, Mqtt, loops, json, main
<1>7. CrashHasCause'
  BY StartupAssumption
  DEF IInv, Types, CrashHasCause, JsonInv, CountInv, Counted, Passed, Running, MqttPass,
      Mqtt, loops, json, main
<1>8. LostOnlyMixed'
  BY StartupAssumption
  DEF IInv, Types, LostOnlyMixed, LengthInv, MqttPass, Mqtt, loops, json, main
<1>9. QED
  BY <1>1, <1>2, <1>3, <1>4, <1>5, <1>6, <1>7, <1>8 DEF IInv

\* The array is printed when all numbers are in.
LEMMA MqttConvertKeeps ==
  ASSUME IInv, Running, MqttConvert
  PROVE  IInv'
<1>1. Types'
  <2>1. /\ qpc' \in MqttPCs
        /\ jarray' \in {"live", "gone"}
        /\ json_conf' \subseteq SUBSET Scales
        /\ fault' \in BOOLEAN
    BY DEF IInv, Types, MqttPCs, MqttConvert, json
  <2>2. UNCHANGED <<loops, started_cnt, packet_length, json_fail, added, qcancel, main,
                    raced, lost>>
    BY DEF MqttConvert, json
  <2>3. QED
    BY <2>1, <2>2 DEF IInv, Types, loops, main
<1>2. LoadInv'
  BY StartupAssumption DEF IInv, Types, LoadInv, MqttConvert, loops, json, main
<1>3. CountInv'
  BY NotCounting DEF Counted, Passed, MqttConvert, loops, json, main
<1>4. JsonInv'
  <2>1. Counted = Scales /\ Counted' = Counted
    BY DEF MqttConvert, loops, IInv, CountInv, Passed, Counted
  <2>2. json_fail \/ added = Scales
    <3>1. \A s \in Scales :
            kind[s] \in LDU /\ lpc[s] \in {"drop", "length", "loop", "stuck", "ended"}
      BY <2>1 DEF Counted
    <3>2. json_fail \/ \A s \in Scales : s \in added
      BY <3>1 DEF IInv, JsonInv
    <3>3. added \subseteq Scales
      BY DEF IInv, Types
    <3>4. QED
      BY <3>2, <3>3
  <2>3. CASE json_fail
    <3>1. UNCHANGED <<lpc, json_fail, jarray, added, json_conf>> /\ qpc' = "connect"
      BY <2>3 DEF MqttConvert, loops, json
    <3>2. qpc = "convert"
      BY DEF MqttConvert
    <3>3. QED
      BY <2>1, <2>3, <3>1, <3>2 DEF IInv, JsonInv
  <2>4. CASE ~json_fail
    BY <2>1, <2>2, <2>4 DEF MqttConvert, loops, IInv, JsonInv
  <2>5. QED
    BY <2>3, <2>4
<1>5. KindInv'
  BY StartupAssumption DEF IInv, Types, KindInv, LDU, Scales, MqttConvert, loops, json, main
<1>6. LengthInv'
  BY StartupAssumption
  DEF IInv, Types, KindInv, LengthInv, LDU, MqttConvert, loops, json, main
<1>7. CrashHasCause'
  BY StartupAssumption
  DEF IInv, Types, CrashHasCause, JsonInv, CountInv, Counted, Passed, Running, MqttConvert,
      loops, json, main
<1>8. LostOnlyMixed'
  BY StartupAssumption
  DEF IInv, Types, LostOnlyMixed, LengthInv, MqttConvert, loops, json, main
<1>9. QED
  BY <1>1, <1>2, <1>3, <1>4, <1>5, <1>6, <1>7, <1>8 DEF IInv

\* mqtt_thr connects.
LEMMA MqttConnectKeeps ==
  ASSUME IInv, Running, MqttConnect
  PROVE  IInv'
<1>1. Types'
  BY StartupAssumption
  DEF IInv, Types, LoopPCs, MqttPCs, MainPCs, LDU, Scales, MqttConnect, Mqtt, loops, json,
      main
<1>2. LoadInv'
  BY StartupAssumption DEF IInv, Types, LoadInv, MqttConnect, Mqtt, loops, json, main
<1>3. CountInv'
  BY NotCounting DEF Counted, Passed, MqttConnect, Mqtt, loops, json, main
<1>4. JsonInv'
  BY StartupAssumption
  DEF IInv, Types, JsonInv, KindInv, Passed, CountInv, Counted, LDU, MqttConnect, Mqtt,
      loops, json, main
<1>5. KindInv'
  BY StartupAssumption
  DEF IInv, Types, KindInv, LDU, Scales, MqttConnect, Mqtt, loops, json, main
<1>6. LengthInv'
  BY StartupAssumption
  DEF IInv, Types, KindInv, LengthInv, LDU, MqttConnect, Mqtt, loops, json, main
<1>7. CrashHasCause'
  BY StartupAssumption
  DEF IInv, Types, CrashHasCause, JsonInv, CountInv, Counted, Passed, Running, MqttConnect,
      Mqtt, loops, json, main
<1>8. LostOnlyMixed'
  BY StartupAssumption
  DEF IInv, Types, LostOnlyMixed, LengthInv, MqttConnect, Mqtt, loops, json, main
<1>9. QED
  BY <1>1, <1>2, <1>3, <1>4, <1>5, <1>6, <1>7, <1>8 DEF IInv

\* mqtt_thr ends.
LEMMA MqttGivesUpKeeps ==
  ASSUME IInv, Running, MqttGivesUp
  PROVE  IInv'
<1>1. Types'
  BY StartupAssumption
  DEF IInv, Types, LoopPCs, MqttPCs, MainPCs, LDU, Scales, MqttGivesUp, Mqtt, loops, json,
      main
<1>2. LoadInv'
  BY StartupAssumption DEF IInv, Types, LoadInv, MqttGivesUp, Mqtt, loops, json, main
<1>3. CountInv'
  BY NotCounting DEF Counted, Passed, MqttGivesUp, Mqtt, loops, json, main
<1>4. JsonInv'
  BY StartupAssumption
  DEF IInv, Types, JsonInv, KindInv, Passed, CountInv, Counted, LDU, MqttGivesUp, Mqtt,
      loops, json, main
<1>5. KindInv'
  BY StartupAssumption
  DEF IInv, Types, KindInv, LDU, Scales, MqttGivesUp, Mqtt, loops, json, main
<1>6. LengthInv'
  BY StartupAssumption
  DEF IInv, Types, KindInv, LengthInv, LDU, MqttGivesUp, Mqtt, loops, json, main
<1>7. CrashHasCause'
  BY StartupAssumption
  DEF IInv, Types, CrashHasCause, JsonInv, CountInv, Counted, Passed, Running, MqttGivesUp,
      Mqtt, loops, json, main
<1>8. LostOnlyMixed'
  BY StartupAssumption
  DEF IInv, Types, LostOnlyMixed, LengthInv, MqttGivesUp, Mqtt, loops, json, main
<1>9. QED
  BY <1>1, <1>2, <1>3, <1>4, <1>5, <1>6, <1>7, <1>8 DEF IInv

\* json_conf is NULL only when an allocation failed.
LEMMA MqttHelloKeeps ==
  ASSUME IInv, Running, MqttHello
  PROVE  IInv'
<1>1. Types'
  <2>1. qpc' \in MqttPCs
    BY DEF MqttHello, Mqtt, IInv, Types, MqttPCs
  <2>2. mpc' \in MainPCs /\ UNCHANGED <<mi, shutdown_flag, early>>
    BY DEF MqttHello, Mqtt, Crash, main, IInv, Types, MainPCs
  <2>3. QED
    BY <2>1, <2>2 DEF MqttHello, Mqtt, loops, json, IInv, Types
<1>2. LoadInv'
  BY StartupAssumption DEF IInv, Types, LoadInv, MqttHello, Crash, Mqtt, loops, json, main
<1>3. CountInv'
  BY NotCounting DEF Counted, Passed, MqttHello, Crash, Mqtt, loops, json, main
<1>4. JsonInv'
  BY StartupAssumption
  DEF IInv, Types, JsonInv, KindInv, Passed, CountInv, Counted, LDU, MqttHello, Crash, Mqtt,
      loops, json, main
<1>5. KindInv'
  BY StartupAssumption
  DEF IInv, Types, KindInv, LDU, Scales, MqttHello, Crash, Mqtt, loops, json, main
<1>6. LengthInv'
  BY StartupAssumption
  DEF IInv, Types, KindInv, LengthInv, LDU, MqttHello, Crash, Mqtt, loops, json, main
<1>7. CrashHasCause'
  BY StartupAssumption
  DEF IInv, Types, CrashHasCause, JsonInv, CountInv, Counted, Passed, Running, MqttHello,
      Crash, Mqtt, loops, json, main
<1>8. LostOnlyMixed'
  BY StartupAssumption
  DEF IInv, Types, LostOnlyMixed, LengthInv, MqttHello, Crash, Mqtt, loops, json, main
<1>9. QED
  BY <1>1, <1>2, <1>3, <1>4, <1>5, <1>6, <1>7, <1>8 DEF IInv

\* The connection to the broker is lost.
LEMMA MqttBrokenKeeps ==
  ASSUME IInv, Running, MqttBroken
  PROVE  IInv'
<1>1. Types'
  BY StartupAssumption
  DEF IInv, Types, LoopPCs, MqttPCs, MainPCs, LDU, Scales, MqttBroken, Mqtt, loops, json,
      main
<1>2. LoadInv'
  BY StartupAssumption DEF IInv, Types, LoadInv, MqttBroken, Mqtt, loops, json, main
<1>3. CountInv'
  BY NotCounting DEF Counted, Passed, MqttBroken, Mqtt, loops, json, main
<1>4. JsonInv'
  BY StartupAssumption
  DEF IInv, Types, JsonInv, KindInv, Passed, CountInv, Counted, LDU, MqttBroken, Mqtt,
      loops, json, main
<1>5. KindInv'
  BY StartupAssumption
  DEF IInv, Types, KindInv, LDU, Scales, MqttBroken, Mqtt, loops, json, main
<1>6. LengthInv'
  BY StartupAssumption
  DEF IInv, Types, KindInv, LengthInv, LDU, MqttBroken, Mqtt, loops, json, main
<1>7. CrashHasCause'
  BY StartupAssumption
  DEF IInv, Types, CrashHasCause, JsonInv, CountInv, Counted, Passed, Running, MqttBroken,
      Mqtt, loops, json, main
<1>8. LostOnlyMixed'
  BY StartupAssumption
  DEF IInv, Types, LostOnlyMixed, LengthInv, MqttBroken, Mqtt, loops, json, main
<1>9. QED
  BY <1>1, <1>2, <1>3, <1>4, <1>5, <1>6, <1>7, <1>8 DEF IInv

\* mqtt_thr connects again.
LEMMA MqttReconnectKeeps ==
  ASSUME IInv, Running, MqttReconnect
  PROVE  IInv'
<1>1. Types'
  BY StartupAssumption
  DEF IInv, Types, LoopPCs, MqttPCs, MainPCs, LDU, Scales, MqttReconnect, Mqtt, loops, json,
      main
<1>2. LoadInv'
  BY StartupAssumption DEF IInv, Types, LoadInv, MqttReconnect, Mqtt, loops, json, main
<1>3. CountInv'
  BY NotCounting DEF Counted, Passed, MqttReconnect, Mqtt, loops, json, main
<1>4. JsonInv'
  BY StartupAssumption
  DEF IInv, Types, JsonInv, KindInv, Passed, CountInv, Counted, LDU, MqttReconnect, Mqtt,
      loops, json, main
<1>5. KindInv'
  BY StartupAssumption
  DEF IInv, Types, KindInv, LDU, Scales, MqttReconnect, Mqtt, loops, json, main
<1>6. LengthInv'
  BY StartupAssumption
  DEF IInv, Types, KindInv, LengthInv, LDU, MqttReconnect, Mqtt, loops, json, main
<1>7. CrashHasCause'
  BY StartupAssumption
  DEF IInv, Types, CrashHasCause, JsonInv, CountInv, Counted, Passed, Running,
      MqttReconnect, Mqtt, loops, json, main
<1>8. LostOnlyMixed'
  BY StartupAssumption
  DEF IInv, Types, LostOnlyMixed, LengthInv, MqttReconnect, Mqtt, loops, json, main
<1>9. QED
  BY <1>1, <1>2, <1>3, <1>4, <1>5, <1>6, <1>7, <1>8 DEF IInv

\* mqtt_thr sees shutdown_flag.
LEMMA MqttStopKeeps ==
  ASSUME IInv, Running, MqttStop
  PROVE  IInv'
<1>1. Types'
  BY StartupAssumption
  DEF IInv, Types, LoopPCs, MqttPCs, MainPCs, LDU, Scales, MqttStop, Mqtt, loops, json, main
<1>2. LoadInv'
  BY StartupAssumption DEF IInv, Types, LoadInv, MqttStop, Mqtt, loops, json, main
<1>3. CountInv'
  BY NotCounting DEF Counted, Passed, MqttStop, Mqtt, loops, json, main
<1>4. JsonInv'
  BY StartupAssumption
  DEF IInv, Types, JsonInv, KindInv, Passed, CountInv, Counted, LDU, MqttStop, Mqtt, loops,
      json, main
<1>5. KindInv'
  BY StartupAssumption
  DEF IInv, Types, KindInv, LDU, Scales, MqttStop, Mqtt, loops, json, main
<1>6. LengthInv'
  BY StartupAssumption
  DEF IInv, Types, KindInv, LengthInv, LDU, MqttStop, Mqtt, loops, json, main
<1>7. CrashHasCause'
  BY StartupAssumption
  DEF IInv, Types, CrashHasCause, JsonInv, CountInv, Counted, Passed, Running, MqttStop,
      Mqtt, loops, json, main
<1>8. LostOnlyMixed'
  BY StartupAssumption
  DEF IInv, Types, LostOnlyMixed, LengthInv, MqttStop, Mqtt, loops, json, main
<1>9. QED
  BY <1>1, <1>2, <1>3, <1>4, <1>5, <1>6, <1>7, <1>8 DEF IInv

\* mqtt_thr is cancelled where it waits.
LEMMA MqttCancelledKeeps ==
  ASSUME IInv, Running, MqttCancelled
  PROVE  IInv'
<1>1. Types'
  BY StartupAssumption
  DEF IInv, Types, LoopPCs, MqttPCs, MainPCs, LDU, Scales, MqttCancelled, Mqtt, loops, json,
      main
<1>2. LoadInv'
  BY StartupAssumption DEF IInv, Types, LoadInv, MqttCancelled, Mqtt, loops, json, main
<1>3. CountInv'
  BY NotCounting DEF Counted, Passed, MqttCancelled, Mqtt, loops, json, main
<1>4. JsonInv'
  BY StartupAssumption
  DEF IInv, Types, JsonInv, KindInv, Passed, CountInv, Counted, LDU, MqttCancelled, Mqtt,
      loops, json, main
<1>5. KindInv'
  BY StartupAssumption
  DEF IInv, Types, KindInv, LDU, Scales, MqttCancelled, Mqtt, loops, json, main
<1>6. LengthInv'
  BY StartupAssumption
  DEF IInv, Types, KindInv, LengthInv, LDU, MqttCancelled, Mqtt, loops, json, main
<1>7. CrashHasCause'
  BY StartupAssumption
  DEF IInv, Types, CrashHasCause, JsonInv, CountInv, Counted, Passed, Running,
      MqttCancelled, Mqtt, loops, json, main
<1>8. LostOnlyMixed'
  BY StartupAssumption
  DEF IInv, Types, LostOnlyMixed, LengthInv, MqttCancelled, Mqtt, loops, json, main
<1>9. QED
  BY <1>1, <1>2, <1>3, <1>4, <1>5, <1>6, <1>7, <1>8 DEF IInv

\* The next scale gets its loop.
LEMMA StartScaleKeeps ==
  ASSUME IInv, Running, StartScale
  PROVE  IInv'
<1>1. Types'
  <2>1. lpc' \in [Scales -> LoopPCs]
    BY DEF StartScale, Goto, IInv, Types, LoopPCs
  <2>2. mi' \in 0 .. ScaleCnt
    BY StartupAssumption, SMT DEF StartScale, IInv, Types
  <2>3. fault' \in BOOLEAN
    BY DEF StartScale, IInv, Types
  <2>4. QED
    BY <2>1, <2>2, <2>3 DEF StartScale, json, IInv, Types
<1>2. LoadInv'
  BY StartupAssumption DEF IInv, Types, LoadInv, StartScale, Goto, json
<1>3. CountInv'
  <2>1. Counted' = Counted
    BY DEF IInv, Types, KindInv, Counted, LDU, StartScale, Goto, json
  <2>2. QED
    BY <2>1, NotCounting DEF IInv, Types, Passed, StartScale, Goto, json
<1>4. JsonInv'
  BY StartupAssumption
  DEF IInv, Types, JsonInv, KindInv, Passed, CountInv, Counted, LDU, StartScale, Goto, json
<1>5. KindInv'
  BY StartupAssumption, SMT DEF IInv, Types, KindInv, LDU, Scales, StartScale, Goto, json
<1>6. LengthInv'
  BY StartupAssumption DEF IInv, Types, KindInv, LengthInv, LDU, StartScale, Goto, json
<1>7. CrashHasCause'
  BY StartupAssumption
  DEF IInv, Types, CrashHasCause, JsonInv, CountInv, Counted, Passed, Running, StartScale,
      Goto, json
<1>8. LostOnlyMixed'
  BY StartupAssumption DEF IInv, Types, LostOnlyMixed, LengthInv, StartScale, Goto, json
<1>9. QED
  BY <1>1, <1>2, <1>3, <1>4, <1>5, <1>6, <1>7, <1>8 DEF IInv

\* All scales have their loops.
LEMMA ScalesStartedKeeps ==
  ASSUME IInv, Running, ScalesStarted
  PROVE  IInv'
<1>1. Types'
  BY StartupAssumption
  DEF IInv, Types, LoopPCs, MqttPCs, MainPCs, LDU, Scales, ScalesStarted, MainGoto, loops,
      json
<1>2. LoadInv'
  BY StartupAssumption DEF IInv, Types, LoadInv, ScalesStarted, MainGoto, loops, json
<1>3. CountInv'
  BY NotCounting DEF Counted, Passed, ScalesStarted, MainGoto, loops, json
<1>4. JsonInv'
  BY StartupAssumption
  DEF IInv, Types, JsonInv, KindInv, Passed, CountInv, Counted, LDU, ScalesStarted,
      MainGoto, loops, json
<1>5. KindInv'
  BY StartupAssumption
  DEF IInv, Types, KindInv, LDU, Scales, ScalesStarted, MainGoto, loops, json
<1>6. LengthInv'
  BY StartupAssumption
  DEF IInv, Types, KindInv, LengthInv, LDU, ScalesStarted, MainGoto, loops, json
<1>7. CrashHasCause'
  BY StartupAssumption
  DEF IInv, Types, CrashHasCause, JsonInv, CountInv, Counted, Passed, Running,
      ScalesStarted, MainGoto, loops, json
<1>8. LostOnlyMixed'
  BY StartupAssumption
  DEF IInv, Types, LostOnlyMixed, LengthInv, ScalesStarted, MainGoto, loops, json
<1>9. QED
  BY <1>1, <1>2, <1>3, <1>4, <1>5, <1>6, <1>7, <1>8 DEF IInv

\* main comes to pause(), or ends.
LEMMA StartServersKeeps ==
  ASSUME IInv, Running, StartServers
  PROVE  IInv'
<1>1. Types'
  <2>1. qpc' \in MqttPCs /\ mpc' \in MainPCs /\ mi' = mi
    BY DEF StartServers, MainGoto, IInv, Types, MqttPCs, MainPCs
  <2>2. QED
    BY <2>1 DEF StartServers, MainGoto, loops, json, IInv, Types
<1>2. LoadInv'
  BY StartupAssumption DEF IInv, Types, LoadInv, StartServers, MainGoto, loops, json
<1>3. CountInv'
  BY NotCounting DEF Counted, Passed, StartServers, MainGoto, loops, json
<1>4. JsonInv'
  BY StartupAssumption
  DEF IInv, Types, JsonInv, KindInv, Passed, CountInv, Counted, LDU, StartServers, MainGoto,
      loops, json
<1>5. KindInv'
  BY StartupAssumption
  DEF IInv, Types, KindInv, LDU, Scales, StartServers, MainGoto, loops, json
<1>6. LengthInv'
  BY StartupAssumption
  DEF IInv, Types, KindInv, LengthInv, LDU, StartServers, MainGoto, loops, json
<1>7. CrashHasCause'
  BY StartupAssumption
  DEF IInv, Types, CrashHasCause, JsonInv, CountInv, Counted, Passed, Running, StartServers,
      MainGoto, loops, json
<1>8. LostOnlyMixed'
  BY StartupAssumption
  DEF IInv, Types, LostOnlyMixed, LengthInv, StartServers, MainGoto, loops, json
<1>9. QED
  BY <1>1, <1>2, <1>3, <1>4, <1>5, <1>6, <1>7, <1>8 DEF IInv

\* main closes the sockets.
LEMMA CloseSocketsKeeps ==
  ASSUME IInv, Running, CloseSockets
  PROVE  IInv'
<1>1. Types'
  BY StartupAssumption
  DEF IInv, Types, LoopPCs, MqttPCs, MainPCs, LDU, Scales, CloseSockets, MainGoto, loops,
      json
<1>2. LoadInv'
  BY StartupAssumption DEF IInv, Types, LoadInv, CloseSockets, MainGoto, loops, json
<1>3. CountInv'
  BY NotCounting DEF Counted, Passed, CloseSockets, MainGoto, loops, json
<1>4. JsonInv'
  BY StartupAssumption
  DEF IInv, Types, JsonInv, KindInv, Passed, CountInv, Counted, LDU, CloseSockets, MainGoto,
      loops, json
<1>5. KindInv'
  BY StartupAssumption
  DEF IInv, Types, KindInv, LDU, Scales, CloseSockets, MainGoto, loops, json
<1>6. LengthInv'
  BY StartupAssumption
  DEF IInv, Types, KindInv, LengthInv, LDU, CloseSockets, MainGoto, loops, json
<1>7. CrashHasCause'
  BY StartupAssumption
  DEF IInv, Types, CrashHasCause, JsonInv, CountInv, Counted, Passed, Running, CloseSockets,
      MainGoto, loops, json
<1>8. LostOnlyMixed'
  BY StartupAssumption
  DEF IInv, Types, LostOnlyMixed, LengthInv, CloseSockets, MainGoto, loops, json
<1>9. QED
  BY <1>1, <1>2, <1>3, <1>4, <1>5, <1>6, <1>7, <1>8 DEF IInv

\* main stops the clients.
LEMMA StopClientsKeeps ==
  ASSUME IInv, Running, StopClients
  PROVE  IInv'
<1>1. Types'
  BY StartupAssumption
  DEF IInv, Types, LoopPCs, MqttPCs, MainPCs, LDU, Scales, StopClients, MainGoto, loops,
      json
<1>2. LoadInv'
  BY StartupAssumption DEF IInv, Types, LoadInv, StopClients, MainGoto, loops, json
<1>3. CountInv'
  BY NotCounting DEF Counted, Passed, StopClients, MainGoto, loops, json
<1>4. JsonInv'
  BY StartupAssumption
  DEF IInv, Types, JsonInv, KindInv, Passed, CountInv, Counted, LDU, StopClients, MainGoto,
      loops, json
<1>5. KindInv'
  BY StartupAssumption
  DEF IInv, Types, KindInv, LDU, Scales, StopClients, MainGoto, loops, json
<1>6. LengthInv'
  BY StartupAssumption
  DEF IInv, Types, KindInv, LengthInv, LDU, StopClients, MainGoto, loops, json
<1>7. CrashHasCause'
  BY StartupAssumption
  DEF IInv, Types, CrashHasCause, JsonInv, CountInv, Counted, Passed, Running, StopClients,
      MainGoto, loops, json
<1>8. LostOnlyMixed'
  BY StartupAssumption
  DEF IInv, Types, LostOnlyMixed, LengthInv, StopClients, MainGoto, loops, json
<1>9. QED
  BY <1>1, <1>2, <1>3, <1>4, <1>5, <1>6, <1>7, <1>8 DEF IInv

\* main joins the next loop.
LEMMA JoinScaleKeeps ==
  ASSUME IInv, Running, JoinScale
  PROVE  IInv'
<1>1. Types'
  BY StartupAssumption, SMT
  DEF IInv, Types, LoopPCs, MqttPCs, MainPCs, LDU, Scales, JoinScale, Crash, main, loops,
      json
<1>2. LoadInv'
  BY StartupAssumption DEF IInv, Types, LoadInv, JoinScale, Crash, main, loops, json
<1>3. CountInv'
  BY NotCounting DEF Counted, Passed, JoinScale, Crash, main, loops, json
<1>4. JsonInv'
  BY StartupAssumption
  DEF IInv, Types, JsonInv, KindInv, Passed, CountInv, Counted, LDU, JoinScale, Crash, main,
      loops, json
<1>5. KindInv'
  BY StartupAssumption, SMT
  DEF IInv, Types, KindInv, LDU, Scales, JoinScale, Crash, main, loops, json
<1>6. LengthInv'
  BY StartupAssumption
  DEF IInv, Types, KindInv, LengthInv, LDU, JoinScale, Crash, main, loops, json
<1>7. CrashHasCause'
  BY StartupAssumption
  DEF IInv, Types, CrashHasCause, KindInv, Scales, Running, JoinScale, Crash, main, loops,
      json
<1>8. LostOnlyMixed'
  BY StartupAssumption
  DEF IInv, Types, LostOnlyMixed, LengthInv, JoinScale, Crash, main, loops, json
<1>9. QED
  BY <1>1, <1>2, <1>3, <1>4, <1>5, <1>6, <1>7, <1>8 DEF IInv

\* main returns.
LEMMA ReturnKeeps ==
  ASSUME IInv, Running, Return
  PROVE  IInv'
<1>1. Types'
  BY StartupAssumption
  DEF IInv, Types, LoopPCs, MqttPCs, MainPCs, LDU, Scales, Return, MainGoto, loops, json
<1>2. LoadInv'
  BY StartupAssumption DEF IInv, Types, LoadInv, Return, MainGoto, loops, json
<1>3. CountInv'
  BY NotCounting DEF Counted, Passed, Return, MainGoto, loops, json
<1>4. JsonInv'
  BY StartupAssumption
  DEF IInv, Types, JsonInv, KindInv, Passed, CountInv, Counted, LDU, Return, MainGoto,
      loops, json
<1>5. KindInv'
  BY StartupAssumption DEF IInv, Types, KindInv, LDU, Scales, Return, MainGoto, loops, json
<1>6. LengthInv'
  BY StartupAssumption
  DEF IInv, Types, KindInv, LengthInv, LDU, Return, MainGoto, loops, json
<1>7. CrashHasCause'
  BY StartupAssumption
  DEF IInv, Types, CrashHasCause, JsonInv, CountInv, Counted, Passed, Running, Return,
      MainGoto, loops, json
<1>8. LostOnlyMixed'
  BY StartupAssumption
  DEF IInv, Types, LostOnlyMixed, LengthInv, Return, MainGoto, loops, json
<1>9. QED
  BY <1>1, <1>2, <1>3, <1>4, <1>5, <1>6, <1>7, <1>8 DEF IInv

\* A signal before pause() is remembered in early.
LEMMA SigIntKeeps ==
  ASSUME IInv, Running, SigInt
  PROVE  IInv'
<1>1. Types'
  <2>1. UNCHANGED <<kind, lpc, ltmp, m, started_cnt, packet_length, json_fail,
                    jarray, added, json_conf, qpc, mi, raced, lost,
                    fault>>
    BY DEF SigInt, loops, json
  <2>2. mpc' \in MainPCs
    BY DEF IInv, Types, MainPCs, SigInt
  <2>3. qcancel' \in BOOLEAN /\ shutdown_flag' \in BOOLEAN /\ early' \in BOOLEAN
    BY Zenon DEF IInv, Types, SigInt
  <2>4. QED
    BY <2>1, <2>2, <2>3 DEF IInv, Types
<1>2. LoadInv'
  BY StartupAssumption DEF IInv, Types, LoadInv, SigInt, loops, json
<1>3. CountInv'
  BY NotCounting DEF Counted, Passed, SigInt, loops, json
<1>4. JsonInv'
  BY StartupAssumption
  DEF IInv, Types, JsonInv, KindInv, Passed, CountInv, Counted, LDU, SigInt, loops, json
<1>5. KindInv'
  BY StartupAssumption DEF IInv, Types, KindInv, LDU, Scales, SigInt, loops, json
<1>6. LengthInv'
  BY StartupAssumption DEF IInv, Types, KindInv, LengthInv, LDU, SigInt, loops, json
<1>7. CrashHasCause'
  BY StartupAssumption
  DEF IInv, Types, CrashHasCause, JsonInv, CountInv, Counted, Passed, Running, SigInt,
      loops, json
<1>8. LostOnlyMixed'
  BY StartupAssumption DEF IInv, Types, LostOnlyMixed, LengthInv, SigInt, loops, json
<1>9. QED
  BY <1>1, <1>2, <1>3, <1>4, <1>5, <1>6, <1>7, <1>8 DEF IInv

\* SIGUSR ends pause() as well.
LEMMA SigUsrKeeps ==
  ASSUME IInv, Running, SigUsr
  PROVE  IInv'
<1>1. Types'
  BY StartupAssumption
  DEF IInv, Types, LoopPCs, MqttPCs, MainPCs, LDU, Scales, SigUsr, MainGoto, loops, json
<1>2. LoadInv'
  BY StartupAssumption DEF IInv, Types, LoadInv, SigUsr, MainGoto, loops, json
<1>3. CountInv'
  BY NotCounting DEF Counted, Passed, SigUsr, MainGoto, loops, json
<1>4. JsonInv'
  BY StartupAssumption
  DEF IInv, Types, JsonInv, KindInv, Passed, CountInv, Counted, LDU, SigUsr, MainGoto,
      loops, json
<1>5. KindInv'
  BY StartupAssumption DEF IInv, Types, KindInv, LDU, Scales, SigUsr, MainGoto, loops, json
<1>6. LengthInv'
  BY StartupAssumption
  DEF IInv, Types, KindInv, LengthInv, LDU, SigUsr, MainGoto, loops, json
<1>7. CrashHasCause'
  BY StartupAssumption
  DEF IInv, Types, CrashHasCause, JsonInv, CountInv, Counted, Passed, Running, SigUsr,
      MainGoto, loops, json
<1>8. LostOnlyMixed'
  BY StartupAssumption
  DEF IInv, Types, LostOnlyMixed, LengthInv, SigUsr, MainGoto, loops, json
<1>9. QED
  BY <1>1, <1>2, <1>3, <1>4, <1>5, <1>6, <1>7, <1>8 DEF IInv

\* Every step keeps the invariant.
LEMMA NextIInv ==
  ASSUME IInv, [Next]_vars
  PROVE  IInv'
<1>1. CASE Next
  BY <1>1, OpenKeeps, OpenUndefinedKeeps, OpenJamsKeeps, TestFailKeeps, AddKeeps,
     AddFailsKeeps, CleanJsonKeeps, LoadCntKeeps, StoreCntKeeps, DropBufKeeps,
     SetLengthKeeps, PacketKeeps, LoopStopKeeps, JamKeeps, MqttPassKeeps, MqttConvertKeeps,
     MqttConnectKeeps, MqttGivesUpKeeps, MqttHelloKeeps, MqttBrokenKeeps,
     MqttReconnectKeeps, MqttStopKeeps, MqttCancelledKeeps, StartScaleKeeps,
     ScalesStartedKeeps, StartServersKeeps, CloseSocketsKeeps, StopClientsKeeps,
     JoinScaleKeeps, ReturnKeeps, SigIntKeeps, SigUsrKeeps
  DEF Next, Loop, MqttThread, Main
<1>2. CASE UNCHANGED vars
  <2>1. Types' /\ LoadInv'
    BY <1>2 DEF IInv, Types, LoadInv, vars, loops, json, main
  <2>2. CountInv' /\ JsonInv'
    BY <1>2 DEF IInv, CountInv, JsonInv, Counted, Passed, vars, loops, json, main
  <2>3. KindInv' /\ LengthInv'
    BY <1>2 DEF IInv, KindInv, LengthInv, vars, loops, json, main
  <2>4. CrashHasCause' /\ LostOnlyMixed'
    BY <1>2 DEF IInv, CrashHasCause, LostOnlyMixed, vars, loops, json, main
  <2>5. QED
    BY <2>1, <2>2, <2>3, <2>4 DEF IInv
<1>3. QED
  BY <1>1, <1>2

\* The invariant behind every theorem of this module.
THEOREM Invariance == Spec => []IInv
<1>1. Init => IInv
  BY InitIInv
<1>2. IInv /\ [Next]_vars => IInv'
  BY NextIInv
<1>3. QED
  BY <1>1, <1>2, PTL DEF Spec

\* started_cnt never exceeds the number of scales, however increments overlap.
THEOREM TypeCorrect == Spec => []TypeOK
BY Invariance, IInvTypes, PTL

\* mqtt_thr prints the array only when every scale is in it.
THEOREM PrintsWhole == Spec => []PrintedWhole
<1>1. IInv => PrintedWhole
  BY DEF IInv, CountInv, JsonInv, PrintedWhole
<1>2. QED
  BY Invariance, <1>1, PTL

\* No loop works on the array after mqtt_thr has deleted it.
THEOREM JsonStaysAlive == Spec => []JsonAlive
<1>1. IInv => JsonAlive
  BY DEF IInv, JsonInv, JsonAlive, Counted
<1>2. QED
  BY Invariance, <1>1, PTL

\* The races of the start bring the daemon down only together with a failure.
THEOREM CrashesHaveCause == Spec => []CrashHasCause
<1>1. IInv => CrashHasCause
  BY DEF IInv
<1>2. QED
  BY Invariance, <1>1, PTL

\* With one kind of scale no whole packet is discarded.
THEOREM LosesOnlyMixed == Spec => []LostOnlyMixed
<1>1. IInv => LostOnlyMixed
  BY DEF IInv
<1>2. QED
  BY Invariance, <1>1, PTL
=============================================================================
