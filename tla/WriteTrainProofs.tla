--------------------------- MODULE WriteTrainProofs ---------------------------
(***************************************************************************)
(* Proofs about WriteTrain for any number of programs, trains, cars and    *)
(* connections.  The invariant says whose session is whose, what rows wait *)
(* in the transaction of a call, and which ids are still free.             *)
(***************************************************************************)
EXTENDS WriteTrain, TLAPS

\* Sessions are numbered in the order they were made; a session belongs to
\* one program, and rows wait only in an open transaction.
SessInv ==
  /\ \A i \in Instances : conn[i] < next_conn
  /\ \A i, j \in Instances : i # j /\ conn[i] # 0 => conn[i] # conn[j]
  /\ \A n \in Sessions : n >= next_conn <=> tx[n] = "none"
  /\ \A n \in Sessions : tx[n] # "open" => pending[n] = {}

\* The rows of the call of program i so far.
Inserted(i) == {<<id[i], c, train[i]>> : c \in 0 .. car[i]}

\* What the label of a call says about its session and its rows.
CallOK(i) ==
  /\ pc[i] # "idle" => /\ conn[i] \in Sessions /\ train[i] \in Trains
                       /\ tx[conn[i]] # "none"
  /\ pc[i] # "cars" => car[i] = 0
  /\ pc[i] = "train" => /\ tx[conn[i]] \in {"open", "gone"}
                        /\ pending[conn[i]] = {}
  /\ pc[i] = "cars" => /\ tx[conn[i]] \in {"open", "gone"}
                       /\ id[i] \in Ids /\ id[i] < next_id
                       /\ answer[id[i]] = "none"
                       /\ tx[conn[i]] = "open" => pending[conn[i]] = Inserted(i)

CallInv == \A i \in Instances : CallOK(i)

\* An id belongs to one call.
IdInv ==
  /\ \A i, j \in Instances :
       i # j /\ pc[i] = "cars" /\ pc[j] = "cars" => id[i] # id[j]
  /\ \A n \in Ids : n >= next_id => answer[n] = "none"

IInv == TypeOK /\ SessInv /\ CallInv /\ IdInv /\ AnswerTrue /\ NoOpenLeft

\* The invariant holds at the start.
LEMMA InitIInv == Init => IInv
  BY WriteTrainAssumption, SMT DEF Init, IInv, TypeOK, SessInv, CallInv,
      CallOK, IdInv, AnswerTrue, NoOpenLeft,
    Sessions, Ids, PCs, TxState, Answers, Rows, Inserted

\* Two programs never share a session.
LEMMA SessionsDiffer ==
  ASSUME IInv, NEW i \in Instances, NEW j \in Instances, i # j,
         pc[j] # "idle"
  PROVE  conn[j] # conn[i]
<1>1. conn[j] \in Sessions
  BY DEF IInv, CallInv, CallOK
<1>2. conn[j] # 0
  BY <1>1, WriteTrainAssumption, SMT DEF Sessions
<1>3. QED
  BY <1>2 DEF IInv, SessInv

\* A call is as it was when nothing has touched its session and its answer.
LEMMA OtherKept ==
  ASSUME NEW j \in Instances, CallOK(j),
         conn'[j] = conn[j], pc'[j] = pc[j], train'[j] = train[j],
         id'[j] = id[j], car'[j] = car[j], next_id' = next_id,
         pc[j] = "cars" => answer'[id[j]] = answer[id[j]],
         pc[j] # "idle" => /\ tx'[conn[j]] = tx[conn[j]]
                           /\ pending'[conn[j]] = pending[conn[j]]
  PROVE  CallOK(j)'
<1>1. Inserted(j)' = Inserted(j)
  BY DEF Inserted
<1>2. QED
  BY <1>1 DEF CallOK

\* A new session has no transaction, and nobody else has it.
LEMMA ConnectKeeps ==
  ASSUME IInv, NEW i \in Instances, Connect(i)
  PROVE  IInv'
<1>1. TypeOK'
  BY WriteTrainAssumption, SMT
    DEF IInv, TypeOK, CallInv, CallOK, PCs, TxState, Answers, Ids, Sessions,
    Connect, program
<1>2. SessInv'
  <2>1. /\ next_conn \in Sessions /\ next_conn' = next_conn + 1
        /\ conn' = [conn EXCEPT ![i] = next_conn]
        /\ tx' = [tx EXCEPT ![next_conn] = "idle"] /\ pending' = pending
    BY DEF Connect
  <2>2. \A j \in Instances : conn[j] \in Nat /\ conn[j] < next_conn
    BY WriteTrainAssumption, SMT DEF IInv, TypeOK, SessInv, Sessions
  <2>3. \A j \in Instances : conn'[j] < next_conn'
    BY <2>1, <2>2, SMT DEF IInv, TypeOK, Sessions
  <2>4. \A j, k \in Instances : j # k /\ conn'[j] # 0 => conn'[j] # conn'[k]
    BY <2>1, <2>2, SMT DEF IInv, TypeOK, SessInv, Sessions
  <2>5. \A n \in Sessions : n >= next_conn' <=> tx'[n] = "none"
    BY <2>1, SMT DEF IInv, TypeOK, SessInv, Sessions
  <2>6. \A n \in Sessions : tx'[n] # "open" => pending'[n] = {}
    BY <2>1, SMT DEF IInv, TypeOK, SessInv, Sessions
  <2>7. QED
    BY <2>3, <2>4, <2>5, <2>6 DEF SessInv
<1>3. CallInv'
  BY WriteTrainAssumption, SMT
    DEF IInv, TypeOK, SessInv, CallInv, CallOK, IdInv, Inserted, Sessions, Ids,
    Connect, program
<1>4. IdInv'
  BY WriteTrainAssumption, SMT
    DEF IInv, TypeOK, CallInv, CallOK, IdInv, Ids,
    Connect, program
<1>5. AnswerTrue'
  BY WriteTrainAssumption, SMT
    DEF IInv, AnswerTrue,
    Connect, program
<1>6. NoOpenLeft'
  <2>1. SUFFICES ASSUME NEW s \in Sessions, tx'[s] = "open"
                 PROVE  \E j \in Instances : conn'[j] = s /\ pc'[j] \in {"train", "cars"}
    BY DEF NoOpenLeft
  <2>2. tx[s] = "open"
    BY <2>1 DEF Connect, IInv, TypeOK
  <2>3. PICK j \in Instances : conn[j] = s /\ pc[j] \in {"train", "cars"}
    BY <2>2 DEF IInv, NoOpenLeft
  <2>4. conn'[j] = conn[j] /\ pc' = pc
    BY <2>3 DEF Connect, program, IInv, TypeOK
  <2>5. QED
    BY <2>3, <2>4
<1>7. QED
  BY <1>1, <1>2, <1>3, <1>4, <1>5, <1>6 DEF IInv

\* A program that drops its session leaves it idle: it was between calls.
LEMMA ConnectFailsKeeps ==
  ASSUME IInv, NEW i \in Instances, ConnectFails(i)
  PROVE  IInv'
<1>1. TypeOK'
  BY WriteTrainAssumption, SMT
    DEF IInv, TypeOK, CallInv, CallOK, PCs, TxState, Answers, Ids, Sessions,
    ConnectFails, program
<1>2. SessInv'
  BY WriteTrainAssumption, SMT
    DEF IInv, TypeOK, SessInv, CallInv, CallOK, Sessions,
    ConnectFails, program
<1>3. CallInv'
  <2>1. /\ pc[i] = "idle" /\ conn' = [conn EXCEPT ![i] = 0]
        /\ UNCHANGED <<pc, train, id, car, tx, pending, next_id, answer>>
    BY DEF ConnectFails, program
  <2>2. ASSUME NEW j \in Instances
        PROVE  CallOK(j)'
    <3>1. CallOK(j)
      BY DEF IInv, CallInv
    <3>2. CASE j = i
      BY <2>1, <3>1, <3>2 DEF CallOK
    <3>3. CASE j # i
      <4>1. conn'[j] = conn[j]
        BY <2>1, <3>3 DEF IInv, TypeOK
      <4>2. QED
        BY <2>1, <3>1, <4>1, OtherKept
    <3>4. QED
      BY <3>2, <3>3
  <2>3. QED
    BY <2>2 DEF CallInv
<1>4. IdInv'
  BY WriteTrainAssumption, SMT
    DEF IInv, TypeOK, CallInv, CallOK, IdInv, Ids,
    ConnectFails, program
<1>5. AnswerTrue'
  <2>1. db' = db /\ answer' = answer
    BY DEF ConnectFails
  <2>2. QED
    BY <2>1 DEF IInv, AnswerTrue
<1>6. NoOpenLeft'
  <2>1. SUFFICES ASSUME NEW s \in Sessions, tx'[s] = "open"
                 PROVE  \E j \in Instances : conn'[j] = s /\ pc'[j] \in {"train", "cars"}
    BY DEF NoOpenLeft
  <2>2. tx[s] = "open"
    BY <2>1 DEF ConnectFails, IInv, TypeOK
  <2>3. PICK j \in Instances : conn[j] = s /\ pc[j] \in {"train", "cars"}
    BY <2>2 DEF IInv, NoOpenLeft
  <2>4. conn'[j] = conn[j] /\ pc' = pc
    BY <2>3 DEF ConnectFails, program, IInv, TypeOK
  <2>5. QED
    BY <2>3, <2>4
<1>7. QED
  BY <1>1, <1>2, <1>3, <1>4, <1>5, <1>6 DEF IInv

\* Closing rolls back, and only this program used the session.
LEMMA CloseKeeps ==
  ASSUME IInv, NEW i \in Instances, Close(i)
  PROVE  IInv'
<1>1. TypeOK'
  BY WriteTrainAssumption, SMT
    DEF IInv, TypeOK, CallInv, CallOK, PCs, TxState, Answers, Ids, Sessions,
    Close, program
<1>2. SessInv'
  BY WriteTrainAssumption, SMT
    DEF IInv, TypeOK, SessInv, CallInv, CallOK, Sessions,
    Close, program
<1>3. CallInv'
  <2>1. /\ pc[i] = "idle" /\ conn' = [conn EXCEPT ![i] = 0]
        /\ tx' = [tx EXCEPT ![conn[i]] = "gone"]
        /\ pending' = [pending EXCEPT ![conn[i]] = {}]
        /\ UNCHANGED <<pc, train, id, car, next_id, answer>>
    BY DEF Close, program
  <2>2. ASSUME NEW j \in Instances
        PROVE  CallOK(j)'
    <3>1. CallOK(j)
      BY DEF IInv, CallInv
    <3>2. CASE j = i
      BY <2>1, <3>1, <3>2 DEF CallOK
    <3>3. CASE j # i
      <4>1. conn'[j] = conn[j]
        BY <2>1, <3>3 DEF IInv, TypeOK
      <4>2. pc[j] # "idle" => conn[j] # conn[i]
        BY <3>3, SessionsDiffer
      <4>3. pc[j] # "idle" => /\ tx'[conn[j]] = tx[conn[j]]
                             /\ pending'[conn[j]] = pending[conn[j]]
        BY <2>1, <3>1, <4>2 DEF IInv, TypeOK, CallOK
      <4>4. QED
        BY <2>1, <3>1, <4>1, <4>3, OtherKept
    <3>4. QED
      BY <3>2, <3>3
  <2>3. QED
    BY <2>2 DEF CallInv
<1>4. IdInv'
  BY WriteTrainAssumption, SMT
    DEF IInv, TypeOK, CallInv, CallOK, IdInv, Ids,
    Close, program
<1>5. AnswerTrue'
  <2>1. db' = db /\ answer' = answer
    BY DEF Close
  <2>2. QED
    BY <2>1 DEF IInv, AnswerTrue
<1>6. NoOpenLeft'
  BY WriteTrainAssumption, SMT
    DEF IInv, TypeOK, SessInv, CallInv, CallOK, NoOpenLeft, Sessions,
    Close, program
<1>7. QED
  BY <1>1, <1>2, <1>3, <1>4, <1>5, <1>6 DEF IInv

\* A call starts on a session that is between transactions.
LEMMA WriteKeeps ==
  ASSUME IInv, NEW i \in Instances, NEW t \in Trains, Write(i, t)
  PROVE  IInv'
<1>1. TypeOK'
  BY WriteTrainAssumption, SMT
    DEF IInv, TypeOK, CallInv, CallOK, PCs, TxState, Answers, Ids, Sessions,
    Write
<1>2. SessInv'
  BY WriteTrainAssumption, SMT
    DEF IInv, TypeOK, SessInv, CallInv, CallOK, Sessions,
    Write
<1>3. CallInv'
  <2>1. \A j \in Instances : Inserted(j)' = Inserted(j) \/ j = i
    BY DEF Write, Inserted, IInv, TypeOK
  <2>2. conn[i] \in Sessions /\ tx[conn[i]] # "none" /\ car[i] = 0
    <3>1. conn[i] \in Sessions /\ conn[i] < next_conn
      BY DEF Write, IInv, TypeOK, SessInv
    <3>2. ~(conn[i] >= next_conn)
      BY <3>1, WriteTrainAssumption, SMT DEF IInv, TypeOK, Sessions
    <3>3. QED
      BY <3>1, <3>2 DEF Write, IInv, SessInv, CallInv, CallOK
  <2>3. QED
    BY <2>1, <2>2 DEF Write, IInv, TypeOK, CallInv, CallOK
<1>4. IdInv'
  BY WriteTrainAssumption, SMT
    DEF IInv, TypeOK, CallInv, CallOK, IdInv, Ids,
    Write
<1>5. AnswerTrue'
  <2>1. db' = db /\ answer' = answer
    BY DEF Write
  <2>2. QED
    BY <2>1 DEF IInv, AnswerTrue
<1>6. NoOpenLeft'
  BY WriteTrainAssumption, SMT
    DEF IInv, TypeOK, SessInv, CallInv, CallOK, NoOpenLeft, Sessions,
    Write
<1>7. QED
  BY <1>1, <1>2, <1>3, <1>4, <1>5, <1>6 DEF IInv

\* BEGIN opens the transaction of this call alone.
LEMMA BeginKeeps ==
  ASSUME IInv, NEW i \in Instances, Begin(i)
  PROVE  IInv'
<1>1. TypeOK'
  BY WriteTrainAssumption, SMT
    DEF IInv, TypeOK, CallInv, CallOK, PCs, TxState, Answers, Ids, Sessions,
    Begin
<1>2. SessInv'
  BY WriteTrainAssumption, SMT
    DEF IInv, TypeOK, SessInv, CallInv, CallOK, Sessions,
    Begin
<1>3. CallInv'
  <2>1. \A j \in Instances : j # i => conn[j] = 0 \/ conn[j] # conn[i]
    BY DEF IInv, SessInv
  <2>2. /\ conn[i] \in Sessions /\ pc' = [pc EXCEPT ![i] = "train"]
        /\ tx' = [tx EXCEPT ![conn[i]] = "open"] /\ tx[conn[i]] = "idle"
    BY DEF IInv, CallInv, CallOK, Begin
  <2>3. pending[conn[i]] = {}
    BY <2>2 DEF IInv, SessInv
  <2>4. \A j \in Instances : Inserted(j)' = Inserted(j)
    BY DEF Begin, Inserted
  <2>5. QED
    BY <2>1, <2>2, <2>3, <2>4 DEF IInv, TypeOK, CallInv, CallOK, Begin, Sessions
<1>4. IdInv'
  BY WriteTrainAssumption, SMT
    DEF IInv, TypeOK, CallInv, CallOK, IdInv, Ids,
    Begin
<1>5. AnswerTrue'
  <2>1. db' = db /\ answer' = answer
    BY DEF Begin
  <2>2. QED
    BY <2>1 DEF IInv, AnswerTrue
<1>6. NoOpenLeft'
  BY WriteTrainAssumption, SMT
    DEF IInv, TypeOK, SessInv, CallInv, CallOK, NoOpenLeft, Sessions,
    Begin
<1>7. QED
  BY <1>1, <1>2, <1>3, <1>4, <1>5, <1>6 DEF IInv

\* A call that cannot begin leaves no trace.
LEMMA BeginFailsKeeps ==
  ASSUME IInv, NEW i \in Instances, BeginFails(i)
  PROVE  IInv'
<1>1. TypeOK'
  BY WriteTrainAssumption, SMT
    DEF IInv, TypeOK, CallInv, CallOK, PCs, TxState, Answers, Ids, Sessions,
    BeginFails, Notice, Return
<1>2. SessInv'
  BY WriteTrainAssumption, SMT
    DEF IInv, TypeOK, SessInv, CallInv, CallOK, Sessions,
    BeginFails, Notice, Return
<1>3. CallInv'
  BY WriteTrainAssumption, SMT
    DEF IInv, TypeOK, SessInv, CallInv, CallOK, IdInv, Inserted, Sessions, Ids,
    BeginFails, Notice, Return
<1>4. IdInv'
  BY WriteTrainAssumption, SMT
    DEF IInv, TypeOK, CallInv, CallOK, IdInv, Ids,
    BeginFails, Notice, Return
<1>5. AnswerTrue'
  <2>1. db' = db /\ answer' = answer
    BY DEF BeginFails
  <2>2. QED
    BY <2>1 DEF IInv, AnswerTrue
<1>6. NoOpenLeft'
  BY WriteTrainAssumption, SMT
    DEF IInv, TypeOK, SessInv, CallInv, CallOK, NoOpenLeft, Sessions,
    BeginFails, Notice, Return
<1>7. QED
  BY <1>1, <1>2, <1>3, <1>4, <1>5, <1>6 DEF IInv

\* The row of the train waits in the open transaction, under a new id.
LEMMA InsertTrainKeeps ==
  ASSUME IInv, NEW i \in Instances, InsertTrain(i)
  PROVE  IInv'
<1> DEFINE row == <<next_id, 0, train[i]>>
<1>a. /\ tx[conn[i]] = "open" /\ conn[i] \in Sessions /\ train[i] \in Trains
      /\ db' = db /\ pending' = [pending EXCEPT ![conn[i]] = @ \cup {row}]
  BY SMT DEF IInv, CallInv, CallOK, InsertTrain, Insert
<1>b. row \in Rows
  BY <1>a, WriteTrainAssumption DEF IInv, TypeOK, CallInv, CallOK, InsertTrain,
      Rows, Ids
<1> HIDE DEF row
<1>1. TypeOK'
  <2>1. pending' \in [Sessions -> SUBSET Rows]
    BY <1>a, <1>b DEF IInv, TypeOK
  <2>2. db' \subseteq Rows
    BY <1>a DEF IInv, TypeOK
  <2>3. QED
    BY <2>1, <2>2, WriteTrainAssumption, SMT DEF IInv, TypeOK, PCs, Ids,
        InsertTrain
<1>2. SessInv'
  <2>1. \A n \in Sessions : tx'[n] # "open" => pending'[n] = {}
    BY <1>a DEF IInv, TypeOK, SessInv, InsertTrain
  <2>2. QED
    BY <2>1 DEF IInv, SessInv, InsertTrain
<1>3. CallInv'
  <2>1. \A j \in Instances : j # i => conn[j] = 0 \/ conn[j] # conn[i]
    BY DEF IInv, SessInv
  <2>2. pending'[conn[i]] = Inserted(i)'
    <3>1. pending[conn[i]] = {} /\ car[i] = 0
      BY DEF IInv, CallInv, CallOK, InsertTrain
    <3>2. pending'[conn[i]] = {row}
      BY <1>a, <3>1 DEF IInv, TypeOK
    <3>3. id'[i] = next_id /\ car'[i] = 0 /\ train'[i] = train[i]
      BY <3>1 DEF InsertTrain, IInv, TypeOK
    <3>4. 0 .. 0 = {0}
      BY SMT
    <3>5. QED
      BY <3>2, <3>3, <3>4 DEF Inserted, row
  <2>3. ASSUME NEW j \in Instances, j # i
        PROVE  Inserted(j)' = Inserted(j)
    BY <2>3 DEF InsertTrain, Inserted, IInv, TypeOK
  <2>4. ASSUME NEW j \in Instances, j # i, conn[j] \in Sessions
        PROVE  pending'[conn[j]] = pending[conn[j]]
    BY <1>a, <2>1, <2>4 DEF IInv, TypeOK, Sessions
  <2>5. ASSUME NEW j \in Instances, j # i, pc[j] = "cars"
        PROVE  id[j] < next_id' /\ next_id' = next_id + 1
    BY <2>5, SMT DEF IInv, TypeOK, CallInv, CallOK, InsertTrain, Ids
  <2>6. answer[next_id] = "none" /\ next_id \in Ids /\ next_id < next_id'
    BY SMT DEF IInv, TypeOK, IdInv, InsertTrain, Ids
  <2>7. \A j \in Instances : j # i => pc'[j] = pc[j] /\ id'[j] = id[j]
    BY DEF InsertTrain, IInv, TypeOK
  <2>8. pc'[i] = "cars" /\ id'[i] = next_id
    BY DEF InsertTrain, IInv, TypeOK
  <2>9. UNCHANGED <<conn, train, car, tx, answer>>
    BY DEF InsertTrain
  <2>10. ASSUME NEW j \in Instances, j # i
         PROVE  CallOK(j)'
    BY <2>10, <2>3, <2>4, <2>5, <2>7, <2>9 DEF IInv, CallInv, CallOK
  <2>11. CallOK(i)'
    BY <1>a, <2>2, <2>6, <2>8, <2>9 DEF IInv, CallInv, CallOK
  <2>12. QED
    BY <2>10, <2>11 DEF CallInv, CallOK
<1>4. IdInv'
  <2>1. id' = [id EXCEPT ![i] = next_id] /\ next_id' = next_id + 1 /\ answer' = answer
        /\ pc' = [pc EXCEPT ![i] = "cars"] /\ next_id \in Ids
    BY DEF InsertTrain
  <2>2. QED
    BY <2>1, SMT DEF IInv, TypeOK, CallInv, CallOK, IdInv, Ids
<1>5. AnswerTrue'
  BY <1>a DEF IInv, AnswerTrue, InsertTrain
<1>6. NoOpenLeft'
  BY WriteTrainAssumption, SMT
    DEF IInv, TypeOK, SessInv, CallInv, CallOK, NoOpenLeft, Sessions,
    InsertTrain, Insert
<1>7. QED
  BY <1>1, <1>2, <1>3, <1>4, <1>5, <1>6 DEF IInv

\* An aborted transaction has no rows.
LEMMA InsertTrainFailsKeeps ==
  ASSUME IInv, NEW i \in Instances, InsertTrainFails(i)
  PROVE  IInv'
<1>1. TypeOK'
  BY WriteTrainAssumption, SMT
    DEF IInv, TypeOK, CallInv, CallOK, PCs, TxState, Answers, Ids, Sessions,
    InsertTrainFails, Aborted, Notice, Return
<1>2. SessInv'
  BY WriteTrainAssumption, SMT
    DEF IInv, TypeOK, SessInv, CallInv, CallOK, Sessions,
    InsertTrainFails, Aborted, Notice, Return
<1>3. CallInv'
  BY WriteTrainAssumption, SMT
    DEF IInv, TypeOK, SessInv, CallInv, CallOK, IdInv, Inserted, Sessions, Ids,
    InsertTrainFails, Aborted, Notice, Return
<1>4. IdInv'
  BY WriteTrainAssumption, SMT
    DEF IInv, TypeOK, CallInv, CallOK, IdInv, Ids,
    InsertTrainFails, Aborted, Notice, Return
<1>5. AnswerTrue'
  <2>1. db' = db /\ answer' = answer
    BY DEF InsertTrainFails
  <2>2. QED
    BY <2>1 DEF IInv, AnswerTrue
<1>6. NoOpenLeft'
  BY WriteTrainAssumption, SMT
    DEF IInv, TypeOK, SessInv, CallInv, CallOK, NoOpenLeft, Sessions,
    InsertTrainFails, Aborted, Notice, Return
<1>7. QED
  BY <1>1, <1>2, <1>3, <1>4, <1>5, <1>6 DEF IInv

\* The rows of a call are those of its train and of the cars so far.
LEMMA InsertCarKeeps ==
  ASSUME IInv, NEW i \in Instances, InsertCar(i)
  PROVE  IInv'
<1> DEFINE row == <<id[i], car[i] + 1, train[i]>>
<1>a. /\ tx[conn[i]] = "open" /\ conn[i] \in Sessions /\ train[i] \in Trains
      /\ db' = db /\ pending' = [pending EXCEPT ![conn[i]] = @ \cup {row}]
  BY SMT DEF IInv, CallInv, CallOK, InsertCar, Insert
<1>b. row \in Rows
  BY <1>a, WriteTrainAssumption DEF IInv, TypeOK, CallInv, CallOK, InsertCar,
      Rows, Ids
<1> HIDE DEF row
<1>1. TypeOK'
  <2>1. pending' \in [Sessions -> SUBSET Rows]
    BY <1>a, <1>b DEF IInv, TypeOK
  <2>2. db' \subseteq Rows
    BY <1>a DEF IInv, TypeOK
  <2>3. QED
    BY <2>1, <2>2, WriteTrainAssumption, SMT DEF IInv, TypeOK, PCs, Ids, InsertCar
<1>2. SessInv'
  <2>1. \A n \in Sessions : tx'[n] # "open" => pending'[n] = {}
    BY <1>a DEF IInv, TypeOK, SessInv, InsertCar
  <2>2. QED
    BY <2>1 DEF IInv, SessInv, InsertCar
<1>3. CallInv'
  <2>1. \A j \in Instances : j # i => conn[j] = 0 \/ conn[j] # conn[i]
    BY DEF IInv, SessInv
  <2>2. pending'[conn[i]] = Inserted(i)'
    <3>1. pending[conn[i]] = Inserted(i)
      BY <1>a DEF IInv, CallInv, CallOK, InsertCar
    <3>2. pending'[conn[i]] = Inserted(i) \cup {row}
      BY <1>a, <3>1 DEF IInv, TypeOK
    <3>3. id'[i] = id[i] /\ car'[i] = car[i] + 1 /\ train'[i] = train[i]
      BY DEF InsertCar, IInv, TypeOK
    <3>4. 0 .. car[i] + 1 = (0 .. car[i]) \cup {car[i] + 1}
      BY WriteTrainAssumption, SMT DEF IInv, TypeOK
    <3>5. QED
      BY <3>2, <3>3, <3>4 DEF Inserted, row
  <2>3. ASSUME NEW j \in Instances, j # i
        PROVE  Inserted(j)' = Inserted(j)
    BY <2>3 DEF InsertCar, Inserted, IInv, TypeOK
  <2>4. ASSUME NEW j \in Instances, j # i, conn[j] \in Sessions
        PROVE  pending'[conn[j]] = pending[conn[j]]
    BY <1>a, <2>1, <2>4 DEF IInv, TypeOK, Sessions
  <2>5. UNCHANGED <<conn, pc, train, id, tx, next_id, answer>>
    BY DEF InsertCar
  <2>6. \A j \in Instances : j # i => car'[j] = car[j]
    BY DEF InsertCar, IInv, TypeOK
  <2>7. ASSUME NEW j \in Instances, j # i
        PROVE  CallOK(j)'
    BY <2>7, <2>3, <2>4, <2>5, <2>6 DEF IInv, CallInv, CallOK
  <2>8. CallOK(i)'
    BY <2>2, <2>5 DEF IInv, CallInv, CallOK, InsertCar
  <2>9. QED
    BY <2>7, <2>8 DEF CallInv, CallOK
<1>4. IdInv'
  BY WriteTrainAssumption, SMT
    DEF IInv, TypeOK, CallInv, CallOK, IdInv, Ids,
    InsertCar, Insert
<1>5. AnswerTrue'
  BY <1>a DEF IInv, AnswerTrue, InsertCar
<1>6. NoOpenLeft'
  BY WriteTrainAssumption, SMT
    DEF IInv, TypeOK, SessInv, CallInv, CallOK, NoOpenLeft, Sessions,
    InsertCar, Insert
<1>7. QED
  BY <1>1, <1>2, <1>3, <1>4, <1>5, <1>6 DEF IInv

\* The answer EXECUTE_ERROR goes with an id that is not stored.
LEMMA InsertCarFailsKeeps ==
  ASSUME IInv, NEW i \in Instances, InsertCarFails(i)
  PROVE  IInv'
<1>a. /\ id[i] \in Ids /\ answer[id[i]] = "none" /\ conn[i] \in Sessions
      /\ answer' = [answer EXCEPT ![id[i]] = "EXECUTE_ERROR"]
  BY DEF IInv, CallInv, CallOK, InsertCarFails, Answered
<1>b. db' = db
  BY DEF InsertCarFails
<1>1. TypeOK'
  <2>1. answer' \in [Ids -> Answers] /\ db' \subseteq Rows
    BY <1>a, <1>b DEF IInv, TypeOK, Answers
  <2>2. pending' \in [Sessions -> SUBSET Rows]
    BY <1>a DEF IInv, TypeOK, InsertCarFails, Aborted, Notice, Return, Answered
  <2>3. QED
    BY <1>a, <2>1, <2>2, WriteTrainAssumption, SMT DEF IInv, TypeOK, PCs,
        TxState, InsertCarFails, Aborted, Notice, Return, Answered
<1>2. SessInv'
  BY WriteTrainAssumption, SMT
    DEF IInv, TypeOK, SessInv, CallInv, CallOK, Sessions,
    InsertCarFails, Aborted, Notice, Return, Answered
<1>3. CallInv'
  BY WriteTrainAssumption, SMT
    DEF IInv, TypeOK, SessInv, CallInv, CallOK, IdInv, Inserted, Sessions, Ids,
    InsertCarFails, Aborted, Notice, Return, Answered
<1>4. IdInv'
  <2>1. next_id' = next_id /\ id[i] < next_id
    BY DEF IInv, CallInv, CallOK, InsertCarFails
  <2>2. pc' = [pc EXCEPT ![i] = "idle"] /\ id' = [id EXCEPT ![i] = 0]
    BY DEF InsertCarFails, Return
  <2>3. QED
    BY <1>a, <2>1, <2>2, SMT DEF IInv, TypeOK, IdInv, Ids
<1>5. AnswerTrue'
  <2>1. \A r \in db : r[1] \in Ids /\ r[1] # id[i]
    BY <1>a DEF IInv, TypeOK, AnswerTrue, Rows
  <2>2. ASSUME NEW n \in Ids, answer'[n] = "OK"
        PROVE  \E t \in Trains : <<n, 0, t>> \in db'
    BY <1>a, <1>b, <2>2 DEF IInv, TypeOK, AnswerTrue
  <2>3. ASSUME NEW r \in db'
        PROVE  answer'[r[1]] \in {"OK", "TRANSACTION_COMMIT_ERROR"}
    BY <1>a, <1>b, <2>1 DEF IInv, TypeOK, AnswerTrue
  <2>4. QED
    BY <2>2, <2>3 DEF AnswerTrue
<1>6. NoOpenLeft'
  BY WriteTrainAssumption, SMT
    DEF IInv, TypeOK, SessInv, CallInv, CallOK, NoOpenLeft, Sessions,
    InsertCarFails, Aborted, Notice, Return, Answered
<1>7. QED
  BY <1>1, <1>2, <1>3, <1>4, <1>5, <1>6 DEF IInv

\* COMMIT stores the train whole, and answers OK.
LEMMA CommitKeeps ==
  ASSUME IInv, NEW i \in Instances, Commit(i)
  PROVE  IInv'
<1>a. /\ id[i] \in Ids /\ answer[id[i]] = "none" /\ conn[i] \in Sessions
      /\ answer' = [answer EXCEPT ![id[i]] = "OK"]
  BY DEF IInv, CallInv, CallOK, Commit, Answered
<1>b. tx[conn[i]] = "open" /\ db' = db \cup Inserted(i) /\ Inserted(i) \subseteq Rows
  <2>1. tx[conn[i]] = "open" /\ db' = db \cup Inserted(i)
    BY DEF IInv, CallInv, CallOK, Commit
  <2>2. Inserted(i) \subseteq Rows
    BY <1>a, WriteTrainAssumption, SMT DEF IInv, TypeOK, CallInv, CallOK,
        Commit, Inserted, Rows
  <2>3. QED
    BY <2>1, <2>2
<1>1. TypeOK'
  <2>1. answer' \in [Ids -> Answers] /\ db' \subseteq Rows
    BY <1>a, <1>b DEF IInv, TypeOK, Answers
  <2>2. pending' \in [Sessions -> SUBSET Rows]
    BY <1>a DEF IInv, TypeOK, Commit, Return, Answered
  <2>3. QED
    BY <1>a, <2>1, <2>2, WriteTrainAssumption, SMT DEF IInv, TypeOK, PCs,
        TxState, Commit, Return, Answered
<1>2. SessInv'
  BY WriteTrainAssumption, SMT
    DEF IInv, TypeOK, SessInv, CallInv, CallOK, Sessions,
    Commit, Return, Answered
<1>3. CallInv'
  <2>1. \A j \in Instances : j # i => conn[j] = 0 \/ conn[j] # conn[i]
    BY DEF IInv, SessInv
  <2>2. \A j \in Instances : j # i => Inserted(j)' = Inserted(j)
    BY DEF Commit, Return, Inserted, IInv, TypeOK
  <2>3. ASSUME NEW j \in Instances, j # i, pc[j] = "cars"
        PROVE  id[j] # id[i]
    BY <2>3 DEF IInv, IdInv, Commit
  <2>4. QED
    BY <1>a, <2>1, <2>2, <2>3, SMT DEF IInv, TypeOK, CallInv, CallOK, Commit,
        Return, Sessions
<1>4. IdInv'
  <2>1. next_id' = next_id /\ id[i] < next_id
    BY DEF IInv, CallInv, CallOK, Commit
  <2>2. pc' = [pc EXCEPT ![i] = "idle"] /\ id' = [id EXCEPT ![i] = 0]
    BY DEF Commit, Return
  <2>3. QED
    BY <1>a, <2>1, <2>2, SMT DEF IInv, TypeOK, IdInv, Ids
<1>5. AnswerTrue'
  <2>1. \A r \in db : r[1] \in Ids /\ r[1] # id[i]
    BY <1>a DEF IInv, TypeOK, AnswerTrue, Rows
  <2>2. \A r \in Inserted(i) : r[1] = id[i]
    BY DEF Inserted
  <2>3. <<id[i], 0, train[i]>> \in Inserted(i) /\ train[i] \in Trains
    BY WriteTrainAssumption, SMT DEF IInv, TypeOK, CallInv, CallOK, Inserted,
        Commit
  <2>4. ASSUME NEW n \in Ids, answer'[n] = "OK"
        PROVE  \E t \in Trains : <<n, 0, t>> \in db'
    BY <1>a, <1>b, <2>3, <2>4 DEF IInv, TypeOK, AnswerTrue
  <2>5. ASSUME NEW r \in db'
        PROVE  answer'[r[1]] \in {"OK", "TRANSACTION_COMMIT_ERROR"}
    BY <1>a, <1>b, <2>1, <2>2 DEF IInv, TypeOK, AnswerTrue
  <2>6. QED
    BY <2>4, <2>5 DEF AnswerTrue
<1>6. NoOpenLeft'
  BY WriteTrainAssumption, SMT
    DEF IInv, TypeOK, SessInv, CallInv, CallOK, NoOpenLeft, Sessions,
    Commit, Return, Answered
<1>7. QED
  BY <1>1, <1>2, <1>3, <1>4, <1>5, <1>6 DEF IInv

\* A refused COMMIT stores nothing.
LEMMA CommitFailsKeeps ==
  ASSUME IInv, NEW i \in Instances, CommitFails(i)
  PROVE  IInv'
<1>a. /\ id[i] \in Ids /\ answer[id[i]] = "none" /\ conn[i] \in Sessions
      /\ answer' = [answer EXCEPT ![id[i]] = "TRANSACTION_COMMIT_ERROR"]
  BY DEF IInv, CallInv, CallOK, CommitFails, Answered
<1>b. db' = db
  BY DEF CommitFails
<1>1. TypeOK'
  <2>1. answer' \in [Ids -> Answers] /\ db' \subseteq Rows
    BY <1>a, <1>b DEF IInv, TypeOK, Answers
  <2>2. pending' \in [Sessions -> SUBSET Rows]
    BY <1>a DEF IInv, TypeOK, CommitFails, Notice, Return, Answered
  <2>3. QED
    BY <1>a, <2>1, <2>2, WriteTrainAssumption, SMT DEF IInv, TypeOK, PCs,
        TxState, CommitFails, Notice, Return, Answered
<1>2. SessInv'
  BY WriteTrainAssumption, SMT
    DEF IInv, TypeOK, SessInv, CallInv, CallOK, Sessions,
    CommitFails, Notice, Return, Answered
<1>3. CallInv'
  <2>1. /\ conn' = conn /\ next_id' = next_id /\ train' = [train EXCEPT ![i] = None]
        /\ pc' = [pc EXCEPT ![i] = "idle"] /\ id' = [id EXCEPT ![i] = 0]
        /\ car' = [car EXCEPT ![i] = 0] /\ id[i] \in Ids /\ pc[i] = "cars"
        /\ \E r \in Answers : answer' = [answer EXCEPT ![id[i]] = r]
    BY <1>a DEF CommitFails, Return, Answered, Answers
  <2>2. /\ \E v : tx' = [tx EXCEPT ![conn[i]] = v]
        /\ \E v : pending' = [pending EXCEPT ![conn[i]] = v]
    BY DEF CommitFails
  <2>3. ASSUME NEW j \in Instances, j = i
        PROVE  CallOK(j)'
    <3>1. pc'[j] = "idle" /\ car'[j] = 0
      BY <2>1, <2>3 DEF IInv, TypeOK
    <3>2. QED
      BY <3>1 DEF CallOK
  <2>4. ASSUME NEW j \in Instances, j # i
        PROVE  CallOK(j)'
    <3>1. /\ conn'[j] = conn[j] /\ pc'[j] = pc[j] /\ train'[j] = train[j]
          /\ id'[j] = id[j] /\ car'[j] = car[j]
      BY <2>1, <2>4 DEF IInv, TypeOK
    <3>2. pc[j] = "cars" => answer'[id[j]] = answer[id[j]]
      BY <2>1, <2>4 DEF IInv, TypeOK, CallInv, CallOK, IdInv
    <3>3. pc[j] # "idle" => conn[j] # conn[i]
      BY <1>a, <2>4, SessionsDiffer
    <3>4. pc[j] # "idle" => /\ tx'[conn[j]] = tx[conn[j]]
                           /\ pending'[conn[j]] = pending[conn[j]]
      BY <2>2, <3>3 DEF IInv, TypeOK, CallInv, CallOK
    <3>5. CallOK(j)
      BY DEF IInv, CallInv
    <3>6. QED
      BY <2>1, <3>1, <3>2, <3>4, <3>5, OtherKept
  <2>5. QED
    BY <2>3, <2>4 DEF CallInv
<1>4. IdInv'
  <2>1. next_id' = next_id /\ id[i] < next_id
    BY DEF IInv, CallInv, CallOK, CommitFails
  <2>2. pc' = [pc EXCEPT ![i] = "idle"] /\ id' = [id EXCEPT ![i] = 0]
    BY DEF CommitFails, Return
  <2>3. QED
    BY <1>a, <2>1, <2>2, SMT DEF IInv, TypeOK, IdInv, Ids
<1>5. AnswerTrue'
  <2>1. \A r \in db : r[1] \in Ids /\ r[1] # id[i]
    BY <1>a DEF IInv, TypeOK, AnswerTrue, Rows
  <2>2. ASSUME NEW n \in Ids, answer'[n] = "OK"
        PROVE  \E t \in Trains : <<n, 0, t>> \in db'
    BY <1>a, <1>b, <2>2 DEF IInv, TypeOK, AnswerTrue
  <2>3. ASSUME NEW r \in db'
        PROVE  answer'[r[1]] \in {"OK", "TRANSACTION_COMMIT_ERROR"}
    BY <1>a, <1>b, <2>1 DEF IInv, TypeOK, AnswerTrue
  <2>4. QED
    BY <2>2, <2>3 DEF AnswerTrue
<1>6. NoOpenLeft'
  BY WriteTrainAssumption, SMT
    DEF IInv, TypeOK, SessInv, CallInv, CallOK, NoOpenLeft, Sessions,
    CommitFails, Notice, Return, Answered
<1>7. QED
  BY <1>1, <1>2, <1>3, <1>4, <1>5, <1>6 DEF IInv

\* A COMMIT without its answer is stored, and reported as an error of COMMIT.
LEMMA CommitUnansweredKeeps ==
  ASSUME IInv, NEW i \in Instances, CommitUnanswered(i)
  PROVE  IInv'
<1>a. /\ id[i] \in Ids /\ answer[id[i]] = "none" /\ conn[i] \in Sessions
      /\ answer' = [answer EXCEPT ![id[i]] = "TRANSACTION_COMMIT_ERROR"]
  BY DEF IInv, CallInv, CallOK, CommitUnanswered, Answered
<1>b. tx[conn[i]] = "open" /\ db' = db \cup Inserted(i) /\ Inserted(i) \subseteq Rows
  <2>1. tx[conn[i]] = "open" /\ db' = db \cup Inserted(i)
    BY DEF IInv, CallInv, CallOK, CommitUnanswered
  <2>2. Inserted(i) \subseteq Rows
    BY <1>a, WriteTrainAssumption, SMT DEF IInv, TypeOK, CallInv, CallOK,
        CommitUnanswered, Inserted, Rows
  <2>3. QED
    BY <2>1, <2>2
<1>1. TypeOK'
  <2>1. answer' \in [Ids -> Answers] /\ db' \subseteq Rows
    BY <1>a, <1>b DEF IInv, TypeOK, Answers
  <2>2. pending' \in [Sessions -> SUBSET Rows]
    BY <1>a DEF IInv, TypeOK, CommitUnanswered, Return, Answered
  <2>3. QED
    BY <1>a, <2>1, <2>2, WriteTrainAssumption, SMT DEF IInv, TypeOK, PCs,
        TxState, CommitUnanswered, Return, Answered
<1>2. SessInv'
  BY WriteTrainAssumption, SMT
    DEF IInv, TypeOK, SessInv, CallInv, CallOK, Sessions,
    CommitUnanswered, Return, Answered
<1>3. CallInv'
  <2>1. /\ conn' = conn /\ next_id' = next_id /\ train' = [train EXCEPT ![i] = None]
        /\ pc' = [pc EXCEPT ![i] = "idle"] /\ id' = [id EXCEPT ![i] = 0]
        /\ car' = [car EXCEPT ![i] = 0] /\ id[i] \in Ids /\ pc[i] = "cars"
        /\ \E r \in Answers : answer' = [answer EXCEPT ![id[i]] = r]
    BY <1>a DEF CommitUnanswered, Return, Answered, Answers
  <2>2. /\ \E v : tx' = [tx EXCEPT ![conn[i]] = v]
        /\ \E v : pending' = [pending EXCEPT ![conn[i]] = v]
    BY DEF CommitUnanswered
  <2>3. ASSUME NEW j \in Instances, j = i
        PROVE  CallOK(j)'
    <3>1. pc'[j] = "idle" /\ car'[j] = 0
      BY <2>1, <2>3 DEF IInv, TypeOK
    <3>2. QED
      BY <3>1 DEF CallOK
  <2>4. ASSUME NEW j \in Instances, j # i
        PROVE  CallOK(j)'
    <3>1. /\ conn'[j] = conn[j] /\ pc'[j] = pc[j] /\ train'[j] = train[j]
          /\ id'[j] = id[j] /\ car'[j] = car[j]
      BY <2>1, <2>4 DEF IInv, TypeOK
    <3>2. pc[j] = "cars" => answer'[id[j]] = answer[id[j]]
      BY <2>1, <2>4 DEF IInv, TypeOK, CallInv, CallOK, IdInv
    <3>3. pc[j] # "idle" => conn[j] # conn[i]
      BY <1>a, <2>4, SessionsDiffer
    <3>4. pc[j] # "idle" => /\ tx'[conn[j]] = tx[conn[j]]
                           /\ pending'[conn[j]] = pending[conn[j]]
      BY <2>2, <3>3 DEF IInv, TypeOK, CallInv, CallOK
    <3>5. CallOK(j)
      BY DEF IInv, CallInv
    <3>6. QED
      BY <2>1, <3>1, <3>2, <3>4, <3>5, OtherKept
  <2>5. QED
    BY <2>3, <2>4 DEF CallInv
<1>4. IdInv'
  <2>1. next_id' = next_id /\ id[i] < next_id
    BY DEF IInv, CallInv, CallOK, CommitUnanswered
  <2>2. pc' = [pc EXCEPT ![i] = "idle"] /\ id' = [id EXCEPT ![i] = 0]
    BY DEF CommitUnanswered, Return
  <2>3. QED
    BY <1>a, <2>1, <2>2, SMT DEF IInv, TypeOK, IdInv, Ids
<1>5. AnswerTrue'
  <2>1. \A r \in db : r[1] \in Ids /\ r[1] # id[i]
    BY <1>a DEF IInv, TypeOK, AnswerTrue, Rows
  <2>2. \A r \in Inserted(i) : r[1] = id[i]
    BY DEF Inserted
  <2>3. <<id[i], 0, train[i]>> \in Inserted(i) /\ train[i] \in Trains
    BY WriteTrainAssumption, SMT DEF IInv, TypeOK, CallInv, CallOK, Inserted,
        CommitUnanswered
  <2>4. ASSUME NEW n \in Ids, answer'[n] = "OK"
        PROVE  \E t \in Trains : <<n, 0, t>> \in db'
    BY <1>a, <1>b, <2>3, <2>4 DEF IInv, TypeOK, AnswerTrue
  <2>5. ASSUME NEW r \in db'
        PROVE  answer'[r[1]] \in {"OK", "TRANSACTION_COMMIT_ERROR"}
    BY <1>a, <1>b, <2>1, <2>2 DEF IInv, TypeOK, AnswerTrue
  <2>6. QED
    BY <2>4, <2>5 DEF AnswerTrue
<1>6. NoOpenLeft'
  BY WriteTrainAssumption, SMT
    DEF IInv, TypeOK, SessInv, CallInv, CallOK, NoOpenLeft, Sessions,
    CommitUnanswered, Return, Answered
<1>7. QED
  BY <1>1, <1>2, <1>3, <1>4, <1>5, <1>6 DEF IInv

\* A session that is lost takes its rows with it.
LEMMA SessionLostKeeps ==
  ASSUME IInv, NEW n \in Sessions, SessionLost(n)
  PROVE  IInv'
<1>1. TypeOK'
  BY WriteTrainAssumption, SMT
    DEF IInv, TypeOK, CallInv, CallOK, PCs, TxState, Answers, Ids, Sessions,
    SessionLost, program
<1>2. SessInv'
  BY WriteTrainAssumption, SMT
    DEF IInv, TypeOK, SessInv, CallInv, CallOK, Sessions,
    SessionLost, program
<1>3. CallInv'
  <2>1. /\ conn' = conn /\ pc' = pc /\ train' = train /\ id' = id /\ car' = car
        /\ next_id' = next_id /\ answer' = answer
        /\ tx' = [tx EXCEPT ![n] = "gone"]
        /\ pending' = [pending EXCEPT ![n] = {}]
    BY DEF SessionLost, program
  <2>2. ASSUME NEW j \in Instances
        PROVE  CallOK(j)'
    <3>1. CallOK(j)
      BY DEF IInv, CallInv
    <3>2. CASE conn[j] # n
      <4>1. pc[j] # "idle" => /\ tx'[conn[j]] = tx[conn[j]]
                             /\ pending'[conn[j]] = pending[conn[j]]
        BY <2>1, <3>1, <3>2 DEF IInv, TypeOK, CallOK
      <4>2. QED
        BY <2>1, <3>1, <4>1, OtherKept
    <3>3. CASE conn[j] = n
      <4>1. tx'[n] = "gone" /\ pending'[n] = {}
        BY <2>1 DEF IInv, TypeOK
      <4>2. QED
        BY <2>1, <3>1, <3>3, <4>1 DEF CallOK
    <3>4. QED
      BY <3>2, <3>3
  <2>3. QED
    BY <2>2 DEF CallInv
<1>4. IdInv'
  BY WriteTrainAssumption, SMT
    DEF IInv, TypeOK, CallInv, CallOK, IdInv, Ids,
    SessionLost, program
<1>5. AnswerTrue'
  <2>1. db' = db /\ answer' = answer
    BY DEF SessionLost
  <2>2. QED
    BY <2>1 DEF IInv, AnswerTrue
<1>6. NoOpenLeft'
  BY WriteTrainAssumption, SMT
    DEF IInv, TypeOK, SessInv, CallInv, CallOK, NoOpenLeft, Sessions,
    SessionLost, program
<1>7. QED
  BY <1>1, <1>2, <1>3, <1>4, <1>5, <1>6 DEF IInv

\* Every step keeps the invariant.
LEMMA NextIInv ==
  ASSUME IInv, [Next]_vars
  PROVE  IInv'
<1>1. CASE Next
  BY <1>1, ConnectKeeps, ConnectFailsKeeps, CloseKeeps, WriteKeeps, BeginKeeps,
      BeginFailsKeeps, InsertTrainKeeps, InsertTrainFailsKeeps, InsertCarKeeps,
      InsertCarFailsKeeps, CommitKeeps, CommitFailsKeeps,
      CommitUnansweredKeeps, SessionLostKeeps
    DEF Next, VpiMain, WriteTrainStep
<1>2. CASE UNCHANGED vars
  <2>1. TypeOK'
    BY <1>2 DEF vars, program, IInv, TypeOK
  <2>2. SessInv'
    BY <1>2 DEF vars, IInv, SessInv
  <2>3. CallInv'
    BY <1>2 DEF vars, program, IInv, CallInv, CallOK, Inserted
  <2>4. IdInv' /\ AnswerTrue' /\ NoOpenLeft'
    BY <1>2 DEF vars, program, IInv, IdInv, AnswerTrue, NoOpenLeft
  <2>5. QED
    BY <2>1, <2>2, <2>3, <2>4 DEF IInv
<1>3. QED
  BY <1>1, <1>2

\* The invariant behind every theorem of this module.
THEOREM Invariance == Spec => []IInv
<1>1. Init => IInv
  BY InitIInv
<1>2. IInv /\ [Next]_vars => IInv'
  BY NextIInv
<1>3. QED
  BY <1>1, <1>2, PTL DEF Spec

\* Whatever fails, the module's state and the tables keep their types: no row
\* names a car beyond cnt_car.
THEOREM TypeCorrect == Spec => []TypeOK
<1>1. IInv => TypeOK
  BY DEF IInv
<1>2. QED
  BY Invariance, <1>1, PTL

\* The result of writeTrain tells the truth about the database.
THEOREM AnswersTrue == Spec => []AnswerTrue
<1>1. IInv => AnswerTrue
  BY DEF IInv
<1>2. QED
  BY Invariance, <1>1, PTL

\* Only a call of writeTrain in progress holds an open transaction, although
\* no error path sends ROLLBACK.
THEOREM NothingLeftOpen == Spec => []NoOpenLeft
<1>1. IInv => NoOpenLeft
  BY DEF IInv
<1>2. QED
  BY Invariance, <1>1, PTL

\* A step that stores rows stores one train with all its cars, under an id
\* that no stored row has.
LEMMA StoreStep ==
  ASSUME IInv, [Next]_vars
  PROVE  [Tables!Next]_db
<1>1. ASSUME NEW i \in Instances, Commit(i) \/ CommitUnanswered(i)
      PROVE  [Tables!Next]_db
  <2>1. /\ pc[i] = "cars" /\ car[i] = CarCnt /\ db' = db \cup pending[conn[i]]
        /\ tx[conn[i]] # "gone"
    BY <1>1 DEF Commit, CommitUnanswered
  <2>2. /\ id[i] \in Ids /\ train[i] \in Trains /\ answer[id[i]] = "none"
        /\ pending[conn[i]] = Inserted(i)
    BY <2>1 DEF IInv, CallInv, CallOK
  <2>3. Inserted(i) = Tables!Whole(id[i], train[i])
    BY <2>1 DEF Inserted, Tables!Whole
  <2>4. \A r \in db : r[1] # id[i]
    BY <2>2 DEF IInv, AnswerTrue
  <2>5. QED
    BY <2>1, <2>2, <2>3, <2>4 DEF Tables!Next, Tables!Store, Ids
<1>2. ASSUME NEW i \in Instances, InsertTrain(i) \/ InsertCar(i)
      PROVE  db' = db
  <2>1. tx[conn[i]] = "open"
    BY <1>2 DEF IInv, CallInv, CallOK, InsertTrain, InsertCar
  <2>2. QED
    BY <1>2, <2>1 DEF InsertTrain, InsertCar, Insert
<1>3. CASE Next
  BY <1>1, <1>2, <1>3 DEF Next, VpiMain, WriteTrainStep, Connect, ConnectFails,
    Close, SessionLost, Write, Begin, BeginFails, InsertTrainFails,
    InsertCarFails, CommitFails
<1>4. CASE UNCHANGED vars
  BY <1>4 DEF vars
<1>5. QED
  BY <1>3, <1>4

\* The tables only ever change by a whole train.
THEOREM TrainsWhole == Spec => StoreSpec
<1>1. Init => Tables!Init
  BY DEF Init, Tables!Init
<1>2. IInv /\ [Next]_vars => [Tables!Next]_db
  BY StoreStep
<1>3. QED
  BY Invariance, <1>1, <1>2, PTL DEF Spec, StoreSpec, Tables!Spec
=============================================================================
