------------------------------ MODULE WriteTrain ------------------------------
(***************************************************************************)
(* libpostgreSQL_scale_db: programs call VpiMain with a function number;   *)
(* connectToDB, connectClose and writeTrain change the connection of their *)
(* InstanceData and the database.  writeTrain is a step per PQexec, so     *)
(* that programs interleave and the server or the link may fail anywhere   *)
(* between BEGIN and the answer to COMMIT.  No error path sends ROLLBACK,  *)
(* and connectToDB forgets the connection it replaces.  libpq and the      *)
(* server are modelled by what the module sees of them.                    *)
(***************************************************************************)
EXTENDS Naturals

CONSTANTS
  Instances,    \* InstanceData of the calling programs
  Trains,       \* trains they write, as often as they like
  CarCnt,       \* cnt_car
  MaxId,        \* bound: ids handed out by the sequence of train.id
  MaxSession,   \* bound: connections made
  None

ASSUME WriteTrainAssumption ==
  /\ CarCnt \in Nat /\ MaxId \in Nat \ {0} /\ MaxSession \in Nat \ {0}
  /\ None \notin Trains

Ids      == 1 .. MaxId
Sessions == 1 .. MaxSession
Rows     == Ids \X (0 .. CarCnt) \X Trains

VARIABLES
  conn,        \* inst_data->conn: a session, or 0 for NULL
  pc, train,   \* the call of each program: label, pVDB->pParam
  id, car,     \* its id_car and i
  tx,          \* sessions at the server
  bad,         \* sessions whose PQstatus is CONNECTION_BAD
  pending,     \* rows of the open transaction of a session
  db,          \* rows committed
  next_id,     \* the sequence of train.id; a rollback does not set it back
  next_conn,   \* sessions made so far, plus one
  answer       \* history: what the call that got an id returned

program == <<pc, train, id, car>>
vars    == <<conn, program, tx, bad, pending, db, next_id, next_conn, answer>>

PCs     == {"idle", "begin", "train", "cars"}
TxState == {"none", "idle", "open", "aborted", "gone"}
Answers == {"none", "OK", "EXECUTE_ERROR", "TRANSACTION_COMMIT_ERROR"}

Init ==
  /\ conn = [i \in Instances |-> 0]
  /\ pc = [i \in Instances |-> "idle"]
  /\ train = [i \in Instances |-> None]
  /\ id = [i \in Instances |-> 0]
  /\ car = [i \in Instances |-> 0]
  /\ tx = [n \in Sessions |-> "none"]
  /\ bad = [n \in Sessions |-> FALSE]
  /\ pending = [n \in Sessions |-> {}]
  /\ db = {}
  /\ next_id = 1 /\ next_conn = 1
  /\ answer = [n \in Ids |-> "none"]
-----------------------------------------------------------------------------
(* connectToDB and connectClose                                             *)

\* PQconnectdb replaces conn, whatever it was.
Connect(i) ==
  /\ pc[i] = "idle" /\ next_conn \in Sessions
  /\ conn' = [conn EXCEPT ![i] = next_conn]
  /\ tx' = [tx EXCEPT ![next_conn] = "idle"]
  /\ next_conn' = next_conn + 1
  /\ UNCHANGED <<program, bad, pending, db, next_id, answer>>

\* CONNECTION_BAD: PQfinish on the new connection, and conn is NULL.
ConnectFails(i) ==
  /\ pc[i] = "idle"
  /\ conn' = [conn EXCEPT ![i] = 0]
  /\ UNCHANGED <<program, tx, bad, pending, db, next_id, next_conn, answer>>

\* PQfinish; the server rolls back what was open.
Close(i) ==
  /\ pc[i] = "idle" /\ conn[i] # 0
  /\ tx' = [tx EXCEPT ![conn[i]] = "gone"]
  /\ pending' = [pending EXCEPT ![conn[i]] = {}]
  /\ conn' = [conn EXCEPT ![i] = 0]
  /\ UNCHANGED <<program, bad, db, next_id, next_conn, answer>>

\* The server, the network or an administrator ends a session.
SessionLost(n) ==
  /\ tx[n] \notin {"none", "gone"}
  /\ tx' = [tx EXCEPT ![n] = "gone"]
  /\ pending' = [pending EXCEPT ![n] = {}]
  /\ UNCHANGED <<conn, program, bad, db, next_id, next_conn, answer>>
-----------------------------------------------------------------------------
(* writeTrain                                                               *)

\* conn is there and PQstatus is not CONNECTION_BAD: otherwise it returns
\* PARAM_ERROR or CONNECT_ERROR at once.
Write(i, t) ==
  /\ pc[i] = "idle" /\ conn[i] # 0 /\ ~bad[conn[i]]
  /\ pc' = [pc EXCEPT ![i] = "begin"]
  /\ train' = [train EXCEPT ![i] = t]
  /\ UNCHANGED <<conn, id, car, tx, bad, pending, db, next_id, next_conn, answer>>

\* return iRc; the locals are gone.
Return(i) ==
  /\ pc' = [pc EXCEPT ![i] = "idle"]
  /\ train' = [train EXCEPT ![i] = None]
  /\ id' = [id EXCEPT ![i] = 0]
  /\ car' = [car EXCEPT ![i] = 0]

\* The call that got this id returns r.
Answered(i, r) == answer' = [answer EXCEPT ![id[i]] = r]

\* PQexec on a session that is gone: libpq notices.
Notice(n) == bad' = [bad EXCEPT ![n] = bad[n] \/ tx[n] = "gone"]

\* PQexec of an INSERT: in a transaction the rows wait for COMMIT.
Insert(n, row) ==
  IF tx[n] = "open"
  THEN pending' = [pending EXCEPT ![n] = @ \cup {row}] /\ UNCHANGED db
  ELSE db' = db \cup {row} /\ UNCHANGED pending

\* Slip: BEGIN is not sent, every INSERT commits on its own.
BeginSkipped(i) ==
  /\ pc[i] = "begin" /\ tx[conn[i]] = "idle"
  /\ pc' = [pc EXCEPT ![i] = "train"]
  /\ UNCHANGED <<conn, train, id, car, tx, bad, pending, db, next_id, next_conn,
                 answer>>

Begin(i) ==
  /\ pc[i] = "begin" /\ tx[conn[i]] = "idle"
  /\ tx' = [tx EXCEPT ![conn[i]] = "open"]
  /\ pc' = [pc EXCEPT ![i] = "train"]
  /\ UNCHANGED <<conn, train, id, car, bad, pending, db, next_id, next_conn,
                 answer>>

\* TRANSACTION_BEGIN_ERROR: the session is gone, or still in the aborted
\* transaction of an earlier call.
BeginFails(i) ==
  /\ pc[i] = "begin" /\ tx[conn[i]] \in {"aborted", "gone"}
  /\ Notice(conn[i])
  /\ Return(i)
  /\ UNCHANGED <<conn, tx, pending, db, next_id, next_conn, answer>>

\* INSERT INTO train ... RETURNING id
InsertTrain(i) ==
  LET n == conn[i] IN
  /\ pc[i] = "train" /\ tx[n] \in {"idle", "open"} /\ next_id \in Ids
  /\ Insert(n, <<next_id, 0, train[i]>>)
  /\ id' = [id EXCEPT ![i] = next_id]
  /\ next_id' = next_id + 1
  /\ pc' = [pc EXCEPT ![i] = "cars"]
  /\ UNCHANGED <<conn, train, car, tx, bad, next_conn, answer>>

\* An error of the server aborts the transaction: EXECUTE_ERROR.
Aborted(n) ==
  /\ Notice(n)
  /\ tx' = [tx EXCEPT ![n] = IF @ = "gone" THEN "gone" ELSE "aborted"]
  /\ pending' = [pending EXCEPT ![n] = {}]

\* Slip: the transaction is left as it is.
InsertTrainFailsOpen(i) ==
  /\ pc[i] = "train"
  /\ Notice(conn[i])
  /\ Return(i)
  /\ UNCHANGED <<conn, tx, pending, db, next_id, next_conn, answer>>

InsertTrainFails(i) ==
  /\ pc[i] = "train"
  /\ Aborted(conn[i])
  /\ Return(i)
  /\ UNCHANGED <<conn, db, next_id, next_conn, answer>>

InsertCar(i) ==
  LET n == conn[i] IN
  /\ pc[i] = "cars" /\ car[i] < CarCnt /\ tx[n] \in {"idle", "open"}
  /\ Insert(n, <<id[i], car[i] + 1, train[i]>>)
  /\ car' = [car EXCEPT ![i] = @ + 1]
  /\ UNCHANGED <<conn, pc, train, id, tx, bad, next_id, next_conn, answer>>

\* Slip: the result of the INSERT is not looked at.
InsertCarUnchecked(i) ==
  /\ pc[i] = "cars" /\ car[i] < CarCnt
  /\ Aborted(conn[i])
  /\ car' = [car EXCEPT ![i] = @ + 1]
  /\ UNCHANGED <<conn, pc, train, id, db, next_id, next_conn, answer>>

InsertCarFails(i) ==
  /\ pc[i] = "cars" /\ car[i] < CarCnt
  /\ Aborted(conn[i])
  /\ Answered(i, "EXECUTE_ERROR")
  /\ Return(i)
  /\ UNCHANGED <<conn, db, next_id, next_conn>>

\* COMMIT of an aborted transaction rolls it back and succeeds.
Commit(i) ==
  LET n == conn[i] IN
  /\ pc[i] = "cars" /\ car[i] = CarCnt /\ tx[n] # "gone"
  /\ db' = db \cup pending[n]
  /\ pending' = [pending EXCEPT ![n] = {}]
  /\ tx' = [tx EXCEPT ![n] = "idle"]
  /\ Answered(i, "OK")
  /\ Return(i)
  /\ UNCHANGED <<conn, bad, next_id, next_conn>>

\* The server refuses COMMIT and rolls back, or the session is gone.
CommitFails(i) ==
  LET n == conn[i] IN
  /\ pc[i] = "cars" /\ car[i] = CarCnt
  /\ Notice(n)
  /\ tx' = [tx EXCEPT ![n] = IF @ = "gone" THEN "gone" ELSE "idle"]
  /\ pending' = [pending EXCEPT ![n] = {}]
  /\ Answered(i, "TRANSACTION_COMMIT_ERROR")
  /\ Return(i)
  /\ UNCHANGED <<conn, db, next_id, next_conn>>

\* The server commits, and the session is lost before its answer arrives.
CommitUnanswered(i) ==
  LET n == conn[i] IN
  /\ pc[i] = "cars" /\ car[i] = CarCnt /\ tx[n] = "open"
  /\ db' = db \cup pending[n]
  /\ pending' = [pending EXCEPT ![n] = {}]
  /\ tx' = [tx EXCEPT ![n] = "gone"]
  /\ bad' = [bad EXCEPT ![n] = TRUE]
  /\ Answered(i, "TRANSACTION_COMMIT_ERROR")
  /\ Return(i)
  /\ UNCHANGED <<conn, next_id, next_conn>>
-----------------------------------------------------------------------------
WriteTrainStep(i) ==
  \/ \E t \in Trains : Write(i, t)
  \/ Begin(i) \/ BeginFails(i) \/ InsertTrain(i) \/ InsertTrainFails(i)
  \/ InsertCar(i) \/ InsertCarFails(i)
  \/ Commit(i) \/ CommitFails(i) \/ CommitUnanswered(i)

\* VpiMain
VpiMain(i) == Connect(i) \/ ConnectFails(i) \/ Close(i) \/ WriteTrainStep(i)

Next ==
  \/ \E i \in Instances : VpiMain(i)
  \/ \E n \in Sessions : SessionLost(n)

Spec == Init /\ [][Next]_vars
-----------------------------------------------------------------------------
(* Correctness                                                              *)

TypeOK ==
  /\ conn \in [Instances -> {0} \cup Sessions]
  /\ pc \in [Instances -> PCs]
  /\ train \in [Instances -> Trains \cup {None}]
  /\ id \in [Instances -> {0} \cup Ids]
  /\ car \in [Instances -> 0 .. CarCnt]
  /\ tx \in [Sessions -> TxState]
  /\ bad \in [Sessions -> BOOLEAN]
  /\ pending \in [Sessions -> SUBSET Rows]
  /\ db \subseteq Rows
  /\ next_id \in 1 .. MaxId + 1
  /\ next_conn \in 1 .. MaxSession + 1
  /\ answer \in [Ids -> Answers]

\* SCALES_OK means that the train is stored; a train is stored only if the
\* call returned SCALES_OK or SCALES_TRANSACTION_COMMIT_ERROR.  Every other
\* error means that nothing was stored, so that the call may be repeated.
AnswerTrue ==
  /\ \A n \in Ids : answer[n] = "OK" => \E t \in Trains : <<n, 0, t>> \in db
  /\ \A r \in db : answer[r[1]] \in {"OK", "TRANSACTION_COMMIT_ERROR"}

\* No path of writeTrain returns with its transaction open: rows would stay
\* locked and unseen for as long as the program keeps the connection.
NoOpenLeft ==
  \A n \in Sessions : tx[n] = "open" =>
    \E i \in Instances : conn[i] = n /\ pc[i] \in {"train", "cars"}

\* Trains appear whole, whatever fails and however programs interleave.
Tables == INSTANCE TrainStore WITH rows <- db
StoreSpec == Tables!Spec
=============================================================================
