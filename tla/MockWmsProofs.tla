---------------------------- MODULE MockWmsProofs ----------------------------
(* Theorems about MockWms, for any number of executors, tasks, late        *)
(* writes and whatever the runners are told.                               *)
EXTENDS MockWms, FiniteSetTheorems, TLAPS

(* update_task_status changes the status of its row and no other.          *)
LEMMA Written ==
  ASSUME status \in Seq(TaskStatus),
         NEW t \in Rows, NEW s \in TaskStatus, UpdateTaskStatus(t, s)
  PROVE  /\ status' \in Seq(TaskStatus)
         /\ Len(status') = Len(status)
         /\ Rows' = Rows
         /\ \A u \in Rows : status'[u] = IF u = t THEN s ELSE status[u]
<1> QED BY DEF Rows, UpdateTaskStatus

(* create_task adds a pending row behind all others.                       *)
LEMMA Created ==
  ASSUME status \in Seq(TaskStatus), status' = Append(status, "pending")
  PROVE  /\ status' \in Seq(TaskStatus)
         /\ Len(status') = Len(status) + 1
         /\ Rows = 1 .. Len(status)
         /\ Rows' = Rows \cup {Len(status) + 1}
         /\ Len(status) + 1 \notin Rows
         /\ \A u \in Rows : status'[u] = status[u]
         /\ status'[Len(status) + 1] = "pending"
<1> QED BY DEF Rows, TaskStatus

-----------------------------------------------------------------------------
(* Types.  What is late is finite, and about rows that exist.              *)

RowsExist ==
  /\ \A e \in Executors : runs[e] # None => runs[e].task \in Rows
  /\ \A w \in late : w[1] \in Rows
  /\ sent \subseteq Rows

WmsTyped == WmsTypeOK /\ IsFiniteSet(late) /\ RowsExist

(* The runner's count stays within its bound: it stops when one is left.   *)
LEMMA QueueStaysTyped ==
  ASSUME WmsTypeOK, NEW e \in Executors, NEW outcome, QueueAfter(e, outcome)
  PROVE  queue' \in [Executors -> Queue \cup {None}]
<1>1. CASE GoesOn(e, outcome)
  <2> DEFINE q == queue[e]
  <2>1. q \in Queue /\ q.left # 1 /\ q.left \in (1..MaxTasks) \cup {None}
    BY <1>1 DEF GoesOn, WmsTypeOK, Queue
  <2>2. Consumed(q.left) \in (1..MaxTasks) \cup {None}
    BY <2>1, BoundsAreNat, NoneIsNoNumber DEF Consumed
  <2>3. [q EXCEPT !.left = Consumed(q.left)] \in Queue
    BY <2>1, <2>2 DEF Queue
  <2>4. queue' = [queue EXCEPT ![e] = [q EXCEPT !.left = Consumed(q.left)]]
    BY <1>1 DEF QueueAfter
  <2> QED BY <2>3, <2>4 DEF WmsTypeOK
<1>2. CASE ~GoesOn(e, outcome)
  BY <1>2 DEF QueueAfter, WmsTypeOK
<1> QED BY <1>1, <1>2

(* A write of a run, whatever becomes of it, keeps the table and the late  *)
(* writes as they should be.                                               *)
LEMMA WriteStaysTyped ==
  ASSUME WmsTyped, NEW e \in Executors, runs[e] # None, NEW s \in TaskStatus,
         \/ UpdateTaskStatus(runs[e].task, s) /\ UNCHANGED <<late, contested>>
         \/ RequestLost(e, s)
         \/ AnswerLost(e, s)
         \/ RequestLate(e, s)
  PROVE  /\ runs[e].task \in Rows /\ runs[e].task \in Ids
         /\ status' \in Seq(TaskStatus) /\ Len(status') <= MaxRows
         /\ Rows' = Rows
         /\ late' \subseteq Ids \X TaskStatus /\ IsFiniteSet(late')
         /\ Cardinality(late') <= MaxLate
         /\ \A w \in late' : w[1] \in Rows
         /\ contested' \subseteq Ids
<1> DEFINE t == runs[e].task
<1>1. t \in Rows /\ t \in Ids /\ Ids \subseteq Nat
  BY DEF WmsTyped, WmsTypeOK, RowsExist, Run, Ids
<1>2. CASE UpdateTaskStatus(t, s) /\ UNCHANGED <<late, contested>>
  BY <1>1, <1>2, Written DEF WmsTyped, WmsTypeOK, RowsExist
<1>3. CASE RequestLost(e, s)
  BY <1>1, <1>3 DEF RequestLost, WmsTyped, WmsTypeOK, RowsExist, Rows
<1>4. CASE AnswerLost(e, s)
  BY <1>1, <1>4, Written DEF AnswerLost, WmsTyped, WmsTypeOK, RowsExist
<1>5. CASE RequestLate(e, s)
  <2>1. /\ late' = late \cup {<<t, s>>} /\ Cardinality(late) < MaxLate
        /\ IsFiniteSet(late) /\ late \subseteq Ids \X TaskStatus
    BY <1>5 DEF RequestLate, WmsTyped, WmsTypeOK
  <2>2. IsFiniteSet(late') /\ Cardinality(late') <= MaxLate
    <3>1. Cardinality(late) \in Nat /\ MaxLate \in Nat
      BY <2>1, FS_CardinalityType, BoundsAreNat
    <3>2. /\ IsFiniteSet(late')
          /\ Cardinality(late') \in {Cardinality(late), Cardinality(late) + 1}
      BY <2>1, FS_AddElement
    <3> QED BY <2>1, <3>1, <3>2
  <2>3. late' \subseteq Ids \X TaskStatus /\ \A w \in late' : w[1] \in Rows
    BY <1>1, <2>1 DEF WmsTyped, RowsExist
  <2>4. status' = status /\ contested' = contested \cup {t}
    BY <1>5 DEF RequestLate, Contest
  <2> QED BY <1>1, <2>2, <2>3, <2>4 DEF WmsTyped, WmsTypeOK, Rows
<1> QED BY <1>2, <1>3, <1>4, <1>5

(* Every step keeps the types, whoever takes it. *)
LEMMA WmsTypedInductive ==
  ASSUME WmsTyped, [WmsNext]_wmsVars
  PROVE  WmsTyped'
<1> USE DEF WmsTyped, WmsTypeOK, RowsExist
<1>1. CASE UNCHANGED wmsVars
  BY <1>1 DEF wmsVars, Rows
<1>2. CASE CreateTask
  BY <1>2, Created, BoundsAreNat DEF CreateTask
<1>3. ASSUME NEW t \in Rows, NEW s \in TaskStatus, OperatorUpdate(t, s)
      PROVE  WmsTyped'
  <2>1. t \in Ids
    BY BoundsAreNat DEF Rows, Ids
  <2>2. reached' \subseteq Ids /\ contested' \subseteq Ids
    BY <1>3, <2>1 DEF OperatorUpdate, Contest
  <2> QED BY <1>3, <2>2, Written DEF OperatorUpdate
<1>4. ASSUME NEW t \in Rows, NEW s \in TaskStatus, LateWriteArrives(t, s)
      PROVE  WmsTyped'
  <2>1. /\ late' = late \ {<<t, s>>} /\ IsFiniteSet(late)
        /\ Cardinality(late) \in Nat /\ MaxLate \in Nat
    BY <1>4, FS_CardinalityType, BoundsAreNat DEF LateWriteArrives
  <2>2. /\ IsFiniteSet(late')
        /\ Cardinality(late') \in {Cardinality(late), Cardinality(late) - 1}
    BY <2>1, FS_RemoveElement
  <2>3. Cardinality(late') <= MaxLate
    BY <2>1, <2>2
  <2> QED BY <1>4, <2>1, <2>2, <2>3, Written DEF LateWriteArrives
<1>5. ASSUME NEW e \in Executors,
             NEW left \in (1..MaxTasks) \cup {None}, NEW lenient \in BOOLEAN,
             StartQueue(e, left, lenient)
      PROVE  WmsTyped'
  <2>1. [left |-> left, lenient |-> lenient] \in Queue
    BY DEF Queue
  <2> QED BY <1>5, <2>1 DEF StartQueue, Rows
<1>6. ASSUME NEW e \in Executors, NEW t \in Rows,
             NEW http \in BOOLEAN, NEW execute \in BOOLEAN,
             Fetch(e, t, http, execute)
      PROVE  WmsTyped'
  <2>1. t \in Ids
    BY BoundsAreNat DEF Rows, Ids
  <2>2. [task |-> t, http |-> http, execute |-> execute, step |-> "gate"] \in Run
    BY <2>1 DEF Run
  <2>3. contested' \subseteq Ids
    BY <1>6, <2>1 DEF Fetch, Contest
  <2> QED BY <1>6, <2>2, <2>3 DEF Fetch, Rows
<1>7. ASSUME NEW e \in Executors, runs[e] # None, NEW step \in {"goal", "succeeded", "failed"},
             Step(e, step) PROVE runs' \in [Executors -> Run \cup {None}]
                              /\ \A f \in Executors : runs'[f] # None =>
                                   runs[f] # None /\ runs'[f].task = runs[f].task
  <2>1. /\ [runs[e] EXCEPT !.step = step] \in Run
        /\ [runs[e] EXCEPT !.step = step].task = runs[e].task
    BY <1>7 DEF Run
  <2> QED BY <1>7, <2>1 DEF Step
<1>8. ASSUME NEW e \in Executors, EndRun(e)
      PROVE runs' \in [Executors -> Run \cup {None}]
         /\ \A f \in Executors : runs'[f] # None => runs'[f] = runs[f]
  BY <1>8 DEF EndRun
<1>9. ASSUME NEW e \in Executors, DirectStep(e) PROVE WmsTyped'
  <2>1. runs[e] # None
    BY <1>9 DEF DirectStep, InvalidTarget, HandBack, Claim, Report, At
  <2>2. CASE InvalidTarget(e)
    BY <2>1, <2>2, <1>8, WriteStaysTyped, QueueStaysTyped DEF InvalidTarget, TaskStatus
  <2>3. CASE HandBack(e)
    BY <2>1, <2>3, <1>8, WriteStaysTyped, QueueStaysTyped DEF HandBack, TaskStatus
  <2>4. CASE Claim(e)
    BY <2>1, <2>4, <1>7, WriteStaysTyped DEF Claim, TaskStatus
  <2>5. CASE Report(e)
    <3>1. FinalStatus(runs[e].step) \in TaskStatus
      BY <2>5 DEF Report, At, FinalStatus, TaskStatus
    <3> QED BY <2>1, <2>5, <3>1, <1>8, WriteStaysTyped, QueueStaysTyped DEF Report
  <2> QED BY <1>9, <2>2, <2>3, <2>4, <2>5 DEF DirectStep
<1>10. ASSUME NEW e \in Executors, runs[e] # None, NEW s \in TaskStatus, HttpWriteFails(e, s)
       PROVE  WmsTyped'
  BY <1>10, <1>8, WriteStaysTyped DEF HttpWriteFails
<1>11. ASSUME NEW e \in Executors, HttpStep(e) PROVE WmsTyped'
  <2>1. runs[e] # None
    BY <1>11 DEF HttpStep, HttpHandBack, HttpClaim, HttpSimulate, HttpReport, At
  <2>2. CASE HttpHandBack(e)
    BY <2>1, <2>2, <1>8, <1>10, WriteStaysTyped DEF HttpHandBack, HttpWrite, TaskStatus
  <2>3. CASE HttpClaim(e)
    BY <2>1, <2>3, <1>7, <1>10, WriteStaysTyped DEF HttpClaim, HttpWrite, TaskStatus
  <2>4. CASE HttpSimulate(e)
    BY <2>1, <2>4, <1>7, <1>10, WriteStaysTyped DEF HttpSimulate, HttpWrite, TaskStatus
  <2>5. CASE HttpReport(e)
    <3>1. FinalStatus(runs[e].step) \in TaskStatus
      BY <2>5 DEF HttpReport, At, FinalStatus, TaskStatus
    <3> QED BY <2>1, <2>5, <3>1, <1>8, <1>10, WriteStaysTyped DEF HttpReport, HttpWrite
  <2> QED BY <1>11, <2>2, <2>3, <2>4, <2>5 DEF HttpStep
<1>12. ASSUME NEW e \in Executors, Navigate(e) PROVE WmsTyped'
  <2>1. runs[e] # None /\ runs[e].task \in Ids
    BY <1>12 DEF Navigate, At, Run
  <2> QED BY <1>12, <2>1, <1>7 DEF Navigate, Rows
<1>13. ASSUME NEW e \in Executors, StopQueue(e) \/ Crash(e) PROVE WmsTyped'
  BY <1>13, <1>8 DEF StopQueue, Crash, Rows
<1> QED
  BY <1>1, <1>2, <1>3, <1>4, <1>5, <1>6, <1>9, <1>11, <1>12, <1>13 DEF WmsNext

(* Whatever happens to the table, it keeps its type.                       *)
THEOREM WmsTypeCorrect == WmsSpec => []WmsTypeOK
<1>1. WmsInit => WmsTyped
  BY FS_EmptySet, BoundsAreNat DEF WmsInit, WmsTyped, WmsTypeOK, RowsExist, Rows
<1>2. WmsTyped /\ [WmsNext]_wmsVars => WmsTyped'
  BY WmsTypedInductive
<1>3. WmsTyped => WmsTypeOK
  BY DEF WmsTyped
<1> QED BY <1>1, <1>2, <1>3, PTL DEF WmsSpec

-----------------------------------------------------------------------------
(* What is reported as done has been seen done.  A status is on its way    *)
(* before it is in the table: an executor is about to write it, or a late  *)
(* write carries it.                                                       *)

SuccessIsReal ==
  /\ SuccessWasSeen
  /\ \A e \in Executors : At(e, "succeeded") => runs[e].task \in reached
  /\ \A w \in late : w[2] = "succeeded" => w[1] \in reached

(* Writing a status that is true, whatever becomes of the write.           *)
LEMMA TrueWrite ==
  ASSUME WmsTyped, SuccessIsReal, NEW e \in Executors, runs[e] # None,
         NEW s \in TaskStatus, s = "succeeded" => runs[e].task \in reached',
         reached \subseteq reached',
         \/ UpdateTaskStatus(runs[e].task, s) /\ UNCHANGED <<late, contested>>
         \/ RequestLost(e, s)
         \/ AnswerLost(e, s)
         \/ RequestLate(e, s)
  PROVE  /\ SuccessWasSeen'
         /\ \A w \in late' : w[2] = "succeeded" => w[1] \in reached'
<1> USE DEF SuccessIsReal, SuccessWasSeen
<1>1. status \in Seq(TaskStatus) /\ runs[e].task \in Rows
  BY DEF WmsTyped, WmsTypeOK, RowsExist
<1>2. CASE UpdateTaskStatus(runs[e].task, s) /\ UNCHANGED <<late, contested>>
  BY <1>1, <1>2, Written
<1>3. CASE RequestLost(e, s)
  BY <1>3 DEF RequestLost, Rows
<1>4. CASE AnswerLost(e, s)
  BY <1>1, <1>4, Written DEF AnswerLost
<1>5. CASE RequestLate(e, s)
  BY <1>5 DEF RequestLate, Rows
<1> QED BY <1>2, <1>3, <1>4, <1>5

(* Every step keeps a succeeded, in the table or on its way there, to tasks somebody saw done. *)
LEMMA SuccessIsRealInductive ==
  ASSUME WmsTyped, SuccessIsReal, [WmsNext]_wmsVars
  PROVE  SuccessIsReal'
<1> USE DEF SuccessIsReal, SuccessWasSeen
<1> status \in Seq(TaskStatus) /\ runs \in [Executors -> Run \cup {None}]
  BY DEF WmsTyped, WmsTypeOK
<1>1. CASE UNCHANGED wmsVars
  BY <1>1 DEF wmsVars, At, Rows
<1>2. CASE CreateTask
  BY <1>2, Created DEF CreateTask, At
<1>3. ASSUME NEW t \in Rows, NEW s \in TaskStatus, OperatorUpdate(t, s)
      PROVE  SuccessIsReal'
  BY <1>3, Written DEF OperatorUpdate, At
<1>4. ASSUME NEW t \in Rows, NEW s \in TaskStatus, LateWriteArrives(t, s)
      PROVE  SuccessIsReal'
  BY <1>4, Written DEF LateWriteArrives, At
<1>5. ASSUME NEW e \in Executors, EndRun(e), UNCHANGED reached
      PROVE  \A f \in Executors : At(f, "succeeded")' => runs'[f].task \in reached'
  BY <1>5 DEF EndRun, At
<1>6. ASSUME NEW e \in Executors, runs[e] # None, NEW step, Step(e, step),
             reached \subseteq reached', step = "succeeded" => runs[e].task \in reached'
      PROVE  \A f \in Executors : At(f, "succeeded")' => runs'[f].task \in reached'
  BY <1>6 DEF Step, At, Run
<1>7. ASSUME NEW e \in Executors, NEW left, NEW lenient,
             StartQueue(e, left, lenient) \/ StopQueue(e)
      PROVE  SuccessIsReal'
  BY <1>7 DEF StartQueue, StopQueue, At, Rows
<1>8. ASSUME NEW e \in Executors, Crash(e) PROVE SuccessIsReal'
  BY <1>8, <1>5 DEF Crash, Rows
<1>9. ASSUME NEW e \in Executors, NEW t \in Rows, NEW http, NEW execute,
             Fetch(e, t, http, execute)
      PROVE  SuccessIsReal'
  BY <1>9 DEF Fetch, At, Rows
<1>10. ASSUME NEW e \in Executors, DirectStep(e) PROVE SuccessIsReal'
  <2>1. runs[e] # None
    BY <1>10 DEF DirectStep, InvalidTarget, HandBack, Claim, Report, At
  <2>2. CASE InvalidTarget(e)
    BY <2>1, <2>2, <1>5, TrueWrite DEF InvalidTarget, TaskStatus
  <2>3. CASE HandBack(e)
    BY <2>1, <2>3, <1>5, TrueWrite DEF HandBack, TaskStatus
  <2>4. CASE Claim(e)
    BY <2>1, <2>4, <1>6, TrueWrite DEF Claim, TaskStatus
  <2>5. CASE Report(e)
    BY <2>1, <2>5, <1>5, TrueWrite DEF Report, FinalStatus, At, TaskStatus
  <2> QED BY <1>10, <2>2, <2>3, <2>4, <2>5 DEF DirectStep
<1>11. ASSUME NEW e \in Executors, HttpStep(e) PROVE SuccessIsReal'
  <2>1. runs[e] # None
    BY <1>11 DEF HttpStep, HttpHandBack, HttpClaim, HttpSimulate, HttpReport, At
  <2>2. ASSUME NEW s \in TaskStatus, HttpWriteFails(e, s),
               s = "succeeded" => runs[e].task \in reached
        PROVE  SuccessIsReal'
    BY <2>1, <2>2, <1>5, TrueWrite DEF HttpWriteFails
  <2>3. CASE HttpHandBack(e)
    BY <2>1, <2>2, <2>3, <1>5, TrueWrite DEF HttpHandBack, HttpWrite, TaskStatus
  <2>4. CASE HttpClaim(e)
    BY <2>1, <2>2, <2>4, <1>6, TrueWrite DEF HttpClaim, HttpWrite, TaskStatus
  <2>5. CASE HttpSimulate(e)
    BY <2>1, <2>2, <2>5, <1>6, TrueWrite DEF HttpSimulate, HttpWrite, TaskStatus
  <2>6. CASE HttpReport(e)
    BY <2>1, <2>2, <2>6, <1>5, TrueWrite
       DEF HttpReport, HttpWrite, FinalStatus, At, TaskStatus
  <2> QED BY <1>11, <2>3, <2>4, <2>5, <2>6 DEF HttpStep
<1>12. ASSUME NEW e \in Executors, Navigate(e) PROVE SuccessIsReal'
  <2>1. runs[e] # None
    BY <1>12 DEF Navigate, At
  <2> QED BY <1>12, <2>1, <1>6 DEF Navigate, Rows
<1> QED
  BY <1>1, <1>2, <1>3, <1>4, <1>7, <1>8, <1>9, <1>10, <1>11, <1>12 DEF WmsNext

(* No row says succeeded of a task that nobody saw done, for any caller.   *)
THEOREM SuccessIsAlwaysSeen == WmsSpec => []SuccessWasSeen
<1>1. WmsInit => WmsTyped /\ SuccessIsReal
  BY FS_EmptySet, BoundsAreNat
     DEF WmsInit, WmsTyped, WmsTypeOK, RowsExist, Rows, SuccessIsReal, SuccessWasSeen, At
<1>2. WmsTyped /\ SuccessIsReal /\ [WmsNext]_wmsVars => (WmsTyped /\ SuccessIsReal)'
  BY WmsTypedInductive, SuccessIsRealInductive
<1>3. SuccessIsReal => SuccessWasSeen
  BY DEF SuccessIsReal
<1> QED BY <1>1, <1>2, <1>3, PTL DEF WmsSpec

-----------------------------------------------------------------------------
(* The life of the tasks that only one party at a time deals with: what    *)
(* follows holds of them although nothing locks a task.                    *)

(* Whoever shares a task, or writes it late, has made it contested.        *)
SharedIsContested ==
  /\ \A e, f \in Executors :
       e # f /\ HeldBy(e, runs[f].task) /\ runs[f] # None =>
         runs[f].task \in contested
  /\ \A w \in late : w[1] \in contested

(* The row of an uncontested task in work says how far its run is.         *)
RowFitsRun ==
  \A e \in Executors :
    runs[e] # None /\ runs[e].task \notin contested =>
      status[runs[e].task] = IF runs[e].step = "gate" THEN "pending" ELSE "running"

TaskInv ==
  SharedIsContested /\ RowFitsRun /\ NotOfferedAgain /\ TakenInOrder

(* A run writes status s to its row, or tries to.                          *)
Writes(e, s) ==
  \/ UpdateTaskStatus(runs[e].task, s) /\ UNCHANGED <<late, contested>>
  \/ RequestLost(e, s)
  \/ AnswerLost(e, s)
  \/ RequestLate(e, s)

(* The statuses a run writes before and after it has got past the gate.    *)
Fitting(e) == IF At(e, "gate") THEN {"pending", "running", "failed"}
              ELSE {"succeeded", "failed"}

(* Such a write reaches no other row, and is contested when it is late.    *)
LEMMA OwnRow ==
  ASSUME WmsTyped, NEW e \in Executors, runs[e] # None, NEW s \in TaskStatus,
         Writes(e, s)
  PROVE  /\ runs[e].task \in Rows
         /\ Rows' = Rows
         /\ \A u \in Rows : u # runs[e].task => status'[u] = status[u]
         /\ status'[runs[e].task] \in {status[runs[e].task], s}
         /\ contested \subseteq contested'
         /\ \A w \in late' : w \in late \/ w[1] \in contested'
<1>1. status \in Seq(TaskStatus) /\ runs[e].task \in Rows
  BY DEF WmsTyped, WmsTypeOK, RowsExist
<1>2. CASE UpdateTaskStatus(runs[e].task, s) /\ UNCHANGED <<late, contested>>
  BY <1>1, <1>2, Written
<1>3. CASE RequestLost(e, s)
  BY <1>1, <1>3 DEF RequestLost, Rows
<1>4. CASE AnswerLost(e, s)
  BY <1>1, <1>4, Written DEF AnswerLost
<1>5. CASE RequestLate(e, s)
  BY <1>1, <1>5 DEF RequestLate, Contest, Rows
<1> QED BY <1>2, <1>3, <1>4, <1>5 DEF Writes

(* It takes an uncontested row one step along the documented life.         *)
LEMMA WriteIsLegal ==
  ASSUME WmsTyped, TaskInv, NEW e \in Executors, runs[e] # None,
         NEW s \in Fitting(e), Writes(e, s),
         NEW t \in Rows, t \notin contested', status'[t] # status[t]
  PROVE  <<status[t], status'[t]>> \in Lifecycle
<1>1. s \in TaskStatus
  BY DEF Fitting, TaskStatus
<1>2. t = runs[e].task /\ status'[t] = s /\ t \notin contested
  BY <1>1, OwnRow
<1>3. status[t] = IF runs[e].step = "gate" THEN "pending" ELSE "running"
  BY <1>2 DEF TaskInv, RowFitsRun
<1> QED BY <1>2, <1>3 DEF Fitting, At, Lifecycle

(* A run that ends with a write keeps the invariant.                       *)
LEMMA EndKeepsTaskInv ==
  ASSUME WmsTyped, TaskInv, NEW e \in Executors, runs[e] # None,
         NEW s \in Fitting(e), Writes(e, s), EndRun(e), sent' = sent
  PROVE  TaskInv'
<1> USE DEF TaskInv
<1>1. s \in TaskStatus
  BY DEF Fitting, TaskStatus
<1>2. \A f \in Executors : runs'[f] # None => f # e /\ runs'[f] = runs[f]
  BY DEF EndRun, WmsTyped, WmsTypeOK
<1>3. SharedIsContested'
  BY <1>1, <1>2, OwnRow DEF SharedIsContested, HeldBy
<1>4. RowFitsRun'
  <2> SUFFICES ASSUME NEW f \in Executors, runs'[f] # None, runs'[f].task \notin contested'
               PROVE  status'[runs'[f].task] =
                        IF runs'[f].step = "gate" THEN "pending" ELSE "running"
    BY DEF RowFitsRun
  <2>1. f # e /\ runs'[f] = runs[f] /\ runs[f].task \in Rows /\ runs[f].task \notin contested
    BY <1>1, <1>2, OwnRow DEF WmsTyped, RowsExist
  <2>2. runs[f].task # runs[e].task
    BY <2>1 DEF SharedIsContested, HeldBy
  <2> QED BY <1>1, <2>1, <2>2, OwnRow DEF RowFitsRun
<1>5. \A t \in Rows \ contested' : status'[t] = "pending" => status[t] = "pending"
  BY <1>1, WriteIsLegal DEF Lifecycle
<1>6. Rows' = Rows /\ contested \subseteq contested'
  BY <1>1, OwnRow
<1>7. NotOfferedAgain'
  BY <1>5, <1>6 DEF NotOfferedAgain, Pending
<1>8. TakenInOrder'
  BY <1>2, <1>5, <1>6 DEF TakenInOrder, Pending, Held, HeldBy
<1> QED BY <1>3, <1>4, <1>7, <1>8

(* So does a run that has marked its task as running and goes on with it.  *)
LEMMA ClaimKeepsTaskInv ==
  ASSUME WmsTyped, TaskInv, NEW e \in Executors, At(e, "gate"),
         UpdateTaskStatus(runs[e].task, "running"), UNCHANGED <<late, contested>>,
         NEW step \in {"goal", "succeeded"}, Step(e, step),
         sent' \in {sent, sent \cup {runs[e].task}}
  PROVE  TaskInv'
<1> USE DEF TaskInv
<1> DEFINE t == runs[e].task
<1>1. /\ runs[e] # None /\ runs[e] \in Run
      /\ Writes(e, "running") /\ "running" \in TaskStatus /\ "running" \in Fitting(e)
  BY DEF At, Writes, TaskStatus, Fitting, WmsTyped, WmsTypeOK
<1>2. /\ \A f \in Executors \ {e} : runs'[f] = runs[f]
      /\ runs'[e] # None /\ runs'[e].task = t /\ runs'[e].step = step
  <2>1. runs' = [runs EXCEPT ![e] = [runs[e] EXCEPT !.step = step]]
    BY DEF Step
  <2>2. [runs[e] EXCEPT !.step = step] \in Run
    BY <1>1 DEF Run
  <2>3. [runs[e] EXCEPT !.step = step].task = t /\ [runs[e] EXCEPT !.step = step].step = step
    BY <1>1 DEF Run
  <2> QED BY <1>1, <2>1, <2>2, <2>3, NoneIsNoRun DEF WmsTyped, WmsTypeOK
<1>3. SharedIsContested'
  BY <1>1, <1>2 DEF SharedIsContested, HeldBy
<1>4. /\ t \in Rows /\ Rows' = Rows /\ status'[t] = "running"
      /\ \A u \in Rows : u # t => status'[u] = status[u]
  BY <1>1, Written DEF WmsTyped, WmsTypeOK, RowsExist
<1>5. RowFitsRun'
  <2> SUFFICES ASSUME NEW f \in Executors, runs'[f] # None, runs'[f].task \notin contested'
               PROVE  status'[runs'[f].task] =
                        IF runs'[f].step = "gate" THEN "pending" ELSE "running"
    BY DEF RowFitsRun
  <2>1. CASE f = e
    BY <1>2, <1>4, <2>1
  <2>2. CASE f # e
    <3>1. runs'[f] = runs[f] /\ runs[f].task \in Rows /\ runs[f].task # t
      BY <1>1, <1>2, <2>2 DEF SharedIsContested, HeldBy, WmsTyped, RowsExist
    <3> QED BY <1>4, <3>1 DEF RowFitsRun
  <2> QED BY <2>1, <2>2
<1>6. Pending' = Pending \ {t}
  BY <1>4 DEF Pending
<1>7. NotOfferedAgain'
  BY <1>6 DEF NotOfferedAgain
<1>8. \A u : Held(u)' <=> Held(u)
  BY <1>1, <1>2 DEF Held, HeldBy
<1>9. TakenInOrder'
  BY <1>1, <1>4, <1>6, <1>8 DEF TakenInOrder, Held, HeldBy
<1> QED BY <1>3, <1>5, <1>7, <1>9

(* Every step keeps TaskInv: a run by the lemmas on claims and ends above, late writes and
   operators because they contest the task they touch. *)
LEMMA TaskInvInductive ==
  ASSUME WmsTyped, TaskInv, [WmsNext]_wmsVars
  PROVE  TaskInv'
<1> USE DEF TaskInv
<1> status \in Seq(TaskStatus) /\ runs \in [Executors -> Run \cup {None}] /\ RowsExist
  BY DEF WmsTyped, WmsTypeOK
<1>1. ASSUME UNCHANGED <<status, runs, late, sent, contested>> PROVE TaskInv'
  BY <1>1 DEF SharedIsContested, RowFitsRun, NotOfferedAgain, TakenInOrder,
              Pending, Rows, Held, HeldBy
<1>2. CASE CreateTask
  <2> DEFINE n == Len(status) + 1
  <2>1. /\ UNCHANGED <<runs, late, sent, contested>>
        /\ Rows' = Rows \cup {n} /\ n \notin Rows /\ status'[n] = "pending"
        /\ Rows = 1 .. Len(status) /\ Len(status) \in Nat
        /\ \A u \in Rows : status'[u] = status[u]
    BY <1>2, Created DEF CreateTask
  <2>2. SharedIsContested' /\ RowFitsRun'
    BY <2>1 DEF SharedIsContested, RowFitsRun, HeldBy, RowsExist
  <2>3. Pending' = Pending \cup {n}
    BY <2>1 DEF Pending
  <2>4. NotOfferedAgain'
    BY <2>1, <2>3 DEF NotOfferedAgain, RowsExist
  <2>5. \A u : Held(u)' <=> Held(u)
    BY <2>1 DEF Held, HeldBy
  <2>6. ~Held(n) /\ n \notin sent
    BY <2>1 DEF Held, HeldBy, RowsExist
  <2>7. \A u \in Rows : ~(n < u)
    BY <2>1
  <2>8. TakenInOrder'
    BY <2>1, <2>3, <2>5, <2>6, <2>7 DEF TakenInOrder, Pending
  <2> QED BY <2>2, <2>4, <2>8
<1>3. ASSUME NEW t \in Rows, NEW s \in TaskStatus,
             OperatorUpdate(t, s) \/ LateWriteArrives(t, s)
      PROVE  TaskInv'
  <2>1. /\ UNCHANGED <<runs, sent>> /\ late' \subseteq late
        /\ contested \subseteq contested' /\ Rows' = Rows
        /\ \A u \in Rows : status'[u] = IF u = t THEN s ELSE status[u]
    BY <1>3, Written DEF OperatorUpdate, LateWriteArrives, Contest
  <2>2. t \in contested' \/ (~Held(t) /\ <<status[t], s>> \in Lifecycle)
    BY <1>3 DEF OperatorUpdate, LateWriteArrives, Contest, SharedIsContested
  <2>3. SharedIsContested'
    BY <2>1 DEF SharedIsContested, HeldBy
  <2>4. RowFitsRun'
    BY <2>1, <2>2 DEF RowFitsRun, RowsExist, Held, HeldBy
  <2>5. Pending' \ contested' \subseteq Pending \ contested
    BY <2>1, <2>2 DEF Pending, Lifecycle
  <2>6. \A u : Held(u)' <=> Held(u)
    BY <2>1 DEF Held, HeldBy
  <2>7. NotOfferedAgain' /\ TakenInOrder'
    BY <2>1, <2>5, <2>6 DEF NotOfferedAgain, TakenInOrder
  <2> QED BY <2>3, <2>4, <2>7
<1>4. ASSUME NEW e \in Executors, NEW t \in Rows,
             NEW http \in BOOLEAN, NEW execute \in BOOLEAN,
             Fetch(e, t, http, execute)
      PROVE  TaskInv'
  <2> DEFINE r == [task |-> t, http |-> http, execute |-> execute, step |-> "gate"]
  <2>1. /\ runs[e] = None /\ runs' = [runs EXCEPT ![e] = r]
        /\ UNCHANGED <<status, late, sent>> /\ Rows' = Rows
        /\ contested \subseteq contested' /\ (Held(t) => t \in contested')
        /\ t \in Pending /\ \A u \in Pending : t <= u
    BY <1>4 DEF Fetch, Contest, NextPending, Rows
  <2>2. /\ runs'[e] = r /\ runs'[e].task = t /\ runs'[e].step = "gate"
        /\ \A f \in Executors \ {e} : runs'[f] = runs[f]
    BY <2>1
  <2>3. SharedIsContested'
    BY <2>1, <2>2 DEF SharedIsContested, HeldBy, Held
  <2>4. RowFitsRun'
    BY <2>1, <2>2 DEF RowFitsRun, Pending
  <2>5. Pending' = Pending
    BY <2>1 DEF Pending
  <2>6. \A u : Held(u)' => Held(u) \/ u = t
    BY <2>2 DEF Held, HeldBy
  <2>7. \A u \in Pending : ~(u < t)
    BY <2>1 DEF Pending, Rows
  <2>8. NotOfferedAgain'
    BY <2>1, <2>5 DEF NotOfferedAgain
  <2>9. TakenInOrder'
    BY <2>1, <2>5, <2>6, <2>7 DEF TakenInOrder
  <2> QED BY <2>3, <2>4, <2>8, <2>9
<1>5. ASSUME NEW e \in Executors, Navigate(e) PROVE TaskInv'
  <2>1. PICK step \in {"succeeded", "failed"} : Step(e, step)
    BY <1>5 DEF Navigate
  <2>2. /\ runs[e] # None /\ runs[e] \in Run /\ runs[e].step = "goal"
        /\ UNCHANGED <<status, late, sent, contested>>
    BY <1>5 DEF Navigate, At
  <2>3. /\ \A f \in Executors \ {e} : runs'[f] = runs[f]
        /\ runs'[e] # None /\ runs'[e].task = runs[e].task /\ runs'[e].step = step
    <3>1. runs' = [runs EXCEPT ![e] = [runs[e] EXCEPT !.step = step]]
      BY <2>1 DEF Step
    <3>2. /\ [runs[e] EXCEPT !.step = step] \in Run
          /\ [runs[e] EXCEPT !.step = step].task = runs[e].task
          /\ [runs[e] EXCEPT !.step = step].step = step
      BY <2>2 DEF Run
    <3> QED BY <3>1, <3>2, NoneIsNoRun
  <2>4. \A f \in Executors : \A u : HeldBy(f, u)' <=> HeldBy(f, u)
    BY <2>2, <2>3 DEF HeldBy
  <2>5. SharedIsContested'
    BY <2>2, <2>3 DEF SharedIsContested, HeldBy
  <2>6. RowFitsRun'
    BY <2>2, <2>3 DEF RowFitsRun
  <2>7. NotOfferedAgain' /\ TakenInOrder'
    BY <2>2, <2>4 DEF NotOfferedAgain, TakenInOrder, Pending, Rows, Held
  <2> QED BY <2>5, <2>6, <2>7
<1>6. ASSUME NEW e \in Executors, Crash(e) PROVE TaskInv'
  <2>1. /\ \A f \in Executors : runs'[f] # None => runs'[f] = runs[f]
        /\ UNCHANGED <<status, late, sent, contested>>
    BY <1>6 DEF Crash, EndRun
  <2> QED
    BY <2>1 DEF SharedIsContested, RowFitsRun, NotOfferedAgain, TakenInOrder,
                Pending, Rows, Held, HeldBy
<1>7. ASSUME NEW e \in Executors, DirectStep(e) PROVE TaskInv'
  <2>1. CASE InvalidTarget(e)
    BY <2>1, EndKeepsTaskInv DEF InvalidTarget, Writes, Fitting, At
  <2>2. CASE HandBack(e)
    BY <2>2, EndKeepsTaskInv DEF HandBack, Writes, Fitting, At
  <2>3. CASE Claim(e)
    BY <2>3, ClaimKeepsTaskInv DEF Claim
  <2>4. CASE Report(e)
    BY <2>4, EndKeepsTaskInv DEF Report, Writes, Fitting, FinalStatus, At
  <2> QED BY <1>7, <2>1, <2>2, <2>3, <2>4 DEF DirectStep
<1>8. ASSUME NEW e \in Executors, HttpStep(e) PROVE TaskInv'
  <2>1. runs[e] # None
    BY <1>8 DEF HttpStep, HttpHandBack, HttpClaim, HttpSimulate, HttpReport, At
  <2>2. ASSUME NEW s \in Fitting(e), HttpWriteFails(e, s) PROVE TaskInv'
    BY <2>1, <2>2, EndKeepsTaskInv DEF HttpWriteFails, Writes
  <2>3. CASE HttpHandBack(e)
    <3>1. "pending" \in Fitting(e)
      BY <2>3 DEF HttpHandBack, Fitting
    <3> QED BY <2>1, <2>2, <2>3, <3>1, EndKeepsTaskInv DEF HttpHandBack, HttpWrite, Writes
  <2>4. CASE HttpClaim(e)
    <3>1. "running" \in Fitting(e)
      BY <2>4 DEF HttpClaim, Fitting
    <3> QED BY <2>2, <2>4, <3>1, ClaimKeepsTaskInv DEF HttpClaim, HttpWrite
  <2>5. CASE HttpSimulate(e)
    <3>1. "running" \in Fitting(e)
      BY <2>5 DEF HttpSimulate, Fitting
    <3> QED BY <2>2, <2>5, <3>1, ClaimKeepsTaskInv DEF HttpSimulate, HttpWrite
  <2>6. CASE HttpReport(e)
    <3>1. FinalStatus(runs[e].step) \in Fitting(e)
      BY <2>6 DEF HttpReport, Fitting, FinalStatus, At
    <3> QED BY <2>1, <2>2, <2>6, <3>1, EndKeepsTaskInv DEF HttpReport, HttpWrite, Writes
  <2> QED BY <1>8, <2>3, <2>4, <2>5, <2>6 DEF HttpStep
<1>9. ASSUME NEW e \in Executors, NEW left, NEW lenient,
             StartQueue(e, left, lenient) \/ StopQueue(e)
      PROVE  TaskInv'
  BY <1>9, <1>1 DEF StartQueue, StopQueue
<1>10. CASE UNCHANGED wmsVars
  BY <1>10, <1>1 DEF wmsVars
<1> QED
  BY <1>2, <1>3, <1>4, <1>5, <1>6, <1>7, <1>8, <1>9, <1>10 DEF WmsNext

(* The invariant holds for every executor, operator and delay.             *)
THEOREM TaskInvHolds == WmsSpec => [](WmsTyped /\ TaskInv)
<1>1. WmsInit => WmsTyped /\ TaskInv
  BY FS_EmptySet, BoundsAreNat
     DEF WmsInit, WmsTyped, WmsTypeOK, RowsExist, Rows, TaskInv, SharedIsContested,
         RowFitsRun, NotOfferedAgain, TakenInOrder, Pending
<1>2. WmsTyped /\ TaskInv /\ [WmsNext]_wmsVars => (WmsTyped /\ TaskInv)'
  BY WmsTypedInductive, TaskInvInductive
<1> QED BY <1>1, <1>2, PTL DEF WmsSpec

-----------------------------------------------------------------------------
(* What follows in a single state.                                         *)

(* GoalIsClaimed: while its goal is out, the row of a task says running.   *)
THEOREM GoalsAreClaimed == WmsSpec => []GoalIsClaimed
<1>1. TaskInv => GoalIsClaimed
  BY DEF TaskInv, RowFitsRun, GoalIsClaimed
<1> QED BY <1>1, TaskInvHolds, PTL

(* NotOfferedAgain: nothing sends the robot to an uncontested task twice.  *)
THEOREM SentTasksAreNotOffered == WmsSpec => []NotOfferedAgain
<1>1. TaskInv => NotOfferedAgain
  BY DEF TaskInv
<1> QED BY <1>1, TaskInvHolds, PTL

(* TakenInOrder: a pending task is not overtaken by a later one.           *)
THEOREM TasksAreTakenInOrder == WmsSpec => []TakenInOrder
<1>1. TaskInv => TakenInOrder
  BY DEF TaskInv
<1> QED BY <1>1, TaskInvHolds, PTL

-----------------------------------------------------------------------------
(* What a step may not do.                                                 *)

(* Every step takes an uncontested row along the documented life, and      *)
(* only a pending task is taken up.                                        *)
LEMMA TaskStep ==
  ASSUME WmsTyped, TaskInv, [WmsNext]_wmsVars, NEW t \in Rows
  PROVE  /\ t \notin contested' /\ status'[t] # status[t] =>
              <<status[t], status'[t]>> \in Lifecycle
         /\ Held(t)' => Held(t) \/ status[t] = "pending"
<1> status \in Seq(TaskStatus) /\ runs \in [Executors -> Run \cup {None}]
  BY DEF WmsTyped, WmsTypeOK
<1>1. ASSUME status' = status,
             \A f \in Executors : HeldBy(f, t)' => HeldBy(f, t)
      PROVE  /\ status'[t] = status[t]
             /\ Held(t)' => Held(t)
  BY <1>1 DEF Held
<1>2. CASE UNCHANGED wmsVars
  BY <1>2 DEF wmsVars, Held, HeldBy
<1>3. CASE CreateTask
  BY <1>3, Created DEF CreateTask, Held, HeldBy
<1>4. ASSUME NEW u \in Rows, NEW s \in TaskStatus, OperatorUpdate(u, s)
      PROVE  /\ t \notin contested' /\ status'[t] # status[t] =>
                  <<status[t], status'[t]>> \in Lifecycle
             /\ Held(t)' => Held(t)
  BY <1>4, Written DEF OperatorUpdate, Contest, Held, HeldBy
<1>5. ASSUME NEW u \in Rows, NEW s \in TaskStatus, LateWriteArrives(u, s)
      PROVE  /\ t \notin contested' => status'[t] = status[t]
             /\ Held(t)' => Held(t)
  <2>1. u \in contested' /\ runs' = runs
    BY <1>5 DEF LateWriteArrives, TaskInv, SharedIsContested
  <2>2. t # u => status'[t] = status[t]
    BY <1>5, Written DEF LateWriteArrives
  <2> QED BY <2>1, <2>2 DEF Held, HeldBy
<1>6. ASSUME NEW e \in Executors, NEW u \in Rows, NEW http, NEW execute,
             Fetch(e, u, http, execute)
      PROVE  /\ status' = status
             /\ Held(t)' => Held(t) \/ status[t] = "pending"
  <2> DEFINE r == [task |-> u, http |-> http, execute |-> execute, step |-> "gate"]
  <2>1. /\ status' = status /\ status[u] = "pending"
        /\ runs' = [runs EXCEPT ![e] = r] /\ r.task = u
    BY <1>6 DEF Fetch, NextPending, Pending
  <2>2. runs'[e].task = u /\ \A f \in Executors \ {e} : runs'[f] = runs[f]
    BY <2>1
  <2> QED BY <2>1, <2>2 DEF Held, HeldBy
<1>7. ASSUME NEW e \in Executors, runs[e] # None, EndRun(e) \/ \E step : Step(e, step)
      PROVE  Held(t)' => Held(t)
  <2>1. CASE EndRun(e)
    BY <2>1 DEF EndRun, Held, HeldBy
  <2>2. ASSUME NEW step, Step(e, step) PROVE Held(t)' => Held(t)
    <3>1. runs' = [runs EXCEPT ![e] = [runs[e] EXCEPT !.step = step]]
      BY <2>2 DEF Step
    <3>2. [runs[e] EXCEPT !.step = step].task = runs[e].task
      BY <1>7 DEF Run
    <3> QED BY <1>7, <3>1, <3>2 DEF Held, HeldBy
  <2> QED BY <1>7, <2>1, <2>2
<1>8. ASSUME NEW e \in Executors, runs[e] # None, NEW s \in Fitting(e), Writes(e, s)
      PROVE  t \notin contested' /\ status'[t] # status[t] =>
               <<status[t], status'[t]>> \in Lifecycle
  BY <1>8, WriteIsLegal
<1>9. ASSUME NEW e \in Executors, DirectStep(e)
      PROVE  /\ runs[e] # None
             /\ EndRun(e) \/ \E step : Step(e, step)
             /\ \E s \in Fitting(e) : Writes(e, s)
  <2>1. CASE InvalidTarget(e)
    BY <2>1 DEF InvalidTarget, Writes, Fitting, At
  <2>2. CASE HandBack(e)
    BY <2>2 DEF HandBack, Writes, Fitting, At
  <2>3. CASE Claim(e)
    BY <2>3 DEF Claim, Writes, Fitting, At
  <2>4. CASE Report(e)
    BY <2>4 DEF Report, Writes, Fitting, FinalStatus, At
  <2> QED BY <1>9, <2>1, <2>2, <2>3, <2>4 DEF DirectStep
<1>10. ASSUME NEW e \in Executors, HttpStep(e)
       PROVE  /\ runs[e] # None
              /\ EndRun(e) \/ \E step : Step(e, step)
              /\ \E s \in Fitting(e) : Writes(e, s)
  <2>1. CASE HttpHandBack(e)
    BY <2>1 DEF HttpHandBack, HttpWrite, HttpWriteFails, Writes, Fitting, At
  <2>2. CASE HttpClaim(e)
    BY <2>2 DEF HttpClaim, HttpWrite, HttpWriteFails, Writes, Fitting, At
  <2>3. CASE HttpSimulate(e)
    BY <2>3 DEF HttpSimulate, HttpWrite, HttpWriteFails, Writes, Fitting, At
  <2>4. CASE HttpReport(e)
    BY <2>4 DEF HttpReport, HttpWrite, HttpWriteFails, Writes, Fitting, FinalStatus, At
  <2> QED BY <1>10, <2>1, <2>2, <2>3, <2>4 DEF HttpStep
<1>11. ASSUME NEW e \in Executors, Navigate(e)
       PROVE  status' = status /\ (Held(t)' => Held(t))
  BY <1>11, <1>7 DEF Navigate, At
<1>12. ASSUME NEW e \in Executors, NEW left, NEW lenient,
              StartQueue(e, left, lenient) \/ StopQueue(e)
       PROVE  status' = status /\ (Held(t)' => Held(t))
  BY <1>12 DEF StartQueue, StopQueue, Held, HeldBy
<1>13. ASSUME NEW e \in Executors, Crash(e)
       PROVE  status' = status /\ (Held(t)' => Held(t))
  BY <1>13, <1>7 DEF Crash
<1> QED
  BY <1>2, <1>3, <1>4, <1>5, <1>6, <1>7, <1>8, <1>9, <1>10, <1>11, <1>12, <1>13
     DEF WmsNext

(* UncontestedLifecycle, through crashes and lost answers.                 *)
THEOREM TasksLiveTheirLife == WmsSpec => UncontestedLifecycle
<1>1. WmsTyped /\ TaskInv /\ [WmsNext]_wmsVars =>
        [ \A t \in Rows :
        t \notin contested' /\ status'[t] # status[t] =>
          <<status[t], status'[t]>> \in Lifecycle ]_wmsVars
  BY TaskStep
<1> QED BY <1>1, TaskInvHolds, PTL DEF WmsSpec, UncontestedLifecycle

(* OrphanIsNotResumed: what a dead executor left running stays alone.      *)
THEOREM OrphansStayAlone == WmsSpec => OrphanIsNotResumed
<1>1. WmsTyped /\ TaskInv /\ [WmsNext]_wmsVars =>
        [ \A t \in Rows :
        status[t] = "running" /\ ~Held(t) /\ t \notin contested' =>
          ~Held(t)' /\ status'[t] # "pending" ]_wmsVars
  <2> SUFFICES ASSUME WmsTyped, TaskInv, [WmsNext]_wmsVars, NEW t \in Rows,
                      status[t] = "running", ~Held(t), t \notin contested'
               PROVE  ~Held(t)' /\ status'[t] # "pending"
    OBVIOUS
  <2> QED BY TaskStep DEF Lifecycle
<1> QED BY <1>1, TaskInvHolds, PTL DEF WmsSpec, OrphanIsNotResumed

=============================================================================
