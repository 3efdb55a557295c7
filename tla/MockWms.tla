------------------------------- MODULE MockWms -------------------------------
(***************************************************************************)
(* The Mock WMS: a sqlite table of navigation tasks (mock_wms_db_common),  *)
(* an HTTP API over it (mock_wms_api), executors that take the earliest    *)
(* pending task to Nav2 (mock_wms_executor), and a runner that calls the   *)
(* executor until the queue is empty (mock_wms_task_runner).               *)
(*                                                                         *)
(* Each sqlite transaction is one action.  Nothing joins the transaction   *)
(* in which an executor reads a task to the ones in which it writes its    *)
(* status, so executors, operators and crashes come in between.  An HTTP   *)
(* write may not arrive, may lose its answer, or may arrive after its      *)
(* client has given up.  Poses, names, reasons and times are left out;     *)
(* rows are created in the order of their ids.                             *)
(***************************************************************************)
EXTENDS Naturals, Sequences, FiniteSets

CONSTANTS
  Executors,  \* the processes that run an executor
  Runners,    \* those of them that may run it in the queue runner
  None,       \* Python's None
  MaxRows,    \* bound: how many tasks are ever created
  MaxLate,    \* bound: how many HTTP writes are late at once
  MaxTasks    \* the value of the runner's --max-tasks, if it is given

ASSUME RunnersAreExecutors == Runners \subseteq Executors

ASSUME BoundsAreNat == {MaxRows, MaxLate, MaxTasks} \subseteq Nat

ASSUME NoneIsNoNumber == None \notin Nat

VARIABLES
  status,     \* the tasks table: the status of the row with each id
  runs,       \* the run of run_executor_once of each executor, or None
  queue,      \* the loop of run_task_queue of each executor, or None
  late,       \* the HTTP writes whose client has given up on them
  sent,       \* the tasks whose goal has been sent to Nav2
  reached,    \* the tasks somebody saw done: a robot, a dry run, an operator
  contested   \* the tasks more than one party has had a hand in at once

wmsVars == <<status, runs, queue, late, sent, reached, contested>>

-----------------------------------------------------------------------------
TaskStatus == {"pending", "running", "succeeded", "failed", "canceled"}

Ids == 1..MaxRows

(* The steps of a run between two transactions: it waits for the ready     *)
(* gate, it waits for Nav2, it has a final status to write.                *)
Run == [task : Ids, http : BOOLEAN, execute : BOOLEAN,
        step : {"gate", "goal", "succeeded", "failed"}]

ASSUME NoneIsNoRun == None \notin Run

(* What a runner may still consume, None without --max-tasks, and whether  *)
(* it was given --continue-on-failure.                                     *)
Queue == [left : (1..MaxTasks) \cup {None}, lenient : BOOLEAN]

WmsTypeOK ==
  /\ status \in Seq(TaskStatus)
  /\ Len(status) <= MaxRows
  /\ runs \in [Executors -> Run \cup {None}]
  /\ queue \in [Executors -> Queue \cup {None}]
  /\ late \subseteq Ids \X TaskStatus /\ Cardinality(late) <= MaxLate
  /\ sent \subseteq Ids
  /\ reached \subseteq Ids
  /\ contested \subseteq Ids

-----------------------------------------------------------------------------
Rows == DOMAIN status

Pending == {t \in Rows : status[t] = "pending"}

HeldBy(e, t) == runs[e] # None /\ runs[e].task = t
Held(t) == \E e \in Executors : HeldBy(e, t)

At(e, step) == runs[e] # None /\ runs[e].step = step

(* Mutants: the latest pending task; a task that is pending or running.    *)
LatestPending(t) == t \in Pending /\ \A u \in Pending : u <= t

EarliestOpen(t) ==
  LET open == {u \in Rows : status[u] \in {"pending", "running"}}
  IN  t \in open /\ \A u \in open : t <= u

(* get_next_pending_task, and its counterpart over HTTP.                   *)
NextPending(t) == t \in Pending /\ \A u \in Pending : t <= u

(* update_task_status asks for a known status and an existing row, never   *)
(* for the status the row has.                                             *)
UpdateTaskStatus(t, s) == status' = [status EXCEPT ![t] = s]

Contest(t) == contested' = contested \cup {t}

-----------------------------------------------------------------------------
(* How a run ends, and what the runner makes of it.                        *)

EndRun(e) == runs' = [runs EXCEPT ![e] = None]

Step(e, step) == runs' = [runs EXCEPT ![e].step = step]

(* Mutant: the runner does not stop at its last task.                      *)
GoesOnPastLast(e, outcome) ==
  /\ queue[e] # None
  /\ outcome = "succeeded" \/ (outcome = "failed" /\ queue[e].lenient)

(* run_task_queue goes on after a success, and after a failed or invalid   *)
(* task if it was told to, unless that was the last one it may consume;    *)
(* any other outcome ends it.                                              *)
GoesOn(e, outcome) ==
  /\ queue[e] # None
  /\ outcome = "succeeded" \/ (outcome = "failed" /\ queue[e].lenient)
  /\ queue[e].left # 1

Consumed(left) == IF left = None THEN None ELSE left - 1

QueueAfter(e, outcome) ==
  queue' = IF GoesOn(e, outcome) THEN [queue EXCEPT ![e].left = Consumed(@)]
           ELSE [queue EXCEPT ![e] = None]

StartQueue(e, left, lenient) ==
  /\ e \in Runners
  /\ runs[e] = None
  /\ queue[e] = None
  /\ queue' = [queue EXCEPT ![e] = [left |-> left, lenient |-> lenient]]
  /\ UNCHANGED <<status, runs, late, sent, reached, contested>>

(* queue-empty.                                                            *)
StopQueue(e) ==
  /\ runs[e] = None
  /\ queue[e] # None
  /\ Pending = {}
  /\ queue' = [queue EXCEPT ![e] = None]
  /\ UNCHANGED <<status, runs, late, sent, reached, contested>>

-----------------------------------------------------------------------------
(* run_executor_once and run_http_executor_once take a task.  A runner     *)
(* passes its own --execute and no API URL.  Without a pending task, or    *)
(* without an answer of the API, the run ends and nothing has happened.    *)
Fetch(e, t, http, execute) ==
  /\ runs[e] = None
  /\ NextPending(t)
  /\ queue[e] # None => execute /\ ~http
  /\ runs' = [runs EXCEPT ![e] = [task |-> t, http |-> http,
                                  execute |-> execute, step |-> "gate"]]
  /\ IF Held(t) THEN Contest(t) ELSE UNCHANGED contested
  /\ UNCHANGED <<status, queue, late, sent, reached>>

(* The direct executor resolves the target again; HTTP rows carry a pose.  *)
InvalidTarget(e) ==
  /\ At(e, "gate")
  /\ ~runs[e].http
  /\ UpdateTaskStatus(runs[e].task, "failed")
  /\ EndRun(e)
  /\ QueueAfter(e, "failed")
  /\ UNCHANGED <<late, sent, reached, contested>>

(* The ready gate did not open in time, or this is a direct dry run and it *)
(* does not matter: the task is written back as pending.                   *)
HandBack(e) ==
  /\ At(e, "gate")
  /\ ~runs[e].http
  /\ UpdateTaskStatus(runs[e].task, "pending")
  /\ EndRun(e)
  /\ QueueAfter(e, "not-ready")
  /\ UNCHANGED <<late, sent, reached, contested>>

(* Mutant: the goal is sent, and the row is not marked.                    *)
ClaimUnmarked(e) ==
  /\ At(e, "gate")
  /\ ~runs[e].http
  /\ runs[e].execute
  /\ Step(e, "goal")
  /\ sent' = sent \cup {runs[e].task}
  /\ UNCHANGED <<status, queue, late, reached, contested>>

(* The gate is open: running is written, then the goal is sent.            *)
Claim(e) ==
  /\ At(e, "gate")
  /\ ~runs[e].http
  /\ runs[e].execute
  /\ UpdateTaskStatus(runs[e].task, "running")
  /\ Step(e, "goal")
  /\ sent' = sent \cup {runs[e].task}
  /\ UNCHANGED <<queue, late, reached, contested>>

(* External: Nav2 reports the goal reached; or it rejects it, aborts it,   *)
(* or does not answer in time, which navigate_to_pose reports alike.       *)
Navigate(e) ==
  /\ At(e, "goal")
  /\ \/ Step(e, "succeeded") /\ reached' = reached \cup {runs[e].task}
     \/ Step(e, "failed") /\ UNCHANGED reached
  /\ UNCHANGED <<status, queue, late, sent, contested>>

(* Mutants: a failed task is offered again; a failure counts as a success. *)
RetryFailed(step) == IF step = "failed" THEN "pending" ELSE step

AlwaysSucceeded(step) == "succeeded"

(* The final status of a run whose navigation has ended.                   *)
FinalStatus(step) == step

Report(e) ==
  /\ At(e, "succeeded") \/ At(e, "failed")
  /\ ~runs[e].http
  /\ UpdateTaskStatus(runs[e].task, FinalStatus(runs[e].step))
  /\ EndRun(e)
  /\ QueueAfter(e, runs[e].step)
  /\ UNCHANGED <<late, sent, reached, contested>>

-----------------------------------------------------------------------------
(* _update_http_task_status_or_fail: the same writes over HTTP.            *)

(* The API is unreachable, or refuses: nothing is written.                 *)
RequestLost(e, s) == UNCHANGED <<status, late, contested>>

(* The API writes, but its answer times out or is not a valid task.        *)
AnswerLost(e, s) ==
  /\ UpdateTaskStatus(runs[e].task, s)
  /\ UNCHANGED <<late, contested>>

(* The API is busy and will write when the client is gone.                 *)
RequestLate(e, s) ==
  /\ Cardinality(late) < MaxLate
  /\ late' = late \cup {<<runs[e].task, s>>}
  /\ Contest(runs[e].task)
  /\ UNCHANGED status

(* Each ends the run with api-unreachable or invalid-task-payload.         *)
HttpWriteFails(e, s) ==
  /\ runs[e].http
  /\ RequestLost(e, s) \/ AnswerLost(e, s) \/ RequestLate(e, s)
  /\ EndRun(e)
  /\ UNCHANGED <<queue, sent, reached>>

HttpWrite(e, s) ==
  /\ runs[e].http
  /\ UpdateTaskStatus(runs[e].task, s)
  /\ UNCHANGED <<queue, late, contested>>

(* Not ready in time; a dry run does not look at the gate.                 *)
HttpHandBack(e) ==
  /\ At(e, "gate")
  /\ runs[e].execute
  /\ \/ HttpWrite(e, "pending") /\ EndRun(e) /\ UNCHANGED <<sent, reached>>
     \/ HttpWriteFails(e, "pending")

(* Mutant: the goal is sent whatever became of the write.                  *)
HttpClaimUnconfirmed(e) ==
  /\ At(e, "gate")
  /\ runs[e].execute
  /\ runs[e].http
  /\ RequestLost(e, "running") \/ AnswerLost(e, "running")
  /\ Step(e, "goal")
  /\ sent' = sent \cup {runs[e].task}
  /\ UNCHANGED <<queue, reached>>

(* The goal is sent only after the write has been confirmed.               *)
HttpClaim(e) ==
  /\ At(e, "gate")
  /\ runs[e].execute
  /\ \/ /\ HttpWrite(e, "running")
        /\ Step(e, "goal")
        /\ sent' = sent \cup {runs[e].task}
        /\ UNCHANGED reached
     \/ HttpWriteFails(e, "running")

(* The dry run claims the task and simulates its handling.                 *)
HttpSimulate(e) ==
  /\ At(e, "gate")
  /\ ~runs[e].execute
  /\ \/ /\ HttpWrite(e, "running")
        /\ Step(e, "succeeded")
        /\ reached' = reached \cup {runs[e].task}
        /\ UNCHANGED sent
     \/ HttpWriteFails(e, "running")

HttpReport(e) ==
  /\ At(e, "succeeded") \/ At(e, "failed")
  /\ \/ /\ HttpWrite(e, FinalStatus(runs[e].step))
        /\ EndRun(e)
        /\ UNCHANGED <<sent, reached>>
     \/ HttpWriteFails(e, FinalStatus(runs[e].step))

LateWriteArrives(t, s) ==
  /\ <<t, s>> \in late
  /\ UpdateTaskStatus(t, s)
  /\ late' = late \ {<<t, s>>}
  /\ UNCHANGED <<runs, queue, sent, reached, contested>>

-----------------------------------------------------------------------------
(* The rest of the world.                                                  *)

(* create_task, by the command line or POST /tasks.                        *)
CreateTask ==
  /\ Len(status) < MaxRows
  /\ status' = Append(status, "pending")
  /\ UNCHANGED <<runs, queue, late, sent, reached, contested>>

(* The documented life of a task: mock_wms_design.md:80-92, and            *)
(* mock_wms_executor_design.md:76-86 for pending -> failed.                *)
Lifecycle ==
  ({"pending"} \X {"running", "canceled", "failed"}) \cup
  ({"running"} \X {"succeeded", "failed", "canceled"})

(* PATCH /tasks/{id}/status by an operator, to any status at any time.     *)
OperatorUpdate(t, s) ==
  /\ s # status[t]
  /\ UpdateTaskStatus(t, s)
  /\ reached' = IF s = "succeeded" THEN reached \cup {t} ELSE reached
  /\ IF Held(t) \/ <<status[t], s>> \notin Lifecycle THEN Contest(t)
     ELSE UNCHANGED contested
  /\ UNCHANGED <<runs, queue, late, sent>>

(* The process of e dies, or a sqlite error ends it.                       *)
Crash(e) ==
  /\ runs[e] # None
  /\ EndRun(e)
  /\ queue' = [queue EXCEPT ![e] = None]
  /\ UNCHANGED <<status, late, sent, reached, contested>>

WmsInit ==
  /\ status = <<>>
  /\ runs = [e \in Executors |-> None]
  /\ queue = [e \in Executors |-> None]
  /\ late = {}
  /\ sent = {}
  /\ reached = {}
  /\ contested = {}

DirectStep(e) ==
  InvalidTarget(e) \/ HandBack(e) \/ Claim(e) \/ Report(e)

HttpStep(e) ==
  HttpHandBack(e) \/ HttpClaim(e) \/ HttpSimulate(e) \/ HttpReport(e)

WmsNext ==
  \/ CreateTask
  \/ \E t \in Rows, s \in TaskStatus : OperatorUpdate(t, s) \/ LateWriteArrives(t, s)
  \/ \E e \in Executors :
       \/ \E left \in (1..MaxTasks) \cup {None}, lenient \in BOOLEAN :
            StartQueue(e, left, lenient)
       \/ StopQueue(e)
       \/ \E t \in Rows, http, execute \in BOOLEAN : Fetch(e, t, http, execute)
       \/ DirectStep(e)
       \/ HttpStep(e)
       \/ Navigate(e)
       \/ Crash(e)

WmsSpec == WmsInit /\ [][WmsNext]_wmsVars

-----------------------------------------------------------------------------
(* Correctness properties.  The code has no lock on a task and the design  *)
(* says so, therefore they spare the tasks that were contested.            *)

(* A task that only one party at a time has dealt with lives the life the  *)
(* design gives it, through crashes, lost requests and lost answers.       *)
UncontestedLifecycle ==
  [][ \A t \in Rows :
        t \notin contested' /\ status'[t] # status[t] =>
          <<status[t], status'[t]>> \in Lifecycle ]_wmsVars

(* An executor sends a goal, and waits for it, only while the row says     *)
(* that the task is running.                                               *)
GoalIsClaimed ==
  \A e \in Executors :
    runs[e] # None /\ runs[e].step # "gate" /\ runs[e].task \notin contested =>
      status[runs[e].task] = "running"

(* A task whose goal has been sent is never offered again, and so the      *)
(* robot is not sent to it twice.                                          *)
NotOfferedAgain == (sent \cap Pending) \subseteq contested

(* Tasks are taken in the order of their creation: while a task is         *)
(* pending, no later one is in work or has been sent to the robot.         *)
TakenInOrder ==
  \A t1 \in Pending \ contested, t2 \in Rows :
    t1 < t2 => ~Held(t2) /\ t2 \notin sent

(* A row says succeeded only if somebody has seen the task done, even if   *)
(* writes were late, lost or overtaken.                                    *)
SuccessWasSeen == \A t \in Rows : status[t] = "succeeded" => t \in reached

(* A task whose executor died, or lost an answer, after it was marked      *)
(* running stays where it is: no executor ever takes it up again.          *)
OrphanIsNotResumed ==
  [][ \A t \in Rows :
        status[t] = "running" /\ ~Held(t) /\ t \notin contested' =>
          ~Held(t)' /\ status'[t] # "pending" ]_wmsVars

=============================================================================
