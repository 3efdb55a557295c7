-------------------------- MODULE HaulFleetProofs --------------------------
(* Theorems about HaulFleet, for any sets of robots and tasks and for any  *)
(* caller: every ledger keeps its type, the three ledgers of a task (WMS   *)
(* status, assignment, execution phase) agree, and what has been loaded or *)
(* ended stays so.                                                         *)
EXTENDS HaulFleet, TLAPS

(* Every state of the haul fleet is of its type, whoever calls what.       *)
LEMMA TypeInit == Init => TypeOK
BY DEF Init, TypeOK, RegistryInit, RegistryTypeOK, RobotRecord, RobotState,
       NewHaul, Haul, Assignment, WmsStatus, Phase, NoVisit

(* A transition writes a record of its type.                               *)
LEMMA MovedType ==
  ASSUME NEW reg \in [Robots -> RobotRecord], NEW r \in Robots,
         NEW target \in RobotState, NEW task \in Tasks \cup {None}
  PROVE  Moved(reg, r, target, task) \in [Robots -> RobotRecord]
BY DEF Moved, RobotRecord

(* _release_robot leaves a registry of its type.                           *)
LEMMA ReleasedType ==
  ASSUME NEW reg \in [Robots -> RobotRecord], NEW r \in Robots \cup {None}
  PROVE  Released(reg, r) \in [Robots -> RobotRecord]
BY MovedType DEF Released, RobotState

(* assign, accepted or refused by the dispatcher, keeps the types.         *)
LEMMA AssignType ==
  ASSUME TypeOK, NEW t \in Tasks,
         (\E r \in Robots : AssignAccepted(t, r)) \/ AssignRejected(t)
  PROVE  /\ robots' \in [Robots -> RobotRecord]
         /\ assignments' \in [Tasks -> Assignment]
         /\ hauls' \in [Tasks -> Haul]
<1>1. Reset(t) \in Haul
  BY DEF TypeOK, Reset, Haul, Phase
<1>2. ASSUME NEW r \in Robots, AssignAccepted(t, r)
      PROVE  /\ robots' \in [Robots -> RobotRecord]
             /\ assignments' \in [Tasks -> Assignment]
             /\ hauls' \in [Tasks -> Haul]
  <2>1. robots' \in [Robots -> RobotRecord]
    BY <1>2, MovedType
       DEF TypeOK, RegistryTypeOK, AssignAccepted, AssignTask, Transition,
           RobotState
  <2>2. assignments' \in [Tasks -> Assignment]
    BY <1>2 DEF TypeOK, AssignAccepted, Assignment, AssignmentStatus
  <2>3. hauls' \in [Tasks -> Haul]
    BY <1>1, <1>2
       DEF TypeOK, AssignAccepted, ReplaceSnapshot, Haul, AssignmentStatus,
           WmsStatus
  <2> QED BY <2>1, <2>2, <2>3
<1>3. CASE AssignRejected(t)
  BY <1>1, <1>3 DEF AssignRejected, ReplaceSnapshot, TypeOK, RegistryTypeOK
<1> QED BY <1>2, <1>3

(* What the assignment syncs write is of its type.                         *)
LEMMA SyncedType ==
  ASSUME TypeOK, NEW t \in Tasks, NEW status \in AssignmentStatus
  PROVE  /\ Synced(t, status) \in [Tasks -> Assignment]
         /\ SyncedIfBound(t, status) \in [Tasks -> Assignment]
         /\ AsgIfBound(t, status) \in AssignmentStatus \cup {None}
BY DEF TypeOK, Synced, SyncedIfBound, AsgIfBound, Assignment, Haul

(* Replacing a snapshot by one of its type keeps the type.                 *)
LEMMA SnapshotType ==
  ASSUME TypeOK, NEW t \in Tasks, NEW h \in Haul, ReplaceSnapshot(t, h)
  PROVE  hauls' \in [Tasks -> Haul]
BY DEF TypeOK, ReplaceSnapshot

(* fail keeps the types.                                                   *)
LEMMA FailType ==
  ASSUME TypeOK, NEW t \in Tasks, FailEffect(t)
  PROVE  /\ robots' \in [Robots -> RobotRecord]
         /\ assignments' \in [Tasks -> Assignment]
         /\ hauls' \in [Tasks -> Haul]
<1>1. hauls[t] \in Haul /\ FailedPhase(t) \in Phase
  BY DEF TypeOK, FailedPhase, Haul, Phase
<1>2. [hauls[t] EXCEPT !.phase = FailedPhase(t)] \in Haul
  BY <1>1 DEF Haul
<1>3. [hauls[t] EXCEPT
         !.phase = FailedPhase(t),
         !.wms = IF @ \in TerminalWmsStatus THEN @ ELSE "FAILED",
         !.asg = AsgIfBound(t, "failed")] \in Haul
  <2>1. AsgIfBound(t, "failed") \in AssignmentStatus \cup {None}
    BY SyncedType DEF AssignmentStatus
  <2> QED BY <1>1, <2>1 DEF Haul, WmsStatus
<1>4. hauls' \in [Tasks -> Haul]
  BY <1>2, <1>3, SnapshotType DEF FailEffect
<1>5. robots' \in [Robots -> RobotRecord]
  BY <1>1, ReleasedType DEF FailEffect, TypeOK, RegistryTypeOK, Haul
<1>6. assignments' \in [Tasks -> Assignment]
  BY SyncedType DEF FailEffect, TypeOK, AssignmentStatus
<1> QED BY <1>4, <1>5, <1>6

(* requeue keeps the types, whether it succeeds or raises half-way.        *)
LEMMA RequeueType ==
  ASSUME TypeOK, NEW t \in Tasks, RequeueAccepted(t) \/ RequeueRejected(t)
  PROVE  /\ assignments' \in [Tasks -> Assignment]
         /\ hauls' \in [Tasks -> Haul]
<1>1. hauls[t] \in Haul /\ AsgIfBound(t, "released") \in AssignmentStatus \cup {None}
  BY SyncedType DEF TypeOK, AssignmentStatus
<1>2. [hauls[t] EXCEPT !.phase = "REQUEUED"] \in Haul
  BY <1>1 DEF Haul, Phase
<1>3. [hauls[t] EXCEPT !.phase = "REQUEUED", !.wms = "REQUEUED",
                       !.asg = AsgIfBound(t, "released"), !.robot = None] \in Haul
  BY <1>1 DEF Haul, Phase, WmsStatus
<1>4. hauls' \in [Tasks -> Haul]
  BY <1>2, <1>3, SnapshotType DEF RequeueAccepted, RequeueRejected
<1>5. assignments' \in [Tasks -> Assignment]
  BY SyncedType DEF RequeueAccepted, RequeueRejected, TypeOK, AssignmentStatus
<1> QED BY <1>4, <1>5

(* The steps from start to dropoff keep the types.                         *)
LEMMA DriveType ==
  ASSUME TypeOK, NEW t \in Tasks, Drive(t)
  PROVE  /\ robots' \in [Robots -> RobotRecord]
         /\ assignments' \in [Tasks -> Assignment]
         /\ hauls' \in [Tasks -> Haul]
<1> DEFINE Goal == /\ robots' \in [Robots -> RobotRecord]
                   /\ assignments' \in [Tasks -> Assignment]
                   /\ hauls' \in [Tasks -> Haul]
<1> USE DEF TypeOK, RegistryTypeOK
<1>1. hauls[t] \in Haul /\ hauls[t].robot \in Robots \cup {None}
  BY DEF Haul
<1>2. ASSUME NEW r \in Robots, MarkBusy(r)
      PROVE  robots' \in [Robots -> RobotRecord]
  BY <1>2, MovedType DEF MarkBusy, Transition, RobotRecord, RobotState
<1>3. CASE Start(t)
  <2>1. \A phase \in Phase :
          [hauls[t] EXCEPT !.wms = "IN_PROGRESS", !.asg = "executing",
                           !.phase = phase] \in Haul
    BY <1>1 DEF Haul, WmsStatus, AssignmentStatus
  <2>2. (IF PhaseMay(t, "NAVIGATING_TO_PICKUP")
         THEN "NAVIGATING_TO_PICKUP" ELSE hauls[t].phase) \in Phase
    BY <1>1 DEF Haul, Phase
  <2>3. hauls' \in [Tasks -> Haul]
    BY <1>3, <2>1, <2>2, SnapshotType DEF Start
  <2> QED BY <1>1, <1>2, <1>3, <2>3, SyncedType DEF Start, AssignmentStatus
<1>4. ASSUME NEW from \in Phase, NEW to \in Phase, Arrive(t, from, to)
      PROVE  Goal
  <2>1. [hauls[t] EXCEPT !.phase = to] \in Haul
    BY <1>1 DEF Haul
  <2> QED BY <1>1, <1>2, <1>4, <2>1, SnapshotType DEF Arrive
<1>5. CASE ArriveAtPickup(t) \/ ArriveAtDropoff(t)
  BY <1>4, <1>5 DEF ArriveAtPickup, ArriveAtDropoff, Phase
<1>6. CASE CompletePickup(t)
  <2>1. [hauls[t] EXCEPT !.phase = "NAVIGATING_TO_DROPOFF", !.picked = TRUE] \in Haul
    BY <1>1 DEF Haul, Phase
  <2> QED BY <1>6, <2>1, SnapshotType DEF CompletePickup
<1>7. CASE CompleteDropoff(t)
  <2>1. [hauls[t] EXCEPT !.phase = "SUCCEEDED", !.wms = "SUCCEEDED",
                         !.asg = "completed"] \in Haul
    BY <1>1 DEF Haul, Phase, WmsStatus, AssignmentStatus
  <2> QED
    BY <1>1, <1>7, <2>1, SnapshotType, SyncedType, ReleasedType
       DEF CompleteDropoff, AssignmentStatus
<1>8. CASE NavigationFails(t)
  BY <1>8, FailType DEF NavigationFails, Fail
<1> QED BY <1>3, <1>5, <1>6, <1>7, <1>8 DEF Drive

(* cancel keeps the types.                                                 *)
LEMMA CancelType ==
  ASSUME TypeOK, NEW t \in Tasks, Cancel(t)
  PROVE  /\ robots' \in [Robots -> RobotRecord]
         /\ assignments' \in [Tasks -> Assignment]
         /\ hauls' \in [Tasks -> Haul]
<1>1. hauls[t] \in Haul /\ AsgIfBound(t, "canceled") \in AssignmentStatus \cup {None}
  BY SyncedType DEF TypeOK, AssignmentStatus
<1>2. [hauls[t] EXCEPT !.phase = "CANCELED", !.wms = "CANCELED",
                       !.asg = AsgIfBound(t, "canceled")] \in Haul
  BY <1>1 DEF Haul, Phase, WmsStatus
<1>3. hauls' \in [Tasks -> Haul]
  BY <1>2, SnapshotType DEF Cancel
<1>4. robots' \in [Robots -> RobotRecord]
  BY <1>1, ReleasedType DEF Cancel, TypeOK, RegistryTypeOK, Haul
<1>5. assignments' \in [Tasks -> Assignment]
  BY SyncedType DEF Cancel, AssignmentStatus
<1> QED BY <1>3, <1>4, <1>5

(* The registry's own calls keep the types.                                *)
LEMMA RegistryCallType ==
  ASSUME TypeOK, NEW r \in Robots, RegistryCall(r) \/ CompleteAssignedTask(r)
  PROVE  RegistryTypeOK'
<1> USE DEF TypeOK, RegistryTypeOK
<1>1. ASSUME NEW target \in RobotState, NEW task \in Tasks \cup {None},
             Transition(r, target, task)
      PROVE  robots' \in [Robots -> RobotRecord]
  BY <1>1, MovedType DEF Transition
<1>2. robots[r].task \in Tasks \cup {None}
  BY DEF RobotRecord
<1>3. CASE \E recover \in BOOLEAN : RecordHeartbeat(r, recover)
  BY <1>3 DEF RecordHeartbeat, RobotRecord, RobotState
<1>4. CASE HeartbeatExpires(r)
  BY <1>4 DEF HeartbeatExpires
<1>5. CASE /\ MarkOffline(r) \/ MarkError(r) \/ RecoverToIdle(r)
           /\ UNCHANGED fresh
  BY <1>1, <1>2, <1>5 DEF MarkOffline, MarkError, RecoverToIdle, RobotState
<1>6. CASE CompleteAssignedTask(r)
  BY <1>1, <1>6 DEF CompleteAssignedTask, ReleaseTask, RobotState
<1> QED BY <1>3, <1>4, <1>5, <1>6 DEF RegistryCall

(* mark_offline leaves a registry of its type.                             *)
LEMMA OfflinedType ==
  ASSUME NEW reg \in [Robots -> RobotRecord], NEW r \in Robots
  PROVE  Offlined(reg, r) \in [Robots -> RobotRecord]
BY MovedType DEF Offlined, RobotRecord, RobotState

(* One robot's turn of a sweep keeps the types.                            *)
LEMMA SweepType ==
  ASSUME TypeOK, NEW r \in Robots, Sweep(r)
  PROVE  TypeOK'
<1> USE DEF TypeOK, RegistryTypeOK
<1>1. [visit EXCEPT ![r] = None] \in [Robots -> RobotRecord \cup {None}]
  OBVIOUS
<1>2. CASE SweepOffline(r)
  BY <1>1, <1>2, OfflinedType DEF SweepOffline
<1>3. CASE SweepRequeue(r)
  <2> DEFINE t == visit[r].task
  <2>1. t \in Tasks
    BY <1>3, TrackedAreTasks DEF SweepRequeue, Revocable
  <2>2. /\ assignments' \in [Tasks -> Assignment]
        /\ hauls' \in [Tasks -> Haul]
    BY <1>3, <2>1, RequeueType DEF SweepRequeue
  <2>3. hauls[t].robot \in Robots \cup {None}
    BY <2>1 DEF Haul
  <2>4. robots' \in [Robots -> RobotRecord]
    BY <1>3, <2>3, ReleasedType, OfflinedType DEF SweepRequeue
  <2> QED BY <1>1, <1>3, <2>2, <2>4 DEF SweepRequeue
<1>4. CASE SweepAborts(r)
  <2>1. visit[r].task \in Tasks
    BY <1>4, TrackedAreTasks DEF SweepAborts, Revocable
  <2>2. /\ assignments' \in [Tasks -> Assignment]
        /\ hauls' \in [Tasks -> Haul]
    BY <1>4, <2>1, RequeueType DEF SweepAborts
  <2> QED BY <1>4, <2>2 DEF SweepAborts, NoVisit
<1> QED BY <1>2, <1>3, <1>4 DEF Sweep

(* One haul's turn of a reassignment keeps the types.                      *)
LEMMA RetryType ==
  ASSUME TypeOK, NEW t \in Tasks, Retry(t)
  PROVE  TypeOK'
<1>1. CASE RetryAssigns(t)
  BY <1>1, AssignType DEF RetryAssigns, TypeOK, RegistryTypeOK
<1>2. CASE RetryAborts(t)
  BY <1>2, AssignType DEF RetryAborts, TypeOK, RegistryTypeOK
<1> QED BY <1>1, <1>2 DEF Retry

(* Every step keeps the types.                                             *)
LEMMA TypeStep == TypeOK /\ [Next]_vars => TypeOK'
<1> SUFFICES ASSUME TypeOK, [Next]_vars
             PROVE  TypeOK'
  OBVIOUS
<1>1. CASE \E r \in Robots : RegistryCall(r) \/ CompleteAssignedTask(r)
  BY <1>1, RegistryCallType DEF RegistryCall, CompleteAssignedTask, TypeOK
<1>2. ASSUME NEW t \in Tasks, Assign(t)
      PROVE  TypeOK'
  BY <1>2, AssignType DEF Assign, TypeOK, RegistryTypeOK
<1>3. ASSUME NEW t \in Tasks, Drive(t)
      PROVE  TypeOK'
  <2>1. UNCHANGED <<fresh, visit, retry>>
    BY <1>3
       DEF Drive, Start, ArriveAtPickup, ArriveAtDropoff, Arrive, CompletePickup,
                CompleteDropoff, NavigationFails, Fail
  <2> QED BY <1>3, <2>1, DriveType DEF TypeOK, RegistryTypeOK
<1>4. ASSUME NEW t \in Tasks, Cancel(t)
      PROVE  TypeOK'
  BY <1>4, CancelType DEF Cancel, TypeOK, RegistryTypeOK
<1>5. ASSUME NEW t \in Tasks, Fail(t)
      PROVE  TypeOK'
  BY <1>5, FailType DEF Fail, TypeOK, RegistryTypeOK
<1>6. ASSUME NEW t \in Tasks, Requeue(t)
      PROVE  TypeOK'
  <2>1. hauls[t].robot \in Robots \cup {None}
    BY DEF TypeOK, Haul
  <2> QED
    BY <1>6, <2>1, RequeueType, ReleasedType DEF Requeue, TypeOK, RegistryTypeOK
<1>7. CASE Monitor
  BY <1>7, SweepType, RetryType, TrackedAreTasks
     DEF Monitor, SweepBegin, RetryBegin, TypeOK, RegistryTypeOK, NoVisit
<1>8. CASE UNCHANGED vars
  BY <1>8 DEF vars, TypeOK, RegistryTypeOK
<1> QED BY <1>1, <1>2, <1>3, <1>4, <1>5, <1>6, <1>7, <1>8 DEF Next

(* Whatever is called, in whatever order, every ledger keeps its type.     *)
THEOREM TypeCorrect == Spec => []TypeOK
BY TypeInit, TypeStep, PTL DEF Spec

-----------------------------------------------------------------------------
(* The inductive invariant.  LoadFollowsPhase is not inductive by itself:  *)
(* that a loaded haul can only be delivered or fail follows from its being *)
(* IN_PROGRESS when it was in phase PICKUP, which is WorkingIsInProgress.  *)
HaulInv == LedgersAgree /\ WorkingIsInProgress /\ LoadFollowsPhase

(* The same for one task, with haul snapshot h and dispatcher record a.    *)
TaskInv(h, a) ==
  /\ h.asg = a.status
  /\ h.asg \in AssignmentOf(h.wms)
  /\ h.robot \in {None, a.robot}
  /\ h.wms \in {"ASSIGNED", "IN_PROGRESS"} => h.robot # None
  /\ h.wms \in {"PENDING", "REQUEUED"} => h.robot = None
  /\ h.phase \in Working => h.wms = "IN_PROGRESS"
  /\ h.phase \in {"NAVIGATING_TO_DROPOFF", "DROPOFF", "SUCCEEDED"} => h.picked
  /\ h.picked =>
       /\ h.phase \in {"NAVIGATING_TO_DROPOFF", "DROPOFF", "SUCCEEDED", "FAILED"}
       /\ h.wms \in {"IN_PROGRESS", "SUCCEEDED", "FAILED"}

(* The invariant is a statement about each task by itself.                 *)
LEMMA HaulInvIsTaskInv ==
  HaulInv <=> \A t \in Tasks : TaskInv(hauls[t], assignments[t])
BY DEF HaulInv, LedgersAgree, WorkingIsInProgress, LoadFollowsPhase, TaskInv, Active

(* A step that changes one task only keeps it if that task keeps it.       *)
LEMMA HaulInvLocal ==
  ASSUME HaulInv, NEW t \in Tasks, TaskInv(hauls'[t], assignments'[t]),
         \A u \in Tasks \ {t} : hauls'[u] = hauls[u] /\ assignments'[u] = assignments[u]
  PROVE  HaulInv'
<1>1. \A u \in Tasks : TaskInv(hauls'[u], assignments'[u])
  BY HaulInvIsTaskInv
<1> QED
  BY <1>1
     DEF HaulInv, LedgersAgree, WorkingIsInProgress, LoadFollowsPhase, TaskInv,
         Active

(* assign keeps it: the reset of a requeued haul undoes the load flag,     *)
(* and the three ledgers are written together.                             *)
LEMMA HaulInvAssign ==
  ASSUME TypeOK, HaulInv, NEW t \in Tasks,
         (\E r \in Robots : AssignAccepted(t, r)) \/ AssignRejected(t)
  PROVE  HaulInv'
<1>1. TaskInv(hauls[t], assignments[t])
  BY HaulInvIsTaskInv
<1>2. hauls[t] \in Haul /\ assignments[t] \in Assignment
  BY DEF TypeOK
<1>3. \A u \in Tasks \ {t} : hauls'[u] = hauls[u] /\ assignments'[u] = assignments[u]
  BY DEF TypeOK, AssignAccepted, AssignRejected, ReplaceSnapshot
<1>4. TaskInv(hauls'[t], assignments'[t])
  <2>1. ASSUME NEW r \in Robots, AssignAccepted(t, r)
        PROVE  TaskInv(hauls'[t], assignments'[t])
    <3>1. /\ hauls'[t] = [Reset(t) EXCEPT !.robot = r, !.asg = "assigned",
                                           !.wms = "ASSIGNED"]
          /\ assignments'[t] = [robot |-> r, status |-> "assigned"]
      BY <2>1 DEF TypeOK, AssignAccepted, ReplaceSnapshot
    <3>2. /\ Reset(t) \in Haul
          /\ Reset(t).phase \notin Working \cup {"SUCCEEDED"}
          /\ ~Reset(t).picked
      BY <1>1, <1>2, <2>1
         DEF TaskInv, Reset, Haul, Phase, Working, AssignAccepted, Assignable
    <3> QED BY <3>1, <3>2, NoneIsNoId DEF TaskInv, Haul, AssignmentOf, Working
  <2>2. CASE AssignRejected(t)
    BY <1>1, <1>2, <2>2
       DEF TypeOK, TaskInv, AssignRejected, Assignable, Reset, ReplaceSnapshot,
           Working, Haul
  <2> QED BY <2>1, <2>2
<1> QED BY <1>3, <1>4, HaulInvLocal

(* fail keeps it, in each of its three outcomes.                           *)
LEMMA HaulInvFail ==
  ASSUME TypeOK, HaulInv, NEW t \in Tasks, FailEffect(t)
  PROVE  HaulInv'
<1>1. TaskInv(hauls[t], assignments[t])
  BY HaulInvIsTaskInv
<1>2. hauls[t] \in Haul /\ assignments[t] \in Assignment
  BY DEF TypeOK
<1>3. \A u \in Tasks \ {t} : hauls'[u] = hauls[u] /\ assignments'[u] = assignments[u]
  BY DEF TypeOK, FailEffect, ReplaceSnapshot, SyncedIfBound, Synced
<1>4. TaskInv(hauls'[t], assignments'[t])
  <2>1. CASE hauls[t].wms \notin TerminalWmsStatus /\ ~WmsMay(t, "FAILED")
    BY <1>1, <1>2, <2>1
       DEF TypeOK, TaskInv, FailEffect, FailedPhase, ReplaceSnapshot, Working,
           Haul, WmsMay, AllowedWmsTransitions, TerminalExecutionPhase
  <2>2. CASE hauls[t].wms \in TerminalWmsStatus
    <3>1. ~IsBound(t)
      BY <1>1, <2>2, NoneIsNoStatus
         DEF IsBound, TaskInv, AssignmentOf, TerminalWmsStatus,
             ActiveAssignmentStatus, AssignmentStatus
    <3>2. /\ hauls'[t] = [hauls[t] EXCEPT !.phase = FailedPhase(t),
                                          !.wms = hauls[t].wms,
                                          !.asg = hauls[t].asg]
          /\ assignments' = assignments
      BY <2>2, <3>1
         DEF TypeOK, FailEffect, ReplaceSnapshot, SyncedIfBound, AsgIfBound
    <3>3. hauls[t].phase \notin Working
      BY <1>1, <2>2 DEF TaskInv, TerminalWmsStatus
    <3>4. FailedPhase(t) \in {hauls[t].phase, "FAILED"}
      BY DEF FailedPhase
    <3>5. hauls[t].picked => FailedPhase(t) \in {"SUCCEEDED", "FAILED"}
      BY <1>1, <3>3, <3>4 DEF TaskInv, Working
    <3> QED
      BY <1>1, <1>2, <3>2, <3>3, <3>4, <3>5 DEF TaskInv, Working, Haul
  <2>3. CASE hauls[t].wms \notin TerminalWmsStatus /\ WmsMay(t, "FAILED")
    <3>1. hauls[t].wms \in {"ASSIGNED", "IN_PROGRESS"}
      BY <1>2, <2>3 DEF WmsMay, AllowedWmsTransitions, Haul
    <3>2. IsBound(t) /\ assignments[t].status # None
      BY <1>1, <3>1, NoneIsNoStatus
         DEF IsBound, TaskInv, AssignmentOf, ActiveAssignmentStatus,
             AssignmentStatus
    <3>3. /\ hauls'[t] = [hauls[t] EXCEPT !.phase = FailedPhase(t), !.wms = "FAILED",
                                          !.asg = "failed"]
          /\ assignments'[t] = [assignments[t] EXCEPT !.status = "failed"]
      BY <2>3, <3>2
         DEF TypeOK, FailEffect, ReplaceSnapshot, SyncedIfBound, Synced, AsgIfBound
    <3> QED
    BY <1>1, <1>2, <3>1, <3>3
       DEF TaskInv, FailedPhase, AssignmentOf, Working, Haul, Assignment,
           TerminalExecutionPhase
  <2> QED BY <2>1, <2>2, <2>3
<1> QED BY <1>3, <1>4, HaulInvLocal

(* The guarded syncs act exactly on the hauls the WMS sees as active.      *)
LEMMA BoundWhenActive ==
  ASSUME TypeOK, HaulInv, NEW t \in Tasks
  PROVE  /\ IsBound(t) <=> Active(t)
         /\ Active(t) => assignments[t].status # None
<1>1. TaskInv(hauls[t], assignments[t]) /\ hauls[t] \in Haul
  BY HaulInvIsTaskInv DEF TypeOK
<1> QED
  BY <1>1, NoneIsNoStatus
     DEF IsBound, Active, TaskInv, AssignmentOf, ActiveAssignmentStatus,
         AssignmentStatus, Haul, WmsStatus

(* requeue keeps it, whether it succeeds or raises half-way.               *)
LEMMA HaulInvRequeue ==
  ASSUME TypeOK, HaulInv, NEW t \in Tasks, RequeueAccepted(t) \/ RequeueRejected(t)
  PROVE  HaulInv'
<1>1. /\ TaskInv(hauls[t], assignments[t])
      /\ hauls[t] \in Haul
      /\ assignments[t] \in Assignment
  BY HaulInvIsTaskInv DEF TypeOK
<1>2. \A u \in Tasks \ {t} : hauls'[u] = hauls[u] /\ assignments'[u] = assignments[u]
  BY
     DEF TypeOK, RequeueAccepted, RequeueRejected, ReplaceSnapshot, SyncedIfBound,
         Synced
<1>3. CASE RequeueAccepted(t)
  <2>1. Active(t)
    BY <1>3 DEF RequeueAccepted, WmsMay, AllowedWmsTransitions, Active
  <2>2. /\ hauls'[t] = [hauls[t] EXCEPT !.phase = "REQUEUED", !.wms = "REQUEUED",
                                        !.asg = "released", !.robot = None]
        /\ assignments'[t] = [assignments[t] EXCEPT !.status = "released"]
        /\ ~hauls[t].picked
    BY <1>3, <2>1, BoundWhenActive
       DEF RequeueAccepted, TypeOK, ReplaceSnapshot, SyncedIfBound, Synced,
           AsgIfBound
  <2>3. TaskInv(hauls'[t], assignments'[t])
    BY <1>1, <2>2 DEF TaskInv, AssignmentOf, Working, Haul, Assignment
  <2> QED BY <1>2, <2>3, HaulInvLocal
<1>4. CASE RequeueRejected(t)
  <2>1. /\ hauls'[t] = [hauls[t] EXCEPT !.phase = "REQUEUED"]
        /\ assignments' = assignments
        /\ ~hauls[t].picked
    BY <1>4 DEF RequeueRejected, TypeOK, ReplaceSnapshot
  <2>2. TaskInv(hauls'[t], assignments'[t])
    BY <1>1, <2>1 DEF TaskInv, Working, Haul
  <2> QED BY <1>2, <2>2, HaulInvLocal
<1> QED BY <1>3, <1>4

(* cancel keeps it, of an active haul and of one without a robot.          *)
LEMMA HaulInvCancel ==
  ASSUME TypeOK, HaulInv, NEW t \in Tasks, Cancel(t)
  PROVE  HaulInv'
<1>1. /\ TaskInv(hauls[t], assignments[t])
      /\ hauls[t] \in Haul
      /\ assignments[t] \in Assignment
  BY HaulInvIsTaskInv DEF TypeOK
<1>2. \A u \in Tasks \ {t} : hauls'[u] = hauls[u] /\ assignments'[u] = assignments[u]
  BY DEF TypeOK, Cancel, ReplaceSnapshot, SyncedIfBound, Synced
<1>3. hauls'[t] = [hauls[t] EXCEPT !.phase = "CANCELED", !.wms = "CANCELED",
                                   !.asg = AsgIfBound(t, "canceled")]
      /\ ~hauls[t].picked
  BY DEF Cancel, TypeOK, ReplaceSnapshot
<1>4. CASE Active(t)
  <2>1. /\ AsgIfBound(t, "canceled") = "canceled"
        /\ assignments'[t] = [assignments[t] EXCEPT !.status = "canceled"]
    BY <1>4, BoundWhenActive DEF Cancel, TypeOK, SyncedIfBound, Synced, AsgIfBound
  <2>2. TaskInv(hauls'[t], assignments'[t])
    BY <1>1, <1>3, <2>1 DEF TaskInv, AssignmentOf, Working, Haul, Assignment
  <2> QED BY <1>2, <2>2, HaulInvLocal
<1>5. CASE ~Active(t)
  <2>1. /\ AsgIfBound(t, "canceled") = hauls[t].asg
        /\ assignments' = assignments
    BY <1>5, BoundWhenActive DEF Cancel, SyncedIfBound, AsgIfBound
  <2>2. hauls[t].wms \in {"PENDING", "REQUEUED"}
    BY <1>5 DEF Cancel, WmsMay, AllowedWmsTransitions, Active
  <2>3. TaskInv(hauls'[t], assignments'[t])
    BY <1>1, <1>3, <2>1, <2>2 DEF TaskInv, AssignmentOf, Working, Haul, Assignment
  <2> QED BY <1>2, <2>3, HaulInvLocal
<1> QED BY <1>4, <1>5

(* The steps from start to dropoff keep it.                                *)
LEMMA HaulInvDrive ==
  ASSUME TypeOK, HaulInv, NEW t \in Tasks, Drive(t)
  PROVE  HaulInv'
<1>1. /\ TaskInv(hauls[t], assignments[t])
      /\ hauls[t] \in Haul
      /\ assignments[t] \in Assignment
  BY HaulInvIsTaskInv DEF TypeOK
<1>2. CASE Start(t)
  <2>1. hauls[t].wms = "ASSIGNED" /\ Active(t)
    BY <1>2 DEF Start, WmsMay, AllowedWmsTransitions, Active
  <2>2. /\ hauls'[t] = [hauls[t] EXCEPT
             !.wms = "IN_PROGRESS", !.asg = "executing",
             !.phase = IF PhaseMay(t, "NAVIGATING_TO_PICKUP")
                       THEN "NAVIGATING_TO_PICKUP" ELSE @]
        /\ assignments'[t] = [assignments[t] EXCEPT !.status = "executing"]
    BY <1>2, <2>1, BoundWhenActive DEF Start, TypeOK, ReplaceSnapshot, Synced
  <2>3. \A u \in Tasks \ {t} : hauls'[u] = hauls[u] /\ assignments'[u] = assignments[u]
    BY <1>2 DEF Start, TypeOK, ReplaceSnapshot, Synced
  <2>4. TaskInv(hauls'[t], assignments'[t])
    BY <1>1, <2>1, <2>2
       DEF TaskInv, AssignmentOf, Working, Haul, Assignment, PhaseMay,
           AllowedExecutionTransitions
  <2> QED BY <2>3, <2>4, HaulInvLocal
<1>3. ASSUME NEW from \in Working, NEW to \in Working \ {"NAVIGATING_TO_DROPOFF"},
             Arrive(t, from, to), to = "DROPOFF" => from = "NAVIGATING_TO_DROPOFF",
             to # "DROPOFF" => from = "NAVIGATING_TO_PICKUP"
      PROVE  HaulInv'
  <2>1. /\ hauls'[t] = [hauls[t] EXCEPT !.phase = to]
        /\ assignments' = assignments
        /\ hauls[t].phase = from
    BY <1>3 DEF Arrive, TypeOK, ReplaceSnapshot
  <2>2. \A u \in Tasks \ {t} : hauls'[u] = hauls[u]
    BY <1>3 DEF Arrive, TypeOK, ReplaceSnapshot
  <2>3. TaskInv(hauls'[t], assignments'[t])
    BY <1>1, <1>3, <2>1 DEF TaskInv, Working, Haul
  <2> QED BY <2>1, <2>2, <2>3, HaulInvLocal
<1>4. CASE ArriveAtPickup(t) \/ ArriveAtDropoff(t)
  BY <1>3, <1>4 DEF ArriveAtPickup, ArriveAtDropoff, Working
<1>5. CASE CompletePickup(t)
  <2>1. /\ hauls'[t] = [hauls[t] EXCEPT !.phase = "NAVIGATING_TO_DROPOFF", !.picked = TRUE]
        /\ assignments' = assignments
        /\ hauls[t].phase = "PICKUP"
    BY <1>5 DEF CompletePickup, TypeOK, ReplaceSnapshot
  <2>2. \A u \in Tasks \ {t} : hauls'[u] = hauls[u]
    BY <1>5 DEF CompletePickup, TypeOK, ReplaceSnapshot
  <2>3. TaskInv(hauls'[t], assignments'[t])
    BY <1>1, <2>1 DEF TaskInv, Working, Haul
  <2> QED BY <2>1, <2>2, <2>3, HaulInvLocal
<1>6. CASE CompleteDropoff(t)
  <2>1. hauls[t].wms = "IN_PROGRESS" /\ Active(t) /\ hauls[t].phase = "DROPOFF"
    BY <1>1, <1>6 DEF CompleteDropoff, TaskInv, Working, Active
  <2>2. /\ hauls'[t] = [hauls[t] EXCEPT !.phase = "SUCCEEDED", !.wms = "SUCCEEDED",
                                        !.asg = "completed"]
        /\ assignments'[t] = [assignments[t] EXCEPT !.status = "completed"]
    BY <1>6, <2>1, BoundWhenActive
       DEF CompleteDropoff, TypeOK, ReplaceSnapshot, Synced
  <2>3. \A u \in Tasks \ {t} : hauls'[u] = hauls[u] /\ assignments'[u] = assignments[u]
    BY <1>6 DEF CompleteDropoff, TypeOK, ReplaceSnapshot, Synced
  <2>4. TaskInv(hauls'[t], assignments'[t])
    BY <1>1, <2>1, <2>2 DEF TaskInv, AssignmentOf, Working, Haul, Assignment
  <2> QED BY <2>3, <2>4, HaulInvLocal
<1>7. CASE NavigationFails(t)
  BY <1>7, HaulInvFail DEF NavigationFails, Fail
<1> QED BY <1>2, <1>4, <1>5, <1>6, <1>7 DEF Drive

(* So does a step that touches neither the hauls nor the assignments.      *)
LEMMA HaulInvUnchanged ==
  ASSUME HaulInv, UNCHANGED <<hauls, assignments>>
  PROVE  HaulInv'
BY DEF HaulInv, LedgersAgree, WorkingIsInProgress, LoadFollowsPhase, Active

(* The monitor's loops keep it.                                            *)
LEMMA HaulInvMonitor ==
  ASSUME TypeOK, HaulInv, Monitor
  PROVE  HaulInv'
<1>1. CASE SweepBegin \/ RetryBegin
  BY <1>1, HaulInvUnchanged DEF SweepBegin, RetryBegin
<1>2. ASSUME NEW r \in Robots, Sweep(r) PROVE HaulInv'
  <2>1. CASE SweepOffline(r)
    BY <2>1, HaulInvUnchanged DEF SweepOffline
  <2>2. CASE SweepRequeue(r)
    BY <2>2, HaulInvRequeue, TrackedAreTasks DEF SweepRequeue, Revocable
  <2>3. CASE SweepAborts(r)
    BY <2>3, HaulInvRequeue, HaulInvUnchanged, TrackedAreTasks
       DEF SweepAborts, Revocable
  <2> QED BY <1>2, <2>1, <2>2, <2>3 DEF Sweep
<1>3. ASSUME NEW t \in Tasks, Retry(t) PROVE HaulInv'
  BY <1>3, HaulInvAssign, HaulInvUnchanged DEF Retry, RetryAssigns, RetryAborts
<1> QED BY <1>1, <1>2, <1>3 DEF Monitor

(* Every step keeps it.                                                    *)
LEMMA HaulInvStep == TypeOK /\ HaulInv /\ [Next]_vars => HaulInv'
<1> SUFFICES ASSUME TypeOK, HaulInv, [Next]_vars PROVE HaulInv'
  OBVIOUS
<1>1. CASE UNCHANGED vars
  BY <1>1, HaulInvUnchanged DEF vars
<1>2. ASSUME NEW r \in Robots, RegistryCall(r) \/ CompleteAssignedTask(r)
      PROVE  HaulInv'
  BY <1>2, HaulInvUnchanged DEF RegistryCall, CompleteAssignedTask
<1>3. ASSUME NEW t \in Tasks, Assign(t) PROVE HaulInv'
  BY <1>3, HaulInvAssign DEF Assign
<1>4. ASSUME NEW t \in Tasks, Fail(t) PROVE HaulInv'
  BY <1>4, HaulInvFail DEF Fail
<1>5. ASSUME NEW t \in Tasks, Requeue(t) PROVE HaulInv'
  BY <1>5, HaulInvRequeue DEF Requeue
<1> QED
  BY <1>1, <1>2, <1>3, <1>4, <1>5, HaulInvDrive, HaulInvCancel, HaulInvMonitor
     DEF Next

(* New hauls satisfy it.                                                   *)
LEMMA HaulInvInit == Init => HaulInv
BY
   DEF Init, NewHaul, HaulInv, LedgersAgree, WorkingIsInProgress, LoadFollowsPhase,
       Active, AssignmentOf, Working

(* The invariant holds of every caller.                                    *)
THEOREM HaulInvHolds == Spec => []HaulInv
BY HaulInvInit, HaulInvStep, TypeCorrect, PTL DEF Spec

(* LedgersAgree for any number of robots and tasks and any caller: what    *)
(* the snapshot, the dispatcher's record and the WMS status say of a task  *)
(* is never at odds, even after a call that raised half-way.               *)
THEOREM LedgersAlwaysAgree == Spec => []LedgersAgree
BY HaulInvHolds, PTL DEF HaulInv

(* WorkingIsInProgress, so that complete_dropoff is never refused after it *)
(* has written the phase.                                                  *)
THEOREM WorkingHaulsAreInProgress == Spec => []WorkingIsInProgress
BY HaulInvHolds, PTL DEF HaulInv

(* LoadFollowsPhase: no haul is on its way to dropoff without its load.    *)
THEOREM LoadAlwaysFollowsPhase == Spec => []LoadFollowsPhase
BY HaulInvHolds, PTL DEF HaulInv

-----------------------------------------------------------------------------
(* What a step may not do to a haul that is loaded or has ended.           *)
Kept(t) ==
  /\ hauls[t].picked =>
       /\ hauls'[t].picked
       /\ hauls'[t].robot = hauls[t].robot
       /\ hauls'[t].wms \in {"IN_PROGRESS", "SUCCEEDED", "FAILED"}
  /\ hauls[t].wms \in TerminalWmsStatus => hauls'[t].wms = hauls[t].wms

(* A haul that is not written keeps what it must.                          *)
LEMMA KeptUnchanged ==
  ASSUME HaulInv, NEW t \in Tasks, hauls'[t] = hauls[t]
  PROVE  Kept(t)
BY DEF Kept, HaulInv, LoadFollowsPhase

(* assign only writes a haul that is PENDING or REQUEUED.                  *)
LEMMA KeptAssign ==
  ASSUME TypeOK, HaulInv, NEW t \in Tasks, NEW u \in Tasks,
         (\E r \in Robots : AssignAccepted(t, r)) \/ AssignRejected(t)
  PROVE  Kept(u)
<1>1. CASE u # t
  BY <1>1, KeptUnchanged DEF TypeOK, AssignAccepted, AssignRejected, ReplaceSnapshot
<1>2. CASE u = t
  <2>1. hauls[t].wms \in {"PENDING", "REQUEUED"}
    BY DEF AssignAccepted, AssignRejected, Assignable
  <2> QED BY <1>2, <2>1 DEF Kept, HaulInv, LoadFollowsPhase, TerminalWmsStatus
<1> QED BY <1>1, <1>2

(* fail ends a loaded haul as FAILED and leaves a terminal status alone.   *)
LEMMA KeptFail ==
  ASSUME TypeOK, HaulInv, NEW t \in Tasks, NEW u \in Tasks, FailEffect(t)
  PROVE  Kept(u)
<1>1. CASE u # t
  BY <1>1, KeptUnchanged DEF TypeOK, FailEffect, ReplaceSnapshot
<1>2. CASE u = t
  <2>1. hauls[t] \in Haul /\ TaskInv(hauls[t], assignments[t])
    BY HaulInvIsTaskInv DEF TypeOK
  <2>2. \/ /\ hauls'[t] = [hauls[t] EXCEPT !.phase = FailedPhase(t)]
        \/ hauls'[t] = [hauls[t] EXCEPT
              !.phase = FailedPhase(t),
              !.wms = IF @ \in TerminalWmsStatus THEN @ ELSE "FAILED",
              !.asg = AsgIfBound(t, "failed")]
    BY DEF FailEffect, TypeOK, ReplaceSnapshot
  <2> QED BY <1>2, <2>1, <2>2 DEF Kept, Haul, TaskInv, TerminalWmsStatus
<1> QED BY <1>1, <1>2

(* requeue refuses a loaded haul and a terminal one.                       *)
LEMMA KeptRequeue ==
  ASSUME TypeOK, HaulInv, NEW t \in Tasks, NEW u \in Tasks,
         RequeueAccepted(t) \/ RequeueRejected(t)
  PROVE  Kept(u)
<1>1. CASE u # t
  BY <1>1, KeptUnchanged
     DEF TypeOK, RequeueAccepted, RequeueRejected, ReplaceSnapshot
<1>2. CASE u = t
  <2>1. ~hauls[t].picked
    BY DEF RequeueAccepted, RequeueRejected
  <2>2. RequeueAccepted(t) => hauls[t].wms \notin TerminalWmsStatus
    BY DEF RequeueAccepted, WmsMay, AllowedWmsTransitions, TerminalWmsStatus
  <2>3. RequeueRejected(t) => hauls'[t].wms = hauls[t].wms
    BY DEF RequeueRejected, ReplaceSnapshot, TypeOK, Haul
  <2> QED BY <1>2, <2>1, <2>2, <2>3 DEF Kept
<1> QED BY <1>1, <1>2

(* cancel refuses a loaded haul and a terminal one.                        *)
LEMMA KeptCancel ==
  ASSUME TypeOK, HaulInv, NEW t \in Tasks, NEW u \in Tasks, Cancel(t)
  PROVE  Kept(u)
<1>1. CASE u # t
  BY <1>1, KeptUnchanged DEF TypeOK, Cancel, ReplaceSnapshot
<1>2. CASE u = t
  BY <1>2 DEF Kept, Cancel, WmsMay, AllowedWmsTransitions, TerminalWmsStatus
<1> QED BY <1>1, <1>2

(* The steps from start to dropoff keep it.                                *)
LEMMA KeptDrive ==
  ASSUME TypeOK, HaulInv, NEW t \in Tasks, NEW u \in Tasks, Drive(t)
  PROVE  Kept(u)
<1>1. CASE NavigationFails(t)
  BY <1>1, KeptFail DEF NavigationFails, Fail
<1>2. CASE ~NavigationFails(t) /\ u # t
  BY <1>2, KeptUnchanged
     DEF TypeOK, Drive, Start, ArriveAtPickup, ArriveAtDropoff, Arrive,
         CompletePickup,
         CompleteDropoff, ReplaceSnapshot
<1>3. CASE ~NavigationFails(t) /\ u = t
  <2>1. hauls[t] \in Haul /\ TaskInv(hauls[t], assignments[t])
    BY HaulInvIsTaskInv DEF TypeOK
  <2>2. CASE Start(t)
    BY <1>3, <2>1, <2>2
       DEF Start, WmsMay, AllowedWmsTransitions, Kept, TaskInv, TerminalWmsStatus
  <2>3. CASE \E to \in Phase : hauls'[t] = [hauls[t] EXCEPT !.phase = to]
    BY <1>3, <2>1, <2>3 DEF Kept, Haul, TaskInv
  <2>4. ArriveAtPickup(t) \/ ArriveAtDropoff(t) =>
          \E to \in Phase : hauls'[t] = [hauls[t] EXCEPT !.phase = to]
    BY DEF ArriveAtPickup, ArriveAtDropoff, Arrive, TypeOK, ReplaceSnapshot, Phase
  <2>5. CASE CompletePickup(t)
    <3>1. hauls'[t] = [hauls[t] EXCEPT !.phase = "NAVIGATING_TO_DROPOFF", !.picked = TRUE]
      BY <2>5 DEF CompletePickup, TypeOK, ReplaceSnapshot
    <3> QED BY <1>3, <2>1, <3>1 DEF Kept, Haul, TaskInv
  <2>6. CASE CompleteDropoff(t)
    <3>1. /\ hauls'[t] = [hauls[t] EXCEPT !.phase = "SUCCEEDED", !.wms = "SUCCEEDED",
                                          !.asg = "completed"]
          /\ hauls[t].wms = "IN_PROGRESS"
      BY <2>6
         DEF CompleteDropoff, WmsMay, AllowedWmsTransitions, TypeOK, ReplaceSnapshot
    <3> QED BY <1>3, <2>1, <3>1 DEF Kept, Haul, TaskInv, TerminalWmsStatus
  <2> QED BY <1>3, <2>2, <2>3, <2>4, <2>5, <2>6 DEF Drive
<1> QED BY <1>1, <1>2, <1>3

(* The monitor's loops keep it.                                            *)
LEMMA KeptMonitor ==
  ASSUME TypeOK, HaulInv, NEW u \in Tasks, Monitor
  PROVE  Kept(u)
<1>1. CASE SweepBegin \/ RetryBegin
  BY <1>1, KeptUnchanged DEF SweepBegin, RetryBegin
<1>2. ASSUME NEW r \in Robots, Sweep(r) PROVE Kept(u)
  <2>1. CASE SweepOffline(r)
    BY <2>1, KeptUnchanged DEF SweepOffline
  <2>2. CASE SweepRequeue(r)
    BY <2>2, KeptRequeue, TrackedAreTasks DEF SweepRequeue, Revocable
  <2>3. CASE SweepAborts(r)
    BY <2>3, KeptRequeue, KeptUnchanged, TrackedAreTasks DEF SweepAborts, Revocable
  <2> QED BY <1>2, <2>1, <2>2, <2>3 DEF Sweep
<1>3. ASSUME NEW t \in Tasks, Retry(t) PROVE Kept(u)
  BY <1>3, KeptAssign, KeptUnchanged DEF Retry, RetryAssigns, RetryAborts
<1> QED BY <1>1, <1>2, <1>3 DEF Monitor

(* Every step keeps it.                                                    *)
LEMMA KeptStep ==
  ASSUME TypeOK, HaulInv, [Next]_vars, NEW u \in Tasks
  PROVE  Kept(u)
<1>1. CASE UNCHANGED vars
  BY <1>1, KeptUnchanged DEF vars
<1>2. ASSUME NEW r \in Robots, RegistryCall(r) \/ CompleteAssignedTask(r)
      PROVE  Kept(u)
  BY <1>2, KeptUnchanged DEF RegistryCall, CompleteAssignedTask
<1>3. ASSUME NEW t \in Tasks, Assign(t) PROVE Kept(u)
  BY <1>3, KeptAssign DEF Assign
<1>4. ASSUME NEW t \in Tasks, Fail(t) PROVE Kept(u)
  BY <1>4, KeptFail DEF Fail
<1>5. ASSUME NEW t \in Tasks, Requeue(t) PROVE Kept(u)
  BY <1>5, KeptRequeue DEF Requeue
<1> QED
  BY <1>1, <1>2, <1>3, <1>4, <1>5, KeptDrive, KeptCancel, KeptMonitor DEF Next

(* PickupIrreversible for any number of robots and tasks and any caller:   *)
(* once complete_pickup has been acknowledged, neither a sweep nor a cancel *)
(* nor a requeue takes the task from its robot.                            *)
THEOREM LoadStaysOnItsRobot == Spec => PickupIrreversible
<1>1. TypeOK /\ HaulInv /\ [Next]_vars =>
        [ \A t \in Tasks :
        hauls[t].picked =>
          /\ hauls'[t].picked
          /\ hauls'[t].robot = hauls[t].robot
          /\ hauls'[t].wms \in {"IN_PROGRESS", "SUCCEEDED", "FAILED"} ]_vars
  BY KeptStep DEF Kept
<1> QED BY <1>1, TypeCorrect, HaulInvHolds, PTL DEF Spec, PickupIrreversible

(* TerminalIsFinal for any number of robots and tasks and any caller, fail *)
(* on an ended haul included.                                              *)
THEOREM TerminalStaysTerminal == Spec => TerminalIsFinal
<1>1. TypeOK /\ HaulInv /\ [Next]_vars =>
        [ \A t \in Tasks :
        hauls[t].wms \in TerminalWmsStatus => hauls'[t].wms = hauls[t].wms ]_vars
  BY KeptStep DEF Kept
<1> QED BY <1>1, TypeCorrect, HaulInvHolds, PTL DEF Spec, TerminalIsFinal

=============================================================================
