----------------------------- MODULE HaulFleet -----------------------------
(***************************************************************************)
(* Haul tasks over the robot registry: HaulTaskController drives one task  *)
(* from pickup to dropoff (fleet/haul_executor.py), FleetDispatcher binds  *)
(* it to a robot (fleet/dispatcher.py), HeartbeatMonitor takes it away     *)
(* from a robot that went silent (fleet/heartbeat.py).                     *)
(*                                                                         *)
(* The three run in one thread, so a public call is one action.  The two   *)
(* loops of the monitor are the exception: they are modelled one iteration *)
(* per action, and no other call runs until they end.  A call that raises  *)
(* after it has written something is an action whose effect is what it had *)
(* written; one that raises before is not enabled.                         *)
(*                                                                         *)
(* The dispatcher takes the cheapest candidate; here it takes any.         *)
(***************************************************************************)
EXTENDS RobotRegistry

CONSTANT
  Tracked   \* the tasks in the haul_tasks mapping handed to the monitor

ASSUME TrackedAreTasks == Tracked \subseteq Tasks

VARIABLES
  assignments, \* FleetDispatcher._assignments: robot and status, per task
  hauls,       \* HaulTaskController._snapshot, per task
  visit,       \* sweep(): the frozen records of the robots still to visit
  retry        \* reassign_requeued(): the REQUEUED hauls still to reassign

vars == <<robots, fresh, assignments, hauls, visit, retry>>

-----------------------------------------------------------------------------
WmsStatus == {"PENDING", "ASSIGNED", "IN_PROGRESS", "SUCCEEDED", "FAILED",
              "CANCELED", "REQUEUED"}

Phase == {"IDLE", "NAVIGATING_TO_PICKUP", "PICKUP", "NAVIGATING_TO_DROPOFF",
          "DROPOFF", "SUCCEEDED", "FAILED", "CANCELED", "REQUEUED"}

AssignmentStatus == {"assigned", "executing", "released", "canceled",
                     "completed", "failed"}

ActiveAssignmentStatus  == {"assigned", "executing"}
TerminalWmsStatus       == {"SUCCEEDED", "FAILED", "CANCELED"}
TerminalExecutionPhase  == {"SUCCEEDED", "FAILED", "CANCELED", "REQUEUED"}

ASSUME NoneIsNoStatus == None \notin AssignmentStatus

AllowedWmsTransitions ==
  ({"PENDING"} \X {"ASSIGNED", "CANCELED"}) \cup
  ({"ASSIGNED"} \X {"IN_PROGRESS", "CANCELED", "REQUEUED", "FAILED"}) \cup
  ({"IN_PROGRESS"} \X {"SUCCEEDED", "FAILED", "CANCELED", "REQUEUED"}) \cup
  ({"REQUEUED"} \X {"ASSIGNED", "CANCELED"})

AllowedExecutionTransitions ==
  ({"IDLE"} \X {"NAVIGATING_TO_PICKUP", "FAILED", "CANCELED", "REQUEUED"}) \cup
  ({"NAVIGATING_TO_PICKUP"} \X {"PICKUP", "FAILED", "CANCELED", "REQUEUED"}) \cup
  ({"PICKUP"} \X {"NAVIGATING_TO_DROPOFF", "FAILED", "CANCELED"}) \cup
  ({"NAVIGATING_TO_DROPOFF"} \X {"DROPOFF", "FAILED", "CANCELED"}) \cup
  ({"DROPOFF"} \X {"SUCCEEDED", "FAILED", "CANCELED"}) \cup
  ({"REQUEUED"} \X {"IDLE"})

Haul == [wms    : WmsStatus,
         asg    : AssignmentStatus \cup {None},
         phase  : Phase,
         robot  : Robots \cup {None},
         picked : BOOLEAN]

Assignment == [robot : Robots \cup {None}, status : AssignmentStatus \cup {None}]

TypeOK ==
  /\ RegistryTypeOK
  /\ assignments \in [Tasks -> Assignment]
  /\ hauls \in [Tasks -> Haul]
  /\ visit \in [Robots -> RobotRecord \cup {None}]
  /\ retry \subseteq Tasks

-----------------------------------------------------------------------------
(* The pieces the controller's methods are made of.                        *)

WmsMay(t, target)   == <<hauls[t].wms, target>> \in AllowedWmsTransitions
PhaseMay(t, target) == <<hauls[t].phase, target>> \in AllowedExecutionTransitions

(* A task that holds a robot, as the WMS sees it.                          *)
Active(t) == hauls[t].wms \in {"ASSIGNED", "IN_PROGRESS"}

(* _replace_snapshot: the snapshot is immutable, so it is replaced whole.   *)
ReplaceSnapshot(t, snapshot) == hauls' = [hauls EXCEPT ![t] = snapshot]

(* _sync_assignment_status on the dispatcher's record, if there is one.    *)
Synced(t, status) ==
  IF assignments[t].status = None THEN assignments
  ELSE [assignments EXCEPT ![t].status = status]

(* Mutant: the dispatcher's record is never synced.                        *)
NeverSynced(t, status) == assignments

(* The guarded form: a status that is no longer active is left alone.      *)
IsBound(t) == hauls[t].asg \in ActiveAssignmentStatus

SyncedIfBound(t, status) == IF IsBound(t) THEN Synced(t, status) ELSE assignments

AsgIfBound(t, status) == IF IsBound(t) THEN status ELSE hauls[t].asg

(* Mutant: a released robot keeps its task.                                *)
ReleasedWithTask(reg, r) ==
  IF r # None /\ reg[r].state \in ActiveTaskStates
  THEN Moved(reg, r, "IDLE", reg[r].task)
  ELSE reg

(* _release_robot: it looks at the robot's state, not at its task.         *)
Released(reg, r) ==
  IF r # None /\ reg[r].state \in ActiveTaskStates
  THEN Moved(reg, r, "IDLE", None)
  ELSE reg

NoVisit == [r \in Robots |-> None]

(* No loop of the monitor is running, so a caller can make a call.         *)
Quiet == visit = NoVisit /\ retry = {}

-----------------------------------------------------------------------------
(* HaulTaskController.assign and FleetDispatcher.assign_task.              *)

(* assign reaches the dispatcher: a requeued haul is reset first, which    *)
(* raises unless its phase is REQUEUED.                                    *)
Assignable(t) ==
  \/ hauls[t].wms = "PENDING"
  \/ hauls[t].wms = "REQUEUED" /\ PhaseMay(t, "IDLE")

(* Mutant: the reset forgets the execution phase.                          *)
ResetLoadOnly(t) == [hauls[t] EXCEPT !.picked = FALSE]

Reset(t) ==
  IF hauls[t].wms = "REQUEUED"
  THEN [hauls[t] EXCEPT !.phase = "IDLE", !.picked = FALSE]
  ELSE hauls[t]

(* get_assignment_for_task found none, and the robot is a candidate.       *)
Dispatchable(t, r) ==
  /\ assignments[t].status \notin ActiveAssignmentStatus
  /\ CanAcceptTask(r)

AssignAccepted(t, r) ==
  /\ Assignable(t)
  /\ Dispatchable(t, r)
  /\ AssignTask(r, t)
  /\ assignments' = [assignments EXCEPT ![t] = [robot |-> r, status |-> "assigned"]]
  /\ ReplaceSnapshot(t, [Reset(t) EXCEPT !.robot = r, !.asg = "assigned",
                                         !.wms = "ASSIGNED"])

(* NoAvailableRobotError: the reset of a requeued haul has been written.   *)
AssignRejected(t) ==
  /\ Assignable(t)
  /\ \A r \in Robots : ~Dispatchable(t, r)
  /\ ReplaceSnapshot(t, Reset(t))
  /\ UNCHANGED <<robots, assignments>>

Assign(t) ==
  /\ Quiet
  /\ \/ \E r \in Robots : AssignAccepted(t, r)
     \/ AssignRejected(t)
  /\ UNCHANGED <<fresh, visit, retry>>

-----------------------------------------------------------------------------
(* HaulTaskController.start and the four completion calls.                 *)

(* The statuses are written before the phase is checked: a haul whose      *)
(* phase is not IDLE becomes IN_PROGRESS and start raises there, without   *)
(* marking the robot BUSY.                                                 *)
Start(t) ==
  LET r == hauls[t].robot
      begun == PhaseMay(t, "NAVIGATING_TO_PICKUP")
  IN  /\ Quiet
      /\ r # None
      /\ WmsMay(t, "IN_PROGRESS")
      /\ assignments' = Synced(t, "executing")
      /\ ReplaceSnapshot(t, [hauls[t] EXCEPT
           !.wms = "IN_PROGRESS",
           !.asg = "executing",
           !.phase = IF begun THEN "NAVIGATING_TO_PICKUP" ELSE @])
      /\ IF begun /\ robots[r].state = "ASSIGNED" THEN MarkBusy(r)
         ELSE UNCHANGED robots
      /\ UNCHANGED <<fresh, visit, retry>>

(* SimulatedRobotContext.check_ready_gate.                                 *)
Ready(r) == HasActiveTask(r)

(* navigate_to_pose succeeded: an ASSIGNED robot is BUSY from there on.    *)
Arrive(t, from, to) ==
  LET r == hauls[t].robot
  IN  /\ Quiet
      /\ hauls[t].phase = from
      /\ r # None
      /\ Ready(r)
      /\ PhaseMay(t, to)
      /\ ReplaceSnapshot(t, [hauls[t] EXCEPT !.phase = to])
      /\ IF robots[r].state = "ASSIGNED" THEN MarkBusy(r) ELSE UNCHANGED robots
      /\ UNCHANGED <<fresh, assignments, visit, retry>>

ArriveAtPickup(t)  == Arrive(t, "NAVIGATING_TO_PICKUP", "PICKUP")
ArriveAtDropoff(t) == Arrive(t, "NAVIGATING_TO_DROPOFF", "DROPOFF")

(* Mutant: the acknowledgement does not record the load.                   *)
CompletePickupUnrecorded(t) ==
  /\ Quiet
  /\ hauls[t].phase = "PICKUP"
  /\ ReplaceSnapshot(t, [hauls[t] EXCEPT !.phase = "NAVIGATING_TO_DROPOFF"])
  /\ UNCHANGED <<robots, fresh, assignments, visit, retry>>

CompletePickup(t) ==
  /\ Quiet
  /\ hauls[t].phase = "PICKUP"
  /\ PhaseMay(t, "NAVIGATING_TO_DROPOFF")
  /\ ReplaceSnapshot(t, [hauls[t] EXCEPT !.phase = "NAVIGATING_TO_DROPOFF",
                                         !.picked = TRUE])
  /\ UNCHANGED <<robots, fresh, assignments, visit, retry>>

(* The phase is written before the WMS status is checked; PhasesFitStatus  *)
(* says that the check cannot fail here.                                   *)
CompleteDropoff(t) ==
  /\ Quiet
  /\ hauls[t].phase = "DROPOFF"
  /\ PhaseMay(t, "SUCCEEDED")
  /\ WmsMay(t, "SUCCEEDED")
  /\ ReplaceSnapshot(t, [hauls[t] EXCEPT !.phase = "SUCCEEDED", !.wms = "SUCCEEDED",
                                         !.asg = "completed"])
  /\ assignments' = Synced(t, "completed")
  /\ robots' = Released(robots, hauls[t].robot)
  /\ UNCHANGED <<fresh, visit, retry>>

-----------------------------------------------------------------------------
(* HaulTaskController.fail, cancel and requeue.                            *)

(* Mutants: the assignment's word for a failed haul is written where the   *)
(* phase belongs; the phase is not written at all.                         *)
FailedPhaseAsStatus(t) == "failed"

FailedPhaseForgotten(t) == hauls[t].phase

FailedPhase(t) ==
  IF hauls[t].phase \in TerminalExecutionPhase THEN hauls[t].phase ELSE "FAILED"

(* Mutant: fail overwrites a status that is already terminal.              *)
FailOverwrites(t) ==
  /\ ReplaceSnapshot(t, [hauls[t] EXCEPT !.phase = FailedPhase(t), !.wms = "FAILED"])
  /\ UNCHANGED <<robots, assignments>>

(* fail: a PENDING or REQUEUED haul is refused after its phase is written; *)
(* on a terminal haul there is nothing left to do but release the robot.   *)
FailEffect(t) ==
  \/ /\ hauls[t].wms \notin TerminalWmsStatus
     /\ ~WmsMay(t, "FAILED")
     /\ ReplaceSnapshot(t, [hauls[t] EXCEPT !.phase = FailedPhase(t)])
     /\ UNCHANGED <<robots, assignments>>
  \/ /\ hauls[t].wms \in TerminalWmsStatus \/ WmsMay(t, "FAILED")
     /\ ReplaceSnapshot(t, [hauls[t] EXCEPT
          !.phase = FailedPhase(t),
          !.wms = IF @ \in TerminalWmsStatus THEN @ ELSE "FAILED",
          !.asg = AsgIfBound(t, "failed")])
     /\ assignments' = SyncedIfBound(t, "failed")
     /\ robots' = Released(robots, hauls[t].robot)

Fail(t) ==
  /\ Quiet
  /\ FailEffect(t)
  /\ UNCHANGED <<fresh, visit, retry>>

(* Mutant: the ready gate's refusal is not turned into fail.               *)
NavigationFailsWhenReady(t) ==
  /\ hauls[t].phase \in {"NAVIGATING_TO_PICKUP", "NAVIGATING_TO_DROPOFF"}
  /\ hauls[t].robot # None
  /\ Ready(hauls[t].robot)
  /\ Fail(t)

(* Either leg's navigation is refused by the ready gate or fails on its    *)
(* way; the completion call turns that into fail.                          *)
NavigationFails(t) ==
  /\ hauls[t].phase \in {"NAVIGATING_TO_PICKUP", "NAVIGATING_TO_DROPOFF"}
  /\ hauls[t].robot # None
  /\ Fail(t)

(* Mutant: cancel does not ask whether the load is aboard.                 *)
CancelLoaded(t) ==
  /\ Quiet
  /\ PhaseMay(t, "CANCELED")
  /\ WmsMay(t, "CANCELED")
  /\ ReplaceSnapshot(t, [hauls[t] EXCEPT !.phase = "CANCELED", !.wms = "CANCELED",
                                         !.asg = AsgIfBound(t, "canceled")])
  /\ assignments' = SyncedIfBound(t, "canceled")
  /\ robots' = Released(robots, hauls[t].robot)
  /\ UNCHANGED <<fresh, visit, retry>>

Cancel(t) ==
  /\ Quiet
  /\ ~hauls[t].picked
  /\ PhaseMay(t, "CANCELED")
  /\ WmsMay(t, "CANCELED")
  /\ ReplaceSnapshot(t, [hauls[t] EXCEPT !.phase = "CANCELED", !.wms = "CANCELED",
                                         !.asg = AsgIfBound(t, "canceled")])
  /\ assignments' = SyncedIfBound(t, "canceled")
  /\ robots' = Released(robots, hauls[t].robot)
  /\ UNCHANGED <<fresh, visit, retry>>

RequeueAccepted(t) ==
  /\ ~hauls[t].picked
  /\ PhaseMay(t, "REQUEUED")
  /\ WmsMay(t, "REQUEUED")
  /\ ReplaceSnapshot(t, [hauls[t] EXCEPT !.phase = "REQUEUED", !.wms = "REQUEUED",
                                         !.asg = AsgIfBound(t, "released"),
                                         !.robot = None])
  /\ assignments' = SyncedIfBound(t, "released")

(* The phase is written, then the WMS transition is refused.               *)
RequeueRejected(t) ==
  /\ ~hauls[t].picked
  /\ PhaseMay(t, "REQUEUED")
  /\ ~WmsMay(t, "REQUEUED")
  /\ ReplaceSnapshot(t, [hauls[t] EXCEPT !.phase = "REQUEUED"])
  /\ UNCHANGED assignments

Requeue(t) ==
  /\ Quiet
  /\ \/ RequeueAccepted(t) /\ robots' = Released(robots, hauls[t].robot)
     \/ RequeueRejected(t) /\ UNCHANGED robots
  /\ UNCHANGED <<fresh, visit, retry>>

-----------------------------------------------------------------------------
(* HeartbeatMonitor.sweep: list_robots freezes the records, then the stale *)
(* ones are visited.  The code visits them in the order of their ids; here *)
(* any order will do, the robots being interchangeable.                    *)

SweepBegin ==
  /\ Quiet
  /\ visit' = [r \in Robots |->
                 IF robots[r].state # "OFFLINE" /\ r \notin fresh
                 THEN robots[r] ELSE None]
  /\ visit' # NoVisit
  /\ UNCHANGED <<robots, fresh, assignments, hauls, retry>>

(* Mutant: mark_offline unbinds the robot.                                 *)
OfflinedUnbound(reg, r) == Moved(reg, r, "OFFLINE", None)

(* mark_offline, which leaves an OFFLINE robot alone.                      *)
Offlined(reg, r) == Moved(reg, r, "OFFLINE", reg[r].task)

(* Mutant: the sweep only takes the task of a robot that has moved off.    *)
RevocableFromBusy(r) ==
  /\ visit[r].state = "BUSY"
  /\ visit[r].task \in Tracked
  /\ ~hauls[visit[r].task].picked

(* The haul of the frozen record's task is known and not past pickup; the  *)
(* code does not ask whether the haul is still bound to this robot.        *)
Revocable(r) ==
  /\ visit[r].task \in Tracked
  /\ ~hauls[visit[r].task].picked

SweepOffline(r) ==
  /\ visit[r] # None
  /\ ~Revocable(r)
  /\ robots' = Offlined(robots, r)
  /\ visit' = [visit EXCEPT ![r] = None]
  /\ UNCHANGED <<fresh, assignments, hauls, retry>>

SweepRequeue(r) ==
  /\ visit[r] # None
  /\ Revocable(r)
  /\ RequeueAccepted(visit[r].task)
  /\ robots' = Offlined(Released(robots, hauls[visit[r].task].robot), r)
  /\ visit' = [visit EXCEPT ![r] = None]
  /\ UNCHANGED <<fresh, retry>>

(* requeue raises and the exception ends the sweep: neither this robot nor *)
(* the ones after it are marked OFFLINE.                                   *)
SweepAborts(r) ==
  /\ visit[r] # None
  /\ Revocable(r)
  /\ \/ RequeueRejected(visit[r].task)
     \/ ~PhaseMay(visit[r].task, "REQUEUED") /\ UNCHANGED <<assignments, hauls>>
  /\ visit' = NoVisit
  /\ UNCHANGED <<robots, fresh, retry>>

Sweep(r) == SweepOffline(r) \/ SweepRequeue(r) \/ SweepAborts(r)

(* HeartbeatMonitor.reassign_requeued.                                     *)

RetryBegin ==
  /\ Quiet
  /\ retry' = {t \in Tracked : hauls[t].wms = "REQUEUED"}
  /\ retry' # {}
  /\ UNCHANGED <<robots, fresh, assignments, hauls, visit>>

RetryAssigns(t) ==
  /\ t \in retry
  /\ \E r \in Robots : AssignAccepted(t, r)
  /\ retry' = retry \ {t}
  /\ UNCHANGED <<fresh, visit>>

(* assign raises: the hauls after this one are not tried.                  *)
RetryAborts(t) ==
  /\ t \in retry
  /\ \/ AssignRejected(t)
     \/ ~Assignable(t) /\ UNCHANGED <<robots, assignments, hauls>>
  /\ retry' = {}
  /\ UNCHANGED <<fresh, visit>>

Retry(t) == RetryAssigns(t) \/ RetryAborts(t)

-----------------------------------------------------------------------------
(* The registry's own calls: heartbeats from robots and vendor adapters,   *)
(* operator interventions, and the clock.                                  *)
RegistryCall(r) ==
  /\ Quiet
  /\ \/ \E recover \in BOOLEAN : RecordHeartbeat(r, recover)
     \/ HeartbeatExpires(r)
     \/ MarkOffline(r) /\ UNCHANGED fresh
     \/ MarkError(r) /\ UNCHANGED fresh
     \/ RecoverToIdle(r) /\ UNCHANGED fresh
  /\ UNCHANGED <<assignments, hauls, visit, retry>>

(* SimulatedRobotContext.complete_assigned_task, called past the haul.     *)
CompleteAssignedTask(r) ==
  /\ Quiet
  /\ ReleaseTask(r)
  /\ UNCHANGED <<fresh, assignments, hauls, visit, retry>>

Drive(t) ==
  \/ Start(t)
  \/ ArriveAtPickup(t)
  \/ CompletePickup(t)
  \/ ArriveAtDropoff(t)
  \/ CompleteDropoff(t)
  \/ NavigationFails(t)

Monitor ==
  \/ SweepBegin
  \/ \E r \in Robots : Sweep(r)
  \/ RetryBegin
  \/ \E t \in Tasks : Retry(t)

NewHaul == [wms |-> "PENDING", asg |-> None, phase |-> "IDLE",
            robot |-> None, picked |-> FALSE]

Init ==
  /\ RegistryInit
  /\ assignments = [t \in Tasks |-> [robot |-> None, status |-> None]]
  /\ hauls = [t \in Tasks |-> NewHaul]
  /\ visit = NoVisit
  /\ retry = {}

(* Every call at any time.                                                 *)
Next ==
  \/ \E r \in Robots : RegistryCall(r) \/ CompleteAssignedTask(r)
  \/ \E t \in Tasks : Assign(t) \/ Drive(t) \/ Cancel(t) \/ Fail(t) \/ Requeue(t)
  \/ Monitor

(* Callers that fail or requeue a haul only while it holds a robot, and    *)
(* leave the release of that robot to the haul.                            *)
CarefulNext ==
  \/ \E r \in Robots : RegistryCall(r)
  \/ \E t \in Tasks :
       \/ Assign(t) \/ Drive(t) \/ Cancel(t)
       \/ Active(t) /\ Fail(t)
       \/ Active(t) /\ Requeue(t)
  \/ Monitor

Spec == Init /\ [][Next]_vars

CarefulSpec == Init /\ [][CarefulNext]_vars

(* run_simulated_success calls the steps of a haul one after the other,    *)
(* and a loop of the monitor runs to its end.  Strong fairness, because    *)
(* no step is enabled while such a loop runs.                              *)
Fairness ==
  /\ \A t \in Tasks : SF_vars(Drive(t))
  /\ WF_vars(\E r \in Robots : Sweep(r))
  /\ WF_vars(\E t \in Tasks : Retry(t))

FairSpec == CarefulSpec /\ Fairness

-----------------------------------------------------------------------------
(* Correctness properties, of any caller.                                  *)

(* The snapshot's assignment status is the dispatcher's, and both follow   *)
(* the WMS status: what one of the three ledgers says of a task is never   *)
(* at odds with the others, whatever call raised half-way.                 *)
AssignmentOf(wms) ==
  CASE wms = "PENDING"     -> {None}
    [] wms = "ASSIGNED"    -> {"assigned"}
    [] wms = "IN_PROGRESS" -> {"executing"}
    [] wms = "SUCCEEDED"   -> {"completed"}
    [] wms = "FAILED"      -> {"failed"}
    [] wms = "CANCELED"    -> {"canceled", "released", None}
    [] wms = "REQUEUED"    -> {"released"}

LedgersAgree ==
  \A t \in Tasks :
    /\ hauls[t].asg = assignments[t].status
    /\ hauls[t].asg \in AssignmentOf(hauls[t].wms)
    /\ hauls[t].robot \in {None, assignments[t].robot}
    /\ Active(t) => hauls[t].robot # None
    /\ hauls[t].wms \in {"PENDING", "REQUEUED"} => hauls[t].robot = None

Working == {"NAVIGATING_TO_PICKUP", "PICKUP", "NAVIGATING_TO_DROPOFF", "DROPOFF"}

(* A haul in a working phase is IN_PROGRESS: the completion calls, which   *)
(* write the phase first, are never refused by the WMS status after it.    *)
WorkingIsInProgress ==
  \A t \in Tasks : hauls[t].phase \in Working => hauls[t].wms = "IN_PROGRESS"

(* The load is aboard exactly from the pickup acknowledgement on, so that  *)
(* a haul is never delivered, nor on its way to dropoff, without its load. *)
LoadFollowsPhase ==
  \A t \in Tasks :
    /\ hauls[t].phase \in {"NAVIGATING_TO_DROPOFF", "DROPOFF", "SUCCEEDED"} =>
         hauls[t].picked
    /\ hauls[t].picked =>
         /\ hauls[t].phase \in
              {"NAVIGATING_TO_DROPOFF", "DROPOFF", "SUCCEEDED", "FAILED"}
         /\ hauls[t].wms \in {"IN_PROGRESS", "SUCCEEDED", "FAILED"}

(* Once the load is on the robot the task stays with that robot and ends   *)
(* as SUCCEEDED or FAILED: no sweep, cancel or requeue takes it away.      *)
PickupIrreversible ==
  [][ \A t \in Tasks :
        hauls[t].picked =>
          /\ hauls'[t].picked
          /\ hauls'[t].robot = hauls[t].robot
          /\ hauls'[t].wms \in {"IN_PROGRESS", "SUCCEEDED", "FAILED"} ]_vars

(* A terminal haul keeps its status, whatever is called on it later.       *)
TerminalIsFinal ==
  [][ \A t \in Tasks :
        hauls[t].wms \in TerminalWmsStatus => hauls'[t].wms = hauls[t].wms ]_vars

-----------------------------------------------------------------------------
(* Correctness properties, of careful callers.                             *)

(* The robot of an active haul is bound to that haul and to no other.      *)
BoundRobotHoldsTask ==
  \A t \in Tasks : Active(t) => robots[hauls[t].robot].task = t

(* No robot serves two active hauls.                                       *)
NoDoubleBooking ==
  \A t1, t2 \in Tasks :
    Active(t1) /\ Active(t2) /\ hauls[t1].robot = hauls[t2].robot => t1 = t2

(* The execution phase is the one the lifecycle table gives the status,    *)
(* except that a failed reassignment leaves a REQUEUED haul in IDLE.       *)
PhasesOf(wms) ==
  CASE wms \in {"PENDING", "ASSIGNED"} -> {"IDLE"}
    [] wms = "IN_PROGRESS"             -> Working
    [] wms = "REQUEUED"                -> {"REQUEUED", "IDLE"}
    [] wms \in TerminalWmsStatus       -> {wms}

PhasesFitStatus ==
  \A t \in Tasks : hauls[t].phase \in PhasesOf(hauls[t].wms)

(* A robot the sweep has dealt with is OFFLINE, and no haul that could     *)
(* still be taken away from it is left bound to it.                        *)
SweepFreesReversibleHauls ==
  [][ \A r \in Robots :
        SweepOffline(r) \/ SweepRequeue(r) =>
          /\ robots'[r].state = "OFFLINE"
          /\ \A t \in Tracked :
               Active(t)' /\ hauls'[t].robot = r => hauls'[t].picked ]_vars

(* A haul that holds a robot is eventually resolved or given back, even if *)
(* its robot goes silent, fails or is taken out of service on the way.     *)
HaulsResolve == \A t \in Tasks : Active(t) ~> ~Active(t)

-----------------------------------------------------------------------------
(* The abstract booking this module implements for careful callers.        *)

BookedOn == [t \in Tasks |-> IF Active(t) THEN hauls[t].robot ELSE None]

StageOf(h) ==
  CASE h.wms = "SUCCEEDED" -> "delivered"
    [] h.wms = "FAILED"    -> "failed"
    [] h.wms = "CANCELED"  -> "canceled"
    [] OTHER -> IF h.picked THEN "aboard" ELSE "open"

Booking == INSTANCE FleetBooking WITH
             holder <- BookedOn,
             stage  <- [t \in Tasks |-> StageOf(hauls[t])]

(* Every step of the fleet is a step of the abstract booking or none.      *)
ImplementsBooking == Booking!BookingSpec

=============================================================================
