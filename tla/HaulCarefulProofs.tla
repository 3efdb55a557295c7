------------------------- MODULE HaulCarefulProofs -------------------------
(* Theorems about HaulFleet with careful callers, for any sets of robots   *)
(* and tasks: phases fit statuses, the sweep frees what it visits, and the *)
(* fleet implements the abstract booking.                                  *)
EXTENDS HaulBookingProofs

(* How far a haul has got, and on which robot.                             *)

Fits(h) == h.phase \in PhasesOf(h.wms)

Holder(h) == IF h.wms \in {"ASSIGNED", "IN_PROGRESS"} THEN h.robot ELSE None

(* What one call makes of a haul with snapshot h: it is booked on a free   *)
(* robot, given back, loaded or ended, or nothing the booking sees.        *)
Booked(h, g) ==
  /\ StageOf(h) = "open" /\ Holder(h) = None
  /\ StageOf(g) = "open" /\ Holder(g) \in Robots /\ robots[Holder(g)].task = None

GivenBack(h, g) ==
  /\ StageOf(h) = "open" /\ Holder(h) # None
  /\ StageOf(g) = "open" /\ Holder(g) = None

Loaded(h, g) ==
  /\ StageOf(h) = "open" /\ Holder(h) # None
  /\ StageOf(g) = "aboard" /\ Holder(g) = Holder(h)

Ended(h, g) ==
  /\ Holder(g) = None
  /\ \/ StageOf(h) = "aboard" /\ Holder(h) # None /\ StageOf(g) = "delivered"
     \/ /\ StageOf(h) \in {"open", "aboard"} /\ Holder(h) # None
        /\ StageOf(g) = "failed"
     \/ StageOf(h) = "open" /\ StageOf(g) = "canceled"

Progress(h, g) ==
  \/ StageOf(g) = StageOf(h) /\ Holder(g) = Holder(h)
  \/ Booked(h, g)
  \/ GivenBack(h, g)
  \/ Loaded(h, g)
  \/ Ended(h, g)

(* A step that replaces the snapshot of haul t and of no other.            *)
Advances(t) ==
  /\ \A u \in Tasks \ {t} : hauls'[u] = hauls[u]
  /\ Fits(hauls'[t])
  /\ hauls'[t].wms = "PENDING" => hauls[t].wms = "PENDING"
  /\ Progress(hauls[t], hauls'[t])

(* What holds between two steps of careful callers.                        *)
CarefulState ==
  /\ TypeOK
  /\ HaulInv
  /\ Sound(robots)
  /\ BoundRobotHoldsTask
  /\ PhasesFitStatus

(* The phases of each status.                                              *)
LEMMA PhasesOfStatus ==
  /\ PhasesOf("PENDING") = {"IDLE"} /\ PhasesOf("ASSIGNED") = {"IDLE"}
  /\ PhasesOf("IN_PROGRESS") = Working
  /\ PhasesOf("REQUEUED") = {"REQUEUED", "IDLE"}
  /\ \A wms \in TerminalWmsStatus : PhasesOf(wms) = {wms}
BY DEF PhasesOf, TerminalWmsStatus

(* assign books the haul on an unbound robot, or resets it.                *)
LEMMA AssignAdvances ==
  ASSUME CarefulState, NEW t \in Tasks,
         (\E r \in Robots : AssignAccepted(t, r)) \/ AssignRejected(t)
  PROVE  Advances(t)
<1> USE DEF CarefulState
<1>1. /\ TaskInv(hauls[t], assignments[t])
      /\ hauls[t] \in Haul /\ Fits(hauls[t])
  BY HaulInvIsTaskInv DEF TypeOK, PhasesFitStatus, Fits
<1>2. \A u \in Tasks \ {t} : hauls'[u] = hauls[u]
  BY DEF TypeOK, AssignAccepted, AssignRejected, ReplaceSnapshot
<1>3. /\ hauls[t].wms \in {"PENDING", "REQUEUED"} /\ ~hauls[t].picked
      /\ Reset(t) \in Haul /\ Reset(t).wms = hauls[t].wms
      /\ Reset(t).phase = "IDLE" /\ ~Reset(t).picked
  BY <1>1, PhasesOfStatus DEF AssignAccepted, AssignRejected, Assignable, TaskInv, Fits, Reset,
         Haul, Phase
<1>4. ASSUME NEW r \in Robots, AssignAccepted(t, r) PROVE Advances(t)
  <2>1. hauls'[t] = [Reset(t) EXCEPT !.robot = r, !.asg = "assigned", !.wms = "ASSIGNED"]
    BY <1>4 DEF TypeOK, AssignAccepted, ReplaceSnapshot
  <2>2. /\ hauls'[t].wms = "ASSIGNED" /\ hauls'[t].robot = r
        /\ hauls'[t].phase = "IDLE" /\ ~hauls'[t].picked
    BY <1>3, <2>1 DEF Haul
  <2>3. robots[r].task = None
    BY <1>4 DEF AssignAccepted, AssignTask, Sound
  <2>4. Booked(hauls[t], hauls'[t])
    BY <1>3, <2>2, <2>3 DEF Booked, StageOf, Holder
  <2> QED BY <1>2, <2>2, <2>4, PhasesOfStatus DEF Advances, Progress, Fits
<1>5. CASE AssignRejected(t)
  <2>1. hauls'[t] = Reset(t)
    BY <1>5 DEF TypeOK, AssignRejected, ReplaceSnapshot
  <2>2. Progress(hauls[t], hauls'[t])
    BY <1>3, <2>1 DEF Progress, StageOf, Holder
  <2> QED BY <1>2, <1>3, <2>1, <2>2, PhasesOfStatus DEF Advances, Fits
<1> QED BY <1>4, <1>5

(* fail of a haul that holds a robot ends it.                              *)
LEMMA FailAdvances ==
  ASSUME CarefulState, NEW t \in Tasks, Active(t), FailEffect(t)
  PROVE  Advances(t)
<1> USE DEF CarefulState
<1>1. /\ TaskInv(hauls[t], assignments[t])
      /\ hauls[t] \in Haul /\ Fits(hauls[t])
  BY HaulInvIsTaskInv DEF TypeOK, PhasesFitStatus, Fits
<1>2. /\ hauls[t].wms \in {"ASSIGNED", "IN_PROGRESS"} /\ WmsMay(t, "FAILED")
      /\ FailedPhase(t) = "FAILED" /\ hauls[t].robot # None
  BY <1>1, PhasesOfStatus DEF Active, WmsMay, AllowedWmsTransitions, Fits,
                           Working, FailedPhase,
         TerminalExecutionPhase, TaskInv
<1>3. /\ hauls'[t].wms = "FAILED" /\ hauls'[t].phase = "FAILED"
      /\ \A u \in Tasks \ {t} : hauls'[u] = hauls[u]
  <2>1. /\ hauls[t].wms \notin TerminalWmsStatus
        /\ ReplaceSnapshot(t, [hauls[t] EXCEPT
             !.phase = "FAILED",
             !.wms = IF @ \in TerminalWmsStatus THEN @ ELSE "FAILED",
             !.asg = AsgIfBound(t, "failed")])
    BY <1>2 DEF FailEffect, TerminalWmsStatus
  <2>2. hauls'[t] = [hauls[t] EXCEPT !.phase = "FAILED", !.wms = "FAILED",
                                     !.asg = AsgIfBound(t, "failed")]
    BY <1>1, <2>1 DEF TypeOK, ReplaceSnapshot, Haul
  <2>3. \A u \in Tasks \ {t} : hauls'[u] = hauls[u]
    BY <2>1 DEF TypeOK, ReplaceSnapshot
  <2> QED BY <1>1, <2>2, <2>3 DEF Haul
<1>4. Ended(hauls[t], hauls'[t])
  BY <1>2, <1>3 DEF Ended, StageOf, Holder
<1> QED BY <1>3, <1>4, PhasesOfStatus DEF Advances, Progress, Fits, TerminalWmsStatus

(* The steps to dropoff move the load on; delivery ends the haul.          *)
LEMMA DriveAdvances ==
  ASSUME CarefulState, NEW t \in Tasks, Drive(t)
  PROVE  Advances(t)
<1> USE DEF CarefulState
<1>1. /\ TaskInv(hauls[t], assignments[t])
      /\ hauls[t] \in Haul /\ Fits(hauls[t])
  BY HaulInvIsTaskInv DEF TypeOK, PhasesFitStatus, Fits
<1>2. hauls[t].phase \in Working => /\ hauls[t].wms = "IN_PROGRESS"
                                    /\ hauls[t].robot # None /\ Active(t)
  BY <1>1 DEF TaskInv, Active
<1>3. CASE Start(t)
  <2>1. hauls[t].wms = "ASSIGNED" /\ hauls[t].phase = "IDLE"
    BY <1>1, <1>3, PhasesOfStatus DEF Start, WmsMay, AllowedWmsTransitions, Fits
  <2>2. /\ hauls'[t] = [hauls[t] EXCEPT !.wms = "IN_PROGRESS", !.asg = "executing",
                                        !.phase = "NAVIGATING_TO_PICKUP"]
        /\ \A u \in Tasks \ {t} : hauls'[u] = hauls[u]
    BY <1>3, <2>1
       DEF Start, TypeOK, ReplaceSnapshot, PhaseMay, AllowedExecutionTransitions
  <2> QED BY <1>1, <2>1, <2>2, PhasesOfStatus
             DEF Advances, Progress, StageOf, Holder, Fits, Working, Haul
<1>4. CASE ArriveAtPickup(t) \/ ArriveAtDropoff(t)
  <2>1. PICK to \in {"PICKUP", "DROPOFF"} :
          /\ hauls'[t] = [hauls[t] EXCEPT !.phase = to]
          /\ \A u \in Tasks \ {t} : hauls'[u] = hauls[u]
          /\ hauls[t].phase \in Working
    BY <1>4 DEF ArriveAtPickup, ArriveAtDropoff, Arrive, TypeOK, ReplaceSnapshot, Working
  <2> QED BY <1>1, <1>2, <2>1, PhasesOfStatus
             DEF Advances, Progress, StageOf, Holder, Fits, Working, Haul
<1>5. CASE CompletePickup(t)
  <2>1. /\ hauls'[t] = [hauls[t] EXCEPT !.phase = "NAVIGATING_TO_DROPOFF", !.picked = TRUE]
        /\ \A u \in Tasks \ {t} : hauls'[u] = hauls[u]
        /\ hauls[t].phase = "PICKUP"
    BY <1>5 DEF CompletePickup, TypeOK, ReplaceSnapshot
  <2>2. Loaded(hauls[t], hauls'[t])
    BY <1>1, <1>2, <2>1 DEF Loaded, StageOf, Holder, Working, TaskInv, Haul
  <2> QED BY <1>1, <1>2, <2>1, <2>2, PhasesOfStatus DEF Advances, Progress, Fits, Working, Haul
<1>6. CASE CompleteDropoff(t)
  <2>1. /\ hauls'[t] = [hauls[t] EXCEPT !.phase = "SUCCEEDED", !.wms = "SUCCEEDED",
                                        !.asg = "completed"]
        /\ \A u \in Tasks \ {t} : hauls'[u] = hauls[u]
        /\ hauls[t].phase = "DROPOFF"
    BY <1>6 DEF CompleteDropoff, TypeOK, ReplaceSnapshot
  <2>2. Ended(hauls[t], hauls'[t])
    BY <1>1, <1>2, <2>1 DEF Ended, StageOf, Holder, Working, TaskInv, Haul
  <2> QED BY <1>1, <2>1, <2>2, PhasesOfStatus
             DEF Advances, Progress, Fits, TerminalWmsStatus, Haul
<1>7. CASE NavigationFails(t)
  BY <1>2, <1>7, FailAdvances DEF NavigationFails, Fail, Working
<1> QED BY <1>3, <1>4, <1>5, <1>6, <1>7 DEF Drive

(* cancel ends a haul that is not loaded.                                  *)
LEMMA CancelAdvances ==
  ASSUME CarefulState, NEW t \in Tasks, Cancel(t)
  PROVE  Advances(t)
<1> USE DEF CarefulState
<1>1. hauls[t] \in Haul /\ ~hauls[t].picked
  BY DEF TypeOK, Cancel
<1>2. /\ hauls'[t].wms = "CANCELED" /\ hauls'[t].phase = "CANCELED"
      /\ \A u \in Tasks \ {t} : hauls'[u] = hauls[u]
  BY <1>1 DEF Cancel, TypeOK, ReplaceSnapshot, Haul
<1>3. StageOf(hauls[t]) = "open"
  BY <1>1 DEF Cancel, WmsMay, AllowedWmsTransitions, StageOf
<1>4. Ended(hauls[t], hauls'[t])
  BY <1>2, <1>3 DEF Ended, StageOf, Holder
<1> QED BY <1>2, <1>4, PhasesOfStatus DEF Advances, Progress, Fits, TerminalWmsStatus

(* requeue gives the robot back; refused by the WMS status, it leaves the  *)
(* phase it should not have: of a haul that was assigned before, this is   *)
(* the phase of its status.                                                *)
LEMMA RequeueAdvances ==
  ASSUME CarefulState, NEW t \in Tasks,
         \/ RequeueAccepted(t)
         \/ RequeueRejected(t) /\ hauls[t].wms # "PENDING"
  PROVE  Advances(t)
<1> USE DEF CarefulState
<1>1. /\ TaskInv(hauls[t], assignments[t])
      /\ hauls[t] \in Haul /\ Fits(hauls[t])
  BY HaulInvIsTaskInv DEF TypeOK, PhasesFitStatus, Fits
<1>2. \A u \in Tasks \ {t} : hauls'[u] = hauls[u]
  BY DEF TypeOK, RequeueAccepted, RequeueRejected, ReplaceSnapshot
<1>3. CASE RequeueAccepted(t)
  <2>1. /\ hauls[t].wms \in {"ASSIGNED", "IN_PROGRESS"} /\ ~hauls[t].picked
        /\ hauls[t].robot # None
    BY <1>1, <1>3 DEF RequeueAccepted, WmsMay, AllowedWmsTransitions, TaskInv
  <2>2. /\ hauls'[t].wms = "REQUEUED" /\ hauls'[t].phase = "REQUEUED"
        /\ ~hauls'[t].picked
    BY <1>1, <1>3, <2>1 DEF RequeueAccepted, TypeOK, ReplaceSnapshot, Haul
  <2>3. GivenBack(hauls[t], hauls'[t])
    BY <2>1, <2>2 DEF GivenBack, StageOf, Holder
  <2> QED BY <1>2, <2>2, <2>3, PhasesOfStatus DEF Advances, Progress, Fits
<1>4. CASE RequeueRejected(t) /\ hauls[t].wms # "PENDING"
  <2>1. hauls'[t] = [hauls[t] EXCEPT !.phase = "REQUEUED"]
    BY <1>4 DEF RequeueRejected, TypeOK, ReplaceSnapshot
  <2>2. hauls[t].wms = "REQUEUED"
    BY <1>1, <1>4, PhasesOfStatus DEF RequeueRejected, PhaseMay, AllowedExecutionTransitions,
           WmsMay, AllowedWmsTransitions, Fits, TerminalWmsStatus, Haul, WmsStatus
  <2>3. /\ hauls'[t].wms = "REQUEUED" /\ hauls'[t].phase = "REQUEUED"
        /\ hauls'[t].picked = hauls[t].picked /\ hauls'[t].robot = hauls[t].robot
    BY <1>1, <2>1, <2>2 DEF Haul
  <2>4. Progress(hauls[t], hauls'[t])
    BY <2>2, <2>3 DEF Progress, StageOf, Holder
  <2> QED BY <1>2, <2>3, <2>4, PhasesOfStatus DEF Advances, Fits
<1> QED BY <1>3, <1>4

-----------------------------------------------------------------------------
(* A sweep acts on records frozen when it began.  No robot holds a haul    *)
(* that was never assigned, then or now, and what a robot still to be      *)
(* visited held has at most been taken from it since.                      *)
NotPending(task) == task \in Tasks => hauls[task].wms # "PENDING"

Monitored ==
  /\ visit = NoVisit \/ retry = {}
  /\ \A r \in Robots :
       /\ NotPending(robots[r].task)
       /\ visit[r] # None =>
            /\ NotPending(visit[r].task)
            /\ robots[r].task \in {visit[r].task, None}

(* A step keeps this if it freezes nothing, never makes a haul PENDING,    *)
(* and binds only a robot that is not to be visited.                       *)
LEMMA MonitoredKept ==
  ASSUME Monitored,
         visit' = NoVisit \/ retry' = {},
         \A r \in Robots : visit'[r] \in {visit[r], None},
         \A u \in Tasks : hauls'[u].wms = "PENDING" => hauls[u].wms = "PENDING",
         \A r \in Robots :
           \/ robots'[r].task \in {robots[r].task, None}
           \/ visit'[r] = None /\ hauls'[robots'[r].task].wms # "PENDING"
  PROVE  Monitored'
BY NoneIsNoId DEF Monitored, NotPending

(* A step that leaves the hauls alone advances none; one that advances a   *)
(* haul makes none PENDING.                                                *)
LEMMA AdvancesOnly ==
  ASSUME NEW t \in Tasks, Advances(t)
  PROVE  \A u \in Tasks : hauls'[u].wms = "PENDING" => hauls[u].wms = "PENDING"
BY DEF Advances

(* _release_robot leaves each robot its task or none.                      *)
LEMMA ReleasedTask ==
  ASSUME NEW reg \in [Robots -> RobotRecord], NEW r \in Robots \cup {None}
  PROVE  \A q \in Robots : Released(reg, r)[q].task \in {reg[q].task, None}
BY DEF Released, Moved

(* Between two calls no robot is to be visited.                            *)
LEMMA QuietVisits ==
  ASSUME Quiet
  PROVE  visit = NoVisit /\ \A r \in Robots : visit[r] = None
BY DEF Quiet, NoVisit

(* assign binds a robot, and only then, while no sweep is on.              *)
LEMMA MonitoredAssign ==
  ASSUME CarefulState, Monitored, NEW t \in Tasks, visit = NoVisit, UNCHANGED visit,
         (\E r \in Robots : AssignAccepted(t, r)) \/ AssignRejected(t)
  PROVE  Monitored'
<1>1. \A u \in Tasks : hauls'[u].wms = "PENDING" => hauls[u].wms = "PENDING"
  BY AssignAdvances, AdvancesOnly
<1>2. ASSUME NEW r \in Robots, AssignAccepted(t, r)
      PROVE  \A q \in Robots : \/ robots'[q].task = robots[q].task
                              \/ hauls'[robots'[q].task].wms # "PENDING"
  <2>1. robots' = [robots EXCEPT ![r] = [state |-> "ASSIGNED", task |-> t]]
    BY <1>2 DEF AssignAccepted, AssignTask, Transition, Moved
  <2>2. hauls'[t].wms = "ASSIGNED"
    <3>1. Reset(t) \in Haul
      BY DEF CarefulState, TypeOK, Reset, Haul, Phase
    <3> QED BY <1>2, <3>1 DEF AssignAccepted, ReplaceSnapshot, CarefulState, TypeOK, Haul
  <2> QED BY <2>1, <2>2, HaulRobot DEF CarefulState
<1>3. CASE AssignRejected(t)
  BY <1>1, <1>3, MonitoredKept DEF AssignRejected, NoVisit
<1> QED BY <1>1, <1>2, <1>3, MonitoredKept DEF NoVisit

(* The steps to dropoff, cancel and fail bind no robot.                    *)
LEMMA MonitoredDrive ==
  ASSUME CarefulState, Monitored, NEW t \in Tasks,
         Drive(t) \/ Cancel(t) \/ (Active(t) /\ Fail(t)) \/ (Active(t) /\ Requeue(t))
  PROVE  Monitored'
<1> USE HaulRobot DEF CarefulState
<1>1. Advances(t)
  BY DriveAdvances, CancelAdvances, FailAdvances, RequeueAdvances
     DEF Fail, Requeue, Active
<1>2. UNCHANGED <<visit, retry>> /\ Quiet
  BY DEF Drive, Start, ArriveAtPickup, ArriveAtDropoff, Arrive, CompletePickup,
         CompleteDropoff, NavigationFails, Fail, Cancel, Requeue
<1>3. \A q \in Robots : robots'[q].task \in {robots[q].task, None}
  <2>1. CASE Start(t) \/ ArriveAtPickup(t) \/ ArriveAtDropoff(t)
    BY <2>1, MarkBusyTask DEF Start, ArriveAtPickup, ArriveAtDropoff, Arrive
  <2>2. CASE FailEffect(t) \/ CompleteDropoff(t) \/ Cancel(t)
    BY <2>2, ReleasedTask DEF FailEffect, CompleteDropoff, Cancel
  <2>3. CASE Requeue(t)
    BY <2>3, ReleasedTask DEF Requeue
  <2>4. CASE CompletePickup(t)
    BY <2>4 DEF CompletePickup
  <2> QED BY <2>1, <2>2, <2>3, <2>4 DEF Drive, NavigationFails, Fail
<1> QED BY <1>1, <1>2, <1>3, AdvancesOnly, QuietVisits, MonitoredKept

(* One robot's turn of a sweep.                                            *)
LEMMA MonitoredSweep ==
  ASSUME CarefulState, Monitored, NEW r \in Robots, Sweep(r)
  PROVE  Monitored'
<1> USE DEF CarefulState
<1>1. visit # NoVisit /\ retry = {} /\ retry' = {}
  BY DEF Sweep, SweepOffline, SweepRequeue, SweepAborts, Monitored, NoVisit
<1>2. \A q \in Robots : visit'[q] \in {visit[q], None}
  BY DEF Sweep, SweepOffline, SweepRequeue, SweepAborts, NoVisit, TypeOK
<1>3. CASE SweepOffline(r)
  BY <1>1, <1>2, <1>3, OfflinedTask, MonitoredKept
     DEF SweepOffline, TypeOK, RegistryTypeOK
<1>4. CASE SweepRequeue(r)
  <2>1. visit[r].task \in Tasks /\ RequeueAccepted(visit[r].task)
    BY <1>4, TrackedAreTasks DEF SweepRequeue, Revocable
  <2>2. \A u \in Tasks : hauls'[u].wms = "PENDING" => hauls[u].wms = "PENDING"
    BY <2>1, RequeueAdvances, AdvancesOnly
  <2>3. \A q \in Robots : robots'[q].task \in {robots[q].task, None}
    <3> DEFINE freed == Released(robots, hauls[visit[r].task].robot)
    <3>1. /\ freed \in [Robots -> RobotRecord]
          /\ \A q \in Robots : freed[q].task \in {robots[q].task, None}
      BY <2>1, HaulRobot, ReleasedType, ReleasedTask
    <3>2. robots' = Offlined(freed, r)
      BY <1>4 DEF SweepRequeue
    <3> HIDE DEF freed
    <3> QED BY <3>1, <3>2, OfflinedTask
  <2> QED BY <1>1, <1>2, <2>2, <2>3, MonitoredKept
<1>5. CASE SweepAborts(r)
  <2>1. visit[r].task \in Tasks /\ hauls[visit[r].task].wms # "PENDING"
    BY <1>5, TrackedAreTasks DEF SweepAborts, Revocable, Monitored, NotPending
  <2>2. \A u \in Tasks : hauls'[u].wms = "PENDING" => hauls[u].wms = "PENDING"
    BY <1>5, <2>1, RequeueAdvances, AdvancesOnly DEF SweepAborts
  <2> QED BY <1>1, <1>2, <1>5, <2>2, MonitoredKept DEF SweepAborts
<1> QED BY <1>3, <1>4, <1>5 DEF Sweep

(* Every step of careful callers keeps it.                                 *)
LEMMA MonitoredStep ==
  ASSUME CarefulState, Monitored, [CarefulNext]_vars
  PROVE  Monitored'
<1>1. CASE UNCHANGED vars
  BY <1>1, MonitoredKept DEF vars, Monitored
<1>2. ASSUME NEW r \in Robots, RegistryCall(r) PROVE Monitored'
  <2>1. UNCHANGED <<hauls, visit, retry>> /\ Quiet
    BY <1>2 DEF RegistryCall
  <2> QED BY <1>2, <2>1, CallTask, MonitoredKept DEF CarefulState, Quiet
<1>3. ASSUME NEW t \in Tasks, Assign(t) PROVE Monitored'
  BY <1>3, MonitoredAssign DEF Assign, Quiet
<1>4. CASE SweepBegin
  <2>1. \A r \in Robots : visit'[r] # None => visit'[r] = robots[r]
    BY <1>4 DEF SweepBegin
  <2>2. UNCHANGED <<robots, hauls, retry>> /\ retry = {}
    BY <1>4 DEF SweepBegin, Quiet
  <2> QED BY <2>1, <2>2 DEF Monitored, NotPending
<1>5. CASE RetryBegin
  BY <1>5, QuietVisits, MonitoredKept DEF RetryBegin
<1>6. ASSUME NEW t \in Tasks, Retry(t) PROVE Monitored'
  <2>1. visit = NoVisit /\ UNCHANGED visit
    BY <1>6 DEF Retry, RetryAssigns, RetryAborts, Monitored
  <2>2. CASE UNCHANGED <<robots, hauls>>
    BY <2>1, <2>2, MonitoredKept DEF NoVisit
  <2> QED BY <1>6, <2>1, <2>2, MonitoredAssign DEF Retry, RetryAssigns, RetryAborts
<1> QED
  BY <1>1, <1>2, <1>3, <1>4, <1>5, <1>6, MonitoredDrive, MonitoredSweep
     DEF CarefulNext, Monitor

-----------------------------------------------------------------------------
(* A step of careful callers advances one haul, or none.                   *)
LEMMA CarefulAdvances ==
  ASSUME CarefulState, Monitored, [CarefulNext]_vars
  PROVE  UNCHANGED hauls \/ \E t \in Tasks : Advances(t)
<1>1. CASE UNCHANGED vars
  BY <1>1 DEF vars
<1>2. ASSUME NEW t \in Tasks, Assign(t) \/ Retry(t)
      PROVE  UNCHANGED hauls \/ Advances(t)
  BY <1>2, AssignAdvances DEF Assign, Retry, RetryAssigns, RetryAborts
<1>3. ASSUME NEW t \in Tasks,
             Drive(t) \/ Cancel(t) \/ (Active(t) /\ Fail(t)) \/ (Active(t) /\ Requeue(t))
      PROVE  Advances(t)
  BY <1>3, DriveAdvances, CancelAdvances, FailAdvances, RequeueAdvances
     DEF Fail, Requeue, Active
<1>4. ASSUME NEW r \in Robots, Sweep(r)
      PROVE  UNCHANGED hauls \/ \E t \in Tasks : Advances(t)
  <2>1. Revocable(r) => visit[r].task \in Tasks
    BY TrackedAreTasks DEF Revocable
  <2>2. visit[r] # None => NotPending(visit[r].task)
    BY DEF Monitored
  <2> QED BY <1>4, <2>1, <2>2, RequeueAdvances
             DEF Sweep, SweepOffline, SweepRequeue, SweepAborts, NotPending
<1> QED
  BY <1>1, <1>2, <1>3, <1>4
     DEF CarefulNext, Monitor, SweepBegin, RetryBegin, RegistryCall

(* The phases fit after the step as before it.                             *)
LEMMA PhasesStep ==
  ASSUME CarefulState, Monitored, [CarefulNext]_vars
  PROVE  PhasesFitStatus'
<1>1. CASE UNCHANGED hauls
  BY <1>1 DEF CarefulState, PhasesFitStatus
<1>2. ASSUME NEW t \in Tasks, Advances(t) PROVE PhasesFitStatus'
  BY <1>2 DEF Advances, Fits, CarefulState, PhasesFitStatus
<1> QED BY <1>1, <1>2, CarefulAdvances

(* What careful callers keep, the inductive invariant of their fleet.      *)
LEMMA CarefulHolds == CarefulSpec => [](CarefulState /\ Monitored)
<1>1. Init => CarefulState /\ Monitored
  <2> SUFFICES ASSUME Init PROVE CarefulState /\ Monitored
    OBVIOUS
  <2>1. \A r \in Robots : robots[r].state = "IDLE" /\ robots[r].task = None
    BY DEF Init, RegistryInit
  <2>2. Sound(robots)
    BY <2>1 DEF Sound, ActiveTaskStates
  <2>3. BoundRobotHoldsTask
    BY DEF Init, NewHaul, BoundRobotHoldsTask, Active
  <2>4. PhasesFitStatus
    BY PhasesOfStatus DEF Init, NewHaul, PhasesFitStatus
  <2>5. Monitored
    BY <2>1, NoneIsNoId DEF Init, Monitored, NotPending, NoVisit
  <2> QED BY <2>2, <2>3, <2>4, <2>5, TypeInit, HaulInvInit DEF CarefulState
<1>2. CarefulState /\ Monitored /\ [CarefulNext]_vars => (CarefulState /\ Monitored)'
  <2> SUFFICES ASSUME CarefulState, Monitored, [CarefulNext]_vars
               PROVE  (CarefulState /\ Monitored)'
    OBVIOUS
  <2>1. TypeOK' /\ HaulInv'
    BY CarefulIsNext, TypeStep, HaulInvStep DEF CarefulState
  <2>2. Sound(robots')
    BY CarefulIsNext, SoundStep DEF CarefulState
  <2>3. BoundRobotHoldsTask'
    BY BindingStep DEF CarefulState, HaulInv, LedgersAgree, Held
  <2>4. Sound(robots)'
    BY <2>2 DEF Sound
  <2> QED BY <2>1, <2>3, <2>4, PhasesStep, MonitoredStep DEF CarefulState
<1> QED BY <1>1, <1>2, PTL DEF CarefulSpec

(* PhasesFitStatus for any number of robots and tasks: a requeue that      *)
(* raises after it has written the phase is only ever made, by callers or  *)
(* by a sweep that works from an old record, of a haul whose status allows *)
(* that phase.                                                             *)
THEOREM PhasesAlwaysFit == CarefulSpec => []PhasesFitStatus
BY CarefulHolds, PTL DEF CarefulState

(* mark_offline leaves its robot OFFLINE, whatever state it was in.        *)
LEMMA OfflinedState ==
  ASSUME NEW r \in Robots, NEW reg \in [Robots -> RobotRecord]
  PROVE  Offlined(reg, r)[r].state = "OFFLINE"
BY DEF Offlined, Moved, CanMove, AllowedTransitions, RobotRecord, RobotState

(* A visited robot holds no haul that could still be taken from it.  The   *)
(* visit works on a frozen record; Monitored says that the record still    *)
(* names the only haul the robot can hold.                                 *)
LEMMA SweepFrees ==
  ASSUME CarefulState, Monitored, NEW r \in Robots, SweepOffline(r) \/ SweepRequeue(r)
  PROVE  /\ robots'[r].state = "OFFLINE"
         /\ \A t \in Tracked :
              Active(t)' /\ hauls'[t].robot = r => hauls'[t].picked
<1> USE DEF CarefulState
<1>1. CASE SweepOffline(r)
  <2>1. robots'[r].state = "OFFLINE"
    BY <1>1, OfflinedState, HaulRobot DEF SweepOffline, TypeOK, RegistryTypeOK
  <2>2. ASSUME NEW t \in Tracked, Active(t)', hauls'[t].robot = r PROVE hauls'[t].picked
    <3>1. /\ hauls'[t] = hauls[t] /\ Active(t) /\ hauls[t].robot = r
      BY <1>1, <2>2 DEF SweepOffline, Active
    <3>2. robots[r].task = t /\ t # None
      BY <3>1, TrackedAreTasks, NoneIsNoId DEF BoundRobotHoldsTask
    <3>3. visit[r].task = t
      BY <1>1, <3>2 DEF Monitored, SweepOffline
    <3> QED BY <1>1, <3>1, <3>3 DEF SweepOffline, Revocable
  <2> QED BY <2>1, <2>2
<1>2. CASE SweepRequeue(r)
  <2> DEFINE mine == visit[r].task
             freed == Released(robots, hauls[mine].robot)
  <2>1. mine \in Tasks /\ RequeueAccepted(mine)
    BY <1>2, TrackedAreTasks DEF SweepRequeue, Revocable
  <2>2. freed \in [Robots -> RobotRecord] /\ robots' = Offlined(freed, r)
    BY <1>2, <2>1, HaulRobot, ReleasedType DEF SweepRequeue
  <2>3. robots'[r].state = "OFFLINE"
    <3> HIDE DEF freed
    <3> QED BY <2>2, OfflinedState
  <2>4. ASSUME NEW t \in Tracked, Active(t)', hauls'[t].robot = r PROVE hauls'[t].picked
    <3>1. hauls[mine] \in Haul
      BY <2>1 DEF TypeOK
    <3>2. /\ \A u \in Tasks \ {mine} : hauls'[u] = hauls[u]
          /\ hauls'[mine].wms = "REQUEUED"
      BY <2>1, <3>1 DEF RequeueAccepted, ReplaceSnapshot, TypeOK, Haul
    <3>3. t # mine /\ hauls'[t] = hauls[t] /\ Active(t) /\ hauls[t].robot = r
      BY <2>4, <3>2, TrackedAreTasks DEF Active
    <3>4. robots[r].task = t /\ t # None
      BY <3>3, TrackedAreTasks, NoneIsNoId DEF BoundRobotHoldsTask
    <3>5. mine = t
      BY <1>2, <3>4 DEF Monitored, SweepRequeue
    <3> QED BY <3>3, <3>5
  <2> QED BY <2>3, <2>4
<1> QED BY <1>1, <1>2

(* SweepFreesReversibleHauls for any number of robots and tasks.           *)
THEOREM SweepFreesTheHauls == CarefulSpec => SweepFreesReversibleHauls
<1>1. CarefulState /\ Monitored /\ [CarefulNext]_vars =>
        [ \A r \in Robots :
        SweepOffline(r) \/ SweepRequeue(r) =>
          /\ robots'[r].state = "OFFLINE"
          /\ \A t \in Tracked :
               Active(t)' /\ hauls'[t].robot = r => hauls'[t].picked ]_vars
  BY SweepFrees
<1> QED BY <1>1, CarefulHolds, PTL DEF CarefulSpec, SweepFreesReversibleHauls

-----------------------------------------------------------------------------
(* The fleet implements the abstract booking (FleetBooking).               *)

(* What the refinement mapping says of one haul.                           *)
LEMMA BookingOf ==
  ASSUME NEW t \in Tasks
  PROVE  /\ BookedOn[t] = Holder(hauls[t])
         /\ [u \in Tasks |-> StageOf(hauls[u])][t] = StageOf(hauls[t])
BY DEF BookedOn, Holder, Active

(* An advance of one haul is a step of the abstract booking of that haul,  *)
(* or none.  Booking takes a robot that no other haul has, because the     *)
(* registry shows the robot of every booked haul bound to it.              *)
LEMMA AdvanceIsBooking ==
  ASSUME CarefulState, NEW t \in Tasks, Advances(t)
  PROVE  [Booking!BookingNext]_(Booking!bookingVars)
<1> DEFINE stage == [u \in Tasks |-> StageOf(hauls[u])]
           h == hauls[t]
           g == hauls'[t]
<1>1. \A u \in Tasks : BookedOn[u] = Holder(hauls[u]) /\ stage[u] = StageOf(hauls[u])
  BY BookingOf
<1>2. \A u \in Tasks : BookedOn'[u] = Holder(hauls'[u]) /\ stage'[u] = StageOf(hauls'[u])
  BY DEF BookedOn, Holder, Active
<1>3. /\ BookedOn' = [BookedOn EXCEPT ![t] = Holder(g)]
      /\ stage' = [stage EXCEPT ![t] = StageOf(g)]
      /\ Holder(g) = Holder(h) => BookedOn' = BookedOn
      /\ StageOf(g) = StageOf(h) => stage' = stage
  <2>1. \A u \in Tasks \ {t} : hauls'[u] = hauls[u]
    BY DEF Advances
  <2>2. BookedOn' = [u \in Tasks |-> Holder(hauls'[u])]
    BY DEF BookedOn, Holder, Active
  <2>3. BookedOn = [u \in Tasks |-> Holder(hauls[u])]
    BY DEF BookedOn, Holder, Active
  <2>4. stage' = [u \in Tasks |-> StageOf(hauls'[u])]
    OBVIOUS
  <2>5. Holder(g) = Holder(h) => \A u \in Tasks : Holder(hauls'[u]) = Holder(hauls[u])
    BY <2>1
  <2>6. StageOf(g) = StageOf(h) => \A u \in Tasks : StageOf(hauls'[u]) = StageOf(hauls[u])
    BY <2>1
  <2> QED BY <2>1, <2>2, <2>3, <2>4, <2>5, <2>6
<1>4. CASE StageOf(g) = StageOf(h) /\ Holder(g) = Holder(h)
  <2>1. BookedOn' = BookedOn /\ stage' = stage
    BY <1>3, <1>4
  <2> QED BY <2>1 DEF Booking!bookingVars
<1>5. CASE Booked(h, g)
  <2>1. \A u \in Tasks : BookedOn[u] # Holder(g)
    <3> SUFFICES ASSUME NEW u \in Tasks, BookedOn[u] = Holder(g) PROVE FALSE
      OBVIOUS
    <3>1. Holder(hauls[u]) = Holder(g) /\ Holder(g) \in Robots
          /\ robots[Holder(g)].task = None
      BY <1>1, <1>5 DEF Booked
    <3>2. Active(u) /\ hauls[u].robot = Holder(g)
      BY <3>1, NoneIsNoId DEF Holder, Active
    <3> QED BY <3>1, <3>2, NoneIsNoId DEF CarefulState, BoundRobotHoldsTask
  <2>2. Booking!Book(t, Holder(g))
    BY <1>1, <1>3, <1>5, <2>1 DEF Booking!Book, Booked
  <2> QED BY <1>5, <2>2 DEF Booking!BookingNext, Booked
<1>6. CASE GivenBack(h, g)
  <2>1. Booking!GiveBack(t)
    BY <1>1, <1>3, <1>6 DEF Booking!GiveBack, GivenBack
  <2> QED BY <2>1 DEF Booking!BookingNext
<1>7. CASE Loaded(h, g)
  <2>1. Booking!Load(t)
    <3>1. BookedOn' = BookedOn
      BY <1>3, <1>7 DEF Loaded
    <3> QED BY <1>1, <1>3, <1>7, <3>1 DEF Booking!Load, Loaded
  <2> QED BY <2>1 DEF Booking!BookingNext
<1>8. CASE Ended(h, g)
  <2>1. Booking!Deliver(t) \/ Booking!Fail(t) \/ Booking!Cancel(t)
    BY <1>1, <1>3, <1>8
       DEF Booking!Deliver, Booking!Fail, Booking!Cancel, Booking!End, Ended
  <2> QED BY <2>1 DEF Booking!BookingNext
<1> QED BY <1>4, <1>5, <1>6, <1>7, <1>8 DEF Advances, Progress

(* ImplementsBooking for any number of robots and tasks: with careful      *)
(* callers, whatever heartbeats, sweeps and raised calls come in between,  *)
(* every step of the fleet is a step of the abstract booking or none.      *)
THEOREM FleetImplementsBooking == CarefulSpec => ImplementsBooking
<1>1. Init => Booking!BookingInit
  <2> SUFFICES ASSUME Init PROVE Booking!BookingInit
    OBVIOUS
  <2>1. \A t \in Tasks : hauls[t] = NewHaul
    BY DEF Init
  <2> QED BY <2>1 DEF Booking!BookingInit, BookedOn, Active, NewHaul, StageOf
<1>2. CarefulState /\ Monitored /\ [CarefulNext]_vars
        => [Booking!BookingNext]_(Booking!bookingVars)
  <2> SUFFICES ASSUME CarefulState, Monitored, [CarefulNext]_vars
               PROVE  [Booking!BookingNext]_(Booking!bookingVars)
    OBVIOUS
  <2>1. CASE UNCHANGED hauls
    BY <2>1 DEF Booking!bookingVars, BookedOn, Active
  <2> QED BY <2>1, CarefulAdvances, AdvanceIsBooking
<1> QED
  BY <1>1, <1>2, CarefulHolds, PTL
     DEF CarefulSpec, ImplementsBooking, Booking!BookingSpec

-----------------------------------------------------------------------------
(* No robot is lost to the fleet while it looks busy: BoundRobotHoldsTask  *)
(* from the robot's side.                                                  *)

(* A robot that is ASSIGNED or BUSY has a haul that is active on it and    *)
(* has got as far as the robot's state says: no call that raises half-way, *)
(* and no sweep, leaves it waiting for a haul that has ended or moved on.  *)
HeldRobotsWork ==
  \A r \in Robots :
    robots[r].state \in ActiveTaskStates =>
      /\ hauls[robots[r].task].robot = r
      /\ hauls[robots[r].task].wms =
           IF robots[r].state = "BUSY" THEN "IN_PROGRESS" ELSE "ASSIGNED"

(* An ASSIGNED or BUSY robot has a task, and the task holds a robot.       *)
LEMMA WorkIsActive ==
  ASSUME CarefulState, HeldRobotsWork, NEW r \in Robots,
         robots[r].state \in ActiveTaskStates
  PROVE  robots[r].task \in Tasks /\ Active(robots[r].task)
<1>1. robots[r].task \in Tasks
  BY HaulRobot DEF CarefulState, TypeOK, RegistryTypeOK, RobotRecord, Sound
<1> QED BY <1>1 DEF HeldRobotsWork, Active

(* A step keeps this if it puts no robot to work and leaves the hauls of   *)
(* the working ones where they are.                                        *)
LEMMA WorkKept ==
  ASSUME CarefulState, HeldRobotsWork,
         \A q \in Robots :
           robots'[q].state \in ActiveTaskStates =>
             /\ robots'[q] = robots[q]
             /\ hauls'[robots[q].task].robot = hauls[robots[q].task].robot
             /\ hauls'[robots[q].task].wms = hauls[robots[q].task].wms
  PROVE  HeldRobotsWork'
<1> SUFFICES ASSUME NEW q \in Robots, robots'[q].state \in ActiveTaskStates
             PROVE  /\ hauls'[robots'[q].task].robot = q
                    /\ hauls'[robots'[q].task].wms =
                         IF robots'[q].state = "BUSY" THEN "IN_PROGRESS" ELSE "ASSIGNED"
  BY DEF HeldRobotsWork
<1>1. robots'[q] = robots[q] /\ robots[q].state \in ActiveTaskStates
  OBVIOUS
<1> QED BY <1>1 DEF HeldRobotsWork

(* A haul whose robot no longer works may become anything.                 *)
LEMMA WorkEnds ==
  ASSUME CarefulState, HeldRobotsWork, NEW t \in Tasks,
         \A u \in Tasks \ {t} : hauls'[u] = hauls[u],
         \A q \in Robots :
           robots'[q].state \in ActiveTaskStates =>
             q # hauls[t].robot /\ robots'[q] = robots[q]
  PROVE  HeldRobotsWork'
<1>1. ASSUME NEW q \in Robots, robots'[q].state \in ActiveTaskStates
      PROVE  /\ robots'[q] = robots[q]
             /\ hauls'[robots[q].task] = hauls[robots[q].task]
  <2>1. q # hauls[t].robot /\ robots'[q] = robots[q]
    BY <1>1
  <2>2. robots[q].task \in Tasks /\ hauls[robots[q].task].robot = q
    BY <1>1, <2>1, WorkIsActive DEF HeldRobotsWork
  <2> QED BY <2>1, <2>2
<1> QED BY <1>1, WorkKept

(* _release_robot: the robot works no longer, the others as before.        *)
LEMMA ReleasedWork ==
  ASSUME NEW reg \in [Robots -> RobotRecord], NEW r \in Robots \cup {None}
  PROVE  \A q \in Robots :
           Released(reg, r)[q].state \in ActiveTaskStates =>
             q # r /\ Released(reg, r)[q] = reg[q]
BY NoneIsNoId DEF Released, Moved, CanMove, AllowedTransitions, ActiveTaskStates

(* mark_offline puts no robot to work.                                     *)
LEMMA OfflinedWork ==
  ASSUME NEW reg \in [Robots -> RobotRecord], NEW r \in Robots
  PROVE  \A q \in Robots :
           Offlined(reg, r)[q].state \in ActiveTaskStates =>
             Offlined(reg, r)[q] = reg[q]
BY DEF Offlined, Moved, ActiveTaskStates

(* Nor do the registry's own calls.                                        *)
LEMMA CallWork ==
  ASSUME TypeOK, NEW r \in Robots, RegistryCall(r)
  PROVE  /\ UNCHANGED hauls
         /\ \A q \in Robots :
              robots'[q].state \in ActiveTaskStates => robots'[q] = robots[q]
<1> USE DEF TypeOK, RegistryTypeOK, RobotRecord, ActiveTaskStates
<1> DEFINE SameWork == \A q \in Robots :
             robots'[q].state \in ActiveTaskStates => robots'[q] = robots[q]
<1>1. ASSUME NEW recover \in BOOLEAN, RecordHeartbeat(r, recover) PROVE SameWork
  BY <1>1 DEF RecordHeartbeat
<1>2. MarkOffline(r) \/ MarkError(r) \/ RecoverToIdle(r) => SameWork
  BY DEF MarkOffline, MarkError, RecoverToIdle, Transition, Moved
<1>3. HeartbeatExpires(r) => SameWork
  BY DEF HeartbeatExpires
<1> HIDE DEF SameWork
<1>4. SameWork /\ UNCHANGED hauls
  BY <1>1, <1>2, <1>3 DEF RegistryCall
<1> QED BY <1>4 DEF SameWork

(* assign puts an idle robot to work on a haul that held none.             *)
LEMMA WorkAssign ==
  ASSUME CarefulState, HeldRobotsWork, NEW t \in Tasks,
         (\E r \in Robots : AssignAccepted(t, r)) \/ AssignRejected(t)
  PROVE  HeldRobotsWork'
<1> USE DEF CarefulState
<1>1. ASSUME NEW r \in Robots, AssignAccepted(t, r) PROVE HeldRobotsWork'
  <2>1. /\ robots' = [robots EXCEPT ![r] = [state |-> "ASSIGNED", task |-> t]]
        /\ ~Active(t)
    BY <1>1 DEF AssignAccepted, AssignTask, Transition, Moved, Assignable, Active
  <2>2. /\ hauls'[t].robot = r /\ hauls'[t].wms = "ASSIGNED"
        /\ \A u \in Tasks \ {t} : hauls'[u] = hauls[u]
    <3>1. Reset(t) \in Haul
      BY DEF TypeOK, Reset, Haul, Phase
    <3> QED BY <1>1, <3>1 DEF AssignAccepted, ReplaceSnapshot, TypeOK, Haul
  <2> SUFFICES ASSUME NEW q \in Robots, robots'[q].state \in ActiveTaskStates
               PROVE  /\ hauls'[robots'[q].task].robot = q
                      /\ hauls'[robots'[q].task].wms =
                           IF robots'[q].state = "BUSY" THEN "IN_PROGRESS"
                           ELSE "ASSIGNED"
    BY DEF HeldRobotsWork
  <2>3. CASE q = r
    BY <2>1, <2>2, <2>3, HaulRobot
  <2>4. CASE q # r
    <3>1. robots'[q] = robots[q]
      BY <2>1, <2>4, HaulRobot
    <3>2. robots[q].task \in Tasks \ {t}
      BY <2>1, <3>1, WorkIsActive
    <3> QED BY <2>2, <3>1, <3>2 DEF HeldRobotsWork
  <2> QED BY <2>3, <2>4
<1>2. CASE AssignRejected(t)
  <2>1. hauls[t] \in Haul
    BY DEF TypeOK
  <2>2. Reset(t).wms = hauls[t].wms /\ Reset(t).robot = hauls[t].robot
    BY <2>1 DEF Reset, Haul
  <2>3. \A u \in Tasks : hauls'[u].wms = hauls[u].wms /\ hauls'[u].robot = hauls[u].robot
    BY <1>2, <2>2 DEF AssignRejected, ReplaceSnapshot, TypeOK
  <2>4. UNCHANGED robots
    BY <1>2 DEF AssignRejected
  <2> QED BY <2>3, <2>4, WorkIsActive, WorkKept
<1> QED BY <1>1, <1>2

(* start: the robot is ASSIGNED with its haul and becomes BUSY with it,    *)
(* or it is out of service and does not work.                              *)
LEMMA WorkStart ==
  ASSUME CarefulState, HeldRobotsWork, NEW t \in Tasks, Start(t)
  PROVE  HeldRobotsWork'
<1> USE DEF CarefulState
<1> DEFINE r == hauls[t].robot
<1>1. hauls[t].wms = "ASSIGNED" /\ hauls[t].phase = "IDLE" /\ hauls[t] \in Haul
  BY PhasesOfStatus
     DEF Start, WmsMay, AllowedWmsTransitions, PhasesFitStatus, TypeOK
<1>2. r \in Robots /\ robots[r].task = t
  BY <1>1, HaulRobot DEF Start, BoundRobotHoldsTask, Active
<1>3. /\ hauls'[t].wms = "IN_PROGRESS" /\ hauls'[t].robot = r
      /\ \A u \in Tasks \ {t} : hauls'[u] = hauls[u]
  BY <1>1 DEF Start, ReplaceSnapshot, TypeOK, Haul
<1>4. \/ robots[r].state = "ASSIGNED"
         /\ robots' = [robots EXCEPT ![r] = [state |-> "BUSY", task |-> t]]
      \/ robots[r].state # "ASSIGNED" /\ UNCHANGED robots
  <2>1. PhaseMay(t, "NAVIGATING_TO_PICKUP")
    BY <1>1 DEF PhaseMay, AllowedExecutionTransitions
  <2> QED BY <1>2, <2>1
             DEF Start, MarkBusy, Transition, Moved
<1>5. robots[r].state # "BUSY"
  BY <1>1, <1>2 DEF HeldRobotsWork, ActiveTaskStates
<1> SUFFICES ASSUME NEW q \in Robots, robots'[q].state \in ActiveTaskStates
             PROVE  /\ hauls'[robots'[q].task].robot = q
                    /\ hauls'[robots'[q].task].wms =
                         IF robots'[q].state = "BUSY" THEN "IN_PROGRESS" ELSE "ASSIGNED"
  BY DEF HeldRobotsWork
<1>6. CASE q = r
  <2>1. robots' = [robots EXCEPT ![r] = [state |-> "BUSY", task |-> t]]
    BY <1>4, <1>5, <1>6 DEF ActiveTaskStates
  <2>2. robots'[q].state = "BUSY" /\ robots'[q].task = t
    BY <1>6, <2>1, HaulRobot
  <2> QED BY <1>3, <1>6, <2>2
<1>7. CASE q # r
  <2>1. robots'[q] = robots[q]
    BY <1>2, <1>4, <1>7, HaulRobot
  <2>2. robots[q].task \in Tasks /\ hauls[robots[q].task].robot = q
    BY <2>1, WorkIsActive DEF HeldRobotsWork
  <2>3. hauls'[robots[q].task] = hauls[robots[q].task]
    BY <1>3, <1>7, <2>2
  <2> QED BY <2>1, <2>3 DEF HeldRobotsWork
<1> QED BY <1>6, <1>7

(* The steps to dropoff: on its way the robot is BUSY already.             *)
LEMMA WorkDrive ==
  ASSUME CarefulState, HeldRobotsWork, NEW t \in Tasks, Drive(t)
  PROVE  HeldRobotsWork'
<1> USE DEF CarefulState
<1>1. hauls[t] \in Haul /\ (hauls[t].phase \in Working => hauls[t].wms = "IN_PROGRESS")
  BY DEF TypeOK, HaulInv, WorkingIsInProgress
<1>2. CASE ArriveAtPickup(t) \/ ArriveAtDropoff(t)
  <2>1. /\ hauls[t].phase \in Working /\ hauls[t].robot \in Robots
        /\ robots[hauls[t].robot].state \in ActiveTaskStates
    BY <1>2, HaulRobot
       DEF ArriveAtPickup, ArriveAtDropoff, Arrive, Working, Ready, HasActiveTask
  <2>2. robots[hauls[t].robot].task = t
    BY <1>1, <2>1 DEF BoundRobotHoldsTask, Active
  <2>3. robots[hauls[t].robot].state # "ASSIGNED"
    BY <1>1, <2>1, <2>2 DEF HeldRobotsWork
  <2>4. UNCHANGED robots
    BY <1>2, <2>3 DEF ArriveAtPickup, ArriveAtDropoff, Arrive
  <2>5. \A u \in Tasks : hauls'[u].wms = hauls[u].wms /\ hauls'[u].robot = hauls[u].robot
    BY <1>1, <1>2
       DEF ArriveAtPickup, ArriveAtDropoff, Arrive, ReplaceSnapshot, TypeOK, Haul
  <2> QED BY <2>4, <2>5, WorkIsActive, WorkKept
<1>3. CASE CompletePickup(t)
  <2>1. \A u \in Tasks : hauls'[u].wms = hauls[u].wms /\ hauls'[u].robot = hauls[u].robot
    BY <1>1, <1>3 DEF CompletePickup, ReplaceSnapshot, TypeOK, Haul
  <2>2. UNCHANGED robots
    BY <1>3 DEF CompletePickup
  <2> QED BY <2>1, <2>2, WorkIsActive, WorkKept
<1>4. CASE CompleteDropoff(t)
  <2>1. /\ \A u \in Tasks \ {t} : hauls'[u] = hauls[u]
        /\ robots' = Released(robots, hauls[t].robot)
    BY <1>4 DEF CompleteDropoff, ReplaceSnapshot, TypeOK
  <2> QED BY <2>1, HaulRobot, ReleasedWork, WorkEnds
<1>5. CASE NavigationFails(t)
  <2>1. Active(t) /\ WmsMay(t, "FAILED")
    BY <1>1, <1>5
       DEF NavigationFails, Working, Active, WmsMay, AllowedWmsTransitions
  <2>2. /\ \A u \in Tasks \ {t} : hauls'[u] = hauls[u]
        /\ robots' = Released(robots, hauls[t].robot)
    BY <1>5, <2>1 DEF NavigationFails, Fail, FailEffect, ReplaceSnapshot, TypeOK
  <2> QED BY <2>2, HaulRobot, ReleasedWork, WorkEnds
<1> QED BY <1>2, <1>3, <1>4, <1>5, WorkStart DEF Drive

(* cancel, fail and requeue release the robot of the haul they take.       *)
LEMMA WorkReleased ==
  ASSUME CarefulState, HeldRobotsWork, NEW t \in Tasks,
         Cancel(t) \/ (Active(t) /\ Fail(t)) \/ (Active(t) /\ Requeue(t))
  PROVE  HeldRobotsWork'
<1> USE DEF CarefulState
<1>1. /\ \A u \in Tasks \ {t} : hauls'[u] = hauls[u]
      /\ robots' = Released(robots, hauls[t].robot)
  <2>1. CASE Cancel(t)
    BY <2>1 DEF Cancel, ReplaceSnapshot, TypeOK
  <2>2. CASE Active(t) /\ Fail(t)
    <3>1. WmsMay(t, "FAILED")
      BY <2>2 DEF Active, WmsMay, AllowedWmsTransitions
    <3> QED BY <2>2, <3>1 DEF Fail, FailEffect, ReplaceSnapshot, TypeOK
  <2>3. CASE Active(t) /\ Requeue(t)
    <3>1. WmsMay(t, "REQUEUED")
      BY <2>3 DEF Active, WmsMay, AllowedWmsTransitions
    <3> QED BY <2>3, <3>1
               DEF Requeue, RequeueAccepted, RequeueRejected, ReplaceSnapshot, TypeOK
  <2> QED BY <2>1, <2>2, <2>3
<1> QED BY <1>1, HaulRobot, ReleasedWork, WorkEnds

(* One robot's turn of a sweep.                                            *)
LEMMA WorkSweep ==
  ASSUME CarefulState, HeldRobotsWork, NEW r \in Robots, Sweep(r)
  PROVE  HeldRobotsWork'
<1> USE DEF CarefulState
<1>1. CASE SweepOffline(r)
  <2>1. UNCHANGED hauls /\ robots' = Offlined(robots, r)
    BY <1>1 DEF SweepOffline
  <2>2. \A q \in Robots :
          robots'[q].state \in ActiveTaskStates => robots'[q] = robots[q]
    BY <2>1, OfflinedWork DEF TypeOK, RegistryTypeOK
  <2> QED BY <2>1, <2>2, WorkKept
<1>2. CASE SweepRequeue(r)
  <2> DEFINE mine == visit[r].task
             freed == Released(robots, hauls[mine].robot)
  <2>1. mine \in Tasks /\ RequeueAccepted(mine)
    BY <1>2, TrackedAreTasks DEF SweepRequeue, Revocable
  <2>2. \A u \in Tasks \ {mine} : hauls'[u] = hauls[u]
    BY <2>1 DEF RequeueAccepted, ReplaceSnapshot, TypeOK
  <2>3. freed \in [Robots -> RobotRecord] /\ robots' = Offlined(freed, r)
    BY <1>2, <2>1, HaulRobot, ReleasedType DEF SweepRequeue
  <2>4. \A q \in Robots :
          freed[q].state \in ActiveTaskStates =>
            q # hauls[mine].robot /\ freed[q] = robots[q]
    BY <2>1, HaulRobot, ReleasedWork
  <2>5. \A q \in Robots :
          robots'[q].state \in ActiveTaskStates => robots'[q] = freed[q]
    <3> HIDE DEF freed
    <3> QED BY <2>3, OfflinedWork
  <2>6. \A q \in Robots :
          robots'[q].state \in ActiveTaskStates =>
            q # hauls[mine].robot /\ robots'[q] = robots[q]
    BY <2>4, <2>5
  <2> HIDE DEF mine, freed
  <2> QED BY <2>1, <2>2, <2>6, WorkEnds
<1>3. CASE SweepAborts(r)
  <2>1. UNCHANGED robots
    BY <1>3 DEF SweepAborts
  <2>2. \A u \in Tasks : hauls'[u].wms = hauls[u].wms /\ hauls'[u].robot = hauls[u].robot
    <3>1. visit[r].task \in Tasks
      BY <1>3, TrackedAreTasks DEF SweepAborts, Revocable
    <3> QED BY <1>3, <3>1
               DEF SweepAborts, RequeueRejected, ReplaceSnapshot, TypeOK, Haul
  <2> QED BY <2>1, <2>2, WorkIsActive, WorkKept
<1> QED BY <1>1, <1>2, <1>3 DEF Sweep

(* Every step of careful callers keeps it.                                 *)
LEMMA WorkStep ==
  ASSUME CarefulState, HeldRobotsWork, [CarefulNext]_vars
  PROVE  HeldRobotsWork'
<1>1. CASE UNCHANGED <<robots, hauls>>
  BY <1>1, WorkKept
<1>2. ASSUME NEW r \in Robots, RegistryCall(r) PROVE HeldRobotsWork'
  BY <1>2, CallWork, WorkKept DEF CarefulState
<1>3. ASSUME NEW t \in Tasks, Assign(t) \/ Retry(t) PROVE HeldRobotsWork'
  BY <1>1, <1>3, WorkAssign DEF Assign, Retry, RetryAssigns, RetryAborts
<1> QED
  BY <1>1, <1>2, <1>3, WorkDrive, WorkReleased, WorkSweep
     DEF CarefulNext, Monitor, SweepBegin, RetryBegin, vars

(* HeldRobotsWork for any number of robots and tasks: with careful callers *)
(* a robot that stays ASSIGNED or BUSY does so for a haul that is under    *)
(* way on it.  The other way a robot is lost, OFFLINE or ERROR with a task *)
(* (Stranded), is the only one.                                            *)
THEOREM HeldRobotsAreAtWork == CarefulSpec => []HeldRobotsWork
<1>1. Init => HeldRobotsWork
  BY DEF Init, RegistryInit, HeldRobotsWork, ActiveTaskStates
<1>2. CarefulState /\ HeldRobotsWork /\ [CarefulNext]_vars => HeldRobotsWork'
  BY WorkStep
<1> QED BY <1>1, <1>2, CarefulHolds, PTL DEF CarefulSpec

-----------------------------------------------------------------------------
(* How far the documented promises that HaulFleetDocs refutes do hold: the *)
(* circumstances in which the monitor breaks them, and no other.           *)

(* A sweep that stops early does so at a robot whose haul is at the pickup *)
(* (phase PICKUP, from which requeue is refused) or holds no robot any     *)
(* more; never over a haul on its way to pickup, nor over a loaded one.    *)
AbortsAtPickupOrStale ==
  [][ \A r \in Robots :
        SweepAborts(r) =>
          \/ hauls[visit[r].task].phase = "PICKUP"
          \/ ~Active(visit[r].task) ]_vars

(* reassign_requeued gives up with an idle robot at hand only over a haul  *)
(* whose phase is IDLE already: one that an earlier try left without robot.*)
RetryFailsAfterRejection ==
  [][ \A t \in Tasks :
        RetryAborts(t) /\ (\E r \in Robots : CanAcceptTask(r)) =>
          hauls[t].phase = "IDLE" ]_vars

(* Such a haul is never assigned: it waits for a cancel, or for a sweep    *)
(* that works from an old record of it and aborts, writing its phase back. *)
StuckHaulsWait ==
  [][ \A t \in Tasks :
        hauls[t].wms = "REQUEUED" /\ hauls[t].phase = "IDLE" =>
          \/ hauls'[t] = hauls[t]
          \/ Cancel(t)
          \/ \E r \in Robots : SweepAborts(r) /\ visit[r].task = t ]_vars

(* A sweep takes a haul from its own robot, unless the visited robot was   *)
(* in ERROR: no ASSIGNED or BUSY robot's record costs another robot's haul.*)
OnlyErrorRobotsTakeOthers ==
  [][ \A r \in Robots :
        SweepRequeue(r) =>
          visit[r].state = "ERROR" \/ hauls[visit[r].task].robot = r ]_vars

(* What the two loops work from stays good for as much as these need: a    *)
(* record frozen ASSIGNED or BUSY names a haul that is its robot's as long *)
(* as it is active, and a haul still to be retried is still REQUEUED.      *)
FrozenRecords ==
  /\ \A r \in Robots :
       visit[r] # None =>
         /\ visit[r].state # "OFFLINE"
         /\ visit[r].state = "IDLE" => visit[r].task = None
         /\ /\ visit[r].state \in ActiveTaskStates
            /\ visit[r].task \in Tasks /\ Active(visit[r].task)
            => hauls[visit[r].task].robot = r
  /\ \A t \in retry : hauls[t].wms = "REQUEUED"

(* A step of a sweep keeps this if it makes no haul active and moves none. *)
LEMMA FrozenKept ==
  ASSUME FrozenRecords, retry' = {},
         \A r \in Robots : visit'[r] \in {visit[r], None},
         \A t \in Tasks :
           Active(t)' => Active(t) /\ hauls'[t].robot = hauls[t].robot
  PROVE  FrozenRecords'
BY DEF FrozenRecords, Active

(* Outside the loops there is nothing to keep.                             *)
LEMMA FrozenIdle ==
  ASSUME visit' = NoVisit, retry' = {}
  PROVE  FrozenRecords'
BY DEF FrozenRecords, NoVisit

(* One robot's turn of a sweep.                                            *)
LEMMA FrozenSweep ==
  ASSUME CarefulState, Monitored, FrozenRecords, NEW r \in Robots, Sweep(r)
  PROVE  FrozenRecords'
<1> USE DEF CarefulState
<1>1. retry' = {} /\ \A q \in Robots : visit'[q] \in {visit[q], None}
  BY DEF Sweep, SweepOffline, SweepRequeue, SweepAborts, Monitored, NoVisit, TypeOK
<1>2. CASE SweepOffline(r)
  BY <1>1, <1>2, FrozenKept DEF SweepOffline, Active
<1>3. CASE SweepRequeue(r)
  <2> DEFINE mine == visit[r].task
  <2>1. mine \in Tasks /\ RequeueAccepted(mine)
    BY <1>3, TrackedAreTasks DEF SweepRequeue, Revocable
  <2>2. (\A t \in Tasks \ {mine} : hauls'[t] = hauls[t]) /\ hauls'[mine].wms = "REQUEUED"
    <3>1. hauls[mine] \in Haul
      BY <2>1 DEF TypeOK
    <3> QED BY <2>1, <3>1 DEF RequeueAccepted, ReplaceSnapshot, TypeOK, Haul
  <2>3. ASSUME NEW t \in Tasks, Active(t)'
        PROVE  Active(t) /\ hauls'[t].robot = hauls[t].robot
    <3>1. t # mine
      BY <2>2, <2>3 DEF Active
    <3>2. hauls'[t] = hauls[t]
      BY <2>2, <3>1
    <3> QED BY <2>3, <3>2 DEF Active
  <2> QED BY <1>1, <2>3, FrozenKept
<1>4. CASE SweepAborts(r)
  BY <1>1, <1>4, FrozenIdle DEF SweepAborts
<1> QED BY <1>2, <1>3, <1>4 DEF Sweep

(* Every step of careful callers keeps it.                                 *)
LEMMA FrozenStep ==
  ASSUME CarefulState, Monitored, HeldRobotsWork, FrozenRecords, [CarefulNext]_vars
  PROVE  FrozenRecords'
<1> USE DEF CarefulState
<1>1. CASE UNCHANGED vars
  BY <1>1 DEF vars, FrozenRecords, Active
<1>2. CASE Quiet /\ UNCHANGED <<visit, retry>>
  BY <1>2, FrozenIdle DEF Quiet
<1>3. CASE SweepBegin
  <2>1. UNCHANGED hauls /\ retry' = {}
    BY <1>3 DEF SweepBegin, Quiet
  <2>2. \A r \in Robots :
          visit'[r] # None => visit'[r] = robots[r] /\ robots[r].state # "OFFLINE"
    BY <1>3 DEF SweepBegin
  <2> QED BY <2>1, <2>2 DEF FrozenRecords, HeldRobotsWork, Sound, DispatchableStates, Active
<1>4. CASE RetryBegin
  <2>1. /\ UNCHANGED hauls /\ visit' = NoVisit
        /\ retry' \subseteq {t \in Tasks : hauls[t].wms = "REQUEUED"}
    BY <1>4, TrackedAreTasks DEF RetryBegin, Quiet
  <2> QED BY <2>1 DEF FrozenRecords, NoVisit
<1>5. ASSUME NEW t \in Tasks, Retry(t) PROVE FrozenRecords'
  <2>1. visit' = NoVisit
    BY <1>5 DEF Retry, RetryAssigns, RetryAborts, Monitored
  <2>2. CASE RetryAborts(t)
    BY <2>1, <2>2, FrozenIdle DEF RetryAborts
  <2>3. CASE RetryAssigns(t)
    <3>1. retry' = retry \ {t} /\ \A u \in retry' : u \in Tasks /\ hauls'[u] = hauls[u]
      BY <2>3 DEF RetryAssigns, AssignAccepted, ReplaceSnapshot, TypeOK
    <3> QED BY <2>1, <3>1 DEF FrozenRecords, NoVisit
  <2> QED BY <1>5, <2>2, <2>3 DEF Retry
<1>6. ASSUME NEW t \in Tasks,
             Assign(t) \/ Drive(t) \/ Cancel(t) \/ Fail(t) \/ Requeue(t)
      PROVE  Quiet /\ UNCHANGED <<visit, retry>>
  BY <1>6 DEF Assign, Drive, Start, ArriveAtPickup, ArriveAtDropoff, Arrive,
              CompletePickup, CompleteDropoff, NavigationFails, Fail, Cancel, Requeue
<1> QED
  BY <1>1, <1>2, <1>3, <1>4, <1>5, <1>6, FrozenSweep
     DEF CarefulNext, Monitor, RegistryCall

(* All that careful callers keep.                                          *)
LEMMA WorkingFleet ==
  CarefulSpec => [](CarefulState /\ Monitored /\ HeldRobotsWork /\ FrozenRecords)
<1>1. Init => FrozenRecords
  BY DEF Init, FrozenRecords, NoVisit
<1>2. CarefulState /\ Monitored /\ HeldRobotsWork /\ FrozenRecords /\ [CarefulNext]_vars
        => FrozenRecords'
  BY FrozenStep
<1> QED BY <1>1, <1>2, CarefulHolds, HeldRobotsAreAtWork, PTL DEF CarefulSpec

(* Where a sweep stops early, for any number of robots and tasks.          *)
THEOREM SweepsStopAtPickup == CarefulSpec => AbortsAtPickupOrStale
<1>1. ASSUME CarefulState, NEW r \in Robots, SweepAborts(r), Active(visit[r].task)
      PROVE  hauls[visit[r].task].phase = "PICKUP"
  <2> USE DEF CarefulState
  <2> DEFINE mine == visit[r].task
  <2>1. /\ mine \in Tasks /\ ~hauls[mine].picked
        /\ ~(PhaseMay(mine, "REQUEUED") /\ WmsMay(mine, "REQUEUED"))
    BY <1>1, TrackedAreTasks DEF SweepAborts, Revocable, RequeueRejected
  <2>2. WmsMay(mine, "REQUEUED")
    BY <1>1 DEF Active, WmsMay, AllowedWmsTransitions
  <2>3. hauls[mine].phase \in {"IDLE", "NAVIGATING_TO_PICKUP", "PICKUP"}
    BY <1>1, <2>1, PhasesOfStatus
       DEF Active, PhasesFitStatus, Working, HaulInv, LoadFollowsPhase
  <2> QED BY <2>1, <2>2, <2>3 DEF PhaseMay, AllowedExecutionTransitions
<1>2. CarefulState /\ [CarefulNext]_vars =>
        [ \A r \in Robots :
        SweepAborts(r) =>
          \/ hauls[visit[r].task].phase = "PICKUP"
          \/ ~Active(visit[r].task) ]_vars
  BY <1>1
<1> QED BY <1>2, CarefulHolds, PTL DEF CarefulSpec, AbortsAtPickupOrStale

(* When a reassignment is refused although a robot is idle.                *)
THEOREM RetriesFailAfterRejection == CarefulSpec => RetryFailsAfterRejection
<1>1. ASSUME CarefulState, FrozenRecords, NEW t \in Tasks, RetryAborts(t),
             NEW r \in Robots, CanAcceptTask(r)
      PROVE  hauls[t].phase = "IDLE"
  <2> USE DEF CarefulState
  <2>1. hauls[t].wms = "REQUEUED"
    BY <1>1 DEF RetryAborts, FrozenRecords
  <2>2. assignments[t].status = "released"
    <3>1. assignments[t].status \in AssignmentOf("REQUEUED")
      BY <1>1, <2>1 DEF HaulInv, LedgersAgree
    <3> QED BY <3>1 DEF AssignmentOf
  <2>3. Dispatchable(t, r)
    BY <1>1, <2>2 DEF Dispatchable, ActiveAssignmentStatus
  <2>4. ~PhaseMay(t, "IDLE")
    BY <1>1, <2>1, <2>3 DEF RetryAborts, AssignRejected, Assignable
  <2> QED BY <1>1, <2>1, <2>4, PhasesOfStatus
             DEF PhasesFitStatus, PhaseMay, AllowedExecutionTransitions
<1>2. CarefulState /\ FrozenRecords /\ [CarefulNext]_vars =>
        [ \A t \in Tasks :
        RetryAborts(t) /\ (\E r \in Robots : CanAcceptTask(r)) =>
          hauls[t].phase = "IDLE" ]_vars
  BY <1>1
<1> QED BY <1>2, WorkingFleet, PTL DEF CarefulSpec, RetryFailsAfterRejection

(* What becomes of a haul no retry can assign: only Cancel and an aborting *)
(* sweep touch it, every other call is refused or is about another haul.   *)
THEOREM StuckHaulsStay == CarefulSpec => StuckHaulsWait
<1> DEFINE Stuck(t) == hauls[t].wms = "REQUEUED" /\ hauls[t].phase = "IDLE"
           Stays(t) == \/ hauls'[t] = hauls[t]
                       \/ Cancel(t)
                       \/ \E r \in Robots : SweepAborts(r) /\ visit[r].task = t
<1>1. ASSUME CarefulState, Monitored, NEW t \in Tasks, Stuck(t), [CarefulNext]_vars
      PROVE  Stays(t)
  <2> USE DEF CarefulState
  <2>1. hauls[t].robot = None /\ ~Active(t) /\ ~Assignable(t)
    BY <1>1 DEF HaulInv, LedgersAgree, Active, Assignable, PhaseMay,
                AllowedExecutionTransitions
  <2>2. ASSUME NEW u \in Tasks, Assign(u) \/ Retry(u) PROVE hauls'[t] = hauls[t]
    <3>1. CASE u = t
      BY <2>1, <2>2, <3>1
         DEF Assign, Retry, RetryAssigns, RetryAborts, AssignAccepted, AssignRejected
    <3>2. CASE u # t
      BY <1>1, <2>2, <3>2, AssignAdvances
         DEF Assign, Retry, RetryAssigns, RetryAborts, Advances
    <3> QED BY <3>1, <3>2
  <2>3. ASSUME NEW u \in Tasks, Drive(u) PROVE hauls'[t] = hauls[t]
    <3>1. u # t
      BY <1>1, <2>1, <2>3
         DEF Drive, Start, ArriveAtPickup, ArriveAtDropoff, Arrive, CompletePickup,
             CompleteDropoff, NavigationFails
    <3> QED BY <1>1, <2>3, <3>1, DriveAdvances DEF Advances
  <2>4. ASSUME NEW u \in Tasks, Active(u), Fail(u) \/ Requeue(u)
        PROVE  hauls'[t] = hauls[t]
    BY <1>1, <2>1, <2>4, FailAdvances, RequeueAdvances DEF Fail, Requeue, Active, Advances
  <2>5. ASSUME NEW u \in Tasks, Cancel(u) PROVE Stays(t)
    BY <1>1, <2>5, CancelAdvances DEF Advances
  <2>6. ASSUME NEW r \in Robots, Sweep(r) PROVE Stays(t)
    <3>1. CASE SweepOffline(r)
      BY <3>1 DEF SweepOffline
    <3>2. CASE SweepRequeue(r)
      <4>1. visit[r].task \in Tasks /\ RequeueAccepted(visit[r].task)
        BY <3>2, TrackedAreTasks DEF SweepRequeue, Revocable
      <4>2. visit[r].task # t
        BY <1>1, <4>1 DEF RequeueAccepted, WmsMay, AllowedWmsTransitions
      <4> QED BY <1>1, <4>1, <4>2 DEF RequeueAccepted, ReplaceSnapshot, TypeOK
    <3>3. CASE SweepAborts(r)
      <4>1. visit[r].task # t => hauls'[t] = hauls[t]
        BY <1>1, <3>3 DEF SweepAborts, RequeueRejected, ReplaceSnapshot, TypeOK
      <4> QED BY <3>3, <4>1
    <3> QED BY <2>6, <3>1, <3>2, <3>3 DEF Sweep
  <2>7. UNCHANGED hauls => Stays(t)
    OBVIOUS
  <2> HIDE DEF Stays
  <2>8. hauls'[t] = hauls[t] => Stays(t)
    BY DEF Stays
  <2> QED
    BY <1>1, <2>2, <2>3, <2>4, <2>5, <2>6, <2>7, <2>8
       DEF CarefulNext, Monitor, SweepBegin, RetryBegin, RegistryCall, vars
<1>2. CarefulState /\ Monitored /\ [CarefulNext]_vars =>
        [ \A t \in Tasks :
        hauls[t].wms = "REQUEUED" /\ hauls[t].phase = "IDLE" =>
          \/ hauls'[t] = hauls[t]
          \/ Cancel(t)
          \/ \E r \in Robots : SweepAborts(r) /\ visit[r].task = t ]_vars
  BY <1>1
<1> QED BY <1>2, CarefulHolds, PTL DEF CarefulSpec, StuckHaulsWait

(* Whose haul a sweep takes, for any number of robots and tasks.           *)
THEOREM SweepsTakeTheirOwn == CarefulSpec => OnlyErrorRobotsTakeOthers
<1>1. ASSUME CarefulState, FrozenRecords, NEW r \in Robots, SweepRequeue(r),
             visit[r].state # "ERROR"
      PROVE  hauls[visit[r].task].robot = r
  <2> USE DEF CarefulState
  <2>1. /\ visit[r] \in RobotRecord /\ visit[r].task \in Tasks
        /\ RequeueAccepted(visit[r].task)
    BY <1>1, TrackedAreTasks DEF SweepRequeue, Revocable, TypeOK
  <2>2. visit[r].state \in ActiveTaskStates
    BY <1>1, <2>1, NoneIsNoId
       DEF FrozenRecords, SweepRequeue, RobotRecord, RobotState, ActiveTaskStates
  <2>3. Active(visit[r].task)
    BY <2>1 DEF RequeueAccepted, WmsMay, AllowedWmsTransitions, Active
  <2> QED BY <1>1, <2>1, <2>2, <2>3 DEF FrozenRecords, SweepRequeue
<1>2. CarefulState /\ FrozenRecords /\ [CarefulNext]_vars =>
        [ \A r \in Robots :
        SweepRequeue(r) =>
          visit[r].state = "ERROR" \/ hauls[visit[r].task].robot = r ]_vars
  BY <1>1
<1> QED BY <1>2, WorkingFleet, PTL DEF CarefulSpec, OnlyErrorRobotsTakeOthers

=============================================================================
