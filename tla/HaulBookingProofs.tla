------------------------- MODULE HaulBookingProofs -------------------------
(* Theorems about HaulFleet: the registry keeps to its rules, and it and   *)
(* the hauls agree on who holds whom.                                      *)
EXTENDS HaulFleetProofs

-----------------------------------------------------------------------------
(* The registry: an IDLE robot is unbound, an ASSIGNED or BUSY one bound.   *)

Sound(reg) ==
  \A r \in Robots :
    /\ reg[r].state \in DispatchableStates => reg[r].task = None
    /\ reg[r].state \in ActiveTaskStates => reg[r].task # None

(* A transition keeps the registry sound if the task it writes fits.       *)
LEMMA MovedSound ==
  ASSUME NEW reg \in [Robots -> RobotRecord], Sound(reg), NEW r \in Robots,
         NEW target, NEW task,
         target \in DispatchableStates => task = None,
         target \in ActiveTaskStates => task # None
  PROVE  Sound(Moved(reg, r, target, task))
BY DEF Sound, Moved, RobotRecord

(* _release_robot keeps it sound.                                          *)
LEMMA ReleasedSound ==
  ASSUME NEW reg \in [Robots -> RobotRecord], Sound(reg),
         NEW r \in Robots \cup {None}
  PROVE  Sound(Released(reg, r))
BY MovedSound DEF Released, ActiveTaskStates

(* mark_offline keeps it sound.                                            *)
LEMMA OfflinedSound ==
  ASSUME NEW reg \in [Robots -> RobotRecord], Sound(reg), NEW r \in Robots
  PROVE  Sound(Offlined(reg, r))
BY MovedSound DEF Offlined, DispatchableStates, ActiveTaskStates

(* mark_busy keeps it sound: it refuses a robot without a task.            *)
LEMMA MarkBusySound ==
  ASSUME robots \in [Robots -> RobotRecord], Sound(robots),
         NEW r \in Robots, MarkBusy(r)
  PROVE  Sound(robots')
BY MovedSound DEF MarkBusy, Transition, DispatchableStates

(* assign_task keeps it sound.                                             *)
LEMMA AssignSound ==
  ASSUME TypeOK, Sound(robots), NEW t \in Tasks,
         (\E r \in Robots : AssignAccepted(t, r)) \/ AssignRejected(t)
  PROVE  Sound(robots')
<1>1. ASSUME NEW r \in Robots, AssignAccepted(t, r) PROVE Sound(robots')
  BY <1>1, MovedSound, NoneIsNoId
     DEF TypeOK, RegistryTypeOK, AssignAccepted, AssignTask, Transition,
         DispatchableStates
<1> QED BY <1>1 DEF AssignRejected, Sound

(* The robot of a haul is a robot or None.                                 *)
LEMMA HaulRobot ==
  ASSUME TypeOK, NEW t \in Tasks
  PROVE  /\ hauls[t].robot \in Robots \cup {None}
         /\ robots \in [Robots -> RobotRecord]
BY DEF TypeOK, RegistryTypeOK, Haul

(* Every step keeps it sound.                                              *)
LEMMA SoundStep ==
  ASSUME TypeOK, Sound(robots), [Next]_vars
  PROVE  Sound(robots')
<1> USE HaulRobot
<1>1. CASE UNCHANGED robots
  BY <1>1 DEF Sound
<1>2. ASSUME NEW r \in Robots, RegistryCall(r) PROVE Sound(robots')
  <2>1. ASSUME NEW recover \in BOOLEAN, RecordHeartbeat(r, recover)
        PROVE  Sound(robots')
    BY <2>1
       DEF RecordHeartbeat, Sound, TypeOK, RegistryTypeOK, RobotRecord,
           ActiveTaskStates
  <2>2. CASE MarkOffline(r) \/ MarkError(r)
    BY <2>2, MovedSound
       DEF MarkOffline, MarkError, Transition, DispatchableStates, ActiveTaskStates,
           TypeOK, RegistryTypeOK
  <2>3. CASE RecoverToIdle(r)
    BY <2>3, MovedSound
       DEF RecoverToIdle, Transition, ActiveTaskStates, TypeOK, RegistryTypeOK
  <2> QED BY <1>1, <1>2, <2>1, <2>2, <2>3 DEF RegistryCall, HeartbeatExpires
<1>3. ASSUME NEW t \in Tasks, FailEffect(t) PROVE Sound(robots')
  BY <1>1, <1>3, ReleasedSound DEF FailEffect
<1>4. ASSUME NEW t \in Tasks, Drive(t) PROVE Sound(robots')
  <2>1. CASE Start(t)
    BY <1>1, <2>1, MarkBusySound DEF Start
  <2>2. CASE ArriveAtPickup(t) \/ ArriveAtDropoff(t)
    BY <1>1, <2>2, MarkBusySound DEF ArriveAtPickup, ArriveAtDropoff, Arrive
  <2>3. CASE CompleteDropoff(t)
    BY <2>3, ReleasedSound DEF CompleteDropoff
  <2> QED
    BY <1>1, <1>3, <1>4, <2>1, <2>2, <2>3
       DEF Drive, CompletePickup, NavigationFails, Fail
<1>5. ASSUME NEW t \in Tasks, Cancel(t) \/ Requeue(t) PROVE Sound(robots')
  BY <1>1, <1>5, ReleasedSound DEF Cancel, Requeue
<1>6. ASSUME NEW r \in Robots, Sweep(r) PROVE Sound(robots')
  <2>1. CASE SweepRequeue(r)
    <3>1. hauls[visit[r].task].robot \in Robots \cup {None}
      BY <2>1, TrackedAreTasks DEF SweepRequeue, Revocable
    <3> QED BY <2>1, <3>1, ReleasedSound, ReleasedType, OfflinedSound
               DEF SweepRequeue, TypeOK, RegistryTypeOK
  <2> QED BY <1>1, <1>6, <2>1, OfflinedSound
             DEF Sweep, SweepOffline, SweepAborts, TypeOK, RegistryTypeOK
<1>7. ASSUME NEW t \in Tasks, Retry(t) \/ Assign(t) PROVE Sound(robots')
  BY <1>1, <1>7, AssignSound DEF Retry, RetryAssigns, RetryAborts, Assign
<1>8. ASSUME NEW r \in Robots, CompleteAssignedTask(r) PROVE Sound(robots')
  BY <1>8, MovedSound
     DEF CompleteAssignedTask, ReleaseTask, Transition, ActiveTaskStates, TypeOK,
         RegistryTypeOK
<1> QED
  BY <1>1, <1>2, <1>3, <1>4, <1>5, <1>6, <1>7, <1>8
     DEF Next, vars, Monitor, SweepBegin, RetryBegin, Fail

(* The registry never shows an IDLE robot with a task, nor an ASSIGNED or  *)
(* BUSY one without, whatever the callers of the fleet do.                 *)
THEOREM RegistryIsSound == Spec => []TaskMatchesState
<1>1. Init => Sound(robots)
  <2> SUFFICES ASSUME Init PROVE Sound(robots)
    OBVIOUS
  <2>1. \A r \in Robots : robots[r].state = "IDLE" /\ robots[r].task = None
    BY DEF Init, RegistryInit
  <2> QED BY <2>1 DEF Sound, ActiveTaskStates
<1>2. TypeOK /\ Sound(robots) /\ [Next]_vars => Sound(robots)'
  BY SoundStep DEF Sound
<1>3. Sound(robots) <=> TaskMatchesState
  BY DEF Sound, TaskMatchesState
<1> QED BY <1>1, <1>2, <1>3, TypeCorrect, PTL DEF Spec

-----------------------------------------------------------------------------
(* A robot that went OFFLINE or ERROR with its task stays so, for any      *)
(* caller.                                                                 *)

StrandedKept(reg, new) ==
  \A r \in Robots :
    reg[r].state \in {"OFFLINE", "ERROR"} /\ reg[r].task # None =>
      new[r].state \in {"OFFLINE", "ERROR"} /\ new[r].task # None

(* A transition keeps it unless it unbinds or revives a robot that is      *)
(* OFFLINE or in ERROR.                                                    *)
LEMMA StrandedMoved ==
  ASSUME NEW reg \in [Robots -> RobotRecord], NEW q \in Robots,
         NEW target, NEW task,
         reg[q].state \in {"OFFLINE", "ERROR"} /\ reg[q].task # None =>
           target \in {"OFFLINE", "ERROR"} /\ task = reg[q].task
  PROVE  StrandedKept(reg, Moved(reg, q, target, task))
BY DEF StrandedKept, Moved, RobotRecord

(* release_task and mark_offline leave it where it is.                     *)
LEMMA StrandedCalls ==
  ASSUME NEW reg \in [Robots -> RobotRecord]
  PROVE  /\ \A r \in Robots \cup {None} : StrandedKept(reg, Released(reg, r))
         /\ \A r \in Robots : StrandedKept(reg, Offlined(reg, r))
<1>1. StrandedKept(reg, reg)
  BY DEF StrandedKept
<1> QED BY <1>1, StrandedMoved DEF Released, Offlined, ActiveTaskStates

(* So does every step.                                                     *)
LEMMA StrandedStep ==
  ASSUME TypeOK, [Next]_vars
  PROVE  StrandedKept(robots, robots')
<1> USE HaulRobot, StrandedCalls
<1>1. CASE UNCHANGED robots
  BY <1>1 DEF StrandedKept
<1>2. ASSUME NEW r \in Robots, RegistryCall(r) PROVE StrandedKept(robots, robots')
  <2> USE DEF TypeOK, RegistryTypeOK
  <2>1. ASSUME NEW recover \in BOOLEAN, RecordHeartbeat(r, recover)
        PROVE  StrandedKept(robots, robots')
    BY <2>1 DEF RecordHeartbeat, StrandedKept, RobotRecord
  <2>2. CASE MarkOffline(r) \/ MarkError(r) \/ RecoverToIdle(r)
    BY <2>2, StrandedMoved DEF MarkOffline, MarkError, RecoverToIdle, Transition
  <2> QED BY <1>1, <1>2, <2>1, <2>2 DEF RegistryCall, HeartbeatExpires
<1>3. ASSUME NEW r \in Robots, CompleteAssignedTask(r)
      PROVE  StrandedKept(robots, robots')
  BY <1>3, StrandedMoved
     DEF CompleteAssignedTask, ReleaseTask, Transition, ActiveTaskStates, TypeOK,
         RegistryTypeOK
<1>4. ASSUME NEW t \in Tasks,
             (\E r \in Robots : AssignAccepted(t, r)) \/ AssignRejected(t)
      PROVE  StrandedKept(robots, robots')
  <2>1. ASSUME NEW r \in Robots, AssignAccepted(t, r)
        PROVE  StrandedKept(robots, robots')
    <3>1. /\ robots' = Moved(robots, r, "ASSIGNED", t)
          /\ robots[r].state \notin {"OFFLINE", "ERROR"}
      BY <2>1 DEF AssignAccepted, AssignTask, Transition, DispatchableStates
    <3> QED BY <3>1, StrandedMoved
  <2> QED BY <1>1, <1>4, <2>1 DEF AssignRejected
<1>5. ASSUME NEW r \in Robots, MarkBusy(r), robots[r].state = "ASSIGNED"
      PROVE  StrandedKept(robots, robots')
  BY <1>5, StrandedMoved DEF MarkBusy, Transition, TypeOK, RegistryTypeOK
<1>6. ASSUME NEW t \in Tasks, FailEffect(t) PROVE StrandedKept(robots, robots')
  BY <1>1, <1>6 DEF FailEffect
<1>7. ASSUME NEW t \in Tasks, Drive(t) PROVE StrandedKept(robots, robots')
  <2>1. CASE Start(t) \/ ArriveAtPickup(t) \/ ArriveAtDropoff(t)
    <3>1. hauls[t].robot \in Robots
      BY <2>1 DEF Start, ArriveAtPickup, ArriveAtDropoff, Arrive
    <3> QED BY <1>1, <1>5, <2>1, <3>1 DEF Start, ArriveAtPickup, ArriveAtDropoff, Arrive
  <2>2. CASE CompletePickup(t) \/ CompleteDropoff(t) \/ NavigationFails(t)
    BY <1>1, <1>6, <2>2 DEF CompletePickup, CompleteDropoff, NavigationFails, Fail
  <2> QED BY <1>7, <2>1, <2>2 DEF Drive
<1>8. ASSUME NEW t \in Tasks, Cancel(t) \/ Requeue(t)
      PROVE  StrandedKept(robots, robots')
  BY <1>1, <1>8 DEF Cancel, Requeue
<1>9. ASSUME NEW r \in Robots, SweepRequeue(r) PROVE StrandedKept(robots, robots')
  <2> DEFINE freed == Released(robots, hauls[visit[r].task].robot)
  <2>1. visit[r].task \in Tasks
    BY <1>9, TrackedAreTasks DEF SweepRequeue, Revocable
  <2>2. /\ freed \in [Robots -> RobotRecord] /\ robots' = Offlined(freed, r)
        /\ StrandedKept(robots, freed)
    BY <1>9, <2>1, ReleasedType DEF SweepRequeue
  <2> HIDE DEF freed
  <2>3. StrandedKept(freed, robots')
    BY <2>2
  <2> QED BY <2>2, <2>3 DEF StrandedKept
<1>10. CASE Monitor
  <2>1. \A r \in Robots : Offlined(robots, r) = robots' => StrandedKept(robots, robots')
    BY DEF TypeOK, RegistryTypeOK
  <2> QED
    BY <1>1, <1>4, <1>9, <1>10, <2>1
       DEF Monitor, SweepBegin, Sweep, SweepOffline, SweepAborts, RetryBegin, Retry,
           RetryAssigns, RetryAborts
<1> QED
  BY <1>1, <1>2, <1>3, <1>4, <1>6, <1>7, <1>8, <1>10 DEF Next, vars, Assign, Fail

(* StrandedStaysStranded for any number of robots and any caller: no call  *)
(* of the fleet, heartbeat recovery included, brings such a robot back.    *)
THEOREM StrandedForGood == Spec => StrandedStaysStranded
<1>1. TypeOK /\ [Next]_vars =>
        [ \A r \in Robots : Stranded(r) => Stranded(r)' ]_registryVars
  BY StrandedStep DEF StrandedKept, Stranded
<1> QED BY <1>1, TypeCorrect, PTL DEF Spec, StrandedStaysStranded

-----------------------------------------------------------------------------
(* Careful callers: an active haul's robot is bound to that haul.          *)

(* A careful caller is a caller.                                           *)
LEMMA CarefulIsNext == [CarefulNext]_vars => [Next]_vars
BY DEF CarefulNext, Next

(* Hauls that hold a robot have one, those that wait for one have none.    *)
Held ==
  \A t \in Tasks :
    /\ Active(t) => hauls[t].robot # None
    /\ hauls[t].wms \in {"PENDING", "REQUEUED"} => hauls[t].robot = None

(* The hauls' robots are untouched and no haul becomes active.             *)
LEMMA BindingKept ==
  ASSUME TypeOK, Held, BoundRobotHoldsTask,
         \A r \in Robots : robots'[r].task = robots[r].task,
         \A u \in Tasks : Active(u)' => Active(u) /\ hauls'[u].robot = hauls[u].robot
  PROVE  BoundRobotHoldsTask'
<1> SUFFICES ASSUME NEW u \in Tasks, Active(u)'
             PROVE  robots'[hauls'[u].robot].task = u
  BY DEF BoundRobotHoldsTask
<1>1. hauls[u].robot \in Robots
  BY HaulRobot DEF Held
<1> QED BY <1>1 DEF BoundRobotHoldsTask

(* Two active hauls have different robots.                                 *)
LEMMA OtherRobot ==
  ASSUME Held, BoundRobotHoldsTask, NEW t \in Tasks, NEW u \in Tasks,
         u # t, Active(u), Active(t) \/ hauls[t].robot = None
  PROVE  hauls[u].robot # hauls[t].robot
BY DEF Held, BoundRobotHoldsTask

(* A haul ends and releases its robot, whose task was that haul.           *)
LEMMA BindingEnds ==
  ASSUME TypeOK, Held, BoundRobotHoldsTask, NEW t \in Tasks,
         Active(t) \/ hauls[t].robot = None,
         ~Active(t)',
         \A u \in Tasks \ {t} : hauls'[u] = hauls[u],
         \A r \in Robots : robots'[r].task = Released(robots, hauls[t].robot)[r].task
  PROVE  BoundRobotHoldsTask'
<1> SUFFICES ASSUME NEW u \in Tasks, Active(u)'
             PROVE  robots'[hauls'[u].robot].task = u
  BY DEF BoundRobotHoldsTask
<1>1. u # t /\ Active(u) /\ hauls'[u] = hauls[u]
  BY DEF Active
<1>2. hauls[u].robot \in Robots \ {hauls[t].robot}
  BY <1>1, HaulRobot, OtherRobot DEF Held
<1>3. Released(robots, hauls[t].robot)[hauls[u].robot] = robots[hauls[u].robot]
  BY <1>2, HaulRobot DEF Released, Moved
<1> QED BY <1>1, <1>2, <1>3 DEF BoundRobotHoldsTask

(* assign takes an unbound robot and binds it to the haul.                 *)
LEMMA BindingAssign ==
  ASSUME TypeOK, Held, Sound(robots), BoundRobotHoldsTask, NEW t \in Tasks,
         (\E r \in Robots : AssignAccepted(t, r)) \/ AssignRejected(t)
  PROVE  BoundRobotHoldsTask'
<1>1. ASSUME NEW r \in Robots, AssignAccepted(t, r) PROVE BoundRobotHoldsTask'
  <2>1. robots' = [robots EXCEPT ![r] = [state |-> "ASSIGNED", task |-> t]]
    BY <1>1 DEF AssignAccepted, AssignTask, Transition, Moved
  <2>2. hauls'[t].robot = r /\ \A u \in Tasks \ {t} : hauls'[u] = hauls[u]
    <3>1. Reset(t) \in Haul
      BY DEF TypeOK, Reset, Haul, Phase
    <3> QED BY <1>1, <3>1 DEF AssignAccepted, ReplaceSnapshot, TypeOK, Haul
  <2>3. robots[r].task = None
    BY <1>1 DEF AssignAccepted, AssignTask, Sound
  <2> SUFFICES ASSUME NEW u \in Tasks, Active(u)'
               PROVE  robots'[hauls'[u].robot].task = u
    BY DEF BoundRobotHoldsTask
  <2>4. CASE u = t
    BY <2>1, <2>2, <2>4, HaulRobot
  <2>5. CASE u # t
    <3>1. Active(u) /\ hauls'[u] = hauls[u]
      BY <2>2, <2>5 DEF Active
    <3>2. hauls[u].robot # r
      BY <2>3, <3>1, NoneIsNoId DEF BoundRobotHoldsTask
    <3>3. hauls[u].robot \in Robots
      BY <3>1, HaulRobot DEF Held
    <3> QED BY <2>1, <3>1, <3>2, <3>3, HaulRobot DEF BoundRobotHoldsTask
  <2> QED BY <2>4, <2>5
<1>2. CASE AssignRejected(t)
  <2>1. hauls[t] \in Haul
    BY DEF TypeOK
  <2>2. Reset(t).wms = hauls[t].wms /\ Reset(t).robot = hauls[t].robot
    BY <2>1 DEF Reset, Haul
  <2>3. \A u \in Tasks : hauls'[u].wms = hauls[u].wms /\ hauls'[u].robot = hauls[u].robot
    BY <1>2, <2>2 DEF AssignRejected, ReplaceSnapshot, TypeOK
  <2> QED BY <1>2, <2>3, BindingKept DEF AssignRejected, Active
<1> QED BY <1>1, <1>2

(* fail of an active haul releases the robot bound to it.                  *)
LEMMA BindingFail ==
  ASSUME TypeOK, Held, BoundRobotHoldsTask, NEW t \in Tasks,
         Active(t), FailEffect(t)
  PROVE  BoundRobotHoldsTask'
<1>1. hauls[t] \in Haul /\ hauls[t].wms \notin TerminalWmsStatus /\ WmsMay(t, "FAILED")
  BY DEF TypeOK, Active, TerminalWmsStatus, WmsMay, AllowedWmsTransitions
<1>2. /\ \A u \in Tasks \ {t} : hauls'[u] = hauls[u]
      /\ hauls'[t].wms = "FAILED"
      /\ robots' = Released(robots, hauls[t].robot)
  BY <1>1 DEF FailEffect, ReplaceSnapshot, TypeOK, Haul
<1> QED BY <1>2, BindingEnds DEF Active

(* So does a requeue that is accepted, by a caller or by a sweep.          *)
LEMMA BindingRequeue ==
  ASSUME TypeOK, Held, BoundRobotHoldsTask, NEW t \in Tasks,
         RequeueAccepted(t),
         \A r \in Robots : robots'[r].task = Released(robots, hauls[t].robot)[r].task
  PROVE  BoundRobotHoldsTask'
<1>1. hauls[t] \in Haul /\ Active(t)
  BY DEF TypeOK, Active, RequeueAccepted, WmsMay, AllowedWmsTransitions
<1>2. /\ \A u \in Tasks \ {t} : hauls'[u] = hauls[u]
      /\ hauls'[t].wms = "REQUEUED"
  BY <1>1 DEF RequeueAccepted, ReplaceSnapshot, TypeOK, Haul
<1> QED BY <1>1, <1>2, BindingEnds DEF Active

(* A requeue that raises half-way leaves the bindings alone.               *)
LEMMA BindingRejected ==
  ASSUME TypeOK, Held, BoundRobotHoldsTask, NEW t \in Tasks,
         RequeueRejected(t), UNCHANGED robots
  PROVE  BoundRobotHoldsTask'
<1>1. \A u \in Tasks : hauls'[u].wms = hauls[u].wms /\ hauls'[u].robot = hauls[u].robot
  BY DEF RequeueRejected, ReplaceSnapshot, TypeOK, Haul
<1> QED BY <1>1, BindingKept DEF Active

(* mark_busy keeps every robot's task.                                     *)
LEMMA MarkBusyTask ==
  ASSUME NEW r \in Robots, robots \in [Robots -> RobotRecord], MarkBusy(r)
  PROVE  \A q \in Robots : robots'[q].task = robots[q].task
BY DEF MarkBusy, Transition, Moved

(* So does mark_offline.                                                   *)
LEMMA OfflinedTask ==
  ASSUME NEW r \in Robots, NEW reg \in [Robots -> RobotRecord]
  PROVE  \A q \in Robots : Offlined(reg, r)[q].task = reg[q].task
BY DEF Offlined, Moved

(* The steps from start to dropoff keep the bindings.                      *)
LEMMA BindingDrive ==
  ASSUME TypeOK, Held, WorkingIsInProgress, BoundRobotHoldsTask, NEW t \in Tasks, Drive(t)
  PROVE  BoundRobotHoldsTask'
<1>1. hauls[t] \in Haul
  BY DEF TypeOK
<1>2. hauls[t].phase \in Working => Active(t)
  BY DEF WorkingIsInProgress, Active
<1>3. CASE Start(t)
  <2>1. \A u \in Tasks : Active(u)' => Active(u) /\ hauls'[u].robot = hauls[u].robot
    BY <1>1, <1>3
       DEF Start, WmsMay, AllowedWmsTransitions, ReplaceSnapshot, TypeOK, Active,
           Haul
  <2>2. \A r \in Robots : robots'[r].task = robots[r].task
    BY <1>3, HaulRobot, MarkBusyTask DEF Start
  <2> QED BY <2>1, <2>2, BindingKept
<1>4. CASE ArriveAtPickup(t) \/ ArriveAtDropoff(t)
  <2>1. \A u \in Tasks : Active(u)' => Active(u) /\ hauls'[u].robot = hauls[u].robot
    BY <1>1, <1>4
       DEF ArriveAtPickup, ArriveAtDropoff, Arrive, ReplaceSnapshot, TypeOK,
           Active, Haul
  <2>2. \A r \in Robots : robots'[r].task = robots[r].task
    BY <1>4, HaulRobot, MarkBusyTask DEF ArriveAtPickup, ArriveAtDropoff, Arrive
  <2> QED BY <2>1, <2>2, BindingKept
<1>5. CASE CompletePickup(t)
  <2>1. \A u \in Tasks : Active(u)' => Active(u) /\ hauls'[u].robot = hauls[u].robot
    BY <1>1, <1>5 DEF CompletePickup, ReplaceSnapshot, TypeOK, Active, Haul
  <2> QED BY <1>5, <2>1, BindingKept DEF CompletePickup
<1>6. CASE CompleteDropoff(t)
  <2>1. /\ \A u \in Tasks \ {t} : hauls'[u] = hauls[u]
        /\ hauls'[t].wms = "SUCCEEDED"
    BY <1>1, <1>6 DEF CompleteDropoff, ReplaceSnapshot, TypeOK, Haul
  <2> QED BY <1>2, <1>6, <2>1, BindingEnds DEF CompleteDropoff, Working, Active
<1>7. CASE NavigationFails(t)
  BY <1>2, <1>7, BindingFail DEF NavigationFails, Fail, Working
<1> QED BY <1>3, <1>4, <1>5, <1>6, <1>7 DEF Drive

(* cancel releases the robot of the haul it ends, if there is one.         *)
LEMMA BindingCancel ==
  ASSUME TypeOK, Held, BoundRobotHoldsTask, NEW t \in Tasks, Cancel(t)
  PROVE  BoundRobotHoldsTask'
<1>1. hauls[t] \in Haul
  BY DEF TypeOK
<1>2. Active(t) \/ hauls[t].robot = None
  BY DEF Cancel, WmsMay, AllowedWmsTransitions, Held, Active
<1>3. /\ \A u \in Tasks \ {t} : hauls'[u] = hauls[u]
      /\ hauls'[t].wms = "CANCELED"
  BY <1>1 DEF Cancel, ReplaceSnapshot, TypeOK, Haul
<1> QED BY <1>2, <1>3, BindingEnds DEF Cancel, Active

(* The registry's own calls keep every robot's task.                       *)
LEMMA CallTask ==
  ASSUME TypeOK, NEW r \in Robots, RegistryCall(r)
  PROVE  \A q \in Robots : robots'[q].task = robots[q].task
<1> USE DEF TypeOK, RegistryTypeOK, RobotRecord
<1>1. ASSUME NEW recover \in BOOLEAN, RecordHeartbeat(r, recover)
      PROVE  \A q \in Robots : robots'[q].task = robots[q].task
  BY <1>1 DEF RecordHeartbeat
<1>2. CASE MarkOffline(r) \/ MarkError(r) \/ RecoverToIdle(r)
  BY <1>2 DEF MarkOffline, MarkError, RecoverToIdle, Transition, Moved
<1> QED BY <1>1, <1>2 DEF RegistryCall, HeartbeatExpires

(* So they keep the bindings.                                              *)
LEMMA BindingCall ==
  ASSUME TypeOK, Held, BoundRobotHoldsTask, NEW r \in Robots, RegistryCall(r)
  PROVE  BoundRobotHoldsTask'
BY CallTask, BindingKept DEF RegistryCall, Active

(* The monitor's loops keep the bindings.                                  *)
LEMMA BindingMonitor ==
  ASSUME TypeOK, Held, Sound(robots), BoundRobotHoldsTask, Monitor
  PROVE  BoundRobotHoldsTask'
<1>1. CASE SweepBegin \/ RetryBegin
  BY <1>1, BindingKept DEF SweepBegin, RetryBegin, Active
<1>2. ASSUME NEW r \in Robots, Sweep(r) PROVE BoundRobotHoldsTask'
  <2>1. CASE SweepOffline(r)
    BY <2>1, OfflinedTask, BindingKept
       DEF SweepOffline, Active, TypeOK, RegistryTypeOK
  <2>2. CASE SweepRequeue(r)
    <3>1. visit[r].task \in Tasks
      BY <2>2, TrackedAreTasks DEF SweepRequeue, Revocable
    <3>2. Released(robots, hauls[visit[r].task].robot) \in [Robots -> RobotRecord]
      BY <3>1, HaulRobot, ReleasedType
    <3> QED BY <2>2, <3>1, <3>2, OfflinedTask, BindingRequeue DEF SweepRequeue
  <2>3. CASE SweepAborts(r)
    BY <2>3, TrackedAreTasks, BindingRejected, BindingKept
       DEF SweepAborts, Revocable, Active
  <2> QED BY <1>2, <2>1, <2>2, <2>3 DEF Sweep
<1>3. ASSUME NEW t \in Tasks, Retry(t) PROVE BoundRobotHoldsTask'
  BY <1>3, BindingAssign, BindingKept DEF Retry, RetryAssigns, RetryAborts, Active
<1> QED BY <1>1, <1>2, <1>3 DEF Monitor

(* Every step of careful callers keeps the bindings.                       *)
LEMMA BindingStep ==
  ASSUME TypeOK, Held, WorkingIsInProgress, Sound(robots), BoundRobotHoldsTask,
         [CarefulNext]_vars
  PROVE  BoundRobotHoldsTask'
<1>1. CASE UNCHANGED vars
  BY <1>1, BindingKept DEF vars, Active
<1>2. ASSUME NEW t \in Tasks, Assign(t) PROVE BoundRobotHoldsTask'
  BY <1>2, BindingAssign DEF Assign
<1>3. ASSUME NEW t \in Tasks, Active(t), Fail(t) PROVE BoundRobotHoldsTask'
  BY <1>3, BindingFail DEF Fail
<1>4. ASSUME NEW t \in Tasks, Requeue(t) PROVE BoundRobotHoldsTask'
  BY <1>4, BindingRequeue, BindingRejected DEF Requeue
<1> QED
  BY <1>1, <1>2, <1>3, <1>4, BindingDrive, BindingCancel, BindingCall, BindingMonitor
     DEF CarefulNext

(* Careful callers inherit what holds of all callers.                      *)
LEMMA CarefulInv == CarefulSpec => [](TypeOK /\ HaulInv /\ Sound(robots))
<1>1. Init => TypeOK /\ HaulInv /\ Sound(robots)
  <2>1. Init => Sound(robots)
    <3> SUFFICES ASSUME Init PROVE Sound(robots)
      OBVIOUS
    <3>1. \A r \in Robots : robots[r].state = "IDLE" /\ robots[r].task = None
      BY DEF Init, RegistryInit
    <3> QED BY <3>1 DEF Sound, ActiveTaskStates
  <2> QED BY <2>1, TypeInit, HaulInvInit
<1>2. TypeOK /\ HaulInv /\ Sound(robots) /\ [CarefulNext]_vars
        => (TypeOK /\ HaulInv /\ Sound(robots))'
  <2>1. ASSUME TypeOK, Sound(robots), [Next]_vars PROVE Sound(robots)'
    BY <2>1, SoundStep DEF Sound
  <2> QED BY <2>1, CarefulIsNext, TypeStep, HaulInvStep
<1> QED BY <1>1, <1>2, PTL DEF CarefulSpec

(* BoundRobotHoldsTask for any number of robots and tasks: whatever careful *)
(* callers, heartbeats, operators and the monitor do, the registry binds the *)
(* robot of an active haul to that haul.                                   *)
THEOREM RobotsHoldTheirHauls == CarefulSpec => []BoundRobotHoldsTask
<1>1. Init => BoundRobotHoldsTask
  BY DEF Init, NewHaul, BoundRobotHoldsTask, Active
<1>2. (/\ TypeOK /\ HaulInv /\ Sound(robots)
       /\ BoundRobotHoldsTask
       /\ [CarefulNext]_vars) => BoundRobotHoldsTask'
  BY BindingStep DEF HaulInv, LedgersAgree, Held
<1> QED BY <1>1, <1>2, CarefulInv, PTL DEF CarefulSpec

(* NoDoubleBooking for any number of robots and tasks: no robot serves two *)
(* active hauls.                                                           *)
THEOREM NoRobotIsDoubleBooked == CarefulSpec => []NoDoubleBooking
<1>1. BoundRobotHoldsTask => NoDoubleBooking
  BY DEF BoundRobotHoldsTask, NoDoubleBooking
<1> QED BY <1>1, RobotsHoldTheirHauls, PTL

=============================================================================
