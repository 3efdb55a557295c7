--------------------------- MODULE RobotRegistry ---------------------------
(***************************************************************************)
(* The Fleet robot registry (fleet/registry.py over fleet/robot_state.py): *)
(* one record per robot, changed only through the registry's methods.      *)
(*                                                                         *)
(* A method that raises before it writes is an action that is not enabled. *)
(* HaulFleet composes these actions with the callers of the registry.      *)
(* The age of the last heartbeat is abstracted to the set `fresh` of the   *)
(* robots whose heartbeat is within the timeout of the caller's clock.     *)
(* Station and battery are left out: no transition reads them.             *)
(***************************************************************************)
CONSTANTS
  Robots,   \* robot identifiers
  Tasks,    \* task identifiers
  None      \* Python's None

ASSUME NoneIsNoId == None \notin Robots \cup Tasks

VARIABLES
  robots,   \* RobotRegistry._robots: state and current_task_id
  fresh     \* the robots for which is_heartbeat_valid holds now

registryVars == <<robots, fresh>>

-----------------------------------------------------------------------------
RobotState == {"IDLE", "ASSIGNED", "BUSY", "OFFLINE", "ERROR"}

ActiveTaskStates   == {"ASSIGNED", "BUSY"}
DispatchableStates == {"IDLE"}

AllowedTransitions ==
  ({"IDLE"} \X {"ASSIGNED", "OFFLINE", "ERROR"}) \cup
  ({"ASSIGNED"} \X {"BUSY", "IDLE", "OFFLINE", "ERROR"}) \cup
  ({"BUSY"} \X {"IDLE", "OFFLINE", "ERROR"}) \cup
  ({"OFFLINE"} \X {"IDLE", "ERROR"}) \cup
  ({"ERROR"} \X {"IDLE", "OFFLINE"})

RobotRecord == [state : RobotState, task : Tasks \cup {None}]

RegistryTypeOK ==
  /\ robots \in [Robots -> RobotRecord]
  /\ fresh \subseteq Robots

-----------------------------------------------------------------------------
(* The record of r after _transition, the registry unchanged if it raises. *)

CanMove(reg, r, target) == <<reg[r].state, target>> \in AllowedTransitions

Moved(reg, r, target, task) ==
  IF CanMove(reg, r, target)
  THEN [reg EXCEPT ![r] = [state |-> target, task |-> task]]
  ELSE reg

Transition(r, target, task) ==
  /\ CanMove(robots, r, target)
  /\ robots' = Moved(robots, r, target, task)

HasActiveTask(r) ==
  /\ robots[r].task # None
  /\ robots[r].state \in ActiveTaskStates

(* can_accept_task: what list_candidates keeps before it looks at costs.   *)
CanAcceptTask(r) ==
  /\ ~HasActiveTask(r)
  /\ robots[r].state \in DispatchableStates
  /\ r \in fresh

-----------------------------------------------------------------------------
(* One action per method.                                                  *)

(* Mutant: the recovery forgets to ask whether the robot is bound.         *)
RecordHeartbeatUnasked(r, recover) ==
  /\ fresh' = fresh \cup {r}
  /\ robots' = IF recover /\ robots[r].state = "OFFLINE"
               THEN [robots EXCEPT ![r].state = "IDLE"]
               ELSE robots

(* recover is recover_offline: only then may a heartbeat change the state. *)
RecordHeartbeat(r, recover) ==
  /\ fresh' = fresh \cup {r}
  /\ robots' = IF recover /\ robots[r].state = "OFFLINE" /\ robots[r].task = None
               THEN [robots EXCEPT ![r].state = "IDLE"]
               ELSE robots

(* External: the wall clock passes r's heartbeat timeout.                  *)
HeartbeatExpires(r) ==
  /\ r \in fresh
  /\ fresh' = fresh \ {r}
  /\ UNCHANGED robots

(* assign_task does not read the heartbeat; its caller does.               *)
AssignTask(r, t) ==
  /\ ~HasActiveTask(r)
  /\ robots[r].state \in DispatchableStates
  /\ Transition(r, "ASSIGNED", t)

MarkBusy(r) ==
  /\ robots[r].task # None
  /\ Transition(r, "BUSY", robots[r].task)

ReleaseTask(r) ==
  /\ robots[r].state \in ActiveTaskStates
  /\ Transition(r, "IDLE", None)

MarkOffline(r) == Transition(r, "OFFLINE", robots[r].task)

MarkError(r) == Transition(r, "ERROR", robots[r].task)

RecoverToIdle(r) ==
  /\ robots[r].task = None
  /\ Transition(r, "IDLE", None)

-----------------------------------------------------------------------------
(* seed_default_robots: every robot IDLE, its heartbeat taken now.         *)
RegistryInit ==
  /\ robots = [r \in Robots |-> [state |-> "IDLE", task |-> None]]
  /\ fresh = Robots

-----------------------------------------------------------------------------
(* Correctness properties.                                                 *)

(* An IDLE robot is bound to no task and an ASSIGNED or BUSY one is bound  *)
(* to one.  assign_task relies on it: it refuses a robot that has_active_  *)
(* task, which an IDLE robot with a leftover task does not have.           *)
TaskMatchesState ==
  \A r \in Robots :
    /\ robots[r].state \in DispatchableStates => robots[r].task = None
    /\ robots[r].state \in ActiveTaskStates => robots[r].task # None

(* A robot that goes OFFLINE or ERROR while bound never comes back: the    *)
(* heartbeat recovery and recover_to_idle refuse it because it is bound,   *)
(* and release_task refuses it because its state is not active.  No method *)
(* of the registry leads out.                                              *)
Stranded(r) ==
  /\ robots[r].state \in {"OFFLINE", "ERROR"}
  /\ robots[r].task # None

StrandedStaysStranded ==
  [][ \A r \in Robots : Stranded(r) => Stranded(r)' ]_registryVars

=============================================================================
