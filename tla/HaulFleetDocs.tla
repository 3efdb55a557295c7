--------------------------- MODULE HaulFleetDocs ---------------------------
(***************************************************************************)
(* Statements of the fleet documentation that the code does not keep, each *)
(* refuted by a run of its own.                                            *)
(***************************************************************************)
EXTENDS HaulFleetMC

(* "robot last_heartbeat timeout": whether or not the task is past pickup, *)
(* "robot -> OFFLINE" (TASK_LIFECYCLE.md:135-145).  When the silent robot  *)
(* is at the pickup, its haul in phase PICKUP, requeue raises: the robot   *)
(* is not marked, and the sweep ends before the robots that come after it. *)
SweptRobotGoesOffline ==
  [][ \A r \in Robots :
        /\ visit[r] # None
        /\ visit[r].task \in Tracked => Active(visit[r].task)
        /\ visit'[r] = None
        => robots'[r].state = "OFFLINE" ]_vars

(* After a requeue "dispatcher -> another IDLE robot, TASK_REASSIGNED"     *)
(* (TASK_LIFECYCLE.md:141-142): if an IDLE robot with a valid heartbeat is *)
(* there when the monitor tries a REQUEUED haul, the haul is ASSIGNED.  A  *)
(* try that found no robot has left the haul in phase IDLE, and from then  *)
(* on assign raises before it asks the dispatcher.                         *)
ReassignUsesIdleRobot ==
  [][ \A t \in Tasks :
        Retry(t) /\ (\E r \in Robots : CanAcceptTask(r)) =>
          hauls'[t].wms = "ASSIGNED" ]_vars

(* The heartbeat timeout of a robot releases that robot's assignment       *)
(* (TASK_LIFECYCLE.md:135-140).  A robot in ERROR that still names a task  *)
(* long reassigned makes the sweep take it away from a healthy robot.      *)
SilentRobotLosesItsOwnHaul ==
  [][ \A r \in Robots :
        SweepRequeue(r) => hauls[visit[r].task].robot = r ]_vars

=============================================================================
