----------------------------- MODULE FleetStore -----------------------------
(***************************************************************************)
(* The haul fleet over its database fleet.db: what is left of it when the  *)
(* process dies between two writes and starts again, and what the vendor   *)
(* state adapters, processes with a registry of their own, do to the rows  *)
(* (registry.py, assignment.py, dispatcher.py, integrations/).             *)
(*                                                                         *)
(* HaulFleet is the memory of the fleet process.  A call changes it and    *)
(* then commits one row after the other; memory is seen by nobody else, so *)
(* the call is one action that leaves in `todo` the rows it has to write,  *)
(* and each commit is an action.  Controllers are not stored: a restarted  *)
(* process has new ones.  Death and restart are one action, for what the   *)
(* adapters do in between they can do just before.                         *)
(***************************************************************************)
EXTENDS HaulFleet, Naturals, Sequences

CONSTANTS
  Adapted,  \* the robots with a vendor adapter
  MaxRows   \* bound on the assignment rows of one task

ASSUME AdaptedAreRobots == Adapted \subseteq Robots
ASSUME RobotsAreNoTasks == Robots \cap Tasks = {}
ASSUME RowsAreBounded == MaxRows \in Nat \ {0}
ASSUME NoneIsNoRecord == None \notin RobotRecord

VARIABLES
  todo,   \* the rows the call in hand has still to write, with their keys
  rows,   \* table robots
  table,  \* table assignments: per task its rows, oldest first
  copy    \* per adapted robot: its record in the adapter's registry

storeVars == <<vars, todo, rows, table, copy>>

-----------------------------------------------------------------------------
NoRow == [robot |-> None, status |-> None]

(* Mutants: load_assignments_from_db keeps the first row of a task; it     *)
(* leaves out the rows of assignments that were still active.              *)
FirstRow(t) == IF table[t] = <<>> THEN NoRow ELSE table[t][1]

ClosedRow(t) ==
  IF \E i \in DOMAIN table[t] : table[t][i].status \in ActiveAssignmentStatus
  THEN NoRow ELSE FirstRow(t)

(* load_assignments_from_db: the last row of a task wins.                  *)
LastRow(t) == IF table[t] = <<>> THEN NoRow ELSE table[t][Len(table[t])]

(* A row to be written, under its key.                                     *)
Pending == [key : Robots, row : RobotRecord] \cup [key : Tasks, row : Assignment]

StoreTypeOK ==
  /\ TypeOK
  /\ todo \in Seq(Pending)
  /\ rows \in [Robots -> RobotRecord]
  /\ table \in [Tasks -> Seq(Assignment)]
  /\ \A t \in Tasks : Len(table[t]) <= MaxRows
  /\ copy \in [Adapted -> RobotRecord \cup {None}]

-----------------------------------------------------------------------------
(* The rows a call writes, in its order.                                   *)
Row(key, row) == << [key |-> key, row |-> row] >>

TaskRow(t) ==
  IF assignments'[t] = assignments[t] THEN <<>> ELSE Row(t, assignments'[t])

(* What a change of the registry writes for r.                             *)
RobotRow(old, new, r) ==
  IF r = None \/ new[r] = old[r] THEN <<>> ELSE Row(r, new[r])

(* Mutant: the assignment is persisted before the robot.                   *)
AssignmentFirst(t) == TaskRow(t) \o RobotRow(robots, robots', hauls'[t].robot)

(* assign_task: the registry persists the robot, then the dispatcher the   *)
(* assignment.                                                             *)
RobotFirst(t) == RobotRow(robots, robots', hauls'[t].robot) \o TaskRow(t)

(* The other calls of a haul sync the assignment, then move the robot.     *)
TaskFirst(t, new) == TaskRow(t) \o RobotRow(robots, new, hauls[t].robot)

(* An arrival writes the robot's station, whether or not it was ASSIGNED.  *)
Arrives(t) == ArriveAtPickup(t) \/ ArriveAtDropoff(t)

(* The call of the controller or the monitor that is taken.                *)
HaulCall(t) ==
  \/ /\ \/ Start(t) \/ CompletePickup(t) \/ CompleteDropoff(t)
        \/ NavigationFails(t) \/ Cancel(t)
        \/ Active(t) /\ (Fail(t) \/ Requeue(t))
     /\ todo' = TaskFirst(t, robots')
  \/ Arrives(t) /\ todo' = Row(hauls[t].robot, robots'[hauls[t].robot])
  \/ /\ Assign(t) \/ Retry(t)
     /\ Len(table[t]) < MaxRows
     /\ todo' = RobotFirst(t)

(* The sweep requeues the haul, on whatever robot it is, and then marks r. *)
SweepRows(r) ==
  LET t    == visit[r].task
      back == Released(robots, hauls[t].robot)
  IN  TaskFirst(t, back) \o RobotRow(back, robots', r)

SweepCall(r) ==
  \/ SweepOffline(r) /\ todo' = RobotRow(robots, robots', r)
  \/ SweepRequeue(r) /\ todo' = SweepRows(r)
  \/ SweepAborts(r) /\ todo' = <<>>

(* Every method of the registry writes the whole record, changed or not.   *)
(* The heartbeats of an adapted robot reach its adapter, never the fleet.  *)
RobotCall(r) ==
  /\ RegistryCall(r)
  /\ r \in Adapted => fresh' \subseteq fresh
  /\ todo' = IF r \in fresh /\ r \notin fresh' THEN <<>> ELSE Row(r, robots'[r])

FleetCall ==
  /\ todo = <<>>
  /\ \/ \E t \in Tasks : HaulCall(t)
     \/ \E r \in Robots : SweepCall(r) \/ RobotCall(r)
     \/ (SweepBegin \/ RetryBegin) /\ todo' = <<>>
  /\ UNCHANGED <<rows, table, copy>>

-----------------------------------------------------------------------------
(* Mutant: every record is inserted.                                       *)
Inserted(t, row) == Append(table[t], row)

(* persist_assignment: assign_task's record has no id yet and is inserted; *)
(* the others update the row it was given then, the task's last.           *)
Stored(t, row) ==
  IF row.status = "assigned"
  THEN Append(table[t], row)
  ELSE [table[t] EXCEPT ![Len(table[t])] = row]

Commit ==
  /\ todo # <<>>
  /\ LET key == Head(todo).key
         row == Head(todo).row
     IN  \/ key \in Robots /\ rows' = [rows EXCEPT ![key] = row] /\ UNCHANGED table
         \/ /\ key \in Tasks
            /\ table' = [table EXCEPT ![key] = Stored(key, row)]
            /\ UNCHANGED rows
  /\ todo' = Tail(todo)
  /\ UNCHANGED <<vars, copy>>

(* The process dies, whatever it was about to write, and a new one loads   *)
(* the tables; the heartbeats an adapter has written are in the rows.      *)
Restart ==
  /\ robots' = rows
  /\ assignments' = [t \in Tasks |-> LastRow(t)]
  /\ hauls' = [t \in Tasks |-> NewHaul]
  /\ visit' = NoVisit /\ retry' = {} /\ todo' = <<>>
  /\ \E heard \in SUBSET {r \in Adapted : copy[r] # None} : fresh' = fresh \cup heard
  /\ UNCHANGED <<rows, table, copy>>

-----------------------------------------------------------------------------
(* A vendor adapter's registry loads the rows once, when it starts, ...    *)
AdapterStart(r) ==
  /\ copy' = [copy EXCEPT ![r] = rows[r]]
  /\ UNCHANGED <<vars, todo, rows, table>>

(* ... and writes its whole record for every frame of telemetry.           *)
AdapterHeartbeat(r) ==
  /\ copy[r] # None
  /\ rows' = [rows EXCEPT ![r] = copy[r]]
  /\ UNCHANGED <<vars, todo, table, copy>>

-----------------------------------------------------------------------------
StoreInit ==
  /\ Init
  /\ todo = <<>>
  /\ rows = robots
  /\ table = [t \in Tasks |-> <<>>]
  /\ copy = [r \in Adapted |-> None]

StoreNext ==
  \/ FleetCall
  \/ Commit
  \/ Restart
  \/ \E r \in Adapted : AdapterStart(r) \/ AdapterHeartbeat(r)

StoreSpec == StoreInit /\ [][StoreNext]_storeVars

-----------------------------------------------------------------------------
(* Correctness properties.                                                 *)
IsActive(row) == row.status \in ActiveAssignmentStatus

(* The robots whose row only the fleet has written so far.                 *)
FleetOnly == {r \in Robots : r \in Adapted => copy[r] = None}

(* Whenever the process dies, the tables agree as far as it matters: a     *)
(* task has at most one active row, the last, and the row of its robot     *)
(* names the task, so no restarted fleet gives that robot to another one.  *)
(* The order of the two writes of every call is what this rests on.        *)
ActiveRowIsHeld ==
  \A t \in Tasks : \A i \in DOMAIN table[t] :
    IsActive(table[t][i]) =>
      /\ i = Len(table[t])
      /\ table[t][i].robot \in FleetOnly =>
           rows[table[t][i].robot].task = t

(* Between two calls nothing the fleet knows is in memory only, except for *)
(* the robots an adapter writes: every change of a record was persisted.   *)
CallsAreDurable ==
  todo = <<>> =>
    /\ \A r \in FleetOnly : rows[r] = robots[r]
    /\ \A t \in Tasks : LastRow(t) = assignments[t]

(* A haul that held its robot when the process died is neither dispatched  *)
(* again nor closed by the new one: its row stays active until somebody    *)
(* outside the fleet settles it.                                           *)
OrphanRowStays ==
  [][ \A t \in Tasks :
        /\ todo = <<>>
        /\ hauls[t].robot = None
        /\ \E i \in DOMAIN table[t] : IsActive(table[t][i])
        => table'[t] = table[t] /\ hauls'[t].robot = None ]_storeVars

(* "Updates Fleet Registry heartbeat only" (agibot/state_adapter.py:197,   *)
(* unitree/state_adapter.py:117): a frame of telemetry must not change the *)
(* state or the task of its robot (UNITREE_INTEGRATION.md:137-141).        *)
TelemetryIsHeartbeatOnly ==
  [][ \A r \in Adapted : AdapterHeartbeat(r) => rows'[r] = rows[r] ]_storeVars

=============================================================================
