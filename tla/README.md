# AMR warehouse fleet: TLA+ models, checks and proofs

This directory holds a formal model of the coordination code in
`amr_warehouse_sim/`: who may hold which robot, task and resource, in which
order the ledgers that record it are written, and what is left behind when a
call fails half-way. Paths below are relative to `src/amr_warehouse_sim/`
unless they start with `docs/`.

## 1. The system

| Component | Code | State it keeps | Operations |
|---|---|---|---|
| Robot registry | `fleet/registry.py`, `robot_state.py` | a record per robot: state, current task, heartbeat time, station, battery; a row of `fleet.db` each | `record_heartbeat`, `assign_task`, `mark_busy`, `release_task`, `mark_offline`, `mark_error`, `recover_to_idle`, station and battery updates |
| Fleet dispatcher | `fleet/dispatcher.py`, `assignment.py` | an assignment record per task; a row of `fleet.db` each | `list_candidates`, `assign_task`, `dispatch_tasks`, `get_assignment_for_task` |
| Haul task controller | `fleet/haul_executor.py`, `task_lifecycle.py`, `simulated_context.py` | a snapshot of its task: WMS status, assignment status, execution phase, robot, load | `assign`, `start`, `complete_navigation_to_pickup`, `complete_pickup`, `complete_navigation_to_dropoff`, `complete_dropoff`, `fail`, `cancel`, `requeue`, `run_simulated_success` |
| Heartbeat monitor | `fleet/heartbeat.py` | none of its own | `sweep`, `reassign_requeued` |
| Resource lock manager | `fleet/resources.py` | per station or aisle an owner, the time it was acquired and a FIFO queue | `acquire`, `acquire_ordered`, `release`, `sweep_timeouts` |
| Fleet database | `fleet/registry.py`, `assignment.py`, `dispatcher.py`, `fleet_db.py` | tables `robots` and `assignments` of `fleet.db` | a transaction per changed record; loading at the start of a process |
| Vendor state adapters | `integrations/*/state_adapter.py` | a registry of their own, loaded once from the shared `fleet.db` | `record_heartbeat(recover_offline=False)` per frame of telemetry |
| Mock WMS store and API | `mock_wms_db_common.py`, `mock_wms_api.py` | a row of `tasks` per task | create, next pending, status update; the HTTP form of each |
| Mock WMS executors and runner | `mock_wms_executor.py`, `mock_wms_task_runner.py` | the task in hand | ready gate, claim, navigation, status write-back, queue loop |
| Inspection route executor | `inspection/executor.py`, `image_capture.py`, `store.py`, `runtime_models.py` | the run in hand; a row per run and per point; images, results and a report as files | preflight, navigation, capture of a fresh image, evaluation, persistence |
| One-point inspection | `inspection/lifecycle.py`, `pipeline.py`, `evidence.py`, `nav_executor.py` | a run of one point with its attempts, in memory; an evidence file per attempt | navigation, arrival, stabilization, reading, validation, evaluation, persistence, completion; retry, cancel |
| Visual evaluation and reports, launch files, simulation nodes, the legacy dispatcher | `inspection/`, `launch/`, `scripts/`, `archive/`, `future_extensions/` | none that outlives a call | reports, message relays, configuration |

### How the parts interact

* The controller calls the dispatcher to get a robot; the dispatcher calls the
  registry to bind it. From then on the controller calls the registry directly
  (`mark_busy`, `release_task`) and writes the dispatcher's assignment record in
  place (`_sync_assignment_status`). One task therefore has **three ledgers**:
  the snapshot, the assignment record and the robot's record.
* The heartbeat monitor reads the registry and, for a robot that went silent,
  calls `requeue` on the controller it finds for the robot's task and then
  `mark_offline` on the registry. `reassign_requeued` calls `assign` on every
  requeued haul. Both walk a list of *frozen* records taken before the loop.
* Vendor adapters only mean to send heartbeats, but they send them through a registry of
  their own, in a process of its own, over the same `fleet.db`: each heartbeat writes
  the whole cached record. The fleet process reads the database only when it starts, so it
  hears of these heartbeats no sooner than that.
* The lock manager is used beside the controller, by robot id; it calls nobody.
* The Mock WMS and the inspection code are further programs: the first shares a
  sqlite table between an API, a CLI and executors; the route executor drives a robot
  along a route and persists what it saw; the one-point inspection drives it to one point and
  keeps write-once evidence of each attempt. None calls the fleet package.

### What is hard about it

* **Calls that fail half-way.** The controller's methods write one ledger, check
  the next transition and raise if it is not allowed; what was written stays.
* **Stale records.** The monitor acts on a frozen record, and on a task id that a
  robot keeps after it has left the active states.
* **Nobody checks who holds what.** `_release_robot` looks at the state of the
  robot, not at its task; `release_task` of the registry may be called by anyone.
* **Silence at every moment.** A heartbeat can expire between any two calls, so a
  sweep can meet every phase of a haul.
* **FIFO queues and forced release.** A lock can be taken away from its owner, and
  a robot can be queued for several resources at once.
* **Shared sqlite rows** (Mock WMS, `fleet.db`) with reads and writes in different
  transactions, whole cached records written back, and crashes between them.
* **One name for two things.** The run id of the one-point inspection has a default and every
  process starts counting attempts at 1, so two processes claim the same evidence file.

`PROJECT.json` lists each of these at its line, under "hazards".

### What makes each component correct

* Registry: a robot is bound to a task exactly when its state says so, except that
  OFFLINE and ERROR keep the binding; a binding is only ended by a release.
* Controller, dispatcher, registry together: the three ledgers agree; no robot
  serves two active hauls; a load that is aboard is not taken off its robot; a
  finished haul stays finished; an active haul is eventually resolved.
* Monitor: a silent robot ends up OFFLINE and loses what can be taken from it.
* Fleet database: whenever the process dies, no row of a robot contradicts an active
  assignment, so that the next process books no robot twice; between calls nothing is
  in memory only.
* Locks: no overtaking, no waiting for what is free, every waiter is served.
* Mock WMS: a task goes from pending to running to one of its ends; the robot is sent
  to it once, and in turn; its row does not claim what nobody saw. The design has
  no lock on a task (`docs/designs/mock_wms_executor_design.md:140`), so all but the last
  hold for tasks that one party at a time deals with.
* Inspection route: an image kept for a point was taken at that point; what a run left
  on disk and in the database is consistent after a crash at any step.
* One-point inspection: evidence is immutable and what a report refers to; a success is
  backed by a fresh reading of its own attempt.

## 2. The modules

```
RobotRegistry              FleetBooking (what the fleet promises)
     |                          ^
     | EXTENDS                  | INSTANCE ... WITH (refinement)
     v                          |
 HaulFleet  --------------------+
     |--- HaulFleetMC, HaulFleetDocs      (constants and documented promises for TLC)
     |--- FleetStore                      (the fleet over its database, with restarts)
     |      |--- FleetStoreMC
     |      `--- FleetStoreProofs   (also EXTENDS HaulBookingProofs)
     `--- HaulFleetProofs <- HaulBookingProofs <- HaulCarefulProofs

 ResourceLocks                     MockWms
     |--- ResourceLocksMC              `--- MockWmsProofs
     `--- ResourceLocksProofs

 InspectionRoute                   InspectionRun
     `--- InspectionRouteProofs        `--- InspectionRunProofs
```

**RobotRegistry** is `RobotRegistry` with its transition table: `robots[r]` is
the record's state and task, and `fresh` the robots whose last heartbeat is
within the timeout. The actions have the names of the methods. A method that raises before
it has written is an action that is not enabled. It has no next-state relation of
its own: its callers compose its actions.

**HaulFleet** composes controller, dispatcher and monitor over it. `hauls[t]` is
`HaulTaskSnapshot`, `assignments[t]` the dispatcher's record. The fleet runs in one
thread, so a public call is one action, with everything it writes. Where the code
writes first and raises later, the action has the effect of what was written:
`AssignRejected` (the reset of a requeued haul stays), `Start` on a haul whose
phase is not IDLE (the status stays IN_PROGRESS), `RequeueRejected` and
the first disjunct of `FailEffect` (the phase stays). The two loops of the
monitor are the exception: one iteration is one action (`Sweep(r)`, `Retry(t)`),
`visit` and `retry` hold what the loop has frozen and still has to do, and
`Quiet` keeps other calls out until it ends, as the single thread does.
`SweepAborts` and `RetryAborts` are the exceptions that end a loop early.

There are two callers. `Spec` lets anyone call anything at any time. `CarefulSpec`
has callers that fail or requeue a haul only while it holds a robot, and leave the
release of the robot to the haul; the properties that need it say so.

**FleetBooking** is the abstract promise: a haul is booked on one robot, a robot
for one haul, a booking can be given back until the load is aboard, a haul that
has ended stays ended. `HaulFleet` maps its ledgers onto it (`BookedOn`, `StageOf`).

**FleetStore** puts `HaulFleet` over the tables of `fleet.db`: `rows[r]` is the row of a
robot, `table[t]` the assignment rows of a task in the order of their ids, `copy[r]` the record a
vendor adapter has cached. Every transaction of the code is one row, and a call makes
up to four of them. Memory is seen by the fleet's own thread only, so a call is still the action of
`HaulFleet`, which leaves in `todo` the rows it has to write, in the order in which
the code writes them; `Commit` writes the first of them, and no further call begins
before the last. `Restart` may come between any two: it is the death of the process, which
loses `todo`, and the start of the next one, which loads both tables and has new controllers.
Adapters start at any time and write their whole record at any time, between two commits too.

**ResourceLocks** is the lock manager: `locks[res]` has the owner and the queue,
`overdue` the resources owned for longer than the timeout. `acquire` is
`AcquireOrdered` of one resource. `OneCall` is the set of robots that ask for all they need in
one call while they hold and await nothing; the others call as they like.

**MockWms** has the table (`status[t]`, by id), the executors and the runner. An
executor's run is `runs[e]`: which task it has read, over HTTP or not, and how far it
is (`gate`, `goal`, or the status it is about to write). Each sqlite transaction is an action,
so everything else can happen between the read of a task and the writes of its status.
`queue[e]` is the loop of `run_task_queue`. An HTTP write is lost, is done without
its client being told, or is late: it moves to `late` and is carried out at any time
after its client has given up. Three variables are histories: `sent` (tasks whose goal
went to Nav2), `reached` (tasks that a robot, a dry run or an operator saw done), and
`contested` (tasks more than one party had a hand in: read by an executor
while another one holds them, updated by an operator meanwhile or against the documented
life cycle, or with a late write under way). `contested` delimits what the missing lock
costs: most properties are about the other tasks.

**InspectionRoute** is `run_inspection_route` with the camera node and the store. `job` is
the local state of the process, `job.step` the place in the loop. `files`, `images` and
`reports` are what lies under the artifact root, `runRows` and `rows` the two tables. Each write
is an action of its own, and `Crash` may come between any two. The camera node is
modelled by what waits for it: `clock` (the newest `/clock` message, a queue of one),
`frames` (the image queue) and `seen` (its own clock). A message is processed only when the
code spins the node, one per `spin_once`, of either subscription.

**InspectionRun** is the one-point inspection. The controller is modelled as functions of its
current attempt (`att[p].snap`, what the evidence file holds of it, and its evidence
reference); `past[p]` are the attempts it has given up, `files[n]` the evidence directory, `at[p]`
the place of the process in its calls. Several processes work on one run id, as the
command's default has it. Those in `Patient` use the controller and the processor as a library
and may retry and cancel; the others are `nav_executor`, which makes one attempt and ends. The
exclusive creation of a file and the write into it are two actions, so a death or a failed
write leaves a `Torn` file, and a second process meets it in either state. What
happens between two accesses to the directory is seen by nobody and is one action, so the
phases `validating` and `point_succeeded` are passed, never stayed in.

### Abstractions

* Heartbeat ages are the set `fresh`; `HeartbeatExpires` is the clock. The timeouts
  of the registry, the dispatcher and the monitor are taken to be the same value,
  the default they share.
* The dispatcher takes the cheapest candidate; `AssignAccepted` takes any, so
  what holds here holds for every cost function. Every station is taken to be known.
* The sweep visits robots, and the retry hauls, in id order; here any order will do.
* Station and battery are left out: no modelled guard reads them.
* `HaulFleet` leaves `fleet.db` out: within one process the rows are written after the
  cached record and never read again. What they are for is the subject of `FleetStore`. There the
  process dies only as a whole, a write never raises, and the database has been seeded. `fail` and
  `requeue` are called of active hauls, the sweep of anything.
* `FleetStore` keeps the heartbeats of an adapted robot from the fleet process, except that a
  restarted one may find them in the row.
* An artifact reference of `InspectionRun` is what the file held when it was taken: path and
  hash stand for the content. Failures carry no reason, so two equal ones may or may not be
  the same bytes (`FindFile` has both).
* `acquire_ordered` acquires in sorted order and goes on after a WAITING; since no
  acquire reads another resource, the result does not depend on the order.
* Tasks of the Mock WMS are created in the order of their ids (one clock), so the
  earliest is the one with the least id. What the goal does inside Nav2 is external: it is
  reached, or the executor reports a failure, of whatever kind.
* The stabilization pause of a route point (0.75 s in the shipped configuration) is taken
  to be long enough for one `/clock` message sent after the arrival to be delivered. With a pause of
  0, which the code accepts, `ImageShowsPoint` is not claimed.
* One inspection process runs at a time, with simulated time from its start.
  An image is known by the place it shows and its stamp.

## 3. The runs

Bounds are those of the `.cfg` files: sets of model values; for the Mock WMS and the
inspection route `MaxRows` (tasks ever created), `MaxLate` (writes late at once), `MaxTasks`
(`--max-tasks`), `N` (points of the route), `Depth` (of the image queue) and `MaxTime`
(simulated time of a run); for `FleetStore` `MaxRows` (assignment rows of a task); for
`InspectionRun` `MaxAttempts`, and `Times` and `MaxAge` (the clock and the age limit of a
reading). Nothing else is cut off.

| Run | Question | Bounds | States |
|---|---|---|---|
| `fleet_careful` | do careful callers keep the promises of the fleet, does it implement `FleetBooking`, and is every active haul resolved or given back? | 2 robots, 2 tasks, no symmetry | 132 474 |
| `fleet_any` | what survives any caller, in any order? | 2 robots, 2 tasks, one unknown to the monitor | 226 603 |
| `fleet_store` | what do restarts between any two writes, and vendor adapters, make of `fleet.db`? | 1 robot, adapted, 2 tasks, 2 rows each | 3 728 245 |
| `locks` | FIFO, consistent queues, every waiter served, no circle among those who ask once | 3 robots, 2 of which ask once, 3 resources | 20 959 |
| `mock_wms` | what do lost, late and unanswered writes, crashes, operators and a second executor do to the task table? | 2 executors, one of them a runner, 2 tasks, 1 late write | 2 659 122 |
| `inspection_route` | does each image show its point, and is what a run left consistent after a crash at any step? | 2 runs, 2 points, queue of 2, time up to 4 | 1 934 838 |
| `inspection_run` | is evidence immutable, and a reported success backed by it, when processes share a run id and die or fail at any write? | 2 processes, one of which retries, 2 attempts, 2 times | 5 480 958 |
| `doc_sweep` | does a silent robot go OFFLINE? (violated) | 2 robots, 2 tasks | |
| `doc_reassign` | is a requeued haul given to another IDLE robot? (violated) | 2 robots, 2 tasks | |
| `doc_own_haul` | does a silent robot lose only its own haul? (violated) | 2 robots, 2 tasks | |
| `doc_lock_order` | does the sorted order avoid deadlocks? (violated) | 2 robots, 2 resources | |
| `doc_heartbeat` | does telemetry update a robot's heartbeat only? (violated) | 1 robot, 2 tasks | |

Why the bounds are enough:

* Every guard of the fleet relates one task to one robot, and the hazards need at most a
  robot that is lost, another one that takes over its task, and a second task that competes for
  either. `fleet_any` has a task the monitor does not know. The safety properties of both runs are also
  proved for any number of both.
* In `FleetStore` a row of a robot and a row of a task can only contradict each other through
  one robot; the second task is the one it could wrongly be given to, and two rows of a
  task are its requeue and second booking. With 2 robots and 1 task the same properties hold
  as well (about 4 million states; not kept as a run, since it asks nothing new).
* A wait-for circle needs two robots and two resources; with a third of each there is
  a caller of several calls beside the ones that ask once, and a queue with two waiters behind
  an owner, where overtaking shows.
* In the Mock WMS every property relates at most two tasks or two executors; one late write is
  enough to overtake a later one.
* A stale image needs one point to come from, and a queue that can hold an image of the way and
  one of the point; time 4 lets the clock move on between departure, arrival, boundary and image.
  Two runs let one follow the crash of the other. The run ends when its run ids are used
  up, hence no deadlock check there.
* Two processes meet at one file; the second attempt is where a retry shows what it kept
  of the first. Two times and age 0 give a reading that is fresh, too old, or from the
  future of its receipt. The kinds `nan`, `foreign` and `incomplete`, which the module
  has, take the same way as a reading that is too old, so the run has `low` and `high` only.

### What they show

Properties that hold for any caller (`fleet_any`): `LedgersAgree` (snapshot,
assignment record and WMS status are never at odds, whatever raised
half-way), `WorkingIsInProgress`, `LoadFollowsPhase`, `PickupIrreversible`,
`TerminalIsFinal`, `TaskMatchesState`, and
`StrandedStaysStranded`: a robot that goes OFFLINE or ERROR while bound never comes
back, because every method that could lead out refuses it.

Properties that hold for careful callers (`fleet_careful`): `BoundRobotHoldsTask`,
`NoDoubleBooking`, `PhasesFitStatus`, `SweepFreesReversibleHauls`, the refinement
`ImplementsBooking`, and `HaulsResolve`.

The fleet database (`fleet_store`): the order of the two writes, robot first when a haul is assigned
and last when it ends, is what keeps an active row on a robot that is bound to it
(`ActiveRowIsHeld`) at every moment the process can die. No restarted fleet therefore
gives such a robot to another task; the price is a robot that stays ASSIGNED for a task
without a row. Between calls every change of a robot that no adapter writes is on disk
(`CallsAreDurable`). A haul that held a robot when the process died
is not taken up again (`OrphanRowStays`): its controller comes back PENDING, the dispatcher refuses
the task because of its active row, and a sweep that meets it raises. Its robot is lost with it: as
long as the row stays, the robot is no candidate and serves nobody, unless an adapter
has written its row back to IDLE.

The locks (`locks`): a waiter is not overtaken (`NoOvertaking`), is eventually served
(`WaiterIsServed`), and robots that ask once for all they need never wait for each other in a circle,
whatever the others do (`NoWaitCycle`).

The Mock WMS (`mock_wms`): the row of an uncontested task lives the documented life
(`UncontestedLifecycle`), says running while its goal is out (`GoalIsClaimed`), never
becomes pending again once the goal was sent (`NotOfferedAgain`), is taken in turn
(`TakenInOrder`), and is left alone when its executor died (`OrphanIsNotResumed`). For every
task, contested or not, the row says succeeded only if somebody saw it done (`SuccessWasSeen`).
The price of the missing lock is in what `contested` excludes: two executors that read the same
pending task both send it to the robot, and the slower one overwrites the faster one's result.

The inspection route (`inspection_route`): the boundary that `current_ros_time_ns` takes
after it has seen the clock move keeps images of the way out (`ImageShowsPoint`; without
the spin, the bug recorded in `docs/inspection/GAZEBO_INSPECTION_VALIDATION.md:85-89`, TLC finds the stale
image); rows form a prefix of the route with the files they refer to
(`RowsFollowRoute`); a finished row is backed by its report and by every point
(`FinishedIsBacked`); what is over is not touched again (`DeadRunsStay`). A run that crashed
stays `running`; before the end of its loop it has no row of any point, since these are written after it.

The one-point inspection (`inspection_run`): a file of the evidence directory never changes once
it is written, nor once it is torn (`EvidenceIsWriteOnce`); every reference a process holds, for
the attempt it is on or one it gave up, is what the file says today, and says the same as the
attempt (`ReferencesResolve`); a reported success has a fresh reading and the finding it
deserves on disk (`SucceededIsBacked`); a retry starts from nothing (`AttemptsAreCoherent`). Three
consequences are worth knowing. A torn file is never repaired: every later run under the same run id and
attempt ends in `EvidenceConflictError`, and so does the second run of the command with
the default run id, unless it measures exactly the same. And the file of a success says
`evaluating`, since it is written before the point is completed.

Promises of the documents that the code does not keep. Each has a run whose
counterexample shows it:

1. `sweep` requeues every haul that is not past pickup, but `requeue` raises in phase
   PICKUP, before `mark_offline`: the robot keeps its state, and the sweep ends
   before the other silent robots (`SweptRobotGoesOffline`).
2. `assign` resets the phase of a requeued haul before it asks the dispatcher. When
   no robot is free the haul stays REQUEUED in phase IDLE, and from then on the reset
   raises, whoever is free (`ReassignUsesIdleRobot`).
3. `sweep` finds a haul by the task id of the silent robot's record. A robot in
   ERROR keeps that id after the haul was given to another robot, which then loses
   it (`SilentRobotLosesItsOwnHaul`).
4. `acquire_ordered` goes on after a WAITING, so a robot owns the later resource while it
   waits for the earlier one, and two robots that each call it twice in ascending
   order wait for each other (`OrderAvoidsDeadlock`). Robots that ask for all they need
   in one call do not, and `sweep_timeouts` breaks every circle in time.
5. A vendor adapter is said to update the heartbeat only. It writes its whole cached record, so the
   row of a robot that was assigned or released since the adapter started goes back to its
   old state and task, which the fleet finds when it starts again (`TelemetryIsHeartbeatOnly`).

Further observations without a run: `fail` on a finished haul changes nothing of it but still releases its
last robot, which may be on another haul by then and is then booked twice, hence the careful
callers; `TASK_LIFECYCLE.md:29-30` does not list that a
REQUEUED haul may be CANCELED in the WMS while the phase table refuses it; and
`TASK_LIFECYCLE.md:107` has a failed navigation release the robot, which
`_release_robot` does not do when it is OFFLINE or ERROR.

### Fairness

`fleet_careful` is checked under `FairSpec`, which `HaulsResolve` needs. `run_simulated_success` calls the steps of
a haul one after the other, which is strong fairness of `Drive(t)`: strong,
because a loop of the monitor disables every step again and again. The monitor's
loops are `for` loops, hence weak fairness of their iterations. Nothing is assumed of
heartbeats, of operators, of `SweepBegin` or `RetryBegin`. `WaiterIsServed` is checked under
`LocksFairSpec`: time passes, and whoever owns the manager keeps calling
`sweep_timeouts`; no robot is assumed to release anything.

## 4. The proofs

For every set of robots, tasks, resources, executors and processes, finite or not, and every
value of the bounds of the fleet database, the Mock WMS, the inspection route and the one-point
inspection, TLAPS checks:

| Theorem | Says |
|---|---|
| `TypeCorrect` | `Spec => []TypeOK` |
| `LedgersAlwaysAgree`, `WorkingHaulsAreInProgress`, `LoadAlwaysFollowsPhase` | the three parts of `HaulInv`, for any caller |
| `LoadStaysOnItsRobot`, `TerminalStaysTerminal` | the action properties `PickupIrreversible` and `TerminalIsFinal`, for any caller |
| `RegistryIsSound` | `Spec => []TaskMatchesState` |
| `RobotsHoldTheirHauls`, `NoRobotIsDoubleBooked` | `CarefulSpec => []BoundRobotHoldsTask`, `[]NoDoubleBooking` |
| `StrandedForGood` | the action property `StrandedStaysStranded`, for any caller |
| `PhasesAlwaysFit` | `CarefulSpec => []PhasesFitStatus` |
| `SweepFreesTheHauls` | the action property `SweepFreesReversibleHauls`, for careful callers |
| `FleetImplementsBooking` | `CarefulSpec => ImplementsBooking`: the refinement of `FleetBooking` |
| `StoreTypeCorrect`, `ActiveRowsAreHeld`, `CallsAreAlwaysDurable` | `StoreSpec => []StoreTypeOK`, `[]ActiveRowIsHeld`, `[]CallsAreDurable` |
| `RestartsBookNoRobotTwice` | `StoreSpec => []NoDoubleBooking`: `NoRobotIsDoubleBooked` with restarts and adapters |
| `OrphansStay`, `OrphansKeepTheirRobots` | the action property `OrphanRowStays`; the robot of such a row is no candidate and serves no active haul |
| `LocksTypeCorrect`, `LocksStayConsistent` | `LocksSpec => []LocksTypeOK`, `[]LocksConsistent` |
| `QueuesAreFair` | the action property `NoOvertaking` |
| `OneCallNeverDeadlocks` | `LocksSpec => []NoWaitCycle` |
| `WmsTypeCorrect`, `SuccessIsAlwaysSeen` | `WmsSpec => []WmsTypeOK`, `[]SuccessWasSeen` |
| `GoalsAreClaimed`, `SentTasksAreNotOffered`, `TasksAreTakenInOrder` | `WmsSpec => []GoalIsClaimed`, `[]NotOfferedAgain`, `[]TakenInOrder` |
| `TasksLiveTheirLife`, `OrphansStayAlone` | the action properties `UncontestedLifecycle` and `OrphanIsNotResumed` |
| `RouteTypeCorrect`, `ImagesShowTheirPoints` | `RouteSpec => []RouteTypeOK`, `[]ImageShowsPoint` |
| `RowsAlwaysFollowRoute`, `FinishedRunsAreBacked` | `RouteSpec => []RowsFollowRoute`, `[]FinishedIsBacked` |
| `DeadRunsAreKept` | the action property `DeadRunsStay` |
| `RunTypeCorrect`, `AttemptsStayCoherent` | `RunSpec => []RunTypeOK`, `[]AttemptsAreCoherent` |
| `EvidenceStaysAsWritten` | the action property `EvidenceIsWriteOnce` |
| `ReferencesAlwaysResolve`, `SuccessesAreBacked` | `RunSpec => []ReferencesResolve`, `[]SucceededIsBacked` |

Nine more theorems state what no run is configured for. Their properties are defined in the
modules of the proofs, next to what they need, and hold for every value of the constants as well:

| Theorem | Says |
|---|---|
| `HeldRobotsAreAtWork` | `CarefulSpec => []HeldRobotsWork`: an ASSIGNED or BUSY robot has an active haul, as far as its state says |
| `SweepsStopAtPickup` | `AbortsAtPickupOrStale`: a sweep is cut short only over a haul in PICKUP or one that holds no robot any more |
| `RetriesFailAfterRejection` | `RetryFailsAfterRejection`: a retry gives up beside an idle robot only over a haul that an earlier try had left in IDLE |
| `StuckHaulsStay` | `StuckHaulsWait`: such a haul is touched only by a cancel, or by a sweep that aborts over it |
| `SweepsTakeTheirOwn` | `OnlyErrorRobotsTakeOthers`: a sweep takes another robot's haul only by the record of a robot in ERROR |
| `DiskIsNotDoubleBooked` | `StoreSpec => []DiskBooksNoRobotTwice`: no two active rows name one robot that only the fleet writes |
| `AssignmentsAreHistory` | `RowsAreHistory`: rows are never lost, rewritten once closed or given to another robot |
| `QueuesMoveUp` | `QueueMovesUp`: a new owner is the head of the queue, and everybody else is one place further |
| `FirstFilesDecide` | `FirstFileDecides`: an evidence file that is torn or tells a failure rules out a success under its number, for good |

The assumptions are those on the constants: `None` is no robot, task or assignment
status, no number, no executor's run, no record of a robot, no status and no job of the
inspection route, `Tracked` is a set of tasks, resources and the
bounds are naturals, readings are of the kinds the code tells apart, and `None` and `Torn` are no
reading and no content of a file. TLC evaluates them in
every run.

*The ledgers.* None of the three parts of `HaulInv` is inductive alone:
`CompleteDropoff` keeps the ledgers in step only because a haul in DROPOFF is
IN_PROGRESS; `Requeue` keeps the phase in step only because a haul in a
working phase has an assignment that is still active; and a requeue of a
loaded haul is excluded only because the load follows the phase. `HaulInv` is their conjunction,
and with `TypeOK` it is inductive under every action of `Next`. `PickupIrreversible` and `TerminalIsFinal`
follow from it, one step at a time.

*The bookings.* `Sound(robots)` (a registry whose records match their states) is
kept by every action, for any caller. For careful callers the robot of an active
haul is bound to that haul (`BoundRobotHoldsTask`): the release of a robot
by a haul is harmless because the haul was active and so the robot bound to it and to
no other, and this is what a late `fail` breaks. Two active hauls on one robot would
both be its task, so they are the same. `StrandedStaysStranded` needs no more than the types: each
method is refused in OFFLINE and ERROR, or keeps the robot there and bound.

*The careful callers.* That no half-way call leaves a misfit of phase and status depends on which
hauls a sweep can meet, and a sweep works from records frozen when it began. `Monitored` says what
these are still good for: no robot, then or now, holds a haul that is PENDING, and what a robot
still to be visited held has at most been taken from it since, because nobody else
calls while the loop runs. `CarefulState` (the invariants above with `PhasesFitStatus`) and
`Monitored` are inductive together. The sweep's property follows at its last step. For the
refinement each action is shown to replace one snapshot by one that has made `Progress`: it is
seen by `FleetBooking` as it was, or booked, given back, loaded or ended; the `Progress` of one haul
is then a step of the abstract specification or a stutter. A robot that is booked is free
there because it was IDLE and so bound to no active haul.

*How far the refuted promises hold.* The first three findings of section 3 are about the monitor's
loops. For careful callers the circumstances of their counterexamples are the only ones: a sweep is
cut short only at the pickup or over a haul that is over (finding 1), a retry fails beside an idle robot
only after an earlier failure, and then for good (finding 2), and a robot loses its haul to
another one's record only if that robot was in ERROR (finding 3). This needs one more invariant of the
loops, `FrozenRecords`: a record frozen ASSIGNED or BUSY names a haul that is its robot's as long as it is
active, and a haul still to be retried is still REQUEUED. It rests on `HeldRobotsWork`, the
converse of `BoundRobotHoldsTask`: no robot looks busy with a haul that has ended or moved on.
A robot in ERROR keeps its task id and is outside of it, which is what finding 3 comes from.

*The fleet database.* Here `LedgersAgree` is not true: after a restart the controllers are new and
the dispatcher's records old. What remains in memory is `Ties`, and the rest is `Covers(todo, ...)`, which says
what the rows still to be written owe to the tables: the last row pending for a robot or task is what
memory says of it (`RobotsCovered`, `TasksCovered`), a robot gets another task only after
the active row that names it was closed (`RobotRowsSafe`), and an active row is written only after its
robot has the task (`TaskRowsSafe`). Any prefix of such a sequence may be written: that is the proof of
`ActiveRowIsHeld`, and the reason why the code's two orders of writing, robot first and robot
last, are both needed. Each call is shown to leave rows that cover what it changed, `Commit` to keep
covering with the rest, and `Restart` to start from tables that allow the empty sequence. With
the queue empty `Covers` is `CallsAreDurable`. The assignments table is also a history (`RowsAreHistory`).
The code updates a row by the id in the record it holds; that this is the open last row of its task, also
when another process inserted it, is part of `TaskRowsSafe`: a row to be written is either a new one
behind closed ones, or the open one, with its robot.

*The locks.* With `LocksTypeOK`, which includes that no robot is queued twice,
`LocksConsistent` is inductive: the head of a duplicate-free queue is not in its tail. Fairness of the
queues is a property of one step: a step appends to a queue, takes its head or leaves it. For
`NoWaitCycle` the calls of `OneCall` are numbered in the order in which they were made: whoever
waits behind such a robot or for what it owns called later (`CallsAreOrdered`), so in a circle
the robot with the least number would have to wait for one with a smaller number. `QueueMovesUp` is
the safety half of `WaiterIsServed`: each change of the owner takes one robot, the first, out of those
before a waiter. That there always is a next change is fairness, and stays with TLC.

*The Mock WMS.* `SuccessWasSeen` needs to know where a status is before it is in the table:
in the step of a run, or in a late write (`SuccessIsReal`). The other properties rest on
`TaskInv`: whoever shares a task or writes it late has made it contested, and the row of
an uncontested task in work is pending before the gate and running after it. Neither the order
nor the single dispatch is inductive without the latter: it is what makes the write back to
pending harmless. One lemma (`EndKeepsTaskInv`) covers every write that ends a run, whatever
becomes of it on its way, and one (`ClaimKeepsTaskInv`) those after which a run goes on.

*The inspection route.* `ImageShowsPoint` rests on time alone (`SightInv`): no clock message and no
image is from the future, an image stamped after the arrival shows the point, and
the boundary is not before the arrival, although the clock the node has seen may lag behind. That the
code waits for the clock to move before it takes the boundary is what makes the last part hold. What
a run leaves behind follows from what the running one has in hand (`Evidence`): until its loop ends it
has no row, from then on its rows are a prefix of its results and say what its files say; and
from the fact that a run never started has left nothing (`Unused`). A crash drops the job, not what it has left,
and from then on the run is dead.

*The one-point inspection.* `RunTypeOK` is not inductive: that a retry stays within the bound
needs the attempts to be numbered by those given up (`Numbered`). `RunInv` adds what the phase of an
attempt says of its other fields (`SnapOK`), that an attempt on its way to the disk has no evidence yet
and can be completed (`OnCourse`), and that a file being written is torn and has one writer
(`OneWriter`), which is what the exclusive open gives. From it a file that is whole never changes
(`FilesStay`), so a reference that was right when it was taken stays right (`RefInv`). A success is
backed because its reference resolves and a quality of `pass` is only given to a fresh reading.
`FirstFileDecides` joins the two: a file nobody writes stays (`SettledStays`), and a success has a file that
says neither a failure nor a cancel (`FileForSuccess`). With the command's default run id and its
one attempt, a death during the write therefore rules out a success at that point until somebody removes the file.

Only model-checked: the two liveness properties, `HaulsResolve` and `WaiterIsServed`, which are out
of the prover's reach. Every safety and action property of a passing run is proved; the properties of
the second table are proved and stand in no `.cfg`. The five promises that the
code does not keep have TLC's counterexamples.

## 5. Not modelled, and why

* Costs, stations and the batch order of the dispatcher: planned, see below.
* Goals inside Nav2, and with them a robot that arrives after its executor gave up.
* Writes to `fleet.db` that raise in a process that goes on, and the seeding of an empty
  database. Its table `resources` is written and never read back, so there is no recovery of locks.
* The evaluators of images (pure functions of a file), the layout of reports, and the texts of
  failure reasons.
* Launch files, Gazebo worlds, robot models and relay nodes: configuration and stateless
  message forwarding.
* The legacy dispatcher: a prototype outside the installed package.

## 6. Plan

* `Dispatcher`: costs, priorities, unknown stations, and `dispatch_tasks`, which stops at the
  first task that finds no robot.
