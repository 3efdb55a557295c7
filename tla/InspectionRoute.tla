--------------------------- MODULE InspectionRoute ---------------------------
(***************************************************************************)
(* The inspection route executor (inspection/executor.py): it drives a     *)
(* robot to each point of a route, takes a fresh image there               *)
(* (inspection/image_capture.py), evaluates it, and leaves files and rows  *)
(* (inspection/store.py) of what it found.                                 *)
(*                                                                         *)
(* The executor is one process at a time; it may die at any moment.  The   *)
(* camera node is not spun while the robot moves, so images and clock      *)
(* messages wait in its queues meanwhile.  ROS time is counted from the    *)
(* start of the process.  Poses, pixels and wall-clock times are left out. *)
(***************************************************************************)
EXTENDS Naturals, Sequences

CONSTANTS
  RunIds,   \* run identifiers
  None,     \* nothing, or not yet
  N,        \* the points of the route are 1..N, in their sequence
  Depth,    \* the depth of the image subscription's queue
  MaxTime   \* bound: ROS time at the end of a run

ASSUME RouteIsNotEmpty == N \in Nat \ {0}

ASSUME BoundsAreNat == {Depth, MaxTime} \subseteq Nat

ASSUME NoneIsNoNumber == None \notin Nat

Points == 1..N
Places == 0..N   \* where the robot is; 0 is on the way

PointStatus == {"succeeded", "navigation_failed", "acquisition_failed",
                "data_invalid", "evaluation_failed"}

RunStatus == {"running", "succeeded", "failed"}

ASSUME NoneIsNoStatus == None \notin PointStatus \cup RunStatus

Steps == {"preflight", "navigate", "moving", "stabilize", "boundary", "capture",
          "validate", "evaluate", "persist", "finish"}

VARIABLES
  now,      \* external: ROS time
  place,    \* external: where the robot is
  arrived,  \* external: the time it came to rest there
  clock,    \* the newest /clock message that has reached the camera node
  frames,   \* the images that wait in the camera node's queue
  seen,     \* the camera node's clock: the last /clock message it processed
  job,      \* the run in progress, or None
  runRows,  \* the table inspection_runs
  rows,     \* the table inspection_point_results
  files,    \* result.json of each point: its status
  images,   \* rgb.png of each point: the place the image shows
  reports   \* report.json of each run: its status

world  == <<now, place, arrived>>
camera == <<clock, frames, seen>>
stored == <<runRows, rows, files, images, reports>>

routeVars == <<world, camera, job, stored>>

-----------------------------------------------------------------------------
Frame == [stamp : 0..MaxTime, place : Places]

Job == [run      : RunIds,
        point    : Points,
        step     : Steps,
        boundary : 0..MaxTime,
        shows    : Places \cup {None},
        results  : Seq(PointStatus)]

ASSUME NoneIsNoJob == None \notin Job

PerPoint(S) == [RunIds -> [Points -> S \cup {None}]]

RouteTypeOK ==
  /\ now \in 0..MaxTime /\ arrived \in 0..MaxTime /\ place \in Places
  /\ clock \in 0..MaxTime /\ seen \in 0..MaxTime
  /\ frames \in Seq(Frame) /\ Len(frames) <= Depth
  /\ job \in Job \cup {None}
  /\ runRows \in [RunIds -> RunStatus \cup {None}]
  /\ rows \in PerPoint(PointStatus)
  /\ files \in PerPoint(PointStatus)
  /\ images \in PerPoint(Places)
  /\ reports \in [RunIds -> RunStatus \cup {None}]

-----------------------------------------------------------------------------
At(step) == job # None /\ job.step = step

Goto(step) == job' = [job EXCEPT !.step = step]

Failure(status) == status # "succeeded"

(* Mutants: the route does not stop at its last point; it goes on after a  *)
(* point that failed.                                                      *)
AfterPointPast(status) ==
  LET done == Append(job.results, status)
  IN  IF ~Failure(status) /\ job.point <= N
      THEN [job EXCEPT !.results = done, !.step = "navigate", !.point = @ + 1]
      ELSE [job EXCEPT !.results = done, !.step = "persist"]

AfterFailed(status) ==
  LET done == Append(job.results, status)
  IN  IF job.point < N
      THEN [job EXCEPT !.results = done, !.step = "navigate", !.point = @ + 1]
      ELSE [job EXCEPT !.results = done, !.step = "persist"]

(* point_results.append: the route goes on with the next point, or ends    *)
(* here if the point failed or was the last one.                           *)
AfterPoint(status) ==
  LET done == Append(job.results, status)
  IN  IF ~Failure(status) /\ job.point < N
      THEN [job EXCEPT !.results = done, !.step = "navigate", !.point = @ + 1]
      ELSE [job EXCEPT !.results = done, !.step = "persist"]

PointFails(status) ==
  /\ job' = AfterPoint(status)
  /\ UNCHANGED stored

-----------------------------------------------------------------------------
(* The world outside the process.                                          *)

KeepLast(queue) == IF Len(queue) > Depth THEN Tail(queue) ELSE queue

(* Time passes; a /clock message and an image are published and may be     *)
(* lost on their way.                                                      *)
Tick ==
  /\ job # None
  /\ now < MaxTime
  /\ now' = now + 1
  /\ clock' \in {clock, now'}
  /\ frames' \in {frames, KeepLast(Append(frames, [stamp |-> now', place |-> place]))}
  /\ UNCHANGED <<place, arrived, seen, job, stored>>

-----------------------------------------------------------------------------
(* run_inspection_route.                                                   *)

(* Mutant: the row of an earlier run of this id is replaced.               *)
StartRunAgain(run) ==
  /\ job = None
  /\ runRows' = [runRows EXCEPT ![run] = "running"]
  /\ job' = [run |-> run, point |-> 1, step |-> "preflight", boundary |-> 0,
             shows |-> None, results |-> <<>>]
  /\ UNCHANGED <<world, camera, rows, files, images, reports>>

(* start_run inserts the row; an id that is in use raises.                 *)
StartRun(run) ==
  /\ job = None
  /\ runRows[run] = None
  /\ runRows' = [runRows EXCEPT ![run] = "running"]
  /\ job' = [run |-> run, point |-> 1, step |-> "preflight", boundary |-> 0,
             shows |-> None, results |-> <<>>]
  /\ UNCHANGED <<world, camera, rows, files, images, reports>>

PreflightPasses ==
  /\ At("preflight")
  /\ Goto("navigate")
  /\ UNCHANGED <<world, camera, stored>>

(* Nav2 or the camera is not ready: a failed report without points.        *)
PreflightFails ==
  /\ At("preflight")
  /\ reports' = [reports EXCEPT ![job.run] = "failed"]
  /\ Goto("finish")
  /\ UNCHANGED <<world, camera, runRows, rows, files, images>>

SendGoal ==
  /\ At("navigate")
  /\ place' = 0
  /\ Goto("moving")
  /\ UNCHANGED <<now, arrived, camera, stored>>

NavigationSucceeds ==
  /\ At("moving")
  /\ place' = job.point
  /\ arrived' = now
  /\ Goto("stabilize")
  /\ UNCHANGED <<now, camera, stored>>

NavigationFails ==
  /\ At("moving")
  /\ PointFails("navigation_failed")
  /\ UNCHANGED <<world, camera>>

(* stabilization_sec is long enough for at least one /clock message to     *)
(* reach the camera node after the robot has come to rest.                 *)
Stabilize ==
  /\ At("stabilize")
  /\ clock >= arrived
  /\ Goto("boundary")
  /\ UNCHANGED <<world, camera, stored>>

-----------------------------------------------------------------------------
(* RosImageCapture.  Each spin of the node processes one message that      *)
(* waits for it, of either subscription; check_ready spins it as well,     *)
(* while it waits for a publisher.                                         *)

Spinning == At("preflight") \/ At("boundary") \/ At("capture")

(* Mutant: the boundary is the time the node has seen before it spins.     *)
BoundaryUnspun ==
  /\ At("boundary")
  /\ job' = [job EXCEPT !.boundary = seen, !.step = "capture"]
  /\ UNCHANGED <<world, camera, stored>>

(* current_ros_time_ns returns when the node's clock has moved on: the     *)
(* first clock message it processes is the boundary.                       *)
TakeBoundary ==
  /\ At("boundary")
  /\ clock # seen
  /\ seen' = clock
  /\ job' = [job EXCEPT !.boundary = clock, !.step = "capture"]
  /\ UNCHANGED <<world, clock, frames, stored>>

SpinClock ==
  /\ Spinning
  /\ clock # seen
  /\ seen' = clock
  /\ UNCHANGED <<world, clock, frames, job, stored>>

(* What was received before the boundary was taken has been processed by   *)
(* then or is older than it.                                               *)
Fresh(frame) == frame.stamp > job.boundary

SpinImage ==
  /\ Spinning
  /\ frames # <<>>
  /\ frames' = Tail(frames)
  /\ IF At("capture") /\ Fresh(Head(frames))
     THEN job' = [job EXCEPT !.shows = Head(frames).place, !.step = "validate"]
     ELSE UNCHANGED job
  /\ UNCHANGED <<world, clock, seen, stored>>

(* No publisher, no clock in time, or no fresh image in time.              *)
CaptureFails ==
  /\ At("boundary") \/ At("capture")
  /\ PointFails("acquisition_failed")
  /\ UNCHANGED <<world, camera>>

-----------------------------------------------------------------------------
(* The image is decoded and written, evaluated, and the result written.    *)

ValidateFails ==
  /\ At("validate")
  /\ PointFails("data_invalid")
  /\ UNCHANGED <<world, camera>>

WriteImage ==
  /\ At("validate")
  /\ images' = [images EXCEPT ![job.run][job.point] = job.shows]
  /\ Goto("evaluate")
  /\ UNCHANGED <<world, camera, runRows, rows, files, reports>>

EvaluateFails ==
  /\ At("evaluate")
  /\ PointFails("evaluation_failed")
  /\ UNCHANGED <<world, camera>>

WriteResult ==
  /\ At("evaluate")
  /\ files' = [files EXCEPT ![job.run][job.point] = "succeeded"]
  /\ job' = AfterPoint("succeeded")
  /\ UNCHANGED <<world, camera, runRows, rows, images, reports>>

-----------------------------------------------------------------------------
(* What the run has found is persisted at its end, point by point.         *)

Results == DOMAIN job.results

Unpersisted == {p \in Results : rows[job.run][p] = None}

IsNext(p) == p \in Unpersisted /\ \A q \in Unpersisted : p <= q

(* A failed point has no result.json yet.                                  *)
WriteFailedResult(p) ==
  /\ At("persist")
  /\ IsNext(p)
  /\ files[job.run][p] = None
  /\ files' = [files EXCEPT ![job.run][p] = job.results[p]]
  /\ UNCHANGED <<world, camera, job, runRows, rows, images, reports>>

PersistPointResult(p) ==
  /\ At("persist")
  /\ IsNext(p)
  /\ files[job.run][p] # None
  /\ rows' = [rows EXCEPT ![job.run][p] = job.results[p]]
  /\ UNCHANGED <<world, camera, job, runRows, files, images, reports>>

Verdict ==
  IF Len(job.results) = N /\ \A p \in Results : ~Failure(job.results[p])
  THEN "succeeded" ELSE "failed"

(* Mutant: the report does not wait for the rows.                          *)
WriteReportEarly ==
  /\ At("persist")
  /\ reports' = [reports EXCEPT ![job.run] = Verdict]
  /\ Goto("finish")
  /\ UNCHANGED <<world, camera, runRows, rows, files, images>>

WriteReport ==
  /\ At("persist")
  /\ Unpersisted = {}
  /\ reports' = [reports EXCEPT ![job.run] = Verdict]
  /\ Goto("finish")
  /\ UNCHANGED <<world, camera, runRows, rows, files, images>>

(* The process ends: its camera node and its clock go with it.             *)
EndProcess ==
  /\ job' = None
  /\ now' = 0 /\ arrived' = 0 /\ UNCHANGED place
  /\ clock' = 0 /\ seen' = 0 /\ frames' = <<>>

FinishRun ==
  /\ At("finish")
  /\ runRows' = [runRows EXCEPT ![job.run] = reports[job.run]]
  /\ EndProcess
  /\ UNCHANGED <<rows, files, images, reports>>

(* The process dies, or a write to a file or to the database raises.       *)
Crash ==
  /\ job # None
  /\ EndProcess
  /\ UNCHANGED stored

-----------------------------------------------------------------------------
RouteInit ==
  /\ now = 0 /\ arrived = 0 /\ place = 0
  /\ clock = 0 /\ seen = 0 /\ frames = <<>>
  /\ job = None
  /\ runRows = [run \in RunIds |-> None]
  /\ reports = [run \in RunIds |-> None]
  /\ rows = [run \in RunIds |-> [p \in Points |-> None]]
  /\ files = [run \in RunIds |-> [p \in Points |-> None]]
  /\ images = [run \in RunIds |-> [p \in Points |-> None]]

Drive == SendGoal \/ NavigationSucceeds \/ NavigationFails \/ Stabilize

Capture == TakeBoundary \/ SpinClock \/ SpinImage \/ CaptureFails

Inspect == ValidateFails \/ WriteImage \/ EvaluateFails \/ WriteResult

Persist ==
  \/ \E p \in Points : WriteFailedResult(p) \/ PersistPointResult(p)
  \/ WriteReport
  \/ FinishRun

RouteNext ==
  \/ \E run \in RunIds : StartRun(run)
  \/ PreflightPasses
  \/ PreflightFails
  \/ Drive
  \/ Capture
  \/ Inspect
  \/ Persist
  \/ Tick
  \/ Crash

RouteSpec == RouteInit /\ [][RouteNext]_routeVars

-----------------------------------------------------------------------------
(* Correctness properties.                                                 *)

(* The image kept for a point was taken at that point, although images of  *)
(* the way there wait in the queue when it is captured.                    *)
ImageShowsPoint ==
  \A run \in RunIds, p \in Points : images[run][p] \in {None, p}

(* A point has a row only if the points before it have succeeded, and a    *)
(* row of a point that succeeded has its image and its file.               *)
RowsFollowRoute ==
  \A run \in RunIds, p \in Points :
    rows[run][p] # None =>
      /\ files[run][p] = rows[run][p]
      /\ \A q \in 1..(p - 1) : rows[run][q] = "succeeded"
      /\ ~Failure(rows[run][p]) => images[run][p] # None

(* A finished run has a report that agrees with it, and it has succeeded   *)
(* exactly if every point of the route has a row that says so; whatever    *)
(* crashes came in between.                                                *)
FinishedIsBacked ==
  \A run \in RunIds :
    runRows[run] \in {"succeeded", "failed"} =>
      /\ reports[run] = runRows[run]
      /\ runRows[run] = "succeeded" <=>
           \A p \in Points : rows[run][p] = "succeeded"

(* A run nobody works on any more, finished or abandoned in a crash, keeps *)
(* its rows and its files as they are; no later run touches them.          *)
DeadRunsStay ==
  [][ \A run \in RunIds :
        runRows[run] # None /\ (job = None \/ job.run # run) =>
          /\ runRows'[run] = runRows[run]
          /\ rows'[run] = rows[run]
          /\ files'[run] = files[run]
          /\ images'[run] = images[run]
          /\ reports'[run] = reports[run] ]_routeVars

=============================================================================
