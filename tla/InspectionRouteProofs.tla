------------------------ MODULE InspectionRouteProofs ------------------------
(* Theorems about InspectionRoute, for any runs, any number of points, any *)
(* depth of the image queue and any crashes.                               *)
EXTENDS InspectionRoute, TLAPS

(* The number of points and the bounds are natural numbers.                *)
LEMMA Numbers == N \in Nat \ {0} /\ Depth \in Nat /\ MaxTime \in Nat
BY RouteIsNotEmpty, BoundsAreNat

-----------------------------------------------------------------------------
(* The operators the executor is built from.                               *)

(* The image queue keeps its depth, and what is in it was in it or is new. *)
LEMMA KeepLastFrames ==
  ASSUME NEW queue \in Seq(Frame), Len(queue) <= Depth, NEW frame \in Frame
  PROVE  LET kept == KeepLast(Append(queue, frame))
         IN  /\ kept \in Seq(Frame) /\ Len(kept) <= Depth
             /\ \A i \in DOMAIN kept :
                  kept[i] = frame \/ \E j \in DOMAIN queue : kept[i] = queue[j]
<1> DEFINE long == Append(queue, frame)
<1>1. /\ long \in Seq(Frame) /\ Len(long) = Len(queue) + 1 /\ Len(queue) \in Nat
      /\ DOMAIN long = 1 .. Len(queue) + 1 /\ DOMAIN queue = 1 .. Len(queue)
      /\ long[Len(queue) + 1] = frame
      /\ \A i \in 1 .. Len(queue) : long[i] = queue[i]
  OBVIOUS
<1>2. \A i \in DOMAIN long : long[i] = frame \/ \E j \in DOMAIN queue : long[i] = queue[j]
  BY <1>1
<1> HIDE DEF long
<1>3. CASE Len(long) > Depth
  <2>1. /\ Tail(long) \in Seq(Frame) /\ Len(Tail(long)) = Len(long) - 1
        /\ DOMAIN Tail(long) = 1 .. Len(long) - 1
        /\ \A i \in 1 .. Len(long) - 1 : Tail(long)[i] = long[i + 1]
    BY <1>1
  <2>2. \A i \in DOMAIN Tail(long) : i + 1 \in DOMAIN long /\ Tail(long)[i] = long[i + 1]
    BY <1>1, <2>1
  <2>3. Len(Tail(long)) <= Depth
    BY <1>1, <2>1, Numbers
  <2>4. KeepLast(long) = Tail(long)
    BY <1>3 DEF KeepLast
  <2> QED BY <1>2, <2>1, <2>2, <2>3, <2>4 DEF long
<1>4. CASE ~(Len(long) > Depth)
  <2>1. KeepLast(long) = long /\ Len(long) <= Depth
    BY <1>1, <1>4, Numbers DEF KeepLast
  <2> QED BY <1>1, <1>2, <2>1 DEF long
<1> QED BY <1>3, <1>4

(* The image taken from the queue, and those that stay, were in it.        *)
LEMMA TailFrames ==
  ASSUME NEW queue \in Seq(Frame), Len(queue) <= Depth, queue # <<>>
  PROVE  /\ Tail(queue) \in Seq(Frame) /\ Len(Tail(queue)) <= Depth
         /\ 1 \in DOMAIN queue /\ Head(queue) = queue[1] /\ Head(queue) \in Frame
         /\ \A i \in DOMAIN Tail(queue) : \E j \in DOMAIN queue : Tail(queue)[i] = queue[j]
<1>1. /\ Tail(queue) \in Seq(Frame) /\ Len(Tail(queue)) = Len(queue) - 1
      /\ Len(queue) \in Nat \ {0} /\ DOMAIN queue = 1 .. Len(queue)
      /\ DOMAIN Tail(queue) = 1 .. Len(queue) - 1
      /\ Head(queue) = queue[1] /\ Head(queue) \in Frame
      /\ \A i \in 1 .. Len(queue) - 1 : Tail(queue)[i] = queue[i + 1]
  OBVIOUS
<1>2. \A i \in DOMAIN Tail(queue) : i + 1 \in DOMAIN queue /\ Tail(queue)[i] = queue[i + 1]
  BY <1>1
<1>3. Len(Tail(queue)) <= Depth /\ 1 \in DOMAIN queue
  BY <1>1, Numbers
<1> QED BY <1>1, <1>2, <1>3

(* One cell of a table per run and point is written.                       *)
LEMMA CellWritten ==
  ASSUME NEW S, NEW table \in PerPoint(S), NEW run \in RunIds, NEW p \in Points,
         NEW value \in S \cup {None}
  PROVE  LET new == [table EXCEPT ![run][p] = value]
         IN  /\ new \in PerPoint(S)
             /\ new[run][p] = value
             /\ \A other \in RunIds \ {run} : new[other] = table[other]
             /\ \A q \in Points \ {p} : new[run][q] = table[run][q]
BY DEF PerPoint

(* The job in hand.                                                        *)
LEMMA JobInHand ==
  ASSUME RouteTypeOK, job # None
  PROVE  /\ job \in Job /\ job.run \in RunIds /\ job.point \in Points
         /\ job.results \in Seq(PointStatus) /\ Len(job.results) \in Nat
         /\ DOMAIN job.results = 1 .. Len(job.results)
BY DEF RouteTypeOK, Job

(* A step that only moves the program counter.                             *)
LEMMA WentTo ==
  ASSUME RouteTypeOK, job # None, NEW step \in Steps, Goto(step)
  PROVE  /\ job' \in Job /\ job'.step = step
         /\ job'.run = job.run /\ job'.point = job.point
         /\ job'.results = job.results /\ job'.boundary = job.boundary
         /\ job'.shows = job.shows
BY JobInHand DEF Goto, Job

(* The result of a point is appended; the route goes on or ends.           *)
LEMMA PointDone ==
  ASSUME RouteTypeOK, job # None, NEW status \in PointStatus, job' = AfterPoint(status)
  PROVE  /\ job' \in Job /\ job'.run = job.run
         /\ job'.results = Append(job.results, status)
         /\ \/ /\ job'.step = "navigate" /\ job'.point = job.point + 1
               /\ status = "succeeded" /\ job.point < N
            \/ job'.step = "persist"
<1> DEFINE done == Append(job.results, status)
<1>1. done \in Seq(PointStatus)
  BY JobInHand
<1> HIDE DEF done
<1>2. CASE ~Failure(status) /\ job.point < N
  <2>1. job' = [job EXCEPT !.results = done, !.step = "navigate", !.point = @ + 1]
    BY <1>2 DEF AfterPoint, done
  <2>2. job.point + 1 \in Points
    BY <1>2, JobInHand, Numbers DEF Points
  <2> QED BY <1>1, <1>2, <2>1, <2>2, JobInHand DEF Job, Steps, Failure, done
<1>3. CASE ~(~Failure(status) /\ job.point < N)
  <2>1. job' = [job EXCEPT !.results = done, !.step = "persist"]
    BY <1>3 DEF AfterPoint, done
  <2> QED BY <1>1, <2>1, JobInHand DEF Job, Steps, done
<1> QED BY <1>2, <1>3

-----------------------------------------------------------------------------
(* Types.                                                                  *)

(* What the process leaves behind when it ends is of its type.             *)
LEMMA TypeEnd ==
  ASSUME RouteTypeOK, EndProcess,
         runRows' \in [RunIds -> RunStatus \cup {None}],
         UNCHANGED <<rows, files, images, reports>>
  PROVE  RouteTypeOK'
<1>1. 0 \in 0 .. MaxTime /\ <<>> \in Seq(Frame) /\ Len(<<>>) <= Depth
  BY Numbers
<1> QED BY <1>1 DEF RouteTypeOK, EndProcess

(* Time, the camera and the robot keep the types.                          *)
LEMMA TypeWorld ==
  ASSUME RouteTypeOK,
         Tick \/ SendGoal \/ NavigationSucceeds \/ Stabilize
           \/ TakeBoundary \/ SpinClock \/ SpinImage
  PROVE  RouteTypeOK'
<1> USE DEF RouteTypeOK, stored
<1>1. 0 \in 0 .. MaxTime /\ 0 \in Places /\ Points \subseteq Places
  BY Numbers DEF Places, Points
<1>2. CASE Tick
  <2>1. now + 1 \in 0 .. MaxTime
    BY <1>2, Numbers DEF Tick
  <2>2. [stamp |-> now', place |-> place] \in Frame
    BY <1>2, <2>1 DEF Tick, Frame
  <2>3. frames' \in Seq(Frame) /\ Len(frames') <= Depth
    BY <1>2, <2>2, KeepLastFrames DEF Tick
  <2> QED BY <1>2, <2>1, <2>3 DEF Tick
<1>3. CASE SendGoal
  BY <1>1, <1>3, WentTo DEF SendGoal, At, Steps, camera
<1>4. CASE NavigationSucceeds
  BY <1>1, <1>4, JobInHand, WentTo DEF NavigationSucceeds, At, Steps, camera
<1>5. CASE Stabilize
  BY <1>5, WentTo DEF Stabilize, At, Steps, camera, world
<1>6. CASE TakeBoundary
  <2>1. job' \in Job
    BY <1>6, JobInHand DEF TakeBoundary, At, Job, Steps
  <2> QED BY <1>6, <2>1 DEF TakeBoundary, world
<1>7. CASE SpinClock
  BY <1>7 DEF SpinClock, world
<1>8. CASE SpinImage
  <2>1. /\ frames' \in Seq(Frame) /\ Len(frames') <= Depth
        /\ Head(frames).place \in Places
    BY <1>8, TailFrames DEF SpinImage, Frame
  <2>2. CASE UNCHANGED job
    BY <1>8, <2>1, <2>2 DEF SpinImage, world
  <2>3. CASE At("capture") /\ job' = [job EXCEPT !.shows = Head(frames).place,
                                                 !.step = "validate"]
    <3>1. job' \in Job
      BY <2>1, <2>3, JobInHand DEF At, Job, Steps
    <3> QED BY <1>8, <2>1, <3>1 DEF SpinImage, world
  <2> QED BY <1>8, <2>2, <2>3 DEF SpinImage
<1> QED BY <1>2, <1>3, <1>4, <1>5, <1>6, <1>7, <1>8

(* The executor's own steps keep the types.                                *)
LEMMA TypeExecutor ==
  ASSUME RouteTypeOK,
         \/ \E run \in RunIds : StartRun(run)
         \/ PreflightPasses \/ PreflightFails \/ NavigationFails \/ CaptureFails
         \/ Inspect \/ Persist \/ Crash
  PROVE  RouteTypeOK'
<1> USE DEF RouteTypeOK, stored, world, camera
<1>1. ASSUME NEW run \in RunIds, StartRun(run) PROVE RouteTypeOK'
  <2>1. job' \in Job
    <3>1. 0 \in 0 .. MaxTime /\ 1 \in Points /\ <<>> \in Seq(PointStatus)
      BY Numbers DEF Points
    <3> QED BY <1>1, <3>1 DEF StartRun, Job, Steps
  <2> QED BY <1>1, <2>1 DEF StartRun, RunStatus
<1>2. CASE PreflightPasses \/ PreflightFails
  <2>1. job' \in Job
    BY <1>2, WentTo DEF PreflightPasses, PreflightFails, At, Steps
  <2>2. reports' \in [RunIds -> RunStatus \cup {None}]
    BY <1>2 DEF PreflightPasses, PreflightFails, RunStatus
  <2> QED BY <1>2, <2>1, <2>2 DEF PreflightPasses, PreflightFails
<1>3. ASSUME NEW status \in PointStatus, job # None, PointFails(status),
             UNCHANGED <<world, camera>>
      PROVE  RouteTypeOK'
  BY <1>3, PointDone DEF PointFails
<1>4. CASE NavigationFails \/ CaptureFails \/ ValidateFails \/ EvaluateFails
  BY <1>3, <1>4
     DEF NavigationFails, CaptureFails, ValidateFails, EvaluateFails, At, PointStatus
<1>5. CASE WriteImage
  <2>1. job.shows \in Places \cup {None} /\ At("validate") /\ job # None
    BY <1>5, JobInHand DEF WriteImage, At, Job
  <2>2. images' \in PerPoint(Places)
    BY <1>5, <2>1, JobInHand, CellWritten DEF WriteImage
  <2>3. job' \in Job
    BY <1>5, <2>1, WentTo DEF WriteImage, Steps
  <2> QED BY <1>5, <2>2, <2>3 DEF WriteImage
<1>6. CASE WriteResult
  <2>1. files' \in PerPoint(PointStatus)
    BY <1>6, JobInHand, CellWritten DEF WriteResult, At, PointStatus
  <2>2. job' \in Job
    BY <1>6, PointDone DEF WriteResult, At, PointStatus
  <2> QED BY <1>6, <2>1, <2>2 DEF WriteResult
<1>7. ASSUME NEW p \in Points, WriteFailedResult(p) \/ PersistPointResult(p)
      PROVE  RouteTypeOK'
  <2>1. job # None /\ p \in DOMAIN job.results
    BY <1>7 DEF WriteFailedResult, PersistPointResult, At, IsNext, Unpersisted, Results
  <2>2. job.results[p] \in PointStatus /\ job.run \in RunIds
    BY <2>1, JobInHand
  <2>3. CASE WriteFailedResult(p)
    <3>1. files' \in PerPoint(PointStatus)
      <4>1. /\ files \in PerPoint(PointStatus)
            /\ files' = [files EXCEPT ![job.run][p] = job.results[p]]
        BY <2>3 DEF WriteFailedResult, RouteTypeOK
      <4> QED BY <2>2, <4>1, CellWritten
    <3> QED BY <2>3, <3>1 DEF WriteFailedResult
  <2>4. CASE PersistPointResult(p)
    <3>1. rows' \in PerPoint(PointStatus)
      BY <2>2, <2>4, CellWritten DEF PersistPointResult
    <3> QED BY <2>4, <3>1 DEF PersistPointResult
  <2> QED BY <1>7, <2>3, <2>4
<1>8. CASE WriteReport
  <2>1. Verdict \in RunStatus
    BY DEF Verdict, RunStatus
  <2> QED BY <1>8, <2>1, JobInHand, WentTo DEF WriteReport, At, Steps
<1>9. CASE FinishRun
  BY <1>9, TypeEnd, JobInHand DEF FinishRun, At
<1>10. CASE Crash
  BY <1>10, TypeEnd DEF Crash
<1> QED
  BY <1>1, <1>2, <1>4, <1>5, <1>6, <1>7, <1>8, <1>9, <1>10 DEF Inspect, Persist

(* Every step keeps the types.                                             *)
LEMMA RouteTypeStep == RouteTypeOK /\ [RouteNext]_routeVars => RouteTypeOK'
<1> SUFFICES ASSUME RouteTypeOK, [RouteNext]_routeVars PROVE RouteTypeOK'
  OBVIOUS
<1>1. CASE UNCHANGED routeVars
  BY <1>1 DEF routeVars, world, camera, stored, RouteTypeOK
<1> QED BY <1>1, TypeWorld, TypeExecutor DEF RouteNext, Drive, Capture, Inspect

(* The initial state is of its type.                                       *)
LEMMA RouteTypeInit == RouteInit => RouteTypeOK
<1>1. 0 \in 0 .. MaxTime /\ 0 \in Places /\ <<>> \in Seq(Frame) /\ Len(<<>>) <= Depth
  BY Numbers DEF Places
<1> QED BY <1>1 DEF RouteInit, RouteTypeOK, PerPoint

(* RouteTypeOK for any route, queue and time: the queue of images never    *)
(* grows past its depth, and the tables only hold what they may.           *)
THEOREM RouteTypeCorrect == RouteSpec => []RouteTypeOK
BY RouteTypeInit, RouteTypeStep, PTL DEF RouteSpec

-----------------------------------------------------------------------------
(* A step only touches the run in hand.                                    *)

Untouched(run) ==
  /\ rows'[run] = rows[run] /\ files'[run] = files[run]
  /\ images'[run] = images[run] /\ reports'[run] = reports[run]

(* What it does to any other run is at most to start it.                   *)
LEMMA OnlyOwnRun ==
  ASSUME RouteTypeOK, [RouteNext]_routeVars, NEW run \in RunIds,
         job = None \/ job.run # run
  PROVE  /\ Untouched(run)
         /\ \/ runRows'[run] = runRows[run]
            \/ runRows[run] = None /\ runRows'[run] = "running"
<1> DEFINE Goal == /\ Untouched(run)
                   /\ \/ runRows'[run] = runRows[run]
                      \/ runRows[run] = None /\ runRows'[run] = "running"
<1> USE DEF RouteTypeOK
<1>1. CASE UNCHANGED stored
  BY <1>1 DEF stored, Untouched
<1>2. ASSUME NEW new \in RunIds, StartRun(new) PROVE Goal
  BY <1>2 DEF StartRun, Untouched
<1>3. CASE PreflightFails \/ WriteReport
  BY <1>3 DEF PreflightFails, WriteReport, At, Untouched
<1>4. CASE WriteImage
  BY <1>4, JobInHand DEF WriteImage, At, PerPoint, Untouched
<1>5. CASE WriteResult
  BY <1>5, JobInHand DEF WriteResult, At, PerPoint, Untouched
<1>6. ASSUME NEW p \in Points, WriteFailedResult(p) \/ PersistPointResult(p) PROVE Goal
  BY <1>6, JobInHand DEF WriteFailedResult, PersistPointResult, At, PerPoint, Untouched
<1>7. CASE FinishRun
  BY <1>7 DEF FinishRun, At, Untouched
<1>8. CASE PreflightPasses \/ Drive \/ Capture \/ Tick \/ Crash
          \/ ValidateFails \/ EvaluateFails
          \/ UNCHANGED routeVars
  <2>1. UNCHANGED stored
    BY <1>8
       DEF PreflightPasses, Drive, SendGoal, NavigationSucceeds, NavigationFails,
           Stabilize, Capture, TakeBoundary, SpinClock, SpinImage, CaptureFails, Tick,
           Crash, ValidateFails, EvaluateFails, PointFails, routeVars, stored
  <2> QED BY <1>1, <2>1
<1> QED
  BY <1>2, <1>3, <1>4, <1>5, <1>6, <1>7, <1>8 DEF RouteNext, Inspect, Persist

(* DeadRunsStay for any runs: neither a later run nor a crash changes what *)
(* a finished or abandoned run has left behind.                            *)
THEOREM DeadRunsAreKept == RouteSpec => DeadRunsStay
<1>1. RouteTypeOK /\ [RouteNext]_routeVars =>
        [ \A run \in RunIds :
        runRows[run] # None /\ (job = None \/ job.run # run) =>
          /\ runRows'[run] = runRows[run]
          /\ rows'[run] = rows[run]
          /\ files'[run] = files[run]
          /\ images'[run] = images[run]
          /\ reports'[run] = reports[run] ]_routeVars
  BY OnlyOwnRun DEF Untouched
<1> QED BY <1>1, RouteTypeCorrect, PTL DEF RouteSpec, DeadRunsStay

-----------------------------------------------------------------------------
(* What the camera sees.                                                   *)

Clocks ==
  /\ clock <= now /\ arrived <= now
  /\ \A i \in DOMAIN frames : frames[i].stamp <= now

Resting == {"stabilize", "boundary", "capture", "validate", "evaluate"}

(* While the robot rests at its point, an image in the queue that is newer *)
(* than its arrival shows the point, and the boundary is not older than    *)
(* the arrival; so an image newer than the boundary shows the point.       *)
Sight ==
  job # None =>
    /\ job.step \in Resting =>
         /\ place = job.point
         /\ \A i \in DOMAIN frames :
              frames[i].stamp > arrived => frames[i].place = job.point
    /\ job.step = "boundary" => arrived <= clock
    /\ job.step = "capture" => arrived <= job.boundary
    /\ job.step = "validate" => job.shows = job.point

SightInv == Clocks /\ Sight

(* The times are numbers.                                                  *)
LEMMA Times ==
  ASSUME RouteTypeOK
  PROVE  /\ now \in Nat /\ arrived \in Nat /\ clock \in Nat
         /\ frames \in Seq(Frame) /\ Len(frames) <= Depth
         /\ \A i \in DOMAIN frames : frames[i] \in Frame /\ frames[i].stamp \in Nat
         /\ job # None => job.boundary \in Nat
<1>1. \A i \in DOMAIN frames : frames[i] \in Frame
  BY DEF RouteTypeOK
<1> QED BY <1>1, Numbers DEF RouteTypeOK, Frame, Job

(* Time passes and an image of the place of the robot comes in.            *)
LEMMA SightTick ==
  ASSUME RouteTypeOK, SightInv, Tick
  PROVE  SightInv'
<1> USE DEF SightInv
<1> DEFINE new == [stamp |-> now', place |-> place]
<1>1. now' = now + 1 /\ place' = place /\ arrived' = arrived /\ job' = job
      /\ clock' \in {clock, now'}
  BY DEF Tick
<1>2. new \in Frame /\ new.stamp = now + 1 /\ new.place = place
  BY <1>1, Numbers DEF Tick, Frame, RouteTypeOK
<1>3. \A i \in DOMAIN frames' :
        frames'[i] = new \/ \E j \in DOMAIN frames : frames'[i] = frames[j]
  <2> HIDE DEF new
  <2>1. CASE frames' = frames
    BY <2>1
  <2>2. CASE frames' = KeepLast(Append(frames, new))
    BY <1>2, <2>2, Times, KeepLastFrames
  <2> QED BY <2>1, <2>2 DEF Tick, new
<1> HIDE DEF new
<1>4. Clocks'
  BY <1>1, <1>2, <1>3, Times DEF Clocks
<1>5. Sight'
  BY <1>1, <1>2, <1>3, Times DEF Sight, Clocks
<1> QED BY <1>4, <1>5

(* A step that leaves the world and the camera alone, or takes an image    *)
(* from the queue, keeps the clocks.                                       *)
LEMMA ClocksKept ==
  ASSUME RouteTypeOK, Clocks, now' = now, clock' = clock,
         arrived' \in {arrived, now},
         \A i \in DOMAIN frames' : \E j \in DOMAIN frames : frames'[i] = frames[j]
  PROVE  Clocks'
BY Times DEF Clocks

(* A step to somewhere the robot need not rest.                            *)
LEMMA SightElsewhere ==
  ASSUME Clocks', job' = None \/ job'.step \notin Resting
  PROVE  SightInv'
BY DEF SightInv, Sight, Resting

(* Every step keeps it.                                                    *)
LEMMA SightStep ==
  ASSUME RouteTypeOK, SightInv, [RouteNext]_routeVars
  PROVE  SightInv'
<1> USE DEF SightInv
<1>1. UNCHANGED <<now, clock, arrived, frames>> => Clocks'
  BY DEF Clocks
<1>2. CASE UNCHANGED routeVars
  BY <1>1, <1>2 DEF routeVars, world, camera, Sight
<1>3. ASSUME NEW run \in RunIds, StartRun(run) PROVE SightInv'
  BY <1>1, <1>3, SightElsewhere DEF StartRun, world, camera, Resting
<1>4. CASE PreflightPasses \/ PreflightFails \/ SendGoal
  <2>1. job'.step \notin Resting
    BY <1>4, WentTo DEF PreflightPasses, PreflightFails, SendGoal, At, Steps, Resting
  <2> QED BY <1>1, <1>4, <2>1, SightElsewhere
             DEF PreflightPasses, PreflightFails, SendGoal, world, camera
<1>5. CASE NavigationSucceeds
  <2>1. job'.step = "stabilize" /\ job'.point = job.point
    BY <1>5, WentTo DEF NavigationSucceeds, At, Steps
  <2>2. arrived' = now /\ place' = job.point /\ UNCHANGED <<now, clock, frames>>
    BY <1>5 DEF NavigationSucceeds, camera
  <2>3. Clocks'
    BY <2>2, ClocksKept
  <2>4. Sight'
    BY <2>1, <2>2, Times DEF Sight, Clocks
  <2> QED BY <2>3, <2>4
<1>6. CASE Stabilize
  <2>1. job'.step = "boundary" /\ job'.point = job.point
    BY <1>6, WentTo DEF Stabilize, At, Steps
  <2>2. job # None /\ job.step = "stabilize" /\ arrived <= clock
    BY <1>6, Times DEF Stabilize, At
  <2> QED BY <1>1, <1>6, <2>1, <2>2 DEF Stabilize, world, camera, Sight, Resting
<1>7. CASE TakeBoundary
  <2>1. /\ job'.step = "capture" /\ job'.point = job.point /\ job'.boundary = clock
        /\ job # None /\ job.step = "boundary"
    BY <1>7, JobInHand DEF TakeBoundary, At, Job
  <2> QED BY <1>1, <1>7, <2>1 DEF TakeBoundary, world, Sight, Resting
<1>8. CASE SpinClock
  BY <1>1, <1>8 DEF SpinClock, world, Sight
<1>9. CASE SpinImage
  <2>1. /\ \A i \in DOMAIN frames' : \E j \in DOMAIN frames : frames'[i] = frames[j]
        /\ 1 \in DOMAIN frames /\ Head(frames) = frames[1]
    BY <1>9, Times, TailFrames DEF SpinImage
  <2>2. Clocks' /\ UNCHANGED <<place, arrived, clock>>
    BY <1>9, <2>1, ClocksKept DEF SpinImage, world
  <2>3. CASE UNCHANGED job
    BY <2>1, <2>2, <2>3 DEF Sight
  <2>4. CASE /\ At("capture") /\ Fresh(Head(frames))
             /\ job' = [job EXCEPT !.shows = Head(frames).place, !.step = "validate"]
    <3>1. /\ job'.step = "validate" /\ job'.point = job.point
          /\ job'.shows = frames[1].place
          /\ job # None /\ job.step = "capture"
      BY <2>1, <2>4, JobInHand DEF At, Job
    <3>2. frames[1].stamp > arrived
      BY <2>1, <2>4, <3>1, Times DEF Fresh, Sight
    <3> QED BY <2>1, <2>2, <3>1, <3>2 DEF Sight, Resting
  <2> QED BY <1>9, <2>3, <2>4 DEF SpinImage
<1>10. ASSUME job # None, NEW status \in PointStatus, job' = AfterPoint(status),
              UNCHANGED <<world, camera>>
       PROVE  SightInv'
  BY <1>1, <1>10, PointDone, SightElsewhere DEF world, camera, Resting
<1>11. CASE NavigationFails \/ CaptureFails \/ ValidateFails \/ EvaluateFails \/ WriteResult
  BY <1>10, <1>11
     DEF NavigationFails, CaptureFails, ValidateFails, EvaluateFails, WriteResult,
         PointFails, At, PointStatus
<1>12. CASE WriteImage
  <2>1. job'.step = "evaluate" /\ job'.point = job.point /\ job # None
        /\ job.step = "validate"
    BY <1>12, WentTo DEF WriteImage, At, Steps
  <2> QED BY <1>1, <1>12, <2>1 DEF WriteImage, world, camera, Sight, Resting
<1>13. ASSUME NEW p \in Points, WriteFailedResult(p) \/ PersistPointResult(p)
       PROVE  SightInv'
  BY <1>1, <1>13 DEF WriteFailedResult, PersistPointResult, world, camera, Sight
<1>14. CASE WriteReport
  <2>1. job'.step = "finish"
    BY <1>14, WentTo DEF WriteReport, At, Steps
  <2> QED BY <1>1, <1>14, <2>1, SightElsewhere DEF WriteReport, world, camera, Resting
<1>15. CASE FinishRun \/ Crash
  <2>1. job' = None /\ Clocks'
    BY <1>15 DEF FinishRun, Crash, EndProcess, Clocks
  <2> QED BY <2>1, SightElsewhere
<1> QED
  BY <1>2, <1>3, <1>4, <1>5, <1>6, <1>7, <1>8, <1>9, <1>11, <1>12, <1>13, <1>14,
     <1>15, SightTick
     DEF RouteNext, Drive, Capture, Inspect, Persist

(* It holds when nothing has happened yet.                                 *)
LEMMA SightInit == RouteInit => SightInv
BY DEF RouteInit, SightInv, Clocks, Sight

(* It holds always.                                                        *)
LEMMA SightHolds == RouteSpec => []SightInv
BY SightInit, SightStep, RouteTypeCorrect, PTL DEF RouteSpec

(* ImageShowsPoint for any route and any timing of clocks and images: an   *)
(* image that waits in the queue since the way is never kept for a point.  *)
THEOREM ImagesShowTheirPoints == RouteSpec => []ImageShowsPoint
<1>1. RouteInit => ImageShowsPoint
  BY DEF RouteInit, ImageShowsPoint
<1>2. RouteTypeOK /\ SightInv /\ ImageShowsPoint /\ [RouteNext]_routeVars
        => ImageShowsPoint'
  <2> SUFFICES ASSUME RouteTypeOK, SightInv, ImageShowsPoint, [RouteNext]_routeVars,
                      NEW run \in RunIds, NEW p \in Points
               PROVE  images'[run][p] \in {None, p}
    BY DEF ImageShowsPoint
  <2>1. CASE images' = images
    BY <2>1 DEF ImageShowsPoint
  <2>2. CASE WriteImage
    <3>1. job # None /\ job.shows = job.point
      BY <2>2 DEF WriteImage, At, SightInv, Sight
    <3>2. images' = [images EXCEPT ![job.run][job.point] = job.point]
      BY <2>2, <3>1 DEF WriteImage
    <3> QED BY <3>1, <3>2, JobInHand DEF ImageShowsPoint, RouteTypeOK, PerPoint
  <2> QED
    BY <2>1, <2>2
       DEF RouteNext, routeVars, stored, StartRun, PreflightPasses, PreflightFails,
           Drive, SendGoal, NavigationSucceeds, NavigationFails, Stabilize, Capture,
           TakeBoundary, SpinClock, SpinImage, CaptureFails, Inspect, ValidateFails,
           EvaluateFails, WriteResult, PointFails, Persist, WriteFailedResult,
           PersistPointResult, WriteReport, FinishRun, Tick, Crash
<1> QED BY <1>1, <1>2, RouteTypeCorrect, SightHolds, PTL DEF RouteSpec

-----------------------------------------------------------------------------
(* What the run in hand has left behind so far.                            *)

(* Of the points it has results for.                                       *)
Recorded ==
  LET run  == job.run
      done == job.results
  IN  /\ DOMAIN done \subseteq Points
      /\ \A p, q \in DOMAIN done : p < q => done[p] = "succeeded"
      /\ \A p \in DOMAIN done :
           /\ files[run][p] \in {None, done[p]}
           /\ rows[run][p] \in {None, files[run][p]}
           /\ done[p] = "succeeded" => files[run][p] # None /\ images[run][p] # None
      /\ \A p \in Points \ DOMAIN done : rows[run][p] = None /\ files[run][p] = None
      /\ \A p, q \in Points : p < q /\ rows[run][q] # None => rows[run][p] # None

(* Until the route ends it has no rows, every result so far is a success,  *)
(* and the image of the point being evaluated is there.                    *)
UnderWay ==
  /\ Len(job.results) = job.point - 1
  /\ \A p \in DOMAIN job.results : job.results[p] = "succeeded"
  /\ \A p \in Points : rows[job.run][p] = None
  /\ job.step = "evaluate" => images[job.run][job.point] # None

Evidence ==
  job # None =>
    /\ runRows[job.run] = "running"
    /\ Recorded
    /\ job.step \notin {"persist", "finish"} => UnderWay
    /\ job.step = "finish" =>
         /\ reports[job.run] \in {"succeeded", "failed"}
         /\ reports[job.run] = "succeeded" <=>
              \A p \in Points : rows[job.run][p] = "succeeded"

(* A run that was never started has left nothing.                          *)
Unused ==
  \A run \in RunIds :
    runRows[run] = None =>
      \A p \in Points : rows[run][p] = None /\ files[run][p] = None

(* A step of the route that records nothing.                               *)
LEMMA EvidenceMoves ==
  ASSUME RouteTypeOK, Evidence, job # None, UNCHANGED stored,
         \/ job' = job
         \/ /\ job.step \notin {"persist", "finish"}
            /\ job'.step \notin {"persist", "finish", "evaluate"}
            /\ job'.run = job.run /\ job'.point = job.point
            /\ job'.results = job.results
  PROVE  Evidence'
<1>1. /\ UNCHANGED <<runRows, rows, files, images, reports>>
      /\ job'.run = job.run /\ job'.results = job.results
  BY DEF stored
<1>2. Recorded'
  BY <1>1 DEF Evidence, Recorded
<1>3. CASE job' = job
  BY <1>1, <1>2, <1>3 DEF Evidence, UnderWay
<1>4. CASE /\ job.step \notin {"persist", "finish"}
           /\ job'.step \notin {"persist", "finish", "evaluate"}
           /\ job'.point = job.point
  BY <1>1, <1>2, <1>4 DEF Evidence, UnderWay
<1> QED BY <1>3, <1>4

(* The results so far, with one more.                                      *)
LEMMA OneMore ==
  ASSUME RouteTypeOK, Evidence, job # None, job.step \notin {"persist", "finish"},
         NEW status \in PointStatus
  PROVE  LET done == Append(job.results, status)
         IN  /\ Len(done) = job.point /\ DOMAIN done = 1 .. job.point
             /\ job.point \in Nat \ {0} /\ Points = 1 .. N
             /\ DOMAIN job.results = 1 .. job.point - 1
             /\ done[job.point] = status
             /\ \A p \in 1 .. job.point - 1 : done[p] = "succeeded"
<1>1. /\ job.results \in Seq(PointStatus) /\ Len(job.results) = job.point - 1
      /\ \A p \in DOMAIN job.results : job.results[p] = "succeeded"
      /\ job.point \in 1 .. N
  BY JobInHand DEF Evidence, UnderWay, Points
<1> QED BY <1>1, Numbers DEF Points

(* A point fails or succeeds: its file is there if it has succeeded.       *)
LEMMA EvidencePoint ==
  ASSUME RouteTypeOK, Evidence, job # None, job.step \notin {"persist", "finish"},
         NEW status \in PointStatus, job' = AfterPoint(status),
         UNCHANGED <<runRows, rows, images, reports>>,
         \/ status # "succeeded" /\ UNCHANGED files
         \/ /\ status = "succeeded" /\ job.step = "evaluate"
            /\ files' = [files EXCEPT ![job.run][job.point] = "succeeded"]
  PROVE  Evidence'
<1> DEFINE done == Append(job.results, status)
           run == job.run
<1>1. /\ job' \in Job /\ job'.run = run /\ job'.results = done
      /\ \/ /\ job'.step = "navigate" /\ job'.point = job.point + 1
            /\ status = "succeeded" /\ job.point < N
         \/ job'.step = "persist"
  BY PointDone
<1>2. /\ Len(done) = job.point /\ DOMAIN done = 1 .. job.point
      /\ job.point \in Nat \ {0} /\ Points = 1 .. N
      /\ DOMAIN job.results = 1 .. job.point - 1
      /\ done[job.point] = status
      /\ \A p \in 1 .. job.point - 1 : done[p] = "succeeded" /\ job.results[p] = done[p]
  BY OneMore, JobInHand
<1>3. /\ Recorded /\ UnderWay /\ runRows[run] = "running"
      /\ job.point \in Points /\ run \in RunIds
  BY JobInHand DEF Evidence
<1> HIDE DEF done
<1>4. /\ \A p \in Points : rows'[run][p] = None
      /\ images' = images
      /\ files'[run][job.point] = IF status = "succeeded" THEN "succeeded" ELSE None
      /\ \A p \in Points \ {job.point} : files'[run][p] = files[run][p]
  <2>1. files[run][job.point] = None
    BY <1>2, <1>3 DEF Recorded
  <2> QED BY <1>3, <2>1 DEF UnderWay, RouteTypeOK, PerPoint
<1>5. DOMAIN done \subseteq Points
  BY <1>2, <1>3, Numbers
<1>6. \A p, q \in DOMAIN done : p < q => done[p] = "succeeded"
  BY <1>2
<1>7. ASSUME NEW p \in DOMAIN done
      PROVE  /\ files'[run][p] \in {None, done[p]}
             /\ rows'[run][p] \in {None, files'[run][p]}
             /\ done[p] = "succeeded" => files'[run][p] # None /\ images'[run][p] # None
  <2>1. CASE p = job.point
    BY <1>2, <1>3, <1>4, <2>1, NoneIsNoStatus DEF UnderWay, PointStatus
  <2>2. CASE p # job.point
    <3>1. p \in DOMAIN job.results /\ p \in Points
      BY <1>2, <1>5, <1>7, <2>2
    <3>2. done[p] = job.results[p]
      BY <1>2, <3>1
    <3> QED BY <1>3, <1>4, <2>2, <3>1, <3>2 DEF Recorded
  <2> QED BY <2>1, <2>2
<1>8. ASSUME NEW p \in Points \ DOMAIN done
      PROVE  rows'[run][p] = None /\ files'[run][p] = None
  <2>1. p \in Points \ DOMAIN job.results /\ p # job.point
    BY <1>2, <1>8
  <2>2. rows[run][p] = None /\ files[run][p] = None
    BY <1>3, <2>1 DEF Recorded
  <2> QED BY <1>4, <2>1, <2>2
<1>9. Recorded'
  BY <1>1, <1>4, <1>5, <1>6, <1>7, <1>8 DEF Recorded
<1>10. job'.step = "navigate" => UnderWay'
  <2>1. \A p \in DOMAIN done : status = "succeeded" => done[p] = "succeeded"
    BY <1>2
  <2> QED BY <1>1, <1>2, <1>4, <2>1 DEF UnderWay
<1> QED BY <1>1, <1>3, <1>9, <1>10 DEF Evidence

(* A run starts with nothing.                                              *)
LEMMA EvidenceStart ==
  ASSUME RouteTypeOK, Unused, NEW run \in RunIds, StartRun(run)
  PROVE  Evidence'
<1>1. /\ job'.run = run /\ job'.point = 1 /\ job'.step = "preflight"
      /\ job'.results = <<>>
      /\ runRows'[run] = "running" /\ UNCHANGED <<rows, files, images, reports>>
  BY DEF StartRun, RouteTypeOK
<1>2. \A p \in Points : rows[run][p] = None /\ files[run][p] = None
  BY DEF StartRun, Unused
<1>3. DOMAIN <<>> = {} /\ Len(<<>>) = 0
  OBVIOUS
<1>4. Recorded'
  BY <1>1, <1>2, <1>3 DEF Recorded
<1>5. UnderWay'
  BY <1>1, <1>2, <1>3 DEF UnderWay
<1> QED BY <1>1, <1>4, <1>5 DEF Evidence

(* The preflight fails: a failed report, and no rows.                      *)
LEMMA EvidencePreflightFails ==
  ASSUME RouteTypeOK, Evidence, PreflightFails
  PROVE  Evidence'
<1>1. /\ job # None /\ job.step = "preflight" /\ job'.step = "finish"
      /\ job'.run = job.run /\ job'.results = job.results
      /\ reports'[job.run] = "failed" /\ UNCHANGED <<runRows, rows, files, images>>
  BY WentTo, JobInHand DEF PreflightFails, At, Steps, RouteTypeOK
<1>2. Recorded'
  BY <1>1 DEF Evidence, Recorded
<1>3. 1 \in Points /\ rows[job.run][1] # "succeeded"
  BY <1>1, Numbers, NoneIsNoStatus DEF Points, Evidence, UnderWay, PointStatus
<1> QED BY <1>1, <1>2, <1>3 DEF Evidence

(* The image is written before the point is evaluated.                     *)
LEMMA EvidenceImage ==
  ASSUME RouteTypeOK, SightInv, Evidence, WriteImage
  PROVE  Evidence'
<1>1. /\ job # None /\ job.step = "validate" /\ job'.step = "evaluate"
      /\ job'.run = job.run /\ job'.point = job.point /\ job'.results = job.results
      /\ UNCHANGED <<runRows, rows, files, reports>>
      /\ images' = [images EXCEPT ![job.run][job.point] = job.shows]
  BY WentTo DEF WriteImage, At, Steps
<1>2. job.shows = job.point /\ job.shows # None
  BY <1>1, JobInHand, Numbers, NoneIsNoNumber DEF SightInv, Sight, Points
<1>3. /\ images'[job.run][job.point] # None
      /\ \A p \in Points : images[job.run][p] # None => images'[job.run][p] # None
  BY <1>1, <1>2, JobInHand DEF RouteTypeOK, PerPoint
<1>4. Recorded'
  BY <1>1, <1>3 DEF Evidence, Recorded
<1>5. UnderWay'
  BY <1>1, <1>3 DEF Evidence, UnderWay
<1> QED BY <1>1, <1>4, <1>5 DEF Evidence

(* The next point without a row: the points before it have theirs.         *)
LEMMA NextPoint ==
  ASSUME RouteTypeOK, job # None, NEW p \in Points, IsNext(p)
  PROVE  /\ p \in DOMAIN job.results /\ rows[job.run][p] = None
         /\ \A q \in Points : q < p => q \in DOMAIN job.results /\ rows[job.run][q] # None
<1>1. p \in DOMAIN job.results /\ rows[job.run][p] = None
  BY DEF IsNext, Unpersisted, Results
<1>2. ASSUME NEW q \in Points, q < p
      PROVE  q \in DOMAIN job.results /\ rows[job.run][q] # None
  <2>1. q \in DOMAIN job.results
    BY <1>1, <1>2, JobInHand, Numbers DEF Points
  <2>2. q \notin Unpersisted
    BY <1>2, Numbers DEF IsNext, Points
  <2> QED BY <2>1, <2>2 DEF Unpersisted, Results
<1> QED BY <1>1, <1>2

(* A failed point gets its file, then every point its row, in order.       *)
LEMMA EvidencePersist ==
  ASSUME RouteTypeOK, Evidence, NEW p \in Points,
         WriteFailedResult(p) \/ PersistPointResult(p)
  PROVE  Evidence'
<1> DEFINE run == job.run
           done == job.results
<1>1. /\ job # None /\ job.step = "persist" /\ job' = job /\ IsNext(p)
      /\ UNCHANGED <<runRows, images, reports>>
  BY DEF WriteFailedResult, PersistPointResult, At
<1>2. /\ p \in DOMAIN done /\ rows[run][p] = None /\ run \in RunIds
      /\ \A q \in Points : q < p => rows[run][q] # None
      /\ done[p] \in PointStatus /\ done[p] # None
  BY <1>1, NextPoint, JobInHand, NoneIsNoStatus
<1>3. Recorded /\ runRows[run] = "running"
  BY <1>1 DEF Evidence
<1>4. CASE WriteFailedResult(p)
  <2>1. /\ rows' = rows /\ files'[run][p] = done[p]
        /\ \A q \in Points \ {p} : files'[run][q] = files[run][q]
    BY <1>2, <1>4 DEF WriteFailedResult, RouteTypeOK, PerPoint
  <2>2. Recorded'
    BY <1>1, <1>2, <1>3, <2>1 DEF Recorded
  <2> QED BY <1>1, <1>3, <2>2 DEF Evidence
<1>5. CASE PersistPointResult(p)
  <2>1. /\ files' = files /\ rows'[run][p] = done[p]
        /\ \A q \in Points \ {p} : rows'[run][q] = rows[run][q]
        /\ files[run][p] # None
    BY <1>2, <1>5 DEF PersistPointResult, RouteTypeOK, PerPoint
  <2>2. files[run][p] = done[p]
    BY <1>2, <1>3, <2>1 DEF Recorded
  <2>3. ASSUME NEW q1 \in Points, NEW q2 \in Points, q1 < q2, rows'[run][q2] # None
        PROVE  rows'[run][q1] # None
    <3>1. CASE q1 = p
      BY <1>2, <2>1, <3>1
    <3>2. CASE q1 # p /\ q2 = p
      BY <1>2, <2>1, <2>3, <3>2
    <3>3. CASE q1 # p /\ q2 # p
      BY <1>3, <2>1, <2>3, <3>3 DEF Recorded
    <3> QED BY <3>1, <3>2, <3>3
  <2>4. Recorded'
    BY <1>1, <1>2, <1>3, <2>1, <2>2, <2>3 DEF Recorded
  <2> QED BY <1>1, <1>3, <2>4 DEF Evidence
<1> QED BY <1>4, <1>5

(* The report is written when every result has its row.                    *)
LEMMA EvidenceReport ==
  ASSUME RouteTypeOK, Evidence, WriteReport
  PROVE  Evidence'
<1> DEFINE run == job.run
           done == job.results
<1>1. /\ job # None /\ job.step = "persist" /\ job'.step = "finish"
      /\ job'.run = job.run /\ job'.results = job.results
      /\ reports'[job.run] = Verdict /\ UNCHANGED <<runRows, rows, files, images>>
      /\ Unpersisted = {}
  BY WentTo, JobInHand DEF WriteReport, At, Steps, RouteTypeOK
<1>2. Recorded /\ runRows[run] = "running"
  BY <1>1 DEF Evidence
<1>3. Recorded'
  BY <1>1, <1>2 DEF Recorded
<1>4. \A p \in DOMAIN done : p \in Points /\ rows[run][p] = done[p]
  BY <1>1, <1>2 DEF Recorded, Unpersisted, Results
<1>5. \A p \in Points : rows[run][p] = "succeeded" => p \in DOMAIN done
  BY <1>2, NoneIsNoStatus DEF Recorded, PointStatus
<1>6. Verdict = "succeeded" <=> \A p \in Points : rows[run][p] = "succeeded"
  <2>1. ASSUME Verdict = "succeeded", NEW p \in Points
        PROVE  rows[run][p] = "succeeded"
    <3>1. Len(done) = N /\ \A q \in DOMAIN done : done[q] = "succeeded"
      BY <2>1 DEF Verdict, Failure, Results
    <3> QED BY <1>1, <1>4, <3>1, JobInHand DEF Points
  <2>2. ASSUME \A p \in Points : rows[run][p] = "succeeded"
        PROVE  Verdict = "succeeded"
    <3>1. N \in DOMAIN done
      BY <1>5, <2>2, Numbers DEF Points
    <3>2. Len(done) \in DOMAIN done
      BY <1>1, <3>1, JobInHand, Numbers
    <3>3. Len(done) = N
      BY <1>1, <1>4, <3>1, <3>2, JobInHand, Numbers DEF Points
    <3> QED BY <1>4, <2>2, <3>3 DEF Verdict, Failure, Results
  <2> QED BY <2>1, <2>2
<1>7. Verdict \in {"succeeded", "failed"}
  BY DEF Verdict
<1> QED BY <1>1, <1>2, <1>3, <1>6, <1>7 DEF Evidence

(* Every step keeps what the run in hand has left behind.                  *)
LEMMA EvidenceStep ==
  ASSUME RouteTypeOK, SightInv, Evidence, Unused, [RouteNext]_routeVars
  PROVE  Evidence'
<1>1. CASE UNCHANGED routeVars
  BY <1>1, EvidenceMoves DEF routeVars, stored, Evidence
<1>2. CASE PreflightPasses \/ SendGoal \/ NavigationSucceeds \/ Stabilize
  <2>1. /\ job # None /\ job.step \notin {"persist", "finish"}
        /\ job'.step \notin {"persist", "finish", "evaluate"}
        /\ job'.run = job.run /\ job'.point = job.point
        /\ job'.results = job.results
    BY <1>2, WentTo DEF PreflightPasses, SendGoal, NavigationSucceeds, Stabilize, At, Steps
  <2> QED BY <1>2, <2>1, EvidenceMoves
             DEF PreflightPasses, SendGoal, NavigationSucceeds, Stabilize
<1>3. CASE TakeBoundary
  <2>1. /\ job # None /\ job.step \notin {"persist", "finish"}
        /\ job'.step \notin {"persist", "finish", "evaluate"}
        /\ job'.run = job.run /\ job'.point = job.point
        /\ job'.results = job.results
    BY <1>3, JobInHand DEF TakeBoundary, At, Job
  <2> QED BY <1>3, <2>1, EvidenceMoves DEF TakeBoundary
<1>4. CASE SpinClock \/ Tick
  BY <1>4, EvidenceMoves DEF SpinClock, Tick, Spinning, At
<1>5. CASE SpinImage
  <2>1. CASE UNCHANGED job
    BY <1>5, <2>1, EvidenceMoves DEF SpinImage, Spinning, At
  <2>2. CASE /\ At("capture")
             /\ job' = [job EXCEPT !.shows = Head(frames).place, !.step = "validate"]
    <3>1. /\ job # None /\ job.step \notin {"persist", "finish"}
          /\ job'.step \notin {"persist", "finish", "evaluate"}
          /\ job'.run = job.run /\ job'.point = job.point
          /\ job'.results = job.results
      BY <2>2, JobInHand DEF At, Job
    <3> QED BY <1>5, <3>1, EvidenceMoves DEF SpinImage
  <2> QED BY <1>5, <2>1, <2>2 DEF SpinImage
<1>6. CASE NavigationFails \/ CaptureFails \/ ValidateFails \/ EvaluateFails
  <2>1. /\ job # None /\ job.step \notin {"persist", "finish"}
        /\ \E status \in PointStatus : status # "succeeded" /\ PointFails(status)
    BY <1>6 DEF NavigationFails, CaptureFails, ValidateFails, EvaluateFails, At, PointStatus
  <2> QED BY <2>1, EvidencePoint DEF PointFails, stored
<1>7. CASE WriteResult
  BY <1>7, EvidencePoint DEF WriteResult, At, PointStatus
<1>8. CASE FinishRun \/ Crash
  BY <1>8 DEF FinishRun, Crash, EndProcess, Evidence
<1> QED
  BY <1>1, <1>2, <1>3, <1>4, <1>5, <1>6, <1>7, <1>8, EvidenceStart,
     EvidencePreflightFails, EvidenceImage, EvidencePersist, EvidenceReport
     DEF RouteNext, Drive, Capture, Inspect, Persist

(* The row of the run in hand only changes at its end.                     *)
LEMMA StatusStays ==
  ASSUME [RouteNext]_routeVars, job # None
  PROVE  FinishRun \/ runRows' = runRows
BY DEF RouteNext, routeVars, stored, StartRun, PreflightPasses, PreflightFails,
       Drive, SendGoal, NavigationSucceeds, NavigationFails, Stabilize, Capture,
       TakeBoundary, SpinClock, SpinImage, CaptureFails, Inspect, ValidateFails,
       WriteImage, EvaluateFails, WriteResult, PointFails, Persist,
       WriteFailedResult, PersistPointResult, WriteReport, Tick, Crash

(* A run that was never started is not the run in hand.                    *)
LEMMA UnusedStep ==
  ASSUME RouteTypeOK, Evidence, Unused, [RouteNext]_routeVars
  PROVE  Unused'
<1> SUFFICES ASSUME NEW run \in RunIds, runRows'[run] = None
             PROVE  \A p \in Points : rows'[run][p] = None /\ files'[run][p] = None
  BY DEF Unused
<1>1. "running" # None /\ \A status \in RunStatus : status # None
  BY NoneIsNoStatus DEF RunStatus
<1>2. CASE job = None \/ job.run # run
  BY <1>1, <1>2, OnlyOwnRun DEF Unused, Untouched
<1>3. CASE job # None /\ job.run = run
  <2>1. runRows[run] = "running"
    BY <1>3 DEF Evidence
  <2>2. runRows'[run] # None
    <3>1. CASE runRows' = runRows
      BY <1>1, <2>1, <3>1
    <3>2. CASE FinishRun
      <4>1. reports[run] \in {"succeeded", "failed"}
        BY <1>3, <3>2 DEF FinishRun, At, Evidence
      <4> QED BY <1>1, <1>3, <3>2, <4>1 DEF FinishRun, RouteTypeOK, RunStatus
    <3> QED BY <1>3, <3>1, <3>2, StatusStays
  <2> QED BY <2>2
<1> QED BY <1>2, <1>3

(* Nothing is left behind before the first run.                            *)
LEMMA EvidenceInit == RouteInit => Evidence /\ Unused
BY DEF RouteInit, Evidence, Unused

(* What the run in hand has left behind holds always.                      *)
LEMMA EvidenceHolds == RouteSpec => [](Evidence /\ Unused)
<1>1. RouteTypeOK /\ SightInv /\ Evidence /\ Unused /\ [RouteNext]_routeVars
        => (Evidence /\ Unused)'
  BY EvidenceStep, UnusedStep
<1> QED BY <1>1, EvidenceInit, RouteTypeCorrect, SightHolds, PTL DEF RouteSpec

(* The rows of the run in hand follow its route.                           *)
OwnRowsFollow ==
  job # None =>
    \A p \in Points :
      rows[job.run][p] # None =>
        /\ files[job.run][p] = rows[job.run][p]
        /\ \A q \in 1 .. (p - 1) : rows[job.run][q] = "succeeded"
        /\ ~Failure(rows[job.run][p]) => images[job.run][p] # None

(* What the run in hand has evidence of is what its rows and files show. *)
LEMMA OwnRows == RouteTypeOK /\ Evidence => OwnRowsFollow
<1> DEFINE run == job.run
           done == job.results
<1> SUFFICES ASSUME RouteTypeOK, Evidence, job # None,
                    NEW p \in Points, rows[run][p] # None
             PROVE  /\ files[run][p] = rows[run][p]
                    /\ \A q \in 1 .. (p - 1) : rows[run][q] = "succeeded"
                    /\ ~Failure(rows[run][p]) => images[run][p] # None
  BY DEF OwnRowsFollow
<1>1. Recorded
  BY DEF Evidence
<1>2. /\ p \in DOMAIN done /\ files[run][p] = rows[run][p] /\ rows[run][p] = done[p]
      /\ done[p] = "succeeded" => images[run][p] # None
  BY <1>1 DEF Recorded
<1>3. ASSUME NEW q \in 1 .. (p - 1) PROVE rows[run][q] = "succeeded"
  <2>1. q \in Points /\ q < p
    BY <1>3, Numbers DEF Points
  <2>2. rows[run][q] # None
    BY <1>1, <2>1 DEF Recorded
  <2>3. q \in DOMAIN done /\ rows[run][q] = done[q]
    BY <1>1, <2>1, <2>2 DEF Recorded
  <2>4. done[q] = "succeeded"
    BY <1>1, <1>2, <2>1, <2>3 DEF Recorded
  <2> QED BY <2>3, <2>4
<1> QED BY <1>2, <1>3 DEF Failure

(* A job in hand stays in hand until its run is over.                      *)
LEMMA JobStays ==
  ASSUME RouteTypeOK, [RouteNext]_routeVars, job # None
  PROVE  FinishRun \/ Crash \/ (job' # None /\ job'.run = job.run)
<1> DEFINE Stays == job' # None /\ job'.run = job.run
<1>1. ASSUME NEW step \in Steps, Goto(step) PROVE Stays
  BY <1>1, WentTo, NoneIsNoJob
<1>2. ASSUME NEW status \in PointStatus, job' = AfterPoint(status) PROVE Stays
  BY <1>2, PointDone, NoneIsNoJob
<1>3. CASE PreflightPasses \/ PreflightFails \/ SendGoal \/ NavigationSucceeds
           \/ Stabilize \/ WriteImage \/ WriteReport
  BY <1>1, <1>3
     DEF PreflightPasses, PreflightFails, SendGoal, NavigationSucceeds, Stabilize,
         WriteImage, WriteReport, Steps
<1>4. CASE NavigationFails \/ CaptureFails \/ ValidateFails \/ EvaluateFails \/ WriteResult
  BY <1>2, <1>4
     DEF NavigationFails, CaptureFails, ValidateFails, EvaluateFails, WriteResult,
         PointFails, PointStatus
<1>5. CASE TakeBoundary
  <2>1. job' \in Job /\ job'.run = job.run
    BY <1>5, JobInHand DEF TakeBoundary, RouteTypeOK, Job, Steps
  <2> QED BY <2>1, NoneIsNoJob
<1>6. CASE SpinImage
  <2>1. CASE job' = job
    BY <2>1
  <2>2. CASE job' = [job EXCEPT !.shows = Head(frames).place, !.step = "validate"]
    <3>1. Head(frames).place \in Places
      BY <1>6, TailFrames DEF SpinImage, RouteTypeOK, Frame
    <3>2. job' \in Job /\ job'.run = job.run
      BY <2>2, <3>1, JobInHand DEF Job, Steps
    <3> QED BY <3>2, NoneIsNoJob
  <2> QED BY <1>6, <2>1, <2>2 DEF SpinImage
<1>7. CASE UNCHANGED job
  BY <1>7
<1> QED
  BY <1>3, <1>4, <1>5, <1>6, <1>7
     DEF RouteNext, routeVars, StartRun, Drive, Capture, SpinClock, Inspect, Persist,
         WriteFailedResult, PersistPointResult, Tick

(* RowsFollowRoute for any route and any crashes: a row says what its file *)
(* says, never stands after a point that failed, and a success has an      *)
(* image.                                                                  *)
THEOREM RowsAlwaysFollowRoute == RouteSpec => []RowsFollowRoute
<1>1. RouteInit => RowsFollowRoute
  BY DEF RouteInit, RowsFollowRoute
<1>2. RouteTypeOK /\ RowsFollowRoute /\ OwnRowsFollow' /\ [RouteNext]_routeVars
        => RowsFollowRoute'
  <2> SUFFICES ASSUME RouteTypeOK, RowsFollowRoute, OwnRowsFollow', [RouteNext]_routeVars,
                      NEW run \in RunIds, NEW p \in Points, rows'[run][p] # None
               PROVE  /\ files'[run][p] = rows'[run][p]
                      /\ \A q \in 1 .. (p - 1) : rows'[run][q] = "succeeded"
                      /\ ~Failure(rows'[run][p]) => images'[run][p] # None
    BY DEF RowsFollowRoute, Failure
  <2>1. CASE job = None \/ job.run # run
    BY <2>1, OnlyOwnRun DEF RowsFollowRoute, Untouched
  <2>2. CASE job # None /\ job.run = run
    <3>1. CASE UNCHANGED <<rows, files, images>>
      BY <3>1 DEF RowsFollowRoute
    <3>2. CASE job' # None /\ job'.run = run
      BY <3>2 DEF OwnRowsFollow, Failure
    <3> QED BY <2>2, <3>1, <3>2, JobStays DEF FinishRun, Crash, stored
  <2> QED BY <2>1, <2>2
<1> QED BY <1>1, <1>2, OwnRows, RouteTypeCorrect, EvidenceHolds, PTL DEF RouteSpec

(* FinishedIsBacked for any route and any crashes: a finished run has a    *)
(* report that says the same, and the rows say success exactly if it does. *)
THEOREM FinishedRunsAreBacked == RouteSpec => []FinishedIsBacked
<1>1. RouteInit => FinishedIsBacked
  BY NoneIsNoStatus DEF RouteInit, FinishedIsBacked, RunStatus
<1>2. RouteTypeOK /\ Evidence /\ FinishedIsBacked /\ [RouteNext]_routeVars
        => FinishedIsBacked'
  <2> SUFFICES ASSUME RouteTypeOK, Evidence, FinishedIsBacked, [RouteNext]_routeVars,
                      NEW run \in RunIds, runRows'[run] \in {"succeeded", "failed"}
               PROVE  /\ reports'[run] = runRows'[run]
                      /\ runRows'[run] = "succeeded" <=>
                           \A p \in Points : rows'[run][p] = "succeeded"
    BY DEF FinishedIsBacked
  <2>1. CASE job = None \/ job.run # run
    <3>1. runRows'[run] = runRows[run] /\ Untouched(run)
      BY <2>1, OnlyOwnRun
    <3> QED BY <3>1 DEF FinishedIsBacked, Untouched
  <2>2. CASE job # None /\ job.run = run
    <3>1. runRows[run] = "running"
      BY <2>2 DEF Evidence
    <3>2. CASE runRows' = runRows
      BY <3>1, <3>2
    <3>3. CASE FinishRun
      <4>1. runRows'[run] = reports[run] /\ UNCHANGED <<reports, rows>>
        BY <2>2, <3>3 DEF FinishRun, RouteTypeOK
      <4>2. reports[run] = "succeeded" <=> \A p \in Points : rows[run][p] = "succeeded"
        BY <2>2, <3>3 DEF FinishRun, At, Evidence
      <4> QED BY <4>1, <4>2
    <3> QED BY <2>2, <3>2, <3>3, StatusStays
  <2> QED BY <2>1, <2>2
<1> QED BY <1>1, <1>2, RouteTypeCorrect, EvidenceHolds, PTL DEF RouteSpec

=============================================================================
