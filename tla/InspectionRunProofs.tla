------------------------- MODULE InspectionRunProofs -------------------------
(* Theorems about InspectionRun, for any set of processes, any readings    *)
(* and any number of attempts.                                             *)
EXTENDS InspectionRun, TLAPS

(* The first attempt of a controller is an attempt; so is the next one.    *)
LEMMA NewAttemptOK ==
  ASSUME NEW n \in 1 .. MaxAttempts
  PROVE  NewAttempt(n) \in Attempts
BY DEF NewAttempt, Attempts, Contents, Phases

(* Evidence is neither of the marks a file may have instead.               *)
LEMMA ContentsAreFiles ==
  \A c \in Contents : c # None /\ c # Torn
BY MarksAreNoContents

(* Where a controller is, its attempts have their types, one by one.       *)
LEMMA TypesHere ==
  ASSUME RunTypeOK, NEW p \in Procs
  PROVE  /\ att[p] \in Attempts
         /\ att[p].snap \in Contents
         /\ att[p].snap.number \in 1 .. MaxAttempts
         /\ att[p].snap.number \in DOMAIN files
         /\ past[p] \in Seq(Attempts)
BY DEF RunTypeOK, Attempts, Contents

(* The methods of the controller take an attempt to an attempt of the same *)
(* number.                                                                 *)
Follows(a, b) == b \in Attempts /\ b.snap.number = a.snap.number

(* The methods that only move the attempt keep its number and its evidence reference. *)
LEMMA MethodsFollow ==
  ASSUME NEW a \in Attempts
  PROVE  /\ Follows(a, StartNavigation(a))
         /\ \A ok \in BOOLEAN :
              /\ Follows(a, RecordNavigationResult(a, ok))
              /\ Follows(a, ConfirmArrival(a, ok))
              /\ Follows(a, CompleteStabilization(a, ok))
         /\ Follows(a, RecordSensorFailure(a))
         /\ Follows(a, [a EXCEPT !.snap.phase = "canceled"])
         /\ Follows(a, PersistEvidence(a, a.snap))
<1>1. Follows(a, StartNavigation(a))
  BY DEF Follows, StartNavigation, Attempts, Contents, Phases
<1>2. ASSUME NEW ok \in BOOLEAN
      PROVE  /\ Follows(a, RecordNavigationResult(a, ok))
             /\ Follows(a, ConfirmArrival(a, ok))
             /\ Follows(a, CompleteStabilization(a, ok))
  <2>1. Follows(a, RecordNavigationResult(a, ok))
    BY DEF Follows, RecordNavigationResult, Attempts, Contents, Phases, Failures
  <2>2. Follows(a, ConfirmArrival(a, ok))
    BY DEF Follows, ConfirmArrival, Attempts, Contents, Phases, Failures
  <2>3. Follows(a, CompleteStabilization(a, ok))
    BY DEF Follows, CompleteStabilization, Attempts, Contents, Phases, Failures
  <2> QED BY <2>1, <2>2, <2>3
<1>3. Follows(a, RecordSensorFailure(a))
  BY DEF Follows, RecordSensorFailure, Attempts, Contents, Phases, Failures
<1>4. Follows(a, [a EXCEPT !.snap.phase = "canceled"])
  BY DEF Follows, Attempts, Contents, Phases
<1>5. Follows(a, PersistEvidence(a, a.snap))
  BY DEF Follows, PersistEvidence, Attempts, Contents, Phases
<1> QED BY <1>1, <1>2, <1>3, <1>4, <1>5

(* Every reading is judged.                                                *)
LEMMA QualityOK ==
  ASSUME NEW obs \in Observations, NEW now \in Times
  PROVE  QualityAt(obs, now) \in Qualities
BY KindsAreKnown DEF QualityAt, Observations, Qualities

(* Whatever a reading becomes, it becomes that of the same attempt, still without evidence. *)
LEMMA ProcessedFollows ==
  ASSUME NEW a \in Attempts, NEW obs \in Observations, NEW now \in Times
  PROVE  /\ Follows(a, ValidateObservation(RecordObservation(a, obs), now))
         /\ Follows(a, Processed(a, obs, now))
<1> DEFINE read == RecordObservation(a, obs)
           seen == ValidateObservation(read, now)
<1>1. Follows(a, read) /\ read.snap.obs = obs
  BY DEF Follows, RecordObservation, Attempts, Contents
<1>2. seen = [read EXCEPT !.snap.quality = QualityAt(obs, now),
                          !.snap.phase = IF QualityAt(obs, now) = "pass"
                                         THEN "evaluating" ELSE "data_invalid"]
  BY <1>1 DEF ValidateObservation
<1>3. QualityAt(obs, now) \in Qualities
  BY QualityOK
<1> HIDE DEF read, seen
<1>4. Follows(a, seen)
  BY <1>1, <1>2, <1>3 DEF Follows, Attempts, Contents, Phases, Failures
<1>5. Follows(a, Evaluate(seen))
  BY <1>4 DEF Follows, Evaluate, Attempts, Contents
<1> QED BY <1>4, <1>5 DEF Processed, read, seen

-----------------------------------------------------------------------------
(* Attempts are numbered without a gap, and only a patient process has     *)
(* given one up; this is why no number goes past its bound.                *)
Numbered ==
  \A p \in Procs :
    /\ att[p].snap.number = Len(past[p]) + 1
    /\ p \notin Patient => past[p] = <<>>

Places == {"down", "calling", "open", "write", "done"}

(* What a step may be that stays on its attempt.                           *)
Stays(p, a, place) ==
  /\ Follows(att[p], a)
  /\ place \in Places
  /\ att' = [att EXCEPT ![p] = a]
  /\ at' = [at EXCEPT ![p] = place]
  /\ past' = past
  /\ files' \in [1 .. MaxAttempts -> Contents \cup {None, Torn}]

(* A step that stays on its attempt keeps the types and the numbering. *)
LEMMA StaysTyped ==
  ASSUME RunTypeOK, Numbered,
         NEW p \in Procs, NEW a, NEW place, Stays(p, a, place)
  PROVE  RunTypeOK' /\ Numbered'
BY DEF RunTypeOK, Numbered, Stays, Places, Follows

(* What a step may be that begins a run, or ends it.                       *)
Begins(p, place) ==
  /\ place \in Places
  /\ att' = [att EXCEPT ![p] = NewAttempt(1)]
  /\ at' = [at EXCEPT ![p] = place]
  /\ past' = [past EXCEPT ![p] = <<>>]
  /\ files' = files

(* A step that starts a run starts from the first attempt, with nothing given up. *)
LEMMA BeginsTyped ==
  ASSUME RunTypeOK, Numbered, NEW p \in Procs, NEW place, Begins(p, place)
  PROVE  RunTypeOK' /\ Numbered'
<1>1. 1 \in 1 .. MaxAttempts /\ 0 < MaxAttempts
  BY AttemptsAreBounded
<1>2. NewAttempt(1) \in Attempts
  BY <1>1, NewAttemptOK
<1>3. NewAttempt(1).snap.number = 1
  BY DEF NewAttempt
<1>4. <<>> \in Seq(Attempts) /\ Len(<<>>) = 0
  OBVIOUS
<1>5. \A q \in Procs : /\ past'[q] = IF q = p THEN <<>> ELSE past[q]
                       /\ att'[q] = IF q = p THEN NewAttempt(1) ELSE att[q]
  BY DEF Begins, RunTypeOK
<1>6. RunTypeOK'
  BY <1>1, <1>2, <1>4, <1>5 DEF RunTypeOK, Begins, Places
<1>7. Numbered'
  BY <1>3, <1>4, <1>5 DEF Numbered
<1> QED BY <1>6, <1>7

(* A retry gives the attempt up and takes the next number, within the bound. *)
LEMMA RetryTyped ==
  ASSUME RunTypeOK, Numbered, NEW p \in Procs, RetryPoint(p)
  PROVE  RunTypeOK' /\ Numbered'
<1> DEFINE n == att[p].snap.number + 1
<1>1. n \in 1 .. MaxAttempts /\ n = Len(past[p]) + 2
  BY TypesHere, AttemptsAreBounded DEF RetryPoint, Numbered
<1>2. NewAttempt(n) \in Attempts /\ NewAttempt(n).snap.number = n
  BY <1>1, NewAttemptOK DEF NewAttempt
<1>3. /\ Append(past[p], att[p]) \in Seq(Attempts)
      /\ Len(Append(past[p], att[p])) = Len(past[p]) + 1
  BY TypesHere
<1>4. /\ att' = [att EXCEPT ![p] = NewAttempt(n)]
      /\ past' = [past EXCEPT ![p] = Append(past[p], att[p])]
      /\ at' = at /\ files' = files /\ p \in Patient
  BY DEF RetryPoint
<1> HIDE DEF n
<1>5. \A q \in Procs :
        /\ past'[q] = IF q = p THEN Append(past[p], att[p]) ELSE past[q]
        /\ att'[q] = IF q = p THEN NewAttempt(n) ELSE att[q]
  BY <1>4 DEF RunTypeOK
<1>6. RunTypeOK'
  BY <1>1, <1>2, <1>3, <1>4, <1>5, AttemptsAreBounded DEF RunTypeOK
<1>7. ASSUME NEW q \in Procs
      PROVE  att'[q].snap.number = Len(past'[q]) + 1 /\ (q \notin Patient => past'[q] = <<>>)
  <2>1. Len(past[p]) \in Nat
    BY TypesHere
  <2>2. CASE q = p
    <3>1. past'[q] = Append(past[p], att[p]) /\ att'[q] = NewAttempt(n)
      BY <1>5, <2>2
    <3>2. Len(past'[q]) = Len(past[p]) + 1
      BY <1>3, <3>1
    <3>3. att'[q].snap.number = n
      BY <1>2, <3>1
    <3> QED BY <1>1, <1>4, <2>1, <2>2, <3>2, <3>3
  <2>3. CASE q # p
    BY <1>5, <2>3 DEF Numbered
  <2> QED BY <2>2, <2>3
<1> QED BY <1>6, <1>7 DEF Numbered

(* The steps of one process.                                               *)
Step(p) ==
  \/ Start(p) \/ GateRefuses(p) \/ BeginNavigation(p) \/ EndNavigation(p)
  \/ VerifyArrival(p) \/ Stabilize(p) \/ RetryPoint(p) \/ Cancel(p)
  \/ Process(p) \/ EvaluatorRefused(p) \/ FinalizeFailure(p)
  \/ CreateFile(p) \/ FindFile(p) \/ WriteFile(p) \/ Crash(p)

(* Every step stays on an attempt, begins or ends a run, or is a retry.    *)
LEMMA StepsAreOfThreeKinds ==
  ASSUME RunTypeOK, Numbered, NEW p \in Procs, Step(p)
  PROVE  \/ \E a : \E place : Stays(p, a, place)
         \/ \E place : Begins(p, place)
         \/ RetryPoint(p)
<1>1. /\ att[p] \in Attempts /\ att[p].snap \in Contents
      /\ att[p].snap.number \in 1 .. MaxAttempts
  BY TypesHere
<1>2. /\ at[p] \in Places /\ at = [at EXCEPT ![p] = at[p]]
      /\ att = [att EXCEPT ![p] = att[p]]
      /\ files \in [1 .. MaxAttempts -> Contents \cup {None, Torn}]
      /\ Follows(att[p], att[p])
  BY <1>1 DEF RunTypeOK, Places, Follows
<1>3. ASSUME NEW a, Follows(att[p], a), Advance(p, a)
      PROVE  Stays(p, a, at[p])
  BY <1>2, <1>3 DEF Advance, Stays
<1>4. CASE BeginNavigation(p) \/ EndNavigation(p) \/ VerifyArrival(p)
             \/ Stabilize(p) \/ Cancel(p)
  BY <1>1, <1>3, <1>4, MethodsFollow
     DEF BeginNavigation, EndNavigation, VerifyArrival, Stabilize, Cancel
<1>5. CASE EvaluatorRefused(p)
  BY <1>1, <1>3, <1>5, ProcessedFollows DEF EvaluatorRefused, Sensed
<1>6. CASE Process(p)
  <2>1. PICK a : Follows(att[p], a) /\ att' = [att EXCEPT ![p] = a]
    BY <1>1, <1>6, MethodsFollow, ProcessedFollows DEF Process, Sensed
  <2> QED BY <1>2, <1>6, <2>1 DEF Process, Stays, Places
<1>7. CASE GateRefuses(p) \/ FinalizeFailure(p)
  BY <1>2, <1>7 DEF GateRefuses, FinalizeFailure, Stays, Places
<1>8. CASE Start(p) \/ Crash(p)
  BY <1>8 DEF Start, Crash, Begins, Places
<1>9. CASE CreateFile(p)
  BY <1>1, <1>2, <1>9 DEF CreateFile, Stays, Places
<1>10. ASSUME Persisted(p) \/ NotPersisted(p), past' = past,
              files' \in [1 .. MaxAttempts -> Contents \cup {None, Torn}]
       PROVE  \E a : \E place : Stays(p, a, place)
  <2>1. CASE Persisted(p)
    <3>1. Follows(att[p], PersistEvidence(att[p], att[p].snap))
      BY <1>1, MethodsFollow
    <3>2. att' = [att EXCEPT ![p] = PersistEvidence(att[p], att[p].snap)]
      BY <2>1 DEF Persisted
    <3> QED BY <1>10, <2>1, <3>1, <3>2 DEF Persisted, Stays, Places
  <2>2. CASE NotPersisted(p) /\ p \in Patient
    BY <1>2, <1>10, <2>2 DEF NotPersisted, Stays, Places
  <2>3. CASE NotPersisted(p) /\ p \notin Patient
    <3>1. Len(<<>>) = 0 /\ past[p] = <<>>
      BY <2>3 DEF Numbered
    <3>2. Follows(att[p], NewAttempt(1))
      BY <3>1, NewAttemptOK, AttemptsAreBounded DEF Numbered, Follows, NewAttempt
    <3> QED BY <1>10, <2>3, <3>2 DEF NotPersisted, Stays, Places
  <2> QED BY <1>10, <2>1, <2>2, <2>3
<1>11. CASE FindFile(p)
  BY <1>2, <1>10, <1>11 DEF FindFile
<1>12. CASE WriteFile(p)
  BY <1>1, <1>2, <1>10, <1>12 DEF WriteFile
<1> QED BY <1>4, <1>5, <1>6, <1>7, <1>8, <1>9, <1>11, <1>12 DEF Step

(* Every step keeps the types and the numbering. *)
LEMMA NextTyped ==
  ASSUME RunTypeOK, Numbered, [RunNext]_runVars
  PROVE  RunTypeOK' /\ Numbered'
<1>1. CASE UNCHANGED runVars
  BY <1>1 DEF runVars, RunTypeOK, Numbered
<1>2. CASE RunNext
  <2>1. PICK p \in Procs : Step(p)
    BY <1>2 DEF RunNext, Step
  <2> QED BY <2>1, StepsAreOfThreeKinds, StaysTyped, BeginsTyped, RetryTyped
<1> QED BY <1>1, <1>2

(* Both hold at the start. *)
LEMMA InitTyped == RunInit => RunTypeOK /\ Numbered
<1> SUFFICES ASSUME RunInit PROVE RunTypeOK /\ Numbered
  OBVIOUS
<1>1. NewAttempt(1) \in Attempts /\ NewAttempt(1).snap.number = 1
  BY NewAttemptOK, AttemptsAreBounded DEF NewAttempt
<1>2. <<>> \in Seq(Attempts) /\ Len(<<>>) = 0
  OBVIOUS
<1> QED BY <1>1, <1>2, AttemptsAreBounded DEF RunInit, RunTypeOK, Numbered

(* Hence they hold always. *)
LEMMA AlwaysTyped == RunSpec => [](RunTypeOK /\ Numbered)
BY InitTyped, NextTyped, PTL DEF RunSpec

(* Whatever a reading is, whoever shares the run id and whatever crashes,  *)
(* controllers and files keep their types, and no attempt has a number     *)
(* past its bound.                                                         *)
THEOREM RunTypeCorrect == RunSpec => []RunTypeOK
BY AlwaysTyped, PTL

-----------------------------------------------------------------------------
(* What the phase of an attempt says of the rest of it.                    *)
Fresh(obs) ==
  obs.kind \in {"low", "high"} /\ obs.received - obs.captured \in 0 .. MaxAge

Staged(s) ==
  /\ s.phase = "arrived"     => s.nav /\ ~s.arrival
  /\ s.phase = "stabilizing" => s.arrival /\ ~s.stable
  /\ s.phase = "acquiring"   => s.stable /\ s.obs = None
  /\ s.phase = "evaluating"  => s.stable /\ s.quality = "pass"
  /\ s.phase = "succeeded"   => s.stable /\ s.finding # None

Judged(s) ==
  /\ s.quality # None => s.obs # None
  /\ s.quality = "pass" => Fresh(s.obs)
  /\ s.finding # None => s.finding = (IF s.obs.kind = "high" THEN "anomalous" ELSE "normal")

SnapOK(s) == Earned(s) /\ Staged(s) /\ Judged(s)

(* A new attempt has no stage it did not earn. *)
LEMMA NewIsOK ==
  ASSUME NEW n \in 1 .. MaxAttempts
  PROVE  SnapOK(NewAttempt(n).snap)
<1>1. None # "pass"
  BY NoneIsNoReading DEF Qualities
<1> QED BY <1>1 DEF NewAttempt, SnapOK, Earned, Staged, Judged, Failures

(* Called in its phase, a method keeps what the phases say.                *)
LEMMA MethodsKeepStages ==
  ASSUME NEW a \in Attempts, SnapOK(a.snap)
  PROVE  /\ a.snap.phase = "idle" => SnapOK(StartNavigation(a).snap)
         /\ \A ok \in BOOLEAN :
              /\ a.snap.phase = "navigating" => SnapOK(RecordNavigationResult(a, ok).snap)
              /\ a.snap.phase = "arrived" => SnapOK(ConfirmArrival(a, ok).snap)
              /\ a.snap.phase = "stabilizing" => SnapOK(CompleteStabilization(a, ok).snap)
         /\ a.snap.phase = "acquiring" => SnapOK(RecordSensorFailure(a).snap)
         /\ SnapOK([a EXCEPT !.snap.phase = "canceled"].snap)
         /\ SnapOK(PersistEvidence(a, a.snap).snap)
<1>0. None # "pass" /\ a.snap \in Contents
  BY NoneIsNoReading DEF Qualities, Attempts
<1> USE <1>0 DEF SnapOK, Earned, Staged, Judged, Attempts, Contents
<1>1. a.snap.phase = "idle" => SnapOK(StartNavigation(a).snap)
  BY DEF StartNavigation, Failures
<1>2. ASSUME NEW ok \in BOOLEAN, a.snap.phase = "navigating"
      PROVE  SnapOK(RecordNavigationResult(a, ok).snap)
  BY <1>2 DEF RecordNavigationResult, Failures
<1>3. ASSUME NEW ok \in BOOLEAN, a.snap.phase = "arrived"
      PROVE  SnapOK(ConfirmArrival(a, ok).snap)
  BY <1>3 DEF ConfirmArrival, Failures
<1>4. ASSUME NEW ok \in BOOLEAN, a.snap.phase = "stabilizing"
      PROVE  SnapOK(CompleteStabilization(a, ok).snap)
  BY <1>4 DEF CompleteStabilization, Failures
<1>5. a.snap.phase = "acquiring" => SnapOK(RecordSensorFailure(a).snap)
  BY DEF RecordSensorFailure, Failures
<1>6. SnapOK([a EXCEPT !.snap.phase = "canceled"].snap)
  BY DEF Failures
<1>7. SnapOK(PersistEvidence(a, a.snap).snap)
  BY DEF PersistEvidence, Complete, Failures
<1> HIDE <1>0 DEF SnapOK, Earned, Staged, Judged, Attempts, Contents
<1> QED BY <1>1, <1>2, <1>3, <1>4, <1>5, <1>6, <1>7

(* A reading that passes is fresh.                                         *)
LEMMA PassIsFresh ==
  ASSUME NEW obs \in Observations, NEW now \in Times, QualityAt(obs, now) = "pass"
  PROVE  Fresh(obs)
<1>1. obs.captured \in Nat /\ obs.received \in Nat /\ now \in Nat /\ MaxAge \in Nat
  BY TimesAreNumbers DEF Observations
<1>2. obs.kind \in {"low", "high", "foreign", "nan", "incomplete"}
  BY KindsAreKnown DEF Observations
<1>3. /\ obs.kind \in {"low", "high"}
      /\ ~(obs.captured > obs.received \/ obs.received > now)
      /\ ~(now - obs.captured > MaxAge)
  BY <1>2 DEF QualityAt
<1> QED BY <1>1, <1>3 DEF Fresh

(* A reading, once recorded, judged and evaluated, leaves an attempt its phase has earned. *)
LEMMA ReadingKeepsStages ==
  ASSUME NEW a \in Attempts, SnapOK(a.snap), a.snap.phase = "acquiring",
         NEW obs \in Observations, NEW now \in Times
  PROVE  LET seen == ValidateObservation(RecordObservation(a, obs), now)
         IN  /\ SnapOK(seen.snap)
             /\ SnapOK(Processed(a, obs, now).snap)
             /\ Processed(a, obs, now).evidence = a.evidence
             /\ seen.evidence = a.evidence
             /\ seen.snap.phase \in {"evaluating", "data_invalid"}
             /\ \/ Processed(a, obs, now).snap.phase \in Failures
                \/ /\ Processed(a, obs, now).snap.phase = "evaluating"
                   /\ Processed(a, obs, now).snap.finding # None
<1> DEFINE read == RecordObservation(a, obs)
           seen == ValidateObservation(read, now)
           qual == QualityAt(obs, now)
<1>0. a.snap \in Contents /\ None \notin {"pass", "normal", "anomalous"} /\ obs # None
  BY NoneIsNoReading DEF Qualities, Attempts
<1>1. read = [a EXCEPT !.snap.obs = obs] /\ read.snap.obs = obs
  BY <1>0 DEF RecordObservation, Attempts, Contents
<1>2. /\ seen.snap = [a.snap EXCEPT !.obs = obs, !.quality = qual,
                       !.phase = IF qual = "pass" THEN "evaluating" ELSE "data_invalid"]
      /\ seen.evidence = a.evidence
      /\ seen \in Attempts
  <2>1. seen = [read EXCEPT !.snap.quality = qual,
                            !.snap.phase = IF qual = "pass"
                                           THEN "evaluating" ELSE "data_invalid"]
    BY <1>1 DEF ValidateObservation
  <2>2. seen \in Attempts
    BY ProcessedFollows DEF Follows
  <2> HIDE DEF seen, qual
  <2> QED BY <1>0, <1>1, <2>1, <2>2 DEF Attempts, Contents
<1>3. qual \in Qualities /\ (qual = "pass" => Fresh(obs))
  BY QualityOK, PassIsFresh
<1>4. Processed(a, obs, now) = IF seen.snap.quality = "pass" THEN Evaluate(seen) ELSE seen
  BY DEF Processed
<1> HIDE DEF read, seen, qual
<1>5. SnapOK(seen.snap) /\ seen.snap.finding = None
  BY <1>0, <1>2, <1>3 DEF SnapOK, Earned, Staged, Judged, Contents, Failures
<1>6. CASE qual = "pass"
  <2>1. /\ seen.snap \in Contents /\ seen.snap.obs = obs
        /\ seen.snap.quality = "pass" /\ seen.snap.phase = "evaluating"
    BY <1>0, <1>2, <1>6 DEF Contents, Attempts
  <2>2. /\ Evaluate(seen).snap =
             [seen.snap EXCEPT !.finding = IF obs.kind = "high" THEN "anomalous" ELSE "normal"]
        /\ Evaluate(seen).evidence = a.evidence
    BY <1>2, <2>1 DEF Evaluate, Attempts, Contents
  <2>3. /\ SnapOK(Evaluate(seen).snap)
        /\ Evaluate(seen).snap.phase = "evaluating" /\ Evaluate(seen).snap.finding # None
    BY <1>0, <1>5, <2>1, <2>2 DEF SnapOK, Earned, Staged, Judged, Contents, Failures
  <2> QED BY <1>2, <1>4, <1>5, <2>1, <2>2, <2>3 DEF seen, read
<1>7. CASE qual # "pass"
  <2>1. seen.snap.quality # "pass" /\ seen.snap.phase = "data_invalid"
    BY <1>0, <1>2, <1>7 DEF Contents
  <2> QED BY <1>2, <1>4, <1>5, <2>1 DEF seen, read, Failures
<1> QED BY <1>6, <1>7

-----------------------------------------------------------------------------
(* What holds of a process: of the attempt it is on, at the place it is,   *)
(* and of those it has given up.                                           *)
Ended == Failures \cup {"succeeded", "canceled"}

Ready(s) ==
  s.phase \in Failures \cup {"canceled"} \/ (s.phase = "evaluating" /\ s.finding # None)

OnCourse(a, place) ==
  /\ SnapOK(a.snap)
  /\ place \in {"open", "write"} => a.evidence = None /\ Ready(a.snap)
  /\ place = "calling" /\ a.evidence # None => a.snap.phase \in Ended
  /\ a.snap.phase = "succeeded" => a.evidence # None

GivenUp(a) == SnapOK(a.snap) /\ a.snap.phase \in Failures

Proper(p) ==
  /\ OnCourse(att[p], at[p])
  /\ \A i \in DOMAIN past[p] : GivenUp(past[p][i]) /\ past[p][i].snap.number = i

(* A new attempt is on course wherever the process that begins it stands. *)
LEMMA NewIsOnCourse ==
  ASSUME NEW n \in 1 .. MaxAttempts, NEW place \in {"down", "calling"}
  PROVE  OnCourse(NewAttempt(n), place)
BY NewIsOK DEF OnCourse, NewAttempt

(* A step leaves what another process has in memory alone.                 *)
LEMMA OthersStay ==
  ASSUME RunTypeOK, Numbered, NEW p \in Procs, Step(p), NEW q \in Procs, q # p
  PROVE  at'[q] = at[q] /\ att'[q] = att[q] /\ past'[q] = past[q]
<1>1. CASE \E a : \E place : Stays(p, a, place)
  BY <1>1 DEF Stays, RunTypeOK
<1>2. CASE \E place : Begins(p, place)
  BY <1>2 DEF Begins, RunTypeOK
<1>3. CASE RetryPoint(p)
  BY <1>3 DEF RetryPoint, RunTypeOK
<1> QED BY <1>1, <1>2, <1>3, StepsAreOfThreeKinds

(* Persisting an attempt completes it if it can be completed.              *)
LEMMA PersistedIsOnCourse ==
  ASSUME NEW a \in Attempts, SnapOK(a.snap), Ready(a.snap), NEW place \in {"calling", "done"}
  PROVE  /\ OnCourse(PersistEvidence(a, a.snap), place)
         /\ PersistEvidence(a, a.snap).evidence = a.snap
         /\ PersistEvidence(a, a.snap).snap =
              [a.snap EXCEPT !.phase = IF a.snap.phase = "evaluating"
                                       THEN "succeeded" ELSE a.snap.phase]
<1> DEFINE b == PersistEvidence(a, a.snap)
<1>1. a.snap \in Contents /\ a.snap # None
  BY ContentsAreFiles DEF Attempts
<1>2. a.snap.phase = "evaluating" => Complete(a)
  BY DEF Ready, SnapOK, Earned, Staged, Complete, Failures
<1>3. /\ b.evidence = a.snap
      /\ b.snap = [a.snap EXCEPT !.phase = IF a.snap.phase = "evaluating"
                                           THEN "succeeded" ELSE a.snap.phase]
  BY <1>1, <1>2 DEF PersistEvidence, Attempts, Contents
<1>4. b.snap.phase \in Ended
  BY <1>1, <1>3 DEF Ready, Ended, Contents, Failures
<1>5. SnapOK(b.snap)
  BY MethodsKeepStages
<1> QED BY <1>1, <1>3, <1>4, <1>5 DEF OnCourse

(* A step leaves the attempt of its own process on course. *)
LEMMA StepKeepsCourse ==
  ASSUME RunTypeOK, Numbered, NEW p \in Procs, Proper(p), Step(p)
  PROVE  OnCourse(att'[p], at'[p])
<1>1. /\ att[p] \in Attempts /\ att[p].snap \in Contents
      /\ SnapOK(att[p].snap) /\ OnCourse(att[p], at[p])
      /\ att[p].snap.number \in 1 .. MaxAttempts
  BY TypesHere DEF Proper, OnCourse
<1>2. 1 \in 1 .. MaxAttempts
  BY AttemptsAreBounded
<1>3. ASSUME NEW a, Advance(p, a), at[p] = "calling", SnapOK(a.snap),
             a.evidence = att[p].evidence, a.snap.phase # "succeeded",
             att[p].snap.phase \in Ended => a.snap.phase \in Ended
      PROVE  OnCourse(att'[p], at'[p])
  BY <1>1, <1>3 DEF Advance, OnCourse, RunTypeOK
<1>4. CASE BeginNavigation(p)
  <2>1. /\ StartNavigation(att[p]).evidence = att[p].evidence
        /\ StartNavigation(att[p]).snap.phase = "navigating"
    BY <1>1 DEF StartNavigation, Attempts, Contents
  <2> QED
    BY <1>1, <1>3, <1>4, <2>1, MethodsKeepStages DEF BeginNavigation, Calling, Ended, Failures
<1>5. CASE EndNavigation(p)
  <2>1. PICK ok \in BOOLEAN : Advance(p, RecordNavigationResult(att[p], ok))
    BY <1>5 DEF EndNavigation
  <2>2. /\ RecordNavigationResult(att[p], ok).evidence = att[p].evidence
        /\ RecordNavigationResult(att[p], ok).snap.phase \in {"arrived", "navigation_failed"}
    BY <1>1 DEF RecordNavigationResult, Attempts, Contents
  <2> QED
    BY <1>1, <1>3, <1>5, <2>1, <2>2, MethodsKeepStages DEF EndNavigation, Calling, Ended, Failures
<1>6. CASE VerifyArrival(p)
  <2>1. PICK ok \in BOOLEAN : Advance(p, ConfirmArrival(att[p], ok))
    BY <1>6 DEF VerifyArrival
  <2>2. /\ ConfirmArrival(att[p], ok).evidence = att[p].evidence
        /\ ConfirmArrival(att[p], ok).snap.phase \in {"stabilizing", "inspection_failed"}
    BY <1>1 DEF ConfirmArrival, Attempts, Contents
  <2> QED
    BY <1>1, <1>3, <1>6, <2>1, <2>2, MethodsKeepStages DEF VerifyArrival, Calling, Ended, Failures
<1>7. CASE Stabilize(p)
  <2>1. PICK ok \in BOOLEAN : Advance(p, CompleteStabilization(att[p], ok))
    BY <1>7 DEF Stabilize
  <2>2. /\ CompleteStabilization(att[p], ok).evidence = att[p].evidence
        /\ CompleteStabilization(att[p], ok).snap.phase \in {"acquiring", "inspection_failed"}
    BY <1>1 DEF CompleteStabilization, Attempts, Contents
  <2> QED
    BY <1>1, <1>3, <1>7, <2>1, <2>2, MethodsKeepStages DEF Stabilize, Calling, Ended, Failures
<1>8. CASE Cancel(p)
  <2>1. /\ [att[p] EXCEPT !.snap.phase = "canceled"].evidence = att[p].evidence
        /\ [att[p] EXCEPT !.snap.phase = "canceled"].snap.phase = "canceled"
    BY <1>1 DEF Attempts, Contents
  <2> QED
    BY <1>1, <1>3, <1>8, <2>1, MethodsKeepStages DEF Cancel, Calling, Ended
<1>9. CASE EvaluatorRefused(p)
  <2>1. PICK now \in Times, obs \in Observations :
          Advance(p, ValidateObservation(RecordObservation(att[p], obs), now))
    BY <1>9 DEF EvaluatorRefused, Sensed
  <2>2. at[p] = "calling" /\ att[p].snap.phase = "acquiring" /\ "acquiring" \notin Ended
    BY <1>9 DEF EvaluatorRefused, Calling, Ended, Failures
  <2> QED BY <1>1, <1>3, <2>1, <2>2, ReadingKeepsStages
<1>10. CASE Process(p)
  <2>1. /\ att[p].snap.phase = "acquiring" /\ att[p].evidence = None
        /\ at'[p] = "open"
    BY <1>1, <1>10 DEF Process, Calling, OnCourse, Ended, Failures, RunTypeOK
  <2>2. CASE att' = [att EXCEPT ![p] = RecordSensorFailure(att[p])]
    <3>1. /\ RecordSensorFailure(att[p]).evidence = None
          /\ RecordSensorFailure(att[p]).snap.phase = "sensor_failed"
      BY <1>1, <2>1 DEF RecordSensorFailure, Attempts, Contents
    <3>2. att'[p] = RecordSensorFailure(att[p])
      BY <2>2 DEF RunTypeOK
    <3> QED BY <1>1, <2>1, <3>1, <3>2, MethodsKeepStages DEF OnCourse, Ready, Failures
  <2>3. CASE \E now \in Times : \E obs \in Sensed(p, now) :
               att' = [att EXCEPT ![p] = Processed(att[p], obs, now)]
    <3>1. PICK now \in Times, obs \in Observations :
            att' = [att EXCEPT ![p] = Processed(att[p], obs, now)]
      BY <2>3 DEF Sensed
    <3>2. att'[p] = Processed(att[p], obs, now)
      BY <3>1 DEF RunTypeOK
    <3>3. /\ SnapOK(att'[p].snap) /\ att'[p].evidence = None
          /\ att'[p].snap.phase # "succeeded" /\ Ready(att'[p].snap)
      BY <1>1, <2>1, <3>2, ReadingKeepsStages DEF Ready, Failures
    <3> QED BY <2>1, <3>3 DEF OnCourse
  <2> QED BY <1>10, <2>2, <2>3 DEF Process
<1>11. CASE FinalizeFailure(p)
  BY <1>1, <1>11 DEF FinalizeFailure, Calling, OnCourse, Ready, RunTypeOK
<1>12. CASE GateRefuses(p)
  BY <1>1, <1>12 DEF GateRefuses, OnCourse, RunTypeOK
<1>13. CASE Start(p) \/ Crash(p)
  BY <1>2, <1>13, NewIsOnCourse DEF Start, Crash, RunTypeOK
<1>14. CASE CreateFile(p)
  BY <1>1, <1>14 DEF CreateFile, OnCourse, RunTypeOK
<1>15. CASE RetryPoint(p)
  <2>1. att[p].snap.number + 1 \in 1 .. MaxAttempts
    BY <1>1, <1>15, AttemptsAreBounded DEF RetryPoint
  <2>2. att'[p] = NewAttempt(att[p].snap.number + 1) /\ at'[p] = "calling"
    BY <1>15 DEF RetryPoint, Calling, RunTypeOK
  <2> QED BY <2>1, <2>2, NewIsOnCourse
<1>16. ASSUME at[p] \in {"open", "write"}, Persisted(p) \/ NotPersisted(p)
       PROVE  OnCourse(att'[p], at'[p])
  <2>1. Ready(att[p].snap) /\ att[p].evidence = None /\ att[p].snap.phase # "succeeded"
    BY <1>1, <1>16 DEF OnCourse
  <2>2. CASE Persisted(p)
    BY <1>1, <2>1, <2>2, PersistedIsOnCourse DEF Persisted, RunTypeOK
  <2>3. CASE NotPersisted(p) /\ p \in Patient
    BY <1>1, <2>1, <2>3 DEF NotPersisted, OnCourse, RunTypeOK
  <2>4. CASE NotPersisted(p) /\ p \notin Patient
    BY <1>2, <2>4, NewIsOnCourse DEF NotPersisted, RunTypeOK
  <2> QED BY <1>16, <2>2, <2>3, <2>4
<1>17. CASE FindFile(p) \/ WriteFile(p)
  BY <1>16, <1>17 DEF FindFile, WriteFile
<1> QED
  BY <1>4, <1>5, <1>6, <1>7, <1>8, <1>9, <1>10, <1>11, <1>12, <1>13, <1>14, <1>15, <1>17
     DEF Step

(* A step leaves the given-up attempts of its process failures without a gap in their numbers. *)
LEMMA StepKeepsPast ==
  ASSUME RunTypeOK, Numbered, NEW p \in Procs, Proper(p), Step(p)
  PROVE  \A i \in DOMAIN past'[p] : GivenUp(past'[p][i]) /\ past'[p][i].snap.number = i
<1>1. CASE \E a : \E place : Stays(p, a, place)
  BY <1>1 DEF Stays, Proper
<1>2. CASE \E place : Begins(p, place)
  BY <1>2 DEF Begins, RunTypeOK
<1>3. CASE RetryPoint(p)
  <2>1. /\ past'[p] = Append(past[p], att[p])
        /\ att[p].snap.phase \in Failures
    BY <1>3 DEF RetryPoint, Calling, RunTypeOK
  <2>2. GivenUp(att[p]) /\ att[p].snap.number = Len(past[p]) + 1
    BY <2>1 DEF GivenUp, Proper, OnCourse, Numbered
  <2>3. /\ DOMAIN past'[p] = 1 .. Len(past[p]) + 1 /\ Len(past[p]) \in Nat
        /\ DOMAIN past[p] = 1 .. Len(past[p])
        /\ \A i \in 1 .. Len(past[p]) : past'[p][i] = past[p][i]
        /\ past'[p][Len(past[p]) + 1] = att[p]
    BY <2>1, TypesHere
  <2> QED BY <2>2, <2>3 DEF Proper
<1> QED BY <1>1, <1>2, <1>3, StepsAreOfThreeKinds

(* A process that writes a file has it to itself, and nobody takes it for  *)
(* evidence until it is written.                                           *)
Writing(p) == at[p] = "write"

OneWriter ==
  \A p \in Procs : Writing(p) =>
    /\ files[att[p].snap.number] = Torn
    /\ \A q \in Procs : Writing(q) /\ att[q].snap.number = att[p].snap.number => q = p

RunInv == RunTypeOK /\ Numbered /\ OneWriter /\ \A p \in Procs : Proper(p)

(* A file that is there is only written by the process that created it.    *)
LEMMA FilesStay ==
  ASSUME RunInv, NEW p \in Procs, Step(p), NEW n \in 1 .. MaxAttempts
  PROVE  \/ files'[n] = files[n]
         \/ CreateFile(p) /\ n = att[p].snap.number /\ files[n] = None /\ files'[n] = Torn
         \/ WriteFile(p) /\ n = att[p].snap.number /\ files[n] = Torn
<1>1. files \in [1 .. MaxAttempts -> Contents \cup {None, Torn}]
  BY DEF RunInv, RunTypeOK
<1>2. CASE CreateFile(p)
  BY <1>1, <1>2 DEF CreateFile, FileOf
<1>3. CASE WriteFile(p)
  BY <1>1, <1>3 DEF WriteFile, RunInv, OneWriter, Writing
<1>4. CASE ~CreateFile(p) /\ ~WriteFile(p)
  BY <1>4 DEF Step, Start, GateRefuses, BeginNavigation, EndNavigation, VerifyArrival,
              Stabilize, RetryPoint, Cancel, Process, EvaluatorRefused, FinalizeFailure,
              FindFile, Crash, Advance
<1> QED BY <1>2, <1>3, <1>4

(* Only the creation of a file makes a writer; a writer keeps its attempt  *)
(* until it stops writing.                                                 *)
LEMMA WritersComeByCreation ==
  ASSUME RunInv, NEW p \in Procs, Step(p), Writing(p)'
  PROVE  /\ CreateFile(p)
         /\ files[att[p].snap.number] = None
         /\ files'[att[p].snap.number] = Torn
         /\ att'[p].snap.number = att[p].snap.number
<1>1. at \in [Procs -> Places] /\ att[p].snap.number \in 1 .. MaxAttempts
      /\ DOMAIN files = 1 .. MaxAttempts
  BY TypesHere DEF RunInv, RunTypeOK, Places
<1>2. CASE CreateFile(p)
  BY <1>1, <1>2 DEF CreateFile, FileOf
<1>3. CASE ~CreateFile(p)
  <2>1. at'[p] # "write"
    BY <1>1, <1>3 DEF Step, Start, GateRefuses, BeginNavigation, EndNavigation,
         VerifyArrival, Stabilize, RetryPoint, Cancel, Process, EvaluatorRefused,
         FinalizeFailure, FindFile, WriteFile, Crash, Advance, Calling, Persisted,
         NotPersisted
  <2> QED BY <2>1 DEF Writing
<1> QED BY <1>2, <1>3

(* The exclusive open keeps the writer of a torn file alone with it. *)
LEMMA StepKeepsOneWriter ==
  ASSUME RunInv, NEW p \in Procs, Step(p)
  PROVE  OneWriter'
<1>1. ASSUME NEW q \in Procs, q # p
      PROVE  /\ Writing(q)' <=> Writing(q)
             /\ att'[q].snap.number = att[q].snap.number
             /\ att[q].snap.number \in 1 .. MaxAttempts
  BY <1>1, OthersStay, TypesHere DEF RunInv, Writing
<1>2. ASSUME NEW q \in Procs, Writing(q)'
      PROVE  files'[att'[q].snap.number] = Torn
  <2>1. CASE q = p
    BY <1>2, <2>1, WritersComeByCreation
  <2>2. CASE q # p
    <3>1. Writing(q) /\ files[att[q].snap.number] = Torn
      BY <1>1, <1>2, <2>2 DEF RunInv, OneWriter
    <3>2. ~(WriteFile(p) /\ att[p].snap.number = att[q].snap.number)
      BY <2>2, <3>1 DEF WriteFile, RunInv, OneWriter, Writing
    <3> QED BY <1>1, <2>2, <3>1, <3>2, FilesStay
  <2> QED BY <2>1, <2>2
<1>3. ASSUME NEW q \in Procs, Writing(q)', NEW r \in Procs, Writing(r)',
             att'[q].snap.number = att'[r].snap.number, q # r
      PROVE  FALSE
  <2>1. CASE q # p /\ r # p
    BY <1>1, <1>3, <2>1 DEF RunInv, OneWriter
  <2>2. ASSUME NEW w \in Procs, Writing(w)', w # p, Writing(p)',
               att'[w].snap.number = att'[p].snap.number
        PROVE  FALSE
    <3>1. Writing(w) /\ files[att[w].snap.number] = Torn
      BY <1>1, <2>2 DEF RunInv, OneWriter
    <3>2. files[att[w].snap.number] = None
      BY <1>1, <2>2, WritersComeByCreation
    <3> QED BY <3>1, <3>2, MarksAreNoContents
  <2> QED BY <1>3, <2>1, <2>2
<1> QED BY <1>2, <1>3 DEF OneWriter

(* RunInv is kept by every step: the parts of one process by its own step, those of the
   others because the step does not touch them. *)
LEMMA RunInvStep ==
  ASSUME RunInv, [RunNext]_runVars
  PROVE  RunInv'
<1>1. CASE UNCHANGED runVars
  <2>1. RunTypeOK' /\ Numbered'
    BY NextTyped DEF RunInv
  <2> QED
    BY <1>1, <2>1 DEF runVars, RunInv, OneWriter, Writing, Proper
<1>2. CASE RunNext
  <2>1. PICK p \in Procs : Step(p)
    BY <1>2 DEF RunNext, Step
  <2>2. RunTypeOK' /\ Numbered'
    BY NextTyped DEF RunInv
  <2>3. OneWriter'
    BY <2>1, StepKeepsOneWriter
  <2>4. ASSUME NEW q \in Procs
        PROVE  Proper(q)'
    <3>1. CASE q = p
      BY <2>1, <3>1, StepKeepsCourse, StepKeepsPast DEF RunInv, Proper
    <3>2. CASE q # p
      BY <2>1, <3>2, OthersStay DEF RunInv, Proper
    <3> QED BY <3>1, <3>2
  <2> QED BY <2>2, <2>3, <2>4 DEF RunInv
<1> QED BY <1>1, <1>2

(* RunInv holds at the start: nobody has an attempt past its first, and no file exists. *)
LEMMA RunInvInit == RunInit => RunInv
<1> SUFFICES ASSUME RunInit PROVE RunInv
  OBVIOUS
<1>1. 1 \in 1 .. MaxAttempts /\ DOMAIN <<>> = {}
  BY AttemptsAreBounded
<1>2. \A p \in Procs : Proper(p)
  BY <1>1, NewIsOnCourse DEF RunInit, Proper
<1>3. OneWriter
  BY DEF RunInit, OneWriter, Writing
<1> QED BY <1>2, <1>3, InitTyped DEF RunInv

(* Hence it holds always. *)
LEMMA RunInvAlways == RunSpec => []RunInv
BY RunInvInit, RunInvStep, PTL DEF RunSpec

-----------------------------------------------------------------------------
(* A file is written once, by the process that created it, and one that    *)
(* was left torn stays torn: the exclusive open of persist_attempt.        *)
THEOREM EvidenceStaysAsWritten == RunSpec => EvidenceIsWriteOnce
<1>1. ASSUME RunInv, RunNext, NEW n \in DOMAIN files
      PROVE  \/ files[n] = None
             \/ files'[n] = files[n]
             \/ files[n] = Torn /\ \E p \in Procs : at[p] = "write" /\ att[p].snap.number = n
  <2>1. n \in 1 .. MaxAttempts
    BY <1>1 DEF RunInv, RunTypeOK
  <2>2. PICK p \in Procs : Step(p)
    BY <1>1 DEF RunNext, Step
  <2> QED BY <1>1, <2>1, <2>2, FilesStay DEF WriteFile
<1>2. RunInv /\ [RunNext]_runVars =>
        [ \A n \in DOMAIN files :
        \/ files[n] = None
        \/ files'[n] = files[n]
        \/ files[n] = Torn /\ \E p \in Procs : at[p] = "write" /\ att[p].snap.number = n ]_runVars
  BY <1>1
<1> QED BY <1>2, RunInvAlways, PTL DEF RunSpec, EvidenceIsWriteOnce

(* No attempt has a stage it did not earn, and given-up attempts are       *)
(* failures numbered from 1 without a gap: retry_point.                    *)
THEOREM AttemptsStayCoherent == RunSpec => []AttemptsAreCoherent
<1>1. RunInv => AttemptsAreCoherent
  <2> SUFFICES ASSUME RunInv, NEW p \in Procs
               PROVE  /\ \A a \in AttemptsOf(p) : Earned(a.snap)
                      /\ att[p].snap.number = Len(past[p]) + 1
                      /\ \A i \in DOMAIN past[p] :
                           past[p][i].snap.number = i /\ past[p][i].snap.phase \in Failures
    BY DEF AttemptsAreCoherent
  <2>1. /\ Earned(att[p].snap)
        /\ \A i \in DOMAIN past[p] :
             /\ Earned(past[p][i].snap)
             /\ past[p][i].snap.number = i /\ past[p][i].snap.phase \in Failures
    BY DEF RunInv, Proper, OnCourse, GivenUp, SnapOK
  <2>2. \A a \in AttemptsOf(p) : Earned(a.snap)
    BY <2>1 DEF AttemptsOf, Range
  <2> QED BY <2>1, <2>2 DEF RunInv, Numbered
<1> QED BY <1>1, RunInvAlways, PTL

-----------------------------------------------------------------------------
(* A reference is resolved by the file of its attempt.                     *)
Resolves(a) ==
  a.evidence # None =>
    files[a.snap.number] = a.evidence /\ Tells(a.evidence, a.snap)

RefInv ==
  \A p \in Procs :
    Resolves(att[p]) /\ \A i \in DOMAIN past[p] : Resolves(past[p][i])

(* What a reference refers to is not written again.                        *)
LEMMA ResolvedStays ==
  ASSUME RunInv, NEW p \in Procs, Step(p), NEW a \in Attempts, Resolves(a)
  PROVE  Resolves(a)'
<1>1. a.snap.number \in 1 .. MaxAttempts /\ (a.evidence # None => a.evidence \in Contents)
  BY DEF Attempts, Contents
<1>2. a.evidence # None => files'[a.snap.number] = files[a.snap.number]
  BY <1>1, FilesStay, ContentsAreFiles DEF Resolves
<1> QED BY <1>2 DEF Resolves, Tells

(* Evidence tells the outcome of the attempt it is of, as it is persisted  *)
(* and when a failure is canceled after that.                              *)
LEMMA PersistedTells ==
  ASSUME NEW s \in Contents
  PROVE  Tells(s, [s EXCEPT !.phase = IF s.phase = "evaluating" THEN "succeeded" ELSE s.phase])
BY DEF Tells, Contents

(* Canceling a failed attempt leaves what its evidence tells of it as it was. *)
LEMMA CanceledTells ==
  ASSUME NEW e \in Contents, NEW s \in Contents, Tells(e, s), s.phase \in Failures
  PROVE  Tells(e, [s EXCEPT !.phase = "canceled"])
<1>1. [e EXCEPT !.phase = s.phase] = s
  BY DEF Tells
<1>2. [e EXCEPT !.phase = "canceled"] = [s EXCEPT !.phase = "canceled"]
  BY <1>1 DEF Contents
<1>3. e.phase \in Failures
  BY DEF Tells, Failures
<1>4. [s EXCEPT !.phase = "canceled"].phase = "canceled"
  BY DEF Contents
<1> QED BY <1>2, <1>3, <1>4 DEF Tells

(* Before an attempt has ended, its methods leave it without evidence.     *)
LEMMA CallsLeaveNoEvidence ==
  ASSUME RunInv, NEW p \in Procs,
         \/ BeginNavigation(p) \/ EndNavigation(p) \/ VerifyArrival(p) \/ Stabilize(p)
         \/ Process(p) \/ EvaluatorRefused(p)
  PROVE  att'[p].evidence = None
<1>1. att[p] \in Attempts /\ att \in [Procs -> Attempts]
  BY DEF RunInv, RunTypeOK
<1>2. att[p].evidence = None /\ SnapOK(att[p].snap)
  BY DEF RunInv, Proper, OnCourse, Ended, Failures, Calling, BeginNavigation,
         EndNavigation, VerifyArrival, Stabilize, Process, EvaluatorRefused
<1>3. \/ att'[p] = StartNavigation(att[p])
      \/ \E ok \in BOOLEAN : \/ att'[p] = RecordNavigationResult(att[p], ok)
                             \/ att'[p] = ConfirmArrival(att[p], ok)
                             \/ att'[p] = CompleteStabilization(att[p], ok)
      \/ att'[p] = RecordSensorFailure(att[p])
      \/ /\ att[p].snap.phase = "acquiring"
         /\ \E now \in Times : \E obs \in Observations :
              \/ att'[p] = Processed(att[p], obs, now)
              \/ att'[p] = ValidateObservation(RecordObservation(att[p], obs), now)
  BY <1>1 DEF BeginNavigation, EndNavigation, VerifyArrival, Stabilize, Process,
              EvaluatorRefused, Advance, Calling, Sensed
<1>4. CASE \E now \in Times : \E obs \in Observations :
             /\ att[p].snap.phase = "acquiring"
             /\ \/ att'[p] = Processed(att[p], obs, now)
                \/ att'[p] = ValidateObservation(RecordObservation(att[p], obs), now)
  BY <1>1, <1>2, <1>4, ReadingKeepsStages
<1>5. CASE ~ \E now \in Times : \E obs \in Observations :
             /\ att[p].snap.phase = "acquiring"
             /\ \/ att'[p] = Processed(att[p], obs, now)
                \/ att'[p] = ValidateObservation(RecordObservation(att[p], obs), now)
  BY <1>1, <1>2, <1>3, <1>5
     DEF StartNavigation, RecordNavigationResult, ConfirmArrival, CompleteStabilization,
         RecordSensorFailure, Attempts, Contents
<1> QED BY <1>4, <1>5

(* A reference taken when the attempt is persisted is what its file holds. *)
LEMMA PersistedResolves ==
  ASSUME RunInv, NEW p \in Procs, Step(p), at[p] \in {"open", "write"}, Persisted(p),
         files'[att[p].snap.number] = att[p].snap
  PROVE  Resolves(att[p])'
<1>1. /\ att[p] \in Attempts /\ att[p].snap \in Contents
      /\ SnapOK(att[p].snap) /\ Ready(att[p].snap)
  BY TypesHere DEF RunInv, Proper, OnCourse
<1>2. att'[p] = PersistEvidence(att[p], att[p].snap)
  BY DEF Persisted, RunInv, RunTypeOK
<1>3. /\ att'[p].evidence = att[p].snap
      /\ att'[p].snap = [att[p].snap EXCEPT !.phase = IF att[p].snap.phase = "evaluating"
                                                      THEN "succeeded" ELSE att[p].snap.phase]
  BY <1>1, <1>2, PersistedIsOnCourse
<1>4. att'[p].snap.number = att[p].snap.number
  BY <1>1, <1>3 DEF Contents
<1>5. Tells(att'[p].evidence, att'[p].snap)
  BY <1>1, <1>3, PersistedTells
<1> QED BY <1>3, <1>4, <1>5 DEF Resolves, Tells

(* A cancel takes no reference away and changes nothing the reference tells. *)
LEMMA CancelResolves ==
  ASSUME RunInv, NEW p \in Procs, Resolves(att[p]), Cancel(p)
  PROVE  Resolves(att[p])'
<1>1. att[p] \in Attempts /\ att[p].snap \in Contents
  BY TypesHere DEF RunInv
<1>2. /\ att'[p] = [att[p] EXCEPT !.snap.phase = "canceled"] /\ files' = files
      /\ at[p] = "calling" /\ att[p].snap.phase \notin {"succeeded", "canceled"}
  BY DEF Cancel, Calling, Advance, RunInv, RunTypeOK
<1>3. /\ att'[p].evidence = att[p].evidence
      /\ att'[p].snap = [att[p].snap EXCEPT !.phase = "canceled"]
      /\ att'[p].snap.number = att[p].snap.number
  BY <1>1, <1>2 DEF Attempts, Contents
<1>4. CASE att[p].evidence = None
  BY <1>3, <1>4 DEF Resolves
<1>5. CASE att[p].evidence # None
  <2>1. att[p].snap.phase \in Failures
    BY <1>2, <1>5 DEF RunInv, Proper, OnCourse, Ended
  <2>2. /\ att[p].evidence \in Contents /\ Tells(att[p].evidence, att[p].snap)
        /\ files[att[p].snap.number] = att[p].evidence
    BY <1>1, <1>5 DEF Resolves, Attempts
  <2>3. Tells(att'[p].evidence, att'[p].snap)
    BY <1>1, <1>3, <2>1, <2>2, CanceledTells
  <2> QED BY <1>2, <1>3, <2>2, <2>3 DEF Resolves, Tells
<1> QED BY <1>4, <1>5

(* A step leaves the reference of its own process right, whichever call it is. *)
LEMMA StepResolves ==
  ASSUME RunInv, NEW p \in Procs, Resolves(att[p]), Step(p)
  PROVE  Resolves(att[p])'
<1>1. /\ att[p] \in Attempts
      /\ att \in [Procs -> Attempts]
      /\ files \in [1 .. MaxAttempts -> Contents \cup {None, Torn}]
      /\ att[p].snap.number \in 1 .. MaxAttempts
  BY TypesHere DEF RunInv, RunTypeOK
<1>2. CASE att'[p].evidence = None
  BY <1>2 DEF Resolves
<1>3. CASE att'[p] = att[p]
  <2>1. Resolves(att[p]) /\ att[p].evidence # None =>
          /\ files'[att[p].snap.number] = files[att[p].snap.number]
          /\ files[att[p].snap.number] = att[p].evidence
    BY <1>1, FilesStay, ContentsAreFiles DEF Resolves, Attempts
  <2> QED BY <1>3, <2>1 DEF Resolves, Tells
<1>4. CASE BeginNavigation(p) \/ EndNavigation(p) \/ VerifyArrival(p) \/ Stabilize(p)
           \/ Process(p) \/ EvaluatorRefused(p)
  BY <1>2, <1>4, CallsLeaveNoEvidence
<1>5. \A n : NewAttempt(n).evidence = None
  BY DEF NewAttempt
<1>6. CASE Start(p) \/ Crash(p) \/ RetryPoint(p)
  BY <1>1, <1>2, <1>5, <1>6 DEF Start, Crash, RetryPoint
<1>7. CASE GateRefuses(p) \/ FinalizeFailure(p) \/ CreateFile(p)
  BY <1>3, <1>7 DEF GateRefuses, FinalizeFailure, CreateFile
<1>8. CASE NotPersisted(p)
  BY <1>1, <1>2, <1>3, <1>5, <1>8 DEF NotPersisted
<1>9. CASE FindFile(p)
  <2>1. CASE Alike(p) /\ Persisted(p)
    <3>1. files'[att[p].snap.number] = att[p].snap /\ at[p] = "open"
      BY <1>9, <2>1 DEF FindFile, Alike, FileOf
    <3> QED BY <2>1, <3>1, PersistedResolves
  <2> QED BY <1>8, <1>9, <2>1 DEF FindFile
<1>10. CASE WriteFile(p)
  <2>1. PICK kept \in {att[p].snap, Torn} :
          /\ files' = [files EXCEPT ![att[p].snap.number] = kept]
          /\ (kept # Torn /\ Persisted(p)) \/ NotPersisted(p)
    BY <1>10 DEF WriteFile
  <2>2. CASE kept # Torn /\ Persisted(p)
    <3>1. files'[att[p].snap.number] = att[p].snap /\ at[p] = "write"
      BY <1>1, <1>10, <2>1, <2>2 DEF WriteFile
    <3> QED BY <2>2, <3>1, PersistedResolves
  <2> QED BY <1>8, <2>1, <2>2
<1> QED BY <1>4, <1>6, <1>7, <1>9, <1>10, CancelResolves DEF Step

(* Every step keeps every reference right: the file of another process's reference
   does not change under it. *)
LEMMA RefInvStep ==
  ASSUME RunInv, RefInv, [RunNext]_runVars
  PROVE  RefInv'
<1>1. CASE UNCHANGED runVars
  BY <1>1 DEF runVars, RefInv, Resolves, Tells
<1>2. CASE RunNext
  <2>1. PICK p \in Procs : Step(p)
    BY <1>2 DEF RunNext, Step
  <2>2. ASSUME NEW q \in Procs
        PROVE  Resolves(att[q])' /\ \A i \in DOMAIN past'[q] : Resolves(past[q][i])'
    <3>1. /\ att[q] \in Attempts /\ past[q] \in Seq(Attempts)
          /\ \A i \in DOMAIN past[q] : past[q][i] \in Attempts
      BY TypesHere DEF RunInv
    <3>2. Resolves(att[q]) /\ \A i \in DOMAIN past[q] : Resolves(past[q][i])
      BY DEF RefInv
    <3>3. \A a \in Attempts : Resolves(a) =>
            (a.evidence # None =>
               files'[a.snap.number] = a.evidence /\ Tells(a.evidence, a.snap))
      BY <2>1, ResolvedStays DEF Resolves, Tells
    <3>4. CASE q # p
      <4>1. att'[q] = att[q] /\ past'[q] = past[q]
        BY <2>1, <3>4, OthersStay DEF RunInv
      <4>2. Resolves(att[q])'
        BY <3>1, <3>2, <3>3, <4>1 DEF Resolves, Tells
      <4>3. ASSUME NEW i \in DOMAIN past'[q]
            PROVE  Resolves(past[q][i])'
        <5>1. past[q][i]' \in Attempts /\ Resolves(past[q][i]')
          BY <3>1, <3>2, <4>1
        <5> QED BY <3>3, <5>1 DEF Resolves, Tells
      <4> QED BY <4>2, <4>3
    <3>5. CASE q = p
      <4>1. Resolves(att[q])'
        BY <2>1, <3>2, <3>5, StepResolves
      <4>2. \A i \in DOMAIN past'[q] :
              \/ i \in DOMAIN past[q] /\ past'[q][i] = past[q][i]
              \/ past'[q][i] = att[q]
        <5>1. CASE \E a : \E place : Stays(p, a, place)
          BY <3>5, <5>1 DEF Stays
        <5>2. CASE \E place : Begins(p, place)
          BY <3>5, <5>2 DEF Begins, RunInv, RunTypeOK
        <5>3. CASE RetryPoint(p)
          <6>1. past'[q] = Append(past[q], att[q])
            BY <3>5, <5>3 DEF RetryPoint, RunInv, RunTypeOK
          <6> QED BY <3>1, <6>1
        <5> QED BY <2>1, <5>1, <5>2, <5>3, StepsAreOfThreeKinds DEF RunInv
      <4>3. ASSUME NEW i \in DOMAIN past'[q]
            PROVE  Resolves(past[q][i])'
        <5>1. past[q][i]' \in Attempts /\ Resolves(past[q][i]')
          BY <3>1, <3>2, <4>2
        <5> QED BY <3>3, <5>1 DEF Resolves, Tells
      <4> QED BY <4>1, <4>3
    <3> QED BY <3>4, <3>5
  <2> QED BY <2>2 DEF RefInv
<1> QED BY <1>1, <1>2

(* Hence every reference, of the attempt at hand or of one given up, is right always. *)
LEMMA RefInvAlways == RunSpec => []RefInv
<1>1. RunInit => RefInv
  BY DEF RunInit, RefInv, Resolves, NewAttempt
<1> QED BY <1>1, RefInvStep, RunInvAlways, PTL DEF RunSpec

(* Every reference that is held, for the attempt in hand or one given up,  *)
(* is resolved by the file of today, whoever shares the directory and      *)
(* whatever crashed: persist_attempt and its conflict check.               *)
THEOREM ReferencesAlwaysResolve == RunSpec => []ReferencesResolve
<1>1. RefInv => ReferencesResolve
  <2> SUFFICES ASSUME RefInv, NEW p \in Procs, NEW a \in AttemptsOf(p), a.evidence # None
               PROVE  files[a.snap.number] = a.evidence /\ Tells(a.evidence, a.snap)
    BY DEF ReferencesResolve
  <2>1. Resolves(a)
    BY DEF RefInv, AttemptsOf, Range
  <2> QED BY <2>1 DEF Resolves
<1> QED BY <1>1, RefInvAlways, PTL

(* A success that is reported is backed by its file: a fresh reading, with *)
(* every stage before it, and the finding that its value deserves.         *)
THEOREM SuccessesAreBacked == RunSpec => []SucceededIsBacked
<1>1. RunInv /\ RefInv => SucceededIsBacked
  <2> SUFFICES ASSUME RunInv, RefInv, NEW p \in Procs, att[p].snap.phase = "succeeded"
               PROVE  /\ FileOf(p) \notin {None, Torn}
                      /\ FileOf(p).nav /\ FileOf(p).arrival /\ FileOf(p).stable
                      /\ FileOf(p).obs.received - FileOf(p).obs.captured \in 0 .. MaxAge
                      /\ FileOf(p).obs.kind =
                           (IF FileOf(p).finding = "anomalous" THEN "high" ELSE "low")
    BY DEF SucceededIsBacked
  <2> DEFINE s == att[p].snap
             kept == FileOf(p)
  <2>1. s \in Contents /\ att[p] \in Attempts
    BY TypesHere DEF RunInv
  <2>2. att[p].evidence # None /\ SnapOK(s)
    BY DEF RunInv, Proper, OnCourse
  <2>3. kept = att[p].evidence /\ kept \in Contents /\ [kept EXCEPT !.phase = s.phase] = s
    BY <2>1, <2>2 DEF RefInv, Resolves, Tells, FileOf, Attempts
  <2>4. /\ kept.nav = s.nav /\ kept.arrival = s.arrival /\ kept.stable = s.stable
        /\ kept.obs = s.obs /\ kept.finding = s.finding
    BY <2>1, <2>3 DEF Contents
  <2>5. s.nav /\ s.arrival /\ s.stable /\ s.finding # None /\ s.quality = "pass"
    BY <2>2 DEF SnapOK, Earned, Staged
  <2>6. Fresh(s.obs) /\ s.finding = (IF s.obs.kind = "high" THEN "anomalous" ELSE "normal")
    BY <2>2, <2>5 DEF SnapOK, Judged
  <2> HIDE DEF s, kept
  <2>7. kept.obs.kind = (IF kept.finding = "anomalous" THEN "high" ELSE "low")
    BY <2>4, <2>6 DEF Fresh
  <2>8. kept \notin {None, Torn}
    BY <2>3, ContentsAreFiles
  <2> QED BY <2>4, <2>5, <2>6, <2>7, <2>8 DEF Fresh, kept
<1> QED BY <1>1, RunInvAlways, RefInvAlways, PTL

-----------------------------------------------------------------------------
(* What the first evidence of an attempt does to the ones after it.        *)

(* An evidence file is settled when it is there and nobody writes it; one  *)
(* that is torn, or tells a failure or a cancel, is against the attempt.   *)
Settled(n) ==
  files[n] # None /\ \A p \in Procs : at[p] = "write" => att[p].snap.number # n

Against(file) == file = Torn \/ file.phase \in Failures \cup {"canceled"}

(* The first file of an attempt number decides it: it stays settled as it  *)
(* is, and if it is against the attempt no process, started how often and  *)
(* when whatsoever, has a success under this number.  The run id and the   *)
(* first number of nav_executor never change by themselves, so there a     *)
(* death during one write spoils the point until somebody takes the file   *)
(* away; only a process that may retry gets past it, under a new number.   *)
FirstFileDecides ==
  [][ \A n \in DOMAIN files :
        Settled(n) =>
          /\ Settled(n)' /\ files'[n] = files[n]
          /\ Against(files[n]) =>
               \A p \in Procs :
                 att'[p].snap.number = n => att'[p].snap.phase # "succeeded" ]_runVars

(* A success and a file against it do not go together.                     *)
FileForSuccess ==
  \A p \in Procs :
    att[p].snap.phase = "succeeded" => ~Against(files[att[p].snap.number])

(* A success holds a reference, which the file resolves.                   *)
LEMMA SuccessHasItsFile ==
  ASSUME RunInv, RefInv
  PROVE  FileForSuccess
<1> SUFFICES ASSUME NEW p \in Procs, att[p].snap.phase = "succeeded"
             PROVE  ~Against(files[att[p].snap.number])
  BY DEF FileForSuccess
<1> DEFINE file == files[att[p].snap.number]
<1>1. att[p] \in Attempts /\ att[p].evidence # None
  BY TypesHere DEF RunInv, Proper, OnCourse
<1>2. file = att[p].evidence /\ file \in Contents /\ Tells(file, att[p].snap)
  BY <1>1 DEF RefInv, Resolves, Attempts
<1>3. file.phase \in {"succeeded", "evaluating"}
  BY <1>2 DEF Tells, Failures
<1>4. file # Torn
  BY <1>2, ContentsAreFiles
<1> QED BY <1>3, <1>4 DEF Against, Failures

(* Nobody opens, writes or replaces a settled file.                        *)
LEMMA SettledStays ==
  ASSUME RunInv, [RunNext]_runVars, NEW n \in 1 .. MaxAttempts, Settled(n)
  PROVE  Settled(n)' /\ files'[n] = files[n]
<1>1. CASE UNCHANGED runVars
  BY <1>1 DEF runVars, Settled
<1>2. CASE RunNext
  <2>1. PICK p \in Procs : Step(p)
    BY <1>2 DEF RunNext, Step
  <2>2. files'[n] = files[n]
    BY <2>1, FilesStay DEF Settled, WriteFile
  <2>3. ASSUME NEW q \in Procs, at'[q] = "write" PROVE att'[q].snap.number # n
    <3>1. CASE q = p
      BY <2>1, <2>3, <3>1, WritersComeByCreation DEF Settled, Writing
    <3>2. CASE q # p
      BY <2>1, <2>3, <3>2, OthersStay DEF Settled, RunInv
    <3> QED BY <3>1, <3>2
  <2>4. files'[n] # None
    BY <2>2 DEF Settled
  <2> QED BY <2>2, <2>3, <2>4 DEF Settled
<1> QED BY <1>1, <1>2

(* FirstFileDecides for any number of processes that share the directory,  *)
(* whatever of them dies, retries or cancels, and whenever: the exclusive  *)
(* open of persist_attempt, and complete_point after it.                   *)
THEOREM FirstFilesDecide == RunSpec => FirstFileDecides
<1>1. ASSUME RunInv, FileForSuccess', [RunNext]_runVars, NEW n \in DOMAIN files, Settled(n)
      PROVE  /\ Settled(n)' /\ files'[n] = files[n]
             /\ Against(files[n]) =>
                  \A p \in Procs :
                    att'[p].snap.number = n => att'[p].snap.phase # "succeeded"
  <2>1. n \in 1 .. MaxAttempts
    BY <1>1 DEF RunInv, RunTypeOK
  <2>2. Settled(n)' /\ files'[n] = files[n]
    BY <1>1, <2>1, SettledStays
  <2>3. ASSUME NEW p \in Procs, att'[p].snap.phase = "succeeded"
        PROVE  ~Against(files'[att'[p].snap.number])
    BY <1>1, <2>3 DEF FileForSuccess, Against
  <2>4. Against(files[n]) => Against(files'[n])
    BY <2>2
  <2> QED BY <2>2, <2>3, <2>4
<1>2. RunInv /\ FileForSuccess' /\ [RunNext]_runVars =>
        [ \A n \in DOMAIN files :
        Settled(n) =>
          /\ Settled(n)' /\ files'[n] = files[n]
          /\ Against(files[n]) =>
               \A p \in Procs :
                 att'[p].snap.number = n => att'[p].snap.phase # "succeeded" ]_runVars
  BY <1>1
<1>3. RunSpec => []FileForSuccess
  BY SuccessHasItsFile, RunInvAlways, RefInvAlways, PTL
<1> QED BY <1>2, <1>3, RunInvAlways, PTL DEF RunSpec, FirstFileDecides

=============================================================================
