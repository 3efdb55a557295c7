--------------------------- MODULE InspectionRun ---------------------------
(***************************************************************************)
(* The one-point inspection: InspectionRunController (lifecycle.py), the   *)
(* processor that takes a point from the reading to its report             *)
(* (pipeline.py), the evidence store (evidence.py) and the process that    *)
(* drives them to a Nav2 goal (nav_executor.py).                           *)
(*                                                                         *)
(* Several processes use one evidence directory and one run id, whose      *)
(* default never changes; each has a controller of its own, in memory      *)
(* only.  What a process does between two accesses to the directory is one *)
(* action; creating an evidence file and writing it are two.               *)
(***************************************************************************)
EXTENDS Naturals, Sequences, Functions

CONSTANTS
  Procs,        \* processes that inspect the point of the run
  Patient,      \* those that may retry and cancel; the others run nav_executor
  Kinds,        \* what a reading may be: "low", "high", "nan", ...
  Times,        \* milliseconds
  MaxAge,       \* maximum_observation_age_ms
  MaxAttempts,  \* bound on the attempts of one controller
  None,
  Torn          \* a file that was created but not written to its end

ASSUME PatientAreProcs == Patient \subseteq Procs
ASSUME TimesAreNumbers == Times \subseteq Nat /\ MaxAge \in Nat
ASSUME AttemptsAreBounded == MaxAttempts \in Nat \ {0}
ASSUME KindsAreKnown == Kinds \subseteq {"low", "high", "foreign", "nan", "incomplete"}

VARIABLES
  at,     \* per process: where it is in its calls
  att,    \* per process: the controller's current attempt
  past,   \* per process: the attempts it has given up, oldest first
  files   \* the evidence directory: a file per attempt number

runVars == <<at, att, past, files>>

-----------------------------------------------------------------------------
Failures ==
  {"navigation_failed", "sensor_failed", "data_invalid", "inspection_failed"}

Phases ==
  {"idle", "navigating", "arrived", "stabilizing", "acquiring", "evaluating",
   "succeeded", "canceled"} \cup Failures

Qualities == {"pass", "stale", "incomplete", "invalid"}

Observations == [kind : Kinds, captured : Times, received : Times]

(* An attempt without its evidence: what PointAttemptSnapshot and with it  *)
(* the evidence file have of it.                                           *)
Contents ==
  [number : 1 .. MaxAttempts, phase : Phases, nav : BOOLEAN,
   arrival : BOOLEAN, stable : BOOLEAN, obs : Observations \cup {None},
   quality : Qualities \cup {None}, finding : {"normal", "anomalous", None}]

ASSUME MarksAreNoContents == None # Torn /\ {None, Torn} \cap Contents = {}
ASSUME NoneIsNoReading == None \notin Observations \cup Qualities \cup {"normal", "anomalous"}

(* The reference of an artifact is its place and its hash; here, what it   *)
(* refers to.                                                              *)
Attempts == [snap : Contents, evidence : Contents \cup {None}]

RunTypeOK ==
  /\ at \in [Procs -> {"down", "calling", "open", "write", "done"}]
  /\ att \in [Procs -> Attempts]
  /\ past \in [Procs -> Seq(Attempts)]
  /\ \A p \in Procs : Len(past[p]) < MaxAttempts
  /\ files \in [1 .. MaxAttempts -> Contents \cup {None, Torn}]

-----------------------------------------------------------------------------
(* The methods of the controller, as functions of the current attempt.     *)

(* Mutant: the numbers of the attempts start at 0.                         *)
NewAttemptFromZero(n) ==
  [snap |-> [number |-> n - 1, phase |-> "idle", nav |-> FALSE, arrival |-> FALSE,
             stable |-> FALSE, obs |-> None, quality |-> None, finding |-> None],
   evidence |-> None]

NewAttempt(n) ==
  [snap |-> [number |-> n, phase |-> "idle", nav |-> FALSE, arrival |-> FALSE,
             stable |-> FALSE, obs |-> None, quality |-> None, finding |-> None],
   evidence |-> None]

StartNavigation(a) == [a EXCEPT !.snap.phase = "navigating"]

RecordNavigationResult(a, succeeded) ==
  [a EXCEPT !.snap.nav   = succeeded,
            !.snap.phase = IF succeeded THEN "arrived" ELSE "navigation_failed"]

ConfirmArrival(a, accepted) ==
  [a EXCEPT !.snap.arrival = accepted,
            !.snap.phase   = IF accepted THEN "stabilizing" ELSE "inspection_failed"]

CompleteStabilization(a, succeeded) ==
  [a EXCEPT !.snap.stable = succeeded,
            !.snap.phase  = IF succeeded THEN "acquiring" ELSE "inspection_failed"]

RecordSensorFailure(a) == [a EXCEPT !.snap.phase = "sensor_failed"]

RecordObservation(a, obs) == [a EXCEPT !.snap.obs = obs]

(* Mutant: the order of the timestamps is not looked at.                   *)
UnorderedQuality(obs, now) ==
  CASE obs.kind \in {"foreign", "nan"} -> "invalid"
    [] obs.kind = "incomplete"         -> "incomplete"
    [] obs.kind \in {"low", "high"}    ->
         IF now > obs.captured + MaxAge THEN "stale" ELSE "pass"

(* What an observation is worth at a time; the first defect decides.       *)
QualityAt(obs, now) ==
  CASE obs.kind \in {"foreign", "nan"} -> "invalid"
    [] obs.kind = "incomplete"         -> "incomplete"
    [] obs.kind \in {"low", "high"}    ->
         IF obs.captured > obs.received \/ obs.received > now THEN "invalid"
         ELSE IF now - obs.captured > MaxAge THEN "stale"
         ELSE "pass"

ValidateObservation(a, now) ==
  LET quality == QualityAt(a.snap.obs, now)
  IN  [a EXCEPT !.snap.quality = quality,
                !.snap.phase = IF quality = "pass" THEN "evaluating" ELSE "data_invalid"]

Evaluate(a) ==
  [a EXCEPT !.snap.finding = IF a.snap.obs.kind = "high" THEN "anomalous" ELSE "normal"]

(* persist_evidence, and with it complete_point and complete_run where the *)
(* processor goes on to them: a point succeeds with all it needs.          *)
Complete(a) ==
  /\ a.snap.nav /\ a.snap.arrival /\ a.snap.stable
  /\ a.snap.quality = "pass"
  /\ a.snap.finding # None

PersistEvidence(a, reference) ==
  [a EXCEPT !.evidence   = reference,
            !.snap.phase = IF a.snap.phase = "evaluating" /\ Complete(a)
                           THEN "succeeded" ELSE @]

-----------------------------------------------------------------------------
(* The steps a caller of the controller takes; each asks for its phase.    *)
Calling(p, phases) == at[p] = "calling" /\ att[p].snap.phase \in phases

Advance(p, a) ==
  /\ att' = [att EXCEPT ![p] = a]
  /\ UNCHANGED <<at, past, files>>

Start(p) ==
  /\ at[p] \in {"down", "done"}
  /\ at'   = [at EXCEPT ![p] = "calling"]
  /\ att'  = [att EXCEPT ![p] = NewAttempt(1)]
  /\ past' = [past EXCEPT ![p] = <<>>]
  /\ UNCHANGED files

(* A dry run, or a ready gate that stays shut: a report of an idle run.    *)
GateRefuses(p) ==
  /\ Calling(p, {"idle"}) /\ p \notin Patient
  /\ at' = [at EXCEPT ![p] = "done"]
  /\ UNCHANGED <<att, past, files>>

BeginNavigation(p) ==
  /\ Calling(p, {"idle"})
  /\ Advance(p, StartNavigation(att[p]))

(* Nav2 answers, or its timeout does.                                      *)
EndNavigation(p) ==
  /\ Calling(p, {"navigating"})
  /\ \E ok \in BOOLEAN : Advance(p, RecordNavigationResult(att[p], ok))

VerifyArrival(p) ==
  /\ Calling(p, {"arrived"})
  /\ \E ok \in BOOLEAN : Advance(p, ConfirmArrival(att[p], ok))

Stabilize(p) ==
  /\ Calling(p, {"stabilizing"})
  /\ \E ok \in BOOLEAN : Advance(p, CompleteStabilization(att[p], ok))

(* Mutant: a retry goes on with the attempt it has, under a new number.     *)
RetryInPlace(p) ==
  /\ p \in Patient /\ Calling(p, Failures)
  /\ att[p].snap.number < MaxAttempts
  /\ past' = [past EXCEPT ![p] = Append(@, att[p])]
  /\ att'  = [att EXCEPT ![p].snap.number = @ + 1, ![p].snap.phase = "idle",
                         ![p].evidence = None]
  /\ UNCHANGED <<at, files>>

(* retry_point: whatever became of the evidence of the attempt.            *)
RetryPoint(p) ==
  /\ p \in Patient /\ Calling(p, Failures)
  /\ att[p].snap.number < MaxAttempts
  /\ past' = [past EXCEPT ![p] = Append(@, att[p])]
  /\ att'  = [att EXCEPT ![p] = NewAttempt(@.snap.number + 1)]
  /\ UNCHANGED <<at, files>>

Cancel(p) ==
  /\ p \in Patient /\ Calling(p, Phases \ {"succeeded", "canceled"})
  /\ Advance(p, [att[p] EXCEPT !.snap.phase = "canceled"])

-----------------------------------------------------------------------------
(* InspectionPointProcessor: from the reading to the evidence.             *)

(* process_current_attempt up to persist_attempt.  In nav_executor the     *)
(* time of the reading, of its receipt and of its evaluation are one.      *)
Sensed(p, now) ==
  {obs \in Observations :
     obs.received = now /\ (p \notin Patient => obs.captured = now)}

Processed(a, obs, now) ==
  LET seen == ValidateObservation(RecordObservation(a, obs), now)
  IN  IF seen.snap.quality = "pass" THEN Evaluate(seen) ELSE seen

Process(p) ==
  /\ Calling(p, {"acquiring"})
  /\ \/ att' = [att EXCEPT ![p] = RecordSensorFailure(@)]
     \/ \E now \in Times : \E obs \in Sensed(p, now) :
          att' = [att EXCEPT ![p] = Processed(@, obs, now)]
  /\ at' = [at EXCEPT ![p] = "open"]
  /\ UNCHANGED <<past, files>>

(* The evaluator's maximum is not the item's: evaluate raises.             *)
EvaluatorRefused(p) ==
  /\ p \in Patient /\ Calling(p, {"acquiring"})
  /\ \E now \in Times : \E obs \in Sensed(p, now) :
       /\ QualityAt(obs, now) = "pass"
       /\ Advance(p, ValidateObservation(RecordObservation(att[p], obs), now))

FinalizeFailure(p) ==
  /\ Calling(p, Failures \cup {"canceled"})
  /\ att[p].evidence = None
  /\ at' = [at EXCEPT ![p] = "open"]
  /\ UNCHANGED <<att, past, files>>

-----------------------------------------------------------------------------
(* LocalJsonEvidenceStore.persist_attempt, and how its caller goes on.     *)
Persisted(p) ==
  /\ att' = [att EXCEPT ![p] = PersistEvidence(@, att[p].snap)]
  /\ at'  = [at EXCEPT ![p] = IF p \in Patient THEN "calling" ELSE "done"]

NotPersisted(p) ==
  IF p \in Patient
  THEN at' = [at EXCEPT ![p] = "calling"] /\ att' = att
  ELSE at' = [at EXCEPT ![p] = "down"] /\ att' = [att EXCEPT ![p] = NewAttempt(1)]

FileOf(p) == files[att[p].snap.number]

(* Mutant: the file is opened for writing, whether it is there or not.      *)
OverwriteFile(p) ==
  /\ at[p] = "open"
  /\ files' = [files EXCEPT ![att[p].snap.number] = Torn]
  /\ at'    = [at EXCEPT ![p] = "write"]
  /\ UNCHANGED <<att, past>>

(* The exclusive open succeeds.                                            *)
CreateFile(p) ==
  /\ at[p] = "open" /\ FileOf(p) = None
  /\ files' = [files EXCEPT ![att[p].snap.number] = Torn]
  /\ at'    = [at EXCEPT ![p] = "write"]
  /\ UNCHANGED <<att, past>>

(* Mutant: a file that is there is taken for this attempt's.                *)
TrustFile(p) ==
  /\ at[p] = "open" /\ FileOf(p) # None
  /\ Persisted(p)
  /\ UNCHANGED <<past, files>>

(* The file is there: what it holds is the same evidence, or a conflict.   *)
(* Failures that look alike here may have been given different reasons.    *)
Alike(p)  == FileOf(p) = att[p].snap
Differ(p) == ~Alike(p) \/ att[p].snap.phase \in Failures \cup {"canceled"}

FindFile(p) ==
  /\ at[p] = "open" /\ FileOf(p) # None
  /\ (Alike(p) /\ Persisted(p)) \/ (Differ(p) /\ NotPersisted(p))
  /\ UNCHANGED <<past, files>>

(* The write is done and synced; or it fails, or the sync after it, and    *)
(* leaves the file behind.                                                 *)
WriteFile(p) ==
  /\ at[p] = "write"
  /\ \E kept \in {att[p].snap, Torn} :
       /\ files' = [files EXCEPT ![att[p].snap.number] = kept]
       /\ (kept # Torn /\ Persisted(p)) \/ NotPersisted(p)
  /\ UNCHANGED past

(* The process dies, or is done with its controller: all but the files is  *)
(* gone.                                                                   *)
Crash(p) ==
  /\ at[p] \in {"calling", "open", "write"}
  /\ at'   = [at EXCEPT ![p] = "down"]
  /\ att'  = [att EXCEPT ![p] = NewAttempt(1)]
  /\ past' = [past EXCEPT ![p] = <<>>]
  /\ UNCHANGED files

-----------------------------------------------------------------------------
RunInit ==
  /\ at    = [p \in Procs |-> "down"]
  /\ att   = [p \in Procs |-> NewAttempt(1)]
  /\ past  = [p \in Procs |-> <<>>]
  /\ files = [n \in 1 .. MaxAttempts |-> None]

RunNext ==
  \E p \in Procs :
    \/ Start(p) \/ GateRefuses(p) \/ BeginNavigation(p) \/ EndNavigation(p)
    \/ VerifyArrival(p) \/ Stabilize(p) \/ RetryPoint(p) \/ Cancel(p)
    \/ Process(p) \/ EvaluatorRefused(p) \/ FinalizeFailure(p)
    \/ CreateFile(p) \/ FindFile(p) \/ WriteFile(p) \/ Crash(p)

RunSpec == RunInit /\ [][RunNext]_runVars

-----------------------------------------------------------------------------
(* Correctness properties.                                                 *)
AttemptsOf(p) == {att[p]} \cup Range(past[p])

(* What the evidence of an attempt may say of its outcome: it was taken    *)
(* before a success was declared, and a failure may be canceled after it.  *)
Tells(evidence, snap) ==
  /\ [evidence EXCEPT !.phase = snap.phase] = snap
  /\ \/ evidence.phase = snap.phase
     \/ evidence.phase = "evaluating" /\ snap.phase = "succeeded"
     \/ evidence.phase \in Failures /\ snap.phase = "canceled"

(* An evidence reference held by any process, for an attempt it is on or   *)
(* has given up, is the content of the file today, whoever wrote the file  *)
(* and whatever crashed in between, and that content is of this attempt.   *)
ReferencesResolve ==
  \A p \in Procs : \A a \in AttemptsOf(p) :
    a.evidence # None =>
      files[a.snap.number] = a.evidence /\ Tells(a.evidence, a.snap)

(* A success that is reported is on disk: the file has a reading of this   *)
(* point, fresh and complete, and the finding that its value deserves.     *)
SucceededIsBacked ==
  \A p \in Procs :
    att[p].snap.phase = "succeeded" =>
      LET kept == FileOf(p)
      IN  /\ kept \notin {None, Torn}
          /\ kept.nav /\ kept.arrival /\ kept.stable
          /\ kept.obs.received - kept.obs.captured \in 0 .. MaxAge
          /\ kept.obs.kind = (IF kept.finding = "anomalous" THEN "high" ELSE "low")

(* Each attempt earns its own stages, in their order, whatever the ones    *)
(* before it had reached; a report shows a fault of the system or a        *)
(* finding about the point, never both; given-up attempts are failures,    *)
(* numbered without a gap.                                                 *)
Earned(s) ==
  /\ s.phase \in {"idle", "navigating", "navigation_failed"} => ~s.nav
  /\ s.arrival => s.nav
  /\ s.stable => s.arrival
  /\ s.obs # None => s.stable
  /\ s.finding # None => s.quality = "pass" /\ s.phase \notin Failures

AttemptsAreCoherent ==
  \A p \in Procs :
    /\ \A a \in AttemptsOf(p) : Earned(a.snap)
    /\ att[p].snap.number = Len(past[p]) + 1
    /\ \A i \in DOMAIN past[p] :
         past[p][i].snap.number = i /\ past[p][i].snap.phase \in Failures

(* Evidence is immutable, and so is a file that a crash or a failed write  *)
(* has left torn: no later process completes it under its attempt's name.  *)
EvidenceIsWriteOnce ==
  [][ \A n \in DOMAIN files :
        \/ files[n] = None
        \/ files'[n] = files[n]
        \/ files[n] = Torn /\ \E p \in Procs : at[p] = "write" /\ att[p].snap.number = n ]_runVars

=============================================================================
