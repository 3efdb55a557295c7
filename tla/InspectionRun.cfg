CONSTANTS
  Procs = {p1, p2}
  Patient = {p2}
  Kinds = {"low", "high"}
  Times = {1, 2}
  MaxAge = 0
  MaxAttempts = 2
  None = None
  Torn = Torn
SPECIFICATION RunSpec
INVARIANTS
  RunTypeOK
  ReferencesResolve
  SucceededIsBacked
  AttemptsAreCoherent
PROPERTIES
  EvidenceIsWriteOnce
