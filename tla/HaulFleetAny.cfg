CONSTANTS
  Robots = {r1, r2}
  Tasks = {t1, t2}
  Tracked = {t1}
  None = None
SYMMETRY Symmetry
SPECIFICATION Spec
INVARIANTS
  TypeOK
  TaskMatchesState
  LedgersAgree
  WorkingIsInProgress
  LoadFollowsPhase
PROPERTIES
  StrandedStaysStranded
  PickupIrreversible
  TerminalIsFinal
