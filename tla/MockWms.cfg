CONSTANTS
  Executors = {e1, e2}
  Runners = {e1}
  None = None
  MaxRows = 2
  MaxTasks = 2
  MaxLate = 1
SPECIFICATION WmsSpec
INVARIANTS
  WmsTypeOK
  GoalIsClaimed
  NotOfferedAgain
  TakenInOrder
  SuccessWasSeen
PROPERTIES
  UncontestedLifecycle
  OrphanIsNotResumed
