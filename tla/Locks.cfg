CONSTANTS
  Robots = {r1, r2, r3}
  Resources = {a1, a2, a3}
  OneCall = {r1, r2}
  None = None
SPECIFICATION LocksFairSpec
INVARIANTS
  LocksTypeOK
  LocksConsistent
  NoWaitCycle
PROPERTIES
  NoOvertaking
  WaiterIsServed
