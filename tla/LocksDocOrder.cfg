CONSTANTS
  Robots = {r1, r2}
  Resources = {1, 2}
  OneCall = {}
  None = None
SPECIFICATION AscendingSpec
INVARIANT OrderAvoidsDeadlock
