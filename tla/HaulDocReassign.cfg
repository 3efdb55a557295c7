CONSTANTS
  Robots = {r1, r2}
  Tasks = {t1, t2}
  Tracked = {t1, t2}
  None = None
SPECIFICATION CarefulSpec
PROPERTY ReassignUsesIdleRobot
