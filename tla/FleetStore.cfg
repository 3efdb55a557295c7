CONSTANTS
  Robots = {r1}
  Tasks = {t1,t2}
  Tracked = {t1,t2}
  None = None
  Adapted = {r1}
  MaxRows = 2
SPECIFICATION StoreSpec
SYMMETRY Symmetry
INVARIANTS
  StoreTypeOK
  ActiveRowIsHeld
  CallsAreDurable
PROPERTIES
  OrphanRowStays
