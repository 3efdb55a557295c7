--------------------------- MODULE ResourceLocksMC ---------------------------
(***************************************************************************)
(* The promise of the lock documentation that the code does not keep, for  *)
(* resources that are numbers in the lexicographic order of their ids.     *)
(***************************************************************************)
EXTENDS ResourceLocks

(* A robot may ask again, for resources that come after all its claims.    *)
AscendingNext ==
  \/ \E r \in Robots, wanted \in SUBSET Resources :
       /\ \A had \in Claims(r), res \in wanted : had < res
       /\ AcquireOrdered(r, wanted)
  \/ ReleaseOrTimeout

AscendingSpec == LocksInit /\ [][AscendingNext]_lockVars

(* "All robots use the same order", and so no robot_01 holds A and waits   *)
(* for B while robot_02 holds B and waits for A (RESOURCE_LOCKING.md:89-   *)
(* 94).  acquire_ordered goes on past a WAITING, so a robot can own the    *)
(* later resource while it waits for the earlier one.                      *)
OrderAvoidsDeadlock == \A set \in (SUBSET Robots) \ {{}} : ~WaitCycle(set)
==============================================================================
