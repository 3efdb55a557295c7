---------------------------- MODULE ResourceLocks ----------------------------
(***************************************************************************)
(* ResourceLockManager (fleet/resources.py): logical ownership of stations *)
(* and aisles, with a FIFO queue of waiting robots per resource and a      *)
(* forced release of what was owned for too long.                          *)
(*                                                                         *)
(* The manager never blocks a caller: an acquire either takes the resource *)
(* or queues the robot and returns.  Each public call is one action; a     *)
(* release by a robot that is not the owner raises and changes nothing.    *)
(***************************************************************************)
EXTENDS Naturals, Sequences, Functions

CONSTANTS
  Robots,
  Resources,
  OneCall,    \* the robots that ask for all they need in one call
  None

ASSUME NoneIsNoRobot == None \notin Robots

ASSUME OneCallAreRobots == OneCall \subseteq Robots

VARIABLES
  locks,    \* _resources and _wait_queues: owner and waiters, per resource
  overdue   \* the resources owned for longer than the timeout by now

lockVars == <<locks, overdue>>

-----------------------------------------------------------------------------
Waiting(res) == Range(locks[res].waiters)
Owns(r, res) == locks[res].owner = r

(* A robot is in a queue once, as _wait_queues is meant to keep it.        *)
LocksTypeOK ==
  /\ DOMAIN locks = Resources
  /\ \A res \in Resources :
       /\ locks[res].owner \in Robots \cup {None}
       /\ locks[res].waiters \in Seq(Robots)
       /\ IsInjective(locks[res].waiters)
  /\ overdue \subseteq Resources

(* Mutant: acquire queues a robot that is already in the queue.            *)
RequestedAgain(lock, r) ==
  CASE lock.owner = r              -> lock
    [] lock.owner = None           -> [lock EXCEPT !.owner = r]
    [] lock.owner \notin {r, None} -> [lock EXCEPT !.waiters = Append(@, r)]

(* acquire: the lock after robot r has asked for it.                       *)
Requested(lock, r) ==
  CASE lock.owner = r                 -> lock
    [] lock.owner = None              -> [lock EXCEPT !.owner = r]
    [] lock.owner \notin {r, None}    ->
         IF r \in Range(lock.waiters) THEN lock
         ELSE [lock EXCEPT !.waiters = Append(@, r)]

(* Mutants: release leaves the queue alone; it takes its last robot.       *)
FreedOnly(lock) == [lock EXCEPT !.owner = None]

FreedToLast(lock) ==
  IF lock.waiters = <<>> THEN [lock EXCEPT !.owner = None]
  ELSE [owner   |-> lock.waiters[Len(lock.waiters)],
        waiters |-> SubSeq(lock.waiters, 1, Len(lock.waiters) - 1)]

(* release: the loop over the queue ends with its first robot, because the *)
(* acquire it makes for that robot finds the resource free.                *)
Freed(lock) ==
  IF lock.waiters = <<>> THEN [lock EXCEPT !.owner = None]
  ELSE [owner |-> Head(lock.waiters), waiters |-> Tail(lock.waiters)]

-----------------------------------------------------------------------------
(* acquire_ordered; acquire is the case of one resource.  The loop goes on *)
(* after a WAITING, and no acquire reads another resource, so the sorting  *)
(* of the ids leaves no trace in the state.                                *)
AcquireOrdered(r, wanted) ==
  /\ locks' = [res \in Resources |->
                 IF res \in wanted THEN Requested(locks[res], r) ELSE locks[res]]
  /\ UNCHANGED overdue

Release(r, res) ==
  /\ Owns(r, res)
  /\ locks' = [locks EXCEPT ![res] = Freed(@)]
  /\ overdue' = overdue \ {res}

(* sweep_timeouts: a waiter that is granted a lock starts a new ownership. *)
SweepTimeouts ==
  /\ overdue # {}
  /\ locks' = [res \in Resources |->
                 IF res \in overdue THEN Freed(locks[res]) ELSE locks[res]]
  /\ overdue' = {}

(* External: the clock passes the timeout of the ownership of res.         *)
OwnershipExpires(res) ==
  /\ ~Owns(None, res)
  /\ res \notin overdue
  /\ overdue' = overdue \cup {res}
  /\ UNCHANGED locks

-----------------------------------------------------------------------------
LocksInit ==
  /\ locks = [res \in Resources |-> [owner |-> None, waiters |-> <<>>]]
  /\ overdue = {}

(* What r owns or waits for.                                               *)
Claims(r) == {res \in Resources : Owns(r, res) \/ r \in Waiting(res)}

ReleaseOrTimeout ==
  \/ \E r \in Robots, res \in Resources : Release(r, res)
  \/ \E res \in Resources : OwnershipExpires(res)
  \/ SweepTimeouts

(* A robot asks for whatever it likes whenever it likes; one of OneCall    *)
(* only when it has no claims, as acquire_ordered is meant to be used.     *)
LocksNext ==
  \/ \E r \in Robots, wanted \in SUBSET Resources :
       /\ r \in OneCall => Claims(r) = {}
       /\ AcquireOrdered(r, wanted)
  \/ ReleaseOrTimeout

LocksSpec == LocksInit /\ [][LocksNext]_lockVars

(* Time passes, and the owner of the manager keeps calling sweep_timeouts. *)
LocksFairSpec ==
  /\ LocksSpec
  /\ \A res \in Resources : WF_lockVars(OwnershipExpires(res))
  /\ WF_lockVars(SweepTimeouts)

-----------------------------------------------------------------------------
(* Correctness properties.                                                 *)

(* A free resource has no waiters, an owner does not wait for what it      *)
(* owns, and only an owned resource can be overdue.  acquire relies on the *)
(* first: it gives a free resource to the caller, past any queue.          *)
LocksConsistent ==
  \A res \in Resources :
    /\ Owns(None, res) => Waiting(res) = {} /\ res \notin overdue
    /\ locks[res].owner \notin Waiting(res)

(* FIFO: a robot that waits is still there after any step, no one is put   *)
(* in front of it, and no one behind it becomes the owner.                 *)
Ahead(res, r) ==
  {q \in Waiting(res) :
     \E i, j \in DOMAIN locks[res].waiters :
       i < j /\ locks[res].waiters[i] = q /\ locks[res].waiters[j] = r}

NoOvertaking ==
  [][ \A res \in Resources : \A r \in Waiting(res) :
        IF r \in Waiting(res)'
        THEN /\ Ahead(res, r)' \subseteq Ahead(res, r)
             /\ locks'[res].owner \in {locks[res].owner} \cup Ahead(res, r)
        ELSE locks'[res].owner = r /\ Ahead(res, r) = {} ]_lockVars

(* Each of a set of robots waits for what another of the set owns.         *)
WaitCycle(set) ==
  \A r \in set : \E res \in Resources :
    r \in Waiting(res) /\ locks[res].owner \in set

(* Robots that ask for all they need in one call never wait in a circle,   *)
(* whatever is released or taken from them in the meantime and whatever    *)
(* the other robots do.                                                    *)
NoWaitCycle == \A set \in (SUBSET OneCall) \ {{}} : ~WaitCycle(set)

(* A waiting robot is eventually the owner, even if the robots before it   *)
(* have stopped, and even if they wait in a circle.                        *)
WaiterIsServed ==
  \A res \in Resources, r \in Robots :
    r \in Waiting(res) ~> Owns(r, res)

=============================================================================
