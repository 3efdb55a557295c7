------------------------- MODULE ResourceLocksProofs -------------------------
(* Theorems about ResourceLocks, for any sets of robots and resources.     *)
EXTENDS ResourceLocks, WellFoundedInduction, TLAPS

(* What a lock is, and when it is consistent.                              *)
LockOK(lock) ==
  /\ lock \in [owner : Robots \cup {None}, waiters : Seq(Robots)]
  /\ IsInjective(lock.waiters)
  /\ lock.owner = None => lock.waiters = <<>>
  /\ lock.owner \notin Range(lock.waiters)

(* A robot appended to a queue it is not in keeps the queue without        *)
(* duplicates and adds only itself.                                        *)
LEMMA AppendNew ==
  ASSUME NEW s \in Seq(Robots), IsInjective(s), NEW r \in Robots, r \notin Range(s)
  PROVE  /\ Append(s, r) \in Seq(Robots)
         /\ IsInjective(Append(s, r))
         /\ Range(Append(s, r)) = Range(s) \cup {r}
<1>1. /\ Append(s, r) \in Seq(Robots)
      /\ DOMAIN Append(s, r) = 1 .. Len(s) + 1
      /\ \A i \in 1 .. Len(s) : Append(s, r)[i] = s[i]
      /\ Append(s, r)[Len(s) + 1] = r
      /\ Len(s) \in Nat /\ DOMAIN s = 1 .. Len(s)
  OBVIOUS
<1>2. IsInjective(Append(s, r))
  BY <1>1 DEF IsInjective, Range
<1>3. Range(Append(s, r)) = Range(s) \cup {r}
  BY <1>1 DEF Range
<1> QED BY <1>1, <1>2, <1>3

(* The first robot of a queue without duplicates is not in the rest of it. *)
LEMMA HeadLeaves ==
  ASSUME NEW s \in Seq(Robots), IsInjective(s), s # <<>>
  PROVE  /\ Head(s) \in Robots
         /\ Tail(s) \in Seq(Robots)
         /\ IsInjective(Tail(s))
         /\ Range(Tail(s)) = Range(s) \ {Head(s)}
<1>1. /\ Head(s) = s[1] /\ Head(s) \in Robots /\ Tail(s) \in Seq(Robots)
      /\ Len(s) \in Nat \ {0} /\ DOMAIN s = 1 .. Len(s)
      /\ DOMAIN Tail(s) = 1 .. Len(s) - 1
      /\ \A i \in 1 .. Len(s) - 1 : Tail(s)[i] = s[i + 1]
  OBVIOUS
<1>2. IsInjective(Tail(s))
  BY <1>1 DEF IsInjective
<1>3. Range(Tail(s)) = Range(s) \ {Head(s)}
  <2>1. ASSUME NEW q \in Range(s) \ {Head(s)} PROVE q \in Range(Tail(s))
    <3>1. PICK i \in 1 .. Len(s) : s[i] = q
      BY <1>1, <2>1 DEF Range
    <3>2. i - 1 \in 1 .. Len(s) - 1 /\ Tail(s)[i - 1] = q
      BY <1>1, <2>1, <3>1
    <3> QED BY <1>1, <3>2 DEF Range
  <2>2. ASSUME NEW q \in Range(Tail(s)) PROVE q \in Range(s) \ {Head(s)}
    <3>1. PICK i \in 1 .. Len(s) - 1 : Tail(s)[i] = q
      BY <1>1, <2>2 DEF Range
    <3> QED BY <1>1, <3>1 DEF Range, IsInjective
  <2> QED BY <2>1, <2>2
<1> QED BY <1>1, <1>2, <1>3

(* acquire keeps a lock consistent.                                        *)
LEMMA RequestedOK ==
  ASSUME NEW lock, LockOK(lock), NEW r \in Robots
  PROVE  LockOK(Requested(lock, r)) /\ Requested(lock, r).owner # None
<1>1. CASE lock.owner = r
  BY <1>1, NoneIsNoRobot DEF Requested, LockOK
<1>2. CASE lock.owner = None
  <2>1. Requested(lock, r) = [lock EXCEPT !.owner = r]
    BY <1>2, NoneIsNoRobot DEF Requested
  <2>2. Range(<<>>) = {}
    BY DEF Range
  <2> QED BY <1>2, <2>1, <2>2, NoneIsNoRobot DEF LockOK
<1>3. CASE lock.owner \notin {r, None}
  <2>1. CASE r \in Range(lock.waiters)
    BY <1>3, <2>1 DEF Requested, LockOK
  <2>2. CASE r \notin Range(lock.waiters)
    <3>1. Requested(lock, r) = [lock EXCEPT !.waiters = Append(lock.waiters, r)]
      BY <1>3, <2>2 DEF Requested
    <3> QED BY <1>3, <2>2, <3>1, AppendNew DEF LockOK
  <2> QED BY <2>1, <2>2
<1> QED BY <1>1, <1>2, <1>3

(* release keeps a lock consistent.                                        *)
LEMMA FreedOK ==
  ASSUME NEW lock, LockOK(lock)
  PROVE  LockOK(Freed(lock))
<1>1. CASE lock.waiters = <<>>
  <2>1. Range(<<>>) = {}
    BY DEF Range
  <2> QED BY <1>1, <2>1 DEF Freed, LockOK
<1>2. CASE lock.waiters # <<>>
  <2>1. Freed(lock) = [owner |-> Head(lock.waiters), waiters |-> Tail(lock.waiters)]
    BY <1>2 DEF Freed
  <2> QED BY <1>2, <2>1, HeadLeaves, NoneIsNoRobot DEF LockOK
<1> QED BY <1>1, <1>2

(* The inductive invariant: every lock is consistent, and what is overdue  *)
(* is owned.                                                               *)
LocksInv ==
  /\ DOMAIN locks = Resources
  /\ \A res \in Resources : LockOK(locks[res])
  /\ \A res \in overdue : res \in Resources /\ ~Owns(None, res)

(* Every step keeps it, whoever asks for what.                             *)
LEMMA LocksInvStep == LocksInv /\ [LocksNext]_lockVars => LocksInv'
<1> SUFFICES ASSUME LocksInv, [LocksNext]_lockVars PROVE LocksInv'
  OBVIOUS
<1>1. CASE UNCHANGED lockVars
  BY <1>1 DEF LocksInv, lockVars, Owns
<1>2. ASSUME NEW r \in Robots, NEW wanted \in SUBSET Resources,
             AcquireOrdered(r, wanted)
      PROVE  LocksInv'
  BY <1>2, RequestedOK DEF LocksInv, AcquireOrdered, Owns
<1>3. ASSUME NEW r \in Robots, NEW res \in Resources, Release(r, res)
      PROVE  LocksInv'
  <2>1. /\ DOMAIN locks' = Resources
        /\ locks'[res] = Freed(locks[res])
        /\ \A other \in Resources \ {res} : locks'[other] = locks[other]
    BY <1>3 DEF LocksInv, Release
  <2> QED BY <1>3, <2>1, FreedOK DEF LocksInv, Release, Owns
<1>4. ASSUME NEW res \in Resources, OwnershipExpires(res) PROVE LocksInv'
  BY <1>4 DEF LocksInv, OwnershipExpires, Owns
<1>5. CASE SweepTimeouts
  BY <1>5, FreedOK DEF LocksInv, SweepTimeouts
<1> QED BY <1>1, <1>2, <1>3, <1>4, <1>5 DEF LocksNext, ReleaseOrTimeout

(* It holds of new locks.                                                  *)
LEMMA LocksInvInit == LocksInit => LocksInv
<1>1. IsInjective(<<>>) /\ Range(<<>>) = {}
  BY DEF IsInjective, Range
<1> QED BY <1>1 DEF LocksInit, LocksInv, LockOK

(* It holds always.                                                        *)
LEMMA LocksInvHolds == LocksSpec => []LocksInv
BY LocksInvInit, LocksInvStep, PTL DEF LocksSpec

(* No robot is ever twice in a queue, and every lock is of its type, for   *)
(* any callers.                                                            *)
THEOREM LocksTypeCorrect == LocksSpec => []LocksTypeOK
<1>1. LocksInv => LocksTypeOK
  BY DEF LocksInv, LocksTypeOK, LockOK
<1> QED BY <1>1, LocksInvHolds, PTL

(* LocksConsistent for any callers: acquire never takes a free resource    *)
(* past a queue, and no robot waits for what it owns.                      *)
THEOREM LocksStayConsistent == LocksSpec => []LocksConsistent
<1>1. LocksInv => LocksConsistent
  <2>1. Range(<<>>) = {}
    BY DEF Range
  <2> QED BY <2>1 DEF LocksInv, LocksConsistent, LockOK, Owns, Waiting
<1> QED BY <1>1, LocksInvHolds, PTL

-----------------------------------------------------------------------------
(* Who comes before whom in a queue.                                       *)

AheadIn(lock, r) ==
  {q \in Range(lock.waiters) :
     \E i, j \in DOMAIN lock.waiters :
       i < j /\ lock.waiters[i] = q /\ lock.waiters[j] = r}

(* release lets the first of the queue in; the others move up in order.    *)
LEMMA FreedOrder ==
  ASSUME NEW lock, LockOK(lock), NEW r \in Range(lock.waiters)
  PROVE  IF r \in Range(Freed(lock).waiters)
         THEN /\ AheadIn(Freed(lock), r) \subseteq AheadIn(lock, r)
              /\ Freed(lock).owner \in AheadIn(lock, r)
         ELSE Freed(lock).owner = r /\ AheadIn(lock, r) = {}
<1> DEFINE s == lock.waiters
<1>1. /\ s \in Seq(Robots) /\ IsInjective(s) /\ s # <<>>
      /\ Freed(lock).owner = Head(s) /\ Freed(lock).waiters = Tail(s)
  <2>1. Range(<<>>) = {}
    BY DEF Range
  <2> QED BY <2>1 DEF LockOK, Freed
<1>2. /\ Head(s) = s[1]
      /\ Len(s) \in Nat \ {0} /\ DOMAIN s = 1 .. Len(s)
      /\ DOMAIN Tail(s) = 1 .. Len(s) - 1
      /\ \A i \in 1 .. Len(s) - 1 : Tail(s)[i] = s[i + 1]
  BY <1>1
<1>3. CASE r \in Range(Tail(s))
  <2>1. PICK k \in 1 .. Len(s) - 1 : Tail(s)[k] = r
    BY <1>2, <1>3 DEF Range
  <2>2. Head(s) \in AheadIn(lock, r)
    <3>1. 1 \in DOMAIN s /\ k + 1 \in DOMAIN s /\ 1 < k + 1 /\ s[k + 1] = r
      BY <1>2, <2>1
    <3> QED BY <1>2, <3>1 DEF AheadIn, Range
  <2>3. ASSUME NEW q \in AheadIn(Freed(lock), r) PROVE q \in AheadIn(lock, r)
    <3>1. PICK i \in 1 .. Len(s) - 1, j \in 1 .. Len(s) - 1 :
            i < j /\ Tail(s)[i] = q /\ Tail(s)[j] = r
      BY <1>1, <1>2, <2>3 DEF AheadIn
    <3>2. /\ i + 1 \in DOMAIN s /\ j + 1 \in DOMAIN s /\ i + 1 < j + 1
          /\ s[i + 1] = q /\ s[j + 1] = r
      BY <1>2, <3>1
    <3> QED BY <3>2 DEF AheadIn, Range
  <2> QED BY <1>1, <1>3, <2>2, <2>3
<1>4. CASE r \notin Range(Tail(s))
  <2>1. r = s[1]
    BY <1>1, <1>2, <1>4, HeadLeaves
  <2>2. AheadIn(lock, r) = {}
    <3> SUFFICES ASSUME NEW i \in DOMAIN s, NEW j \in DOMAIN s, i < j, s[j] = r
                 PROVE  FALSE
      BY DEF AheadIn
    <3> QED BY <1>1, <1>2, <2>1 DEF IsInjective
  <2> QED BY <1>1, <1>2, <1>4, <2>1, <2>2
<1> QED BY <1>3, <1>4

(* acquire puts the robot behind all others, or changes nothing for them.  *)
LEMMA RequestedOrder ==
  ASSUME NEW lock, LockOK(lock), NEW p \in Robots, NEW r \in Range(lock.waiters)
  PROVE  /\ r \in Range(Requested(lock, p).waiters)
         /\ AheadIn(Requested(lock, p), r) \subseteq AheadIn(lock, r)
         /\ Requested(lock, p).owner = lock.owner
<1> DEFINE s == lock.waiters
<1>1. s \in Seq(Robots) /\ IsInjective(s) /\ lock.owner # None
  <2>1. Range(<<>>) = {}
    BY DEF Range
  <2> QED BY <2>1 DEF LockOK
<1>2. CASE Requested(lock, p) = lock
  BY <1>2
<1>3. CASE p \notin Range(s) /\ Requested(lock, p) = [lock EXCEPT !.waiters = Append(s, p)]
  <2>1. /\ Requested(lock, p).waiters = Append(s, p)
        /\ Requested(lock, p).owner = lock.owner
    BY <1>3 DEF LockOK
  <2>2. /\ DOMAIN Append(s, p) = 1 .. Len(s) + 1
        /\ \A i \in 1 .. Len(s) : Append(s, p)[i] = s[i]
        /\ Append(s, p)[Len(s) + 1] = p
        /\ Len(s) \in Nat /\ DOMAIN s = 1 .. Len(s)
    BY <1>1
  <2>3. ASSUME NEW q \in AheadIn(Requested(lock, p), r) PROVE q \in AheadIn(lock, r)
    <3>1. PICK i \in 1 .. Len(s) + 1, j \in 1 .. Len(s) + 1 :
            i < j /\ Append(s, p)[i] = q /\ Append(s, p)[j] = r
      BY <2>1, <2>2, <2>3 DEF AheadIn
    <3>2. r # p
      BY <1>3
    <3>3. i \in DOMAIN s /\ j \in DOMAIN s /\ s[i] = q /\ s[j] = r
      BY <2>2, <3>1, <3>2
    <3> QED BY <3>1, <3>3 DEF AheadIn, Range
  <2>4. Range(Append(s, p)) = Range(s) \cup {p}
    BY <1>1, <1>3, AppendNew
  <2>5. r \in Range(Requested(lock, p).waiters)
    BY <2>1, <2>4
  <2>6. AheadIn(Requested(lock, p), r) \subseteq AheadIn(lock, r)
    BY <2>3
  <2> QED BY <2>1, <2>5, <2>6
<1> QED BY <1>1, <1>2, <1>3 DEF Requested

(* What a step makes of the lock of one resource.                          *)
LEMMA LockSteps ==
  ASSUME LocksInv, [LocksNext]_lockVars, NEW res \in Resources
  PROVE  \/ locks'[res] = locks[res]
         \/ \E r \in Robots : locks'[res] = Requested(locks[res], r)
         \/ locks'[res] = Freed(locks[res])
BY DEF LocksInv, LocksNext, ReleaseOrTimeout, AcquireOrdered, Release, SweepTimeouts,
       OwnershipExpires, lockVars

(* No step puts a robot in front of one that waits.                        *)
LEMMA NobodyOvertakes ==
  ASSUME LocksInv, [LocksNext]_lockVars, NEW res \in Resources, NEW r \in Waiting(res)
  PROVE  IF r \in Waiting(res)'
         THEN /\ Ahead(res, r)' \subseteq Ahead(res, r)
              /\ locks'[res].owner \in {locks[res].owner} \cup Ahead(res, r)
         ELSE locks'[res].owner = r /\ Ahead(res, r) = {}
<1>1. /\ Ahead(res, r) = AheadIn(locks[res], r)
      /\ Ahead(res, r)' = AheadIn(locks'[res], r)
      /\ Waiting(res) = Range(locks[res].waiters)
      /\ Waiting(res)' = Range(locks'[res].waiters)
  BY DEF Ahead, AheadIn, Waiting
<1>2. LockOK(locks[res])
  BY DEF LocksInv
<1> QED BY <1>1, <1>2, LockSteps, FreedOrder, RequestedOrder

(* NoOvertaking for any number of robots and resources: each queue is      *)
(* first come, first served, through releases, sweeps and repeated calls.  *)
THEOREM QueuesAreFair == LocksSpec => NoOvertaking
<1>1. LocksInv /\ [LocksNext]_lockVars =>
        [ \A res \in Resources : \A r \in Waiting(res) :
        IF r \in Waiting(res)'
        THEN /\ Ahead(res, r)' \subseteq Ahead(res, r)
             /\ locks'[res].owner \in {locks[res].owner} \cup Ahead(res, r)
        ELSE locks'[res].owner = r /\ Ahead(res, r) = {} ]_lockVars
  BY NobodyOvertakes
<1> QED BY <1>1, LocksInvHolds, PTL DEF LocksSpec, NoOvertaking

(* Every change of ownership serves the queue: the new owner is the robot  *)
(* that waited longest, and each other one has exactly that robot less     *)
(* before it; between two changes nothing moves.  So a robot is the owner  *)
(* after as many changes as robots are before it, and one more.            *)
QueueMovesUp ==
  [][ \A res \in Resources : \A r \in Waiting(res) :
        IF locks'[res].owner = locks[res].owner
        THEN r \in Waiting(res)' /\ Ahead(res, r)' = Ahead(res, r)
        ELSE \/ locks'[res].owner = r
             \/ /\ r \in Waiting(res)'
                /\ locks'[res].owner \in Ahead(res, r)
                /\ Ahead(res, r)' = Ahead(res, r) \ {locks'[res].owner} ]_lockVars

(* release takes the first of the queue out and nobody else.               *)
LEMMA FreedMovesUp ==
  ASSUME NEW lock, LockOK(lock), NEW r \in Range(lock.waiters)
  PROVE  /\ Freed(lock).owner # lock.owner
         /\ \/ Freed(lock).owner = r
            \/ /\ r \in Range(Freed(lock).waiters)
               /\ Freed(lock).owner \in AheadIn(lock, r)
               /\ AheadIn(Freed(lock), r) = AheadIn(lock, r) \ {Freed(lock).owner}
<1> DEFINE s == lock.waiters
<1>1. /\ s \in Seq(Robots) /\ IsInjective(s) /\ s # <<>>
      /\ Freed(lock).owner = Head(s) /\ Freed(lock).waiters = Tail(s)
  <2>1. Range(<<>>) = {}
    BY DEF Range
  <2> QED BY <2>1 DEF LockOK, Freed
<1>2. /\ Head(s) = s[1]
      /\ Len(s) \in Nat \ {0} /\ DOMAIN s = 1 .. Len(s)
      /\ DOMAIN Tail(s) = 1 .. Len(s) - 1
      /\ \A i \in 1 .. Len(s) - 1 : Tail(s)[i] = s[i + 1]
  BY <1>1
<1>3. Head(s) \in Range(s) /\ Range(Tail(s)) = Range(s) \ {Head(s)}
  <2>1. Head(s) \in Range(s)
    BY <1>2 DEF Range
  <2>2. Range(Tail(s)) = Range(s) \ {Head(s)}
    BY <1>1, HeadLeaves
  <2> QED BY <2>1, <2>2
<1>4. Freed(lock).owner # lock.owner
  BY <1>1, <1>3 DEF LockOK
<1>5. CASE r # Head(s)
  <2>1. r \in Range(Freed(lock).waiters)
    BY <1>1, <1>3, <1>5
  <2>2. /\ AheadIn(Freed(lock), r) \subseteq AheadIn(lock, r)
        /\ Freed(lock).owner \in AheadIn(lock, r)
    BY <2>1, FreedOrder
  <2>3. Head(s) \notin AheadIn(Freed(lock), r)
    BY <1>1, <1>3 DEF AheadIn
  <2>4. ASSUME NEW q \in AheadIn(lock, r), q # Head(s) PROVE q \in AheadIn(Freed(lock), r)
    <3>1. PICK i \in 1 .. Len(s), j \in 1 .. Len(s) : i < j /\ s[i] = q /\ s[j] = r
      BY <1>2, <2>4 DEF AheadIn
    <3>2. i # 1 /\ j # 1
      BY <1>2, <1>5, <2>4, <3>1
    <3>3. /\ i - 1 \in 1 .. Len(s) - 1 /\ j - 1 \in 1 .. Len(s) - 1 /\ i - 1 < j - 1
          /\ (i - 1) + 1 = i /\ (j - 1) + 1 = j
      BY <1>2, <3>1, <3>2
    <3>4. Tail(s)[i - 1] = q /\ Tail(s)[j - 1] = r
      BY <1>2, <3>1, <3>3
    <3> QED BY <1>1, <1>2, <3>3, <3>4 DEF AheadIn, Range
  <2>5. AheadIn(Freed(lock), r) = AheadIn(lock, r) \ {Head(s)}
    BY <2>2, <2>3, <2>4
  <2> QED BY <1>1, <1>4, <2>1, <2>2, <2>5
<1> QED BY <1>1, <1>4, <1>5

(* acquire leaves everybody who waits where it is.                         *)
LEMMA RequestedMovesNobody ==
  ASSUME NEW lock, LockOK(lock), NEW p \in Robots, NEW r \in Range(lock.waiters)
  PROVE  /\ Requested(lock, p).owner = lock.owner
         /\ r \in Range(Requested(lock, p).waiters)
         /\ AheadIn(Requested(lock, p), r) = AheadIn(lock, r)
<1> DEFINE s == lock.waiters
<1>1. s \in Seq(Robots) /\ lock.owner # None
  <2>1. Range(<<>>) = {}
    BY DEF Range
  <2> QED BY <2>1 DEF LockOK
<1>2. ASSUME NEW q \in AheadIn(lock, r) PROVE q \in AheadIn(Requested(lock, p), r)
  <2>1. CASE Requested(lock, p) = lock
    BY <1>2, <2>1
  <2>2. CASE Requested(lock, p) = [lock EXCEPT !.waiters = Append(s, p)]
    <3>1. Requested(lock, p).waiters = Append(s, p)
      BY <2>2 DEF LockOK
    <3>2. /\ DOMAIN Append(s, p) = 1 .. Len(s) + 1
          /\ \A i \in 1 .. Len(s) : Append(s, p)[i] = s[i]
          /\ Len(s) \in Nat /\ DOMAIN s = 1 .. Len(s)
      BY <1>1
    <3>3. PICK i \in 1 .. Len(s), j \in 1 .. Len(s) : i < j /\ s[i] = q /\ s[j] = r
      BY <1>2, <3>2 DEF AheadIn
    <3>4. i \in 1 .. Len(s) + 1 /\ j \in 1 .. Len(s) + 1
      BY <3>2, <3>3
    <3> QED BY <3>1, <3>2, <3>3, <3>4 DEF AheadIn, Range
  <2> QED BY <1>1, <2>1, <2>2 DEF Requested
<1> QED BY <1>2, RequestedOrder

(* QueueMovesUp for any number of robots and resources.  With the fairness *)
(* of LocksFairSpec it is what WaiterIsServed rests on: the sweep goes on  *)
(* changing the owner, and every change brings a waiter one place forward. *)
THEOREM QueuesMoveUp == LocksSpec => QueueMovesUp
<1>1. ASSUME LocksInv, [LocksNext]_lockVars, NEW res \in Resources, NEW r \in Waiting(res)
      PROVE  IF locks'[res].owner = locks[res].owner
             THEN r \in Waiting(res)' /\ Ahead(res, r)' = Ahead(res, r)
             ELSE \/ locks'[res].owner = r
                  \/ /\ r \in Waiting(res)'
                     /\ locks'[res].owner \in Ahead(res, r)
                     /\ Ahead(res, r)' = Ahead(res, r) \ {locks'[res].owner}
  <2>1. /\ Ahead(res, r) = AheadIn(locks[res], r)
        /\ Ahead(res, r)' = AheadIn(locks'[res], r)
        /\ Waiting(res) = Range(locks[res].waiters)
        /\ Waiting(res)' = Range(locks'[res].waiters)
    BY DEF Ahead, AheadIn, Waiting
  <2>2. LockOK(locks[res]) /\ r \in Range(locks[res].waiters)
    BY <1>1, <2>1 DEF LocksInv
  <2>3. CASE locks'[res] = locks[res]
    BY <2>1, <2>2, <2>3
  <2>4. ASSUME NEW p \in Robots, locks'[res] = Requested(locks[res], p)
        PROVE  /\ locks'[res].owner = locks[res].owner
               /\ r \in Waiting(res)' /\ Ahead(res, r)' = Ahead(res, r)
    BY <2>1, <2>2, <2>4, RequestedMovesNobody
  <2>5. CASE locks'[res] = Freed(locks[res])
    BY <2>1, <2>2, <2>5, FreedMovesUp
  <2> QED BY <1>1, <2>3, <2>4, <2>5, LockSteps
<1>2. LocksInv /\ [LocksNext]_lockVars =>
        [ \A res \in Resources : \A r \in Waiting(res) :
        IF locks'[res].owner = locks[res].owner
        THEN r \in Waiting(res)' /\ Ahead(res, r)' = Ahead(res, r)
        ELSE \/ locks'[res].owner = r
             \/ /\ r \in Waiting(res)'
                /\ locks'[res].owner \in Ahead(res, r)
                /\ Ahead(res, r)' = Ahead(res, r) \ {locks'[res].owner} ]_lockVars
  BY <1>1
<1> QED BY <1>2, LocksInvHolds, PTL DEF LocksSpec, QueueMovesUp

-----------------------------------------------------------------------------
(* Robots that ask once.                                                   *)

(* r waits behind q, the owner or another waiter.                          *)
Behind(lock, r, q) ==
  \/ q = lock.owner /\ r \in Range(lock.waiters)
  \/ q \in AheadIn(lock, r)

(* Nobody waits behind itself.                                             *)
LEMMA NotBehindItself ==
  ASSUME NEW lock, LockOK(lock), NEW r
  PROVE  ~Behind(lock, r, r)
<1>1. r \notin AheadIn(lock, r)
  <2>1. lock.waiters \in Seq(Robots) /\ IsInjective(lock.waiters)
    BY DEF LockOK
  <2> QED BY <2>1 DEF AheadIn, IsInjective
<1> QED BY <1>1 DEF Behind, LockOK

(* release puts no robot behind another.                                   *)
LEMMA FreedBehind ==
  ASSUME NEW lock, LockOK(lock), NEW r, NEW q, Behind(Freed(lock), r, q)
  PROVE  Behind(lock, r, q)
<1>1. r \in Range(Freed(lock).waiters)
  BY DEF Behind, AheadIn, Range
<1>2. r \in Range(lock.waiters)
  BY <1>1, HeadLeaves DEF Freed, LockOK
<1> QED BY <1>1, <1>2, FreedOrder DEF Behind

(* acquire puts at most the robot that calls behind others.                *)
LEMMA RequestedBehind ==
  ASSUME NEW lock, LockOK(lock), NEW p \in Robots, NEW r, NEW q,
         Behind(Requested(lock, p), r, q)
  PROVE  Behind(lock, r, q) \/ (r = p /\ q # p)
<1>1. r \in Range(Requested(lock, p).waiters)
  BY DEF Behind, AheadIn, Range
<1>2. r \in Range(lock.waiters) \cup {p}
  BY <1>1, AppendNew DEF Requested, LockOK
<1>3. CASE r \in Range(lock.waiters)
  BY <1>3, RequestedOrder DEF Behind
<1>4. CASE r = p
  BY <1>4, RequestedOK, NotBehindItself
<1> QED BY <1>2, <1>3, <1>4

(* The robots of OneCall can be numbered so that each waits only behind    *)
(* robots with smaller numbers, at every resource: the numbers of their    *)
(* last calls.                                                             *)
Numbered(at) ==
  \A res \in Resources : \A q, r \in OneCall :
    Behind(locks[res], r, q) => at[q] < at[r]

CallsAreOrdered == \E n \in Nat : \E at \in [OneCall -> 0..n] : Numbered(at)

(* A call gets the next number; nothing else puts a robot behind another. *)
LEMMA OrderStep == LocksInv /\ CallsAreOrdered /\ [LocksNext]_lockVars => CallsAreOrdered'
<1> SUFFICES ASSUME LocksInv, CallsAreOrdered, [LocksNext]_lockVars
             PROVE  CallsAreOrdered'
  OBVIOUS
<1>n. PICK n \in Nat : \E at \in [OneCall -> 0..n] : Numbered(at)
  BY DEF CallsAreOrdered
<1>1. PICK at \in [OneCall -> 0..n] : Numbered(at)
  BY <1>n
<1>2. \A res \in Resources : LockOK(locks[res])
  BY DEF LocksInv
<1>3. CASE \A res \in Resources :
             locks'[res] = locks[res] \/ locks'[res] = Freed(locks[res])
  <2>1. Numbered(at)'
    BY <1>1, <1>2, <1>3, FreedBehind DEF Numbered
  <2> QED BY <2>1 DEF CallsAreOrdered
<1>4. ASSUME NEW p \in Robots, NEW wanted \in SUBSET Resources,
             p \in OneCall => Claims(p) = {}, AcquireOrdered(p, wanted)
      PROVE  CallsAreOrdered'
  <2>1. \A res \in Resources :
          \/ locks'[res] = locks[res]
          \/ locks'[res] = Requested(locks[res], p)
    BY <1>4 DEF AcquireOrdered
  <2>2. ASSUME NEW res \in Resources, NEW q, NEW r, Behind(locks'[res], r, q)
        PROVE  Behind(locks[res], r, q) \/ (r = p /\ q # p)
    BY <1>2, <2>1, <2>2, RequestedBehind
  <2>3. CASE p \notin OneCall
    <3>1. Numbered(at)'
      BY <1>1, <2>2, <2>3 DEF Numbered
    <3> QED BY <3>1 DEF CallsAreOrdered
  <2>4. CASE p \in OneCall
    <3> DEFINE next == [at EXCEPT ![p] = n + 1]
    <3>1. ASSUME NEW res \in Resources, NEW q, NEW r, Behind(locks[res], r, q)
          PROVE  r # p /\ q # p
      BY <1>4, <2>4, <3>1 DEF Claims, Owns, Waiting, Behind, AheadIn, Range
    <3>2. next \in [OneCall -> 0 .. n + 1]
      <4>1. \A q \in OneCall : at[q] \in 0 .. n + 1
        BY <1>1
      <4> QED BY <2>4, <4>1
    <3>3. Numbered(next)'
      <4> SUFFICES ASSUME NEW res \in Resources, NEW q \in OneCall, NEW r \in OneCall,
                          Behind(locks'[res], r, q)
                   PROVE  next[q] < next[r]
        BY DEF Numbered
      <4>1. CASE Behind(locks[res], r, q)
        BY <1>1, <3>1, <4>1 DEF Numbered
      <4>2. CASE r = p /\ q # p
        BY <1>1, <2>4, <4>2
      <4> QED BY <2>2, <4>1, <4>2
    <3>4. n + 1 \in Nat
      OBVIOUS
    <3> HIDE DEF next
    <3> QED BY <3>2, <3>3, <3>4 DEF CallsAreOrdered
  <2> QED BY <2>3, <2>4
<1>5. CASE ReleaseOrTimeout \/ UNCHANGED lockVars
  <2>1. \A res \in Resources :
          locks'[res] = locks[res] \/ locks'[res] = Freed(locks[res])
    BY <1>5
       DEF ReleaseOrTimeout, Release, SweepTimeouts, OwnershipExpires, lockVars,
           LocksInv
  <2> QED BY <1>3, <2>1
<1> QED BY <1>4, <1>5 DEF LocksNext

(* Every set of naturals that is not empty has a smallest member.          *)
LEMMA SmallestNat ==
  ASSUME NEW S \in SUBSET Nat, S # {}
  PROVE  \E x \in S : \A y \in S : x <= y
<1> DEFINE lt == {ss \in Nat \X Nat : ss[1] < ss[2]}
<1>1. IsWellFoundedOn(lt, Nat)
  BY NatLessThanWellFounded DEF OpToRel
<1>2. PICK x \in S : \A y \in S : ~(<<y, x>> \in lt)
  BY <1>1, WFMin
<1>3. ASSUME NEW y \in S PROVE x <= y
  <2>1. <<y, x>> \in Nat \X Nat /\ <<y, x>>[1] = y /\ <<y, x>>[2] = x
    OBVIOUS
  <2> QED BY <1>2, <2>1
<1> QED BY <1>3

(* In a circle of waiting robots nobody can have called first.             *)
LEMMA OrderedNoCycle == CallsAreOrdered => NoWaitCycle
<1> SUFFICES ASSUME CallsAreOrdered, NEW set \in (SUBSET OneCall) \ {{}},
                    WaitCycle(set)
             PROVE  FALSE
  BY DEF NoWaitCycle
<1>n. PICK n \in Nat : \E at \in [OneCall -> 0..n] : Numbered(at)
  BY DEF CallsAreOrdered
<1>1. PICK at \in [OneCall -> 0..n] : Numbered(at)
  BY <1>n
<1> DEFINE numbers == {at[r] : r \in set}
<1>2. numbers \in SUBSET Nat /\ numbers # {}
  BY <1>1
<1>3. PICK r \in set : \A q \in set : at[r] <= at[q]
  <2>1. PICK x \in numbers : \A y \in numbers : x <= y
    <3> HIDE DEF numbers
    <3> QED BY <1>2, SmallestNat
  <2> QED BY <2>1
<1>4. PICK res \in Resources : r \in Waiting(res) /\ locks[res].owner \in set
  BY DEF WaitCycle
<1>5. at[locks[res].owner] < at[r]
  BY <1>1, <1>4 DEF Numbered, Behind, Waiting
<1> QED BY <1>1, <1>3, <1>4, <1>5

(* NoWaitCycle for any number of robots and resources: robots that ask for *)
(* all they need in one acquire_ordered call never deadlock among each     *)
(* other, although the call goes on past a WAITING, and whatever robots    *)
(* that do not keep to this and the sweep do in between.                   *)
THEOREM OneCallNeverDeadlocks == LocksSpec => []NoWaitCycle
<1>1. LocksInit => CallsAreOrdered
  <2> SUFFICES ASSUME LocksInit PROVE CallsAreOrdered
    OBVIOUS
  <2>1. \A res \in Resources : \A r, q : ~Behind(locks[res], r, q)
    BY DEF LocksInit, Behind, AheadIn, Range
  <2>2. Numbered([r \in OneCall |-> 0])
    BY <2>1 DEF Numbered
  <2> QED BY <2>2 DEF CallsAreOrdered
<1> QED BY <1>1, OrderStep, OrderedNoCycle, LocksInvHolds, PTL DEF LocksSpec

=============================================================================
