-------------------------- MODULE FleetStoreProofs --------------------------
(* Theorems about FleetStore, for any robots, tasks and adapters: what the *)
(* database says whenever the process dies, and after any restarts.        *)
EXTENDS FleetStore, HaulBookingProofs

-----------------------------------------------------------------------------
(* The rows in hand.                                                       *)

IsPending(q, key) == \E i \in DOMAIN q : q[i].key = key

(* The row of an active assignment of robot r.                             *)
Names(row, r) == IsActive(row) /\ row.robot = r

SoundRecord(record) ==
  /\ record.state \in DispatchableStates => record.task = None
  /\ record.state \in ActiveTaskStates => record.task # None

(* Once the rows q are written, the tables show the registry reg and the   *)
(* dispatcher's records asg.                                               *)
RobotsCovered(q, reg) ==
  \A r \in FleetOnly :
    \/ ~IsPending(q, r) /\ rows[r] = reg[r]
    \/ \E i \in DOMAIN q : /\ q[i].key = r /\ q[i].row = reg[r]
                           /\ \A j \in DOMAIN q : q[j].key = r => j <= i

TasksCovered(q, asg) ==
  \A t \in Tasks :
    \/ ~IsPending(q, t) /\ LastRow(t) = asg[t]
    \/ \E i \in DOMAIN q : q[i].key = t /\ q[i].row = asg[t]

(* A call writes the assignment of one task, ...                           *)
OneTask(q) ==
  \A i, j \in DOMAIN q : q[i].key \in Tasks /\ q[j].key \in Tasks => i = j

(* ... a robot gets another task only after the active row that names it   *)
(* with the old one has been closed, ...                                   *)
RobotRowsSafe(q) ==
  \A i \in DOMAIN q : \A r \in FleetOnly : \A t \in Tasks :
    q[i].key = r /\ Names(LastRow(t), r) =>
      q[i].row.task = t \/ \E j \in DOMAIN q : j < i /\ q[j].key = t

(* ... and an active row is written only after its robot has got the task. *)
(* An update is of the last row, which is active and keeps its robot.      *)
TaskRowsSafe(q) ==
  \A i \in DOMAIN q : \A t \in Tasks :
    q[i].key = t =>
      /\ \A r \in FleetOnly :
           Names(q[i].row, r) =>
             /\ rows[r].task = t \/ \E j \in DOMAIN q : j < i /\ q[j].key = r
             /\ \A j \in DOMAIN q : q[j].key = r => q[j].row.task = t
      /\ q[i].row.status = "assigned" => ~IsActive(LastRow(t)) /\ Len(table[t]) < MaxRows
      /\ q[i].row.status # "assigned" =>
           IsActive(LastRow(t)) /\ q[i].row.robot = LastRow(t).robot

(* The robot that an active row names, written or pending, has its task.   *)
Agrees(q, reg) ==
  \A r \in FleetOnly : \A t \in Tasks :
    /\ Names(LastRow(t), r) => reg[r].task = t \/ IsPending(q, t)
    /\ \A i \in DOMAIN q : q[i].key = t /\ Names(q[i].row, r) => reg[r].task = t

RowsSound(q) == \A i \in DOMAIN q : q[i].key \in Robots => SoundRecord(q[i].row)

Covers(q, reg, asg) ==
  /\ q \in Seq(Pending)
  /\ RobotsCovered(q, reg)
  /\ TasksCovered(q, asg)
  /\ OneTask(q)
  /\ RobotRowsSafe(q)
  /\ TaskRowsSafe(q)
  /\ Agrees(q, reg)
  /\ RowsSound(q)

-----------------------------------------------------------------------------
(* A key says which table the row is for.                                  *)
LEMMA PendingRow ==
  ASSUME NEW x \in Pending
  PROVE  /\ x.key \in Robots \cup Tasks
         /\ x.key \in Robots => x.row \in RobotRecord /\ x.key \notin Tasks
         /\ x.key \in Tasks => x.row \in Assignment /\ x.key \notin Robots
BY RobotsAreNoTasks DEF Pending

(* A row is added to those in hand.                                        *)
LEMMA Added ==
  ASSUME NEW q \in Seq(Pending), NEW x \in Pending
  PROVE  LET new == Append(q, x)
             n   == Len(q) + 1
         IN  /\ new \in Seq(Pending) /\ n \in Nat /\ DOMAIN q \subseteq Nat
             /\ DOMAIN new = DOMAIN q \cup {n} /\ new[n] = x
             /\ \A i \in DOMAIN q : i < n /\ new[i] = q[i]
OBVIOUS

(* The first row is taken from those in hand.                              *)
LEMMA Taken ==
  ASSUME NEW q \in Seq(Pending), q # <<>>
  PROVE  /\ Tail(q) \in Seq(Pending)
         /\ 1 \in DOMAIN q /\ Head(q) = q[1] /\ DOMAIN q \subseteq Nat \ {0}
         /\ \A i \in DOMAIN Tail(q) : /\ i \in Nat \ {0} /\ i + 1 \in DOMAIN q
                                      /\ Tail(q)[i] = q[i + 1]
         /\ \A i \in DOMAIN q \ {1} : /\ i - 1 \in DOMAIN Tail(q)
                                      /\ Tail(q)[i - 1] = q[i]
<1>1. /\ Len(q) \in Nat \ {0} /\ DOMAIN q = 1 .. Len(q)
      /\ Tail(q) \in Seq(Pending) /\ Len(Tail(q)) = Len(q) - 1
      /\ DOMAIN Tail(q) = 1 .. Len(q) - 1
      /\ Head(q) = q[1]
      /\ \A i \in 1 .. Len(q) - 1 : Tail(q)[i] = q[i + 1]
  OBVIOUS
<1>2. \A i \in DOMAIN q \ {1} : i - 1 \in 1 .. Len(q) - 1 /\ Tail(q)[i - 1] = q[i]
  <2> SUFFICES ASSUME NEW i \in DOMAIN q \ {1}
               PROVE  i - 1 \in 1 .. Len(q) - 1 /\ Tail(q)[i - 1] = q[i]
    OBVIOUS
  <2>1. i - 1 \in 1 .. Len(q) - 1 /\ (i - 1) + 1 = i
    BY <1>1
  <2> QED BY <1>1, <2>1
<1> QED BY <1>1, <1>2

(* A task whose last row is active has one.                                *)
LEMMA ActiveIsRow ==
  ASSUME NEW t \in Tasks, IsActive(LastRow(t))
  PROVE  table[t] # <<>>
BY NoneIsNoStatus DEF IsActive, LastRow, NoRow, AssignmentStatus, ActiveAssignmentStatus

(* With nothing in hand the tables are what memory is.                     *)
LEMMA NothingInHand ==
  ASSUME NEW reg, NEW asg,
         \A r \in FleetOnly : rows[r] = reg[r],
         \A t \in Tasks : LastRow(t) = asg[t],
         \A r \in FleetOnly : \A t \in Tasks : Names(LastRow(t), r) => reg[r].task = t
  PROVE  Covers(<<>>, reg, asg)
<1>1. <<>> \in Seq(Pending) /\ DOMAIN <<>> = {}
  OBVIOUS
<1> QED
  BY <1>1 DEF Covers, RobotsCovered, TasksCovered, OneTask, RobotRowsSafe, TaskRowsSafe,
              Agrees, RowsSound, IsPending

(* A robot's row is added: the registry has changed for that robot.        *)
LEMMA RobotRowAdded ==
  ASSUME NEW q, NEW reg, NEW asg, Covers(q, reg, asg),
         NEW r \in Robots, NEW new, new[r] \in RobotRecord, SoundRecord(new[r]),
         \A p \in Robots \ {r} : new[p] = reg[p],
         Agrees(q, new)
  PROVE  Covers(q \o Row(r, new[r]), new, asg)
<1> DEFINE x == [key |-> r, row |-> new[r]]
           long == Append(q, x)
           n == Len(q) + 1
<1>1. q \in Seq(Pending) /\ x \in Pending /\ x.key = r /\ x.row = new[r]
      /\ r \notin Tasks /\ FleetOnly \subseteq Robots
  BY RobotsAreNoTasks DEF Covers, Pending, FleetOnly
<1>2. q \o Row(r, new[r]) = long
  BY <1>1 DEF Row
<1> HIDE DEF x
<1>3. /\ long \in Seq(Pending) /\ n \in Nat /\ DOMAIN q \subseteq Nat
      /\ DOMAIN long = DOMAIN q \cup {n} /\ long[n] = x
      /\ \A i \in DOMAIN q : i < n /\ long[i] = q[i]
  BY <1>1, Added
<1> HIDE DEF long, n
<1>4. \A key : IsPending(long, key) <=> IsPending(q, key) \/ key = r
  BY <1>1, <1>3 DEF IsPending
<1>5. RobotsCovered(long, new)
  <2> SUFFICES ASSUME NEW p \in FleetOnly
               PROVE  \/ ~IsPending(long, p) /\ rows[p] = new[p]
                      \/ \E i \in DOMAIN long :
                           /\ long[i].key = p /\ long[i].row = new[p]
                           /\ \A j \in DOMAIN long : long[j].key = p => j <= i
    BY DEF RobotsCovered
  <2>1. CASE p = r
    BY <1>1, <1>3, <2>1
  <2>2. CASE p # r
    <3>1. new[p] = reg[p]
      BY <1>1, <2>2
    <3>2. CASE ~IsPending(q, p) /\ rows[p] = reg[p]
      BY <1>4, <2>2, <3>1, <3>2
    <3>3. CASE \E i \in DOMAIN q : /\ q[i].key = p /\ q[i].row = reg[p]
                                   /\ \A j \in DOMAIN q : q[j].key = p => j <= i
      BY <1>1, <1>3, <2>2, <3>1, <3>3
    <3> QED BY <3>2, <3>3 DEF Covers, RobotsCovered
  <2> QED BY <2>1, <2>2
<1>6. TasksCovered(long, asg)
  BY <1>1, <1>3, <1>4 DEF Covers, TasksCovered
<1>7. OneTask(long)
  BY <1>1, <1>3 DEF Covers, OneTask
<1>8. RobotRowsSafe(long)
  <2> SUFFICES ASSUME NEW i \in DOMAIN long, NEW p \in FleetOnly, NEW t \in Tasks,
                      long[i].key = p, Names(LastRow(t), p)
               PROVE  \/ long[i].row.task = t
                      \/ \E j \in DOMAIN long : j < i /\ long[j].key = t
    BY DEF RobotRowsSafe
  <2>1. CASE i = n
    BY <1>1, <1>3, <2>1 DEF Agrees, IsPending
  <2>2. CASE i \in DOMAIN q
    BY <1>3, <2>2 DEF Covers, RobotRowsSafe
  <2> QED BY <1>3, <2>1, <2>2
<1>9. TaskRowsSafe(long)
  <2> SUFFICES ASSUME NEW i \in DOMAIN long, NEW t \in Tasks, long[i].key = t
      PROVE
        /\ \A p \in FleetOnly :
             Names(long[i].row, p) =>
               /\ rows[p].task = t \/ \E j \in DOMAIN long : j < i /\ long[j].key = p
               /\ \A j \in DOMAIN long : long[j].key = p => long[j].row.task = t
        /\ long[i].row.status = "assigned" =>
             ~IsActive(LastRow(t)) /\ Len(table[t]) < MaxRows
        /\ long[i].row.status # "assigned" =>
             IsActive(LastRow(t)) /\ long[i].row.robot = LastRow(t).robot
    BY DEF TaskRowsSafe
  <2>1. i \in DOMAIN q /\ long[i] = q[i]
    BY <1>1, <1>3
  <2>2. ASSUME NEW p \in FleetOnly, Names(long[i].row, p)
        PROVE  /\ rows[p].task = t \/ \E j \in DOMAIN long : j < i /\ long[j].key = p
               /\ \A j \in DOMAIN long : long[j].key = p => long[j].row.task = t
    <3>1. new[p].task = t
      BY <2>1, <2>2 DEF Agrees
    <3> QED BY <1>1, <1>3, <2>1, <2>2, <3>1 DEF Covers, TaskRowsSafe
  <2> QED BY <2>1, <2>2 DEF Covers, TaskRowsSafe
<1>10. Agrees(long, new)
  BY <1>1, <1>3, <1>4 DEF Agrees
<1>11. RowsSound(long)
  BY <1>1, <1>3 DEF Covers, RowsSound
<1> QED BY <1>2, <1>3, <1>5, <1>6, <1>7, <1>8, <1>9, <1>10, <1>11 DEF Covers

(* The row of a task is added: the dispatcher's record has changed.        *)
LEMMA TaskRowAdded ==
  ASSUME NEW q, NEW reg, NEW asg \in [Tasks -> Assignment], Covers(q, reg, asg),
         NEW t \in Tasks, NEW row \in Assignment,
         \A u \in Tasks : ~IsPending(q, u),
         \A r \in FleetOnly :
           Names(row, r) =>
             /\ reg[r].task = t
             /\ rows[r].task = t \/ IsPending(q, r)
             /\ \A j \in DOMAIN q : q[j].key = r => q[j].row.task = t,
         row.status = "assigned" => ~IsActive(LastRow(t)) /\ Len(table[t]) < MaxRows,
         row.status # "assigned" =>
           IsActive(LastRow(t)) /\ row.robot = LastRow(t).robot
  PROVE  Covers(q \o Row(t, row), reg, [asg EXCEPT ![t] = row])
<1> DEFINE x == [key |-> t, row |-> row]
           long == Append(q, x)
           n == Len(q) + 1
<1>1. q \in Seq(Pending) /\ x \in Pending /\ x.key = t /\ x.row = row
      /\ t \notin Robots /\ FleetOnly \subseteq Robots
  BY RobotsAreNoTasks DEF Covers, Pending, FleetOnly
<1>2. q \o Row(t, row) = long
  BY <1>1 DEF Row
<1> HIDE DEF x
<1>3. /\ long \in Seq(Pending) /\ n \in Nat /\ DOMAIN q \subseteq Nat
      /\ DOMAIN long = DOMAIN q \cup {n} /\ long[n] = x
      /\ \A i \in DOMAIN q : i < n /\ long[i] = q[i]
  BY <1>1, Added
<1> HIDE DEF long, n
<1>4. \A key : IsPending(long, key) <=> IsPending(q, key) \/ key = t
  BY <1>1, <1>3 DEF IsPending
<1>5. RobotsCovered(long, reg)
  <2> SUFFICES ASSUME NEW p \in FleetOnly
               PROVE  \/ ~IsPending(long, p) /\ rows[p] = reg[p]
                      \/ \E i \in DOMAIN long :
                           /\ long[i].key = p /\ long[i].row = reg[p]
                           /\ \A j \in DOMAIN long : long[j].key = p => j <= i
    BY DEF RobotsCovered
  <2>1. p # t
    BY <1>1
  <2>2. CASE ~IsPending(q, p) /\ rows[p] = reg[p]
    BY <1>4, <2>1, <2>2
  <2>3. CASE \E i \in DOMAIN q : /\ q[i].key = p /\ q[i].row = reg[p]
                                 /\ \A j \in DOMAIN q : q[j].key = p => j <= i
    BY <1>1, <1>3, <2>1, <2>3
  <2> QED BY <2>2, <2>3 DEF Covers, RobotsCovered
<1>6. TasksCovered(long, [asg EXCEPT ![t] = row])
  BY <1>1, <1>3, <1>4 DEF Covers, TasksCovered
<1>7. OneTask(long)
  BY <1>1, <1>3 DEF OneTask, IsPending
<1>8. RobotRowsSafe(long)
  BY <1>1, <1>3 DEF Covers, RobotRowsSafe
<1>9. TaskRowsSafe(long)
  BY <1>1, <1>3 DEF TaskRowsSafe, IsPending
<1>10. Agrees(long, reg)
  BY <1>1, <1>3, <1>4 DEF Covers, Agrees
<1>11. RowsSound(long)
  BY <1>1, <1>3 DEF Covers, RowsSound
<1> QED BY <1>2, <1>3, <1>5, <1>6, <1>7, <1>8, <1>9, <1>10, <1>11 DEF Covers

-----------------------------------------------------------------------------
(* The inductive invariant of the store.                                   *)

(* What a new process keeps to as well: an active haul's robot and status  *)
(* are those of the dispatcher's record.  LedgersAgree says more, but not  *)
(* of a haul whose record was loaded from the database.                    *)
Tied(h, a) ==
  /\ h.wms = "ASSIGNED" => h.asg = "assigned" /\ a.status = "assigned"
  /\ h.wms = "IN_PROGRESS" => h.asg = "executing" /\ a.status = "executing"
  /\ h.wms \in {"ASSIGNED", "IN_PROGRESS"} => h.robot # None /\ a.robot = h.robot
  /\ h.wms \notin {"ASSIGNED", "IN_PROGRESS"} => h.asg \notin ActiveAssignmentStatus
  /\ h.wms \in {"PENDING", "REQUEUED"} => h.robot = None
  /\ h.phase \in Working => h.wms = "IN_PROGRESS"

Ties == \A t \in Tasks : Tied(hauls[t], assignments[t])

CopiesSound == \A r \in Adapted : copy[r] # None => SoundRecord(copy[r])

MemoryInv ==
  /\ TypeOK
  /\ Sound(robots)
  /\ Ties
  /\ BoundRobotHoldsTask

StoreInv ==
  /\ MemoryInv
  /\ StoreTypeOK
  /\ Sound(rows)
  /\ CopiesSound
  /\ ActiveRowIsHeld
  /\ Covers(todo, robots, assignments)

(* A table with its row written: the row is the last, the only one that    *)
(* may be active.                                                          *)
LEMMA RowStored ==
  ASSUME StoreTypeOK, ActiveRowIsHeld, NEW t \in Tasks, NEW row \in Assignment,
         row.status = "assigned" => ~IsActive(LastRow(t)) /\ Len(table[t]) < MaxRows,
         row.status # "assigned" => table[t] # <<>>
  PROVE  LET new == Stored(t, row)
         IN  /\ new \in Seq(Assignment) /\ Len(new) \in Nat \ {0} /\ Len(new) <= MaxRows
             /\ new[Len(new)] = row
             /\ \A i \in DOMAIN new : IsActive(new[i]) => i = Len(new)
<1>1. /\ table[t] \in Seq(Assignment) /\ Len(table[t]) \in Nat /\ Len(table[t]) <= MaxRows
      /\ DOMAIN table[t] = 1 .. Len(table[t]) /\ MaxRows \in Nat
      /\ \A i \in DOMAIN table[t] : IsActive(table[t][i]) => i = Len(table[t])
  BY RowsAreBounded DEF StoreTypeOK, ActiveRowIsHeld
<1>2. CASE row.status = "assigned"
  <2>1. \A i \in DOMAIN table[t] : ~IsActive(table[t][i])
    <3> SUFFICES ASSUME NEW i \in DOMAIN table[t], IsActive(table[t][i]) PROVE FALSE
      OBVIOUS
    <3>1. i = Len(table[t]) /\ table[t] # <<>>
      BY <1>1
    <3> QED BY <1>2, <3>1 DEF LastRow
  <2> DEFINE new == Append(table[t], row)
  <2>2. /\ new \in Seq(Assignment) /\ Len(new) = Len(table[t]) + 1
        /\ new[Len(new)] = row /\ DOMAIN new = 1 .. Len(table[t]) + 1
        /\ \A i \in 1 .. Len(table[t]) : new[i] = table[t][i]
    BY <1>1
  <2>3. Stored(t, row) = new
    BY <1>2 DEF Stored
  <2> HIDE DEF new
  <2> QED BY <1>1, <1>2, <2>1, <2>2, <2>3
<1>3. CASE row.status # "assigned"
  <2> DEFINE n == Len(table[t])
             new == [table[t] EXCEPT ![n] = row]
  <2>1. n \in Nat \ {0}
    BY <1>1, <1>3
  <2>2. /\ new \in Seq(Assignment) /\ Len(new) = n /\ DOMAIN new = 1 .. n
        /\ new[n] = row /\ \A i \in 1 .. n \ {n} : new[i] = table[t][i]
    BY <1>1, <2>1
  <2>3. Stored(t, row) = new
    BY <1>3 DEF Stored
  <2> HIDE DEF new
  <2> QED BY <1>1, <2>1, <2>2, <2>3
<1> QED BY <1>2, <1>3

(* The first robot row in hand is committed.                               *)
LEMMA CommitRobot ==
  ASSUME StoreInv, todo # <<>>, todo' = Tail(todo), UNCHANGED <<vars, copy, table>>,
         Head(todo).key \in Robots,
         rows' = [rows EXCEPT ![Head(todo).key] = Head(todo).row]
  PROVE  StoreInv'
<1> DEFINE r == todo[1].key
           row == todo[1].row
<1>1. /\ todo \in Seq(Pending) /\ todo' \in Seq(Pending)
      /\ 1 \in DOMAIN todo /\ Head(todo) = todo[1] /\ DOMAIN todo \subseteq Nat \ {0}
      /\ \A i \in DOMAIN todo' : /\ i \in Nat \ {0} /\ i + 1 \in DOMAIN todo
                                 /\ todo'[i] = todo[i + 1]
      /\ \A i \in DOMAIN todo \ {1} : /\ i - 1 \in DOMAIN todo'
                                      /\ todo'[i - 1] = todo[i]
  BY Taken DEF StoreInv, Covers
<1>2. /\ r \in Robots \ Tasks /\ row \in RobotRecord /\ SoundRecord(row)
      /\ FleetOnly \subseteq Robots
  BY <1>1, PendingRow DEF StoreInv, Covers, RowsSound, FleetOnly
<1>3. /\ rows' \in [Robots -> RobotRecord] /\ rows'[r] = row
      /\ \A p \in Robots \ {r} : rows'[p] = rows[p]
      /\ UNCHANGED <<robots, assignments, hauls, copy, table>>
  BY <1>1, <1>2 DEF StoreInv, StoreTypeOK, vars
<1> HIDE DEF r, row
<1>4. FleetOnly' = FleetOnly /\ \A t \in Tasks : LastRow(t)' = LastRow(t)
  BY <1>3 DEF FleetOnly, LastRow
<1>5. \A i \in DOMAIN todo : 1 < i => i # 1
  BY <1>1
<1>6. /\ RobotsCovered(todo, robots) /\ TasksCovered(todo, assignments) /\ OneTask(todo)
      /\ RobotRowsSafe(todo) /\ TaskRowsSafe(todo) /\ Agrees(todo, robots)
      /\ RowsSound(todo) /\ ActiveRowIsHeld
  BY DEF StoreInv, Covers
<1>7. todo[1].key = r /\ todo[1].row = row
  BY DEF r, row
<1>8. \A key : IsPending(todo', key) => IsPending(todo, key)
  BY <1>1 DEF IsPending
<1>9. \A t \in Tasks : IsPending(todo, t) => IsPending(todo', t)
  BY <1>1, <1>2, <1>7 DEF IsPending
<1>10. RobotsCovered(todo, robots)'
  <2> SUFFICES ASSUME NEW p \in FleetOnly
      PROVE  \/ ~IsPending(todo', p) /\ rows'[p] = robots[p]
             \/ \E i \in DOMAIN todo' :
                  /\ todo'[i].key = p /\ todo'[i].row = robots[p]
                  /\ \A j \in DOMAIN todo' : todo'[j].key = p => j <= i
    BY <1>3, <1>4 DEF RobotsCovered, IsPending
  <2>1. CASE ~IsPending(todo, p) /\ rows[p] = robots[p]
    <3>1. p # r
      BY <1>1, <1>7, <2>1 DEF IsPending
    <3> QED BY <1>2, <1>3, <1>8, <2>1, <3>1
  <2>2. ASSUME NEW i \in DOMAIN todo, todo[i].key = p, todo[i].row = robots[p],
               \A j \in DOMAIN todo : todo[j].key = p => j <= i
        PROVE  \/ ~IsPending(todo', p) /\ rows'[p] = robots[p]
               \/ \E k \in DOMAIN todo' :
                    /\ todo'[k].key = p /\ todo'[k].row = robots[p]
                    /\ \A j \in DOMAIN todo' : todo'[j].key = p => j <= k
    <3>1. CASE i = 1
      <4>1. p = r /\ rows'[p] = robots[p]
        BY <1>3, <1>7, <2>2, <3>1
      <4>2. ~IsPending(todo', p)
        <5> SUFFICES ASSUME NEW j \in DOMAIN todo', todo'[j].key = p PROVE FALSE
          BY DEF IsPending
        <5>1. j + 1 \in DOMAIN todo /\ todo[j + 1].key = p /\ j \in Nat
          BY <1>1
        <5>2. j + 1 <= 1 /\ j # 0
          BY <1>1, <2>2, <3>1, <5>1
        <5> QED BY <5>1, <5>2
      <4> QED BY <4>1, <4>2
    <3>2. CASE i # 1
      <4>1. /\ i - 1 \in DOMAIN todo' /\ todo'[i - 1] = todo[i]
            /\ i \in Nat
        BY <1>1, <3>2
      <4>2. \A j \in DOMAIN todo' : todo'[j].key = p => j <= i - 1
        BY <1>1, <2>2, <4>1
      <4> QED BY <2>2, <4>1, <4>2
    <3> QED BY <3>1, <3>2
  <2> QED BY <1>6, <2>1, <2>2 DEF RobotsCovered
<1>11. TasksCovered(todo, assignments)'
  <2> SUFFICES ASSUME NEW t \in Tasks
      PROVE  \/ ~IsPending(todo', t) /\ LastRow(t) = assignments[t]
             \/ \E i \in DOMAIN todo' : todo'[i].key = t /\ todo'[i].row = assignments[t]
    BY <1>3, <1>4 DEF TasksCovered, IsPending
  <2>1. ASSUME NEW i \in DOMAIN todo, todo[i].key = t, todo[i].row = assignments[t]
        PROVE  \E k \in DOMAIN todo' : todo'[k].key = t /\ todo'[k].row = assignments[t]
    <3>1. i # 1
      BY <1>2, <1>7, <2>1
    <3>2. i - 1 \in DOMAIN todo' /\ todo'[i - 1] = todo[i]
      BY <1>1, <3>1
    <3> QED BY <2>1, <3>2
  <2> QED BY <1>6, <1>8, <2>1 DEF TasksCovered
<1>12. OneTask(todo)'
  <2> SUFFICES ASSUME NEW i \in DOMAIN todo', NEW j \in DOMAIN todo',
                      todo'[i].key \in Tasks, todo'[j].key \in Tasks
               PROVE  i = j
    BY DEF OneTask
  <2>1. i + 1 = j + 1
    BY <1>1, <1>6 DEF OneTask
  <2> QED BY <1>1, <2>1
<1>13. RobotRowsSafe(todo)'
  <2> SUFFICES ASSUME NEW i \in DOMAIN todo', NEW p \in FleetOnly, NEW t \in Tasks,
                      todo'[i].key = p, Names(LastRow(t), p)
               PROVE  \/ todo'[i].row.task = t
                      \/ \E j \in DOMAIN todo' : j < i /\ todo'[j].key = t
    BY <1>4 DEF RobotRowsSafe, Names, IsActive
  <2>1. \/ todo[i + 1].row.task = t
        \/ \E j \in DOMAIN todo : j < i + 1 /\ todo[j].key = t
    BY <1>1, <1>6 DEF RobotRowsSafe
  <2>2. ASSUME NEW j \in DOMAIN todo, j < i + 1, todo[j].key = t
        PROVE  \E k \in DOMAIN todo' : k < i /\ todo'[k].key = t
    <3>1. j # 1
      BY <1>2, <1>7, <2>2
    <3>2. j - 1 \in DOMAIN todo' /\ todo'[j - 1].key = t /\ j - 1 < i
      BY <1>1, <2>2, <3>1
    <3> QED BY <3>2
  <2> QED BY <1>1, <2>1, <2>2
<1>14. TaskRowsSafe(todo)'
  <2> SUFFICES ASSUME NEW i \in DOMAIN todo', NEW t \in Tasks, todo'[i].key = t
      PROVE
        /\ \A p \in FleetOnly :
             Names(todo'[i].row, p) =>
               /\ rows'[p].task = t \/ \E j \in DOMAIN todo' : j < i /\ todo'[j].key = p
               /\ \A j \in DOMAIN todo' : todo'[j].key = p => todo'[j].row.task = t
        /\ todo'[i].row.status = "assigned" =>
             ~IsActive(LastRow(t)) /\ Len(table[t]) < MaxRows
        /\ todo'[i].row.status # "assigned" =>
             IsActive(LastRow(t)) /\ todo'[i].row.robot = LastRow(t).robot
    BY <1>3, <1>4 DEF TaskRowsSafe, Names, IsActive
  <2>1. i \in Nat /\ i + 1 \in DOMAIN todo /\ todo'[i] = todo[i + 1] /\ todo[i + 1].key = t
    BY <1>1
  <2>2. ASSUME NEW p \in FleetOnly, Names(todo'[i].row, p)
        PROVE  /\ rows'[p].task = t \/ \E j \in DOMAIN todo' : j < i /\ todo'[j].key = p
               /\ \A j \in DOMAIN todo' : todo'[j].key = p => todo'[j].row.task = t
    <3>1. /\ rows[p].task = t \/ \E j \in DOMAIN todo : j < i + 1 /\ todo[j].key = p
          /\ \A j \in DOMAIN todo : todo[j].key = p => todo[j].row.task = t
      BY <1>6, <2>1, <2>2 DEF TaskRowsSafe
    <3>2. CASE p = r
      <4>1. rows'[p].task = t
        BY <1>1, <1>3, <1>7, <3>1, <3>2
      <4>2. \A j \in DOMAIN todo' : todo'[j].key = p => todo'[j].row.task = t
        BY <1>1, <3>1
      <4> QED BY <4>1, <4>2
    <3>3. CASE p # r
      <4>1. ASSUME NEW j \in DOMAIN todo, j < i + 1, todo[j].key = p
            PROVE  \E k \in DOMAIN todo' : k < i /\ todo'[k].key = p
        <5>1. j # 1
          BY <1>7, <3>3, <4>1
        <5>2. j - 1 \in DOMAIN todo' /\ todo'[j - 1].key = p /\ j - 1 < i
          BY <1>1, <2>1, <4>1, <5>1
        <5> QED BY <5>2
      <4> QED BY <1>1, <1>2, <1>3, <3>1, <3>3, <4>1
    <3> QED BY <3>2, <3>3
  <2> QED BY <1>6, <2>1, <2>2 DEF TaskRowsSafe
<1>15. Agrees(todo, robots)'
  BY <1>1, <1>3, <1>4, <1>6, <1>9 DEF Agrees, IsPending, Names, IsActive
<1>16. RowsSound(todo)'
  BY <1>1, <1>6 DEF RowsSound, SoundRecord
<1>17. ActiveRowIsHeld'
  <2> SUFFICES ASSUME NEW t \in Tasks, NEW i \in DOMAIN table[t], IsActive(table[t][i])
               PROVE  /\ i = Len(table[t])
                      /\ table[t][i].robot \in FleetOnly => rows'[table[t][i].robot].task = t
    BY <1>3, <1>4 DEF ActiveRowIsHeld, IsActive
  <2>1. /\ i = Len(table[t])
        /\ table[t][i].robot \in FleetOnly => rows[table[t][i].robot].task = t
    BY <1>6 DEF ActiveRowIsHeld
  <2>2. CASE table[t][i].robot # r
    BY <1>2, <1>3, <2>1, <2>2
  <2>3. CASE table[t][i].robot = r /\ r \in FleetOnly
    <3>1. table[t] # <<>> /\ Names(LastRow(t), r)
      BY <2>1, <2>3 DEF Names, LastRow
    <3>2. row.task = t
      BY <1>1, <1>6, <1>7, <2>3, <3>1 DEF RobotRowsSafe
    <3> QED BY <1>3, <2>1, <2>3, <3>2
  <2> QED BY <2>1, <2>2, <2>3
<1>18. StoreTypeOK' /\ MemoryInv'
  BY <1>1, <1>3
     DEF StoreInv, MemoryInv, StoreTypeOK, TypeOK, RegistryTypeOK, vars, Sound, Ties,
         BoundRobotHoldsTask, Active
<1>19. Sound(rows)' /\ CopiesSound'
  BY <1>2, <1>3 DEF StoreInv, Sound, SoundRecord, CopiesSound
<1> QED
  BY <1>1, <1>10, <1>11, <1>12, <1>13, <1>14, <1>15, <1>16, <1>17, <1>18, <1>19
     DEF StoreInv, Covers

(* The first row in hand, a task's, is committed.                          *)
LEMMA CommitTask ==
  ASSUME StoreInv, todo # <<>>, todo' = Tail(todo), UNCHANGED <<vars, copy, rows>>,
         Head(todo).key \in Tasks,
         table' = [table EXCEPT ![Head(todo).key] = Stored(Head(todo).key, Head(todo).row)]
  PROVE  StoreInv'
<1>0. PICK t, row : todo[1].key = t /\ todo[1].row = row
  OBVIOUS
<1>1. /\ todo \in Seq(Pending) /\ todo' \in Seq(Pending)
      /\ 1 \in DOMAIN todo /\ Head(todo) = todo[1] /\ DOMAIN todo \subseteq Nat \ {0}
      /\ \A i \in DOMAIN todo' : /\ i \in Nat \ {0} /\ i + 1 \in DOMAIN todo
                                 /\ todo'[i] = todo[i + 1]
      /\ \A i \in DOMAIN todo \ {1} : /\ i - 1 \in DOMAIN todo'
                                      /\ todo'[i - 1] = todo[i]
  BY Taken DEF StoreInv, Covers
<1>2. t \in Tasks \ Robots /\ row \in Assignment /\ FleetOnly \subseteq Robots
  BY <1>1, <1>0, PendingRow DEF FleetOnly
<1>3. /\ RobotsCovered(todo, robots) /\ TasksCovered(todo, assignments) /\ OneTask(todo)
      /\ RobotRowsSafe(todo) /\ TaskRowsSafe(todo) /\ Agrees(todo, robots)
      /\ RowsSound(todo) /\ ActiveRowIsHeld /\ StoreTypeOK
  BY DEF StoreInv, Covers
<1>4. /\ row.status = "assigned" => ~IsActive(LastRow(t)) /\ Len(table[t]) < MaxRows
      /\ row.status # "assigned" => table[t] # <<>>
      /\ \A r \in FleetOnly :
           Names(row, r) =>
             /\ rows[r].task = t /\ robots[r].task = t
             /\ \A j \in DOMAIN todo : todo[j].key = r => todo[j].row.task = t
  <2>1. ~\E j \in DOMAIN todo : j < 1
    BY <1>1
  <2>2. /\ row.status = "assigned" => ~IsActive(LastRow(t)) /\ Len(table[t]) < MaxRows
        /\ row.status # "assigned" => table[t] # <<>>
    <3>1. row.status # "assigned" => IsActive(LastRow(t))
      BY <1>1, <1>2, <1>3, <1>0 DEF TaskRowsSafe
    <3>2. row.status = "assigned" => ~IsActive(LastRow(t)) /\ Len(table[t]) < MaxRows
      BY <1>1, <1>2, <1>3, <1>0 DEF TaskRowsSafe
    <3> QED BY <1>2, <3>1, <3>2, ActiveIsRow
  <2>3. ASSUME NEW r \in FleetOnly, Names(row, r)
        PROVE  /\ rows[r].task = t
               /\ \A j \in DOMAIN todo : todo[j].key = r => todo[j].row.task = t
    BY <1>1, <1>2, <1>3, <1>0, <2>1, <2>3 DEF TaskRowsSafe
  <2>4. ASSUME NEW r \in FleetOnly, Names(row, r)
        PROVE  robots[r].task = t
    BY <1>1, <1>2, <1>3, <1>0, <2>4 DEF Agrees
  <2> QED BY <2>2, <2>3, <2>4
<1>5. /\ table'[t] = Stored(t, row)
      /\ \A u \in Tasks \ {t} : table'[u] = table[u]
      /\ UNCHANGED <<robots, assignments, hauls, copy, rows>>
  BY <1>1, <1>2, <1>3, <1>0 DEF StoreTypeOK, vars
<1>6. /\ table'[t] \in Seq(Assignment) /\ Len(table'[t]) \in Nat \ {0}
      /\ Len(table'[t]) <= MaxRows /\ table'[t][Len(table'[t])] = row
      /\ \A i \in DOMAIN table'[t] : IsActive(table'[t][i]) => i = Len(table'[t])
  <2>1. row.status = "assigned" => ~IsActive(LastRow(t)) /\ Len(table[t]) < MaxRows
    BY <1>4
  <2>2. row.status # "assigned" => table[t] # <<>>
    BY <1>4
  <2>3. StoreTypeOK /\ ActiveRowIsHeld
    BY <1>3
  <2> QED BY <1>2, <1>5, <2>1, <2>2, <2>3, RowStored
<1>7. table' \in [Tasks -> Seq(Assignment)]
  BY <1>1, <1>3, <1>5, <1>6 DEF StoreTypeOK
<1>8. /\ FleetOnly' = FleetOnly /\ LastRow(t)' = row
      /\ \A u \in Tasks \ {t} : LastRow(u)' = LastRow(u)
  <2>1. table'[t] # <<>>
    BY <1>6
  <2> QED BY <1>5, <1>6, <2>1 DEF FleetOnly, LastRow
<1>10. \A u \in Tasks : ~IsPending(todo', u)
  <2> SUFFICES ASSUME NEW u \in Tasks, NEW i \in DOMAIN todo', todo'[i].key = u PROVE FALSE
    BY DEF IsPending
  <2>1. i + 1 = 1
    BY <1>1, <1>2, <1>3, <1>0 DEF OneTask
  <2> QED BY <1>1, <2>1
<1>11. \A u \in Tasks \ {t} : ~IsPending(todo, u)
  BY <1>1, <1>2, <1>3, <1>0 DEF OneTask, IsPending
<1>12. RobotsCovered(todo, robots)'
  <2> SUFFICES ASSUME NEW p \in FleetOnly
      PROVE  \/ ~IsPending(todo', p) /\ rows[p] = robots[p]
             \/ \E i \in DOMAIN todo' :
                  /\ todo'[i].key = p /\ todo'[i].row = robots[p]
                  /\ \A j \in DOMAIN todo' : todo'[j].key = p => j <= i
    BY <1>5, <1>8 DEF RobotsCovered, IsPending
  <2>1. CASE ~IsPending(todo, p) /\ rows[p] = robots[p]
    BY <1>1, <2>1 DEF IsPending
  <2>2. ASSUME NEW i \in DOMAIN todo, todo[i].key = p, todo[i].row = robots[p],
               \A j \in DOMAIN todo : todo[j].key = p => j <= i
        PROVE  \E k \in DOMAIN todo' :
                 /\ todo'[k].key = p /\ todo'[k].row = robots[p]
                 /\ \A j \in DOMAIN todo' : todo'[j].key = p => j <= k
    <3>1. i # 1
      BY <1>2, <1>0, <2>2
    <3>2. i - 1 \in DOMAIN todo' /\ todo'[i - 1] = todo[i] /\ i \in Nat
      BY <1>1, <3>1
    <3>3. \A j \in DOMAIN todo' : todo'[j].key = p => j <= i - 1
      BY <1>1, <2>2, <3>2
    <3> QED BY <2>2, <3>2, <3>3
  <2> QED BY <1>3, <2>1, <2>2 DEF RobotsCovered
<1>13. TasksCovered(todo, assignments)'
  <2> SUFFICES ASSUME NEW u \in Tasks PROVE LastRow(u)' = assignments[u]
    BY <1>5, <1>10 DEF TasksCovered, IsPending
  <2>1. CASE u # t
    BY <1>3, <1>8, <1>11, <2>1 DEF TasksCovered, IsPending
  <2>2. CASE u = t
    <3>1. PICK i \in DOMAIN todo : todo[i].key = t /\ todo[i].row = assignments[t]
      BY <1>1, <1>2, <1>3, <1>0 DEF TasksCovered, IsPending
    <3>2. i = 1
      BY <1>1, <1>2, <1>3, <1>0, <3>1 DEF OneTask
    <3> QED BY <1>8, <1>0, <2>2, <3>1, <3>2
  <2> QED BY <2>1, <2>2
<1>14. OneTask(todo)' /\ TaskRowsSafe(todo)'
  BY <1>10 DEF OneTask, TaskRowsSafe, IsPending
<1>15. RobotRowsSafe(todo)'
  <2> SUFFICES ASSUME NEW i \in DOMAIN todo', NEW p \in FleetOnly, NEW u \in Tasks,
                      todo'[i].key = p, Names(LastRow(u)', p)
               PROVE  todo'[i].row.task = u
    BY <1>8 DEF RobotRowsSafe, Names, IsActive
  <2>1. CASE u = t
    BY <1>1, <1>4, <1>8, <2>1
  <2>2. CASE u # t
    <3>1. Names(LastRow(u), p)
      BY <1>8, <2>2
    <3>2. \/ todo[i + 1].row.task = u
          \/ \E j \in DOMAIN todo : j < i + 1 /\ todo[j].key = u
      BY <1>1, <1>3, <3>1 DEF RobotRowsSafe
    <3> QED BY <1>1, <1>11, <2>2, <3>2 DEF IsPending
  <2> QED BY <2>1, <2>2
<1>16. Agrees(todo, robots)'
  <2> SUFFICES ASSUME NEW p \in FleetOnly, NEW u \in Tasks, Names(LastRow(u)', p)
               PROVE  robots[p].task = u
    BY <1>5, <1>8, <1>10 DEF Agrees, IsPending, Names, IsActive
  <2>1. CASE u = t
    BY <1>4, <1>8, <2>1
  <2>2. CASE u # t
    BY <1>3, <1>8, <1>11, <2>2 DEF Agrees
  <2> QED BY <2>1, <2>2
<1>17. RowsSound(todo)'
  BY <1>1, <1>3 DEF RowsSound, SoundRecord
<1>18. ActiveRowIsHeld'
  <2> SUFFICES ASSUME NEW u \in Tasks, NEW i \in DOMAIN table'[u], IsActive(table'[u][i])
               PROVE  /\ i = Len(table'[u])
                      /\ table'[u][i].robot \in FleetOnly =>
                           rows[table'[u][i].robot].task = u
    <3>1. rows' = rows /\ FleetOnly' = FleetOnly
      BY <1>5, <1>8
    <3> QED BY <3>1 DEF ActiveRowIsHeld, IsActive
  <2>1. CASE u = t
    <3>1. i = Len(table'[t]) /\ table'[t][i] = row
      BY <1>6, <2>1
    <3>2. row.robot \in FleetOnly => Names(row, row.robot)
      BY <2>1, <3>1 DEF Names
    <3> QED BY <1>4, <2>1, <3>1, <3>2
  <2>2. CASE u # t
    BY <1>3, <1>5, <2>2 DEF ActiveRowIsHeld
  <2> QED BY <2>1, <2>2
<1>19. StoreTypeOK' /\ MemoryInv'
  BY <1>1, <1>3, <1>5, <1>6, <1>7
     DEF StoreInv, MemoryInv, StoreTypeOK, TypeOK, RegistryTypeOK, vars, Sound, Ties,
         BoundRobotHoldsTask, Active
<1>20. Sound(rows)' /\ CopiesSound'
  BY <1>5 DEF StoreInv, Sound, SoundRecord, CopiesSound
<1> QED
  BY <1>1, <1>12, <1>13, <1>14, <1>15, <1>16, <1>17, <1>18, <1>19, <1>20
     DEF StoreInv, Covers

(* A commit, of either table, keeps the invariant.                         *)
LEMMA CommitStep ==
  ASSUME StoreInv, Commit
  PROVE  StoreInv'
BY CommitRobot, CommitTask DEF Commit

(* With nothing in hand, what an active row names is held.                 *)
LEMMA RowsHeld ==
  ASSUME StoreTypeOK, ActiveRowIsHeld
  PROVE  \A r \in FleetOnly : \A t \in Tasks :
           Names(LastRow(t), r) => rows[r].task = t
<1> SUFFICES ASSUME NEW r \in FleetOnly, NEW t \in Tasks, Names(LastRow(t), r)
             PROVE  rows[r].task = t
  OBVIOUS
<1>1. table[t] # <<>>
  BY ActiveIsRow DEF Names
<1>2. Len(table[t]) \in DOMAIN table[t]
  BY <1>1 DEF StoreTypeOK
<1> QED BY <1>1, <1>2 DEF ActiveRowIsHeld, Names, LastRow

(* The last row of a task, if it has any, is of its type.                  *)
LEMMA LastRowType ==
  ASSUME StoreTypeOK, NEW t \in Tasks
  PROVE  LastRow(t) \in Assignment
<1>1. NoRow \in Assignment
  BY DEF NoRow, Assignment
<1>2. table[t] # <<>> => table[t][Len(table[t])] \in Assignment
  <2>1. table[t] \in Seq(Assignment)
    BY DEF StoreTypeOK
  <2> QED BY <2>1
<1> QED BY <1>1, <1>2 DEF LastRow

(* A new process finds in the tables all it needs.                         *)
LEMMA RestartStep ==
  ASSUME StoreInv, Restart
  PROVE  StoreInv'
<1>1. /\ robots' = rows /\ assignments' = [t \in Tasks |-> LastRow(t)]
      /\ hauls' = [t \in Tasks |-> NewHaul] /\ todo' = <<>>
      /\ UNCHANGED <<rows, table, copy>>
  BY DEF Restart
<1>2. Sound(rows) /\ CopiesSound /\ ActiveRowIsHeld /\ StoreTypeOK
  BY DEF StoreInv
<1>3. FleetOnly' = FleetOnly /\ \A t \in Tasks : LastRow(t)' = LastRow(t)
  BY <1>1 DEF FleetOnly, LastRow
<1>4. Covers(todo, robots, assignments)'
  <2>1. Covers(<<>>, rows, assignments')
    BY <1>1, <1>2, NothingInHand, RowsHeld
  <2> QED
    BY <1>1, <1>3, <2>1
       DEF Covers, RobotsCovered, TasksCovered, OneTask, RobotRowsSafe, TaskRowsSafe,
           Agrees, RowsSound, IsPending, Names, IsActive, SoundRecord
<1>5. TypeOK'
  <2>1. NewHaul \in Haul /\ NoVisit \in [Robots -> RobotRecord \cup {None}]
    BY DEF NewHaul, Haul, WmsStatus, Phase, NoVisit
  <2>2. fresh' \subseteq Robots
    BY AdaptedAreRobots DEF Restart, StoreInv, StoreTypeOK, TypeOK, RegistryTypeOK
  <2>3. assignments' \in [Tasks -> Assignment]
    BY <1>1, <1>2, LastRowType
  <2>4. rows \in [Robots -> RobotRecord]
    BY <1>2 DEF StoreTypeOK
  <2> QED BY <1>1, <2>1, <2>2, <2>3, <2>4 DEF Restart, TypeOK, RegistryTypeOK
<1>6. StoreTypeOK'
  <2>1. <<>> \in Seq(Pending)
    OBVIOUS
  <2> QED BY <1>1, <1>2, <1>5, <2>1 DEF StoreTypeOK
<1>7. MemoryInv'
  BY <1>1, <1>2, <1>5, NoneIsNoStatus
     DEF MemoryInv, Sound, Ties, Tied, NewHaul, BoundRobotHoldsTask, Active, Working,
         ActiveAssignmentStatus, AssignmentStatus
<1>8. Sound(rows)' /\ CopiesSound' /\ ActiveRowIsHeld'
  BY <1>1, <1>2, <1>3 DEF Sound, CopiesSound, SoundRecord, ActiveRowIsHeld, IsActive
<1> QED BY <1>4, <1>6, <1>7, <1>8 DEF StoreInv

(* An adapter loads the row of its robot, or writes back what it loaded    *)
(* once: no other robot's row is touched.                                  *)
LEMMA AdapterStep ==
  ASSUME StoreInv, NEW r \in Adapted, AdapterStart(r) \/ AdapterHeartbeat(r)
  PROVE  StoreInv'
<1>1. StoreTypeOK /\ Sound(rows) /\ CopiesSound /\ ActiveRowIsHeld
      /\ Covers(todo, robots, assignments) /\ MemoryInv /\ r \in Robots
  BY AdaptedAreRobots DEF StoreInv
<1>2. /\ UNCHANGED <<robots, assignments, hauls, todo, table, vars>>
      /\ copy' \in [Adapted -> RobotRecord \cup {None}]
      /\ rows' \in [Robots -> RobotRecord]
      /\ copy'[r] # None
      /\ \A p \in Robots \ {r} : rows'[p] = rows[p] /\ (p \in Adapted => copy'[p] = copy[p])
      /\ SoundRecord(rows'[r]) /\ SoundRecord(copy'[r])
  BY <1>1, NoneIsNoRecord
     DEF AdapterStart, AdapterHeartbeat, vars, StoreTypeOK, Sound, CopiesSound,
         SoundRecord
<1>3. FleetOnly' \subseteq FleetOnly /\ r \notin FleetOnly' /\ FleetOnly \subseteq Robots
  BY <1>2 DEF FleetOnly
<1>4. \A p \in FleetOnly' : rows'[p] = rows[p]
  BY <1>2, <1>3
<1>5. \A t \in Tasks : LastRow(t)' = LastRow(t)
  BY <1>2 DEF LastRow
<1>6. RobotsCovered(todo, robots)' /\ TasksCovered(todo, assignments)' /\ OneTask(todo)'
  BY <1>1, <1>2, <1>3, <1>4, <1>5
     DEF Covers, RobotsCovered, TasksCovered, OneTask, IsPending
<1>7. RobotRowsSafe(todo)'
  BY <1>1, <1>2, <1>3, <1>5 DEF Covers, RobotRowsSafe, Names, IsActive
<1>8. TaskRowsSafe(todo)'
  BY <1>1, <1>2, <1>3, <1>4, <1>5 DEF Covers, TaskRowsSafe, Names, IsActive
<1>9. Agrees(todo, robots)' /\ RowsSound(todo)'
  BY <1>1, <1>2, <1>3, <1>5
     DEF Covers, Agrees, RowsSound, IsPending, Names, IsActive, SoundRecord
<1>10. ActiveRowIsHeld'
  BY <1>1, <1>2, <1>3, <1>4 DEF ActiveRowIsHeld, IsActive
<1>11. StoreTypeOK' /\ MemoryInv'
  BY <1>1, <1>2
     DEF MemoryInv, StoreTypeOK, TypeOK, RegistryTypeOK, vars, Sound, Ties,
         BoundRobotHoldsTask, Active
<1>12. Sound(rows)' /\ CopiesSound'
  <2>1. \A p \in Robots : SoundRecord(rows'[p])
    BY <1>1, <1>2 DEF Sound, SoundRecord
  <2>2. \A p \in Adapted : copy'[p] # None => SoundRecord(copy'[p])
    BY <1>1, <1>2, AdaptedAreRobots DEF CopiesSound
  <2> QED BY <2>1, <2>2 DEF Sound, CopiesSound, SoundRecord
<1>13. (todo \in Seq(Pending))'
  BY <1>1, <1>2 DEF Covers
<1> QED
  BY <1>6, <1>7, <1>8, <1>9, <1>10, <1>11, <1>12, <1>13 DEF StoreInv, Covers

-----------------------------------------------------------------------------
(* The rows of a call, which finds none in hand.                           *)

(* Between two calls memory and the tables agree.                          *)
LEMMA AtRest ==
  ASSUME StoreInv, todo = <<>>
  PROVE  /\ TypeOK /\ robots \in [Robots -> RobotRecord]
         /\ assignments \in [Tasks -> Assignment]
         /\ Sound(robots) /\ Ties /\ BoundRobotHoldsTask
         /\ Covers(<<>>, robots, assignments)
         /\ \A r \in FleetOnly : rows[r] = robots[r]
         /\ \A t \in Tasks : LastRow(t) = assignments[t]
         /\ \A r \in FleetOnly : \A t \in Tasks :
              Names(assignments[t], r) => robots[r].task = t
<1>1. /\ \A r \in FleetOnly : rows[r] = robots[r]
      /\ \A t \in Tasks : LastRow(t) = assignments[t]
  BY DEF StoreInv, Covers, RobotsCovered, TasksCovered
<1>2. \A r \in FleetOnly : \A t \in Tasks :
        Names(assignments[t], r) => robots[r].task = t
  BY <1>1, RowsHeld DEF StoreInv
<1> QED BY <1>1, <1>2 DEF StoreInv, MemoryInv, TypeOK, RegistryTypeOK

(* A registry that binds its robots as before agrees as before.            *)
LEMMA TasksKeptAgree ==
  ASSUME NEW q, NEW reg, NEW new, Agrees(q, reg),
         \A r \in Robots : new[r].task = reg[r].task
  PROVE  Agrees(q, new)
BY DEF Agrees, FleetOnly

(* What a change of the registry writes for one robot, or for none.        *)
LEMMA RobotRowCovered ==
  ASSUME NEW q, NEW reg \in [Robots -> RobotRecord], NEW asg, Covers(q, reg, asg),
         NEW r \in Robots \cup {None}, NEW new \in [Robots -> RobotRecord],
         Sound(new), \A p \in Robots \ {r} : new[p] = reg[p], Agrees(q, new)
  PROVE  Covers(q \o RobotRow(reg, new, r), new, asg)
<1>1. q \in Seq(Pending) /\ q \o <<>> = q
  BY DEF Covers
<1>2. CASE r = None
  <2>1. new = reg
    BY <1>2, NoneIsNoId
  <2> QED BY <1>1, <1>2, <2>1 DEF RobotRow
<1>3. CASE r # None /\ new[r] = reg[r]
  <2>1. new = reg
    BY <1>3
  <2> QED BY <1>1, <1>3, <2>1 DEF RobotRow
<1>4. CASE r # None /\ new[r] # reg[r]
  <2>1. r \in Robots /\ new[r] \in RobotRecord /\ SoundRecord(new[r])
    BY <1>4 DEF Sound, SoundRecord
  <2>2. Covers(q \o Row(r, new[r]), new, asg)
    BY <2>1, RobotRowAdded
  <2> QED BY <1>4, <2>2 DEF RobotRow
<1> QED BY <1>2, <1>3, <1>4

(* A call on one robot that leaves its task writes that robot's row.       *)
LEMMA RobotCovered ==
  ASSUME StoreInv, todo = <<>>, NEW r \in Robots,
         NEW new \in [Robots -> RobotRecord], Sound(new),
         \A p \in Robots \ {r} : new[p] = robots[p], new[r].task = robots[r].task
  PROVE  /\ Covers(RobotRow(robots, new, r), new, assignments)
         /\ Covers(Row(r, new[r]), new, assignments)
<1>1. Agrees(<<>>, robots) /\ \A p \in Robots : new[p].task = robots[p].task
  BY AtRest DEF Covers
<1>2. Agrees(<<>>, new)
  BY <1>1, TasksKeptAgree
<1>3. Covers(<<>> \o RobotRow(robots, new, r), new, assignments)
  BY <1>2, AtRest, RobotRowCovered
<1>4. Covers(<<>> \o Row(r, new[r]), new, assignments)
  <2>1. new[r] \in RobotRecord /\ SoundRecord(new[r])
    BY DEF Sound, SoundRecord
  <2> QED BY <1>2, <2>1, AtRest, RobotRowAdded
<1>5. <<>> \o RobotRow(robots, new, r) = RobotRow(robots, new, r)
      /\ <<>> \o Row(r, new[r]) = Row(r, new[r])
  BY DEF RobotRow, Row
<1> QED BY <1>3, <1>4, <1>5

(* A record that is in use has an active row to update, with its robot.    *)
LEMMA HasRow ==
  ASSUME StoreInv, todo = <<>>, NEW t \in Tasks,
         assignments[t].status \in ActiveAssignmentStatus
  PROVE  IsActive(LastRow(t)) /\ assignments[t].robot = LastRow(t).robot
BY AtRest DEF IsActive

(* A haul ends or is given back: its assignment is closed first, then its  *)
(* robot is released.                                                      *)
LEMMA ClosesCovered ==
  ASSUME StoreInv, todo = <<>>, NEW t \in Tasks, Active(t),
         NEW s \in AssignmentStatus \ ActiveAssignmentStatus,
         assignments' = [assignments EXCEPT ![t].status = s]
  PROVE  LET back == Released(robots, hauls[t].robot)
         IN  Covers(TaskFirst(t, back), back, assignments')
<1> DEFINE back == Released(robots, hauls[t].robot)
           row == [assignments[t] EXCEPT !.status = s]
           r == hauls[t].robot
<1>1. /\ r \in Robots /\ robots[r].task = t
      /\ assignments[t].status \in ActiveAssignmentStatus
  BY AtRest, HaulRobot DEF Ties, Tied, Active, BoundRobotHoldsTask, ActiveAssignmentStatus
<1>2. row \in Assignment /\ row.status = s /\ row.robot = assignments[t].robot
  BY AtRest DEF Assignment
<1>3. assignments' = [assignments EXCEPT ![t] = row] /\ assignments'[t] = row
      /\ row # assignments[t]
  BY <1>1, <1>2, AtRest
<1>4. back \in [Robots -> RobotRecord] /\ Sound(back)
      /\ \A p \in Robots \ {r} : back[p] = robots[p]
  BY <1>1, AtRest, ReleasedType, ReleasedSound DEF Released, Moved
<1> HIDE DEF back, row
<1>5. ~IsActive(row) /\ s # "assigned"
  BY <1>2 DEF IsActive, ActiveAssignmentStatus
<1>6. Covers(<<>> \o Row(t, row), robots, [assignments EXCEPT ![t] = row])
  <2>1. \A u \in Tasks : ~IsPending(<<>>, u)
    BY DEF IsPending
  <2>2. IsActive(LastRow(t)) /\ row.robot = LastRow(t).robot
    BY <1>1, <1>2, HasRow
  <2> QED BY <1>2, <1>5, <2>1, <2>2, AtRest, TaskRowAdded DEF Names
<1>7. <<>> \o Row(t, row) = Row(t, row) /\ TaskRow(t) = Row(t, row)
  BY <1>3 DEF Row, TaskRow
<1>8. Agrees(Row(t, row), back)
  <2>1. IsPending(Row(t, row), t) /\ \A i \in DOMAIN Row(t, row) : Row(t, row)[i].row = row
    BY DEF IsPending, Row
  <2>2. ASSUME NEW p \in FleetOnly, NEW u \in Tasks, Names(LastRow(u), p), u # t
        PROVE  back[p].task = u
    <3>1. robots[p].task = u
      BY <2>2, AtRest
    <3> QED BY <1>1, <1>4, <2>2, <3>1 DEF FleetOnly
  <2> QED BY <1>5, <2>1, <2>2 DEF Agrees, Names
<1>9. Covers(Row(t, row) \o RobotRow(robots, back, r), back, assignments')
  BY <1>1, <1>3, <1>4, <1>6, <1>7, <1>8, AtRest, RobotRowCovered
<1> QED BY <1>7, <1>9 DEF TaskFirst, back

(* A haul starts: its record is synced, and then its robot may be BUSY.    *)
LEMMA StartsCovered ==
  ASSUME StoreInv, todo = <<>>, NEW t \in Tasks, Active(t),
         assignments' = [assignments EXCEPT ![t].status = "executing"],
         robots' \in [Robots -> RobotRecord], Sound(robots'),
         \A p \in Robots \ {hauls[t].robot} : robots'[p] = robots[p],
         \A p \in Robots : robots'[p].task = robots[p].task
  PROVE  Covers(TaskFirst(t, robots'), robots', assignments')
<1> DEFINE row == [assignments[t] EXCEPT !.status = "executing"]
           r == hauls[t].robot
<1>1. /\ r \in Robots /\ robots[r].task = t /\ assignments[t].robot = r
      /\ assignments[t].status \in ActiveAssignmentStatus
  BY AtRest, HaulRobot DEF Ties, Tied, Active, BoundRobotHoldsTask, ActiveAssignmentStatus
<1>2. row \in Assignment /\ row.status = "executing" /\ row.robot = r
  BY <1>1, AtRest DEF Assignment, AssignmentStatus
<1>3. assignments' = [assignments EXCEPT ![t] = row] /\ assignments'[t] = row
  BY AtRest
<1> HIDE DEF row
<1>4. Covers(TaskRow(t), robots, assignments')
  <2>1. CASE row = assignments[t]
    <3>1. assignments' = assignments /\ TaskRow(t) = <<>>
      BY <1>3, <2>1, AtRest DEF TaskRow
    <3> QED BY <3>1, AtRest
  <2>2. CASE row # assignments[t]
    <3>1. \A u \in Tasks : ~IsPending(<<>>, u)
      BY DEF IsPending
    <3>2. IsActive(LastRow(t)) /\ row.robot = LastRow(t).robot
      BY <1>1, <1>2, HasRow
    <3>3. \A p \in FleetOnly :
            Names(row, p) =>
              /\ robots[p].task = t
              /\ rows[p].task = t \/ IsPending(<<>>, p)
              /\ \A j \in DOMAIN <<>> : <<>>[j].key = p => <<>>[j].row.task = t
      BY <1>1, <1>2, AtRest DEF Names
    <3>4. Covers(<<>> \o Row(t, row), robots, [assignments EXCEPT ![t] = row])
      <4>1. Covers(<<>>, robots, assignments) /\ assignments \in [Tasks -> Assignment]
        BY AtRest
      <4>2. row.status # "assigned"
        BY <1>2
      <4> QED BY <1>2, <3>1, <3>2, <3>3, <4>1, <4>2, TaskRowAdded
    <3>5. <<>> \o Row(t, row) = Row(t, row) /\ TaskRow(t) = Row(t, row)
      BY <1>3, <2>2 DEF Row, TaskRow
    <3> QED BY <1>3, <3>4, <3>5
  <2> QED BY <2>1, <2>2
<1>5. Agrees(TaskRow(t), robots')
  BY <1>4, TasksKeptAgree DEF Covers
<1>6. Covers(TaskRow(t) \o RobotRow(robots, robots', r), robots', assignments')
  BY <1>1, <1>4, <1>5, AtRest, RobotRowCovered
<1> QED BY <1>6 DEF TaskFirst

(* A haul is booked: its robot gets the task before the assignment's row   *)
(* names that robot, and before it did no active row did.                  *)
LEMMA BooksCovered ==
  ASSUME StoreInv, todo = <<>>, NEW t \in Tasks, NEW r \in Robots, AssignAccepted(t, r),
         hauls'[t].robot = r, Len(table[t]) < MaxRows
  PROVE  Covers(RobotFirst(t), robots', assignments')
<1> DEFINE row == [robot |-> r, status |-> "assigned"]
           record == [state |-> "ASSIGNED", task |-> t]
<1>1. /\ robots' = [robots EXCEPT ![r] = record] /\ robots[r].task = None
      /\ assignments' = [assignments EXCEPT ![t] = row]
      /\ assignments[t].status \notin ActiveAssignmentStatus
  BY AtRest
     DEF AssignAccepted, Dispatchable, AssignTask, Transition, Moved, Sound
<1>2. /\ row \in Assignment /\ row.status = "assigned" /\ row.robot = r
      /\ record \in RobotRecord /\ SoundRecord(record) /\ record.task = t
  BY NoneIsNoId
     DEF Assignment, AssignmentStatus, RobotRecord, RobotState, SoundRecord,
         DispatchableStates
<1> HIDE DEF row, record
<1>3. /\ robots'[r] = record /\ assignments'[t] = row
      /\ \A p \in Robots \ {r} : robots'[p] = robots[p]
  BY <1>1, AtRest
<1>4. row # assignments[t] /\ record # robots[r]
  BY <1>1, <1>2, NoneIsNoId DEF ActiveAssignmentStatus
<1>5. RobotFirst(t) = <<>> \o Row(r, record) \o Row(t, row)
  BY <1>3, <1>4, NoneIsNoId DEF RobotFirst, RobotRow, TaskRow, Row
<1>6. Agrees(<<>>, robots')
  <2> SUFFICES ASSUME NEW p \in FleetOnly, NEW u \in Tasks, Names(assignments[u], p)
               PROVE  robots'[p].task = u
    BY AtRest DEF Agrees
  <2>1. robots[p].task = u
    BY AtRest
  <2> QED BY <1>1, <1>3, <2>1, NoneIsNoId DEF FleetOnly
<1>7. Covers(<<>> \o Row(r, robots'[r]), robots', assignments)
  <2>1. Covers(<<>>, robots, assignments)
    BY AtRest
  <2>2. robots'[r] \in RobotRecord /\ SoundRecord(robots'[r])
    BY <1>2, <1>3
  <2> HIDE DEF Covers
  <2> QED BY <1>3, <1>6, <2>1, <2>2, RobotRowAdded
<1>8. /\ DOMAIN (<<>> \o Row(r, record)) = {1}
      /\ (<<>> \o Row(r, record))[1] = [key |-> r, row |-> record]
  BY DEF Row
<1>9. \A u \in Tasks : ~IsPending(<<>> \o Row(r, record), u)
  BY <1>8, RobotsAreNoTasks DEF IsPending
<1>10. \A p \in FleetOnly :
         Names(row, p) =>
           /\ robots'[p].task = t
           /\ rows[p].task = t \/ IsPending(<<>> \o Row(r, record), p)
           /\ \A j \in DOMAIN (<<>> \o Row(r, record)) :
                (<<>> \o Row(r, record))[j].key = p =>
                  (<<>> \o Row(r, record))[j].row.task = t
  BY <1>2, <1>3, <1>8 DEF Names, IsPending
<1>11. ~IsActive(LastRow(t))
  BY <1>1, AtRest DEF IsActive
<1>12. Covers(<<>> \o Row(r, record) \o Row(t, row), robots',
              [assignments EXCEPT ![t] = row])
  <2>1. Covers(<<>> \o Row(r, record), robots', assignments)
    BY <1>3, <1>7
  <2>2. assignments \in [Tasks -> Assignment]
    BY AtRest
  <2> QED BY <1>2, <1>9, <1>10, <1>11, <2>1, <2>2, TaskRowAdded
<1> QED BY <1>1, <1>5, <1>12

(* A call that changes neither registry nor record writes nothing.         *)
LEMMA NothingCovered ==
  ASSUME StoreInv, todo = <<>>, NEW t \in Tasks, UNCHANGED <<robots, assignments>>
  PROVE  /\ TaskFirst(t, robots') = <<>> /\ RobotFirst(t) = <<>>
         /\ Covers(<<>>, robots', assignments')
BY AtRest DEF TaskFirst, RobotFirst, TaskRow, RobotRow

(* A sweep that requeues a haul also marks a robot OFFLINE.                *)
LEMMA SweepRequeueCovered ==
  ASSUME StoreInv, todo = <<>>, NEW r \in Robots, SweepRequeue(r)
  PROVE  Covers(SweepRows(r), robots', assignments')
<1> DEFINE t == visit[r].task
           back == Released(robots, hauls[t].robot)
<1>1. t \in Tasks /\ Active(t) /\ hauls[t].asg \in ActiveAssignmentStatus
      /\ assignments[t].status # None
  BY AtRest, TrackedAreTasks, NoneIsNoStatus
     DEF SweepRequeue, Revocable, RequeueAccepted, WmsMay, AllowedWmsTransitions, Active,
         Ties, Tied, ActiveAssignmentStatus, AssignmentStatus
<1>2. assignments' = [assignments EXCEPT ![t].status = "released"]
  BY <1>1 DEF SweepRequeue, RequeueAccepted, SyncedIfBound, Synced, IsBound
<1>3. robots' = Offlined(back, r)
  BY DEF SweepRequeue
<1>4. back \in [Robots -> RobotRecord] /\ Sound(back)
  BY <1>1, AtRest, HaulRobot, ReleasedType, ReleasedSound
<1> HIDE DEF t, back
<1>5. Covers(TaskFirst(t, back), back, assignments')
  BY <1>1, <1>2, ClosesCovered DEF back, AssignmentStatus, ActiveAssignmentStatus
<1>6. /\ robots' \in [Robots -> RobotRecord] /\ Sound(robots')
      /\ \A p \in Robots \ {r} : robots'[p] = back[p]
      /\ \A p \in Robots : robots'[p].task = back[p].task
  BY <1>3, <1>4, OfflinedType, OfflinedSound DEF Offlined, Moved
<1>7. Agrees(TaskFirst(t, back), robots')
  BY <1>5, <1>6, TasksKeptAgree DEF Covers
<1>8. Covers(TaskFirst(t, back) \o RobotRow(back, robots', r), robots', assignments')
  BY <1>4, <1>5, <1>6, <1>7, RobotRowCovered
<1> QED BY <1>8 DEF SweepRows, t, back

-----------------------------------------------------------------------------
(* What the calls do, for any haul of which Ties is all that is known.     *)

(* A haul in hand has a record in use; one that is not has none.           *)
LEMMA TiedHaul ==
  ASSUME TypeOK, Ties, NEW t \in Tasks
  PROVE  /\ hauls[t] \in Haul /\ assignments[t] \in Assignment
         /\ Active(t) => /\ hauls[t].robot \in Robots
                         /\ hauls[t].asg \in ActiveAssignmentStatus
                         /\ hauls[t].asg = assignments[t].status
                         /\ assignments[t].status # None
         /\ ~Active(t) => hauls[t].asg \notin ActiveAssignmentStatus
         /\ hauls[t].phase \in Working => Active(t)
BY NoneIsNoStatus
   DEF TypeOK, Ties, Tied, Haul, Active, AssignmentStatus, ActiveAssignmentStatus

(* fail, navigation that fails, a delivery, a requeue and a cancel: a haul *)
(* that holds a robot closes its assignment and releases that robot.       *)
Closes(t) ==
  \E s \in AssignmentStatus \ ActiveAssignmentStatus :
    /\ assignments' = [assignments EXCEPT ![t].status = s]
    /\ hauls'[t].asg = s

(* fail closes an active haul.                                             *)
LEMMA FailCloses ==
  ASSUME TypeOK, Ties, NEW t \in Tasks, Active(t), FailEffect(t)
  PROVE  /\ Closes(t) /\ robots' = Released(robots, hauls[t].robot)
         /\ hauls'[t].wms = "FAILED" /\ hauls'[t].phase \notin Working
         /\ \A u \in Tasks \ {t} : hauls'[u] = hauls[u]
<1>1. hauls[t].wms \notin TerminalWmsStatus /\ WmsMay(t, "FAILED")
  BY DEF Active, TerminalWmsStatus, WmsMay, AllowedWmsTransitions
<1>2. hauls[t] \in Haul /\ IsBound(t) /\ assignments[t].status # None
  BY TiedHaul DEF IsBound
<1>3. /\ assignments' = [assignments EXCEPT ![t].status = "failed"]
      /\ robots' = Released(robots, hauls[t].robot)
      /\ hauls' = [hauls EXCEPT ![t] = [hauls[t] EXCEPT
           !.phase = FailedPhase(t), !.wms = "FAILED", !.asg = "failed"]]
  BY <1>1, <1>2 DEF FailEffect, ReplaceSnapshot, SyncedIfBound, Synced, AsgIfBound
<1>4. FailedPhase(t) \notin Working
  BY DEF FailedPhase, TerminalExecutionPhase, Working
<1>5. /\ hauls'[t].wms = "FAILED" /\ hauls'[t].phase = FailedPhase(t)
      /\ hauls'[t].asg = "failed" /\ \A u \in Tasks \ {t} : hauls'[u] = hauls[u]
  BY <1>2, <1>3 DEF TypeOK, Haul
<1> QED BY <1>3, <1>4, <1>5 DEF Closes, AssignmentStatus, ActiveAssignmentStatus

(* A requeue that is accepted closes an active haul too.                   *)
LEMMA RequeueCloses ==
  ASSUME TypeOK, Ties, NEW t \in Tasks, RequeueAccepted(t)
  PROVE  /\ Active(t) /\ Closes(t)
         /\ hauls'[t].wms = "REQUEUED" /\ hauls'[t].phase \notin Working
         /\ hauls'[t].robot = None
         /\ \A u \in Tasks \ {t} : hauls'[u] = hauls[u]
<1>1. Active(t)
  BY DEF RequeueAccepted, Active, WmsMay, AllowedWmsTransitions
<1>2. hauls[t] \in Haul /\ IsBound(t) /\ assignments[t].status # None
  BY <1>1, TiedHaul DEF IsBound
<1>3. /\ assignments' = [assignments EXCEPT ![t].status = "released"]
      /\ hauls' = [hauls EXCEPT ![t] = [hauls[t] EXCEPT
           !.phase = "REQUEUED", !.wms = "REQUEUED", !.asg = "released", !.robot = None]]
  BY <1>2 DEF RequeueAccepted, ReplaceSnapshot, SyncedIfBound, Synced, AsgIfBound
<1>4. /\ hauls'[t].wms = "REQUEUED" /\ hauls'[t].phase = "REQUEUED"
      /\ hauls'[t].asg = "released" /\ hauls'[t].robot = None
      /\ \A u \in Tasks \ {t} : hauls'[u] = hauls[u]
  BY <1>2, <1>3 DEF TypeOK, Haul
<1> QED BY <1>1, <1>3, <1>4 DEF Closes, AssignmentStatus, ActiveAssignmentStatus, Working

(* A requeue refused half-way leaves a haul that holds no robot.           *)
LEMMA RequeueRefused ==
  ASSUME TypeOK, Ties, NEW t \in Tasks, RequeueRejected(t)
  PROVE  /\ ~Active(t) /\ UNCHANGED assignments
         /\ hauls'[t].phase \notin Working
         /\ hauls'[t].wms = hauls[t].wms /\ hauls'[t].asg = hauls[t].asg
         /\ hauls'[t].robot = hauls[t].robot
         /\ \A u \in Tasks \ {t} : hauls'[u] = hauls[u]
<1>1. ~Active(t)
  BY DEF RequeueRejected, Active, WmsMay, AllowedWmsTransitions
<1> QED BY <1>1, TiedHaul DEF RequeueRejected, ReplaceSnapshot, TypeOK, Haul, Working

(* A delivery closes the haul it delivers.                                 *)
LEMMA DropoffCloses ==
  ASSUME TypeOK, Ties, NEW t \in Tasks, CompleteDropoff(t)
  PROVE  /\ Active(t) /\ Closes(t) /\ robots' = Released(robots, hauls[t].robot)
         /\ hauls'[t].wms = "SUCCEEDED" /\ hauls'[t].phase \notin Working
         /\ \A u \in Tasks \ {t} : hauls'[u] = hauls[u]
<1>1. Active(t)
  BY TiedHaul DEF CompleteDropoff, Working
<1>2. hauls[t] \in Haul /\ assignments[t].status # None
  BY <1>1, TiedHaul
<1>3. /\ assignments' = [assignments EXCEPT ![t].status = "completed"]
      /\ robots' = Released(robots, hauls[t].robot)
      /\ hauls' = [hauls EXCEPT ![t] = [hauls[t] EXCEPT
           !.phase = "SUCCEEDED", !.wms = "SUCCEEDED", !.asg = "completed"]]
  BY <1>2 DEF CompleteDropoff, ReplaceSnapshot, Synced
<1>4. /\ hauls'[t].wms = "SUCCEEDED" /\ hauls'[t].phase = "SUCCEEDED"
      /\ hauls'[t].asg = "completed" /\ \A u \in Tasks \ {t} : hauls'[u] = hauls[u]
  BY <1>2, <1>3 DEF TypeOK, Haul
<1> QED BY <1>1, <1>3, <1>4 DEF Closes, AssignmentStatus, ActiveAssignmentStatus, Working

(* A cancel closes a haul that holds a robot and touches nothing else of   *)
(* one that waits for it.                                                  *)
LEMMA CancelCloses ==
  ASSUME TypeOK, Ties, NEW t \in Tasks, Cancel(t)
  PROVE  /\ hauls'[t].wms = "CANCELED" /\ hauls'[t].phase \notin Working
         /\ \A u \in Tasks \ {t} : hauls'[u] = hauls[u]
         /\ \/ Active(t) /\ Closes(t) /\ robots' = Released(robots, hauls[t].robot)
            \/ /\ UNCHANGED <<robots, assignments>>
               /\ hauls'[t].asg \notin ActiveAssignmentStatus
<1>1. hauls[t] \in Haul
  BY TiedHaul
<1>2. /\ hauls'[t].wms = "CANCELED" /\ hauls'[t].phase = "CANCELED"
      /\ hauls'[t].asg = AsgIfBound(t, "canceled")
      /\ \A u \in Tasks \ {t} : hauls'[u] = hauls[u]
  BY <1>1 DEF Cancel, ReplaceSnapshot, TypeOK, Haul
<1>3. CASE Active(t)
  <2>1. IsBound(t) /\ assignments[t].status # None
    BY <1>3, TiedHaul DEF IsBound
  <2> QED
    BY <1>2, <1>3, <2>1
       DEF Cancel, SyncedIfBound, Synced, AsgIfBound, Closes, AssignmentStatus,
           ActiveAssignmentStatus, Working
<1>4. CASE ~Active(t)
  <2>1. ~IsBound(t)
    BY <1>4, TiedHaul DEF IsBound
  <2>2. hauls[t].robot = None
    BY <1>4 DEF Cancel, WmsMay, AllowedWmsTransitions, Active, Ties, Tied
  <2> QED
    BY <1>2, <2>1, <2>2
       DEF Cancel, SyncedIfBound, AsgIfBound, IsBound, Released, Working
<1> QED BY <1>3, <1>4

(* A start takes an assigned haul to IN_PROGRESS.                          *)
LEMMA StartTies ==
  ASSUME TypeOK, Ties, NEW t \in Tasks, Start(t)
  PROVE  /\ Active(t)
         /\ assignments' = [assignments EXCEPT ![t].status = "executing"]
         /\ \A p \in Robots \ {hauls[t].robot} : robots'[p] = robots[p]
         /\ \A p \in Robots : robots'[p].task = robots[p].task
         /\ hauls'[t].wms = "IN_PROGRESS" /\ hauls'[t].asg = "executing"
         /\ hauls'[t].robot = hauls[t].robot
         /\ \A u \in Tasks \ {t} : hauls'[u] = hauls[u]
<1>1. Active(t)
  BY DEF Start, Active, WmsMay, AllowedWmsTransitions
<1>2. hauls[t] \in Haul /\ assignments[t].status # None /\ hauls[t].robot \in Robots
  BY <1>1, TiedHaul
<1>3. assignments' = [assignments EXCEPT ![t].status = "executing"]
  BY <1>2 DEF Start, Synced
<1>4. /\ \A p \in Robots \ {hauls[t].robot} : robots'[p] = robots[p]
      /\ \A p \in Robots : robots'[p].task = robots[p].task
  BY <1>2, HaulRobot, MarkBusyTask DEF Start, MarkBusy, Transition, Moved
<1>5. /\ hauls'[t].wms = "IN_PROGRESS" /\ hauls'[t].asg = "executing"
      /\ hauls'[t].robot = hauls[t].robot
      /\ \A u \in Tasks \ {t} : hauls'[u] = hauls[u]
  BY <1>2 DEF Start, ReplaceSnapshot, TypeOK, Haul
<1> QED BY <1>1, <1>3, <1>4, <1>5

(* An arrival or a pickup moves the haul's phase, and perhaps its robot.   *)
LEMMA LegTies ==
  ASSUME TypeOK, Ties, NEW t \in Tasks, Arrives(t) \/ CompletePickup(t)
  PROVE  /\ hauls[t].wms = "IN_PROGRESS" /\ UNCHANGED assignments
         /\ \A p \in Robots \ {hauls[t].robot} : robots'[p] = robots[p]
         /\ \A p \in Robots : robots'[p].task = robots[p].task
         /\ hauls'[t].wms = hauls[t].wms /\ hauls'[t].asg = hauls[t].asg
         /\ hauls'[t].robot = hauls[t].robot
         /\ \A u \in Tasks \ {t} : hauls'[u] = hauls[u]
<1> USE DEF Arrives, ArriveAtPickup, ArriveAtDropoff, Arrive, CompletePickup
<1>1. hauls[t].wms = "IN_PROGRESS" /\ Active(t)
  BY DEF Working, Ties, Tied, Active
<1>2. hauls[t] \in Haul /\ hauls[t].robot \in Robots
  BY <1>1, TiedHaul
<1>3. /\ \A p \in Robots \ {hauls[t].robot} : robots'[p] = robots[p]
      /\ \A p \in Robots : robots'[p].task = robots[p].task
  BY <1>2, HaulRobot, MarkBusyTask DEF MarkBusy, Transition, Moved
<1>4. /\ hauls'[t].wms = hauls[t].wms /\ hauls'[t].asg = hauls[t].asg
      /\ hauls'[t].robot = hauls[t].robot
      /\ \A u \in Tasks \ {t} : hauls'[u] = hauls[u]
  <2>1. PICK phase, picked :
          hauls' = [hauls EXCEPT ![t] =
                      [hauls[t] EXCEPT !.phase = phase, !.picked = picked]]
    <3>1. CASE CompletePickup(t)
      BY <3>1 DEF ReplaceSnapshot
    <3>2. \A phase : [hauls[t] EXCEPT !.phase = phase] =
                       [hauls[t] EXCEPT !.phase = phase, !.picked = hauls[t].picked]
      BY <1>2 DEF Haul
    <3>3. CASE ArriveAtPickup(t)
      BY <3>2, <3>3 DEF ReplaceSnapshot
    <3>4. CASE ArriveAtDropoff(t)
      BY <3>2, <3>4 DEF ReplaceSnapshot
    <3> QED BY <3>1, <3>3, <3>4
  <2> QED BY <1>2, <2>1 DEF TypeOK, Haul
<1> QED BY <1>1, <1>3, <1>4

(* An assignment binds an unbound haul to an unbound robot, or it resets a *)
(* requeued haul and raises.                                               *)
LEMMA AssignTies ==
  ASSUME TypeOK, Ties, NEW t \in Tasks,
         (\E r \in Robots : AssignAccepted(t, r)) \/ AssignRejected(t)
  PROVE  /\ \A u \in Tasks \ {t} : hauls'[u] = hauls[u]
         /\ hauls'[t].phase \notin Working
         /\ \/ \E r \in Robots :
                 /\ AssignAccepted(t, r) /\ hauls'[t].robot = r
                 /\ hauls'[t].wms = "ASSIGNED" /\ hauls'[t].asg = "assigned"
                 /\ assignments' =
                      [assignments EXCEPT ![t] = [robot |-> r, status |-> "assigned"]]
            \/ /\ UNCHANGED <<robots, assignments>> /\ ~Active(t)
               /\ hauls'[t].wms = hauls[t].wms /\ hauls'[t].robot = None
               /\ hauls'[t].asg = hauls[t].asg
<1>1. hauls[t] \in Haul /\ Reset(t) \in Haul
  BY TiedHaul DEF Reset, Haul, Phase
<1>2. /\ Assignable(t) /\ hauls[t].wms \in {"PENDING", "REQUEUED"} /\ ~Active(t)
      /\ hauls[t].robot = None /\ hauls[t].phase \notin Working
  BY TiedHaul DEF AssignAccepted, AssignRejected, Assignable, Active, Ties, Tied
<1>3. /\ Reset(t).phase \notin Working /\ Reset(t).wms = hauls[t].wms
      /\ Reset(t).robot = hauls[t].robot /\ Reset(t).asg = hauls[t].asg
  BY <1>1, <1>2 DEF Reset, Haul, Working
<1>4. ASSUME NEW r \in Robots, AssignAccepted(t, r)
      PROVE  /\ \A u \in Tasks \ {t} : hauls'[u] = hauls[u]
             /\ hauls'[t].phase \notin Working
             /\ hauls'[t].robot = r
             /\ hauls'[t].wms = "ASSIGNED" /\ hauls'[t].asg = "assigned"
  BY <1>1, <1>3, <1>4 DEF AssignAccepted, ReplaceSnapshot, TypeOK, Haul
<1>5. CASE AssignRejected(t)
  <2>1. hauls'[t] = Reset(t) /\ \A u \in Tasks \ {t} : hauls'[u] = hauls[u]
    BY <1>5 DEF AssignRejected, ReplaceSnapshot, TypeOK
  <2> QED BY <1>2, <1>3, <1>5, <2>1 DEF AssignRejected
<1> QED BY <1>4, <1>5 DEF AssignAccepted

(* One haul changed, and its record fits.                                  *)
LEMMA OneTied ==
  ASSUME TypeOK, TypeOK', Ties, NEW t \in Tasks,
         \A u \in Tasks \ {t} : hauls'[u] = hauls[u] /\ assignments'[u] = assignments[u],
         Tied(hauls'[t], assignments'[t])
  PROVE  Ties'
<1>1. \A u \in Tasks : Tied(hauls'[u], assignments'[u])
  BY DEF Ties
<1> QED BY <1>1 DEF Ties, Tied

(* An ended haul, or one given back, fits whatever its record.             *)
LEMMA ClosedTied ==
  ASSUME TypeOK, TypeOK', Ties, NEW t \in Tasks,
         \A u \in Tasks \ {t} : hauls'[u] = hauls[u],
         \/ Closes(t)
         \/ UNCHANGED assignments /\ hauls'[t].asg \notin ActiveAssignmentStatus,
         hauls'[t].wms \notin {"ASSIGNED", "IN_PROGRESS"},
         hauls'[t].wms \in {"PENDING", "REQUEUED"} => hauls'[t].robot = None,
         hauls'[t].phase \notin Working
  PROVE  Ties'
<1>1. /\ hauls'[t].asg \notin ActiveAssignmentStatus
      /\ \A u \in Tasks \ {t} : assignments'[u] = assignments[u]
  BY DEF Closes, TypeOK
<1> QED BY <1>1, OneTied DEF Tied

(* A call of a careful caller keeps the ties.                              *)
LEMMA TiedCall ==
  ASSUME TypeOK, TypeOK', Ties, NEW t \in Tasks,
         \/ HaulCall(t)
         \/ RequeueAccepted(t) \/ RequeueRejected(t)
         \/ (\E r \in Robots : AssignAccepted(t, r)) \/ AssignRejected(t)
  PROVE  Ties'
<1> USE TiedHaul
<1>1. CASE Start(t)
  <2>1. Tied(hauls'[t], assignments'[t])
    BY <1>1, StartTies DEF Tied, Ties, Active, TypeOK, Assignment
  <2> QED BY <1>1, <2>1, StartTies, OneTied DEF TypeOK
<1>2. CASE Arrives(t) \/ CompletePickup(t)
  <2>1. Tied(hauls'[t], assignments'[t])
    BY <1>2, LegTies DEF Tied, Ties, Active
  <2> QED BY <1>2, <2>1, LegTies, OneTied
<1>3. CASE CompleteDropoff(t)
  BY <1>3, DropoffCloses, ClosedTied
<1>4. CASE Active(t) /\ Fail(t)
  BY <1>4, FailCloses, ClosedTied DEF Fail
<1>5. CASE NavigationFails(t)
  BY <1>4, <1>5 DEF NavigationFails, Working
<1>6. CASE Cancel(t)
  BY <1>6, CancelCloses, ClosedTied
<1>7. CASE RequeueAccepted(t)
  BY <1>7, RequeueCloses, ClosedTied
<1>8. CASE RequeueRejected(t)
  <2>1. hauls'[t].wms \in {"PENDING", "REQUEUED"} => hauls'[t].robot = None
    BY <1>8, RequeueRefused DEF Ties, Tied
  <2> QED BY <1>8, <2>1, RequeueRefused, ClosedTied DEF Active
<1>9. CASE (\E r \in Robots : AssignAccepted(t, r)) \/ AssignRejected(t)
  <2>1. ASSUME NEW r \in Robots, hauls'[t].robot = r, hauls'[t].phase \notin Working,
               hauls'[t].wms = "ASSIGNED", hauls'[t].asg = "assigned",
               \A u \in Tasks \ {t} : hauls'[u] = hauls[u],
               assignments' =
                 [assignments EXCEPT ![t] = [robot |-> r, status |-> "assigned"]]
        PROVE  Ties'
    <3>1. /\ assignments'[t] = [robot |-> r, status |-> "assigned"]
          /\ \A u \in Tasks \ {t} : assignments'[u] = assignments[u]
      BY <2>1 DEF TypeOK
    <3>2. Tied(hauls'[t], assignments'[t])
      BY <2>1, <3>1, NoneIsNoId DEF Tied, ActiveAssignmentStatus
    <3> QED BY <2>1, <3>1, <3>2, OneTied
  <2>2. ASSUME UNCHANGED <<robots, assignments>>, ~Active(t),
               hauls'[t].wms = hauls[t].wms, hauls'[t].robot = None,
               hauls'[t].asg = hauls[t].asg, hauls'[t].phase \notin Working,
               \A u \in Tasks \ {t} : hauls'[u] = hauls[u]
        PROVE  Ties'
    BY <2>2, ClosedTied DEF Active
  <2> QED BY <1>9, <2>1, <2>2, AssignTies
<1>10. CASE Active(t) /\ Requeue(t)
  BY <1>7, <1>8, <1>10 DEF Requeue
<1>11. CASE Assign(t) \/ Retry(t)
  <2>1. CASE UNCHANGED <<assignments, hauls>>
    BY <2>1 DEF Ties, Tied
  <2> QED BY <1>9, <1>11, <2>1 DEF Assign, Retry, RetryAssigns, RetryAborts
<1> QED
  BY <1>1, <1>2, <1>3, <1>4, <1>5, <1>6, <1>7, <1>8, <1>9, <1>10, <1>11 DEF HaulCall

-----------------------------------------------------------------------------
(* A call of the fleet, whole.                                             *)

(* It is a call of a careful caller.                                       *)
LEMMA CallIsCareful ==
  ASSUME FleetCall
  PROVE  CarefulNext
BY DEF FleetCall, HaulCall, SweepCall, RobotCall, CarefulNext, Arrives, Drive, Monitor, Sweep

(* It keeps what the memory keeps to.                                      *)
LEMMA CallMemory ==
  ASSUME StoreInv, FleetCall
  PROVE  MemoryInv'
<1>1. TypeOK /\ Sound(robots) /\ Ties /\ BoundRobotHoldsTask
  BY DEF StoreInv, MemoryInv
<1>2. [CarefulNext]_vars /\ [Next]_vars
  BY CallIsCareful, CarefulIsNext
<1>3. TypeOK' /\ Sound(robots')
  BY <1>1, <1>2, TypeStep, SoundStep
<1>4. Held /\ WorkingIsInProgress
  BY <1>1 DEF Held, WorkingIsInProgress, Ties, Tied, Active
<1>5. BoundRobotHoldsTask'
  BY <1>1, <1>2, <1>4, BindingStep
<1>6. Ties'
  <2>1. CASE UNCHANGED <<assignments, hauls>>
    BY <1>1, <2>1 DEF Ties, Tied
  <2>2. ASSUME NEW t \in Tasks, HaulCall(t) PROVE Ties'
    BY <1>1, <1>3, <2>2, TiedCall
  <2>3. ASSUME NEW r \in Robots, SweepCall(r) PROVE Ties'
    <3>1. Revocable(r) => visit[r].task \in Tasks
      BY TrackedAreTasks DEF Revocable
    <3> QED
      BY <1>1, <1>3, <2>1, <2>3, <3>1, TiedCall
         DEF SweepCall, SweepOffline, SweepRequeue, SweepAborts
  <2> QED
    BY <2>1, <2>2, <2>3 DEF FleetCall, RobotCall, RegistryCall, SweepBegin, RetryBegin
<1> QED BY <1>3, <1>5, <1>6 DEF MemoryInv, Sound

(* The rows that a call of a haul leaves.                                  *)
LEMMA HaulCovered ==
  ASSUME StoreInv, todo = <<>>, TypeOK', Sound(robots'), NEW t \in Tasks, HaulCall(t)
  PROVE  Covers(todo', robots', assignments')
<1> USE AtRest
<1>1. robots' \in [Robots -> RobotRecord]
  BY DEF TypeOK, RegistryTypeOK
<1>2. ASSUME Active(t), Closes(t), robots' = Released(robots, hauls[t].robot)
      PROVE  Covers(TaskFirst(t, robots'), robots', assignments')
  BY <1>2, ClosesCovered DEF Closes
<1>3. CASE Start(t) /\ todo' = TaskFirst(t, robots')
  BY <1>1, <1>3, StartTies, StartsCovered
<1>4. CASE /\ CompletePickup(t) \/ CompleteDropoff(t) \/ Cancel(t)
           /\ todo' = TaskFirst(t, robots')
  BY <1>2, <1>4, NothingCovered, DropoffCloses, CancelCloses DEF CompletePickup
<1>5. CASE NavigationFails(t) /\ todo' = TaskFirst(t, robots')
  <2>1. Active(t)
    BY <1>5, TiedHaul DEF NavigationFails, Working
  <2> QED BY <1>2, <1>5, <2>1, FailCloses DEF NavigationFails, Fail
<1>6. CASE Active(t) /\ (Fail(t) \/ Requeue(t)) /\ todo' = TaskFirst(t, robots')
  BY <1>2, <1>6, FailCloses, RequeueCloses, RequeueRefused DEF Fail, Requeue
<1>7. CASE Arrives(t) /\ todo' = Row(hauls[t].robot, robots'[hauls[t].robot])
  <2>1. /\ hauls[t].robot \in Robots /\ assignments' = assignments
        /\ \A p \in Robots \ {hauls[t].robot} : robots'[p] = robots[p]
        /\ \A p \in Robots : robots'[p].task = robots[p].task
    BY <1>7, LegTies, TiedHaul DEF Active
  <2> QED BY <1>1, <1>7, <2>1, RobotCovered
<1>8. CASE /\ Assign(t) \/ Retry(t)
           /\ Len(table[t]) < MaxRows /\ todo' = RobotFirst(t)
  <2>1. CASE UNCHANGED <<robots, assignments>>
    BY <1>8, <2>1, NothingCovered
  <2>2. ASSUME NEW r \in Robots, AssignAccepted(t, r)
        PROVE  Covers(todo', robots', assignments')
    <3>1. PICK p \in Robots : \/ AssignAccepted(t, p) /\ hauls'[t].robot = p
                              \/ UNCHANGED <<robots, assignments>>
      BY <2>2, AssignTies
    <3> QED BY <1>8, <2>1, <3>1, BooksCovered
  <2> QED
    BY <1>8, <2>1, <2>2 DEF Assign, Retry, RetryAssigns, RetryAborts, AssignRejected
<1> QED BY <1>3, <1>4, <1>5, <1>6, <1>7, <1>8 DEF HaulCall

(* The rows that a call leaves.                                            *)
LEMMA CallCovered ==
  ASSUME StoreInv, FleetCall
  PROVE  Covers(todo', robots', assignments')
<1>1. /\ todo = <<>> /\ TypeOK' /\ Sound(robots') /\ robots' \in [Robots -> RobotRecord]
  BY CallMemory DEF FleetCall, MemoryInv, Sound, TypeOK, RegistryTypeOK
<1>2. CASE UNCHANGED <<robots, assignments>> /\ todo' = <<>>
  BY <1>1, <1>2, AtRest
<1>3. ASSUME NEW t \in Tasks, HaulCall(t) PROVE Covers(todo', robots', assignments')
  BY <1>1, <1>3, HaulCovered
<1>4. ASSUME NEW r \in Robots, SweepCall(r) PROVE Covers(todo', robots', assignments')
  <2>1. CASE SweepOffline(r) /\ todo' = RobotRow(robots, robots', r)
    <3>1. /\ assignments' = assignments /\ robots' = Offlined(robots, r)
          /\ robots \in [Robots -> RobotRecord]
      BY <1>1, <2>1, AtRest DEF SweepOffline
    <3>2. /\ \A p \in Robots \ {r} : robots'[p] = robots[p]
          /\ robots'[r].task = robots[r].task
      BY <3>1 DEF Offlined, Moved
    <3> QED BY <1>1, <2>1, <3>1, <3>2, RobotCovered
  <2>2. CASE SweepRequeue(r) /\ todo' = SweepRows(r)
    BY <1>1, <2>2, SweepRequeueCovered
  <2>3. CASE SweepAborts(r) /\ todo' = <<>>
    BY <1>2, <2>3 DEF SweepAborts, RequeueRejected
  <2> QED BY <1>4, <2>1, <2>2, <2>3 DEF SweepCall
<1>5. ASSUME NEW r \in Robots, RobotCall(r) PROVE Covers(todo', robots', assignments')
  <2>1. robots'[r].task = robots[r].task /\ assignments' = assignments
    BY <1>1, <1>5, AtRest, CallTask DEF RobotCall, RegistryCall
  <2>2. \A p \in Robots \ {r} : robots'[p] = robots[p]
    BY <1>1, <1>5, AtRest
       DEF RobotCall, RegistryCall, RecordHeartbeat, HeartbeatExpires, MarkOffline,
           MarkError, RecoverToIdle, Transition, Moved
  <2>3. CASE r \in fresh /\ r \notin fresh'
    <3>1. UNCHANGED robots /\ todo' = <<>>
      BY <1>5, <2>3 DEF RobotCall, RegistryCall, RecordHeartbeat, HeartbeatExpires
    <3> QED BY <1>2, <2>1, <3>1
  <2>4. CASE ~(r \in fresh /\ r \notin fresh')
    <3>1. todo' = Row(r, robots'[r])
      BY <1>5, <2>4 DEF RobotCall
    <3> QED BY <1>1, <2>1, <2>2, <3>1, RobotCovered
  <2> QED BY <2>3, <2>4
<1>6. CASE (SweepBegin \/ RetryBegin) /\ todo' = <<>>
  BY <1>2, <1>6 DEF SweepBegin, RetryBegin
<1> QED BY <1>3, <1>4, <1>5, <1>6 DEF FleetCall

(* A call keeps the invariant: the tables are as they were.                *)
LEMMA CallStep ==
  ASSUME StoreInv, FleetCall
  PROVE  StoreInv'
<1>1. UNCHANGED <<rows, table, copy>>
  BY DEF FleetCall
<1>2. FleetOnly' = FleetOnly /\ \A t \in Tasks : LastRow(t)' = LastRow(t)
  BY <1>1 DEF FleetOnly, LastRow
<1>3. Covers(todo', robots', assignments')
  BY CallCovered
<1>4. Covers(todo, robots, assignments)'
  BY <1>1, <1>2, <1>3
     DEF Covers, RobotsCovered, TasksCovered, OneTask, RobotRowsSafe, TaskRowsSafe,
         Agrees, RowsSound, IsPending, Names, IsActive, SoundRecord
<1>5. MemoryInv'
  BY CallMemory
<1>6. StoreTypeOK' /\ Sound(rows)' /\ CopiesSound' /\ ActiveRowIsHeld'
  <2>1. StoreTypeOK /\ Sound(rows) /\ CopiesSound /\ ActiveRowIsHeld
    BY DEF StoreInv
  <2>2. (todo \in Seq(Pending))'
    BY <1>4 DEF Covers
  <2> QED
    BY <1>1, <1>2, <1>5, <2>1, <2>2
       DEF StoreTypeOK, MemoryInv, Sound, CopiesSound, SoundRecord, ActiveRowIsHeld,
           IsActive
<1> QED BY <1>4, <1>5, <1>6 DEF StoreInv

-----------------------------------------------------------------------------
(* The invariant holds of every state, whenever the process dies.          *)
LEMMA StoreInvInit == StoreInit => StoreInv
<1> SUFFICES ASSUME StoreInit PROVE StoreInv
  OBVIOUS
<1>1. /\ TypeOK /\ todo = <<>> /\ rows = robots /\ table = [t \in Tasks |-> <<>>]
      /\ copy = [r \in Adapted |-> None]
  BY TypeInit DEF StoreInit
<1>2. Sound(robots)
  <2>1. \A r \in Robots : robots[r].state = "IDLE" /\ robots[r].task = None
    BY DEF StoreInit, Init, RegistryInit
  <2> QED BY <2>1 DEF Sound, ActiveTaskStates
<1>3. MemoryInv
  BY <1>1, <1>2, NoneIsNoStatus
     DEF StoreInit, Init, MemoryInv, Ties, Tied, NewHaul, BoundRobotHoldsTask, Active,
         Working, ActiveAssignmentStatus, AssignmentStatus
<1>4. StoreTypeOK
  <2>1. <<>> \in Seq(Pending) /\ <<>> \in Seq(Assignment) /\ Len(<<>>) <= MaxRows
    BY RowsAreBounded
  <2> QED BY <1>1, <2>1 DEF StoreTypeOK, TypeOK, RegistryTypeOK
<1>5. CopiesSound /\ Sound(rows) /\ ActiveRowIsHeld
  BY <1>1, <1>2 DEF CopiesSound, ActiveRowIsHeld
<1>6. Covers(todo, robots, assignments)
  <2>1. \A t \in Tasks : LastRow(t) = assignments[t]
    BY <1>1 DEF LastRow, NoRow, StoreInit, Init
  <2> QED BY <1>1, <1>4, <1>5, <2>1, NothingInHand, RowsHeld
<1> QED BY <1>3, <1>4, <1>5, <1>6 DEF StoreInv

(* Every step keeps it.                                                    *)
LEMMA StoreInvStep == StoreInv /\ [StoreNext]_storeVars => StoreInv'
<1> SUFFICES ASSUME StoreInv, [StoreNext]_storeVars PROVE StoreInv'
  OBVIOUS
<1>1. CASE UNCHANGED storeVars
  <2>1. UNCHANGED <<robots, fresh, hauls, assignments, visit, retry, todo, rows, table, copy>>
    BY <1>1 DEF storeVars, vars
  <2>2. MemoryInv'
    BY <2>1 DEF StoreInv, MemoryInv, TypeOK, RegistryTypeOK, Sound, Ties, Tied,
                BoundRobotHoldsTask, Active
  <2>3. StoreTypeOK' /\ Sound(rows)' /\ CopiesSound' /\ ActiveRowIsHeld'
    BY <2>1, <2>2 DEF StoreInv, MemoryInv, StoreTypeOK, Sound, CopiesSound, SoundRecord,
                      ActiveRowIsHeld, IsActive, FleetOnly
  <2>4. \A t \in Tasks : LastRow(t)' = LastRow(t)
    BY <2>1 DEF LastRow
  <2>5. Covers(todo, robots, assignments)'
    BY <2>1, <2>4 DEF StoreInv, Covers, RobotsCovered, TasksCovered, OneTask, RobotRowsSafe,
                      TaskRowsSafe, Agrees, RowsSound, SoundRecord, IsPending, IsActive,
                      Names, FleetOnly
  <2> QED BY <2>2, <2>3, <2>5 DEF StoreInv
<1> QED BY <1>1, CallStep, CommitStep, RestartStep, AdapterStep DEF StoreNext

(* So it always holds.                                                     *)
LEMMA StoreAlways == StoreSpec => []StoreInv
BY StoreInvInit, StoreInvStep, PTL DEF StoreSpec

(* StoreTypeOK for any robots, tasks and adapters: memory, the tables and  *)
(* the adapters' copies keep their types, whenever the process dies.       *)
THEOREM StoreTypeCorrect == StoreSpec => []StoreTypeOK
<1>1. StoreInv => StoreTypeOK
  BY DEF StoreInv
<1> QED BY <1>1, StoreAlways, PTL

(* ActiveRowIsHeld for any robots, tasks and adapters: whenever the        *)
(* process dies, a task has at most one active row, its last, and the row  *)
(* of that row's robot, if only the fleet writes it, names the task.       *)
THEOREM ActiveRowsAreHeld == StoreSpec => []ActiveRowIsHeld
<1>1. StoreInv => ActiveRowIsHeld
  BY DEF StoreInv
<1> QED BY <1>1, StoreAlways, PTL

(* CallsAreDurable for any robots, tasks and adapters: between two calls   *)
(* every record the fleet has in memory is in the tables.                  *)
THEOREM CallsAreAlwaysDurable == StoreSpec => []CallsAreDurable
<1>1. StoreInv => CallsAreDurable
  BY AtRest DEF CallsAreDurable
<1> QED BY <1>1, StoreAlways, PTL

-----------------------------------------------------------------------------
(* An orphan: a haul without a robot whose row is active.                  *)

(* Its record in memory is the active row, so the dispatcher refuses to    *)
(* assign it, and none of the other calls gives a haul a robot.            *)
LEMMA OrphanStep ==
  ASSUME StoreInv, [StoreNext]_storeVars, todo = <<>>, NEW t \in Tasks,
         hauls[t].robot = None, \E i \in DOMAIN table[t] : IsActive(table[t][i])
  PROVE  table'[t] = table[t] /\ hauls'[t].robot = None
<1> USE AtRest, TiedHaul
<1>1. assignments[t].status \in ActiveAssignmentStatus
  <2>1. PICK i \in DOMAIN table[t] : IsActive(table[t][i])
    OBVIOUS
  <2>2. i = Len(table[t]) /\ table[t] # <<>>
    BY <2>1 DEF StoreInv, ActiveRowIsHeld
  <2> QED BY <2>1, <2>2 DEF LastRow, IsActive
<1>2. ~Active(t)
  BY DEF Ties, Tied, Active
<1>3. hauls' = hauls \/ hauls'[t] = hauls[t] => hauls'[t].robot = None
  OBVIOUS
<1>4. ASSUME NEW u \in Tasks, HaulCall(u) PROVE hauls'[t].robot = None
  <2>1. CASE u # t
    <3>1. CASE Start(u) \/ Arrives(u) \/ CompletePickup(u)
      BY <1>3, <2>1, <3>1, StartTies, LegTies
    <3>2. CASE CompleteDropoff(u) \/ Cancel(u)
      BY <1>3, <2>1, <3>2, DropoffCloses, CancelCloses
    <3>3. CASE NavigationFails(u) \/ (Active(u) /\ Fail(u))
      BY <1>3, <2>1, <3>3, FailCloses DEF NavigationFails, Fail, Working
    <3>4. CASE Active(u) /\ Requeue(u)
      BY <1>3, <2>1, <3>4, RequeueCloses, RequeueRefused DEF Requeue
    <3>5. CASE Assign(u) \/ Retry(u)
      BY <1>3, <2>1, <3>5, AssignTies DEF Assign, Retry, RetryAssigns, RetryAborts
    <3> QED BY <1>4, <3>1, <3>2, <3>3, <3>4, <3>5 DEF HaulCall
  <2>2. CASE u = t
    <3>1. CASE Cancel(t)
      BY <3>1 DEF Cancel, ReplaceSnapshot, TypeOK, Haul
    <3>2. CASE Assign(t) \/ Retry(t)
      <4>1. ~\E r \in Robots : AssignAccepted(t, r)
        BY <1>1 DEF AssignAccepted, Dispatchable
      <4> QED
        BY <1>3, <3>2, <4>1, AssignTies DEF Assign, Retry, RetryAssigns, RetryAborts
    <3>3. ~(Start(t) \/ Arrives(t) \/ CompletePickup(t) \/ CompleteDropoff(t)
            \/ NavigationFails(t))
      BY <1>2, StartTies, LegTies, DropoffCloses DEF Active, NavigationFails, Working
    <3> QED BY <1>2, <1>4, <2>2, <3>1, <3>2, <3>3 DEF HaulCall
  <2> QED BY <2>1, <2>2
<1>5. ASSUME NEW r \in Robots, SweepCall(r) PROVE hauls'[t].robot = None
  <2>1. Revocable(r) => visit[r].task \in Tasks
    BY TrackedAreTasks DEF Revocable
  <2> QED
    BY <1>2, <1>3, <1>5, <2>1, RequeueCloses, RequeueRefused
       DEF SweepCall, SweepOffline, SweepRequeue, SweepAborts
<1>6. CASE FleetCall
  BY <1>3, <1>4, <1>5, <1>6 DEF FleetCall, RobotCall, RegistryCall, SweepBegin, RetryBegin
<1>7. CASE Restart
  BY <1>7 DEF Restart, NewHaul
<1>8. ASSUME NEW r \in Adapted, AdapterStart(r) \/ AdapterHeartbeat(r)
      PROVE  UNCHANGED <<hauls, table>>
  BY <1>8 DEF AdapterStart, AdapterHeartbeat, vars
<1> QED
  BY <1>6, <1>7, <1>8 DEF StoreNext, FleetCall, Commit, Restart, storeVars, vars

(* OrphanRowStays for any robots, tasks and adapters: a haul that held its *)
(* robot when the process died is neither dispatched again nor closed by   *)
(* the new one.                                                            *)
THEOREM OrphansStay == StoreSpec => OrphanRowStays
<1>1. StoreInv /\ [StoreNext]_storeVars =>
        [ \A t \in Tasks :
            /\ todo = <<>>
            /\ hauls[t].robot = None
            /\ \E i \in DOMAIN table[t] : IsActive(table[t][i])
            => table'[t] = table[t] /\ hauls'[t].robot = None ]_storeVars
  BY OrphanStep
<1> QED BY <1>1, StoreAlways, PTL DEF StoreSpec, OrphanRowStays

(* Haul t held robot r when the process died.                              *)
Orphan(t, r) ==
  /\ hauls[t].robot = None
  /\ \E i \in DOMAIN table[t] : IsActive(table[t][i]) /\ table[t][i].robot = r

OrphanKeepsRobot ==
  todo = <<>> =>
    \A r \in FleetOnly : \A t \in Tasks :
      Orphan(t, r) =>
        /\ robots[r].task = t /\ ~CanAcceptTask(r)
        /\ \A u \in Tasks : ~(Active(u) /\ hauls[u].robot = r)

(* A robot that only the fleet writes is kept for the haul it was lost to: *)
(* no restarted fleet ever gives it to another one, or takes it as a       *)
(* candidate, so the robot is lost to the fleet as long as the row stays.  *)
THEOREM OrphansKeepTheirRobots == StoreSpec => []OrphanKeepsRobot
<1>1. StoreInv => OrphanKeepsRobot
  <2> SUFFICES ASSUME StoreInv, todo = <<>>, NEW r \in FleetOnly, NEW t \in Tasks,
                      Orphan(t, r)
               PROVE  /\ robots[r].task = t /\ ~CanAcceptTask(r)
                      /\ \A u \in Tasks : ~(Active(u) /\ hauls[u].robot = r)
    BY DEF OrphanKeepsRobot
  <2>1. r \in Robots /\ t # None /\ r # None
    BY NoneIsNoId DEF FleetOnly
  <2>2. robots[r].task = t
    <3>1. PICK i \in DOMAIN table[t] : Names(table[t][i], r)
      BY DEF Orphan, Names
    <3>2. rows[r].task = t
      BY <3>1 DEF StoreInv, ActiveRowIsHeld, Names
    <3> QED BY <3>2, AtRest
  <2>3. ~CanAcceptTask(r)
    BY <2>1, <2>2, AtRest DEF Sound, CanAcceptTask
  <2> QED BY <2>1, <2>2, <2>3, AtRest DEF Orphan, BoundRobotHoldsTask
<1> QED BY <1>1, StoreAlways, PTL

(* NoDoubleBooking across restarts, for any robots, tasks and adapters:    *)
(* what a new process loads, adapters' stale records included, never lets  *)
(* it put two active hauls on one robot.                                   *)
THEOREM RestartsBookNoRobotTwice == StoreSpec => []NoDoubleBooking
<1>1. StoreInv => NoDoubleBooking
  BY DEF StoreInv, MemoryInv, BoundRobotHoldsTask, NoDoubleBooking
<1> QED BY <1>1, StoreAlways, PTL

-----------------------------------------------------------------------------
(* The assignments table as the record of what the fleet has booked.       *)

(* Whenever the process dies, no two active rows name the same robot: what *)
(* the memory of one process rules out (NoDoubleBooking), the rows left by *)
(* several processes rule out as well, but for the robots of an adapter.   *)
DiskBooksNoRobotTwice ==
  \A t, u \in Tasks : \A i \in DOMAIN table[t], j \in DOMAIN table[u] :
    /\ IsActive(table[t][i]) /\ IsActive(table[u][j])
    /\ table[t][i].robot = table[u][j].robot
    /\ table[t][i].robot \in FleetOnly
    => t = u /\ i = j

(* DiskBooksNoRobotTwice for any number of robots, tasks and restarts: the *)
(* row of the robot would have to name both tasks.                         *)
THEOREM DiskIsNotDoubleBooked == StoreSpec => []DiskBooksNoRobotTwice
<1>1. ActiveRowIsHeld => DiskBooksNoRobotTwice
  BY DEF ActiveRowIsHeld, DiskBooksNoRobotTwice
<1> QED BY <1>1, ActiveRowsAreHeld, PTL

(* The rows of a task are its history: no row is lost, none is given to    *)
(* another robot, a closed one is never written again, and a new one is    *)
(* added only when all are closed.  The code updates the last row by the   *)
(* id of the record it holds; that this is the row that is still open,     *)
(* also after the death of the process that inserted it, is what matters.  *)
RowsAreHistory ==
  [][ \A t \in Tasks :
        /\ \A i \in DOMAIN table[t] :
             /\ i \in DOMAIN table'[t]
             /\ table'[t][i].robot = table[t][i].robot
             /\ ~IsActive(table[t][i]) => table'[t][i] = table[t][i]
        /\ Len(table'[t]) > Len(table[t]) =>
             \A i \in DOMAIN table[t] : ~IsActive(table[t][i]) ]_storeVars

(* The row of a task that is first in hand is committed: it is appended to *)
(* closed rows, or takes the place of the last one, open, with its robot.  *)
LEMMA CommitIsHistory ==
  ASSUME StoreInv, Commit, NEW t \in Tasks, table'[t] # table[t]
  PROVE  \E row \in Assignment :
           /\ table'[t] = Stored(t, row)
           /\ row.status = "assigned" => ~IsActive(LastRow(t))
           /\ row.status # "assigned" =>
                IsActive(LastRow(t)) /\ row.robot = LastRow(t).robot
<1> DEFINE key == todo[1].key
           row == todo[1].row
<1>1. /\ todo \in Seq(Pending) /\ 1 \in DOMAIN todo /\ Head(todo) = todo[1]
  BY Taken DEF StoreInv, Covers, Commit
<1>2. key = t /\ table' = [table EXCEPT ![t] = Stored(t, row)]
  BY <1>1 DEF Commit, StoreInv, StoreTypeOK
<1>3. row \in Assignment
  BY <1>1, <1>2, PendingRow
<1>4. table'[t] = Stored(t, row)
  BY <1>2 DEF StoreInv, StoreTypeOK
<1>5. /\ row.status = "assigned" => ~IsActive(LastRow(t))
      /\ row.status # "assigned" => IsActive(LastRow(t)) /\ row.robot = LastRow(t).robot
  BY <1>1, <1>2 DEF StoreInv, Covers, TaskRowsSafe
<1> HIDE DEF row
<1> QED BY <1>3, <1>4, <1>5

(* What either kind of row makes of the table.                             *)
LEMMA StoredIsHistory ==
  ASSUME StoreInv, NEW t \in Tasks, NEW row \in Assignment,
         row.status = "assigned" => ~IsActive(LastRow(t)),
         row.status # "assigned" => IsActive(LastRow(t)) /\ row.robot = LastRow(t).robot
  PROVE  LET new == Stored(t, row)
         IN  /\ \A i \in DOMAIN table[t] :
                  /\ i \in DOMAIN new
                  /\ new[i].robot = table[t][i].robot
                  /\ ~IsActive(table[t][i]) => new[i] = table[t][i]
             /\ Len(new) > Len(table[t]) =>
                  \A i \in DOMAIN table[t] : ~IsActive(table[t][i])
<1> DEFINE n == Len(table[t])
<1>1. /\ table[t] \in Seq(Assignment) /\ n \in Nat /\ DOMAIN table[t] = 1 .. n
      /\ \A i \in DOMAIN table[t] : IsActive(table[t][i]) => i = n
  BY DEF StoreInv, StoreTypeOK, ActiveRowIsHeld
<1>2. CASE row.status = "assigned"
  <2> DEFINE new == Append(table[t], row)
  <2>1. /\ DOMAIN new = 1 .. n + 1 /\ Len(new) = n + 1
        /\ \A i \in 1 .. n : new[i] = table[t][i]
    BY <1>1
  <2>2. Stored(t, row) = new
    BY <1>2 DEF Stored
  <2>3. \A i \in DOMAIN table[t] : ~IsActive(table[t][i])
    <3> SUFFICES ASSUME NEW i \in DOMAIN table[t], IsActive(table[t][i]) PROVE FALSE
      OBVIOUS
    <3>1. i = n /\ table[t] # <<>>
      BY <1>1
    <3> QED BY <1>2, <3>1 DEF LastRow
  <2> HIDE DEF new
  <2> QED BY <1>1, <2>1, <2>2, <2>3
<1>3. CASE row.status # "assigned"
  <2> DEFINE new == [table[t] EXCEPT ![n] = row]
  <2>1. LastRow(t) = table[t][n] /\ n \in 1 .. n
    BY <1>1, <1>3, ActiveIsRow DEF LastRow
  <2>2. /\ DOMAIN new = 1 .. n /\ Len(new) = n
        /\ new[n] = row /\ \A i \in 1 .. n \ {n} : new[i] = table[t][i]
    BY <1>1, <2>1
  <2>3. Stored(t, row) = new
    BY <1>3 DEF Stored
  <2> HIDE DEF new
  <2> QED BY <1>1, <1>3, <2>1, <2>2, <2>3
<1> QED BY <1>2, <1>3

(* RowsAreHistory for any number of robots, tasks, rows and restarts: a    *)
(* row in hand that is not a new assignment updates the open row of its    *)
(* task (TaskRowsSafe), whichever process inserted it.                     *)
THEOREM AssignmentsAreHistory == StoreSpec => RowsAreHistory
<1>1. ASSUME StoreInv, [StoreNext]_storeVars, NEW t \in Tasks
      PROVE  /\ \A i \in DOMAIN table[t] :
                  /\ i \in DOMAIN table'[t]
                  /\ table'[t][i].robot = table[t][i].robot
                  /\ ~IsActive(table[t][i]) => table'[t][i] = table[t][i]
             /\ Len(table'[t]) > Len(table[t]) =>
                  \A i \in DOMAIN table[t] : ~IsActive(table[t][i])
  <2>1. CASE table'[t] = table[t]
    <3>1. Len(table[t]) \in Nat
      BY <1>1 DEF StoreInv, StoreTypeOK
    <3> QED BY <2>1, <3>1
  <2>2. CASE table'[t] # table[t]
    <3>1. Commit
      BY <1>1, <2>2
         DEF StoreNext, storeVars, FleetCall, Restart, AdapterStart, AdapterHeartbeat
    <3>2. PICK row \in Assignment :
            /\ table'[t] = Stored(t, row)
            /\ row.status = "assigned" => ~IsActive(LastRow(t))
            /\ row.status # "assigned" =>
                 IsActive(LastRow(t)) /\ row.robot = LastRow(t).robot
      BY <1>1, <2>2, <3>1, CommitIsHistory
    <3> QED BY <1>1, <3>2, StoredIsHistory
  <2> QED BY <2>1, <2>2
<1>2. StoreInv /\ [StoreNext]_storeVars =>
  [ \A t \in Tasks :
        /\ \A i \in DOMAIN table[t] :
             /\ i \in DOMAIN table'[t]
             /\ table'[t][i].robot = table[t][i].robot
             /\ ~IsActive(table[t][i]) => table'[t][i] = table[t][i]
        /\ Len(table'[t]) > Len(table[t]) =>
             \A i \in DOMAIN table[t] : ~IsActive(table[t][i]) ]_storeVars
  BY <1>1
<1> QED BY <1>2, StoreAlways, PTL DEF StoreSpec, RowsAreHistory

=============================================================================
