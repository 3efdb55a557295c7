---------------------------- MODULE FleetBooking ----------------------------
(***************************************************************************)
(* What the haul fleet promises its callers, without phases, heartbeats or *)
(* ledgers: a haul is booked on one robot at a time and a robot for one    *)
(* haul at a time; a booking can be given back until the load is aboard;   *)
(* a haul ends delivered, failed or canceled, and stays ended.             *)
(***************************************************************************)
CONSTANTS Robots, Tasks, None

VARIABLES
  holder,  \* the robot a haul is booked on, or None
  stage    \* how far the haul's load has got

bookingVars == <<holder, stage>>

Stage == {"open", "aboard", "delivered", "failed", "canceled"}

BookingInit ==
  /\ holder = [t \in Tasks |-> None]
  /\ stage = [t \in Tasks |-> "open"]

Book(t, r) ==
  /\ stage[t] = "open"
  /\ holder[t] = None
  /\ \A other \in Tasks : holder[other] # r
  /\ holder' = [holder EXCEPT ![t] = r]
  /\ UNCHANGED stage

GiveBack(t) ==
  /\ stage[t] = "open"
  /\ holder[t] # None
  /\ holder' = [holder EXCEPT ![t] = None]
  /\ UNCHANGED stage

Load(t) ==
  /\ stage[t] = "open"
  /\ holder[t] # None
  /\ stage' = [stage EXCEPT ![t] = "aboard"]
  /\ UNCHANGED holder

(* The haul ends and its robot is no longer booked for it.                 *)
End(t, from, to) ==
  /\ stage[t] \in from
  /\ stage' = [stage EXCEPT ![t] = to]
  /\ holder' = [holder EXCEPT ![t] = None]

Deliver(t) == holder[t] # None /\ End(t, {"aboard"}, "delivered")

Fail(t) == holder[t] # None /\ End(t, {"open", "aboard"}, "failed")

Cancel(t) == End(t, {"open"}, "canceled")

BookingNext ==
  \E t \in Tasks :
    \/ \E r \in Robots : Book(t, r)
    \/ GiveBack(t)
    \/ Load(t)
    \/ Deliver(t)
    \/ Fail(t)
    \/ Cancel(t)

BookingSpec == BookingInit /\ [][BookingNext]_bookingVars

=============================================================================
