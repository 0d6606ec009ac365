------------------------------ MODULE Arrival ------------------------------
(***************************************************************************)
(* The two pure decisions of the arrival poller: decideArrival             *)
(* (arrival.go), is the current waypoint reached, and decideRejoin         *)
(* (rejoin.go), has the boat joined the route further along.  Distances    *)
(* are in whole metres; geometry is left to the instance.                  *)
(***************************************************************************)
EXTENDS Integers, Sequences

CONSTANTS
  Dist(_, _),      \* haversineMeters between two places
  Along(_, _, _),  \* Along(b, p, q): metres along the leg p to q that b
                   \* projects to, when strictly between the two and within
                   \* rejoinMaxCrossTrackMeters of the leg; else OffLeg
  OffLeg,
  Nowhere          \* no waypoint

ArrivalDistance == 50
NearWaypoint == 500
LastWaypointPassMin == 400
Beyond(d, min) == 2 * d > 5 * min            \* d > min * lastWaypointPassFactor
FollowingApproach == 500
FollowingClosingMargin == 50
RejoinConfirmTicks == 3
RejoinMinProgress == 20

Smaller(x, y) == IF x < y THEN x ELSE y
Larger(x, y) == IF x > y THEN x ELSE y

-----------------------------------------------------------------------------
(* ArrivalState: how close the boat has been to the waypoint and to the    *)
(* following one, and how far from the latter; -1 where there is none.     *)
NoArrivalState == [wp |-> Nowhere, following |-> Nowhere, min |-> 0, minF |-> 0, maxF |-> 0]

ToFollowing(boat, following) == IF following = Nowhere THEN -1 ELSE Dist(boat, following)

(* A new active pair starts a new memory.                                  *)
ForPair(boat, wp, following, prev) ==
  LET f == ToFollowing(boat, following) IN
  IF prev.wp = wp /\ prev.following = following THEN prev
  ELSE [wp |-> wp, following |-> following, min |-> Dist(boat, wp), minF |-> f, maxF |-> f]

Remembered(boat, state) ==
  LET f == ToFollowing(boat, state.following) IN
  [state EXCEPT !.min = Smaller(Dist(boat, state.wp), @),
                !.minF = Smaller(f, @), !.maxF = Larger(f, @)]

(* Mutant: nearing the following waypoint is enough, near or far from this.*)
ArrivedEarly(boat, state, new) ==
  LET d == Dist(boat, state.wp)
      f == ToFollowing(boat, state.following)
  IN  d < ArrivalDistance \/ (f >= 0 /\ f + FollowingApproach < new.maxF)

(* state is the memory before this tick's distances, new after them.       *)
Arrived(boat, state, new) ==
  LET d == Dist(boat, state.wp)
      f == ToFollowing(boat, state.following)
  IN  \/ d < ArrivalDistance
      \/ /\ f >= 0                                   \* rounded the corner
         /\ d < NearWaypoint /\ d > new.min
         /\ f + FollowingClosingMargin < state.minF
      \/ /\ f >= 0                                   \* far overshoot
         /\ Beyond(d, new.min)
         /\ f + FollowingApproach < new.maxF
      \/ /\ f < 0                                    \* overshot the last one
         /\ new.min <= LastWaypointPassMin
         /\ 2 * d >= 5 * new.min
         /\ d > ArrivalDistance

DecideArrival(boat, wp, following, prev) ==
  LET state == ForPair(boat, wp, following, prev)
      new == Remembered(boat, state)
  IN  [arrived |-> Arrived(boat, state, new), state |-> new]

-----------------------------------------------------------------------------
(* RejoinState.  Ticks stop counting once there are enough of them.        *)
NoRejoinState == [leg |-> Nowhere, first |-> 0, ticks |-> 0]

(* The furthest later leg the boat is on, as the index of its start, or 0. *)
(* Leg 1 is never a candidate, nor the surroundings of a leg's ends.       *)
OnLeg(boat, p, q) ==
  /\ Along(boat, p, q) # OffLeg
  /\ Dist(boat, p) >= NearWaypoint /\ Dist(boat, q) >= NearWaypoint

RejoinLegs(boat, wps) ==
  {i \in 2..(Len(wps) - 1) : OnLeg(boat, wps[i], wps[i + 1])}

BestLeg(boat, wps) ==
  IF RejoinLegs(boat, wps) = {} THEN 0
  ELSE CHOOSE i \in RejoinLegs(boat, wps) : \A j \in RejoinLegs(boat, wps) : j <= i

(* Mutants: ticks on one leg are enough, progress or not; ticks off every  *)
(* leg do not reset.                                                       *)
DecideRejoinStill(boat, wps, prev) ==
  LET best == BestLeg(boat, wps)
      along == Along(boat, wps[best], wps[best + 1])
      state == IF prev.leg # wps[best] THEN [leg |-> wps[best], first |-> along, ticks |-> 1]
               ELSE [prev EXCEPT !.ticks = @ + 1]
  IN  IF best = 0 THEN [skip |-> 0, state |-> NoRejoinState]
      ELSE IF state.ticks = RejoinConfirmTicks
           THEN [skip |-> best, state |-> NoRejoinState]
           ELSE [skip |-> 0, state |-> state]

DecideRejoinKeeping(boat, wps, prev) ==
  LET best == BestLeg(boat, wps)
      along == Along(boat, wps[best], wps[best + 1])
      state == IF prev.leg # wps[best] THEN [leg |-> wps[best], first |-> along, ticks |-> 1]
               ELSE [prev EXCEPT !.ticks = Smaller(RejoinConfirmTicks, @ + 1)]
  IN  IF best = 0 THEN [skip |-> 0, state |-> prev]
      ELSE IF state.ticks = RejoinConfirmTicks /\ along >= state.first + RejoinMinProgress
           THEN [skip |-> best, state |-> NoRejoinState]
           ELSE [skip |-> 0, state |-> state]

(* skip is how many leading waypoints are behind the boat.                 *)
DecideRejoin(boat, wps, prev) ==
  LET best == BestLeg(boat, wps)
      along == Along(boat, wps[best], wps[best + 1])
      state == IF prev.leg # wps[best] THEN [leg |-> wps[best], first |-> along, ticks |-> 1]
               ELSE [prev EXCEPT !.ticks = Smaller(RejoinConfirmTicks, @ + 1)]
  IN  IF best = 0 THEN [skip |-> 0, state |-> NoRejoinState]
      ELSE IF state.ticks = RejoinConfirmTicks /\ along >= state.first + RejoinMinProgress
           THEN [skip |-> best, state |-> NoRejoinState]
           ELSE [skip |-> 0, state |-> state]
=============================================================================
