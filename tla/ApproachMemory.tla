--------------------------- MODULE ApproachMemory ---------------------------
(***************************************************************************)
(* The arrival poller's memory of the approach (arrivalState, rejoinState  *)
(* in nav.go) over the life of goals: legs sailed, ticks without a fix,    *)
(* edits, suspensions, and one goal after another.  The boat may be        *)
(* anywhere at the next tick that has a fix, since any number of ticks may *)
(* have had none.  How a tick interleaves with the calls that change the   *)
(* goal is NavService's subject; here a tick is one step, and advanceGoal  *)
(* either succeeds or fails.                                               *)
(***************************************************************************)
EXTENDS NavGoal, Arrival

CONSTANTS
  Waters,   \* where the boat may be
  Courses,  \* the waypoint lists of the goals set
  Loops,    \* whether they loop
  MaxLap    \* bound: laps of a looping goal

Places == UNION {{c[i] : i \in DOMAIN c} : c \in Courses}

(* Lengths are not negative, and nothing is not a place or a goal.         *)
ASSUME ApproachAssumption ==
  /\ \A c \in Courses : c \in Seq(Places)
  /\ Nowhere \notin Places /\ Loops \subseteq BOOLEAN
  /\ \A b \in Waters, p \in Places : Dist(b, p) \in Nat
  /\ \A b \in Waters, p \in Places, q \in Places : Along(b, p, q) \in Nat \cup {OffLeg}
  /\ NoGoal \notin Goals(Places, {"unnamed"})

VARIABLES
  goal,      \* the latest goal
  arrival,   \* s.arrivalState
  rejoin,    \* s.rejoinState
  boat,      \* history: the last fix judged
  approach,  \* history: the pair approached and the closest fix to it
  legs,      \* history: the start of the leg found by each of the last fixes
  candidate  \* history: the leg that is being confirmed

poller == <<arrival, rejoin, boat, approach, legs, candidate>>
vars == <<goal, poller>>

NoApproach == [wp |-> Nowhere, following |-> Nowhere, closest |-> 0]
NoCandidate == [leg |-> [from |-> Nowhere, to |-> Nowhere], kept |-> TRUE, moved |-> FALSE]

Init ==
  /\ goal = NoGoal
  /\ arrival = NoArrivalState
  /\ rejoin = NoRejoinState
  /\ boat = Nowhere
  /\ approach = NoApproach
  /\ legs = <<>>
  /\ candidate = NoCandidate

-----------------------------------------------------------------------------
(* What the calls of nav_service.go do to the goal, between two ticks.     *)
StartGoal(course, index, loop) ==
  /\ ~(goal # NoGoal /\ goal.state = "suspended")
  /\ index < Len(course)
  /\ goal' = NewGoal("route", "unnamed", course, index, loop, 0)
  /\ UNCHANGED poller

Suspend ==
  /\ goal # NoGoal /\ goal.state = "active"
  /\ goal' = [goal EXCEPT !.state = "suspended"]
  /\ UNCHANGED poller

Resume ==
  /\ goal # NoGoal /\ goal.state = "suspended"
  /\ goal' = [goal EXCEPT !.state = "active"]
  /\ UNCHANGED poller

Cancel ==
  /\ IsOpen(goal)
  /\ goal' = Finished(goal, "canceled")
  /\ UNCHANGED poller

-----------------------------------------------------------------------------
(* History.  An approach lasts as long as ticks see the same active pair   *)
(* of an open goal.                                                        *)
Approaching(fix, wp, following) ==
  IF approach.wp = wp /\ approach.following = following
  THEN [approach EXCEPT !.closest = Smaller(@, Dist(fix, wp))]
  ELSE [wp |-> wp, following |-> following, closest |-> Dist(fix, wp)]

LegFound(fix, wps) ==
  IF RejoinLegs(fix, wps) = {} THEN [from |-> Nowhere, to |-> Nowhere]
  ELSE [from |-> wps[BestLeg(fix, wps)], to |-> wps[BestLeg(fix, wps) + 1]]

(* The leg found again and again: if its end stayed where it was, and if   *)
(* the boat moved since it was found first.                                *)
Confirming(fix, wps) ==
  LET leg == LegFound(fix, wps) IN
  IF leg.from = candidate.leg.from
  THEN [leg |-> leg, kept |-> candidate.kept /\ leg = candidate.leg, moved |-> candidate.moved \/ fix # boat]
  ELSE [leg |-> leg, kept |-> TRUE, moved |-> FALSE]

LastFew(s) ==
  IF Len(s) <= RejoinConfirmTicks THEN s ELSE SubSeq(s, Len(s) - RejoinConfirmTicks + 1, Len(s))

-----------------------------------------------------------------------------
(* checkArrival with a fix and an active goal.  A rejoin ends the tick and *)
(* forgets the approach; otherwise the current waypoint is judged.         *)
Advance(n) ==
  \/ goal' = Advanced(goal, n)
  \/ goal' = goal    \* the save failed, or the goal was edited meanwhile

CheckArrival(fix) ==
  LET wps == Remaining(goal)
      following == IF Len(wps) >= 2 THEN wps[2] ELSE Nowhere
      rejoined == DecideRejoin(fix, wps, rejoin)
      decision == DecideArrival(fix, wps[1], following, arrival)
  IN
  /\ goal # NoGoal /\ goal.state = "active" /\ Remaining(goal) # <<>>
  /\ goal.lap < MaxLap
  /\ rejoin' = rejoined.state
  /\ IF rejoined.skip > 0
     THEN Advance(rejoined.skip) /\ arrival' = NoArrivalState
     ELSE /\ arrival' = decision.state
          /\ IF decision.arrived THEN Advance(1) ELSE goal' = goal
  /\ boat' = fix
  /\ approach' = Approaching(fix, wps[1], following)
  /\ legs' = LastFew(Append(legs, LegFound(fix, wps).from))
  /\ candidate' = Confirming(fix, wps)

(* A tick without a fix, or without an active goal, returns early and      *)
(* changes nothing the poller keeps.  Once a goal is over, its approach is *)
(* too.                                                                    *)
IdleTick ==
  /\ approach' = IF IsOpen(goal) THEN approach ELSE NoApproach
  /\ UNCHANGED <<goal, arrival, rejoin, boat, legs, candidate>>

-----------------------------------------------------------------------------
Poll == (\E b \in Waters : CheckArrival(b)) \/ IdleTick

(* One goal, set once ...                                                  *)
FirstGoal == goal = NoGoal /\ \E c \in Courses, loop \in Loops : StartGoal(c, 0, loop)

(* ... that clients suspend, and edit by re-sending it.                    *)
Edit == IsOpen(goal) /\ \E c \in Courses, loop \in Loops : StartGoal(c, goal.idx, loop)

EditNext == FirstGoal \/ Poll \/ Edit \/ Suspend \/ Resume
EditSpec == Init /\ [][EditNext]_vars

(* One goal after another.                                                 *)
Restarted == \E c \in Courses, loop \in Loops : StartGoal(c, 0, loop)

Next == Restarted \/ Edit \/ Suspend \/ Resume \/ Cancel \/ Poll
Spec == Init /\ [][Next]_vars

-----------------------------------------------------------------------------
TypeOK ==
  /\ goal = NoGoal \/ (goal.idx \in 0..Len(goal.wps) /\ goal.state \in GoalStates)
  /\ arrival.min >= 0 /\ arrival.minF <= arrival.maxF
  /\ rejoin.ticks \in 0..RejoinConfirmTicks
  /\ boat \in Waters \cup {Nowhere}
  /\ Len(legs) <= RejoinConfirmTicks

MarksOne == goal # NoGoal /\ goal' # goal /\ goal' = Advanced(goal, 1)
Rejoins == goal # NoGoal /\ goal'.idx > goal.idx + 1

(* A waypoint is marked reached only when the boat is there, or has been   *)
(* closer to it than now "on this approach" (arrival.go:32-36) and so has  *)
(* passed it.                                                              *)
PassedOnThisApproach ==
  [][ MarksOne =>
        LET d == Dist(boat', Remaining(goal)[1])
        IN  d < ArrivalDistance \/ approach'.closest < d ]_vars

(* Waypoints are skipped only when the last three fixes all found the boat *)
(* on one leg (rejoin.go:52-53 "reset whenever the candidate leg changes   *)
(* (or no leg matches)"), whatever edits and idle ticks came between.      *)
RejoinIsConfirmed ==
  [][ Rejoins =>
        /\ Len(legs') = RejoinConfirmTicks
        /\ legs'[1] # Nowhere
        /\ \A i \in DOMAIN legs' : legs'[i] = legs'[1] ]_vars

(* Progress along the leg "proves the boat is moving TOWARD the leg's end, *)
(* not drifting" (rejoin.go:39-40): unless an edit moved the end of the    *)
(* leg meanwhile, a boat that stayed where it was has rejoined nothing.    *)
RejoinProvesMoving ==
  [][ Rejoins /\ candidate'.kept => candidate'.moved ]_vars
=============================================================================
