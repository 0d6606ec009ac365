------------------------ MODULE ApproachMemoryProofs ------------------------
(***************************************************************************)
(* What the arrival poller remembers suffices to mark waypoints, for any   *)
(* water, any courses and any distances, while one goal is pursued: what   *)
(* it takes for the closest point of the approach is one the boat came to  *)
(* on this approach, and the ticks it counts on a leg were on that leg.    *)
(***************************************************************************)
EXTENDS ApproachMemory, SequenceTheorems, WellFoundedInduction, TLAPS

(* A goal whose cursor is within its course.                               *)
CourseGoals == {g \in Goals(Places, {"unnamed"}) : g.idx <= Len(g.wps)}

Memories ==
  [wp : Places \cup {Nowhere}, following : Places \cup {Nowhere}, min : Nat, minF : Int, maxF : Int]

Approaches == [wp : Places \cup {Nowhere}, following : Places \cup {Nowhere}, closest : Nat]

PollerType ==
  /\ goal = NoGoal \/ goal \in CourseGoals
  /\ arrival \in Memories
  /\ rejoin \in [leg : Places \cup {Nowhere}, first : Nat, ticks : 0 .. RejoinConfirmTicks]
  /\ boat \in Waters \cup {Nowhere} /\ approach \in Approaches
  /\ legs \in Seq(Places \cup {Nowhere})

(* The memory is of the approach under way: nothing before the goal, and   *)
(* then a minimum that is no less than the closest point of the approach.  *)
MemoryOfApproach ==
  /\ goal = NoGoal => arrival.wp = Nowhere
  /\ IsOpen(goal) /\ arrival.wp # Nowhere =>
       /\ approach.wp = arrival.wp /\ approach.following = arrival.following
       /\ approach.closest <= arrival.min

(* The ticks counted on a leg are the last ones with a fix.                *)
TicksOnLeg ==
  /\ rejoin.ticks = 0 => rejoin.leg = Nowhere
  /\ rejoin.ticks > 0 =>
       /\ rejoin.leg \in Places
       /\ rejoin.ticks <= Len(legs)
       /\ \A i \in Len(legs) - rejoin.ticks + 1 .. Len(legs) : legs[i] = rejoin.leg

(* On a leg that stayed, a boat that stayed is where it was first.         *)
FirstAlong ==
  rejoin.ticks > 0 =>
    /\ candidate.leg.from = rejoin.leg
    /\ candidate.kept /\ ~candidate.moved =>
         rejoin.first = Along(boat, candidate.leg.from, candidate.leg.to)

ApproachInv == PollerType /\ MemoryOfApproach /\ TicksOnLeg /\ FirstAlong

-----------------------------------------------------------------------------
(* The operators a tick is made of.                                        *)

(* A set of numbers up to some number has a greatest element.              *)
LEMMA GreatestExists ==
  ASSUME NEW n \in Nat, NEW S \in SUBSET (0 .. n), S # {}
  PROVE  \E i \in S : \A j \in S : j <= i
<1> DEFINE Mirror == {k \in 0 .. n : n - k \in S}
<1>1. Mirror \subseteq Nat /\ Mirror # {}
  <2>1. PICK i \in S : i \in 0 .. n
    OBVIOUS
  <2>2. n - i \in 0 .. n /\ n - (n - i) = i
    BY <2>1
  <2>3. n - i \in Mirror
    BY <2>1, <2>2
  <2>4. \A k \in Mirror : k \in Nat
    OBVIOUS
  <2> HIDE DEF Mirror
  <2> QED
    BY <2>3, <2>4
<1> HIDE DEF Mirror
<1>2. PICK k \in Mirror : \A l \in Mirror : ~(<<l, k>> \in OpToRel(<, Nat))
  BY ONLY <1>1, NatLessThanWellFounded, WFMin
<1>3. \A l \in Mirror : ~(l < k)
  BY <1>1, <1>2 DEF OpToRel
<1>4. n - k \in S /\ \A j \in S : n - j \in Mirror
  BY DEF Mirror
<1>5. \A j \in S : j <= n - k
  BY <1>3, <1>4, <1>1 DEF Mirror
<1> QED
  BY <1>4, <1>5

(* What LastFew keeps is the end of the list.                              *)
LEMMA LastFewIs ==
  ASSUME NEW S, NEW s \in Seq(S)
  PROVE  /\ LastFew(s) \in Seq(S)
         /\ Len(LastFew(s)) = IF Len(s) <= RejoinConfirmTicks THEN Len(s) ELSE RejoinConfirmTicks
         /\ \A i \in 1 .. Len(LastFew(s)) : LastFew(s)[i] = s[Len(s) - Len(LastFew(s)) + i]
<1>1. Len(s) \in Nat /\ \A i \in 1 .. Len(s) : s[i] \in S
  BY LenProperties, ElementOfSeq
<1>2. CASE Len(s) <= RejoinConfirmTicks
  BY <1>1, <1>2 DEF LastFew
<1>3. CASE ~(Len(s) <= RejoinConfirmTicks)
  <2> DEFINE m == Len(s) - RejoinConfirmTicks + 1
  <2>1. m \in Int /\ m \in 1 .. Len(s) /\ Len(s) - m + 1 = RejoinConfirmTicks
    BY <1>1, <1>3 DEF RejoinConfirmTicks
  <2>2. \A i \in m .. Len(s) : s[i] \in S
    BY <1>1, <2>1
  <2> HIDE DEF m
  <2>3. /\ SubSeq(s, m, Len(s)) \in Seq(S)
        /\ Len(SubSeq(s, m, Len(s))) = IF m <= Len(s) THEN Len(s) - m + 1 ELSE 0
        /\ \A i \in 1 .. Len(s) - m + 1 : SubSeq(s, m, Len(s))[i] = s[m + i - 1]
    BY <1>1, <2>1, <2>2, SubSeqProperties
  <2>4. LastFew(s) = SubSeq(s, m, Len(s))
    BY <1>3 DEF LastFew, m
  <2>5. \A i \in 1 .. RejoinConfirmTicks : m + i - 1 = Len(s) - RejoinConfirmTicks + i
    BY <1>1 DEF m, RejoinConfirmTicks
  <2> QED
    BY <1>1, <1>3, <2>1, <2>3, <2>4, <2>5
<1> QED
  BY <1>2, <1>3

(* The leg found, if any, is one of the course and not the first.          *)
LEMMA BestLegIs ==
  ASSUME NEW b \in Waters, NEW wps \in Seq(Places), BestLeg(b, wps) # 0
  PROVE  /\ BestLeg(b, wps) \in 2 .. Len(wps) - 1
         /\ wps[BestLeg(b, wps)] \in Places /\ wps[BestLeg(b, wps)] # Nowhere
         /\ Along(b, wps[BestLeg(b, wps)], wps[BestLeg(b, wps) + 1]) \in Nat
         /\ LegFound(b, wps) = [from |-> wps[BestLeg(b, wps)], to |-> wps[BestLeg(b, wps) + 1]]
<1> DEFINE found == RejoinLegs(b, wps)
<1>1. Len(wps) \in Nat /\ \A i \in 1 .. Len(wps) : wps[i] \in Places
  BY LenProperties, ElementOfSeq
<1>2. found # {} /\ found \in SUBSET (0 .. Len(wps))
  BY <1>1 DEF BestLeg, RejoinLegs
<1>3. \E i \in found : \A j \in found : j <= i
  BY <1>1, <1>2, GreatestExists
<1>4. BestLeg(b, wps) \in found
  BY <1>2, <1>3 DEF BestLeg
<1>5. BestLeg(b, wps) \in 2 .. Len(wps) - 1 /\ OnLeg(b, wps[BestLeg(b, wps)], wps[BestLeg(b, wps) + 1])
  BY <1>4 DEF RejoinLegs
<1>6. wps[BestLeg(b, wps)] \in Places /\ wps[BestLeg(b, wps) + 1] \in Places
  BY <1>1, <1>5
<1> QED
  BY <1>2, <1>5, <1>6, ApproachAssumption DEF OnLeg, LegFound

(* What is left of a goal's course is a course.                            *)
LEMMA RemainingIs ==
  ASSUME NEW g \in CourseGoals
  PROVE  /\ Remaining(g) \in Seq(Places)
         /\ Len(Remaining(g)) = Len(g.wps) - g.idx
<1>1. g.wps \in Seq(Places) /\ g.idx \in Nat /\ g.idx <= Len(g.wps)
  BY DEF CourseGoals, Goals
<1>2. Len(g.wps) \in Nat /\ \A i \in 1 .. Len(g.wps) : g.wps[i] \in Places
  BY <1>1, LenProperties, ElementOfSeq
<1>3. \A i \in g.idx + 1 .. Len(g.wps) : g.wps[i] \in Places
  BY <1>1, <1>2
<1> DEFINE m == g.idx + 1
<1>4. m \in Int /\ Len(g.wps) - m + 1 = Len(g.wps) - g.idx /\ (m <= Len(g.wps) <=> g.idx < Len(g.wps))
  BY <1>1, <1>2
<1>5. \A i \in m .. Len(g.wps) : g.wps[i] \in Places
  BY <1>3
<1>6. /\ SubSeq(g.wps, m, Len(g.wps)) \in Seq(Places)
      /\ Len(SubSeq(g.wps, m, Len(g.wps))) = IF m <= Len(g.wps) THEN Len(g.wps) - m + 1 ELSE 0
  <2> HIDE DEF m
  <2> QED BY <1>2, <1>4, <1>5, SubSeqProperties
<1> QED
  BY <1>1, <1>2, <1>4, <1>6 DEF Remaining

-----------------------------------------------------------------------------
(* Steps that do not poll.                                                 *)

(* What advance makes of a goal that has a waypoint to go is another, with *)
(* its cursor as far on as it was told, or on the first, or past the last. *)
LEMMA AdvancedIs ==
  ASSUME NEW g \in CourseGoals, NEW n \in Nat \ {0}
  PROVE  /\ Advanced(g, n) \in CourseGoals
         /\ IF g.idx + n < Len(g.wps) THEN Advanced(g, n).idx = g.idx + n
            ELSE Advanced(g, n).idx \in {0, Len(g.wps)}
         /\ Advanced(g, n).state \in {g.state, "succeeded"}
<1>1. /\ g.idx \in Nat /\ g.lap \in Nat /\ Len(g.wps) \in Nat /\ g.idx <= Len(g.wps)
      /\ g.wps \in Seq(Places) /\ g \in Goals(Places, {"unnamed"})
  BY LenProperties DEF CourseGoals, Goals
<1>2. CASE g.idx + n < Len(g.wps)
  <2> DEFINE Further(k) == [g EXCEPT !.idx = k]
  <2>1. Advanced(g, n) = Further(g.idx + n)
    BY <1>2 DEF Advanced
  <2>2. ASSUME NEW k \in 0 .. Len(g.wps)
        PROVE  Further(k) \in CourseGoals /\ Further(k).idx = k /\ Further(k).state = g.state
    <3>1. Further(k) \in Goals(Places, {"unnamed"}) /\ Further(k).wps = g.wps
          /\ Further(k).idx = k /\ Further(k).state = g.state
      BY <1>1 DEF Goals
    <3> HIDE DEF Further
    <3> QED
      BY <1>1, <3>1 DEF CourseGoals
  <2>3. g.idx + n \in 0 .. Len(g.wps)
    BY <1>1, <1>2
  <2> HIDE DEF Further
  <2> QED
    BY <1>2, <2>1, <2>2, <2>3
<1>3. CASE ~(g.idx + n < Len(g.wps)) /\ g.loop /\ Len(g.wps) > 0
  <2> DEFINE Wrapped(k) == [g EXCEPT !.idx = 0, !.lap = k]
  <2>1. Advanced(g, n) = Wrapped(g.lap + 1)
    BY <1>3 DEF Advanced
  <2>2. ASSUME NEW k \in Nat
        PROVE  Wrapped(k) \in CourseGoals /\ Wrapped(k).idx = 0 /\ Wrapped(k).state = g.state
    <3>1. Wrapped(k) \in Goals(Places, {"unnamed"}) /\ Wrapped(k).wps = g.wps
          /\ Wrapped(k).idx = 0 /\ Wrapped(k).state = g.state
      BY <1>1 DEF Goals
    <3> HIDE DEF Wrapped
    <3> QED
      BY <1>1, <3>1 DEF CourseGoals
  <2>3. g.lap + 1 \in Nat
    BY <1>1
  <2> HIDE DEF Wrapped
  <2> QED
    BY <1>3, <2>1, <2>2, <2>3
<1>4. CASE ~(g.idx + n < Len(g.wps)) /\ ~(g.loop /\ Len(g.wps) > 0)
  <2> DEFINE Done(k) == [g EXCEPT !.idx = k, !.state = "succeeded", !.finished = TRUE]
  <2>1. Advanced(g, n) = Done(Len(g.wps))
    BY <1>4 DEF Advanced
  <2>2. ASSUME NEW k \in 0 .. Len(g.wps)
        PROVE  Done(k) \in CourseGoals /\ Done(k).idx = k /\ Done(k).state = "succeeded"
    <3>1. Done(k).wps = g.wps /\ Done(k).idx = k /\ Done(k).state = "succeeded"
      BY <1>1 DEF Goals
    <3>2. k \in Nat
      BY <1>1
    <3>3. Done(k) \in Goals(Places, {"unnamed"})
      BY <1>1, <3>2 DEF Goals, GoalStates
    <3> HIDE DEF Done
    <3> QED
      BY <1>1, <3>1, <3>3 DEF CourseGoals
  <2>3. Len(g.wps) \in 0 .. Len(g.wps)
    BY <1>1
  <2> HIDE DEF Done
  <2> QED
    BY <1>4, <2>1, <2>2, <2>3
<1> QED
  BY <1>2, <1>3, <1>4

(* A goal that is set is one; nil is none.                                 *)
LEMMA NewGoalIs ==
  ASSUME NEW c \in Courses, NEW loop \in Loops, NEW i \in Nat, i < Len(c)
  PROVE  /\ NewGoal("route", "unnamed", c, i, loop, 0) \in CourseGoals
         /\ IsOpen(NewGoal("route", "unnamed", c, i, loop, 0))
         /\ NewGoal("route", "unnamed", c, i, loop, 0).idx = i
         /\ NewGoal("route", "unnamed", c, i, loop, 0).lap = 0
         /\ ~NewGoal("route", "unnamed", c, i, loop, 0).finished
<1>1. c \in Seq(Places) /\ loop \in BOOLEAN
  BY ApproachAssumption
<1>2. Len(c) \in Nat
  BY <1>1, LenProperties
<1>3. NewGoal("route", "unnamed", c, i, loop, 0) \in CourseGoals
  BY <1>1, <1>2 DEF NewGoal, CourseGoals, Goals, GoalStates
<1> QED
  BY <1>3, ApproachAssumption DEF NewGoal, IsOpen, CourseGoals

(* Edits and suspensions leave what the poller remembers true.             *)
LEMMA CallsInv ==
  ASSUME ApproachInv, UNCHANGED poller, goal' \in CourseGoals,
         goal = NoGoal \/ (IsOpen(goal') => IsOpen(goal))
  PROVE  ApproachInv'
<1>1. goal' # NoGoal
  BY ApproachAssumption DEF CourseGoals
<1>2. PollerType'
  BY DEF ApproachInv, PollerType, poller
<1>3. MemoryOfApproach'
  BY <1>1 DEF ApproachInv, MemoryOfApproach, poller
<1>4. TicksOnLeg' /\ FirstAlong'
  BY DEF ApproachInv, TicksOnLeg, FirstAlong, poller
<1> QED
  BY <1>2, <1>3, <1>4 DEF ApproachInv

(* A goal set, or set again from where it was, keeps the invariant.        *)
LEMMA StartGoalInv ==
  ASSUME ApproachInv, FirstGoal \/ Edit
  PROVE  ApproachInv'
<1>1. CASE FirstGoal
  BY <1>1, NewGoalIs, CallsInv DEF FirstGoal, StartGoal
<1>2. CASE Edit
  <2>1. goal \in CourseGoals /\ goal.idx \in Nat
    BY <1>2 DEF Edit, IsOpen, ApproachInv, PollerType, CourseGoals, Goals
  <2> QED
    BY <1>2, <2>1, NewGoalIs, CallsInv DEF Edit, StartGoal
<1> QED
  BY <1>1, <1>2

(* So does suspending a goal and taking it up again.                       *)
LEMMA SuspendInv ==
  ASSUME ApproachInv, Suspend \/ Resume
  PROVE  ApproachInv'
<1>1. goal \in CourseGoals /\ IsOpen(goal)
  BY DEF Suspend, Resume, IsOpen, ApproachInv, PollerType
<1>2. goal' \in CourseGoals
  BY <1>1 DEF Suspend, Resume, CourseGoals, Goals, GoalStates
<1> QED
  BY <1>1, <1>2, CallsInv DEF Suspend, Resume

(* So does a tick that judges nothing.                                     *)
LEMMA IdleInv ==
  ASSUME ApproachInv, IdleTick
  PROVE  ApproachInv'
<1>1. PollerType' /\ TicksOnLeg' /\ FirstAlong'
  BY DEF ApproachInv, PollerType, TicksOnLeg, FirstAlong, IdleTick, NoApproach, Approaches
<1>2. MemoryOfApproach'
  BY DEF ApproachInv, MemoryOfApproach, IdleTick, IsOpen
<1> QED
  BY <1>1, <1>2 DEF ApproachInv

-----------------------------------------------------------------------------
(* A tick with a fix, of an active goal with somewhere to go.              *)
Following(wps) == IF Len(wps) >= 2 THEN wps[2] ELSE Nowhere

(* What the tick judges: its goal, its course, the pair it approaches.     *)
LEMMA JudgedIs ==
  ASSUME PollerType, NEW fix \in Waters, CheckArrival(fix)
  PROVE  /\ goal \in CourseGoals /\ IsOpen(goal)
         /\ Remaining(goal) \in Seq(Places) /\ Len(Remaining(goal)) \in Nat \ {0}
         /\ Len(Remaining(goal)) = Len(goal.wps) - goal.idx
         /\ Remaining(goal)[1] \in Places /\ Remaining(goal)[1] # Nowhere
         /\ Following(Remaining(goal)) \in Places \cup {Nowhere}
<1>1. goal # NoGoal /\ goal.state = "active" /\ Remaining(goal) # <<>>
  BY DEF CheckArrival
<1>2. goal \in CourseGoals /\ IsOpen(goal)
  BY <1>1 DEF PollerType, IsOpen
<1>3. /\ Remaining(goal) \in Seq(Places) /\ Len(Remaining(goal)) = Len(goal.wps) - goal.idx
      /\ Len(Remaining(goal)) \in Nat \ {0}
  BY <1>1, <1>2, RemainingIs, EmptySeq
<1>4. \A i \in 1 .. Len(Remaining(goal)) : Remaining(goal)[i] \in Places
  BY <1>3, ElementOfSeq
<1> QED
  BY <1>2, <1>3, <1>4, ApproachAssumption DEF Following

(* decideRejoin: with no leg it forgets, with one it counts, and it skips  *)
(* what is before a leg that it counted before and that the boat is        *)
(* further along on.                                                       *)
LEMMA RejoinIs ==
  ASSUME PollerType, TicksOnLeg, NEW fix \in Waters, NEW wps \in Seq(Places)
  PROVE  LET best == BestLeg(fix, wps)
             along == Along(fix, wps[best], wps[best + 1])
             decided == DecideRejoin(fix, wps, rejoin)
         IN  \/ /\ best = 0
                /\ decided = [skip |-> 0, state |-> NoRejoinState]
             \/ /\ best # 0 /\ rejoin.leg # wps[best]
                /\ decided = [skip |-> 0, state |-> [leg |-> wps[best], first |-> along, ticks |-> 1]]
             \/ /\ best # 0 /\ rejoin.leg = wps[best] /\ rejoin.ticks > 0
                /\ decided.skip = 0
                /\ decided.state.leg = wps[best] /\ decided.state.first = rejoin.first
                /\ decided.state.ticks = Smaller(RejoinConfirmTicks, rejoin.ticks + 1)
                /\ decided.state = [rejoin EXCEPT !.ticks = Smaller(RejoinConfirmTicks, @ + 1)]
             \/ /\ best # 0 /\ rejoin.leg = wps[best] /\ rejoin.ticks >= RejoinConfirmTicks - 1
                /\ along >= rejoin.first + RejoinMinProgress
                /\ decided = [skip |-> best, state |-> NoRejoinState]
<1> DEFINE best == BestLeg(fix, wps)
           along == Along(fix, wps[best], wps[best + 1])
           decided == DecideRejoin(fix, wps, rejoin)
<1>1. CASE best = 0
  BY <1>1 DEF DecideRejoin
<1>2. CASE best # 0 /\ rejoin.leg # wps[best]
  <2> DEFINE begun == [leg |-> wps[best], first |-> along, ticks |-> 1]
  <2>1. begun.ticks # RejoinConfirmTicks
    BY DEF RejoinConfirmTicks
  <2>2. decided = IF begun.ticks = RejoinConfirmTicks /\ along >= begun.first + RejoinMinProgress
                  THEN [skip |-> best, state |-> NoRejoinState]
                  ELSE [skip |-> 0, state |-> begun]
    BY <1>2 DEF DecideRejoin
  <2> QED
    BY <1>2, <2>1, <2>2
<1>3. CASE best # 0 /\ rejoin.leg = wps[best]
  <2> DEFINE counted == [rejoin EXCEPT !.ticks = Smaller(RejoinConfirmTicks, @ + 1)]
  <2>1. wps[best] # Nowhere
    BY <1>3, BestLegIs
  <2>2. rejoin.ticks \in 0 .. 3 /\ rejoin.ticks > 0
    BY <1>3, <2>1 DEF PollerType, TicksOnLeg, RejoinConfirmTicks
  <2>3. decided = IF counted.ticks = RejoinConfirmTicks /\ along >= counted.first + RejoinMinProgress
                  THEN [skip |-> best, state |-> NoRejoinState]
                  ELSE [skip |-> 0, state |-> counted]
    BY <1>3 DEF DecideRejoin
  <2>4. /\ counted.leg = rejoin.leg /\ counted.first = rejoin.first
        /\ counted.ticks = Smaller(RejoinConfirmTicks, rejoin.ticks + 1)
    BY DEF PollerType
  <2>5. counted = [rejoin EXCEPT !.ticks = Smaller(RejoinConfirmTicks, @ + 1)]
    OBVIOUS
  <2> HIDE DEF counted
  <2> QED
    BY <1>3, <2>1, <2>2, <2>3, <2>4, <2>5 DEF RejoinConfirmTicks, Smaller
<1> QED
  BY <1>1, <1>2, <1>3

(* decideArrival remembers this pair; its minimum is no less than the      *)
(* closest the boat has been on this approach.                             *)
LEMMA ArrivalIs ==
  ASSUME PollerType, MemoryOfApproach, IsOpen(goal), NEW fix \in Waters,
         NEW wp \in Places, NEW following \in Places \cup {Nowhere}
  PROVE  LET new == DecideArrival(fix, wp, following, arrival).state
             near == Approaching(fix, wp, following)
         IN  /\ new \in Memories /\ new.wp = wp /\ new.following = following
             /\ near \in Approaches /\ near.wp = wp /\ near.following = following
             /\ near.closest <= new.min
<1> DEFINE f == ToFollowing(fix, following)
           state == ForPair(fix, wp, following, arrival)
           new == Remembered(fix, state)
           near == Approaching(fix, wp, following)
<1>1. Dist(fix, wp) \in Nat /\ f \in Int /\ wp # Nowhere
  BY ApproachAssumption DEF ToFollowing
<1>2. state \in Memories /\ state.wp = wp /\ state.following = following
  BY <1>1 DEF ForPair, PollerType, Memories
<1>3. /\ new \in Memories /\ new.wp = wp /\ new.following = following
      /\ new.min = Smaller(Dist(fix, wp), state.min)
  <2>1. /\ Smaller(Dist(fix, wp), state.min) \in Nat
        /\ Smaller(f, state.minF) \in Int /\ Larger(f, state.maxF) \in Int
    BY <1>1, <1>2 DEF Memories, Smaller, Larger
  <2>2. new = [state EXCEPT !.min = Smaller(Dist(fix, wp), state.min),
                            !.minF = Smaller(f, state.minF), !.maxF = Larger(f, state.maxF)]
    BY <1>2 DEF Remembered
  <2> HIDE DEF state, f, new
  <2> QED
    BY <1>2, <2>1, <2>2 DEF Memories
<1>4. /\ near \in Approaches /\ near.wp = wp /\ near.following = following
      /\ IF approach.wp = wp /\ approach.following = following
         THEN near.closest = Smaller(approach.closest, Dist(fix, wp)) ELSE near.closest = Dist(fix, wp)
  <2>1. Smaller(approach.closest, Dist(fix, wp)) \in Nat
    BY <1>1 DEF PollerType, Approaches, Smaller
  <2>2. CASE approach.wp = wp /\ approach.following = following
    <3>1. near = [approach EXCEPT !.closest = Smaller(approach.closest, Dist(fix, wp))]
      BY <2>2 DEF Approaching
    <3> HIDE DEF near
    <3> QED
      BY <2>1, <2>2, <3>1 DEF PollerType, Approaches
  <2>3. CASE ~(approach.wp = wp /\ approach.following = following)
    BY <1>1, <2>3 DEF Approaching, Approaches
  <2> QED
    BY <2>2, <2>3
<1>5. near.closest <= new.min
  <2>1. CASE arrival.wp = wp /\ arrival.following = following
    <3>1. state = arrival /\ arrival.min \in Nat
      BY <2>1 DEF ForPair, PollerType, Memories
    <3>2. /\ approach.wp = wp /\ approach.following = following
          /\ approach.closest \in Nat /\ approach.closest <= arrival.min
      BY <1>1, <2>1 DEF MemoryOfApproach, PollerType, Approaches
    <3> HIDE DEF near, new, state
    <3> QED
      BY <1>1, <1>3, <1>4, <3>1, <3>2 DEF Smaller
  <2>2. CASE ~(arrival.wp = wp /\ arrival.following = following)
    <3>1. state.min = Dist(fix, wp)
      BY <2>2 DEF ForPair
    <3>2. approach.closest \in Nat
      BY DEF PollerType, Approaches
    <3> HIDE DEF near, new, state
    <3> QED
      BY <1>1, <1>3, <1>4, <3>1, <3>2 DEF Smaller
  <2> QED
    BY <2>1, <2>2
<1> QED
  BY <1>3, <1>4, <1>5 DEF DecideArrival

(* The waypoint is only found reached by a boat that is there or has been  *)
(* closer on this approach.                                                *)
LEMMA ArrivedIs ==
  ASSUME PollerType, MemoryOfApproach, IsOpen(goal), NEW fix \in Waters,
         NEW wp \in Places, NEW following \in Places \cup {Nowhere},
         DecideArrival(fix, wp, following, arrival).arrived
  PROVE  \/ Dist(fix, wp) < ArrivalDistance
         \/ Approaching(fix, wp, following).closest < Dist(fix, wp)
<1> DEFINE state == ForPair(fix, wp, following, arrival)
           new == Remembered(fix, state)
           near == Approaching(fix, wp, following)
<1>1. /\ new \in Memories /\ near \in Approaches /\ near.closest <= new.min
  BY ArrivalIs DEF DecideArrival
<1>2. Arrived(fix, state, new)
  BY DEF DecideArrival
<1>3. state.wp = wp /\ Dist(fix, wp) \in Nat
  BY ApproachAssumption DEF ForPair
<1>4. new.min \in Nat /\ near.closest \in Nat
  BY <1>1 DEF Memories, Approaches
<1> HIDE DEF state, new, near
<1>5. Dist(fix, wp) < ArrivalDistance \/ new.min < Dist(fix, wp)
  BY <1>2, <1>3, <1>4 DEF Arrived, Beyond, ArrivalDistance
<1>6. Dist(fix, wp) < ArrivalDistance \/ near.closest < Dist(fix, wp)
  BY <1>1, <1>3, <1>4, <1>5 DEF ArrivalDistance
<1> QED
  BY <1>6 DEF near

-----------------------------------------------------------------------------
(* A tick with a fix keeps the invariant.                                  *)

(* A tick leaves the goal alone or moves its cursor on.                    *)
LEMMA TickGoal ==
  ASSUME PollerType, TicksOnLeg, NEW fix \in Waters, CheckArrival(fix)
  PROVE  goal' = goal \/ \E n \in Nat \ {0} : goal' = Advanced(goal, n)
<1> DEFINE wps == Remaining(goal)
           rejoined == DecideRejoin(fix, wps, rejoin)
<1>1. wps \in Seq(Places) /\ Len(wps) \in Nat
  BY JudgedIs
<1>2. rejoined.skip = 0 \/ (rejoined.skip = BestLeg(fix, wps) /\ BestLeg(fix, wps) # 0)
  BY <1>1, RejoinIs
<1>3. rejoined.skip > 0 => rejoined.skip \in Nat \ {0}
  BY <1>1, <1>2, BestLegIs
<1>4. goal' = goal \/ goal' = Advanced(goal, 1) \/ (rejoined.skip > 0 /\ goal' = Advanced(goal, rejoined.skip))
  BY DEF CheckArrival, Advance
<1> QED
  BY <1>3, <1>4

(* The leg found joins the others as the last.                             *)
LEMMA TickLegs ==
  ASSUME PollerType, NEW from \in Places \cup {Nowhere}, legs' = LastFew(Append(legs, from))
  PROVE  /\ legs' \in Seq(Places \cup {Nowhere})
         /\ Len(legs) \in Nat
         /\ Len(legs') = IF Len(legs) < RejoinConfirmTicks THEN Len(legs) + 1 ELSE RejoinConfirmTicks
         /\ legs'[Len(legs')] = from
         /\ \A k \in 0 .. RejoinConfirmTicks : \A leg :
              k <= Len(legs) /\ (\A i \in Len(legs) - k + 1 .. Len(legs) : legs[i] = leg) /\ from = leg
                => \A i \in 1 .. Len(legs') : i > Len(legs') - k - 1 => legs'[i] = leg
<1> DEFINE S == Places \cup {Nowhere}
           longer == Append(legs, from)
<1>1. legs \in Seq(S) /\ Len(legs) \in Nat
  BY LenProperties DEF PollerType
<1>2. /\ longer \in Seq(S) /\ Len(longer) = Len(legs) + 1
      /\ \A i \in 1 .. Len(legs) : longer[i] = legs[i]
      /\ longer[Len(legs) + 1] = from
  BY <1>1, AppendProperties
<1> HIDE DEF longer, S
<1>3. /\ legs' \in Seq(S)
      /\ Len(legs') = IF Len(longer) <= RejoinConfirmTicks THEN Len(longer) ELSE RejoinConfirmTicks
      /\ \A i \in 1 .. Len(legs') : legs'[i] = longer[Len(longer) - Len(legs') + i]
  BY <1>2, LastFewIs DEF longer
<1>4. /\ Len(legs') = IF Len(legs) < RejoinConfirmTicks THEN Len(legs) + 1 ELSE RejoinConfirmTicks
      /\ Len(legs') \in 1 .. 3 /\ Len(legs') <= Len(legs) + 1
  BY <1>1, <1>2, <1>3 DEF RejoinConfirmTicks
<1>a. PICK a \in Nat : a = Len(legs)
  BY <1>1
<1>b. PICK b \in 1 .. 3 : b = Len(legs') /\ b <= a + 1 /\ b = IF a < 3 THEN a + 1 ELSE 3
  BY <1>4, <1>a DEF RejoinConfirmTicks
<1>c. \A i \in 1 .. b : legs'[i] = longer[a + 1 - b + i]
  <2>1. Len(longer) = a + 1 /\ Len(legs') = b
    BY <1>2, <1>a, <1>b
  <2>2. \A i \in 1 .. Len(legs') : legs'[i] = longer[Len(longer) - Len(legs') + i]
    BY <1>3
  <2> QED
    BY ONLY <2>1, <2>2
<1>5. legs'[b] = from
  <2>1. a + 1 - b + b = a + 1 /\ b \in 1 .. b
    OBVIOUS
  <2> QED
    BY <1>2, <1>a, <1>c, <2>1
<1>6. ASSUME NEW k \in 0 .. 3, NEW leg, k <= a, from = leg,
             \A i \in a - k + 1 .. a : legs[i] = leg,
             NEW i \in 1 .. b, i > b - k - 1
      PROVE  legs'[i] = leg
  <2>1. PICK j \in Int : j = a + 1 - b + i
    OBVIOUS
  <2>2. j \in 1 .. a + 1 /\ j > a - k
    BY <1>6, <1>b, <2>1
  <2>3. legs'[i] = longer[j]
    BY <1>c, <2>1
  <2>4. CASE j = a + 1
    BY <1>2, <1>6, <1>a, <2>3, <2>4
  <2>5. CASE j # a + 1
    <3>1. j \in 1 .. a /\ j \in a - k + 1 .. a
      BY <2>2, <2>5
    <3>2. longer[j] = legs[j]
      BY <1>2, <1>a, <3>1
    <3>3. legs[j] = leg
      BY <1>6, <3>1
    <3> QED
      BY <2>3, <3>2, <3>3
  <2> QED
    BY <2>4, <2>5
<1>7. ASSUME NEW k \in 0 .. RejoinConfirmTicks, NEW leg,
             k <= Len(legs), \A i \in Len(legs) - k + 1 .. Len(legs) : legs[i] = leg, from = leg
      PROVE  \A i \in 1 .. Len(legs') : i > Len(legs') - k - 1 => legs'[i] = leg
  <2>1. k \in 0 .. 3 /\ k <= a /\ \A i \in a - k + 1 .. a : legs[i] = leg
    BY <1>7, <1>a DEF RejoinConfirmTicks
  <2>2. \A i \in 1 .. b : i > b - k - 1 => legs'[i] = leg
    BY <1>6, <1>7, <2>1
  <2> QED
    BY <1>b, <2>2
<1>8. legs'[Len(legs')] = from /\ legs' \in Seq(Places \cup {Nowhere})
  BY <1>3, <1>5, <1>b DEF S
<1> QED
  BY <1>1, <1>4, <1>7, <1>8

(* The leg found starts at a place of the course, or nowhere.              *)
LEMMA LegFoundIs ==
  ASSUME NEW fix \in Waters, NEW wps \in Seq(Places)
  PROVE  /\ LegFound(fix, wps).from \in Places \cup {Nowhere}
         /\ BestLeg(fix, wps) # 0 => LegFound(fix, wps).from = wps[BestLeg(fix, wps)]
<1>1. CASE RejoinLegs(fix, wps) = {}
  BY <1>1 DEF LegFound, BestLeg
<1>2. CASE RejoinLegs(fix, wps) # {}
  <2>1. Len(wps) \in Nat /\ RejoinLegs(fix, wps) \in SUBSET (0 .. Len(wps))
    BY LenProperties DEF RejoinLegs
  <2>2. BestLeg(fix, wps) \in RejoinLegs(fix, wps)
    BY <1>2, <2>1, GreatestExists DEF BestLeg
  <2>3. BestLeg(fix, wps) # 0
    BY <2>1, <2>2 DEF RejoinLegs
  <2> QED
    BY <2>3, BestLegIs
<1> QED
  BY <1>1, <1>2

(* The ticks counted after a tick are the last ones, and the leg counted   *)
(* is the one that is being confirmed.                                     *)
LEMMA TickRejoin ==
  ASSUME ApproachInv, NEW fix \in Waters, CheckArrival(fix)
  PROVE  /\ rejoin' \in [leg : Places \cup {Nowhere}, first : Nat, ticks : 0 .. RejoinConfirmTicks]
         /\ legs' \in Seq(Places \cup {Nowhere})
         /\ TicksOnLeg' /\ FirstAlong'
<1> DEFINE wps == Remaining(goal)
           best == BestLeg(fix, wps)
           found == LegFound(fix, wps)
           along == Along(fix, wps[best], wps[best + 1])
           decided == DecideRejoin(fix, wps, rejoin)
<1>1. PollerType /\ TicksOnLeg /\ FirstAlong
  BY DEF ApproachInv
<1>2. wps \in Seq(Places)
  BY <1>1, JudgedIs
<1>3. /\ rejoin' = decided.state /\ boat' = fix
      /\ legs' = LastFew(Append(legs, found.from)) /\ candidate' = Confirming(fix, wps)
  BY DEF CheckArrival
<1>4. found.from \in Places \cup {Nowhere}
  BY <1>2, LegFoundIs
<1>5. best # 0 => /\ wps[best] \in Places /\ wps[best] # Nowhere /\ along \in Nat
                  /\ found = [from |-> wps[best], to |-> wps[best + 1]]
  BY <1>2, BestLegIs
<1>6. /\ rejoin \in [leg : Places \cup {Nowhere}, first : Nat, ticks : 0 .. 3]
  BY <1>1 DEF PollerType, RejoinConfirmTicks
<1>7. PICK a \in Nat, b \in 1 .. 3 :
        /\ a = Len(legs) /\ b = Len(legs') /\ b = (IF a < 3 THEN a + 1 ELSE 3)
        /\ legs' \in Seq(Places \cup {Nowhere}) /\ legs'[b] = found.from
        /\ \A k \in 0 .. 3 : \A leg :
             k <= a /\ (\A i \in a - k + 1 .. a : legs[i] = leg) /\ found.from = leg
               => \A i \in 1 .. b : i > b - k - 1 => legs'[i] = leg
  <2> HIDE DEF found
  <2>1. Len(legs) \in Nat /\ Len(legs') \in 1 .. 3
    <3>1. Len(legs) \in Nat /\ Len(legs') = IF Len(legs) < 3 THEN Len(legs) + 1 ELSE 3
      BY <1>1, <1>3, <1>4, TickLegs DEF RejoinConfirmTicks
    <3> QED
      BY <3>1
  <2> QED
    BY <1>1, <1>3, <1>4, <2>1, TickLegs DEF RejoinConfirmTicks
<1>8. CASE decided.state = NoRejoinState
  BY <1>3, <1>7, <1>8 DEF NoRejoinState, TicksOnLeg, FirstAlong, RejoinConfirmTicks
<1>9. CASE best # 0 /\ decided.state = [leg |-> wps[best], first |-> along, ticks |-> 1]
  <2>1. /\ rejoin'.leg = wps[best] /\ rejoin'.first = along /\ rejoin'.ticks = 1
        /\ rejoin' \in [leg : Places \cup {Nowhere}, first : Nat, ticks : 0 .. RejoinConfirmTicks]
    BY <1>3, <1>5, <1>9 DEF RejoinConfirmTicks
  <2>2. candidate'.leg = found
    BY <1>3 DEF Confirming
  <2> HIDE DEF along, found
  <2>3. TicksOnLeg'
    BY <1>5, <1>7, <1>9, <2>1 DEF TicksOnLeg
  <2>4. FirstAlong'
    BY <1>3, <1>5, <1>9, <2>1, <2>2 DEF FirstAlong, along
  <2> QED
    BY <1>7, <2>1, <2>3, <2>4
<1>10. CASE /\ best # 0 /\ rejoin.leg = wps[best] /\ rejoin.ticks > 0
            /\ decided.state.leg = wps[best] /\ decided.state.first = rejoin.first
            /\ decided.state.ticks = Smaller(RejoinConfirmTicks, rejoin.ticks + 1)
            /\ decided.state = [rejoin EXCEPT !.ticks = Smaller(RejoinConfirmTicks, @ + 1)]
  <2> HIDE DEF decided, found
  <2>1. PICK t \in 1 .. 3 : t = rejoin.ticks
    BY <1>6, <1>10
  <2>2. PICK u \in 1 .. 3 : u = rejoin'.ticks /\ u = (IF 3 < t + 1 THEN 3 ELSE t + 1)
    <3>1. (IF 3 < t + 1 THEN 3 ELSE t + 1) \in 1 .. 3
      OBVIOUS
    <3> QED
      BY <1>3, <1>10, <2>1, <3>1 DEF Smaller, RejoinConfirmTicks
  <2>3. rejoin' \in [leg : Places \cup {Nowhere}, first : Nat, ticks : 0 .. 3]
    <3>1. Smaller(RejoinConfirmTicks, rejoin.ticks + 1) \in 0 .. 3
      BY <2>1 DEF Smaller, RejoinConfirmTicks
    <3>2. rejoin' = [rejoin EXCEPT !.ticks = Smaller(RejoinConfirmTicks, rejoin.ticks + 1)]
      BY <1>3, <1>10
    <3> QED
      BY <1>6, <3>1, <3>2
  <2>4. rejoin'.leg = wps[best] /\ rejoin'.first = rejoin.first
    BY <1>3, <1>10
  <2>5. t <= a /\ \A i \in a - t + 1 .. a : legs[i] = wps[best]
    BY <1>1, <1>7, <1>10, <2>1 DEF TicksOnLeg
  <2>6. found.from = wps[best]
    BY <1>5, <1>10
  <2>7. \A i \in 1 .. b : i > b - t - 1 => legs'[i] = wps[best]
    BY <1>7, <2>5, <2>6, SMTT(30)
  <2>8. TicksOnLeg'
    <3>1. u <= b /\ \A i \in b - u + 1 .. b : i \in 1 .. b /\ i > b - t - 1
      BY <1>7, <2>2, <2>5
    <3>2. \A i \in b - u + 1 .. b : legs'[i] = wps[best]
      BY <2>7, <3>1
    <3> QED
      BY <1>5, <1>7, <1>10, <2>2, <2>4, <3>1, <3>2 DEF TicksOnLeg
  <2>9. FirstAlong'
    <3>1. candidate.leg.from = rejoin.leg
          /\ (candidate.kept /\ ~candidate.moved
                => rejoin.first = Along(boat, candidate.leg.from, candidate.leg.to))
      BY <1>1, <1>10 DEF FirstAlong
    <3>2. candidate' = [leg |-> found, kept |-> candidate.kept /\ found = candidate.leg,
                        moved |-> candidate.moved \/ fix # boat]
      BY <1>3, <1>10, <2>6, <3>1 DEF Confirming, found
    <3>3. /\ candidate'.leg = found
          /\ candidate'.kept /\ ~candidate'.moved
               => candidate.kept /\ ~candidate.moved /\ found = candidate.leg /\ fix = boat
      BY ONLY <3>2, Zenon
    <3> QED
      BY <1>3, <1>10, <2>4, <2>6, <3>1, <3>3 DEF FirstAlong
  <2> QED
    BY <1>7, <2>3, <2>8, <2>9 DEF RejoinConfirmTicks
<1> QED
  BY <1>1, <1>2, <1>8, <1>9, <1>10, RejoinIs

(* A tick keeps the invariant.                                             *)
LEMMA TickInv ==
  ASSUME ApproachInv, NEW fix \in Waters, CheckArrival(fix)
  PROVE  ApproachInv'
<1> DEFINE wps == Remaining(goal)
           following == Following(wps)
           decided == DecideArrival(fix, wps[1], following, arrival)
<1>1. PollerType /\ MemoryOfApproach /\ TicksOnLeg
  BY DEF ApproachInv
<1>2. goal \in CourseGoals /\ IsOpen(goal) /\ wps[1] \in Places /\ following \in Places \cup {Nowhere}
  BY <1>1, JudgedIs
<1>3. goal' \in CourseGoals
  BY <1>1, <1>2, TickGoal, AdvancedIs
<1>4. /\ arrival' = NoArrivalState \/ arrival' = decided.state
      /\ approach' = Approaching(fix, wps[1], following) /\ boat' = fix
  BY DEF CheckArrival, Following
<1>5. /\ decided.state \in Memories /\ decided.state.wp = wps[1] /\ decided.state.following = following
      /\ approach' \in Approaches /\ approach'.wp = wps[1] /\ approach'.following = following
      /\ approach'.closest <= decided.state.min
  BY <1>1, <1>2, <1>4, ArrivalIs
<1>6. NoArrivalState \in Memories /\ NoArrivalState.wp = Nowhere
  BY DEF NoArrivalState, Memories
<1>7. PollerType'
  BY <1>3, <1>4, <1>5, <1>6, TickRejoin DEF PollerType
<1>8. MemoryOfApproach'
  BY <1>3, <1>4, <1>5, <1>6, ApproachAssumption DEF MemoryOfApproach, CourseGoals
<1> QED
  BY <1>7, <1>8, TickRejoin DEF ApproachInv

(* What the poller remembers is true while one goal is pursued.            *)
THEOREM ApproachInvariant == EditSpec => []ApproachInv
<1>1. Init => ApproachInv
  <2>1. NoApproach \in Approaches /\ NoArrivalState \in Memories
    BY DEF NoApproach, Approaches, NoArrivalState, Memories
  <2>2. <<>> \in Seq(Places \cup {Nowhere})
    BY EmptySeq
  <2> QED
    BY <2>1, <2>2 DEF Init, ApproachInv, PollerType, MemoryOfApproach, TicksOnLeg, FirstAlong, NoArrivalState,
       NoRejoinState, RejoinConfirmTicks, IsOpen
<1>2. ApproachInv /\ [EditNext]_vars => ApproachInv'
  <2> SUFFICES ASSUME ApproachInv, [EditNext]_vars PROVE ApproachInv'
    OBVIOUS
  <2>1. CASE UNCHANGED vars
    BY <2>1 DEF ApproachInv, PollerType, MemoryOfApproach, TicksOnLeg, FirstAlong, vars, poller
  <2> QED
    BY <2>1, StartGoalInv, SuspendInv, IdleInv, TickInv DEF EditNext, Poll
<1> QED
  BY <1>1, <1>2, PTL DEF EditSpec

-----------------------------------------------------------------------------
(* What advances the goal.                                                 *)

(* A step that marks one waypoint is a tick that judged it reached.        *)
LEMMA MarksOneIs ==
  ASSUME ApproachInv, EditNext, MarksOne
  PROVE  \E fix \in Waters :
           /\ CheckArrival(fix)
           /\ DecideArrival(fix, Remaining(goal)[1], Following(Remaining(goal)), arrival).arrived
<1>1. goal \in CourseGoals /\ PollerType /\ TicksOnLeg
  BY DEF MarksOne, ApproachInv, PollerType
<1>2. goal.idx \in Nat /\ goal.lap \in Nat /\ goal.wps \in Seq(Places)
  BY <1>1 DEF CourseGoals, Goals
<1>3. Len(goal.wps) \in Nat
  BY <1>2, LenProperties
<1>4. goal'.idx = goal.idx + 1 \/ goal'.lap = goal.lap + 1 \/ goal'.finished
  BY <1>1 DEF MarksOne, Advanced, CourseGoals, Goals
<1>5. goal'.state \in {goal.state, "succeeded"}
  BY <1>1, AdvancedIs DEF MarksOne
<1>6. ~FirstGoal /\ ~IdleTick
  BY DEF MarksOne, FirstGoal, IdleTick
<1>7. ~Edit
  <2> SUFFICES ASSUME Edit PROVE FALSE
    OBVIOUS
  <2>1. goal'.idx = goal.idx /\ goal'.lap = 0 /\ ~goal'.finished
    BY <1>2, NewGoalIs DEF Edit, StartGoal
  <2> QED
    BY <1>2, <1>4, <2>1
<1>8. ~Suspend /\ ~Resume
  BY <1>1, <1>5 DEF Suspend, Resume, CourseGoals, Goals
<1>9. PICK fix \in Waters : CheckArrival(fix)
  BY <1>6, <1>7, <1>8 DEF EditNext, Poll
<1> DEFINE wps == Remaining(goal)
           best == BestLeg(fix, wps)
           skip == DecideRejoin(fix, wps, rejoin).skip
<1>10. wps \in Seq(Places) /\ Len(wps) = Len(goal.wps) - goal.idx
  BY <1>1, <1>9, JudgedIs
<1>11. skip = 0
  <2> SUFFICES ASSUME skip # 0 PROVE FALSE
    OBVIOUS
  <2>1. skip = best /\ best # 0
    BY <1>1, <1>10, RejoinIs
  <2>2. best \in 2 .. Len(wps) - 1
    BY <1>10, <2>1, BestLegIs
  <2>3. goal' = Advanced(goal, best)
    BY <1>9, <2>1, <2>2 DEF CheckArrival, Advance, MarksOne
  <2> HIDE DEF best, wps, skip
  <2>4. best \in Nat \ {0} /\ goal.idx + best < Len(goal.wps) /\ goal.idx + 1 < Len(goal.wps)
    BY <1>2, <1>3, <1>10, <2>2
  <2>5. goal'.idx = goal.idx + best /\ goal'.idx = goal.idx + 1
    BY <1>1, <2>3, <2>4, AdvancedIs DEF MarksOne
  <2> QED
    BY <1>2, <2>2, <2>5
<1>12. DecideArrival(fix, wps[1], Following(wps), arrival).arrived
  BY <1>9, <1>11 DEF CheckArrival, MarksOne, Following
<1> QED
  BY <1>9, <1>12

(* A waypoint is marked reached only by a boat that is there or has been   *)
(* closer on this approach, while one goal is pursued (arrival.go:32-36).  *)
THEOREM WaypointsArePassed == EditSpec => PassedOnThisApproach
<1>1. ASSUME ApproachInv, EditNext, MarksOne
      PROVE  \/ Dist(boat', Remaining(goal)[1]) < ArrivalDistance
             \/ approach'.closest < Dist(boat', Remaining(goal)[1])
  <2> DEFINE wps == Remaining(goal)
  <2>1. PICK fix \in Waters :
          /\ CheckArrival(fix) /\ DecideArrival(fix, wps[1], Following(wps), arrival).arrived
    BY <1>1, MarksOneIs
  <2>2. IsOpen(goal) /\ wps[1] \in Places /\ Following(wps) \in Places \cup {Nowhere}
    BY <1>1, <2>1, JudgedIs DEF ApproachInv
  <2>3. boat' = fix /\ approach' = Approaching(fix, wps[1], Following(wps))
    BY <2>1 DEF CheckArrival, Following
  <2> QED
    BY <1>1, <2>1, <2>2, <2>3, ArrivedIs DEF ApproachInv
<1>2. ApproachInv /\ [EditNext]_vars =>
        [MarksOne => LET d == Dist(boat', Remaining(goal)[1])
                     IN  d < ArrivalDistance \/ approach'.closest < d]_vars
  BY <1>1
<1> QED
  BY <1>2, ApproachInvariant, PTL DEF EditSpec, PassedOnThisApproach

(* A step that skips waypoints is a tick that found the boat on the leg it *)
(* was found on by the two before, and further along.                      *)
LEMMA RejoinsIs ==
  ASSUME ApproachInv, EditNext, Rejoins
  PROVE  \E fix \in Waters :
           LET wps == Remaining(goal)
               best == BestLeg(fix, wps)
           IN  /\ CheckArrival(fix) /\ wps \in Seq(Places) /\ best # 0
               /\ rejoin.leg = wps[best] /\ rejoin.ticks >= RejoinConfirmTicks - 1
               /\ Along(fix, wps[best], wps[best + 1]) >= rejoin.first + RejoinMinProgress
<1>1. goal \in CourseGoals /\ PollerType /\ TicksOnLeg
  BY DEF Rejoins, ApproachInv, PollerType
<1>2. goal.idx \in Nat /\ goal.wps \in Seq(Places) /\ Len(goal.wps) \in Nat
  BY <1>1, LenProperties DEF CourseGoals, Goals
<1>3. goal'.idx # goal.idx
  BY <1>2 DEF Rejoins
<1>4. ~FirstGoal /\ ~IdleTick /\ ~Suspend /\ ~Resume
  BY <1>1, <1>3 DEF Rejoins, FirstGoal, IdleTick, Suspend, Resume, CourseGoals, Goals
<1>5. ~Edit
  BY <1>2, <1>3, NewGoalIs DEF Edit, StartGoal
<1>6. PICK fix \in Waters : CheckArrival(fix)
  BY <1>4, <1>5 DEF EditNext, Poll
<1> DEFINE wps == Remaining(goal)
           skip == DecideRejoin(fix, wps, rejoin).skip
<1>7. wps \in Seq(Places)
  BY <1>1, <1>6, JudgedIs
<1>8. skip # 0
  <2> SUFFICES ASSUME skip = 0 PROVE FALSE
    OBVIOUS
  <2>1. goal' = Advanced(goal, 1)
    BY <1>3, <1>6 DEF CheckArrival, Advance
  <2>2. IF goal.idx + 1 < Len(goal.wps) THEN goal'.idx = goal.idx + 1 ELSE goal'.idx \in {0, Len(goal.wps)}
    BY <1>1, <2>1, AdvancedIs
  <2> QED
    BY <1>2, <2>2 DEF Rejoins
<1> QED
  BY <1>1, <1>6, <1>7, <1>8, RejoinIs

(* Waypoints are only skipped when the last three fixes all found the boat *)
(* on one leg (rejoin.go:52-53).                                           *)
THEOREM RejoinsAreConfirmed == EditSpec => RejoinIsConfirmed
<1>1. ASSUME ApproachInv, EditNext, Rejoins
      PROVE  /\ Len(legs') = RejoinConfirmTicks /\ legs'[1] # Nowhere
             /\ \A i \in DOMAIN legs' : legs'[i] = legs'[1]
  <2> DEFINE wps == Remaining(goal)
  <2>1. PICK fix \in Waters :
          LET best == BestLeg(fix, wps)
          IN  /\ CheckArrival(fix) /\ wps \in Seq(Places) /\ best # 0
              /\ rejoin.leg = wps[best] /\ rejoin.ticks >= RejoinConfirmTicks - 1
    BY <1>1, RejoinsIs
  <2> DEFINE leg == wps[BestLeg(fix, wps)]
  <2>2. leg # Nowhere /\ leg \in Places /\ LegFound(fix, wps).from = leg
    BY <2>1, BestLegIs
  <2>3. legs' = LastFew(Append(legs, leg))
    BY <2>1, <2>2 DEF CheckArrival
  <2> HIDE DEF leg
  <2>4. /\ 2 <= Len(legs) /\ \A i \in Len(legs) - 2 + 1 .. Len(legs) : legs[i] = leg
        /\ PollerType
    <3>1. rejoin.ticks \in 2 .. 3 /\ Len(legs) \in Nat
      BY <1>1, <2>1, LenProperties DEF ApproachInv, PollerType, RejoinConfirmTicks
    <3> QED
      BY <1>1, <2>1, <3>1 DEF ApproachInv, TicksOnLeg, leg
  <2>5. /\ legs' \in Seq(Places \cup {Nowhere}) /\ Len(legs') = 3
        /\ \A i \in 1 .. Len(legs') : i > Len(legs') - 2 - 1 => legs'[i] = leg
    <3>1. /\ legs' \in Seq(Places \cup {Nowhere}) /\ Len(legs) \in Nat
          /\ Len(legs') = IF Len(legs) < 3 THEN Len(legs) + 1 ELSE 3
      BY <2>2, <2>3, <2>4, TickLegs DEF RejoinConfirmTicks
    <3>2. \A i \in 1 .. Len(legs') : i > Len(legs') - 2 - 1 => legs'[i] = leg
      <4>1. 2 \in 0 .. RejoinConfirmTicks
        BY DEF RejoinConfirmTicks
      <4>2. leg \in Places \cup {Nowhere}
        BY <2>2
      <4> QED
        BY <2>3, <2>4, <4>1, <4>2, TickLegs
    <3> QED
      BY <2>4, <3>1, <3>2
  <2>6. DOMAIN legs' = 1 .. 3 /\ \A i \in 1 .. 3 : legs'[i] = leg
    BY <2>5, LenProperties
  <2> QED
    BY <2>2, <2>5, <2>6 DEF RejoinConfirmTicks
<1>2. ApproachInv /\ [EditNext]_vars =>
        [Rejoins => /\ Len(legs') = RejoinConfirmTicks /\ legs'[1] # Nowhere
                    /\ \A i \in DOMAIN legs' : legs'[i] = legs'[1]]_vars
  BY <1>1
<1> QED
  BY <1>2, ApproachInvariant, PTL DEF EditSpec, RejoinIsConfirmed

(* Unless the end of the leg moved, a boat that stayed where it was        *)
(* rejoins nothing (rejoin.go:39-40).                                      *)
THEOREM RejoinsProveMoving == EditSpec => RejoinProvesMoving
<1>1. ASSUME ApproachInv, EditNext, Rejoins, candidate'.kept, ~candidate'.moved
      PROVE  FALSE
  <2> DEFINE wps == Remaining(goal)
  <2>1. PICK fix \in Waters :
          LET best == BestLeg(fix, wps)
          IN  /\ CheckArrival(fix) /\ wps \in Seq(Places) /\ best # 0
              /\ rejoin.leg = wps[best] /\ rejoin.ticks >= RejoinConfirmTicks - 1
              /\ Along(fix, wps[best], wps[best + 1]) >= rejoin.first + RejoinMinProgress
    BY <1>1, RejoinsIs
  <2> DEFINE best == BestLeg(fix, wps)
             found == LegFound(fix, wps)
  <2>2. found = [from |-> wps[best], to |-> wps[best + 1]]
    BY <2>1, BestLegIs
  <2>3. rejoin.ticks > 0 /\ rejoin.first \in Nat
    BY <1>1, <2>1 DEF ApproachInv, PollerType, RejoinConfirmTicks
  <2>4. /\ candidate.leg.from = rejoin.leg
        /\ candidate.kept /\ ~candidate.moved => rejoin.first = Along(boat, candidate.leg.from, candidate.leg.to)
    BY <1>1, <2>3 DEF ApproachInv, FirstAlong
  <2>5. candidate' = [leg |-> found, kept |-> candidate.kept /\ found = candidate.leg,
                      moved |-> candidate.moved \/ fix # boat]
    BY <2>1, <2>2, <2>4 DEF CheckArrival, Confirming
  <2>6. candidate.kept /\ ~candidate.moved /\ found = candidate.leg /\ fix = boat
    BY ONLY <1>1, <2>5, Zenon
  <2>7. rejoin.first = Along(fix, wps[best], wps[best + 1])
    BY <2>2, <2>4, <2>6
  <2> QED
    BY <2>1, <2>3, <2>7 DEF RejoinMinProgress
<1>2. ApproachInv /\ [EditNext]_vars => [Rejoins /\ candidate'.kept => candidate'.moved]_vars
  BY <1>1
<1> QED
  BY <1>2, ApproachInvariant, PTL DEF EditSpec, RejoinProvesMoving
=============================================================================
