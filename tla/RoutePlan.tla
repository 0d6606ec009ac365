----------------------------- MODULE RoutePlan -----------------------------
(***************************************************************************)
(* AutoRouteVia (autoroute.go): a route longer than one grid can resolve.  *)
(* Over-long legs get anchors from a coarse pass, the points are grouped   *)
(* in sections planned side by side, a failed section is retried leg by    *)
(* leg and then without its anchors, the results are merged, straightened  *)
(* across the joins, refined in tight water and checked against land.      *)
(* planSection is external here: it finds a route or it does not, its      *)
(* waypoints are the ends, some of the points between, and marks of its    *)
(* own.  A point is known by its index, a mark by 0.                       *)
(***************************************************************************)
EXTENDS Integers, Sequences, FiniteSets, SequencesExt

CONSTANTS
  MaxPoints,                \* bound: points of a request, with its anchors
  MaxAnchors,               \* bound: anchors of a leg
  SectionConcurrency,       \* sections planned at once
  MaxJoinStraightenings, MaxTightWaterRefinements,
  MaxLandRepairs, MaxLandRepairPasses,
  Unplanned

ASSUME PlanAssumption ==
  /\ MaxPoints \in Nat /\ MaxPoints >= 2 /\ MaxAnchors \in Nat
  /\ SectionConcurrency \in Nat \ {0}

VARIABLES
  stage,     \* the pass AutoRouteVia is in
  placed,    \* userPlaced: for each point, whether the operator placed it
  sections,  \* index ranges of the points, each starting where the last ended
  parts,     \* planSections' results: for each section Unplanned, Failed or runs
  flying,    \* sections whose goroutine holds the semaphore
  route,     \* res.Waypoints
  pending,   \* the stretches the pass still has to visit, as they were found
  done,      \* splices of this pass
  repair     \* repairLegsOverLand: its passes, whether the last one fixed a leg,
             \* the bad legs its last check found and the route it looked at

planVars == <<stage, placed, sections, parts, flying, route, pending, done, repair>>
planning == <<placed, sections, parts, flying>>

Failed == <<>>
Points == DOMAIN placed
NumPoints == Len(placed)
Range2(s, a, b) == [k \in 1 .. b - a + 1 |-> s[a + k - 1]]
Runs(a, b) == [k \in 1 .. b - a + 1 |-> a + k - 1]
Stretch(from, to) == [from |-> from, to |-> to, was |-> SubSeq(route, from, to)]

(* The loops over a list: the places of S among 1 .. n from the front, and *)
(* what a list has at some places.                                         *)
InOrder(S, n) ==
  LET upto[k \in 0 .. n] ==
        IF k = 0 THEN <<>> ELSE IF k \in S THEN Append(upto[k - 1], k) ELSE upto[k - 1]
  IN upto[n]

Picked(s, places) == [i \in DOMAIN places |-> s[places[i]]]

PlanInit ==
  /\ stage = "anchor"
  /\ \E n \in 2 .. MaxPoints : placed = [k \in 1 .. n |-> TRUE]
  /\ sections = <<>> /\ parts = <<>> /\ flying = {}
  /\ route = <<>> /\ pending = <<>> /\ done = 0
  /\ repair = [passes |-> 0, fixed |-> FALSE, remaining |-> 0, seen |-> <<>>]

Fail == /\ stage' = "failed"
        /\ UNCHANGED <<placed, sections, parts, flying, route, pending, done, repair>>

-----------------------------------------------------------------------------
(* anchorLongLegs: a leg that does not fit gets the coarse route's marks.  *)
AnchorLongLegs ==
  /\ stage = "anchor"
  /\ \E added \in [1 .. NumPoints - 1 -> 0 .. MaxAnchors] :
       LET out[k \in 0 .. NumPoints - 1] ==
             IF k = 0 THEN <<TRUE>>
             ELSE out[k - 1] \o [a \in 1 .. added[k] |-> FALSE] \o <<TRUE>>
       IN placed' = out[NumPoints - 1]
  /\ Len(placed') <= MaxPoints
  /\ stage' = "group"
  /\ UNCHANGED <<sections, parts, flying, route, pending, done, repair>>

CoarsePassFails == stage = "anchor" /\ Fail

(* sectionsForResolution: a section grows while it fits, the next starts   *)
(* on the point the last ended at.                                         *)
GrowSection ==
  /\ stage = "group"
  /\ LET start == IF sections = <<>> THEN 1 ELSE Last(sections)[2] IN
     \E end \in start + 1 .. NumPoints :
       /\ sections' = Append(sections, <<start, end>>)
       /\ IF end = NumPoints
          THEN stage' = "plan" /\ parts' = [k \in DOMAIN sections' |-> Unplanned]
          ELSE UNCHANGED <<stage, parts>>
  /\ UNCHANGED <<placed, flying, route, pending, done, repair>>

LegDoesNotFit == stage = "group" /\ Fail

-----------------------------------------------------------------------------
(* planSections: every section in a goroutine of its own.                  *)
StartPlanning(k) ==
  /\ stage = "plan" /\ k \in DOMAIN sections /\ k \notin flying /\ parts[k] = Unplanned
  /\ Cardinality(flying) < SectionConcurrency
  /\ flying' = flying \cup {k}
  /\ UNCHANGED <<stage, placed, sections, parts, route, pending, done, repair>>

PlanSection(k) ==
  /\ k \in flying
  /\ \E result \in {Failed, <<Runs(sections[k][1], sections[k][2])>>} :
       parts' = [parts EXCEPT ![k] = result]
  /\ flying' = flying \ {k}
  /\ UNCHANGED <<stage, placed, sections, route, pending, done, repair>>

AllPlanned == stage = "plan" /\ \A k \in DOMAIN parts : parts[k] # Unplanned
FirstFailed(k) == AllPlanned /\ parts[k] = Failed /\ \A j \in 1 .. k - 1 : parts[j] # Failed

(* planLegByLeg: the ways to plan some points leg by leg; a leg that fails *)
(* is planned again with the next point too, when its end is an anchor     *)
(* with a point behind it.                                                 *)
MayDrop(points, k) == k < Len(points) /\ ~placed[points[k]]

LegByLeg(points) ==
  LET legs(ends) == [i \in 1 .. Len(ends) - 1 |-> Range2(points, ends[i], ends[i + 1])]
  IN {legs(InOrder((1 .. Len(points)) \ dropped, Len(points))) :
        dropped \in SUBSET {k \in 2 .. Len(points) : MayDrop(points, k)}}

(* Mutant: a section's ends only.                                          *)
KeepEnds(points) == <<points[1], points[Len(points)]>>

(* keepUserPlaced: the ends, and what the operator placed.                 *)
KeepUserPlaced(points) ==
  Picked(points, InOrder({1, Len(points)} \cup {k \in DOMAIN points : placed[points[k]]}, Len(points)))

Retry(k, points) ==
  /\ \E runs \in LegByLeg(points) : parts' = [parts EXCEPT ![k] = runs]
  /\ UNCHANGED <<stage, placed, sections, flying, route, pending, done, repair>>

RetryLegByLeg(k) ==
  /\ FirstFailed(k) /\ sections[k][2] - sections[k][1] >= 2
  /\ Retry(k, Runs(sections[k][1], sections[k][2]))

(* Last resort: the anchors go, the operator's points stay.                *)
RetryBare(k) ==
  LET all == Runs(sections[k][1], sections[k][2]) IN
  /\ FirstFailed(k) /\ sections[k][2] - sections[k][1] >= 2
  /\ Len(KeepUserPlaced(all)) < Len(all)
  /\ Retry(k, KeepUserPlaced(all))

SectionUnplannable(k) == FirstFailed(k) /\ Fail

-----------------------------------------------------------------------------
(* A re-plan of a stretch: its ends, and new marks between them.           *)
Replan(a, b) == {<<a, b>>, <<a, 0, b>>}

(* The waypoints of one run: its ends and, of the points between, those    *)
(* the smoothing left.                                                     *)
Smoothed(run, left) ==
  Picked(run, InOrder({1, Len(run)} \cup {k \in DOMAIN run : run[k] \in left}, Len(run)))

(* mergeRouteResults: the runs end to end, the point two of them share     *)
(* once; joins has the places where they were stitched.                    *)
Stitched(runs) ==
  LET upto[i \in 1 .. Len(runs)] ==
        IF i = 1 THEN [waypoints |-> runs[1], joins |-> <<>>]
        ELSE [waypoints |-> upto[i - 1].waypoints \o Tail(runs[i]),
              joins |-> Append(upto[i - 1].joins, Len(upto[i - 1].waypoints))]
  IN upto[Len(runs)]

(* A stretch is found at each of them, from the waypoint before to the one *)
(* after.                                                                  *)
Merge ==
  /\ AllPlanned /\ \A k \in DOMAIN parts : parts[k] # Failed
  /\ \E left \in SUBSET Points :
       LET runs == FlattenSeq(parts)
           res == Stitched([i \in DOMAIN runs |-> Smoothed(runs[i], left)])
       IN /\ route' = res.waypoints
          /\ pending' = [k \in DOMAIN res.joins |->
                          [from |-> res.joins[k] - 1, to |-> res.joins[k] + 1,
                           was |-> SubSeq(res.waypoints, res.joins[k] - 1, res.joins[k] + 1)]]
  /\ stage' = "straighten" /\ done' = 0
  /\ sections' = <<>> /\ parts' = <<>>
  /\ UNCHANGED <<placed, flying, repair>>

(* spliceWaypoints: the replacement with its own ends.                     *)
Splice(from, to, with) == SubSeq(route, 1, from - 1) \o with \o SubSeq(route, to + 1, Len(route))

(* Mutant: front to back, with the places as they were found.              *)
VisitedFirst == 1

(* Back to front: the last pending stretch is visited first.               *)
Visited == Len(pending)
Unvisited == RemoveAt(pending, Visited)

Limit == CASE stage = "straighten" -> MaxJoinStraightenings
           [] stage = "refine" -> MaxTightWaterRefinements
           [] stage = "repair" -> MaxLandRepairs
           [] OTHER -> 0

(* A stretch is planned again between its present ends and the result is   *)
(* spliced in, or the stretch stands: nothing was found, it is no shorter, *)
(* no finer or worse over land.  A pass stops at its limit.                *)
Respliced ==
  /\ pending # <<>> /\ done < Limit
  /\ LET s == pending[Visited] IN
     \E with \in Replan(route[s.from], route[s.to]) : route' = Splice(s.from, s.to, with)
  /\ pending' = Unvisited /\ done' = done + 1
  /\ UNCHANGED <<stage, planning>>

StretchStands ==
  /\ pending # <<>> /\ done < Limit
  /\ pending' = Unvisited
  /\ UNCHANGED <<stage, planning, route, done, repair>>

PassEnds == pending = <<>> \/ done = Limit

StraightenJoin == stage = "straighten" /\ Respliced /\ UNCHANGED repair

(* tightWaterRuns: maximal runs of short legs; which legs are short is the *)
(* water's choice.                                                         *)
TightWaterRuns(short) ==
  LET starts == InOrder({k \in short : k - 1 \notin short}, Len(route) - 1)
      end(k) == CHOOSE e \in k + 1 .. Len(route) : e \notin short /\ k .. e - 1 \subseteq short
  IN [k \in DOMAIN starts |-> Stretch(starts[k], end(starts[k]))]

FindTightWater ==
  /\ stage = "straighten" /\ PassEnds
  /\ \E short \in SUBSET (1 .. Len(route) - 1) :
       pending' = TightWaterRuns(short)
  /\ stage' = "refine" /\ done' = 0
  /\ UNCHANGED <<planning, route, repair>>

Refine == stage = "refine" /\ Respliced /\ UNCHANGED repair

(* repairLegsOverLand: the legs over land are found, then planned again    *)
(* from the end; while a pass fixes legs and passes are left, the result   *)
(* is checked again.  A leg whose tiles are missing is not among them      *)
(* (legCrossesLand: "cannot check; do not invent a problem").              *)
FindLegsOverLand ==
  /\ PassEnds
  /\ stage = "refine" \/ (stage = "repair" /\ repair.fixed /\ repair.passes < MaxLandRepairPasses)
  /\ \E bad \in SUBSET (1 .. Len(route) - 1) :
       /\ LET legs == InOrder(bad, Len(route) - 1) IN
          pending' = [k \in DOMAIN legs |-> Stretch(legs[k], legs[k] + 1)]
       /\ repair' = [passes |-> repair.passes + 1, fixed |-> FALSE,
                     remaining |-> Cardinality(bad), seen |-> route]
  /\ done' = IF stage = "refine" THEN 0 ELSE done
  /\ stage' = "repair"
  /\ UNCHANGED <<planning, route>>

(* Mutant: the legs repaired are no longer counted.                        *)
RepairLegCounted ==
  /\ stage = "repair" /\ Respliced
  /\ repair' = [repair EXCEPT !.fixed = TRUE, !.remaining = @ - 1]

RepairLeg == stage = "repair" /\ Respliced /\ repair' = [repair EXCEPT !.fixed = TRUE]

(* Mutant: an answer only when there was nothing to repair.                *)
AnswerWhenClear ==
  /\ stage = "repair" /\ repair.remaining = 0
  /\ stage' = "answered"
  /\ UNCHANGED <<planning, route, pending, done, repair>>

(* The answer warns of the legs the last check found.                      *)
Answer ==
  /\ stage = "repair" /\ PassEnds
  /\ ~(repair.fixed /\ repair.passes < MaxLandRepairPasses)
  /\ stage' = "answered"
  /\ UNCHANGED <<planning, route, pending, done, repair>>

PlanNext ==
  \/ AnchorLongLegs \/ CoarsePassFails \/ GrowSection \/ LegDoesNotFit
  \/ \E k \in DOMAIN parts : \/ StartPlanning(k) \/ PlanSection(k)
                             \/ RetryLegByLeg(k) \/ RetryBare(k) \/ SectionUnplannable(k)
  \/ Merge \/ StraightenJoin \/ StretchStands \/ FindTightWater \/ Refine
  \/ FindLegsOverLand \/ RepairLeg \/ Answer

PlanSpec == PlanInit /\ [][PlanNext]_planVars
PlanFairness == WF_planVars(PlanNext)

-----------------------------------------------------------------------------
(* Whatever fails and is retried, the planned runs meet end to end from    *)
(* the first point to the last, and only anchors are left out              *)
(* (planLegByLeg, keepUserPlaced: "a point the operator placed is never    *)
(* dropped").                                                              *)
PlannedThroughEveryPoint ==
  (AllPlanned /\ \A k \in DOMAIN parts : parts[k] # Failed) =>
    LET runs == FlattenSeq(parts) IN
    /\ runs[1][1] = 1 /\ Last(Last(runs)) = NumPoints
    /\ \A i \in 1 .. Len(runs) - 1 : Last(runs[i]) = runs[i + 1][1]
    /\ \A p \in Points : placed[p] => \E i \in DOMAIN runs : p \in ToSet(runs[i])

(* A splice changes the length of the list; the stretches not yet visited  *)
(* must still be where they were found (refineTightWater,                  *)
(* repairLegsOverLand: "working from the end leaves the earlier runs'      *)
(* indices valid").                                                        *)
SplicesHitTheirStretch ==
  \A k \in DOMAIN pending :
    /\ pending[k].to <= Len(route)
    /\ SubSeq(route, pending[k].from, pending[k].to - 1)
         = SubSeq(pending[k].was, 1, pending[k].to - pending[k].from)

(* A route is answered without a warning only when the last check was of   *)
(* that very route and found no leg of it over land, however the repairs   *)
(* before went (repairLegsOverLand: "Never silent"); of a leg it had no    *)
(* tiles for the check says nothing.                                       *)
NeverSilent ==
  (stage = "answered" /\ repair.remaining = 0) => repair.seen = route

(* A request always comes to an end, however much is re-planned.           *)
RequestEnds == <>(stage \in {"answered", "failed"})

(* "A leg that will not plan is retried with its far end dropped": what a  *)
(* section planned leg by leg comes to are legs, from one point to one     *)
(* other.                                                                  *)
FailedAnchorsAreDropped ==
  [][\A k \in DOMAIN parts \cap DOMAIN parts' :
       (parts[k] = Failed /\ parts'[k] # Failed) =>
         \A i \in DOMAIN parts'[k] : Len(parts'[k][i]) = 2]_planVars

(* Straightening across the joins drops nothing the operator placed        *)
(* ("those points are the route, and they are never section joins").       *)
StraighteningKeepsPoints ==
  [][stage = "straighten" =>
       \A p \in ToSet(route) \cap Points : placed[p] => p \in ToSet(route')]_planVars
=============================================================================
