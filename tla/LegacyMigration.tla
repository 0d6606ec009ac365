-------------------------- MODULE LegacyMigration --------------------------
(***************************************************************************)
(* The migration of a pre-v2 nav file, a bare list of waypoints.  The file *)
(* is grown waypoint by waypoint, and the goal loaded from it is compared  *)
(* with what goalFromLegacy's comment promises (nav_store.go:180-183).     *)
(***************************************************************************)
EXTENDS NavGoal

CONSTANTS
  Places,     \* waypoint coordinates
  MaxLegacy   \* bound on the length of a file

VARIABLE raw  \* the file: a sequence of [at, visited]

LegacyInit == raw = <<>>

AddLegacyWaypoint(p, v) ==
  /\ Len(raw) < MaxLegacy
  /\ raw' = Append(raw, [at |-> p, visited |-> v])

LegacyNext == \E p \in Places, v \in BOOLEAN : AddLegacyWaypoint(p, v)

LegacySpec == LegacyInit /\ [][LegacyNext]_raw

(* Mutant: visited waypoints after an unvisited one are kept.              *)
LegacyStepKeeping(acc, w) ==
  [wps |-> Append(acc.wps, w.at),
   idx |-> IF w.visited THEN acc.idx + 1 ELSE acc.idx,
   seenUnvisited |-> acc.seenUnvisited \/ ~w.visited]

(* The loop drops a visited waypoint once an unvisited one has been seen.  *)
LegacyStep(acc, w) ==
  IF w.visited /\ acc.seenUnvisited THEN acc
  ELSE [wps |-> Append(acc.wps, w.at),
        idx |-> IF w.visited THEN acc.idx + 1 ELSE acc.idx,
        seenUnvisited |-> acc.seenUnvisited \/ ~w.visited]

GoalFromLegacy(now) ==
  LET upto[k \in 0 .. Len(raw)] ==
        IF k = 0 THEN [wps |-> <<>>, idx |-> 0, seenUnvisited |-> FALSE]
        ELSE LegacyStep(upto[k - 1], raw[k])
      end == upto[Len(raw)]
  IN  IF end.seenUnvisited
      THEN NewGoal("route", "", end.wps, end.idx, FALSE, now)
      ELSE NoGoal

-----------------------------------------------------------------------------
FirstUnvisited ==
  CHOOSE i \in 1..Len(raw) :
    ~raw[i].visited /\ \A j \in 1..(i - 1) : raw[j].visited

Positions(s) == [i \in 1..Len(s) |-> s[i].at]

StillToVisit ==
  LET upto[k \in 0 .. Len(raw)] ==
        IF k = 0 THEN <<>>
        ELSE IF raw[k].visited THEN upto[k - 1] ELSE Append(upto[k - 1], raw[k].at)
  IN  upto[Len(raw)]

(* "the leading visited waypoints become the reached prefix, and visited   *)
(* waypoints after the first unvisited one are dropped.  An all-visited or *)
(* empty list is no goal": nothing still to visit is lost or reordered,    *)
(* and the cursor stands on the first waypoint to visit.                   *)
MigrationKeepsTheRoute ==
  LET goal == GoalFromLegacy(0) IN
  IF \A i \in 1..Len(raw) : raw[i].visited THEN goal = NoGoal
  ELSE LET k == FirstUnvisited - 1 IN
       /\ goal.idx = k
       /\ SubSeq(goal.wps, 1, k) = Positions(SubSeq(raw, 1, k))
       /\ Remaining(goal) = StillToVisit
       /\ goal.state = "active"
=============================================================================
