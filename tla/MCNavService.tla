---------------------------- MODULE MCNavService ----------------------------
(***************************************************************************)
(* Small instances of NavService.  A behaviour is of one of two studies:   *)
(* in "goals" two callers, the poller and the waiting calls interleave on  *)
(* routes of points; in "locations" saved locations change while one       *)
(* caller names them.                                                      *)
(***************************************************************************)
EXTENDS NavService

CONSTANTS p1, p2, a, b, c1, c2

VARIABLE study

studyVars == <<vars, study>>

Option(index, loop, wait) == [index |-> index, loop |-> loop, wait |-> wait]

(* A route that comes back to where it started, looping or not.            *)
ThreeStops == {<<p1, p2, p1>>}
LoopOrNot == {Option(Nearest, TRUE, TRUE), Option(0, FALSE, TRUE)}

(* Routes by name: torn lookups, an empty route, a start index past the    *)
(* end, the start nearest to the boat.                                     *)
NamedStops == {<<a, p1>>, <<b, a>>, <<>>}
NearestOrLate == {Option(Nearest, FALSE, FALSE), Option(2, FALSE, FALSE)}
Plan == {<<p1, p2>>}

AllOptions == LoopOrNot \cup NearestOrLate

(* The calls of Request, those of each study.                              *)
GoalRequest(c) ==
  \/ \E p \in Targets : NavigateToPoint(c, p) \/ \E w \in BOOLEAN : GoToPoint(c, p, w)
  \/ \E o \in LoopOrNot, r \in SavedRoutes : NavigateSavedRoute(c, r, o)

NameRequest(c) ==
  \/ \E n \in Names : NavigateToLocation(c, n) \/ \E w \in BOOLEAN : GoToLocation(c, n, w)
  \/ \E o \in NearestOrLate, r \in Routes : NavigateRoute(c, r, o)
  \/ \E p \in Plans, n \in Names \cup {NoName} : ExecutePlan(c, p, n)

StudyInit == study \in {"goals", "locations"} /\ Init

StudyNext ==
  /\ \/ study = "goals" /\ \E c \in Callers : GoalRequest(c) \/ Handle(c)
     \/ study = "locations" /\ (Locations \/ NameRequest(c1))
     \/ study = "locations" /\ Handle(c1) /\ clock' <= 3
     \/ (\E reason \in BOOLEAN : Suspend(reason)) \/ Resume \/ Cancel
     \/ CheckArrival \/ AdvanceGoal \/ AdvanceFails
     \/ Restart
  /\ UNCHANGED study

StudySpec ==
  /\ StudyInit /\ [][StudyNext]_studyVars
  /\ \A c \in Callers : WF_vars(WaitPoll(c))
=============================================================================
