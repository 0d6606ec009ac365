------------------------------ MODULE NavGoal ------------------------------
(***************************************************************************)
(* navGoal (nav_store.go): a list of waypoints with a cursor.  wps[1..idx] *)
(* have been reached, wps[idx + 1] is the current target.  Times are       *)
(* abstracted: started identifies the goal (it is how the code tells goals *)
(* apart), and of FinishedAt only whether it is set is kept.               *)
(***************************************************************************)
EXTENDS Integers, Sequences

CONSTANT NoGoal   \* a nil *navGoal

GoalStates == {"active", "suspended", "succeeded", "canceled"}

Goals(points, names) ==
  [mode : {"route", "direct", "planned"}, loc : names, wps : Seq(points),
   idx : Nat, loop : BOOLEAN, lap : Nat, state : GoalStates,
   reason : BOOLEAN, started : Nat, finished : BOOLEAN]

(* open: still being pursued                                               *)
IsOpen(g) == g # NoGoal /\ g.state \in {"active", "suspended"}

(* remaining: the waypoints still to go                                    *)
Remaining(g) == SubSeq(g.wps, g.idx + 1, Len(g.wps))

(* advance: n waypoints from the cursor are reached.  Past the last one a  *)
(* looping goal wraps to a new lap; anything else succeeds.                *)
Advanced(g, n) ==
  IF g.idx + n < Len(g.wps) THEN [g EXCEPT !.idx = @ + n]
  ELSE IF g.loop /\ Len(g.wps) > 0 THEN [g EXCEPT !.idx = 0, !.lap = @ + 1]
  ELSE [g EXCEPT !.idx = Len(g.wps), !.state = "succeeded", !.finished = TRUE]

(* finish: to a terminal state                                             *)
Finished(g, state) ==
  [g EXCEPT !.state = state, !.reason = FALSE, !.finished = TRUE]

(* What startGoal stores.                                                  *)
NewGoal(mode, loc, wps, idx, loop, now) ==
  [mode |-> mode, loc |-> loc, wps |-> wps, idx |-> idx, loop |-> loop,
   lap |-> 0, state |-> "active", reason |-> FALSE, started |-> now,
   finished |-> FALSE]
=============================================================================
