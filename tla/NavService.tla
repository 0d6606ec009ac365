----------------------------- MODULE NavService -----------------------------
(***************************************************************************)
(* The navigation service (nav_service.go) and its arrival poller (nav.go) *)
(* over the nav store.  DiskNavStore shows that mutate is atomic and       *)
(* durable, so a mutation is one step here.  What is not atomic is what    *)
(* callers do around it: a handler looks up saved locations, stamps the    *)
(* goal and only then stores it; the poller reads the goal, judges the     *)
(* boat's position and only then advances the cursor; a Wait-ing call      *)
(* looks at the goal again and again.                                      *)
(***************************************************************************)
EXTENDS NavGoal

CONSTANTS
  Points,     \* positions
  Names,      \* saved-location names
  NoName,     \* the empty name
  Callers,    \* API calls in flight
  Targets,    \* positions single-point requests ask for
  Routes,     \* inline routes NavigateRoute is given: sequences of stops
  SavedRoutes,   \* saved routes it finds by name: sequences of points
  RouteOptions,  \* its options: a start index, loop, wait
  Plans,      \* what ExecutePlan is asked to follow: sequences of points
  Nearest,    \* the start index asked for with StartNearest
  MaxStamp,   \* bound: goals ever stamped
  MaxLap      \* bound: laps of a looping goal

Stops == Points \cup Names

ASSUME ServiceAssumption ==
  /\ Points \cap Names = {}
  /\ NoName \notin Names
  /\ Targets \subseteq Points
  /\ Routes \subseteq Seq(Stops)
  /\ SavedRoutes \subseteq Seq(Points) /\ Plans \subseteq Seq(Points)
  /\ RouteOptions \subseteq [index : Int \cup {Nearest}, loop : BOOLEAN, wait : BOOLEAN]
  /\ NoGoal \notin Goals(Points, Names \cup {NoName})
  /\ MaxStamp \in Nat /\ MaxLap \in Nat

VARIABLES
  locs,   \* saved locations
  goal,   \* the latest goal, or NoGoal
  clock,  \* the next time.Now(): StartedAt of the next goal
  call,   \* each API call that sets a goal
  poll    \* the poller, between reading the goal and advancing it

vars == <<locs, goal, clock, call, poll>>

SavedLocations == [name : Names, at : Points]
AnyGoal == Goals(Points, Names \cup {NoName})

NoCall == [at |-> "none"]
NoVerdict == [seen |-> NoGoal, n |-> 0]

Init ==
  /\ locs = {}
  /\ goal = NoGoal
  /\ clock = 1
  /\ call = [c \in Callers |-> NoCall]
  /\ poll = NoVerdict

-----------------------------------------------------------------------------
(* Saved locations.  With no position in the request AddLocation takes the *)
(* boat's, which may be any point; a call that errors changes nothing.     *)
Saved(n) == \E l \in locs : l.name = n

AddLocation(n, p) ==
  /\ ~Saved(n)
  /\ locs' = locs \cup {[name |-> n, at |-> p]}
  /\ UNCHANGED <<goal, clock, call, poll>>

(* Mutant: the new name is not compared with the others.                   *)
UpdateLocationUnchecked(l, m, p) ==
  /\ locs' = (locs \ {l}) \cup {[name |-> m, at |-> p]}
  /\ goal' = IF goal # NoGoal /\ goal.loc = l.name THEN [goal EXCEPT !.loc = m] ELSE goal
  /\ UNCHANGED <<clock, call, poll>>

(* Moves l to p and renames it to m, either of which may be no change.     *)
UpdateLocation(l, m, p) ==
  /\ m = l.name \/ ~Saved(m)
  /\ locs' = (locs \ {l}) \cup {[name |-> m, at |-> p]}
  /\ goal' = IF goal # NoGoal /\ goal.loc = l.name THEN [goal EXCEPT !.loc = m] ELSE goal
  /\ UNCHANGED <<clock, call, poll>>

DeleteLocation(n) ==
  /\ Saved(n)
  /\ locs' = {l \in locs : l.name # n}
  /\ UNCHANGED <<goal, clock, call, poll>>

-----------------------------------------------------------------------------
(* Calls that set a goal.  goal.wps is what is resolved, stops what is     *)
(* still to be looked up.                                                  *)
Ask(c, mode, loc, wps, stops, o) ==
  /\ call[c] = NoCall
  /\ call' = [call EXCEPT ![c] =
       [at |-> "resolving", stops |-> stops, index |-> o.index, wait |-> o.wait,
        goal |-> NewGoal(mode, loc, wps, 0, o.loop, 0)]]
  /\ UNCHANGED <<locs, goal, clock, poll>>

Waiting(w) == [index |-> 0, loop |-> FALSE, wait |-> w]

NavigateToLocation(c, n) == Ask(c, "planned", n, <<>>, <<n>>, Waiting(FALSE))
NavigateToPoint(c, p) == Ask(c, "planned", NoName, <<p>>, <<>>, Waiting(FALSE))
GoToLocation(c, n, w) == Ask(c, "direct", n, <<>>, <<n>>, Waiting(w))
GoToPoint(c, p, w) == Ask(c, "direct", NoName, <<p>>, <<>>, Waiting(w))
NavigateRoute(c, r, o) == Ask(c, "route", NoName, <<>>, r, o)
NavigateSavedRoute(c, r, o) == Ask(c, "route", NoName, r, <<>>, o)

(* A plan's first point is where it started from.                          *)
ExecutePlan(c, plan, loc) ==
  Ask(c, "planned", loc, IF Len(plan) > 1 THEN Tail(plan) ELSE plan, <<>>, Waiting(FALSE))

Answer(c) == call' = [call EXCEPT ![c] = NoCall]

(* LocationByName, for one stop: each lookup is a critical section of its  *)
(* own, so locations can change between two of them, and after the last.   *)
Resolved(r, p) ==
  LET g == [r.goal EXCEPT !.wps = Append(r.goal.wps, p)]
  IN  [r EXCEPT !.stops = Tail(r.stops), !.goal = g]

Resolve(c) ==
  /\ call[c].at = "resolving" /\ call[c].stops # <<>>
  /\ LET stop == Head(call[c].stops)
         place == IF stop \in Names THEN {l.at : l \in {k \in locs : k.name = stop}} ELSE {stop}
     IN  \/ \E p \in place :
              call' = [call EXCEPT ![c] = Resolved(call[c], p)]
         \/ place = {} /\ Answer(c)
  /\ UNCHANGED <<locs, goal, clock, poll>>

(* Mutants: the start index is not checked; the goal is not stamped.       *)
StartIndexesUnchecked(c) ==
  IF call[c].index = Nearest THEN 0..(Len(call[c].goal.wps) - 1) ELSE {call[c].index}

UnstampedGoal(g, i) == [g EXCEPT !.idx = i]

(* startGoal up to its mutate: check the start index, stamp the goal.      *)
StartIndexes(c) ==
  IF call[c].index = Nearest THEN 0..(Len(call[c].goal.wps) - 1)
  ELSE {call[c].index} \cap 0..(Len(call[c].goal.wps) - 1)

StampedGoal(g, i) == [g EXCEPT !.idx = i, !.started = clock]

Stamp(c) ==
  /\ call[c].at = "resolving" /\ call[c].stops = <<>>
  /\ clock <= MaxStamp
  /\ \E i \in StartIndexes(c) :
       call' = [call EXCEPT ![c] =
         [at |-> "stamped", wait |-> @.wait, goal |-> StampedGoal(@.goal, i)]]
  /\ clock' = clock + 1
  /\ UNCHANGED <<locs, goal, poll>>

(* An empty route, an index outside it, or no fix to be nearest to.        *)
Refuse(c) ==
  /\ call[c].at = "resolving" /\ call[c].stops = <<>>
  /\ StartIndexes(c) = {} \/ call[c].index = Nearest
  /\ Answer(c)
  /\ UNCHANGED <<locs, goal, clock, poll>>

(* Mutant: a suspended goal is replaced like any other.                    *)
MayAlwaysReplace(g) == TRUE

(* startGoal's mutate.  A suspended goal must be canceled first.           *)
MayReplace(g) == ~(g # NoGoal /\ g.state = "suspended")

StoreGoal(c) ==
  /\ call[c].at = "stamped"
  /\ MayReplace(goal)
  /\ goal' = call[c].goal
  /\ call' = [call EXCEPT ![c] =
       IF call[c].wait THEN [at |-> "waiting", started |-> call[c].goal.started] ELSE NoCall]
  /\ UNCHANGED <<locs, clock, poll>>

(* The goal was refused, or could not be saved.                            *)
StoreFails(c) ==
  /\ call[c].at = "stamped"
  /\ Answer(c)
  /\ UNCHANGED <<locs, goal, clock, poll>>

(* waitGoal sees that its goal finished or was replaced ...                *)
WaitOver(started) == ~(IsOpen(goal) /\ goal.started = started)

(* Mutant: a replaced goal is not noticed.                                 *)
WaitPollForFinish(c) ==
  /\ call[c].at = "waiting"
  /\ ~IsOpen(goal)
  /\ Answer(c)
  /\ UNCHANGED <<locs, goal, clock, poll>>

WaitPoll(c) ==
  /\ call[c].at = "waiting"
  /\ WaitOver(call[c].started)
  /\ Answer(c)
  /\ UNCHANGED <<locs, goal, clock, poll>>

(* ... or the caller's context ends.                                       *)
WaitGiveUp(c) ==
  /\ call[c].at = "waiting"
  /\ Answer(c)
  /\ UNCHANGED <<locs, goal, clock, poll>>

-----------------------------------------------------------------------------
(* Suspend, Resume and Cancel are a mutate each.  Of the reason only       *)
(* whether it is empty is kept.                                            *)
Suspend(reason) ==
  /\ goal # NoGoal /\ goal.state = "active"
  /\ goal' = [goal EXCEPT !.state = "suspended", !.reason = reason]
  /\ UNCHANGED <<locs, clock, call, poll>>

Resume ==
  /\ goal # NoGoal /\ goal.state = "suspended"
  /\ goal' = [goal EXCEPT !.state = "active", !.reason = FALSE]
  /\ UNCHANGED <<locs, clock, call, poll>>

(* Mutant: a finished goal is canceled again.                              *)
CancelAny ==
  /\ goal # NoGoal
  /\ goal' = Finished(goal, "canceled")
  /\ UNCHANGED <<locs, clock, call, poll>>

Cancel ==
  /\ IsOpen(goal)
  /\ goal' = Finished(goal, "canceled")
  /\ UNCHANGED <<locs, clock, call, poll>>

-----------------------------------------------------------------------------
(* The arrival poller.  checkArrival reads the goal and judges how many of *)
(* its remaining waypoints are behind the boat: one when decideArrival     *)
(* fires, two or more when decideRejoin does.                              *)
Verdicts(g) == {1} \cup 2..(Len(Remaining(g)) - 1)

CheckArrival ==
  /\ poll = NoVerdict
  /\ goal # NoGoal /\ goal.state = "active"
  /\ Remaining(goal) # <<>>
  /\ goal.lap < MaxLap
  /\ \E n \in Verdicts(goal) : poll' = [seen |-> goal, n |-> n]
  /\ UNCHANGED <<locs, goal, clock, call>>

(* Mutant: another goal at the same index is taken for the one judged.     *)
SameIndexOnly(g) ==
  /\ g # NoGoal
  /\ g.state = "active"
  /\ g.idx = poll.seen.idx

(* advanceGoal changes the goal only if it is still the one judged.        *)
StillJudged(g) ==
  /\ g # NoGoal
  /\ g.state = "active"
  /\ g.started = poll.seen.started
  /\ g.idx = poll.seen.idx

AdvanceGoal ==
  /\ poll # NoVerdict
  /\ poll' = NoVerdict
  /\ goal' = IF StillJudged(goal) THEN Advanced(goal, poll.n) ELSE goal
  /\ UNCHANGED <<locs, clock, call>>

AdvanceFails ==
  /\ poll # NoVerdict
  /\ poll' = NoVerdict
  /\ UNCHANGED <<locs, goal, clock, call>>

-----------------------------------------------------------------------------
(* The module stops or crashes and starts again on what was saved.         *)
Restart ==
  /\ call' = [c \in Callers |-> NoCall]
  /\ poll' = NoVerdict
  /\ UNCHANGED <<locs, goal, clock>>

Locations ==
  \/ \E n \in Names, p \in Points : AddLocation(n, p)
  \/ \E l \in locs, m \in Names, p \in Points : UpdateLocation(l, m, p)
  \/ \E n \in Names : DeleteLocation(n)

Request(c) ==
  \/ \E n \in Names : NavigateToLocation(c, n) \/ \E w \in BOOLEAN : GoToLocation(c, n, w)
  \/ \E p \in Targets : NavigateToPoint(c, p) \/ \E w \in BOOLEAN : GoToPoint(c, p, w)
  \/ \E o \in RouteOptions :
       \/ \E r \in Routes : NavigateRoute(c, r, o)
       \/ \E r \in SavedRoutes : NavigateSavedRoute(c, r, o)
  \/ \E p \in Plans, n \in Names \cup {NoName} : ExecutePlan(c, p, n)

Handle(c) ==
  \/ Resolve(c) \/ Stamp(c) \/ Refuse(c) \/ StoreGoal(c) \/ StoreFails(c)
  \/ WaitPoll(c) \/ WaitGiveUp(c)

Next ==
  \/ Locations
  \/ \E c \in Callers : Request(c) \/ Handle(c)
  \/ (\E reason \in BOOLEAN : Suspend(reason)) \/ Resume \/ Cancel
  \/ CheckArrival \/ AdvanceGoal \/ AdvanceFails
  \/ Restart

Spec == Init /\ [][Next]_vars

(* waitGoal's ticker fires every second whatever else the service does.    *)
FairSpec == Spec /\ \A c \in Callers : WF_vars(WaitPoll(c))

-----------------------------------------------------------------------------
AnyRequest ==
  [at : {"resolving"}, stops : Seq(Stops), index : Int \cup {Nearest},
   wait : BOOLEAN, goal : AnyGoal]
AnyStamped == [at : {"stamped"}, wait : BOOLEAN, goal : AnyGoal]
AnyWaiting == [at : {"waiting"}, started : Nat]

TypeOK ==
  /\ locs \subseteq SavedLocations
  /\ goal \in AnyGoal \cup {NoGoal}
  /\ clock \in Nat \ {0}
  /\ call \in [Callers -> {NoCall} \cup AnyRequest \cup AnyStamped \cup AnyWaiting]
  /\ poll = NoVerdict \/ poll \in [seen : AnyGoal, n : Nat \ {0}]

(* The cursor, the state and the finish time of a goal tell one story,     *)
(* whichever of the handlers and the poller wrote them last: a goal has    *)
(* succeeded exactly when every waypoint is reached, a looping goal never  *)
(* does, and only a finished goal has a finish time.                       *)
GoalWellFormed ==
  goal # NoGoal =>
    /\ goal.idx \in 0..Len(goal.wps) /\ goal.wps # <<>>
    /\ goal.state = "succeeded" <=> goal.idx = Len(goal.wps)
    /\ goal.state = "succeeded" => ~goal.loop
    /\ goal.finished <=> ~IsOpen(goal)
    /\ goal.reason => goal.state = "suspended"

(* Location names stay unique through adds and renames, so every lookup by *)
(* name has one answer (nav_service.go:148-155, 203-212).                  *)
LocationsUnique ==
  \A l, k \in locs : l.name = k.name => l = k

(* "a client's edit landing mid-tick is never clobbered by stale progress" *)
(* (nav.go:278-280): whenever a goal's cursor moves, the waypoints it      *)
(* passes are exactly those the poller judged reached, on the same goal.   *)
ProgressIsJudged ==
  [][ (/\ goal # NoGoal /\ goal' # NoGoal
       /\ goal'.started = goal.started
       /\ <<goal'.idx, goal'.lap>> # <<goal.idx, goal.lap>>)
      => /\ goal.state = "active"
         /\ poll # NoVerdict
         /\ goal.wps = poll.seen.wps
         /\ goal.idx = poll.seen.idx
         /\ goal' = Advanced(goal, poll.n) ]_vars

(* "Only an active goal advances; a suspended one is left alone"           *)
(* (nav.go:307) and "must be canceled before a new one starts"             *)
(* (nav_service.go:29): a suspended goal is only ever resumed or canceled, *)
(* cursor untouched, whatever requests and verdicts were under way when it *)
(* was suspended.                                                          *)
SuspensionHolds ==
  [][ (goal # NoGoal /\ goal.state = "suspended")
      => /\ goal' # NoGoal
         /\ goal'.started = goal.started
         /\ goal'.wps = goal.wps
         /\ <<goal'.idx, goal'.lap>> = <<goal.idx, goal.lap>>
         /\ goal'.state \in {"suspended", "active", "canceled"} ]_vars

(* A finished goal stays on record as it finished until another replaces   *)
(* it (nav_service.go:502-504); only the name of its location may follow a *)
(* rename.                                                                 *)
FinishedIsFinal ==
  [][ (goal # NoGoal /\ ~IsOpen(goal) /\ goal'.started = goal.started)
      => goal' = [goal EXCEPT !.loc = goal'.loc] ]_vars

(* "blocks until the goal that started at startedAt is no longer open      *)
(* (finished, canceled, or replaced)" (nav_service.go:302-303): once that  *)
(* is so a waiting call returns, however the goals change afterwards.      *)
WaitersReleased ==
  \A c \in Callers :
    (call[c].at = "waiting" /\ WaitOver(call[c].started)) ~> (call[c].at # "waiting")

-----------------------------------------------------------------------------
(* Why the properties hold.  A goal a handler is about to store is as      *)
(* startGoal checked it; no two goals share a StartedAt; and so a goal     *)
(* with the StartedAt of the one judged is the one judged.                 *)
Stamped(c) == call[c].at = "stamped"
Pending(c) == call[c].goal

CallFacts ==
  \A c \in Callers :
    /\ call[c].at = "resolving" =>
         Pending(c).state = "active" /\ ~Pending(c).finished /\ ~Pending(c).reason
    /\ Stamped(c) =>
         /\ Pending(c).state = "active" /\ ~Pending(c).finished /\ ~Pending(c).reason
         /\ Pending(c).idx < Len(Pending(c).wps)

StampsUnique ==
  /\ goal # NoGoal => goal.started < clock
  /\ poll # NoVerdict => poll.seen.started < clock
  /\ \A c \in Callers : Stamped(c) =>
       /\ Pending(c).started < clock
       /\ goal # NoGoal => goal.started # Pending(c).started
       /\ poll # NoVerdict => poll.seen.started # Pending(c).started
       /\ \A d \in Callers \ {c} : Stamped(d) => Pending(d).started # Pending(c).started

JudgedIsSame ==
  (poll # NoVerdict /\ goal # NoGoal /\ goal.started = poll.seen.started)
    => goal.wps = poll.seen.wps

IInv ==
  /\ TypeOK /\ LocationsUnique /\ GoalWellFormed
  /\ CallFacts /\ StampsUnique /\ JudgedIsSame
=============================================================================
