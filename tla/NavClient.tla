----------------------------- MODULE NavClient -----------------------------
(***************************************************************************)
(* The apps that show and edit the active route: the web app (App.svelte,  *)
(* lib/navRoute.ts) and the mobile app (viam_connection.dart,              *)
(* nav_route.dart).  There is no per-waypoint call: an app keeps the route *)
(* of the last status it received, and an edit re-sends the whole route    *)
(* computed from that copy.  Meanwhile the poller moves the cursor, other  *)
(* apps edit, and replies come late, out of order or not at all.           *)
(***************************************************************************)
EXTENDS NavGoal, SequencesExt

CONSTANTS
  Clients,    \* app instances
  Web,        \* those that are the web app; the others are the mobile app
  Points,     \* positions
  StartRoute, \* the route active at first
  StartIndex, \* and its cursor
  Sailing,    \* does the boat move, or is it at anchor
  Slots,      \* bound: a client's calls in flight
  MaxWps,     \* bound: waypoints of a route
  MaxEdits,   \* bound: edits made
  MaxFailures \* bound: calls that fail

ASSUME ClientAssumption ==
  /\ Web \subseteq Clients
  /\ StartRoute \in Seq(Points) /\ StartIndex \in 0..(Len(StartRoute) - 1)
  /\ Sailing \in BOOLEAN

VARIABLES
  goal,     \* the nav service's latest goal
  view,     \* each app's copy: the route split at the cursor
  net,      \* each app's calls in flight, a slot each
  edits,    \* edits made so far
  failures, \* calls that failed so far
  visited   \* history: points the poller has marked reached

vars == <<goal, view, net, edits, failures, visited>>

(* What an app makes of a status: an open route goal split at its cursor,  *)
(* no route for anything else.                                             *)
NoRoute == [reached |-> <<>>, remaining |-> <<>>]

RouteOf(g) ==
  IF IsOpen(g) THEN [reached |-> SubSeq(g.wps, 1, g.idx), remaining |-> Remaining(g)]
  ELSE NoRoute

(* Calls: a status asked for, a route or a cancel sent, a reply under way. *)
Free == [is |-> "free"]
Status == [is |-> "status"]
CancelCall == [is |-> "cancel"]
RouteCall(wps, start) == [is |-> "route", wps |-> wps, start |-> start]
Reply(route) == [is |-> "reply", route |-> route]

Init ==
  /\ goal = NewGoal("route", "", StartRoute, StartIndex, FALSE, 0)
  /\ view = [c \in Clients |-> RouteOf(goal)]
  /\ net = [c \in Clients |-> [s \in Slots |-> Free]]
  /\ edits = 0 /\ failures = 0
  /\ visited = {StartRoute[i] : i \in 1..StartIndex}

-----------------------------------------------------------------------------
(* Mutant: the start index is one too far.                                 *)
RouteUpdateLate(v, remaining) ==
  IF remaining = <<>> THEN CancelCall
  ELSE RouteCall(v.reached \o remaining, Len(v.reached) + 1)

(* routeUpdate, navRouteRequest                                            *)
RouteUpdate(v, remaining) ==
  IF remaining = <<>> THEN CancelCall
  ELSE RouteCall(v.reached \o remaining, Len(v.reached))

(* An edit makes the call; the mobile app also shows its result at once.   *)
Edit(c, s, remaining) ==
  /\ net[c][s] = Free
  /\ edits < MaxEdits
  /\ edits' = edits + 1
  /\ net' = [net EXCEPT ![c][s] = RouteUpdate(view[c], remaining)]
  /\ view' = IF c \in Web THEN view ELSE [view EXCEPT ![c].remaining = remaining]
  /\ UNCHANGED <<goal, failures, visited>>

(* A new waypoint goes before the i-th one left, or last.                  *)
AddWaypoint(c, s, i, p) ==
  /\ Len(view[c].reached) + Len(view[c].remaining) < MaxWps
  /\ Edit(c, s, InsertAt(view[c].remaining, i, p))

MoveWaypoint(c, s, i, p) == Edit(c, s, ReplaceAt(view[c].remaining, i, p))

RemoveWaypoint(c, s, i) == Edit(c, s, RemoveAt(view[c].remaining, i))

ClearWaypoints(c, s) == Edit(c, s, <<>>)

(* The periodic status poll, not awaited.                                  *)
PollStatus(c, s) ==
  /\ net[c][s] = Free
  /\ net' = [net EXCEPT ![c][s] = Status]
  /\ UNCHANGED <<goal, view, edits, failures, visited>>

-----------------------------------------------------------------------------
(* The nav service answers (startGoal, Cancel, GetNavigationStatus).  A    *)
(* stored edit still has a status to read: the web app's call returns one, *)
(* the mobile app asks for one after each edit, even one that failed.      *)
AnswerStatus(c, s) ==
  /\ net[c][s] = Status
  /\ net' = [net EXCEPT ![c][s] = Reply(RouteOf(goal))]
  /\ UNCHANGED <<goal, view, edits, failures, visited>>

Accepted(r) == goal.state # "suspended" /\ r.start < Len(r.wps)

ServeRoute(c, s) ==
  /\ net[c][s].is = "route"
  /\ Accepted(net[c][s])
  /\ goal' = NewGoal("route", "", net[c][s].wps, net[c][s].start, FALSE, 0)
  /\ net' = [net EXCEPT ![c][s] = Status]
  /\ UNCHANGED <<view, edits, failures, visited>>

ServeCancel(c, s) ==
  /\ net[c][s].is = "cancel"
  /\ goal' = IF IsOpen(goal) THEN Finished(goal, "canceled") ELSE goal
  /\ net' = [net EXCEPT ![c][s] = Status]
  /\ UNCHANGED <<view, edits, failures, visited>>

(* Mutant: a reply without a route leaves the app's copy.                  *)
ReceiveRoutesOnly(c, s) ==
  /\ net[c][s].is = "reply"
  /\ view' = IF net[c][s].route = NoRoute THEN view
             ELSE [view EXCEPT ![c] = net[c][s].route]
  /\ net' = [net EXCEPT ![c][s] = Free]
  /\ UNCHANGED <<goal, edits, failures, visited>>

(* The reply replaces the app's copy, whenever it comes.                   *)
Receive(c, s) ==
  /\ net[c][s].is = "reply"
  /\ view' = [view EXCEPT ![c] = net[c][s].route]
  /\ net' = [net EXCEPT ![c][s] = Free]
  /\ UNCHANGED <<goal, edits, failures, visited>>

(* A call fails before or after it reached the service.  The web app takes *)
(* a failed status for no route, and lets a failed edit be.                *)
CallFails(c, s) ==
  /\ net[c][s] # Free
  /\ failures < MaxFailures
  /\ failures' = failures + 1
  /\ IF net[c][s].is \in {"status", "reply"}
     THEN /\ net' = [net EXCEPT ![c][s] = Free]
          /\ view' \in IF c \in Web THEN {view, [view EXCEPT ![c] = NoRoute]} ELSE {view}
     ELSE /\ net' = [net EXCEPT ![c][s] = IF c \in Web THEN Free ELSE Status]
          /\ view' = view
  /\ UNCHANGED <<goal, edits, visited>>

(* startGoal refuses the route.                                            *)
RouteRefused(c, s) ==
  /\ net[c][s].is = "route"
  /\ ~Accepted(net[c][s])
  /\ net' = [net EXCEPT ![c][s] = IF c \in Web THEN Free ELSE Status]
  /\ UNCHANGED <<goal, view, edits, failures, visited>>

-----------------------------------------------------------------------------
(* The arrival poller marks the current waypoint reached.                  *)
Arrive ==
  /\ Sailing
  /\ goal.state = "active"
  /\ goal' = Advanced(goal, 1)
  /\ visited' = visited \cup {Remaining(goal)[1]}
  /\ UNCHANGED <<view, net, edits, failures>>

(* Pause and Resume, counted as edits.                                     *)
Pause ==
  /\ edits < MaxEdits /\ edits' = edits + 1
  /\ goal.state \in {"active", "suspended"}
  /\ goal' = [goal EXCEPT !.state = IF @ = "active" THEN "suspended" ELSE "active"]
  /\ UNCHANGED <<view, net, failures, visited>>

Calls(c, s) ==
  \/ PollStatus(c, s)
  \/ \E p \in Points, i \in 1..(Len(view[c].remaining) + 1) : AddWaypoint(c, s, i, p)
  \/ \E i \in DOMAIN view[c].remaining :
       RemoveWaypoint(c, s, i) \/ \E p \in Points : MoveWaypoint(c, s, i, p)
  \/ ClearWaypoints(c, s)

Deliver(c, s) ==
  \/ AnswerStatus(c, s) \/ ServeRoute(c, s) \/ ServeCancel(c, s)
  \/ RouteRefused(c, s) \/ Receive(c, s)

Next ==
  \/ \E c \in Clients, s \in Slots : Calls(c, s) \/ Deliver(c, s) \/ CallFails(c, s)
  \/ Arrive
  \/ Pause

Spec == Init /\ [][Next]_vars

(* Calls return, and each app keeps polling: every second on the web, on   *)
(* every fifth of its polls on mobile.                                     *)
FairSpec ==
  /\ Spec
  /\ \A c \in Clients, s \in Slots : WF_vars(Deliver(c, s)) /\ WF_vars(PollStatus(c, s))

-----------------------------------------------------------------------------
TypeOK ==
  /\ goal \in Goals(Points, {""})
  /\ view \in [Clients -> [reached : Seq(Points), remaining : Seq(Points)]]
  /\ edits \in 0..MaxEdits /\ failures \in 0..MaxFailures
  /\ visited \subseteq Points

(* Whatever copies the apps edit from, and in whatever order their edits   *)
(* land, the prefix a goal records as reached (nav_route.dart:9-14) holds  *)
(* only waypoints the poller did mark reached: no edit turns a waypoint    *)
(* the boat has yet to pass into one it has.                               *)
ReachedWasReached ==
  /\ \A i \in 1..goal.idx : goal.wps[i] \in visited
  /\ \A c \in Clients : \A i \in DOMAIN view[c].reached : view[c].reached[i] \in visited

(* "Clients edit the active route by re-sending it with start_index at the *)
(* current index, so reached waypoints stay on record" (README.md:316-318).*)
ReachedStaysOnRecord ==
  [][ IsOpen(goal) =>
        LET n == goal.idx
        IN  n <= goal'.idx /\ SubSeq(goal'.wps, 1, n) = SubSeq(goal.wps, 1, n) ]_vars

(* "The refetch after it converges local state on the service's (or undoes *)
(* a failed edit)" (viam_connection.dart:603-604): once editing and        *)
(* failures stop, every app ends up showing the service's route.           *)
ViewsConverge ==
  <>[](\A c \in Clients : view[c] = RouteOf(goal))
=============================================================================
