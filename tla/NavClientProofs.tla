-------------------------- MODULE NavClientProofs ---------------------------
(***************************************************************************)
(* No edit makes the route claim that a waypoint was reached which the     *)
(* boat has not reached, for any apps, routes, numbers of calls in flight  *)
(* and orders in which calls and replies arrive.  The argument: a reached  *)
(* prefix, wherever it is, in the goal, in an app's copy, in a call or a   *)
(* reply under way, was once the goal's.                                   *)
(***************************************************************************)
EXTENDS NavClient, TLAPS

(* A nil goal is none of the goals.                                        *)
NilIsNoGoal == NoGoal \notin Goals(Points, {""})

Views == [reached : Seq(Points), remaining : Seq(Points)]
RouteCalls == [is : {"route"}, wps : Seq(Points), start : Nat]
Replies == [is : {"reply"}, route : Views]
Messages == {Free, Status, CancelCall} \cup RouteCalls \cup Replies

(* The first n waypoints of wps have been reached.                         *)
Reached(wps, n) == n <= Len(wps) /\ \A i \in 1 .. n : wps[i] \in visited

GoalKept ==
  /\ goal \in Goals(Points, {""})
  /\ Reached(goal.wps, goal.idx)
  /\ IsOpen(goal) => goal.idx < Len(goal.wps)

ViewKept(v) == v \in Views /\ Reached(v.reached, Len(v.reached))

MessageKept(msg) ==
  /\ msg \in Messages
  /\ msg.is = "route" => (msg.start <= Len(msg.wps) /\ Reached(msg.wps, msg.start))
  /\ msg.is = "reply" => ViewKept(msg.route)

ClientInv ==
  /\ GoalKept
  /\ view \in [Clients -> Views] /\ \A c \in Clients : ViewKept(view[c])
  /\ net \in [Clients -> [Slots -> Messages]]
  /\ \A c \in Clients, s \in Slots : MessageKept(net[c][s])

(* Messages without a route.                                               *)
LEMMA BareMessages ==
  \A msg \in {Free, Status, CancelCall} : MessageKept(msg)
  BY DEF MessageKept, Messages, Free, Status, CancelCall

(* What an app makes of a goal is a copy it may keep.                      *)
LEMMA RouteOfKept ==
  ASSUME GoalKept
  PROVE  ViewKept(RouteOf(goal))
<1>1. CASE IsOpen(goal)
  <2>1. /\ goal.wps \in Seq(Points) /\ goal.idx \in Nat /\ goal.idx < Len(goal.wps)
        /\ \A i \in 1 .. goal.idx : goal.wps[i] \in visited
    BY <1>1 DEF GoalKept, Goals, Reached
  <2> DEFINE front == SubSeq(goal.wps, 1, goal.idx)
             rest == SubSeq(goal.wps, goal.idx + 1, Len(goal.wps))
  <2>2. front \in Seq(Points) /\ rest \in Seq(Points) /\ Len(front) = goal.idx
    BY <2>1
  <2>3. \A i \in 1 .. Len(front) : front[i] \in visited
    BY <2>1, <2>2
  <2>4. RouteOf(goal) = [reached |-> front, remaining |-> rest]
    BY <1>1 DEF RouteOf, Remaining
  <2> HIDE DEF front, rest
  <2> QED
    BY <2>2, <2>3, <2>4 DEF ViewKept, Views, Reached
<1>2. CASE ~IsOpen(goal)
  BY <1>2 DEF RouteOf, NoRoute, ViewKept, Views, Reached
<1> QED
  BY <1>1, <1>2

(* A call made from a copy claims what the copy does.                      *)
LEMMA RouteUpdateKept ==
  ASSUME NEW v \in Views, ViewKept(v), NEW remaining \in Seq(Points)
  PROVE  MessageKept(RouteUpdate(v, remaining))
<1>1. CASE remaining = <<>>
  BY <1>1, BareMessages DEF RouteUpdate
<1>2. CASE remaining # <<>>
  <2> DEFINE wps == v.reached \o remaining
  <2>1. v.reached \in Seq(Points) /\ \A i \in 1 .. Len(v.reached) : v.reached[i] \in visited
    BY DEF ViewKept, Views, Reached
  <2>2. /\ wps \in Seq(Points) /\ Len(v.reached) \in Nat /\ Len(v.reached) <= Len(wps)
        /\ \A i \in 1 .. Len(v.reached) : wps[i] = v.reached[i]
    BY <2>1
  <2>3. RouteUpdate(v, remaining) = [is |-> "route", wps |-> wps, start |-> Len(v.reached)]
    BY <1>2 DEF RouteUpdate, RouteCall
  <2> HIDE DEF wps
  <2> QED
    BY <2>1, <2>2, <2>3 DEF MessageKept, Messages, RouteCalls, Reached
<1> QED
  BY <1>1, <1>2

(* A step that puts one message in one slot, and may change one copy.      *)
LEMMA MessageStep ==
  ASSUME ClientInv, UNCHANGED <<goal, visited>>, NEW c \in Clients, NEW s \in Slots,
         NEW msg, MessageKept(msg), net' = [net EXCEPT ![c][s] = msg],
         NEW v, ViewKept(v), view' = view \/ view' = [view EXCEPT ![c] = v]
  PROVE  ClientInv'
<1>1. msg \in Messages /\ v \in Views
  BY DEF MessageKept, ViewKept
<1>2. /\ net' \in [Clients -> [Slots -> Messages]]
      /\ \A d \in Clients, t \in Slots : net'[d][t] = net[d][t] \/ net'[d][t] = msg
  BY <1>1 DEF ClientInv
<1>3. /\ view' \in [Clients -> Views]
      /\ \A d \in Clients : view'[d] = view[d] \/ view'[d] = v
  BY <1>1 DEF ClientInv
<1>4. GoalKept'
  BY DEF ClientInv, GoalKept, Reached
<1>5. \A d \in Clients : ViewKept(view'[d])
  BY <1>3 DEF ClientInv
<1>6. \A d \in Clients, t \in Slots : MessageKept(net'[d][t])
  BY <1>2 DEF ClientInv
<1>7. \A d \in Clients : ViewKept(view[d])'
  BY <1>5, UNCHANGED visited DEF ViewKept, Reached
<1>8. \A d \in Clients, t \in Slots : MessageKept(net[d][t])'
  BY <1>6, UNCHANGED visited DEF MessageKept, ViewKept, Reached
<1> QED
  BY <1>2, <1>3, <1>4, <1>7, <1>8 DEF ClientInv

(* A step of the goal: the copies and messages claim no more than before.  *)
LEMMA GoalStep ==
  ASSUME ClientInv, UNCHANGED view, visited \subseteq visited', GoalKept',
         \/ net' = net
         \/ \E c \in Clients, s \in Slots, msg \in {Free, Status, CancelCall} :
              net' = [net EXCEPT ![c][s] = msg]
  PROVE  ClientInv'
<1>1. \A msg \in {Free, Status, CancelCall} : MessageKept(msg) /\ msg \in Messages
  BY BareMessages DEF MessageKept
<1>2. /\ net' \in [Clients -> [Slots -> Messages]]
      /\ \A d \in Clients, t \in Slots : MessageKept(net'[d][t])
  <2>1. CASE net' = net
    BY <2>1 DEF ClientInv
  <2>2. ASSUME NEW c \in Clients, NEW s \in Slots, NEW msg \in {Free, Status, CancelCall},
               net' = [net EXCEPT ![c][s] = msg]
        PROVE  /\ net' \in [Clients -> [Slots -> Messages]]
               /\ \A d \in Clients, t \in Slots : net'[d][t] = net[d][t] \/ net'[d][t] = msg
    BY <1>1, <2>2 DEF ClientInv
  <2> QED
    BY <1>1, <2>1, <2>2 DEF ClientInv
<1>3. \A d \in Clients : ViewKept(view[d])'
  BY DEF ClientInv, ViewKept, Reached
<1>4. \A d \in Clients, t \in Slots : MessageKept(net[d][t])'
  BY <1>2 DEF MessageKept, ViewKept, Reached
<1> QED
  BY <1>2, <1>3, <1>4 DEF ClientInv

-----------------------------------------------------------------------------
(* Every step keeps the invariant.                                         *)

(* An edit of the waypoints left.                                          *)
LEMMA EditInv ==
  ASSUME ClientInv, NEW c \in Clients, NEW s \in Slots,
         NEW remaining \in Seq(Points), Edit(c, s, remaining)
  PROVE  ClientInv'
<1> DEFINE msg == RouteUpdate(view[c], remaining)
           edited == [view[c] EXCEPT !.remaining = remaining]
<1>1. view[c] \in Views /\ ViewKept(view[c])
  BY DEF ClientInv
<1>2. MessageKept(msg)
  BY <1>1, RouteUpdateKept
<1>3. ViewKept(edited)
  BY <1>1 DEF ViewKept, Views
<1>4. /\ UNCHANGED <<goal, visited>>
      /\ net' = [net EXCEPT ![c][s] = msg]
      /\ view' = view \/ view' = [view EXCEPT ![c] = edited]
  BY DEF Edit
<1> HIDE DEF msg, edited
<1> QED
  BY <1>2, <1>3, <1>4, MessageStep

(* The edits the apps offer leave sequences of points.                     *)
LEMMA CallsInv ==
  ASSUME ClientInv, NEW c \in Clients, NEW s \in Slots, Calls(c, s)
  PROVE  ClientInv'
<1> DEFINE rest == view[c].remaining
<1>1. rest \in Seq(Points)
  BY DEF ClientInv, Views
<1>2. CASE PollStatus(c, s)
  BY <1>2, BareMessages, MessageStep DEF PollStatus, ClientInv
<1>3. ASSUME NEW p \in Points, NEW i \in 1 .. (Len(rest) + 1), AddWaypoint(c, s, i, p)
      PROVE  ClientInv'
  <2>1. InsertAt(rest, i, p) \in Seq(Points)
    BY <1>1 DEF InsertAt
  <2> QED
    BY <1>3, <2>1, EditInv DEF AddWaypoint
<1>4. ASSUME NEW i \in DOMAIN rest, RemoveWaypoint(c, s, i)
      PROVE  ClientInv'
  <2>1. RemoveAt(rest, i) \in Seq(Points)
    BY <1>1 DEF RemoveAt
  <2> QED
    BY <1>4, <2>1, EditInv DEF RemoveWaypoint
<1>5. ASSUME NEW i \in DOMAIN rest, NEW p \in Points, MoveWaypoint(c, s, i, p)
      PROVE  ClientInv'
  <2>1. ReplaceAt(rest, i, p) \in Seq(Points)
    BY <1>1 DEF ReplaceAt
  <2> QED
    BY <1>5, <2>1, EditInv DEF MoveWaypoint
<1>6. CASE ClearWaypoints(c, s)
  <2>1. <<>> \in Seq(Points)
    OBVIOUS
  <2> QED
    BY <1>6, <2>1, EditInv DEF ClearWaypoints
<1> QED
  BY <1>2, <1>3, <1>4, <1>5, <1>6 DEF Calls

(* The service serves a route: the claim of the call becomes the goal's.   *)
LEMMA ServeRouteInv ==
  ASSUME ClientInv, NEW c \in Clients, NEW s \in Slots, ServeRoute(c, s)
  PROVE  ClientInv'
<1> DEFINE call == net[c][s]
<1>1. MessageKept(call) /\ call.is = "route" /\ Accepted(call)
  BY DEF ServeRoute, ClientInv
<1>2. call \in RouteCalls
  BY <1>1 DEF MessageKept, Messages, Free, Status, CancelCall, Replies
<1>3. /\ call.wps \in Seq(Points) /\ call.start \in Nat
      /\ call.start < Len(call.wps) /\ call.start <= Len(call.wps)
      /\ \A i \in 1 .. call.start : call.wps[i] \in visited
  BY <1>1, <1>2 DEF MessageKept, Accepted, Reached, RouteCalls
<1>4. /\ goal' = NewGoal("route", "", call.wps, call.start, FALSE, 0)
      /\ net' = [net EXCEPT ![c][s] = Status] /\ UNCHANGED <<view, visited>>
  BY DEF ServeRoute
<1> HIDE DEF call
<1>5. goal' \in Goals(Points, {""}) /\ goal'.wps = call.wps /\ goal'.idx = call.start
  BY <1>3, <1>4 DEF NewGoal, Goals, GoalStates
<1>6. GoalKept'
  <2>1. call.start < Len(call.wps) /\ call.start <= Len(call.wps) /\ visited' = visited
    BY <1>3, <1>4
  <2> QED
    BY <1>3, <1>5, <2>1 DEF GoalKept, Reached
<1> QED
  BY <1>4, <1>6, GoalStep

(* Cancel and Pause leave the waypoints and the cursor.                    *)
LEMMA SameRouteKept ==
  ASSUME GoalKept, UNCHANGED visited,
         \/ goal' = Finished(goal, "canceled")
         \/ goal' = goal
         \/ /\ goal.state \in {"active", "suspended"} /\ goal # NoGoal
            /\ \E state \in {"active", "suspended"} : goal' = [goal EXCEPT !.state = state]
  PROVE  GoalKept'
<1>1. CASE goal' = Finished(goal, "canceled")
  <2>1. /\ goal' \in Goals(Points, {""}) /\ goal'.state = "canceled"
        /\ goal'.wps = goal.wps /\ goal'.idx = goal.idx
    BY <1>1 DEF Finished, GoalKept, Goals, GoalStates
  <2> QED
    BY <2>1 DEF GoalKept, Reached, IsOpen
<1>2. CASE goal' = goal
  BY <1>2 DEF GoalKept, Reached, IsOpen
<1>3. ASSUME NEW state \in {"active", "suspended"}, goal.state \in {"active", "suspended"}, goal # NoGoal,
             goal' = [goal EXCEPT !.state = state]
      PROVE  GoalKept'
  <2>1. /\ goal' \in Goals(Points, {""})
        /\ goal'.wps = goal.wps /\ goal'.idx = goal.idx
    BY <1>3 DEF GoalKept, Goals, GoalStates
  <2>2. goal.idx < Len(goal.wps) /\ Reached(goal.wps, goal.idx)
    BY <1>3 DEF GoalKept, IsOpen
  <2> QED
    BY <2>1, <2>2 DEF GoalKept, Reached
<1> QED
  BY <1>1, <1>2, <1>3

(* Replies, refusals and failures.                                         *)
LEMMA DeliverInv ==
  ASSUME ClientInv, NEW c \in Clients, NEW s \in Slots, Deliver(c, s) \/ CallFails(c, s)
  PROVE  ClientInv'
<1>1. CASE AnswerStatus(c, s)
  <2> DEFINE msg == Reply(RouteOf(goal))
  <2>1. ViewKept(RouteOf(goal))
    BY RouteOfKept DEF ClientInv
  <2>2. MessageKept(msg)
    BY <2>1 DEF MessageKept, Messages, Replies, Reply, ViewKept
  <2> HIDE DEF msg
  <2> QED
    BY <1>1, <2>1, <2>2, MessageStep DEF AnswerStatus, msg
<1>2. CASE ServeRoute(c, s)
  BY <1>2, ServeRouteInv
<1>3. CASE ServeCancel(c, s)
  <2>1. GoalKept'
    BY <1>3, SameRouteKept DEF ServeCancel, ClientInv
  <2> QED
    BY <1>3, <2>1, GoalStep DEF ServeCancel
<1>4. CASE RouteRefused(c, s)
  BY <1>4, BareMessages, MessageStep DEF RouteRefused, ClientInv
<1>5. CASE Receive(c, s)
  <2>1. ViewKept(net[c][s].route)
    BY <1>5 DEF Receive, ClientInv, MessageKept
  <2> QED
    BY <1>5, <2>1, BareMessages, MessageStep DEF Receive
<1>6. CASE CallFails(c, s)
  <2>1. ViewKept(NoRoute)
    BY DEF ViewKept, Views, NoRoute, Reached
  <2>2. PICK msg \in {Free, Status} : net' = [net EXCEPT ![c][s] = msg]
    BY <1>6 DEF CallFails
  <2>3. view' = view \/ view' = [view EXCEPT ![c] = NoRoute]
    BY <1>6 DEF CallFails
  <2> QED
    BY <1>6, <2>1, <2>2, <2>3, BareMessages, MessageStep DEF CallFails
<1> QED
  BY <1>1, <1>2, <1>3, <1>4, <1>5, <1>6 DEF Deliver

(* The poller marks the waypoint it adds to those reached.                 *)
LEMMA ArriveInv ==
  ASSUME ClientInv, Arrive
  PROVE  GoalKept' /\ visited \subseteq visited' /\ UNCHANGED <<view, net>>
<1> DEFINE at == goal.idx + 1
<1>1. goal \in Goals(Points, {""}) /\ goal' = Advanced(goal, 1)
  BY DEF Arrive, ClientInv, GoalKept
<1>2. /\ goal.wps \in Seq(Points) /\ Len(goal.wps) \in Nat /\ goal.idx \in Nat /\ goal.idx <= Len(goal.wps)
      /\ \A i \in 1 .. goal.idx : goal.wps[i] \in visited
  <2>1. goal.wps \in Seq(Points) /\ goal.idx \in Nat
    BY <1>1 DEF Goals
  <2>2. Len(goal.wps) \in Nat
    BY <2>1
  <2>3. Reached(goal.wps, goal.idx)
    BY DEF ClientInv, GoalKept
  <2> QED
    BY <2>1, <2>2, <2>3 DEF Reached
<1>3. visited' = visited \cup {Remaining(goal)[1]} /\ UNCHANGED <<view, net>>
  BY DEF Arrive
<1>4. ASSUME goal.idx < Len(goal.wps)
      PROVE  \A i \in 1 .. at : goal.wps[i] \in visited'
  <2>1. Remaining(goal)[1] = goal.wps[at]
    BY <1>2, <1>4 DEF Remaining
  <2>2. \A i \in 1 .. at : i \in 1 .. goal.idx \/ i = at
    BY <1>2
  <2> QED
    BY <1>2, <1>3, <2>1, <2>2
<1>5. CASE at < Len(goal.wps)
  <2>1. /\ goal' \in Goals(Points, {""})
        /\ goal'.wps = goal.wps /\ goal'.idx = at
    <3>1. goal' = [goal EXCEPT !.idx = at]
      BY <1>1, <1>5 DEF Advanced
    <3>2. at \in Nat
      BY <1>2
    <3> HIDE DEF at
    <3> QED
      BY <1>1, <3>1, <3>2 DEF Goals
  <2>2. goal.idx < Len(goal.wps) /\ at <= Len(goal.wps)
    BY <1>2, <1>5
  <2>3. \A i \in 1 .. at : goal.wps[i] \in visited'
    BY <1>4, <2>2
  <2> QED
    BY <1>3, <1>5, <2>1, <2>2, <2>3 DEF GoalKept, Reached
<1>6. CASE ~(at < Len(goal.wps)) /\ goal.loop /\ Len(goal.wps) > 0
  <2>1. /\ goal' \in Goals(Points, {""})
        /\ goal'.wps = goal.wps /\ goal'.idx = 0
    <3> DEFINE lap == goal.lap + 1
    <3>1. goal' = [goal EXCEPT !.idx = 0, !.lap = lap]
      BY <1>1, <1>6 DEF Advanced
    <3>2. goal.lap \in Nat
      BY <1>1 DEF Goals
    <3>3. lap \in Nat
      BY <3>2
    <3> HIDE DEF lap
    <3>4. goal \in Goals(Points, {""})
      BY <1>1
    <3> QED
      BY <3>1, <3>3, <3>4 DEF Goals
  <2>2. 0 < Len(goal.wps) /\ 0 <= Len(goal.wps) /\ 1 .. 0 = {}
    BY <1>2, <1>6
  <2> QED
    BY <1>3, <2>1, <2>2 DEF GoalKept, Reached
<1>7. CASE ~(at < Len(goal.wps)) /\ ~(goal.loop /\ Len(goal.wps) > 0)
  <2>1. /\ goal' \in Goals(Points, {""}) /\ goal'.state = "succeeded"
        /\ goal'.wps = goal.wps /\ goal'.idx = Len(goal.wps)
    <3>1. goal' = [goal EXCEPT !.idx = Len(goal.wps), !.state = "succeeded", !.finished = TRUE]
      BY <1>1, <1>7 DEF Advanced
    <3> QED
      BY <1>1, <1>2, <3>1 DEF Goals, GoalStates
  <2>2. \A i \in 1 .. Len(goal.wps) : goal.wps[i] \in visited'
    <3>1. CASE goal.idx < Len(goal.wps)
      <4>1. Len(goal.wps) = at
        BY <1>2, <1>7, <3>1
      <4> QED
        BY <1>4, <3>1, <4>1
    <3>2. CASE goal.idx = Len(goal.wps)
      BY <1>2, <1>3, <3>2
    <3> QED
      BY <1>2, <3>1, <3>2
  <2>3. Len(goal.wps) <= Len(goal.wps)
    BY <1>2
  <2>4. ~IsOpen(goal)'
    BY <2>1 DEF IsOpen
  <2> QED
    BY <1>3, <2>1, <2>2, <2>3, <2>4 DEF GoalKept, Reached
<1>8. GoalKept'
  BY <1>5, <1>6, <1>7
<1> QED
  BY <1>3, <1>8

-----------------------------------------------------------------------------
(* The prefix a goal, or an app's copy, records as reached holds only      *)
(* waypoints the poller did mark (nav_route.dart:9-14), whatever copies    *)
(* the apps edit from and in whatever order their edits land.              *)
THEOREM NothingReachedByEditing ==
  ASSUME NilIsNoGoal
  PROVE  Spec => []ReachedWasReached
<1>1. Init => ClientInv
  <2> SUFFICES ASSUME Init
               PROVE  ClientInv
    OBVIOUS
  <2>1. /\ StartRoute \in Seq(Points) /\ StartIndex \in Nat
        /\ StartIndex < Len(StartRoute) /\ StartIndex <= Len(StartRoute)
    <3>1. StartRoute \in Seq(Points) /\ StartIndex \in 0 .. Len(StartRoute) - 1
      BY ClientAssumption
    <3>2. Len(StartRoute) \in Nat
      BY <3>1
    <3> QED
      BY <3>1, <3>2
  <2>2. /\ goal \in Goals(Points, {""})
        /\ goal.wps = StartRoute /\ goal.idx = StartIndex
    BY <2>1 DEF Init, NewGoal, Goals, GoalStates
  <2>3. \A i \in 1 .. StartIndex : StartRoute[i] \in visited
    BY DEF Init
  <2>4. GoalKept
    BY <2>1, <2>2, <2>3 DEF GoalKept, Reached
  <2>5. \A c \in Clients : view[c] = RouteOf(goal)
    BY DEF Init
  <2>6. ViewKept(RouteOf(goal))
    BY <2>4, RouteOfKept
  <2>7. view \in [Clients -> Views]
    BY <2>6 DEF Init, ViewKept
  <2>8. MessageKept(Free) /\ Free \in Messages
    BY BareMessages DEF Messages
  <2>9. /\ net \in [Clients -> [Slots -> Messages]]
        /\ \A c \in Clients, s \in Slots : net[c][s] = Free
    BY <2>8 DEF Init
  <2> QED
    BY <2>4, <2>5, <2>6, <2>7, <2>8, <2>9 DEF ClientInv
<1>2. ClientInv /\ [Next]_vars => ClientInv'
  <2> SUFFICES ASSUME ClientInv, [Next]_vars
               PROVE  ClientInv'
    OBVIOUS
  <2>1. ASSUME NEW c \in Clients, NEW s \in Slots, Calls(c, s) \/ Deliver(c, s) \/ CallFails(c, s)
        PROVE  ClientInv'
    BY <2>1, CallsInv, DeliverInv
  <2>2. CASE Arrive
    BY <2>2, ArriveInv, GoalStep
  <2>3. CASE Pause \/ UNCHANGED vars
    <3>1. UNCHANGED <<view, net, visited>>
      BY <2>3 DEF Pause, vars
    <3>2. GoalKept'
      <4>1. CASE Pause
        <5>1. goal # NoGoal
          BY DEF ClientInv, GoalKept, NilIsNoGoal
        <5>2. PICK state \in {"active", "suspended"} : goal' = [goal EXCEPT !.state = state]
          BY <4>1 DEF Pause, ClientInv, GoalKept, Goals
        <5> QED
          BY <4>1, <5>1, <5>2, SameRouteKept DEF Pause, ClientInv
      <4>2. CASE UNCHANGED vars
        BY <4>2, SameRouteKept DEF vars, ClientInv
      <4> QED
        BY <2>3, <4>1, <4>2
    <3> QED
      BY <3>1, <3>2, GoalStep
  <2> QED
    BY <2>1, <2>2, <2>3 DEF Next
<1>3. ClientInv => ReachedWasReached
  <2> SUFFICES ASSUME ClientInv
               PROVE  ReachedWasReached
    OBVIOUS
  <2>1. \A i \in 1 .. goal.idx : goal.wps[i] \in visited
    BY DEF ClientInv, GoalKept, Reached
  <2>2. ASSUME NEW c \in Clients, NEW i \in DOMAIN view[c].reached
        PROVE  view[c].reached[i] \in visited
    <3>1. view[c].reached \in Seq(Points) /\ Reached(view[c].reached, Len(view[c].reached))
      BY DEF ClientInv, ViewKept, Views
    <3>2. i \in 1 .. Len(view[c].reached)
      BY <3>1
    <3> QED
      BY <3>1, <3>2 DEF Reached
  <2> QED
    BY <2>1, <2>2 DEF ReachedWasReached
<1> QED
  BY <1>1, <1>2, <1>3, PTL DEF Spec
=============================================================================
