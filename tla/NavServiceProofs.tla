-------------------------- MODULE NavServiceProofs --------------------------
(***************************************************************************)
(* NavService keeps its invariant, for any requests, callers and bounds,   *)
(* and with it the properties of goals that interleavings put at risk.     *)
(***************************************************************************)
EXTENDS NavService, TLAPS

-----------------------------------------------------------------------------
(* What the operations on a goal return.                                   *)

(* A new goal is a goal.                                                   *)
LEMMA NewGoalType ==
  ASSUME NEW m \in {"route", "direct", "planned"}, NEW l \in Names \cup {NoName},
         NEW w \in Seq(Points), NEW i \in Nat, NEW r \in BOOLEAN, NEW t \in Nat
  PROVE  NewGoal(m, l, w, i, r, t) \in AnyGoal
  BY DEF NewGoal, AnyGoal, Goals, GoalStates

(* advance keeps a goal a goal, and the same one.                          *)
LEMMA AdvancedType ==
  ASSUME NEW g \in AnyGoal, NEW n \in Nat \ {0}
  PROVE  /\ Advanced(g, n) \in AnyGoal
         /\ Advanced(g, n).started = g.started
         /\ Advanced(g, n).wps = g.wps
<1>1. g.idx \in Nat /\ g.lap \in Nat /\ Len(g.wps) \in Nat
  BY DEF AnyGoal, Goals
<1>2. CASE g.idx + n < Len(g.wps)
  <2>1. Advanced(g, n) = [g EXCEPT !.idx = g.idx + n]
    BY <1>2 DEF Advanced
  <2> QED BY <1>1, <2>1 DEF AnyGoal, Goals
<1>3. CASE ~(g.idx + n < Len(g.wps)) /\ g.loop /\ Len(g.wps) > 0
  <2> DEFINE Wrapped(k) == [g EXCEPT !.idx = 0, !.lap = k]
  <2>1. Advanced(g, n) = Wrapped(g.lap + 1)
    BY <1>3 DEF Advanced
  <2>2. ASSUME NEW k \in Nat
        PROVE  /\ Wrapped(k) \in AnyGoal
               /\ Wrapped(k).started = g.started /\ Wrapped(k).wps = g.wps
    BY DEF AnyGoal, Goals
  <2>3. g.lap + 1 \in Nat
    BY <1>1
  <2> HIDE DEF Wrapped
  <2> QED BY <2>1, <2>2, <2>3
<1>4. CASE ~(g.idx + n < Len(g.wps)) /\ ~(g.loop /\ Len(g.wps) > 0)
  <2> DEFINE Done(k) == [g EXCEPT !.idx = k, !.state = "succeeded", !.finished = TRUE]
  <2>1. Advanced(g, n) = Done(Len(g.wps))
    BY <1>4 DEF Advanced
  <2>2. ASSUME NEW k \in Nat
        PROVE  /\ Done(k) \in AnyGoal
               /\ Done(k).started = g.started /\ Done(k).wps = g.wps
    BY DEF AnyGoal, Goals, GoalStates
  <2> HIDE DEF Done
  <2> QED BY <1>1, <2>1, <2>2
<1> QED
  BY <1>2, <1>3, <1>4

(* finish keeps a goal a goal, and the same one.                           *)
LEMMA FinishedType ==
  ASSUME NEW g \in AnyGoal, NEW s \in GoalStates
  PROVE  /\ Finished(g, s) \in AnyGoal
         /\ Finished(g, s).started = g.started
         /\ Finished(g, s).wps = g.wps
  BY DEF Finished, AnyGoal, Goals

(* A nil goal is not a goal, so a goal's fields may be read.               *)
LEMMA GoalIsGoal ==
  ASSUME TypeOK
  PROVE  /\ goal # NoGoal => goal \in AnyGoal
         /\ NoGoal \notin AnyGoal
         /\ poll # NoVerdict => poll \in [seen : AnyGoal, n : Nat \ {0}]
  BY ServiceAssumption DEF TypeOK, AnyGoal

(* Where a call stands tells what is known of it.                          *)
LEMMA CallIsCall ==
  ASSUME TypeOK, NEW c \in Callers
  PROVE  /\ call[c].at = "resolving" => call[c] \in AnyRequest
         /\ call[c].at = "stamped" => call[c] \in AnyStamped
         /\ call[c].at = "waiting" => call[c] \in AnyWaiting
  BY DEF TypeOK, NoCall, AnyRequest, AnyStamped, AnyWaiting

-----------------------------------------------------------------------------
(* The initial states satisfy the invariant.                               *)
LEMMA InitIInv == Init => IInv
  BY DEF Init, IInv, TypeOK, LocationsUnique, GoalWellFormed, CallFacts, StampsUnique,
         JudgedIsSame, NoCall, NoVerdict, Stamped

(* A call that is taken up, resolved or answered stays a call.             *)
LEMMA AskType ==
  ASSUME TypeOK, NEW c \in Callers,
         NEW m \in {"route", "direct", "planned"}, NEW l \in Names \cup {NoName},
         NEW w \in Seq(Points), NEW s \in Seq(Stops),
         NEW o \in [index : Int \cup {Nearest}, loop : BOOLEAN, wait : BOOLEAN],
         Ask(c, m, l, w, s, o)
  PROVE  TypeOK'
<1>1. NewGoal(m, l, w, 0, o.loop, 0) \in AnyGoal
  BY NewGoalType
<1>2. [at |-> "resolving", stops |-> s, index |-> o.index, wait |-> o.wait,
       goal |-> NewGoal(m, l, w, 0, o.loop, 0)] \in AnyRequest
  BY <1>1 DEF AnyRequest
<1> QED
  BY <1>2 DEF Ask, TypeOK

(* Every request asks for something Ask accepts.                           *)
LEMMA RequestType ==
  ASSUME TypeOK, NEW c \in Callers, Request(c)
  PROVE  TypeOK'
<1> USE ServiceAssumption
<1>o. \A v \in BOOLEAN :
        Waiting(v) \in [index : Int \cup {Nearest}, loop : BOOLEAN, wait : BOOLEAN]
  BY DEF Waiting
<1>s. <<>> \in Seq(Points) /\ <<>> \in Seq(Stops)
  OBVIOUS
<1>n. \A n \in Names : <<n>> \in Seq(Stops)
  BY DEF Stops
<1>p. \A p \in Points : <<p>> \in Seq(Points)
  OBVIOUS
<1>1. ASSUME NEW n \in Names, NavigateToLocation(c, n) PROVE TypeOK'
  BY <1>1, <1>o, <1>s, <1>n, AskType DEF NavigateToLocation
<1>2. ASSUME NEW n \in Names, NEW v \in BOOLEAN, GoToLocation(c, n, v) PROVE TypeOK'
  BY <1>2, <1>o, <1>s, <1>n, AskType DEF GoToLocation
<1>3. ASSUME NEW p \in Targets, NavigateToPoint(c, p) PROVE TypeOK'
  BY <1>3, <1>o, <1>s, <1>p, AskType DEF NavigateToPoint
<1>4. ASSUME NEW p \in Targets, NEW v \in BOOLEAN, GoToPoint(c, p, v) PROVE TypeOK'
  BY <1>4, <1>o, <1>s, <1>p, AskType DEF GoToPoint
<1>5. ASSUME NEW r \in Routes, NEW o \in RouteOptions, NavigateRoute(c, r, o) PROVE TypeOK'
  BY <1>5, <1>s, AskType DEF NavigateRoute
<1>6. ASSUME NEW r \in SavedRoutes, NEW o \in RouteOptions, NavigateSavedRoute(c, r, o)
      PROVE TypeOK'
  BY <1>6, <1>s, AskType DEF NavigateSavedRoute
<1>7. ASSUME NEW p \in Plans, NEW n \in Names \cup {NoName}, ExecutePlan(c, p, n) PROVE TypeOK'
  <2>1. (IF Len(p) > 1 THEN Tail(p) ELSE p) \in Seq(Points)
    OBVIOUS
  <2> QED BY <1>7, <1>o, <1>s, <2>1, AskType DEF ExecutePlan
<1> QED
  BY <1>1, <1>2, <1>3, <1>4, <1>5, <1>6, <1>7 DEF Request

(* Handling a call keeps the types.                                        *)
LEMMA HandleType ==
  ASSUME TypeOK, NEW c \in Callers, Handle(c)
  PROVE  TypeOK'
<1>1. CASE Resolve(c)
  <2>1. call[c] \in AnyRequest /\ call[c].stops \in Seq(Stops) /\ call[c].stops # <<>>
    BY <1>1, CallIsCall DEF Resolve, AnyRequest
  <2>2. Head(call[c].stops) \in Stops /\ Tail(call[c].stops) \in Seq(Stops)
    BY <2>1
  <2>3. ASSUME NEW p \in Points PROVE Resolved(call[c], p) \in AnyRequest
    <3>1. Append(call[c].goal.wps, p) \in Seq(Points)
      BY <2>1 DEF AnyRequest, AnyGoal, Goals
    <3>2. [call[c].goal EXCEPT !.wps = Append(call[c].goal.wps, p)] \in AnyGoal
      BY <2>1, <3>1 DEF AnyRequest, AnyGoal, Goals
    <3> QED BY <2>1, <2>2, <3>2 DEF AnyRequest, Resolved
  <2>4. (IF Head(call[c].stops) \in Names
         THEN {l.at : l \in {k \in locs : k.name = Head(call[c].stops)}}
         ELSE {Head(call[c].stops)}) \subseteq Points
    BY <2>2 DEF TypeOK, SavedLocations, Stops
  <2> QED
    BY <1>1, <2>3, <2>4 DEF Resolve, Answer, TypeOK
<1>2. CASE Stamp(c)
  <2>1. call[c] \in AnyRequest
    BY <1>2, CallIsCall DEF Stamp
  <2>2. StartIndexes(c) \subseteq Nat
    BY <2>1 DEF StartIndexes, AnyRequest, AnyGoal, Goals
  <2>3. ASSUME NEW i \in StartIndexes(c) PROVE
          [at |-> "stamped", wait |-> call[c].wait, goal |-> StampedGoal(call[c].goal, i)]
            \in AnyStamped
    <3>1. StampedGoal(call[c].goal, i) \in AnyGoal
      BY <2>1, <2>2 DEF StampedGoal, AnyRequest, AnyGoal, Goals, TypeOK
    <3> QED BY <2>1, <3>1 DEF AnyRequest, AnyStamped
  <2>4. call' \in [Callers -> {NoCall} \cup AnyRequest \cup AnyStamped \cup AnyWaiting]
    BY <1>2, <2>3 DEF Stamp, TypeOK
  <2> QED
    BY <1>2, <2>4 DEF Stamp, TypeOK
<1>3. CASE StoreGoal(c)
  <2>1. call[c] \in AnyStamped
    BY <1>3, CallIsCall DEF StoreGoal
  <2>2. [at |-> "waiting", started |-> call[c].goal.started] \in AnyWaiting
    BY <2>1 DEF AnyStamped, AnyWaiting, AnyGoal, Goals
  <2> QED
    BY <1>3, <2>1, <2>2 DEF StoreGoal, TypeOK, AnyStamped
<1>4. CASE Refuse(c) \/ StoreFails(c) \/ WaitPoll(c) \/ WaitGiveUp(c)
  BY <1>4 DEF Refuse, StoreFails, WaitPoll, WaitGiveUp, Answer, TypeOK
<1> QED
  BY <1>1, <1>2, <1>3, <1>4 DEF Handle

(* The changes to saved locations and to the goal in place keep the types. *)
LEMMA OtherType ==
  ASSUME TypeOK,
         \/ Locations \/ (\E reason \in BOOLEAN : Suspend(reason)) \/ Resume \/ Cancel
         \/ CheckArrival \/ AdvanceGoal \/ AdvanceFails \/ Restart
  PROVE  TypeOK'
<1>g. goal # NoGoal => goal \in AnyGoal
  BY GoalIsGoal
<1>1. CASE Locations
  <2>1. ASSUME NEW n \in Names, NEW p \in Points, AddLocation(n, p) PROVE TypeOK'
    BY <2>1 DEF AddLocation, TypeOK, SavedLocations
  <2>2. ASSUME NEW l \in locs, NEW m \in Names, NEW p \in Points, UpdateLocation(l, m, p)
        PROVE TypeOK'
    <3>1. goal' \in AnyGoal \cup {NoGoal}
      BY <2>2, <1>g DEF UpdateLocation, TypeOK, AnyGoal, Goals
    <3> QED BY <2>2, <3>1 DEF UpdateLocation, TypeOK, SavedLocations
  <2>3. ASSUME NEW n \in Names, DeleteLocation(n) PROVE TypeOK'
    BY <2>3 DEF DeleteLocation, TypeOK
  <2> QED BY <1>1, <2>1, <2>2, <2>3 DEF Locations
<1>2. ASSUME NEW reason \in BOOLEAN, Suspend(reason) PROVE TypeOK'
  BY <1>2, <1>g DEF Suspend, TypeOK, AnyGoal, Goals, GoalStates
<1>3. CASE Resume
  BY <1>3, <1>g DEF Resume, TypeOK, AnyGoal, Goals, GoalStates
<1>4. CASE Cancel
  <2>1. goal' \in AnyGoal
    BY <1>4, <1>g, FinishedType DEF Cancel, IsOpen, GoalStates
  <2> QED BY <1>4, <2>1 DEF Cancel, TypeOK
<1>5. CASE CheckArrival
  <2>1. Verdicts(goal) \subseteq Nat \ {0}
    BY DEF Verdicts
  <2>2. poll' \in [seen : AnyGoal, n : Nat \ {0}]
    BY <1>5, <1>g, <2>1 DEF CheckArrival
  <2> QED BY <1>5, <2>2 DEF CheckArrival, TypeOK
<1>6. CASE AdvanceGoal
  <2>1. goal' \in AnyGoal \cup {NoGoal}
    BY <1>6, <1>g, GoalIsGoal, AdvancedType DEF AdvanceGoal, StillJudged, TypeOK
  <2> QED BY <1>6, <2>1 DEF AdvanceGoal, TypeOK
<1>7. CASE AdvanceFails
  BY <1>7 DEF AdvanceFails, TypeOK
<1>8. CASE Restart
  BY <1>8 DEF Restart, TypeOK
<1> QED
  BY <1>1, <1>2, <1>3, <1>4, <1>5, <1>6, <1>7, <1>8

(* Every step keeps the types.                                             *)
LEMMA TypeStep == TypeOK /\ [Next]_vars => TypeOK'
<1> SUFFICES ASSUME TypeOK, [Next]_vars PROVE TypeOK'
  OBVIOUS
<1>1. CASE UNCHANGED vars
  BY <1>1 DEF vars, TypeOK
<1>2. CASE Next
  BY <1>2, RequestType, HandleType, OtherType DEF Next
<1> QED
  BY <1>1, <1>2

-----------------------------------------------------------------------------
(* What a step can do to each variable.                                    *)

(* The goal is replaced by StoreGoal, and otherwise changed in place.      *)
LEMMA GoalStep ==
  ASSUME [Next]_vars
  PROVE  \/ goal' = goal
         \/ \E l \in locs, m \in Names, p \in Points : UpdateLocation(l, m, p)
         \/ \E c \in Callers : StoreGoal(c)
         \/ (\E reason \in BOOLEAN : Suspend(reason)) \/ Resume \/ Cancel
         \/ AdvanceGoal
<1>1. CASE UNCHANGED vars
  BY <1>1 DEF vars
<1>2. CASE Locations
  BY <1>2 DEF Locations, AddLocation, DeleteLocation
<1>3. ASSUME NEW c \in Callers, Request(c) PROVE goal' = goal
  BY <1>3 DEF Request, Ask, NavigateToLocation, GoToLocation, NavigateToPoint, GoToPoint,
              NavigateRoute, NavigateSavedRoute, ExecutePlan
<1>4. ASSUME NEW c \in Callers, Handle(c) PROVE goal' = goal \/ StoreGoal(c)
  BY <1>4 DEF Handle, Resolve, Stamp, Refuse, StoreFails, WaitPoll, WaitGiveUp
<1>5. CASE CheckArrival \/ AdvanceFails \/ Restart
  BY <1>5 DEF CheckArrival, AdvanceFails, Restart
<1> QED
  BY <1>1, <1>2, <1>3, <1>4, <1>5 DEF Next

(* A call is stamped by Stamp, and until it is stored or answered stays    *)
(* the same.                                                               *)
LEMMA CallStep ==
  ASSUME TypeOK, [Next]_vars, NEW c \in Callers, call'[c].at = "stamped", ~Stamp(c)
  PROVE  call'[c] = call[c]
<1> USE DEF TypeOK
<1>1. CASE UNCHANGED vars
  BY <1>1 DEF vars
<1>2. CASE Locations
  BY <1>2 DEF Locations, AddLocation, UpdateLocation, DeleteLocation
<1>3. ASSUME NEW d \in Callers, Request(d) PROVE call'[c] = call[c]
  <2>1. \E m, l, w, s, o : Ask(d, m, l, w, s, o)
    BY <1>3 DEF Request, NavigateToLocation, GoToLocation, NavigateToPoint, GoToPoint,
                NavigateRoute, NavigateSavedRoute, ExecutePlan
  <2>2. PICK m, l, w, s, o : Ask(d, m, l, w, s, o)
    BY <2>1
  <2> QED BY <2>2 DEF Ask
<1>4. ASSUME NEW d \in Callers, Handle(d) PROVE call'[c] = call[c]
  <2>1. CASE c # d
    BY <1>4, <2>1 DEF Handle, Resolve, Stamp, Refuse, StoreGoal, StoreFails, WaitPoll,
                      WaitGiveUp, Answer
  <2>2. CASE c = d /\ Resolve(c)
    <3>1. call[c] \in AnyRequest
      BY <2>2, CallIsCall DEF Resolve
    <3>2. \A p : Resolved(call[c], p).at = "resolving"
      BY <3>1 DEF Resolved, AnyRequest
    <3> QED BY <2>2, <3>2 DEF Resolve, Answer, NoCall
  <2>3. CASE c = d /\ StoreGoal(c)
    BY <2>3 DEF StoreGoal, NoCall
  <2>4. CASE c = d /\ (Refuse(c) \/ StoreFails(c) \/ WaitPoll(c) \/ WaitGiveUp(c))
    BY <2>4 DEF Refuse, StoreFails, WaitPoll, WaitGiveUp, Answer, NoCall
  <2> QED BY <1>4, <2>1, <2>2, <2>3, <2>4 DEF Handle
<1>5. CASE \/ (\E reason \in BOOLEAN : Suspend(reason)) \/ Resume \/ Cancel
           \/ CheckArrival \/ AdvanceGoal \/ AdvanceFails
  BY <1>5 DEF Suspend, Resume, Cancel, CheckArrival, AdvanceGoal, AdvanceFails
<1>6. CASE Restart
  BY <1>6 DEF Restart, NoCall
<1> QED
  BY <1>1, <1>2, <1>3, <1>4, <1>5, <1>6 DEF Next

(* The poller's verdict is on the goal of this moment, or there is none.   *)
LEMMA PollStep ==
  ASSUME [Next]_vars
  PROVE  poll' = poll \/ poll' = NoVerdict \/ CheckArrival
<1>1. CASE UNCHANGED vars
  BY <1>1 DEF vars
<1>2. CASE Locations
  BY <1>2 DEF Locations, AddLocation, UpdateLocation, DeleteLocation
<1>3. ASSUME NEW c \in Callers, Request(c) PROVE poll' = poll
  BY <1>3 DEF Request, Ask, NavigateToLocation, GoToLocation, NavigateToPoint, GoToPoint,
              NavigateRoute, NavigateSavedRoute, ExecutePlan
<1>4. ASSUME NEW c \in Callers, Handle(c) PROVE poll' = poll
  BY <1>4 DEF Handle, Resolve, Stamp, Refuse, StoreGoal, StoreFails, WaitPoll, WaitGiveUp
<1>5. CASE (\E reason \in BOOLEAN : Suspend(reason)) \/ Resume \/ Cancel
  BY <1>5 DEF Suspend, Resume, Cancel
<1>6. CASE AdvanceGoal \/ AdvanceFails \/ Restart
  BY <1>6 DEF AdvanceGoal, AdvanceFails, Restart
<1> QED
  BY <1>1, <1>2, <1>3, <1>4, <1>5, <1>6 DEF Next

(* A goal changed in place is still the same goal: its StartedAt and its   *)
(* waypoints stay.                                                         *)
LEMMA InPlace ==
  ASSUME TypeOK, [Next]_vars, \A c \in Callers : ~StoreGoal(c)
  PROVE  /\ goal' # NoGoal <=> goal # NoGoal
         /\ goal # NoGoal => goal'.started = goal.started /\ goal'.wps = goal.wps
<1>g. (goal # NoGoal => goal \in AnyGoal) /\ NoGoal \notin AnyGoal
  BY GoalIsGoal
<1>1. CASE goal' = goal
  BY <1>1
<1>2. ASSUME NEW l \in locs, NEW m \in Names, NEW p \in Points, UpdateLocation(l, m, p)
      PROVE  /\ goal' # NoGoal <=> goal # NoGoal
             /\ goal # NoGoal => goal'.started = goal.started /\ goal'.wps = goal.wps
  <2>1. CASE goal' = goal
    BY <2>1
  <2>2. CASE goal # NoGoal /\ goal' = [goal EXCEPT !.loc = m]
    <3>1. goal' \in AnyGoal
      BY <1>g, <2>2 DEF AnyGoal, Goals
    <3> QED BY <1>g, <2>2, <3>1 DEF AnyGoal, Goals
  <2> QED BY <1>2, <2>1, <2>2 DEF UpdateLocation
<1>3. CASE (\E reason \in BOOLEAN : Suspend(reason)) \/ Resume
  <2>1. goal # NoGoal /\ goal' \in AnyGoal
    BY <1>3, <1>g, ZenonT(30) DEF Suspend, Resume, AnyGoal, Goals, GoalStates
  <2> QED BY <1>3, <1>g, <2>1, ZenonT(30) DEF Suspend, Resume, AnyGoal, Goals
<1>4. CASE Cancel
  BY <1>4, <1>g, FinishedType DEF Cancel, IsOpen, GoalStates
<1>5. CASE AdvanceGoal
  <2>1. poll \in [seen : AnyGoal, n : Nat \ {0}]
    BY <1>5, GoalIsGoal DEF AdvanceGoal
  <2> QED BY <1>5, <1>g, <2>1, AdvancedType DEF AdvanceGoal, StillJudged
<1> QED
  BY <1>1, <1>2, <1>3, <1>4, <1>5, GoalStep

-----------------------------------------------------------------------------
(* Each conjunct of the invariant, over every step.                        *)

(* Adds and renames keep names unique.                                     *)
LEMMA LocationsStep == LocationsUnique /\ [Next]_vars => LocationsUnique'
<1> SUFFICES ASSUME LocationsUnique, [Next]_vars PROVE LocationsUnique'
  OBVIOUS
<1>1. ASSUME NEW n \in Names, NEW p \in Points, AddLocation(n, p) PROVE LocationsUnique'
  BY <1>1 DEF AddLocation, Saved, LocationsUnique
<1>2. ASSUME NEW l \in locs, NEW m \in Names, NEW p \in Points, UpdateLocation(l, m, p)
      PROVE  LocationsUnique'
  BY <1>2 DEF UpdateLocation, Saved, LocationsUnique
<1>3. ASSUME NEW n \in Names, DeleteLocation(n) PROVE LocationsUnique'
  BY <1>3 DEF DeleteLocation, LocationsUnique
<1>4. CASE locs' = locs
  BY <1>4 DEF LocationsUnique
<1>5. ASSUME NEW c \in Callers, Request(c) PROVE locs' = locs
  BY <1>5 DEF Request, Ask, NavigateToLocation, GoToLocation, NavigateToPoint, GoToPoint,
              NavigateRoute, NavigateSavedRoute, ExecutePlan
<1>6. ASSUME NEW c \in Callers, Handle(c) PROVE locs' = locs
  BY <1>6 DEF Handle, Resolve, Stamp, Refuse, StoreGoal, StoreFails, WaitPoll, WaitGiveUp
<1>7. CASE UNCHANGED vars
  BY <1>4, <1>7 DEF vars
<1>8. CASE \/ (\E reason \in BOOLEAN : Suspend(reason)) \/ Resume \/ Cancel
           \/ CheckArrival \/ AdvanceGoal \/ AdvanceFails \/ Restart
  BY <1>4, <1>8 DEF Suspend, Resume, Cancel, CheckArrival, AdvanceGoal, AdvanceFails, Restart
<1> QED
  BY <1>1, <1>2, <1>3, <1>4, <1>5, <1>6, <1>7, <1>8 DEF Next, Locations

(* What advance does to the fields of an active goal with a waypoint: it   *)
(* moves the cursor, wraps it, or ends the route.                          *)
LEMMA AdvancedFields ==
  ASSUME NEW g \in AnyGoal, NEW n \in Nat \ {0}, g.wps # <<>>
  PROVE  LET h == Advanced(g, n) IN
         /\ h.loop = g.loop /\ h.reason = g.reason
         /\ \/ h.idx \in 0..(Len(g.wps) - 1) /\ h.state = g.state /\ h.finished = g.finished
            \/ h.idx = Len(g.wps) /\ h.state = "succeeded" /\ h.finished /\ ~g.loop
<1>1. g.idx \in Nat /\ g.lap \in Nat /\ Len(g.wps) \in Nat \ {0}
  BY DEF AnyGoal, Goals
<1>2. CASE g.idx + n < Len(g.wps)
  <2>1. Advanced(g, n) = [g EXCEPT !.idx = g.idx + n]
    BY <1>2 DEF Advanced
  <2> QED BY <1>1, <1>2, <2>1 DEF AnyGoal, Goals
<1>3. CASE ~(g.idx + n < Len(g.wps)) /\ g.loop
  <2> DEFINE Wrapped(k) == [g EXCEPT !.idx = 0, !.lap = k]
  <2>1. Advanced(g, n) = Wrapped(g.lap + 1)
    BY <1>1, <1>3 DEF Advanced
  <2>2. \A k : /\ Wrapped(k).loop = g.loop /\ Wrapped(k).reason = g.reason
               /\ Wrapped(k).idx = 0 /\ Wrapped(k).state = g.state
               /\ Wrapped(k).finished = g.finished
    BY DEF AnyGoal, Goals
  <2> HIDE DEF Wrapped
  <2> QED BY <1>1, <2>1, <2>2
<1>4. CASE ~(g.idx + n < Len(g.wps)) /\ ~g.loop
  <2> DEFINE Done(k) == [g EXCEPT !.idx = k, !.state = "succeeded", !.finished = TRUE]
  <2>1. Advanced(g, n) = Done(Len(g.wps))
    BY <1>4 DEF Advanced
  <2>2. \A k : /\ Done(k).loop = g.loop /\ Done(k).reason = g.reason
               /\ Done(k).idx = k /\ Done(k).state = "succeeded" /\ Done(k).finished
    BY DEF AnyGoal, Goals
  <2> HIDE DEF Done
  <2> QED BY <1>4, <2>1, <2>2
<1> QED
  BY <1>2, <1>3, <1>4

(* Every goal stored, and every change to it, keeps it well formed.        *)
LEMMA GoalFormedStep ==
  TypeOK /\ GoalWellFormed /\ CallFacts /\ [Next]_vars => GoalWellFormed'
<1> SUFFICES ASSUME TypeOK, GoalWellFormed, CallFacts, [Next]_vars PROVE GoalWellFormed'
  OBVIOUS
<1>g. (goal # NoGoal => goal \in AnyGoal) /\ NoGoal \notin AnyGoal
  BY GoalIsGoal
<1>1. CASE goal' = goal
  BY <1>1 DEF GoalWellFormed, IsOpen
<1>2. ASSUME NEW c \in Callers, StoreGoal(c) PROVE GoalWellFormed'
  <2>1. call[c] \in AnyStamped /\ Pending(c) \in AnyGoal /\ goal' = Pending(c)
    BY <1>2, CallIsCall DEF StoreGoal, AnyStamped, Pending
  <2>2. /\ Pending(c).state = "active" /\ ~Pending(c).finished /\ ~Pending(c).reason
        /\ Pending(c).idx < Len(Pending(c).wps)
    BY <1>2 DEF StoreGoal, CallFacts, Stamped
  <2>3. goal'.idx \in 0..Len(goal'.wps) /\ goal'.wps # <<>> /\ goal'.idx # Len(goal'.wps)
    BY <2>1, <2>2 DEF AnyGoal, Goals
  <2> QED BY <1>g, <2>1, <2>2, <2>3 DEF GoalWellFormed, IsOpen
<1>3. ASSUME NEW l \in locs, NEW m \in Names, NEW p \in Points, UpdateLocation(l, m, p),
             goal' # goal
      PROVE  GoalWellFormed'
  <2>1. goal # NoGoal /\ goal' = [goal EXCEPT !.loc = m]
    BY <1>3 DEF UpdateLocation
  <2>2. goal' \in AnyGoal
    BY <1>g, <2>1 DEF AnyGoal, Goals
  <2>3. /\ goal'.idx = goal.idx /\ goal'.wps = goal.wps /\ goal'.state = goal.state
        /\ goal'.loop = goal.loop /\ goal'.finished = goal.finished
        /\ goal'.reason = goal.reason
    BY <1>g, <2>1 DEF AnyGoal, Goals
  <2> QED BY <1>g, <2>1, <2>2, <2>3 DEF GoalWellFormed, IsOpen
<1>4. ASSUME NEW reason \in BOOLEAN, Suspend(reason) PROVE GoalWellFormed'
  <2>1. goal # NoGoal /\ goal.state = "active" /\ goal' \in AnyGoal
    BY <1>4, <1>g DEF Suspend, AnyGoal, Goals, GoalStates
  <2>2. /\ goal'.idx = goal.idx /\ goal'.wps = goal.wps /\ goal'.state = "suspended"
        /\ goal'.loop = goal.loop /\ goal'.finished = goal.finished
    BY <1>4, <1>g DEF Suspend, AnyGoal, Goals
  <2> QED BY <1>g, <2>1, <2>2 DEF GoalWellFormed, IsOpen
<1>5. CASE Resume
  <2>1. goal # NoGoal /\ goal.state = "suspended" /\ goal' \in AnyGoal
    BY <1>5, <1>g DEF Resume, AnyGoal, Goals, GoalStates
  <2>2. /\ goal'.idx = goal.idx /\ goal'.wps = goal.wps /\ goal'.state = "active"
        /\ goal'.loop = goal.loop /\ goal'.finished = goal.finished /\ ~goal'.reason
    BY <1>5, <1>g DEF Resume, AnyGoal, Goals
  <2> QED BY <1>g, <2>1, <2>2 DEF GoalWellFormed, IsOpen
<1>6. CASE Cancel
  <2>1. goal # NoGoal /\ goal.state \in {"active", "suspended"} /\ goal' \in AnyGoal
    BY <1>6, <1>g, FinishedType DEF Cancel, IsOpen, GoalStates
  <2>2. /\ goal'.idx = goal.idx /\ goal'.wps = goal.wps /\ goal'.state = "canceled"
        /\ goal'.finished /\ ~goal'.reason
    BY <1>6, <1>g, <2>1 DEF Cancel, Finished, AnyGoal, Goals
  <2> QED BY <1>g, <2>1, <2>2 DEF GoalWellFormed, IsOpen
<1>7. CASE AdvanceGoal /\ goal' # goal
  <2>1. goal # NoGoal /\ goal.state = "active" /\ goal' = Advanced(goal, poll.n)
    BY <1>7 DEF AdvanceGoal, StillJudged
  <2>2. poll.n \in Nat \ {0}
    BY <1>7, GoalIsGoal DEF AdvanceGoal
  <2>3. goal.wps # <<>> /\ ~goal.reason /\ ~goal.finished
    BY <1>g, <2>1 DEF GoalWellFormed, IsOpen, AnyGoal, Goals
  <2>4. goal' \in AnyGoal /\ goal'.wps = goal.wps
    BY <1>g, <2>1, <2>2, AdvancedType
  <2>5. /\ goal'.loop = goal.loop /\ goal'.reason = goal.reason
        /\ \/ /\ goal'.idx \in 0..(Len(goal.wps) - 1) /\ goal'.state = goal.state
              /\ goal'.finished = goal.finished
           \/ /\ goal'.idx = Len(goal.wps) /\ goal'.state = "succeeded"
              /\ goal'.finished /\ ~goal.loop
    BY <1>g, <2>1, <2>2, <2>3, AdvancedFields
  <2>6. goal'.idx \in 0..Len(goal'.wps) /\ (goal'.state = "succeeded" <=> goal'.idx = Len(goal'.wps))
    BY <1>g, <2>1, <2>4, <2>5 DEF AnyGoal, Goals
  <2> QED BY <1>g, <2>1, <2>3, <2>4, <2>5, <2>6 DEF GoalWellFormed, IsOpen
<1> QED
  BY <1>1, <1>2, <1>3, <1>4, <1>5, <1>6, <1>7, GoalStep

(* StartedAt moves on with every goal stamped, and never back.             *)
LEMMA ClockStep == [Next]_vars => clock' = clock \/ clock' = clock + 1
<1> SUFFICES ASSUME [Next]_vars PROVE clock' = clock \/ clock' = clock + 1
  OBVIOUS
<1>1. CASE UNCHANGED vars
  BY <1>1 DEF vars
<1>2. CASE Locations
  BY <1>2 DEF Locations, AddLocation, UpdateLocation, DeleteLocation
<1>3. ASSUME NEW c \in Callers, Request(c) PROVE clock' = clock
  BY <1>3 DEF Request, Ask, NavigateToLocation, GoToLocation, NavigateToPoint, GoToPoint,
              NavigateRoute, NavigateSavedRoute, ExecutePlan
<1>4. ASSUME NEW c \in Callers, Handle(c) PROVE clock' = clock \/ clock' = clock + 1
  BY <1>4 DEF Handle, Resolve, Stamp, Refuse, StoreGoal, StoreFails, WaitPoll, WaitGiveUp
<1>5. CASE \/ (\E reason \in BOOLEAN : Suspend(reason)) \/ Resume \/ Cancel
           \/ CheckArrival \/ AdvanceGoal \/ AdvanceFails \/ Restart
  BY <1>5 DEF Suspend, Resume, Cancel, CheckArrival, AdvanceGoal, AdvanceFails, Restart
<1> QED
  BY <1>1, <1>2, <1>3, <1>4, <1>5 DEF Next

(* The goal of a call is still a fresh one when its handler stores it.     *)
LEMMA CallFactsStep == TypeOK /\ CallFacts /\ [Next]_vars => CallFacts'
<1> SUFFICES ASSUME TypeOK, CallFacts, [Next]_vars, NEW c \in Callers
             PROVE  /\ call'[c].at = "resolving" =>
                         /\ call'[c].goal.state = "active"
                         /\ ~call'[c].goal.finished /\ ~call'[c].goal.reason
                    /\ call'[c].at = "stamped" =>
                         /\ call'[c].goal.state = "active"
                         /\ ~call'[c].goal.finished /\ ~call'[c].goal.reason
                         /\ call'[c].goal.idx < Len(call'[c].goal.wps)
  BY DEF CallFacts, Stamped, Pending
<1> DEFINE Kept == call'[c] = call[c]
<1>0. CASE Kept
  BY <1>0 DEF CallFacts, Stamped, Pending
<1>1. CASE UNCHANGED vars
  BY <1>0, <1>1 DEF vars
<1>2. CASE Locations
  BY <1>0, <1>2 DEF Locations, AddLocation, UpdateLocation, DeleteLocation
<1>3. CASE \E d \in Callers : Request(d)
  <2>1. \E d \in Callers : \E m, l, w, s, o : Ask(d, m, l, w, s, o)
    BY <1>3 DEF Request, NavigateToLocation, GoToLocation, NavigateToPoint, GoToPoint,
                NavigateRoute, NavigateSavedRoute, ExecutePlan
  <2>2. PICK d \in Callers : \E m, l, w, s, o : Ask(d, m, l, w, s, o)
    BY <2>1
  <2>3. PICK m, l, w, s, o : Ask(d, m, l, w, s, o)
    BY <2>2
  <2>4. CASE c = d
    <3>1. call'[c] = [at |-> "resolving", stops |-> s, index |-> o.index, wait |-> o.wait,
                      goal |-> NewGoal(m, l, w, 0, o.loop, 0)]
      BY <2>3, <2>4 DEF Ask, TypeOK
    <3> QED BY <3>1 DEF NewGoal
  <2> QED BY <1>0, <2>3, <2>4 DEF Ask, TypeOK
<1>4. ASSUME NEW d \in Callers, Handle(d), d # c PROVE Kept
  BY <1>4 DEF Handle, Resolve, Stamp, Refuse, StoreGoal, StoreFails, WaitPoll, WaitGiveUp,
              Answer, TypeOK
<1>5. CASE Resolve(c)
  <2>1. call[c] \in AnyRequest /\ call[c].goal \in AnyGoal
    BY <1>5, CallIsCall DEF Resolve, AnyRequest
  <2>2. \A p : /\ Resolved(call[c], p).at = "resolving"
               /\ Resolved(call[c], p).goal.state = call[c].goal.state
               /\ Resolved(call[c], p).goal.finished = call[c].goal.finished
               /\ Resolved(call[c], p).goal.reason = call[c].goal.reason
    BY <2>1 DEF Resolved, AnyRequest, AnyGoal, Goals
  <2>3. call'[c] = NoCall \/ \E p : call'[c] = Resolved(call[c], p)
    BY <1>5 DEF Resolve, Answer, TypeOK
  <2> QED BY <1>5, <2>2, <2>3 DEF NoCall, Resolve, CallFacts, Pending
<1>6. CASE Stamp(c)
  <2>1. call[c] \in AnyRequest /\ call[c].goal \in AnyGoal
    BY <1>6, CallIsCall DEF Stamp, AnyRequest
  <2>2. PICK i \in StartIndexes(c) :
          call'[c] = [at |-> "stamped", wait |-> call[c].wait,
                      goal |-> StampedGoal(call[c].goal, i)]
    BY <1>6 DEF Stamp, TypeOK
  <2>3. i < Len(call[c].goal.wps)
    BY <2>1, <2>2 DEF StartIndexes, AnyGoal, Goals
  <2>4. /\ StampedGoal(call[c].goal, i).state = call[c].goal.state
        /\ StampedGoal(call[c].goal, i).finished = call[c].goal.finished
        /\ StampedGoal(call[c].goal, i).reason = call[c].goal.reason
        /\ StampedGoal(call[c].goal, i).idx = i
        /\ StampedGoal(call[c].goal, i).wps = call[c].goal.wps
    BY <2>1 DEF StampedGoal, AnyGoal, Goals
  <2> QED BY <1>6, <2>2, <2>3, <2>4 DEF Stamp, CallFacts, Pending
<1>7. CASE Refuse(c) \/ StoreGoal(c) \/ StoreFails(c) \/ WaitPoll(c) \/ WaitGiveUp(c)
  BY <1>7 DEF Refuse, StoreGoal, StoreFails, WaitPoll, WaitGiveUp, Answer, NoCall, TypeOK
<1>8. CASE \/ (\E reason \in BOOLEAN : Suspend(reason)) \/ Resume \/ Cancel
           \/ CheckArrival \/ AdvanceGoal \/ AdvanceFails
  BY <1>0, <1>8 DEF Suspend, Resume, Cancel, CheckArrival, AdvanceGoal, AdvanceFails
<1>9. CASE Restart
  BY <1>9 DEF Restart, NoCall
<1> QED
  BY <1>0, <1>1, <1>2, <1>3, <1>4, <1>5, <1>6, <1>7, <1>8, <1>9 DEF Next, Handle

(* The goals stored, judged and about to be stored differ in StartedAt.    *)
LEMMA StampsStep == TypeOK /\ StampsUnique /\ [Next]_vars => StampsUnique'
<1> SUFFICES ASSUME TypeOK, StampsUnique, [Next]_vars PROVE StampsUnique'
  OBVIOUS
<1>g. /\ goal # NoGoal => goal \in AnyGoal /\ goal.started \in Nat
      /\ poll # NoVerdict => poll.seen.started \in Nat
      /\ clock \in Nat
  BY GoalIsGoal DEF TypeOK, AnyGoal, Goals
<1>c. \A c \in Callers : Stamped(c) => Pending(c).started \in Nat
  BY CallIsCall DEF Stamped, Pending, AnyStamped, AnyGoal, Goals
<1>t. clock' \in Nat /\ clock <= clock'
  BY <1>g, ClockStep
<1>k. \A c \in Callers : Stamped(c)' /\ ~Stamp(c)
        => Stamped(c) /\ Pending(c)' = Pending(c)
  BY CallStep DEF Stamped, Pending
<1>s. ASSUME NEW c \in Callers, Stamp(c)
      PROVE  /\ clock' = clock + 1 /\ goal' = goal /\ poll' = poll
             /\ Pending(c)'.started = clock
             /\ \A d \in Callers \ {c} : Stamped(d)' => Stamped(d) /\ Pending(d)' = Pending(d)
  <2>1. call[c] \in AnyRequest
    BY <1>s, CallIsCall DEF Stamp
  <2>2. \A i : StampedGoal(call[c].goal, i).started = clock
    BY <2>1 DEF StampedGoal, AnyRequest, AnyGoal, Goals
  <2>3. PICK i \in StartIndexes(c) :
          call' = [call EXCEPT ![c] =
            [at |-> "stamped", wait |-> call[c].wait, goal |-> StampedGoal(call[c].goal, i)]]
    BY <1>s DEF Stamp, TypeOK
  <2> QED BY <1>s, <2>2, <2>3 DEF Stamp, Stamped, Pending, TypeOK
<1>p. ASSUME NEW c \in Callers, StoreGoal(c)
      PROVE  Stamped(c) /\ goal' = Pending(c) /\ ~Stamped(c)' /\ poll' = poll
  BY <1>p DEF StoreGoal, Stamped, Pending, NoCall, TypeOK
<1>1. (goal # NoGoal => goal.started < clock)'
  <2>1. CASE \E c \in Callers : StoreGoal(c)
    BY <2>1, <1>p, <1>c, <1>g, <1>t DEF StampsUnique
  <2>2. CASE \A c \in Callers : ~StoreGoal(c)
    BY <2>2, InPlace, <1>g, <1>t DEF StampsUnique
  <2> QED BY <2>1, <2>2
<1>2. (poll # NoVerdict => poll.seen.started < clock)'
  <2>1. CASE CheckArrival
    BY <2>1, <1>g, <1>t DEF CheckArrival, StampsUnique
  <2>2. CASE poll' = poll \/ poll' = NoVerdict
    BY <2>2, <1>g, <1>t DEF StampsUnique, NoVerdict
  <2> QED BY <2>1, <2>2, PollStep
<1>3. ASSUME NEW c \in Callers, Stamped(c)'
      PROVE  /\ (Pending(c).started < clock)'
             /\ (goal # NoGoal => goal.started # Pending(c).started)'
             /\ (poll # NoVerdict => poll.seen.started # Pending(c).started)'
             /\ (\A d \in Callers \ {c} : Stamped(d) => Pending(d).started # Pending(c).started)'
  <2>1. CASE Stamp(c)
    <3>1. \A d \in Callers : Stamped(d) => Pending(d).started < clock
      BY DEF StampsUnique
    <3> QED BY <2>1, <3>1, <1>s, <1>g, <1>c DEF StampsUnique
  <2>2. CASE ~Stamp(c)
    <3>1. Stamped(c) /\ Pending(c)' = Pending(c)
      BY <2>2, <1>3, <1>k
    <3>2. /\ Pending(c).started < clock
          /\ goal # NoGoal => goal.started # Pending(c).started
          /\ poll # NoVerdict => poll.seen.started # Pending(c).started
          /\ \A d \in Callers \ {c} : Stamped(d) => Pending(d).started # Pending(c).started
      BY <3>1 DEF StampsUnique
    <3>3. (goal # NoGoal => goal.started # Pending(c).started)'
      <4>1. ASSUME NEW d \in Callers, StoreGoal(d) PROVE goal'.started # Pending(c)'.started
        BY <4>1, <1>3, <1>p, <3>1, <3>2
      <4>2. CASE \A d \in Callers : ~StoreGoal(d)
        BY <4>2, InPlace, <3>1, <3>2
      <4> QED BY <4>1, <4>2
    <3>4. (poll # NoVerdict => poll.seen.started # Pending(c).started)'
      <4>1. CASE CheckArrival
        BY <4>1, <3>1, <3>2 DEF CheckArrival
      <4>2. CASE poll' = poll \/ poll' = NoVerdict
        BY <4>2, <3>1, <3>2
      <4> QED BY <4>1, <4>2, PollStep
    <3>5. ASSUME NEW d \in Callers \ {c}, Stamped(d)'
          PROVE  Pending(d)'.started # Pending(c)'.started
      <4>1. CASE Stamp(d)
        BY <4>1, <1>s, <1>c, <1>g, <3>1, <3>2
      <4>2. CASE ~Stamp(d)
        BY <4>2, <1>k, <3>1, <3>2, <3>5
      <4> QED BY <4>1, <4>2
    <3> QED BY <3>1, <3>2, <3>3, <3>4, <3>5, <1>c, <1>g, <1>t
  <2> QED BY <2>1, <2>2
<1> QED
  BY <1>1, <1>2, <1>3 DEF StampsUnique

(* The goal the poller judged still has the waypoints it judged, or it is  *)
(* another goal.                                                           *)
LEMMA JudgedStep ==
  TypeOK /\ StampsUnique /\ JudgedIsSame /\ [Next]_vars => JudgedIsSame'
<1> SUFFICES ASSUME TypeOK, StampsUnique, JudgedIsSame, [Next]_vars PROVE JudgedIsSame'
  OBVIOUS
<1>1. CASE CheckArrival
  BY <1>1 DEF CheckArrival, JudgedIsSame
<1>2. ASSUME NEW c \in Callers, StoreGoal(c) PROVE JudgedIsSame'
  <2>1. Stamped(c) /\ goal' = Pending(c) /\ poll' = poll
    BY <1>2 DEF StoreGoal, Stamped, Pending
  <2>2. poll # NoVerdict => poll.seen.started # goal'.started
    BY <2>1 DEF StampsUnique
  <2> QED BY <2>1, <2>2 DEF JudgedIsSame
<1>3. CASE (\A c \in Callers : ~StoreGoal(c)) /\ (poll' = poll \/ poll' = NoVerdict)
  BY <1>3, InPlace DEF JudgedIsSame
<1> QED
  BY <1>1, <1>2, <1>3, PollStep

(* The invariant is inductive.                                             *)
LEMMA Inductive == IInv /\ [Next]_vars => IInv'
  BY TypeStep, LocationsStep, GoalFormedStep, CallFactsStep, StampsStep, JudgedStep DEF IInv

-----------------------------------------------------------------------------
(* The results.                                                            *)

(* The service keeps its inductive invariant.                              *)
THEOREM ServiceInvariant == Spec => []IInv
  BY InitIInv, Inductive, PTL DEF Spec

(* Every variable keeps its type, whatever the service is asked.           *)
THEOREM ServiceTypes == Spec => []TypeOK
<1>1. IInv => TypeOK
  BY DEF IInv
<1> QED
  BY <1>1, ServiceInvariant, PTL

(* Cursor, state and finish time of the goal always tell one story         *)
(* (startGoal, advance and finish), for any routes and number of callers.  *)
THEOREM GoalsStayWellFormed == Spec => []GoalWellFormed
<1>1. IInv => GoalWellFormed
  BY DEF IInv
<1> QED
  BY <1>1, ServiceInvariant, PTL

(* Adds and renames never give two saved locations one name.               *)
THEOREM NamesStayUnique == Spec => []LocationsUnique
<1>1. IInv => LocationsUnique
  BY DEF IInv
<1> QED
  BY <1>1, ServiceInvariant, PTL

(* Stale progress never moves a cursor: advanceGoal's comparison of        *)
(* StartedAt, state and index is enough to know that the goal is still     *)
(* the one judged, waypoints included (nav.go:278-293).                    *)
THEOREM ProgressJudged == Spec => ProgressIsJudged
<1> DEFINE P == (/\ goal # NoGoal /\ goal' # NoGoal
                 /\ goal'.started = goal.started
                 /\ <<goal'.idx, goal'.lap>> # <<goal.idx, goal.lap>>)
                => /\ goal.state = "active"
                   /\ poll # NoVerdict
                   /\ goal.wps = poll.seen.wps
                   /\ goal.idx = poll.seen.idx
                   /\ goal' = Advanced(goal, poll.n)
<1>1. IInv /\ [Next]_vars => P
  <2> SUFFICES ASSUME IInv, [Next]_vars, goal # NoGoal, goal' # NoGoal,
                      goal'.started = goal.started,
                      <<goal'.idx, goal'.lap>> # <<goal.idx, goal.lap>>
               PROVE  /\ goal.state = "active"
                      /\ poll # NoVerdict
                      /\ goal.wps = poll.seen.wps
                      /\ goal.idx = poll.seen.idx
                      /\ goal' = Advanced(goal, poll.n)
    OBVIOUS
  <2>g. goal \in AnyGoal
    BY GoalIsGoal DEF IInv
  <2>1. ASSUME NEW c \in Callers, StoreGoal(c) PROVE FALSE
    <3>1. Stamped(c) /\ goal' = Pending(c)
      BY <2>1 DEF StoreGoal, Stamped, Pending
    <3> QED BY <3>1 DEF IInv, StampsUnique
  <2>2. ASSUME NEW l \in locs, NEW m \in Names, NEW p \in Points, UpdateLocation(l, m, p)
        PROVE  FALSE
    <3>1. goal' = goal \/ goal' = [goal EXCEPT !.loc = m]
      BY <2>2 DEF UpdateLocation
    <3> QED BY <2>g, <3>1 DEF AnyGoal, Goals
  <2>3. ~((\E reason \in BOOLEAN : Suspend(reason)) \/ Resume \/ Cancel)
    BY <2>g DEF Suspend, Resume, Cancel, Finished, AnyGoal, Goals
  <2>4. goal' # goal
    OBVIOUS
  <2>5. AdvanceGoal
    BY <2>1, <2>2, <2>3, <2>4, GoalStep
  <2>6. poll # NoVerdict /\ StillJudged(goal) /\ goal' = Advanced(goal, poll.n)
    BY <2>4, <2>5 DEF AdvanceGoal
  <2> QED BY <2>6 DEF StillJudged, IInv, JudgedIsSame
<1>2. Spec => [][P]_vars
  BY <1>1, ServiceInvariant, PTL DEF Spec
<1> QED
  BY <1>2 DEF ProgressIsJudged

(* A suspended goal is only resumed or canceled, whatever requests and     *)
(* verdicts were under way when it was suspended (nav_service.go:29).      *)
THEOREM SuspensionHeld == Spec => SuspensionHolds
<1> DEFINE P == (goal # NoGoal /\ goal.state = "suspended")
                => /\ goal' # NoGoal
                   /\ goal'.started = goal.started
                   /\ goal'.wps = goal.wps
                   /\ <<goal'.idx, goal'.lap>> = <<goal.idx, goal.lap>>
                   /\ goal'.state \in {"suspended", "active", "canceled"}
<1>1. TypeOK /\ [Next]_vars => P
  <2> SUFFICES ASSUME TypeOK, [Next]_vars, goal # NoGoal, goal.state = "suspended"
               PROVE  /\ goal' # NoGoal
                      /\ goal'.started = goal.started
                      /\ goal'.wps = goal.wps
                      /\ goal'.idx = goal.idx /\ goal'.lap = goal.lap
                      /\ goal'.state \in {"suspended", "active", "canceled"}
    OBVIOUS
  <2>g. goal \in AnyGoal
    BY GoalIsGoal
  <2>1. \A c \in Callers : ~StoreGoal(c)
    BY DEF StoreGoal, MayReplace
  <2>2. goal' # NoGoal /\ goal'.started = goal.started /\ goal'.wps = goal.wps
    BY <2>1, InPlace
  <2>3. CASE goal' = goal
    BY <2>2, <2>3
  <2>4. ASSUME NEW l \in locs, NEW m \in Names, NEW p \in Points, UpdateLocation(l, m, p)
        PROVE  /\ goal'.idx = goal.idx /\ goal'.lap = goal.lap
               /\ goal'.state = "suspended"
    <3>1. goal' = goal \/ goal' = [goal EXCEPT !.loc = m]
      BY <2>4 DEF UpdateLocation
    <3> QED BY <2>g, <3>1 DEF AnyGoal, Goals
  <2>5. CASE Resume
    BY <2>g, <2>2, <2>5 DEF Resume, AnyGoal, Goals
  <2>6. CASE Cancel
    BY <2>g, <2>2, <2>6 DEF Cancel, Finished, AnyGoal, Goals
  <2>7. AdvanceGoal => goal' = goal
    BY DEF AdvanceGoal, StillJudged
  <2>8. ~\E reason \in BOOLEAN : Suspend(reason)
    BY DEF Suspend
  <2>9. /\ goal'.idx = goal.idx /\ goal'.lap = goal.lap
        /\ goal'.state \in {"suspended", "active", "canceled"}
    BY <2>1, <2>3, <2>4, <2>5, <2>6, <2>7, <2>8, GoalStep
  <2> QED BY <2>2, <2>9
<1>2. Spec => [][P]_vars
  BY <1>1, ServiceTypes, PTL DEF Spec
<1> QED
  BY <1>2 DEF SuspensionHolds

(* A finished goal stays as it finished until another replaces it          *)
(* (nav_service.go:502-504).                                               *)
THEOREM FinishedStays == Spec => FinishedIsFinal
<1> DEFINE P == (goal # NoGoal /\ ~IsOpen(goal) /\ goal'.started = goal.started)
                => goal' = [goal EXCEPT !.loc = goal'.loc]
<1>1. IInv /\ [Next]_vars => P
  <2> SUFFICES ASSUME IInv, [Next]_vars, goal # NoGoal, ~IsOpen(goal),
                      goal'.started = goal.started
               PROVE  goal' = [goal EXCEPT !.loc = goal'.loc]
    OBVIOUS
  <2>g. goal \in AnyGoal
    BY GoalIsGoal DEF IInv
  <2>1. ASSUME NEW c \in Callers, StoreGoal(c) PROVE FALSE
    <3>1. Stamped(c) /\ goal' = Pending(c)
      BY <2>1 DEF StoreGoal, Stamped, Pending
    <3> QED BY <3>1 DEF IInv, StampsUnique
  <2>2. ASSUME NEW l \in locs, NEW m \in Names, NEW p \in Points, UpdateLocation(l, m, p)
        PROVE  goal' = goal \/ goal' = [goal EXCEPT !.loc = m]
    BY <2>2 DEF UpdateLocation
  <2>3. ~((\E reason \in BOOLEAN : Suspend(reason)) \/ Resume \/ Cancel)
    BY DEF Suspend, Resume, Cancel, IsOpen
  <2>4. AdvanceGoal => goal' = goal
    BY DEF AdvanceGoal, StillJudged, IsOpen
  <2>5. goal' = goal \/ \E m \in Names : goal' = [goal EXCEPT !.loc = m]
    BY <2>1, <2>2, <2>3, <2>4, GoalStep
  <2> QED BY <2>g, <2>5 DEF AnyGoal, Goals
<1>2. Spec => [][P]_vars
  BY <1>1, ServiceInvariant, PTL DEF Spec
<1> QED
  BY <1>2 DEF FinishedIsFinal
=============================================================================
