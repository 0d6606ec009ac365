---------------------------- MODULE SavedRoutes ----------------------------
(***************************************************************************)
(* Saved routes (nav_routes.go): one list of routes in the metadata of a   *)
(* location, shared with other applications' keys, read and written back   *)
(* whole by the machines of the location; the routes of the locations      *)
(* above are shown but not changed.  routesMu serialises the calls of one  *)
(* machine only.                                                           *)
(***************************************************************************)
EXTENDS Naturals, Sequences, FiniteSets, SequencesExt

CONSTANTS
  Locations, ParentLocation,  \* the location above each; NoLocation at the top
  NoLocation,
  Inherited,                  \* routes of the locations above, as they start
  Machines, LocationOf,       \* the machines, and where each one is
  RouteIds, RouteNames,
  RouteSizes,                 \* sizes of a route, of which a list holds
  RoutesMaxBytes,             \* at most so much
  MaxOther                    \* bound: writes of other applications

ASSUME SavedRoutesAssumption ==
  /\ ParentLocation \in [Locations -> Locations \cup {NoLocation}]
  /\ LocationOf \in [Machines -> Locations]
  /\ RouteSizes \subseteq Nat /\ RoutesMaxBytes \in Nat
  /\ RouteIds \cap RouteNames = {}

VARIABLES
  metadata,   \* of each location: its routes, and the other applications' keys
  routeCall,  \* the call a machine is serving, and how far it is
  usedIds,    \* ids drawn so far
  acked       \* history: routes saved with success, and not deleted since

savedVars == <<metadata, routeCall, usedIds, acked>>

NoRouteCall == [at |-> "none", reply |-> "none"]

RoutesIn(loc) == metadata[loc].routes

SavedInit ==
  /\ metadata = [l \in Locations |->
                   [routes |-> IF \E m \in Machines : LocationOf[m] = l THEN <<>> ELSE Inherited,
                    other |-> 0]]
  /\ routeCall = [m \in Machines |-> NoRouteCall]
  /\ usedIds = {} /\ acked = {}

-----------------------------------------------------------------------------
(* parentStores and allRoutes: the location's own routes, then those of    *)
(* the locations above; of copies with one id the nearest.                 *)
Ancestors(loc) ==
  LET chain[l \in Locations] ==
        IF ParentLocation[l] = NoLocation THEN <<>> ELSE <<ParentLocation[l]>> \o chain[ParentLocation[l]]
  IN chain[loc]

AllRoutes(loc) ==
  LET listed == FlattenSeq([k \in DOMAIN (<<loc>> \o Ancestors(loc)) |->
                             RoutesIn((<<loc>> \o Ancestors(loc))[k])])
      nearest(k) == \A j \in 1 .. k - 1 : listed[j].id # listed[k].id
  IN {listed[k] : k \in {j \in DOMAIN listed : nearest(j)}}

(* matchRoute: the first with that id, or else the first with that name.   *)
MatchRoute(routes, key) ==
  LET by(P(_)) == {k \in DOMAIN routes : P(routes[k]) /\ \A j \in 1 .. k - 1 : ~P(routes[j])}
      ids == by(LAMBDA r : r.id = key)
      names == by(LAMBDA r : r.name = key)
  IN {routes[k] : k \in IF ids # {} THEN ids ELSE names}

Known(routes, key) == \E r \in routes : r.id = key \/ r.name = key

-----------------------------------------------------------------------------
(* AddRoute, UpdateRoute and DeleteRoute take routesMu.                    *)
Take(m, call) ==
  /\ routeCall[m].at = "none"
  /\ routeCall' = [routeCall EXCEPT ![m] = call]
  /\ UNCHANGED <<metadata, acked>>

AddRoute(m) ==
  \E id \in RouteIds \ usedIds, name \in RouteNames, size \in RouteSizes :
    /\ Take(m, [at |-> "look", op |-> "add", key |-> name,
                route |-> [id |-> id, name |-> name, size |-> size]])
    /\ usedIds' = usedIds \cup {id}

UpdateRoute(m) ==
  \E key \in RouteIds \cup RouteNames, name \in RouteNames, size \in RouteSizes :
    /\ Take(m, [at |-> "look", op |-> "update", key |-> key, name |-> name, size |-> size])
    /\ UNCHANGED usedIds

DeleteRoute(m) ==
  \E key \in RouteIds \cup RouteNames :
    /\ Take(m, [at |-> "look", op |-> "delete", key |-> key])
    /\ UNCHANGED usedIds

Reply(m, reply) == routeCall' = [routeCall EXCEPT ![m] = [NoRouteCall EXCEPT !.reply = reply]]

(* The first read: the name must be new, or the route found here; one      *)
(* found only above is read-only.                                          *)
Look(m) ==
  LET call == routeCall[m]
      own == RoutesIn(LocationOf[m])
      found == MatchRoute(own, call.key)
  IN
  /\ call.at = "look"
  /\ IF call.op = "add"
     THEN IF \E k \in DOMAIN own : own[k].name = call.key THEN Reply(m, "exists")
          ELSE routeCall' = [routeCall EXCEPT ![m].at = "get"]
     ELSE IF found = {}
     THEN Reply(m, IF Known(AllRoutes(LocationOf[m]), call.key) THEN "read-only" ELSE "not found")
     ELSE \E r \in found :
          routeCall' = [routeCall EXCEPT ![m] =
            [at |-> "get", op |-> call.op,
             route |-> IF call.op = "delete" THEN r ELSE [r EXCEPT !.name = call.name, !.size = call.size]]]
  /\ UNCHANGED <<metadata, usedIds, acked>>

(* locationUpsert and routesDelete read the whole metadata again ...       *)
GetMetadata(m) ==
  /\ routeCall[m].at = "get"
  /\ routeCall' = [routeCall EXCEPT ![m] =
       [at |-> "commit", op |-> @.op, route |-> @.route, meta |-> metadata[LocationOf[m]]]]
  /\ UNCHANGED <<metadata, usedIds, acked>>

LocationUpsert(routes, r) ==
  LET same == {k \in DOMAIN routes : routes[k].id = r.id} IN
  IF same = {} THEN Append(routes, r)
  ELSE [routes EXCEPT ![CHOOSE k \in same : \A j \in same : k <= j] = r]

Dropping(gone, routes) ==
  LET kept[k \in 0 .. Len(routes)] ==
        IF k = 0 THEN <<>>
        ELSE IF k \in gone THEN kept[k - 1] ELSE Append(kept[k - 1], routes[k])
  IN  kept[Len(routes)]

(* Mutant: routes that share the name go too.                              *)
WithoutName(routes, r) == Dropping({k \in DOMAIN routes : routes[k].name = r.name}, routes)

WithoutRoute(routes, r) == Dropping({k \in DOMAIN routes : routes[k].id = r.id}, routes)

Size(routes) == FoldLeft(LAMBDA sum, r : sum + r.size, 0, routes)

(* ... and commitRoutes writes it back, unless the list is too long.  A    *)
(* call that fails may have written all the same.                          *)
Commit(m) ==
  LET call == routeCall[m]
      routes == IF call.op = "delete" THEN WithoutRoute(call.meta.routes, call.route)
                ELSE LocationUpsert(call.meta.routes, call.route)
      write == metadata' = [metadata EXCEPT ![LocationOf[m]] = [call.meta EXCEPT !.routes = routes]]
      id == <<LocationOf[m], call.route.id>>
  IN
  /\ call.at = "commit"
  /\ \/ Size(routes) > RoutesMaxBytes /\ Reply(m, "too big") /\ UNCHANGED <<metadata, acked>>
     \/ /\ Size(routes) <= RoutesMaxBytes /\ write /\ Reply(m, "ok")
        /\ acked' = IF call.op = "delete" THEN acked \ {id} ELSE acked \cup {id}
     \/ /\ Size(routes) <= RoutesMaxBytes /\ (write \/ UNCHANGED metadata) /\ Reply(m, "failed")
        /\ acked' = IF call.op = "delete" THEN acked \ {id} ELSE acked
  /\ UNCHANGED usedIds

GetMetadataFails(m) ==
  /\ routeCall[m].at \in {"look", "get"}
  /\ Reply(m, "failed")
  /\ UNCHANGED <<metadata, usedIds, acked>>

(* Another application writes a key of its own.                            *)
OtherWrite(loc) ==
  /\ metadata[loc].other < MaxOther
  /\ metadata' = [metadata EXCEPT ![loc].other = @ + 1]
  /\ UNCHANGED <<routeCall, usedIds, acked>>

SavedNext ==
  \/ \E m \in Machines : \/ AddRoute(m) \/ UpdateRoute(m) \/ DeleteRoute(m)
                         \/ Look(m) \/ GetMetadata(m) \/ Commit(m) \/ GetMetadataFails(m)
  \/ \E loc \in Locations : OtherWrite(loc)

SavedSpec == SavedInit /\ [][SavedNext]_savedVars

-----------------------------------------------------------------------------
(* Where one machine writes a location's routes, a route whose saving was  *)
(* acknowledged stays, under its id and once, until its deletion is asked  *)
(* for: renames to the same name, failing calls and the two reads of each  *)
(* call notwithstanding.                                                   *)
AcknowledgedStays ==
  \A a \in acked :
    Cardinality({k \in DOMAIN RoutesIn(a[1]) : RoutesIn(a[1])[k].id = a[2]}) = 1
=============================================================================
