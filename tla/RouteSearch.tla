---------------------------- MODULE RouteSearch ----------------------------
(***************************************************************************)
(* planRouteOnGrid (autoroute.go) with the A* of autoroute_search.go: each *)
(* leg snaps its ends to open water and searches; when nothing is found    *)
(* the grid is priced again without clearance, and the leg tried once      *)
(* more.  The heap pops any of the cells of least estimate.                *)
(***************************************************************************)
EXTENDS RouteGrid

CONSTANTS
  SearchCharts,  \* the grids to plan on: functions from cells to painted cells
  SearchStops,   \* the lists of cells to plan through
  Options,       \* penalties, reaches and depths
  SnapReach,     \* how far an end is moved, in cells
  NoCell

(* What normalize and planRouteOnGrid make of a request's options; "hard"  *)
(* is HardClearanceM.                                                      *)
ASSUME OptionsAssumption ==
  Options \in [draft : Nat, ideal : Nat, unknownRange : Nat, unknown : Nat, depth : Nat,
               hard : Nat, soft : Nat, shore : Nat, beside : Nat, offChannel : Nat,
               unsurveyed : Nat, restricted : Nat]

ASSUME SearchAssumption ==
  /\ SearchCharts \subseteq [Cells -> [depth : Int, scaleOf : Int, flags : SUBSET STRING, landScale : Int]]
  /\ NoCell \notin Cells

VARIABLES
  chart, stops,   \* the request
  cost,           \* g.cost: the price of each cell, 0 when closed
  clearance,      \* the clearance the grid was last priced with
  leg, attempt,   \* the leg being planned, and the try
  search,         \* findPath's ends and arrays
  path,           \* the legs planned so far, stitched
  bounds,         \* legBounds: how long path was after each leg
  outcome         \* "planning", "found" or "noRoute"

searchVars == <<chart, stops, cost, clearance, leg, attempt, search, path, bounds, outcome>>
request == <<chart, stops>>

Finalize(cells, o) ==
  LET closed == {c \in Cells : ClosedHard(cells[c], o.draft)}
      near == ChamferDistance(closed)
  IN [c \in Cells |-> CellCost(cells[c], near[c], o)]

Relaxed == [Options EXCEPT !.hard = 0, !.beside = 0, !.offChannel = 0]

NoSearch == [from |-> NoCell, to |-> NoCell]
Begin(from, to) ==
  [from |-> from, to |-> to,
   gScore |-> [c \in Cells |-> IF c = from THEN 0 ELSE Infinite],
   came |-> [c \in Cells |-> NoCell], closed |-> {}, open |-> {from}]

SearchInit ==
  /\ chart \in SearchCharts /\ stops \in SearchStops
  /\ cost = Finalize(chart, Options) /\ clearance = Options.hard
  /\ leg = 1 /\ attempt = 0
  /\ search = NoSearch /\ path = <<>> /\ bounds = <<0>>
  /\ outcome = "planning"

Idle == outcome = "planning" /\ search = NoSearch

-----------------------------------------------------------------------------
(* route: both ends snapped, findPath starts on the grid in force.         *)
SnapEnds ==
  /\ Idle
  /\ \E from \in NearestPassable(cost, stops[leg], SnapReach),
        to \in NearestPassable(cost, stops[leg + 1], SnapReach) :
       search' = Begin(from, to)
  /\ UNCHANGED <<request, cost, clearance, leg, attempt, path, bounds, outcome>>

CanSnap == \A k \in {leg, leg + 1} : NearestPassable(cost, stops[k], SnapReach) # {}
LastTry == attempt = 1 \/ Options.hard = 0

(* The second try prices the grid without clearance, nor regard to the     *)
(* marks, for this leg and, as the grid is shared, for those after it.     *)
Relax ==
  /\ outcome = "planning" /\ ~LastTry
  /\ IF search = NoSearch THEN ~CanSnap ELSE search.open = {}
  /\ cost' = Finalize(chart, Relaxed) /\ clearance' = 0
  /\ attempt' = 1 /\ search' = NoSearch
  /\ UNCHANGED <<request, leg, path, bounds, outcome>>

GiveUp ==
  /\ outcome = "planning" /\ LastTry
  /\ IF search = NoSearch THEN ~CanSnap ELSE search.open = {}
  /\ outcome' = "noRoute" /\ search' = NoSearch
  /\ UNCHANGED <<request, cost, clearance, leg, attempt, path, bounds>>

-----------------------------------------------------------------------------
(* findPath's loop: the cheapest estimate is closed, its neighbours that   *)
(* are cheaper through it are opened.                                      *)
Estimate(c) == search.gScore[c] + One * StraightTo(search.to, c)
Least(c) == \A d \in search.open : Estimate(c) <= Estimate(d)

(* Mutant: a cell is never opened twice, whatever it costs.                *)
CheaperOnce(c) ==
  {d \in Moves(cost, c) : d \notin search.closed \cup search.open}

Cheaper(c) ==
  {d \in Moves(cost, c) \ search.closed :
     \/ search.gScore[d] = Infinite
     \/ search.gScore[c] + MoveCost(cost, c, d) < search.gScore[d]}

Expand(c) ==
  /\ outcome = "planning" /\ search # NoSearch
  /\ c \in search.open /\ Least(c) /\ c # search.to
  /\ LET better == Cheaper(c) IN
     search' = [search EXCEPT
       !.open = (@ \ {c}) \cup better,
       !.closed = @ \cup {c},
       !.gScore = [d \in Cells |-> IF d \in better
                                   THEN search.gScore[c] + MoveCost(cost, c, d) ELSE @[d]],
       !.came = [d \in Cells |-> IF d \in better THEN c ELSE @[d]]]
  /\ UNCHANGED <<request, cost, clearance, leg, attempt, path, bounds, outcome>>

Reconstruct(came, to) ==
  LET chain[k \in 0 .. Width * Height] ==
        IF k = 0 THEN <<to>>
        ELSE LET sofar == chain[k - 1] IN
             IF came[Head(sofar)] = NoCell THEN sofar ELSE <<came[Head(sofar)]>> \o sofar
  IN chain[Width * Height]

(* The legs are joined without the first cell of the later one, "already   *)
(* the previous leg's end".                                                *)
Arrive ==
  /\ outcome = "planning" /\ search # NoSearch
  /\ search.to \in search.open /\ Least(search.to)
  /\ LET found == Reconstruct(search.came, search.to) IN
     path' = IF leg = 1 THEN found ELSE path \o Tail(found)
  /\ bounds' = Append(bounds, Len(path'))
  /\ search' = NoSearch /\ attempt' = 0
  /\ IF leg + 1 < Len(stops) THEN leg' = leg + 1 /\ UNCHANGED outcome
     ELSE outcome' = "found" /\ UNCHANGED leg
  /\ UNCHANGED <<request, cost, clearance>>

SearchNext ==
  \/ SnapEnds \/ Relax \/ GiveUp \/ Arrive
  \/ \E c \in Cells : Expand(c)

SearchSpec == SearchInit /\ [][SearchNext]_searchVars

-----------------------------------------------------------------------------
(* findPath's promise: when the goal is taken from the heap no chain of    *)
(* moves is cheaper ("the heuristic never overestimates and the result is  *)
(* optimal").                                                              *)
RouteIsCheapest ==
  (search # NoSearch /\ search.to \in search.open /\ Least(search.to)) =>
    search.gScore[search.to] = Cheapest(cost, search.from)[search.to]

(* The legs make one path: from each cell to the next is a legal move,     *)
(* also where two legs are joined ("the join cell is already the previous  *)
(* leg's end", autoroute.go:1604).                                         *)
PathIsConnected ==
  \A k \in 1 .. Len(path) - 1 :
    path[k + 1] \in Neighbours(path[k]) /\ Navigable(cost, path[k], path[k + 1])
=============================================================================
