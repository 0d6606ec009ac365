----------------------------- MODULE RouteShape -----------------------------
(***************************************************************************)
(* From the stitched cells to the waypoints a helmsman steers: pullTaut,   *)
(* dropReversals and thinToLimit (autoroute_search.go), then               *)
(* pathToWaypoints and dropWithinTolerance (autoroute.go).  Waypoints are  *)
(* cells: an exact end is in its cell.                                     *)
(***************************************************************************)
EXTENDS RouteSearch

CONSTANTS
  KeepWaypoints,  \* the option: the operator's points stay
  MaxWaypoints

VARIABLES waypoints, minDepth

shapeVars == <<searchVars, waypoints, minDepth>>

Without(s, k) == SubSeq(s, 1, k - 1) \o SubSeq(s, k + 1, Len(s))

(* The first index of S, up to n, that none after it has to give way to:   *)
(* one that is scanned takes its place when they are in "before"; 0 when   *)
(* S is empty.                                                             *)
Foremost(S, n, before) ==
  LET best[k \in 0 .. n] ==
        IF k = 0 THEN 0
        ELSE LET b == best[k - 1] IN
             IF k \in S /\ (b = 0 \/ <<k, b>> \in before) THEN k ELSE b
  IN best[n]

(* The price of the path's own cells from i to j.                          *)
RunSum(p, i, j) == FoldLeft(LAMBDA sum, c : sum + cost[c], 0, SubSeq(p, i, j))

(* A straight leg may replace the path when it can be steered and is not   *)
(* 1.6 times dearer on the mean.                                           *)
Steerable(p, i, j) ==
  /\ Navigable(cost, p[i], p[j])
  /\ LET mean == MeanCost(cost, p[i], p[j]) IN
     10 * mean[1] * (j - i + 1) <= 16 * RunSum(p, i, j) * mean[2]

PullWindow == 512

(* Mutant: the far end of the reach only is looked at, for its price.      *)
PullTautBlind(p) == IF Len(p) < 3 THEN p ELSE <<p[1], p[Len(p)]>>

Reach(p, i) ==
  LET far == Smaller(Len(p), i + PullWindow) IN
  CHOOSE j \in (i + 1) .. far :
    /\ \A k \in (i + 2) .. j : Steerable(p, i, k)
    /\ (j = far \/ ~Steerable(p, i, j + 1))

PullTaut(p) ==
  LET upto[k \in 1 .. Len(p)] ==
        IF k = 1 THEN <<1>>
        ELSE LET before == upto[k - 1] IN
             IF Last(before) = Len(p) THEN before ELSE Append(before, Reach(p, Last(before)))
      kept == upto[Len(p)]
  IN IF Len(p) < 3 THEN p ELSE [m \in 1 .. Len(kept) |-> p[kept[m]]]

(* The turn at a point: its sign, and cosine as numerator and square of    *)
(* the denominator.                                                        *)
Turn(pts, i) ==
  IF i <= 1 \/ i >= Len(pts) THEN [sign |-> 0, dot |-> 1, square |-> 1]
  ELSE LET u == <<pts[i][1] - pts[i-1][1], pts[i][2] - pts[i-1][2]>>
           v == <<pts[i+1][1] - pts[i][1], pts[i+1][2] - pts[i][2]>>
           cross == u[1] * v[2] - u[2] * v[1]
           dot == u[1] * v[1] + u[2] * v[2]
       IN [sign |-> IF cross > 0 THEN 1 ELSE IF cross < 0 \/ dot < 0 THEN -1 ELSE 0,
           dot |-> dot,
           square |-> (u[1] * u[1] + u[2] * u[2]) * (v[1] * v[1] + v[2] * v[2])]

(* At least 12 degrees: the cosine's square is at most 0.95677.            *)
Significant(t) == t.sign # 0 /\ (t.dot <= 0 \/ 100000 * t.dot * t.dot <= 95677 * t.square)
Sharper(s, t) == s.dot * Magnitude(s.dot) * t.square < t.dot * Magnitude(t.dot) * s.square

ReversalCeiling == 3 * One
BypassClear(a, b, limit) ==
  Navigable(cost, a, b) /\ \A c \in Traversed[<<a, b>>] : cost[c] <= limit

Reversed(pts, i) ==
  \E j \in {i - 1, i + 1} : /\ Significant(Turn(pts, i)) /\ Significant(Turn(pts, j))
                            /\ Turn(pts, i).sign # Turn(pts, j).sign

DropOneReversal(pts) ==
  LET drops == {i \in 2 .. Len(pts) - 1 :
                  Reversed(pts, i) /\ BypassClear(pts[i-1], pts[i+1], ReversalCeiling)}
      sharper == {pair \in drops \X drops : Sharper(Turn(pts, pair[1]), Turn(pts, pair[2]))}
      worst == Foremost(drops, Len(pts), sharper)
  IN IF worst = 0 THEN pts ELSE Without(pts, worst)

DropReversals(pts) ==
  LET after[k \in 0 .. Len(pts)] == IF k = 0 THEN pts ELSE DropOneReversal(after[k - 1])
  IN after[Len(pts)]

(* The deviation of m from the line a-b, as a fraction of squares.         *)
CrossTrack(a, m, b) ==
  LET d == <<b[1] - a[1], b[2] - a[2]>>  e == <<m[1] - a[1], m[2] - a[2]>>
      den == d[1] * d[1] + d[2] * d[2]
      cross == d[2] * e[1] - d[1] * e[2]
  IN IF den = 0 THEN <<e[1] * e[1] + e[2] * e[2], 1>> ELSE <<cross * cross, den>>
Nearer(s, t) == s[1] * t[2] < t[1] * s[2]

ThinOne(pts) ==
  LET dearest(k) == Larger(Larger(cost[pts[k-1]], cost[pts[k]]), cost[pts[k+1]])
      drops == {k \in 2 .. Len(pts) - 1 : BypassClear(pts[k-1], pts[k+1], dearest(k))}
      off(k) == CrossTrack(pts[k-1], pts[k], pts[k+1])
      nearer == {pair \in drops \X drops : Nearer(off(pair[1]), off(pair[2]))}
      least == Foremost(drops, Len(pts), nearer)
  IN IF Len(pts) <= MaxWaypoints \/ least = 0 THEN pts ELSE Without(pts, least)

ThinToLimit(pts) ==
  LET after[k \in 0 .. Len(pts)] == IF k = 0 THEN pts ELSE ThinOne(after[k - 1])
  IN IF MaxWaypoints < 2 THEN pts ELSE after[Len(pts)]

(* Marks within a cell, and a tenth of the shorter leg, of the line from   *)
(* the last kept point go, as long as the line is clear.                   *)
SquareLength(a, b) == (a[1] - b[1]) * (a[1] - b[1]) + (a[2] - b[2]) * (a[2] - b[2])

Stays(prev, mark, next) ==
  LET off == CrossTrack(prev, mark, next)
      limit == Smaller(100, Smaller(SquareLength(prev, mark), SquareLength(mark, next)))
  IN 100 * off[1] > limit * off[2] \/ ~Navigable(cost, prev, next)

DropPass(pts) ==
  LET upto[i \in 1 .. Len(pts) - 1] ==
        IF i = 1 THEN <<pts[1]>>
        ELSE LET out == upto[i - 1] IN
             IF Stays(Last(out), pts[i], pts[i + 1]) THEN Append(out, pts[i]) ELSE out
  IN IF Len(pts) < 3 THEN pts ELSE Append(upto[Len(pts) - 1], pts[Len(pts)])

DropWithinTolerance(pts) ==
  LET after[k \in 0 .. Len(pts)] == IF k = 0 THEN pts ELSE DropPass(after[k - 1])
  IN after[Len(pts)]

(* Each leg between the operator's points is pulled on its own when they   *)
(* are to stay; a later one starts with the cell it shares.                *)
PullLeg(k) == PullTaut(SubSeq(path, IF k = 1 THEN 1 ELSE bounds[k], bounds[k + 1]))

PullLegs ==
  LET upto[k \in 1 .. Len(bounds) - 1] ==
        IF k = 1 THEN PullLeg(1) ELSE upto[k - 1] \o Tail(PullLeg(k))
  IN IF KeepWaypoints /\ Len(bounds) > 2 THEN upto[Len(bounds) - 1] ELSE PullTaut(path)

PathToWaypoints == ThinToLimit(DropReversals(PullLegs))

(* A dredged channel is as deep as it is kept, not as it is charted.       *)
PathDepthStats ==
  LET sounded == {k \in DOMAIN path : "dredged" \notin chart[path[k]].flags}
      depths == {chart[path[k]].depth : k \in sounded} \ {Uncharted} IN
  IF depths = {} THEN Uncharted ELSE CHOOSE d \in depths : \A e \in depths : d <= e

ShapeInit == SearchInit /\ waypoints = <<>> /\ minDepth = Uncharted

Package ==
  /\ outcome = "found" /\ waypoints = <<>>
  /\ waypoints' = DropWithinTolerance(PathToWaypoints)
  /\ minDepth' = PathDepthStats
  /\ UNCHANGED searchVars

ShapeNext == (SearchNext /\ UNCHANGED <<waypoints, minDepth>>) \/ Package
ShapeSpec == ShapeInit /\ [][ShapeNext]_shapeVars

-----------------------------------------------------------------------------
Legs == {<<waypoints[k], waypoints[k + 1]>> : k \in 1 .. Len(waypoints) - 1}

(* What the smoothing must not do is cut a corner over a closed cell: when *)
(* the path it was given is one of legal moves, every leg of the result    *)
(* can be steered on the grid it was planned on, from the path's first     *)
(* cell to its last (pullTaut: "it can never shortcut a corner across a    *)
(* shoal").                                                                *)
WaypointsNavigable ==
  (waypoints # <<>> /\ PathIsConnected) =>
    /\ \A l \in Legs : Navigable(cost, l[1], l[2])
    /\ waypoints[1] = path[1] /\ waypoints[Len(waypoints)] = path[Len(path)]

(* The least depth reported is the shoalest charted "anywhere on the       *)
(* route" (AutoRouteResult.MinDepthMeters): that of the legs returned.     *)
MinDepthIsOfTheRoute ==
  waypoints # <<>> =>
    \A l \in Legs : \A c \in Traversed[l] :
      chart[c].depth # Uncharted => minDepth # Uncharted /\ minDepth <= chart[c].depth

(* The points the operator placed stay on the route when asked to          *)
(* (KeepWaypoints).                                                        *)
OperatorPointsStay ==
  (waypoints # <<>> /\ KeepWaypoints) =>
    \A k \in DOMAIN stops : Passable(cost, stops[k]) => \E i \in DOMAIN waypoints : waypoints[i] = stops[k]
=============================================================================
