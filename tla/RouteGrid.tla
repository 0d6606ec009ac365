----------------------------- MODULE RouteGrid -----------------------------
(***************************************************************************)
(* The raster the auto-router searches (autoroute_grid.go, and the chart   *)
(* reading of autoroute.go): what charted features make of a cell, which   *)
(* cells are closed and what the open ones cost, the moves between cells.  *)
(* A cell is <<x, y>>; lengths are in hundredths of a cell, multipliers    *)
(* are whole, 0 stands for the infinite cost of a closed cell.             *)
(***************************************************************************)
EXTENDS Integers, Sequences, FiniteSets, SequencesExt

CONSTANTS Width, Height

ASSUME GridAssumption == Width \in Nat \ {0} /\ Height \in Nat \ {0}

Cells == (0 .. Width - 1) \X (0 .. Height - 1)
Magnitude(n) == IF n < 0 THEN -n ELSE n
Larger(a, b) == IF a < b THEN b ELSE a
Smaller(a, b) == IF a < b THEN a ELSE b
LeastOf(S) == CHOOSE v \in S : \A u \in S : v <= u

-----------------------------------------------------------------------------
(* What features make of one cell: the finest chart wins for the depth and *)
(* for land against water, the other marks add up.                         *)
Uncharted == -100
Coarsest == 1000  \* math.MaxInt32

NewCell == [depth |-> Uncharted, scaleOf |-> Coarsest, flags |-> {}, landScale |-> Coarsest]

SetDepth(c, depth, scale) ==
  IF scale < c.scaleOf THEN [c EXCEPT !.depth = depth, !.scaleOf = scale]
  ELSE IF scale = c.scaleOf /\ (c.depth = Uncharted \/ depth < c.depth)
  THEN [c EXCEPT !.depth = depth]
  ELSE c

Mark(c, flags) == [c EXCEPT !.flags = @ \cup flags]

MarkLand(c, scale) ==
  IF scale <= c.landScale THEN [Mark(c, {"land"}) EXCEPT !.landScale = scale] ELSE c

MarkWater(c, scale) ==
  IF scale < c.landScale THEN [c EXCEPT !.flags = @ \ {"land"}, !.landScale = scale] ELSE c

(* A feature over the cell; drval is <<DRVAL1, DRVAL2>> of a depth area,   *)
(* valsou the depth over an obstruction.                                   *)
WideDepthRange == 10

DepareKeyDepth(f) ==
  LET low == f.drval[1]  high == f.drval[2] IN
  IF low # Uncharted /\ high # Uncharted /\ high - low > WideDepthRange THEN Uncharted
  ELSE IF low # Uncharted THEN low ELSE high

ObstructionIsClear(f, draft) == f.valsou # Uncharted /\ f.valsou >= draft

PaintDepthArea(c, f) ==
  IF DepareKeyDepth(f) = Uncharted THEN c
  ELSE MarkWater(SetDepth(c, DepareKeyDepth(f), f.scale), f.scale)

PaintChannel(c, f) ==
  LET sounded == IF DepareKeyDepth(f) # Uncharted
                 THEN Mark(SetDepth(c, DepareKeyDepth(f), f.scale), {"channelDepth"})
                 ELSE c
      dredged == IF f.class = "dredged" THEN {"dredged"} ELSE {} IN
  MarkWater(Mark(sounded, {"channel"} \cup dredged), f.scale)

PaintCommon(c, f) ==
  CASE f.class = "land" -> MarkLand(c, f.scale)
    [] f.class = "pile" -> Mark(c, {"obstruction"})
    [] f.class = "depare" -> PaintDepthArea(c, f)
    [] f.class \in {"fairway", "dredged"} -> PaintChannel(c, f)
    [] f.class = "unsurveyed" -> Mark(c, {"unsurveyed"})
    [] OTHER -> c

(* rasterizeForRouting knows the boat: a wreck it clears is nothing; areas *)
(* to avoid are marked only when asked for.                                *)
PaintForRouting(c, f, draft, avoid) ==
  IF f.class = "wreck"
  THEN IF ObstructionIsClear(f, draft) THEN c ELSE Mark(c, {"obstruction"})
  ELSE IF f.class = "restricted"
  THEN IF avoid THEN Mark(c, {"restricted"}) ELSE c
  ELSE PaintCommon(c, f)

(* Mutant: the tile takes a sounded wreck for clear water.                 *)
PaintForNavTileBold(c, f) ==
  IF f.class = "wreck" /\ f.valsou # Uncharted THEN c
  ELSE IF f.class = "wreck" THEN Mark(c, {"obstruction"})
  ELSE PaintCommon(c, f)

(* rasterizeForNavTile does not: a sounded wreck is a depth.               *)
PaintForNavTile(c, f) ==
  IF f.class = "wreck"
  THEN IF f.valsou # Uncharted THEN SetDepth(c, f.valsou, f.scale) ELSE Mark(c, {"obstruction"})
  ELSE IF f.class = "restricted" THEN Mark(c, {"restricted"})
  ELSE PaintCommon(c, f)

RasterizeForRouting(fs, draft) ==
  LET upto[k \in 0 .. Len(fs)] ==
        IF k = 0 THEN NewCell ELSE PaintForRouting(upto[k - 1], fs[k], draft, TRUE)
  IN  upto[Len(fs)]

RasterizeForNavTile(fs) ==
  LET upto[k \in 0 .. Len(fs)] == IF k = 0 THEN NewCell ELSE PaintForNavTile(upto[k - 1], fs[k])
  IN  upto[Len(fs)]

-----------------------------------------------------------------------------
(* stampSegment: the cells under a line, walked in steps of less than a    *)
(* cell; positions are in quarters of a cell.                              *)
Quarter == 4
StampSegment(p, q) ==
  LET n == Larger(Magnitude(p[1] - q[1]), Magnitude(p[2] - q[2])) \div Quarter + 1 IN
  {<<(p[1] * n + s * (q[1] - p[1])) \div (Quarter * n),
     (p[2] * n + s * (q[2] - p[2])) \div (Quarter * n)>> : s \in 0 .. n} \cap Cells

(* A navigable waterway opens the cells of its line, whatever is charted.  *)
StampWaterway(g, line) ==
  [c \in Cells |-> IF c \in line THEN [Mark(g[c], {"channel"}) EXCEPT !.flags = @ \ {"channelDepth"}]
                   ELSE g[c]]

(* The buoyed channel and the water beside it: an opinion, that opens and  *)
(* closes nothing.                                                         *)
StampChannelMarkers(g, inside, zone) ==
  [c \in Cells |-> Mark(g[c], (IF c \in inside THEN {"markedChannel"} ELSE {})
                               \cup (IF c \in zone THEN {"markerZone"} ELSE {}))]

-----------------------------------------------------------------------------
(* finalize: closed cells first, then the buffer around them, then prices. *)
ClosedHard(c, draft) ==
  IF "channel" \in c.flags
  THEN "channelDepth" \in c.flags /\ c.depth > 0 /\ c.depth < draft
  ELSE \/ c.flags \cap {"land", "obstruction"} # {}
       \/ c.depth # Uncharted /\ c.depth < draft /\ "dredged" \notin c.flags

(* The multiplier, in twelfths; o has the penalties and the reaches.       *)
One == 12

DepthCost(c, near, o) ==
  IF c.flags \cap {"dredged", "channel"} # {} THEN 0
  ELSE IF c.depth = Uncharted THEN IF near < o.unknownRange THEN o.unknown ELSE 0
  ELSE IF o.ideal > o.draft /\ c.depth < o.ideal
  THEN (o.depth * (o.ideal - c.depth)) \div (o.ideal - o.draft) ELSE 0

ShoreCost(near, o) ==
  IF o.soft > o.hard /\ near < o.soft
  THEN (o.shore * (o.soft - near)) \div (o.soft - o.hard) ELSE 0

ChannelCost(c, o) ==
  IF c.flags \cap {"markedChannel", "channel", "dredged"} # {} THEN 0
  ELSE IF "markerZone" \in c.flags THEN o.beside ELSE o.offChannel

CellCost(c, near, o) ==
  IF \/ ClosedHard(c, o.draft)
     \/ near < o.hard /\ "channel" \notin c.flags
  THEN 0
  ELSE One + DepthCost(c, near, o) + ShoreCost(near, o) + ChannelCost(c, o)
       + (IF "unsurveyed" \in c.flags THEN o.unsurveyed ELSE 0)
       + (IF "restricted" \in c.flags THEN o.restricted ELSE 0)

(* chamferDistance: two passes, steps of 5, 7 and 11 fifths of a cell.     *)
Forward == << <<-1,0,5>>, <<0,-1,5>>, <<-1,-1,7>>, <<1,-1,7>>,
              <<-2,-1,11>>, <<-1,-2,11>>, <<1,-2,11>>, <<2,-1,11>> >>
Far == 100000
RowMajor == [k \in 1 .. Width * Height |-> <<(k - 1) % Width, (k - 1) \div Width>>]

RelaxCell(d, c, offsets) ==
  LET seen == {k \in DOMAIN offsets : <<c[1] + offsets[k][1], c[2] + offsets[k][2]>> \in Cells}
      offers == {d[<<c[1] + offsets[k][1], c[2] + offsets[k][2]>>] + offsets[k][3] : k \in seen}
  IN [d EXCEPT ![c] = LeastOf(offers \cup {@})]

Backward == [k \in DOMAIN Forward |-> <<-Forward[k][1], -Forward[k][2], Forward[k][3]>>]

Sweep(start, order, offsets) ==
  LET upto[k \in 0 .. Width * Height] ==
        IF k = 0 THEN start
        ELSE LET before == upto[k - 1] IN RelaxCell(before, order[k], offsets)
  IN upto[Width * Height]

ChamferDistance(src) ==
  LET start == [c \in Cells |-> IF c \in src THEN 0 ELSE Far]
      LastFirst == [k \in 1 .. Width * Height |-> RowMajor[Width * Height + 1 - k]]
  IN Sweep(Sweep(start, RowMajor, Forward), LastFirst, Backward)

-----------------------------------------------------------------------------
(* The cells a straight leg crosses, as they are walked: two samples per   *)
(* cell, rounded half away from zero, a sample in the cell of the one      *)
(* before passed over.                                                     *)
Steps(a, b) == Larger(Magnitude(a[1] - b[1]), Magnitude(a[2] - b[2]))
Rounded(a, b, s, n) == (2 * (a * n + s * (b - a)) + n) \div (2 * n)

Sample(a, b, s, n) == <<Rounded(a[1], b[1], s, n), Rounded(a[2], b[2], s, n)>>

Walk(a, b) ==
  LET n == 2 * Steps(a, b)
      upto[s \in 0 .. n] ==
        IF s = 0 THEN <<a>>
        ELSE LET before == upto[s - 1] IN
             IF Sample(a, b, s, n) = Last(before) THEN before ELSE Append(before, Sample(a, b, s, n))
  IN upto[n]

Walked == [leg \in Cells \X Cells |-> Walk(leg[1], leg[2])]
Traversed == [leg \in Cells \X Cells |-> ToSet(Walked[leg])]

SumAlong(cost, walk) ==
  LET upto[k \in 0 .. Len(walk)] == IF k = 0 THEN 0 ELSE upto[k - 1] + cost[walk[k]]
  IN upto[Len(walk)]

Passable(cost, c) == cost[c] # 0
Navigable(cost, a, b) == \A c \in Traversed[<<a, b>>] : c \in Cells /\ Passable(cost, c)
MeanCost(cost, a, b) == <<SumAlong(cost, Walked[<<a, b>>]), Len(Walked[<<a, b>>])>>

NeighbourOffsets ==
  {o \in (-2 .. 2) \X (-2 .. 2) : o[1] * o[1] + o[2] * o[2] \in {1, 2, 5}}

Neighbours(c) == {<<c[1] + o[1], c[2] + o[2]>> : o \in NeighbourOffsets} \cap Cells

(* Lengths of moves are rounded up and distances to the goal down, so that *)
(* the rounding keeps the order the code's floating point has.             *)
SquareRoot(n) == CHOOSE r \in 0 .. n : r * r <= n /\ n < (r + 1) * (r + 1)
MoveLength == [o \in NeighbourOffsets |->
                 CASE o[1] * o[1] + o[2] * o[2] = 1 -> 100
                   [] o[1] * o[1] + o[2] * o[2] = 2 -> 142
                   [] OTHER -> 224]
Straight == [d \in (0 .. Width) \X (0 .. Height) |-> SquareRoot(10000 * (d[1] * d[1] + d[2] * d[2]))]
StraightTo(goal, c) == Straight[<<Magnitude(c[1] - goal[1]), Magnitude(c[2] - goal[2])>>]

MoveCost(cost, a, b) ==
  LET mean == MeanCost(cost, a, b) IN
  (MoveLength[<<b[1] - a[1], b[2] - a[2]>>] * mean[1]) \div mean[2]

Moves(cost, c) == {d \in Neighbours(c) : Passable(cost, d) /\ Navigable(cost, c, d)}

(* nearestPassable: of the first ring that has open cells the nearest, and *)
(* of those the first by rows; a set of one cell, or none.                 *)
Ring(c, r) == {d \in Cells : Steps(c, d) = r}
ByRows(d) == d[2] * Width + d[1]
NearestPassable(cost, c, reach) ==
  LET open(r) == {d \in Ring(c, r) : Passable(cost, d)}
      rings == {r \in 0 .. reach : open(r) # {}}
      first == open(CHOOSE r \in rings : \A q \in rings : r <= q)
      closest == {d \in first : \A e \in first : StraightTo(c, d) <= StraightTo(c, e)}
  IN IF rings = {} THEN {} ELSE {d \in closest : \A e \in closest : ByRows(d) <= ByRows(e)}

-----------------------------------------------------------------------------
(* What the cheapest chain of moves to each cell costs, by definition: no  *)
(* chain is needed that is longer than there are cells, so as many rounds, *)
(* each of one move more, find it.                                         *)
Infinite == -1  \* math.Inf(1), which no price is

Offers(cost, before, c) ==
  {before[b] + MoveCost(cost, b, c) : b \in {e \in Cells : before[e] # Infinite /\ c \in Moves(cost, e)}}
  \cup ({before[c]} \ {Infinite})

OneMoveMore(cost, before) ==
  [c \in Cells |-> LET offers == Offers(cost, before, c) IN
                    IF offers = {} THEN Infinite ELSE LeastOf(offers)]

Cheapest(cost, from) ==
  LET start == [c \in Cells |-> IF c = from THEN 0 ELSE Infinite]
      round[k \in 0 .. Width * Height] ==
        IF k = 0 THEN start
        ELSE LET before == round[k - 1]  after == OneMoveMore(cost, before) IN
             IF after = before THEN before ELSE after
  IN round[Width * Height]

=============================================================================
