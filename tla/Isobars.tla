------------------------------ MODULE Isobars ------------------------------
(***************************************************************************)
(* The isobars of a forecast and its highs and lows (noaa_isobars.go): the *)
(* pressure field of a file is cut by marching squares, a cell and a level *)
(* at a time, and searched for extremes.  Points are <<lon, lat>>; rows go *)
(* from north to south.                                                    *)
(***************************************************************************)
EXTENDS GribFile

CONSTANTS
  Levels,              \* the pressures that isobars are drawn at
  Pressures,           \* the pressures that are not taken for missing
  ExtremumRadius,      \* how far a high is higher than everything
  ExtremumMinOffset    \* and by how much it is higher than something

ASSUME IsobarsAssumption ==
  /\ Levels \subseteq Int /\ Pressures \subseteq Int
  /\ ExtremumRadius \in Nat

VARIABLE forecast   \* a file, as GribFile has it

(* A meridian at or past 180 degrees is told as one west of Greenwich.     *)
ShiftLon(lon) == IF lon >= 180 THEN lon - 360 ELSE lon

At(record, ix, iy) == record.values[iy * record.grid.nx + ix + 1]
Valid(v) == v \in Pressures

-----------------------------------------------------------------------------
(* A cell: the pressures of its corners and where its edges are.           *)
CellBetween(record, ix, iy, west, east) ==
  [tl |-> At(record, ix, iy), tr |-> At(record, ix + 1, iy),
   bl |-> At(record, ix, iy + 1), br |-> At(record, ix + 1, iy + 1),
   west |-> west, east |-> east,
   north |-> record.grid.la1 - iy * record.grid.dy,
   south |-> record.grid.la1 - (iy + 1) * record.grid.dy]

(* Mutant: each edge of the cell is brought to its own side of the globe.  *)
CellShiftedByEdge(record, ix, iy) ==
  LET Meridian(k) == ShiftLon(record.grid.lo1 + k * record.grid.dx)
  IN CellBetween(record, ix, iy, Meridian(ix), Meridian(ix + 1))

CellAt(record, ix, iy) ==
  LET west == ShiftLon(record.grid.lo1 + ix * record.grid.dx)
  IN CellBetween(record, ix, iy, west, west + record.grid.dx)

Corners == {"tl", "tr", "bl", "br"}

(* Where the level lies on the way from one corner's pressure to another's.*)
Crossing(level, a, b, from, to) ==
  IF b > a THEN from + ((level - a) * (to - from)) \div (b - a)
  ELSE from + ((a - level) * (to - from)) \div (a - b)

(* The segments through a cell at a level: which edges they join is told   *)
(* by the corners above it.                                                *)
MarchCell(level, c) ==
  LET above == {k \in Corners : c[k] > level}
      Top == <<Crossing(level, c.tl, c.tr, c.west, c.east), c.north>>
      Right == <<c.east, Crossing(level, c.tr, c.br, c.north, c.south)>>
      Bottom == <<Crossing(level, c.bl, c.br, c.west, c.east), c.south>>
      Left == <<c.west, Crossing(level, c.tl, c.bl, c.north, c.south)>>
      Either(S) == above \in {S, Corners \ S}
      high == c.tl + c.tr + c.bl + c.br > 4 * level
      falling == {<<Top, Left>>, <<Bottom, Right>>}
      rising == {<<Top, Right>>, <<Bottom, Left>>}
  IN CASE Either({}) -> {}
       [] Either({"bl"}) -> {<<Left, Bottom>>}
       [] Either({"br"}) -> {<<Bottom, Right>>}
       [] Either({"bl", "br"}) -> {<<Left, Right>>}
       [] Either({"tr"}) -> {<<Top, Right>>}
       [] Either({"tr", "br"}) -> {<<Top, Bottom>>}
       [] Either({"tl"}) -> {<<Top, Left>>}
       [] above = {"tr", "bl"} -> IF high THEN falling ELSE rising
       [] above = {"tl", "br"} -> IF high THEN rising ELSE falling

(* A segment over more than two cells is dropped.                          *)
TooLong(segment, grid) ==
  LET Apart(k) == LET d == segment[1][k] - segment[2][k] IN IF d < 0 THEN -d ELSE d
  IN Apart(1) > 2 * grid.dx \/ Apart(2) > 2 * grid.dy

CellIsValid(c) == \A k \in Corners : Valid(c[k])

LevelSegments(level, c, grid) ==
  IF ~CellIsValid(c) THEN {}
  ELSE {segment \in MarchCell(level, c) : ~TooLong(segment, grid)}

GridCells(grid) == (0 .. grid.nx - 2) \X (0 .. grid.ny - 2)

(* The isobars: the segments of every cell at every level.                 *)
ContourLatLonGrid(record) ==
  [at \in GridCells(record.grid) |->
     [level \in Levels |-> LevelSegments(level, CellAt(record, at[1], at[2]), record.grid)]]

-----------------------------------------------------------------------------
(* Highs and lows: a point that beats everything in its window, and        *)
(* something there by the offset.                                          *)
Extrema(record) ==
  LET grid == record.grid
      R == ExtremumRadius
      Inner == {p \in (R .. grid.nx - R - 1) \X (R .. grid.ny - R - 1) :
                  Valid(At(record, p[1], p[2]))}
      Window(p) == {At(record, p[1] + d[1], p[2] + d[2]) : d \in ((-R .. R) \X (-R .. R)) \ {<<0, 0>>}}
      V(p) == At(record, p[1], p[2])
      High(p) == /\ \A v \in Window(p) : Valid(v) /\ v < V(p)
                 /\ \E v \in Window(p) : V(p) - v >= ExtremumMinOffset
      Low(p) == /\ \A v \in Window(p) : Valid(v) /\ v > V(p)
                /\ \E v \in Window(p) : v - V(p) >= ExtremumMinOffset
      Point(p, kind) == [at |-> <<ShiftLon(grid.lo1 + p[1] * grid.dx), grid.la1 - p[2] * grid.dy>>,
                         kind |-> kind, value |-> V(p)]
  IN {Point(p, "H") : p \in {q \in Inner : High(q)}} \cup {Point(p, "L") : p \in {q \in Inner : Low(q)}}

(* decodeGFSIsobars.                                                       *)
DecodeGFSIsobars(file) ==
  LET Drawn(record) ==
        IF record.verdict # "record" THEN [ok |-> FALSE]
        ELSE [ok |-> TRUE, lines |-> ContourLatLonGrid(record), extrema |-> Extrema(record)]
  IN Drawn(FirstRecord(ParseMessages(file, "pressure")))

-----------------------------------------------------------------------------
(* An isobar is a line: inside the field, where every cell around a point  *)
(* is valid, an even number of segments end at the point, also on the      *)
(* meridian where longitudes change sides (contourLatLonGrid).             *)
NoLooseEnds(grid, values, lines) ==
  LET record == [grid |-> grid, values |-> values]
      Eastward(lon) == IF lon < grid.lo1 THEN lon + 360 ELSE lon
      Place(end) == <<Eastward(end[1][end[2]][1]), end[1][end[2]][2]>>
      Around(p) == {at \in GridCells(grid) :
                      /\ p[1] - grid.lo1 \in at[1] * grid.dx .. (at[1] + 1) * grid.dx
                      /\ grid.la1 - p[2] \in at[2] * grid.dy .. (at[2] + 1) * grid.dy}
      Inside(p) == /\ p[1] - grid.lo1 \in 1 .. (grid.nx - 1) * grid.dx - 1
                   /\ grid.la1 - p[2] \in 1 .. (grid.ny - 1) * grid.dy - 1
                   /\ \A at \in Around(p) : CellIsValid(CellAt(record, at[1], at[2]))
  IN \A level \in Levels :
       LET ends == [at \in GridCells(grid) |-> lines[at][level] \X {1, 2}]
           places == UNION {{Place(end) : end \in ends[at]} : at \in GridCells(grid)}
       IN \A p \in places :
            Inside(p) => Cardinality(UNION {{at} \X {end \in ends[at] : Place(end) = p} :
                                             at \in GridCells(grid)}) % 2 = 0

(* Two highs, or two lows, are farther apart than the window reaches.      *)
ExtremaApart(grid, extrema) ==
  LET Cells(e, f, k, width) ==
        LET d == e.at[k] - f.at[k] IN (IF d < 0 THEN -d ELSE d) \div width
  IN \A e \in extrema, f \in extrema :
       e # f /\ e.kind = f.kind =>
         \/ Cells(e, f, 1, grid.dx) > ExtremumRadius
         \/ Cells(e, f, 2, grid.dy) > ExtremumRadius

(* The pressure field of a file drawn: no isobar ends inside it, and no    *)
(* high or low has another of its kind in its window (noaa_isobars.go).    *)
IsobarsHoldTogether ==
  LET record == FirstRecord(ParseMessages(forecast, "pressure"))
      drawn == DecodeGFSIsobars(forecast)
  IN drawn.ok => /\ NoLooseEnds(record.grid, record.values, drawn.lines)
                 /\ ExtremaApart(record.grid, drawn.extrema)
=============================================================================
