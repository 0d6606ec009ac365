------------------------------ MODULE NavTiles ------------------------------
(***************************************************************************)
(* The precomputed navigability tiles (render/navgrid.go): a cell of a     *)
(* tile is stored as decimetres of depth in 16 bits and a byte of flags,   *)
(* and a cell of the routing grid is sampled from the pixels under it.     *)
(***************************************************************************)
EXTENDS RouteGrid

NavDepthUncharted == -32768
MaxDecimetres == 32767

CONSTANT Drafts  \* of the boats that ask for a route; a tile knows none of them

ASSUME NavTilesAssumption == Drafts \subseteq 0 .. MaxDecimetres \div 10

VARIABLE charted \* under a cell of the grid: the features over each pixel, in their order

StoredFlags ==
  {"land", "obstruction", "dredged", "unsurveyed", "restricted", "channel", "channelDepth"}

(* Saturating, and never the sentinel; the rounding is for depths finer    *)
(* than the charts', which are of whole decimetres.                        *)
ClampDecimetres(depth) ==
  Larger(Smaller(10 * depth, MaxDecimetres), NavDepthUncharted + 1)

Stored(c) ==
  [depth |-> IF c.depth = Uncharted THEN NavDepthUncharted ELSE ClampDecimetres(c.depth),
   flags |-> c.flags \cap StoredFlags]

-----------------------------------------------------------------------------
(* sampleTilesIntoGrid: land is what at least half of the pixels are,      *)
(* every other flag is there when one pixel has it; the depth is the       *)
(* shoalest of the water, or of the channel when there is one.             *)
IsLand(pixel) == "land" \in pixel.flags
Sounded(pixel) == ~IsLand(pixel) /\ pixel.depth # NavDepthUncharted

Shoalest(pixels) ==
  IF pixels = {} THEN Uncharted
  ELSE (CHOOSE p \in pixels : \A q \in pixels : p.depth <= q.depth).depth \div 10

SampleTilesIntoGrid(pixels) ==
  LET under == ToSet(pixels)
      flags == (UNION {p.flags : p \in under}) \ {"land"}
      land == Cardinality({k \in DOMAIN pixels : IsLand(pixels[k])})
      water == {p \in under : Sounded(p)}
  IN IF pixels = <<>> THEN NewCell
     ELSE [NewCell EXCEPT
             !.depth = Shoalest(IF "channel" \in flags THEN {p \in water : "channel" \in p.flags}
                                ELSE water),
             !.flags = flags \cup (IF 2 * land >= Len(pixels) THEN {"land"} ELSE {})]

(* A cell of the routing grid over pixels with these features.             *)
Sampled(features) ==
  SampleTilesIntoGrid([k \in DOMAIN features |-> Stored(RasterizeForNavTile(features[k]))])

-----------------------------------------------------------------------------
OfOneScale(fs) == \A j, k \in DOMAIN fs : fs[j].scale = fs[k].scale
InChannel(fs) == \E k \in DOMAIN fs : fs[k].class \in {"fairway", "dredged"}

TilesClose(features, draft) == ClosedHard(Sampled(features), draft)
ChartCloses(fs, draft) == ClosedHard(RasterizeForRouting(fs, draft), draft)
OnLand(fs) == "land" \in RasterizeForRouting(fs, 0).flags

(* The cell of a tile closes to a boat when the chart does, whatever its   *)
(* draft and in whatever order the features come.                          *)
TileAgrees(fs) ==
  \A draft \in Drafts : TilesClose(<<Reverse(fs)>>, draft) <=> ChartCloses(fs, draft)

(* A cell over several pixels closes when one of the water, or half of     *)
(* them as land, closes; and not when the chart closes none of them.  One  *)
(* pixel of a channel opens it, where no channel has a depth of its own.   *)
OutsideChannels(features, draft) ==
  LET Land == {k \in DOMAIN features : OnLand(features[k])}
      Closed == {k \in DOMAIN features : ChartCloses(features[k], draft)}
  IN /\ 2 * Cardinality(Land) >= Len(features) => TilesClose(features, draft)
     /\ Closed \subseteq Land \/ TilesClose(features, draft)
     /\ Closed # {} \/ ~TilesClose(features, draft)

HasDepth(fs) == "channelDepth" \in RasterizeForRouting(fs, 0).flags

SampleAgrees(features) ==
  \A draft \in Drafts :
    IF \A k \in DOMAIN features : ~InChannel(features[k]) THEN OutsideChannels(features, draft)
    ELSE (\A k \in DOMAIN features : ~HasDepth(features[k])) => ~TilesClose(features, draft)

(* "If any pixel is a channel, the channel is what this cell represents"   *)
(* (navgrid.go:410): pixels of channels that the chart leaves open leave   *)
(* the cell open.                                                          *)
ChannelsAgree(features) ==
  \A draft \in Drafts :
    (\A k \in DOMAIN features : InChannel(features[k]) /\ ~ChartCloses(features[k], draft)) =>
      ~TilesClose(features, draft)

(* "That is what lets one set of tiles serve every draft"                  *)
(* (autoroute.go:1800): on charts of one scale, and outside channels, the  *)
(* tile, stored and read, closes a cell to a boat when the chart does; and *)
(* a cell over several pixels closes by the rule of sampleTilesIntoGrid.   *)
TileServesEveryDraft ==
  (charted # <<>> /\ \A k \in DOMAIN charted : OfOneScale(charted[k])) =>
    /\ Len(charted) = 1 /\ ~InChannel(charted[1]) => TileAgrees(charted[1])
    /\ SampleAgrees(charted)

(* "A charted depth over an obstruction is a depth, not a wall: fold it    *)
(* into the cell so the reader's own draft decides" (autoroute.go:1819):   *)
(* a cell the chart closes to a boat is closed by the tile, also when the  *)
(* features come from charts of two scales; outside channels, whose own    *)
(* rules are another matter.                                               *)
TileShowsEveryHazard ==
  (Len(charted) = 1 /\ ~InChannel(charted[1])) =>
    \A draft \in Drafts :
      ChartCloses(charted[1], draft) => TilesClose(<<Reverse(charted[1])>>, draft)

(* Where channels meet.                                                    *)
ChannelsStayOpen == ChannelsAgree(charted)
=============================================================================
