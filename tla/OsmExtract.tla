----------------------------- MODULE OsmExtract -----------------------------
(***************************************************************************)
(* What mapsync makes of one OSM extract: the documents of its tagged      *)
(* nodes and ways and of the outer rings of its relations, in the order    *)
(* they are emitted (mapdata/cmd/mapsync/main.go, osmtiler/relations.go,   *)
(* osmtiler/simplify.go).  An extract is a record of the sequences nodes   *)
(* [id, at, tags], ways [id, nodes, tags] and relations [id, type, ways,   *)
(* tags]; a relation's ways are <<way, role>>.  Tags are Untagged or what  *)
(* the classifier reads off them: class, zoom (GeomMinZoom) and rank (the  *)
(* road kind, admin level or kind of place).                               *)
(***************************************************************************)
EXTENDS Integers, Sequences, SequencesExt, FiniteSets, FiniteSetsExt

CONSTANTS
  Untagged,
  MaxRingVertices,  \* maxRingVertices
  LowGeomTolerance, \* LowGeomTolerance, in the units of the coordinates
  NoGeometry

AreaClasses == {"building", "landuse", "leisure", "natural", "water"}

-----------------------------------------------------------------------------
(* Douglas-Peucker: of the points between two that stay, the first of the  *)
(* farthest from their line stays when it is farther than the tolerance.   *)
OffLine(p, a, b) ==
  LET dx == b[1] - a[1]
      dy == b[2] - a[2]
      cross == dx * (a[2] - p[2]) - dy * (a[1] - p[1])
  IN  IF a = b THEN (p[1] - a[1]) ^ 2 + (p[2] - a[2]) ^ 2 ELSE cross ^ 2

OffTolerance(a, b) ==
  LowGeomTolerance ^ 2 * (IF a = b THEN 1 ELSE (b[1] - a[1]) ^ 2 + (b[2] - a[2]) ^ 2)

(* The elements at the positions kept.                                     *)
Thinned(seq, kept) ==
  LET rank(i) == Cardinality({j \in kept : j <= i})
  IN  [k \in 1 .. Cardinality(kept) |-> seq[CHOOSE i \in kept : rank(i) = k]]

Staying(pts) ==
  LET staying[ends \in (DOMAIN pts) \X (DOMAIN pts)] ==
        LET lo == ends[1]
            hi == ends[2]
            between == lo + 1 .. hi - 1
            off(i) == OffLine(pts[i], pts[lo], pts[hi])
            far == Min({i \in between : \A j \in between : off(j) <= off(i)})
        IN  IF between = {} \/ off(far) <= OffTolerance(pts[lo], pts[hi]) THEN {lo, hi}
            ELSE staying[<<lo, far>>] \cup staying[<<far, hi>>]
  IN  staying[<<1, Len(pts)>>]

SimplifyLonLat(pts) == Thinned(pts, IF Len(pts) < 3 THEN DOMAIN pts ELSE Staying(pts))

-----------------------------------------------------------------------------
(* cleanSimpleRing: no vertex twice in a row, closed, and no other vertex  *)
(* twice; NoGeometry when it is no such ring.                              *)
CleanSimpleRing(coords) ==
  LET Closed(thin) == IF thin[1] = Last(thin) THEN thin ELSE Append(thin, thin[1])
      IsRing(thin) == /\ Len(coords) >= 3 /\ Len(thin) >= 3
                      /\ Len(Closed(thin)) >= 4 /\ IsInjective(Front(Closed(thin)))
      Ring(thin) == IF IsRing(thin) THEN [shape |-> "Polygon", at |-> Closed(thin)] ELSE NoGeometry
  IN  Ring(Thinned(coords, {i \in DOMAIN coords : i = 1 \/ coords[i] # coords[i - 1]}))

GeometryForRing(kind, coords) ==
  LET OrLine(ring) == IF ring # NoGeometry THEN ring ELSE [shape |-> "LineString", at |-> coords]
  IN  OrLine(IF kind = "polygon" THEN CleanSimpleRing(coords) ELSE NoGeometry)

LowGeomFor(kind, coords) ==
  LET IfSmaller(low) ==
        IF /\ kind \in {"line", "polygon"} /\ Len(low) < Len(coords)
           /\ Len(low) >= (IF kind = "polygon" THEN 4 ELSE 2)
        THEN GeometryForRing(kind, low) ELSE NoGeometry
  IN  IfSmaller(SimplifyLonLat(coords))

BBoxSpan(coords) ==
  LET wide(axis) == LET at == {coords[i][axis] : i \in DOMAIN coords} IN Max(at) - Min(at)
  IN  Max({wide(1), wide(2)})

Doc(id, tags, kind, coords) ==
  [id |-> id, class |-> tags.class, zoom |-> tags.zoom, rank |-> tags.rank, kind |-> kind,
   geometry |-> GeometryForRing(kind, coords), low |-> LowGeomFor(kind, coords),
   span |-> BBoxSpan(coords)]

-----------------------------------------------------------------------------
(* Pass 1: multipolygons and boundaries that have outer ways.              *)
OuterWays(r) ==
  LET outer == SelectSeq(r.ways, LAMBDA m : m[2] \in {"outer", ""})
  IN  [i \in DOMAIN outer |-> outer[i][1]]

KeptRelations(x) ==
  SelectSeq(x.relations,
            LAMBDA r : r.type \in {"multipolygon", "boundary"} /\ OuterWays(r) # <<>>)

MemberWays(x) == UNION {ToSet(OuterWays(r)) : r \in ToSet(KeptRelations(x))}

(* Passes 2a and 2b: the nodes of the ways kept, as far as the extract has *)
(* them, and a document of every tagged node.                              *)
KeptWays(x) == SelectSeq(x.ways, LAMBDA w : w.id \in MemberWays(x) \/ w.tags # Untagged)
NeededNodes(x) == UNION {ToSet(w.nodes) : w \in ToSet(KeptWays(x))}
StoredNodes(x) == {n \in ToSet(x.nodes) : n.id \in NeededNodes(x)}

NodeDocs(x) ==
  LET tagged == SelectSeq(x.nodes, LAMBDA n : n.tags # Untagged)
  IN  [i \in DOMAIN tagged |->
         [Doc(<<"node", tagged[i].id>>, tagged[i].tags, "point", <<tagged[i].at>>)
            EXCEPT !.geometry.shape = "Point"]]

(* Pass 2c.                                                                *)
WayCoords(x, w) ==
  LET got == SelectSeq(w.nodes, LAMBDA id : \E n \in StoredNodes(x) : n.id = id)
  IN  [i \in DOMAIN got |-> (CHOOSE n \in StoredNodes(x) : n.id = got[i]).at]

WayKind(w, coords) ==
  IF Len(coords) >= 4 /\ coords[1] = Last(coords) /\ w.tags.class \in AreaClasses
  THEN "polygon" ELSE "line"

WayDocs(x) ==
  LET drawn == SelectSeq(KeptWays(x), LAMBDA w : w.tags # Untagged /\ Len(WayCoords(x, w)) >= 2)
  IN  [i \in DOMAIN drawn |->
         LET coords == WayCoords(x, drawn[i])
         IN  Doc(<<"way", drawn[i].id>>, drawn[i].tags, WayKind(drawn[i], coords), coords)]

MemberCoords(x) ==
  LET known == {w \in ToSet(KeptWays(x)) : w.id \in MemberWays(x) /\ Len(WayCoords(x, w)) >= 2}
  IN  [id \in {w.id : w \in known} |-> WayCoords(x, CHOOSE w \in known : w.id = id)]

-----------------------------------------------------------------------------
(* AssembleOuterRings: a ring is begun with the first way left, and        *)
(* prolonged by the first way left that begins or ends at its tail, until  *)
(* it closes; a ring that cannot be closed is dropped with its ways.       *)
Prolonged(ring, ways, coords) ==
  LET longer(s) ==
        LET tail == Last(s.ring)
            meets == SelectSeq(s.left, LAMBDA id : tail \in {coords[id][1], Last(coords[id])})
            picked == coords[meets[1]]
            joined == s.ring \o Tail(IF picked[1] = tail THEN picked ELSE Reverse(picked))
        IN  IF s.closed \/ meets = <<>> THEN s
            ELSE [ring |-> joined, left |-> Remove(s.left, meets[1]), closed |-> joined[1] = Last(joined)]
      after[k \in 0 .. Len(ways)] ==
        IF k = 0 THEN [ring |-> ring, left |-> ways, closed |-> FALSE] ELSE longer(after[k - 1])
  IN  after[Len(ways)]

RingsFrom(ways, coords) ==
  LET more(s) ==
        LET start == coords[s.left[1]]
            grown == IF Len(start) > 2 /\ start[1] = Last(start)
                     THEN [ring |-> start, left |-> Tail(s.left), closed |-> TRUE]
                     ELSE Prolonged(start, Tail(s.left), coords)
        IN  IF s.left = <<>> THEN s
            ELSE [left |-> grown.left,
                  rings |-> IF grown.closed THEN Append(s.rings, grown.ring) ELSE s.rings]
      after[k \in 0 .. Len(ways)] ==
        IF k = 0 THEN [left |-> ways, rings |-> <<>>] ELSE more(after[k - 1])
  IN  after[Len(ways)].rings

AssembleOuterRings(ways, coords) ==
  LET known == SelectSeq(ways, LAMBDA id : id \in DOMAIN coords)
      first == {i \in DOMAIN known : \A j \in 1 .. i - 1 : known[j] # known[i]}
  IN  RingsFrom(Thinned(known, first), coords)

(* emitRelations: a border is its member ways, each a line; of the rings   *)
(* of an area those that fit in a document, numbered among all of them.    *)
RelationDocs(r, coords) ==
  LET border == SelectSeq(OuterWays(r), LAMBDA id : id \in DOMAIN coords)
      InDocs(kind, lines) ==
        [i \in DOMAIN lines |-> Doc(<<"rel", r.id, i>>, r.tags, kind, lines[i])]
      Small(rings) ==
        SelectSeq(InDocs("polygon", rings), LAMBDA d : Len(rings[d.id[3]]) <= MaxRingVertices)
  IN  IF r.tags.class = "admin"
      THEN InDocs("line", [i \in DOMAIN border |-> coords[border[i]]])
      ELSE Small(AssembleOuterRings(OuterWays(r), coords))

(* The documents of an extract, as they are emitted.                       *)
DocsOf(x) ==
  LET InOrder(relations, coords) ==
        FlattenSeq([i \in DOMAIN relations |-> RelationDocs(relations[i], coords)])
  IN  NodeDocs(x) \o WayDocs(x) \o InOrder(KeptRelations(x), MemberCoords(x))
=============================================================================
