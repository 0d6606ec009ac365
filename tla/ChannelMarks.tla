---------------------------- MODULE ChannelMarks ----------------------------
(***************************************************************************)
(* The gates the charted marks make (autoroute_marks.go): marks deduped    *)
(* and paired.  Positions are in the plane, x the longitude; Wall is the   *)
(* land between them.                                                      *)
(***************************************************************************)
EXTENDS Integers, Sequences, FiniteSets

CONSTANTS
  GateWidth,    \* maxGateWidthM
  DedupReach,   \* markDedupM
  Wall          \* x of a spit that no gate may cross, between marks

ASSUME ChannelMarksAssumption == GateWidth \in Nat /\ DedupReach \in Nat /\ Wall \in Int

VARIABLE buoys  \* the features charted in a corridor

(* A charted feature, reduced to a mark: CATLAM gives the hand, and a mark *)
(* of a preferred channel to starboard is itself left to port.             *)
Side(f) ==
  CASE f.class = "safeWater" -> "safeWater"
    [] f.class = "lateral" /\ f.catlam \in {1, 3} -> "port"
    [] f.class = "lateral" /\ f.catlam \in {2, 4} -> "starboard"
    [] OTHER -> "none"

MarksIn(f) == IF Side(f) = "none" THEN {} ELSE {[x |-> f.x, y |-> f.y, side |-> Side(f)]}

SideOrder == [port |-> 0, starboard |-> 1, safeWater |-> 2]
MarkBefore(m, o) ==
  \/ m.x < o.x
  \/ m.x = o.x /\ m.y < o.y
  \/ m.x = o.x /\ m.y = o.y /\ SideOrder[m.side] < SideOrder[o.side]

Rank(marks, m) == Cardinality({o \in marks : MarkBefore(o, m)}) + 1
Sorted(marks) == [k \in 1 .. Cardinality(marks) |-> CHOOSE m \in marks : Rank(marks, m) = k]

Square(m, o) == (m.x - o.x) * (m.x - o.x) + (m.y - o.y) * (m.y - o.y)

(* The scan back over the kept marks stops at the first whose longitude    *)
(* alone is too far.                                                       *)
Repeats(out, m) ==
  \E k \in DOMAIN out :
    /\ \A i \in k .. Len(out) : m.x - out[i].x <= DedupReach
    /\ out[k].side = m.side /\ Square(m, out[k]) <= DedupReach * DedupReach

DedupeMarks(marks) ==
  LET kept[k \in 0 .. Len(marks)] ==
        IF k = 0 THEN <<>>
        ELSE LET out == kept[k - 1] IN IF Repeats(out, marks[k]) THEN out ELSE Append(out, marks[k])
  IN kept[Len(marks)]

ChannelMarksFrom(features) == DedupeMarks(Sorted(UNION {MarksIn(f) : f \in features}))

CrossesLand(m, o) == (m.x < Wall /\ Wall < o.x) \/ (o.x < Wall /\ Wall < m.x)

(* forEachMarkWithin: west from i, then east, while the longitude alone is *)
(* within reach.                                                           *)
Distance(i, j) == IF i < j THEN j - i ELSE i - j
Scan(marks, i, reach) ==
  {j \in DOMAIN marks \ {i} :
     \A k \in j .. i - 1 \cup i + 1 .. j : Distance(marks[i].x, marks[k].x) <= reach}
ScannedBefore(i, j, k) == (j < i /\ (k < j \/ i < k)) \/ (i < j /\ j < k)

(* The nearest mark of the other hand whose gate is not over land, of two  *)
(* as near the one scanned first; 0 if there is none.                      *)
MayGate(m, o) ==
  /\ {m.side, o.side} = {"port", "starboard"}
  /\ Square(m, o) <= GateWidth * GateWidth
  /\ ~CrossesLand(m, o)

Nearest(marks, i) ==
  LET opposite == {j \in Scan(marks, i, GateWidth) : MayGate(marks[i], marks[j])}
      far(j) == Square(marks[i], marks[j])
  IN IF opposite = {} THEN 0
     ELSE CHOOSE j \in opposite : \A k \in opposite \ {j} :
            far(j) < far(k) \/ (far(j) = far(k) /\ ScannedBefore(i, j, k))

(* Mutant: the nearest mark is a partner whether or not it agrees.         *)
ChannelGatesOneSided(marks) ==
  {<<i, i>> : i \in {k \in DOMAIN marks : marks[k].side = "safeWater"}} \cup
  {<<i, Nearest(marks, i)>> : i \in {k \in DOMAIN marks : Nearest(marks, k) # 0}}

(* A gate of two marks by their indexes, or of one safe-water mark.        *)
ChannelGates(marks) ==
  {<<i, i>> : i \in {k \in DOMAIN marks : marks[k].side = "safeWater"}} \cup
  {<<i, Nearest(marks, i)>> : i \in
     {k \in DOMAIN marks : Nearest(marks, k) > k /\ Nearest(marks, Nearest(marks, k)) = k}}

-----------------------------------------------------------------------------
(* Deduping in one scan is deduping: no two kept marks are one buoy, and   *)
(* every charted mark has its buoy among them (dedupeMarks).               *)
EveryBuoyOnce(features) ==
  LET marks == ChannelMarksFrom(features)
      same(m, o) == m.side = o.side /\ Square(m, o) <= DedupReach * DedupReach IN
  /\ \A i, j \in DOMAIN marks : i # j => ~same(marks[i], marks[j])
  /\ \A f \in features : \A m \in MarksIn(f) : \E i \in DOMAIN marks : same(m, marks[i])

(* A buoy at a junction does not claim every mark around it: a mark stands *)
(* in one gate, a gate joins two hands over water, neither of its marks    *)
(* has a nearer one it could make a gate with, however the scan for it     *)
(* stops, and two marks that have no nearer choice are a gate              *)
(* (channelGates).                                                         *)
GatesArePairs(features) ==
  LET marks == ChannelMarksFrom(features)
      gates == ChannelGates(marks)
      noNearer(i, j) == \A k \in DOMAIN marks :
                          MayGate(marks[i], marks[k]) => Square(marks[i], marks[j]) <= Square(marks[i], marks[k])
      only(i, j) == \A k \in DOMAIN marks \ {i, j} :
                      MayGate(marks[i], marks[k]) => Square(marks[i], marks[j]) < Square(marks[i], marks[k]) IN
  /\ \A g, h \in gates : {g[1], g[2]} \cap {h[1], h[2]} # {} => g = h
  /\ \A g \in gates : g[1] # g[2] =>
       MayGate(marks[g[1]], marks[g[2]]) /\ noNearer(g[1], g[2]) /\ noNearer(g[2], g[1])
  /\ \A i, j \in DOMAIN marks :
       (i < j /\ MayGate(marks[i], marks[j]) /\ only(i, j) /\ only(j, i)) => <<i, j>> \in gates

(* Marks become buoys, each once, and buoys become gates, each the pair of *)
(* the nearest marks of the two hands (channelMarksFrom, channelGates).    *)
MarksPairUp == EveryBuoyOnce(buoys) /\ GatesArePairs(buoys)

(* Of which side of the way from m to o the mark p lies.                   *)
SideOfWay(m, o, p) == (o.x - m.x) * (p.y - m.y) - (o.y - m.y) * (p.x - m.x)
Crosses(m, o, p, q) ==
  SideOfWay(m, o, p) * SideOfWay(m, o, q) < 0 /\ SideOfWay(p, q, m) * SideOfWay(p, q, o) < 0


(* "leave to port inbound: CATLAM 1 or 4", "leave to starboard inbound:    *)
(* CATLAM 2 or 3" (autoroute_marks.go:59-60).                              *)
HandsAsCommented ==
  \A f \in buoys : f.class = "lateral" =>
    /\ Side(f) = "port" <=> f.catlam \in {1, 4}
    /\ Side(f) = "starboard" <=> f.catlam \in {2, 3}
=============================================================================
