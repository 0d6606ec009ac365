-------------------------- MODULE MCApproachMemory --------------------------
(* A chart of a few places, as <<x, y>> in hundreds of metres: marks A, B, *)
(* C in a line, E off it, and the waters around them.                      *)
EXTENDS ApproachMemory

A == <<0, 0>>
B == <<20, 0>>
C == <<60, 0>>
E == <<38, 24>>

Marks == {A, B, C, E}
Chart == {<<-10, 0>>, A, <<2, 1>>, <<4, 0>>, B, <<30, 0>>, <<40, 0>>, <<26, 8>>, <<57, 0>>, C}

Dot(b, p, q) == (b[1] - p[1]) * (q[1] - p[1]) + (b[2] - p[2]) * (q[2] - p[2])
Cross(b, p, q) == (b[1] - p[1]) * (q[2] - p[2]) - (b[2] - p[2]) * (q[1] - p[1])
Magnitude(n) == IF n < 0 THEN -n ELSE n

(* In metres, rounded down; no two places are 10 km apart.                 *)
Metres(p, q) ==
  LET square == 10000 * Dot(q, p, q)
  IN  CHOOSE m \in 0..10000 : m * m <= square /\ (m + 1) * (m + 1) > square

DistTable == [p \in Chart \cup Marks, q \in Marks |-> Metres(p, q)]
ChartDist(p, q) == DistTable[p, q]

(* legProjection, with the bounds decideRejoin puts on it.                 *)
AlongTable ==
  [b \in Chart, p \in Marks, q \in Marks |->
     IF /\ Dot(b, p, q) > 0 /\ Dot(b, p, q) < Dot(q, p, q)
        /\ Magnitude(Cross(b, p, q)) * 10000 <= 926 * DistTable[p, q]
     THEN (Dot(b, p, q) * 10000) \div DistTable[p, q]
     ELSE OffLeg]
ChartAlong(b, p, q) == AlongTable[b, p, q]

Bends == {<<A, B, C>>, <<A, B, E>>}
Short == {<<A, B>>, <<B>>}
Once == {FALSE}
OnceOrRound == BOOLEAN
=============================================================================
