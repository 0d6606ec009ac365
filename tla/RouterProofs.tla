---------------------------- MODULE RouterProofs ----------------------------
(***************************************************************************)
(* What holds of the auto-router for any chart, request and bounds: what   *)
(* A* takes for the way to a goal is a cheapest chain of moves, and        *)
(* smoothing cuts no corner; a request planned in sections is planned      *)
(* through every point, a splice hits the stretch that was found, and no   *)
(* answer is silent about land; the stored tiles, that know no boat, close *)
(* to each boat what the chart closes; and the charted marks are paired.   *)
(* And of the isobars of any forecast: they end at the edge of the field   *)
(* only.                                                                   *)
(***************************************************************************)
EXTENDS RouteShape, RoutePlan, NavTiles, ChannelMarks, Isobars, Recursions, FiniteSetTheorems

-----------------------------------------------------------------------------
(* The loops over lists.                                                   *)

(* InOrder lists what S has of 1 .. n, each once and from the least.       *)
LEMMA InOrderIs ==
  ASSUME NEW S, NEW n \in Nat
  PROVE  /\ InOrder(S, n) \in Seq(1 .. n)
         /\ \A i \in 1 .. Len(InOrder(S, n)) : InOrder(S, n)[i] \in S
         /\ \A i, j \in 1 .. Len(InOrder(S, n)) : i < j => InOrder(S, n)[i] < InOrder(S, n)[j]
         /\ \A k \in 1 .. n : k \in S => \E i \in 1 .. Len(InOrder(S, n)) : InOrder(S, n)[i] = k
<1> DEFINE V == Seq(1 .. n)
           Listing(f) == f = [k \in 0 .. n |-> IF k = 0 THEN <<>>
                                               ELSE IF k \in S THEN Append(f[k - 1], k) ELSE f[k - 1]]
           step == [p \in (1 .. n) \X V |-> IF p[1] \in S THEN Append(p[2], p[1]) ELSE p[2]]
<1>1. \E f : Listing(f)
  <2> DEFINE none == <<>>
  <2>1. none \in V
    BY EmptySeq
  <2>2. step \in [(1 .. n) \X V -> V]
    <3>1. \A k \in 1 .. n, v \in V : Append(v, k) \in V
      BY AppendProperties
    <3> QED
      BY <3>1
  <2>3. \A k \in 1 .. n, v \in V : step[<<k, v>>] = IF k \in S THEN Append(v, k) ELSE v
    OBVIOUS
  <2> HIDE DEF V, step, none
  <2>4. PICK f : Recurs(f, V, 0, 1, n, none, step)
    <3>1. 0 \in Nat /\ 1 \in Nat /\ 1 = 0 + 1 /\ 0 <= n
      OBVIOUS
    <3> QED
      BY ONLY <2>1, <2>2, <3>1, n \in Nat, Recursion
  <2>5. \A k \in 1 .. n : k - 1 \in 0 .. n /\ f[k - 1] \in V
    BY <2>4 DEF Recurs
  <2>6. \A k \in 0 .. n : f[k] = IF k = 0 THEN <<>> ELSE IF k \in S THEN Append(f[k - 1], k) ELSE f[k - 1]
    <3>1. \A k \in 0 .. n : k = 0 \/ k \in 1 .. n
      OBVIOUS
    <3> QED
      BY <2>3, <2>4, <2>5, <3>1 DEF none, Recurs
  <2>7. Listing(f)
    BY <2>4, <2>6 DEF Recurs
  <2> QED
    BY <2>7
<1> DEFINE g == CHOOSE f : Listing(f)
<1>2. Listing(g)
  BY <1>1
<1>3. InOrder(S, n) = g[n]
  BY DEF InOrder
<1> HIDE DEF g
<1> DEFINE Good(k) ==
      /\ g[k] \in Seq(1 .. n)
      /\ \A i \in 1 .. Len(g[k]) : g[k][i] \in S /\ g[k][i] <= k
      /\ \A i, j \in 1 .. Len(g[k]) : i < j => g[k][i] < g[k][j]
      /\ \A l \in 1 .. k : l \in S => \E i \in 1 .. Len(g[k]) : g[k][i] = l
<1>4. Good(0)
  <2>1. g[0] = <<>>
    BY <1>2
  <2> QED
    BY <2>1, EmptySeq
<1>5. ASSUME NEW k \in 0 .. n - 1, Good(k) PROVE Good(k + 1)
  <2>1. g[k + 1] = IF k + 1 \in S THEN Append(g[k], k + 1) ELSE g[k]
    <3>1. k + 1 \in 0 .. n /\ k + 1 # 0 /\ (k + 1) - 1 = k
      OBVIOUS
    <3> QED
      BY <1>2, <3>1
  <2>2. CASE k + 1 \notin S
    <3>1. \A l \in 1 .. k + 1 : l \in S => l \in 1 .. k
      BY <2>2
    <3>2. \A i \in 1 .. Len(g[k]) : g[k][i] \in 1 .. n
      BY <1>5, ElementOfSeq
    <3>3. g[k + 1] = g[k]
      BY <2>1, <2>2
    <3> QED
      BY <1>5, <3>1, <3>2, <3>3
  <2>3. CASE k + 1 \in S
    <3>1. g[k + 1] = Append(g[k], k + 1) /\ k + 1 \in 1 .. n
      BY <2>1, <2>3
    <3>2. PICK len \in Nat : len = Len(g[k])
      BY <1>5, LenProperties
    <3>3. /\ g[k + 1] \in Seq(1 .. n) /\ Len(g[k + 1]) = len + 1 /\ g[k + 1][len + 1] = k + 1
          /\ \A i \in 1 .. len : g[k + 1][i] = g[k][i]
      BY <1>5, <3>1, <3>2, AppendProperties
    <3>4. \A i \in 1 .. len : g[k][i] \in 1 .. n /\ g[k][i] \in S /\ g[k][i] <= k
      BY <1>5, <3>2, ElementOfSeq
    <3>a. \A i, j \in 1 .. len : i < j => g[k][i] < g[k][j]
      BY <1>5, <3>2
    <3>b. \A l \in 1 .. k : l \in S => \E i \in 1 .. len : g[k][i] = l
      BY <1>5, <3>2
    <3>5. \A i \in 1 .. len + 1 : g[k + 1][i] \in S /\ g[k + 1][i] <= k + 1
      <4>1. \A i \in 1 .. len + 1 : i = len + 1 \/ i \in 1 .. len
        BY <3>2
      <4> QED
        BY <2>3, <3>3, <3>4, <4>1
    <3>6. ASSUME NEW i \in 1 .. len + 1, NEW j \in 1 .. len + 1, i < j
          PROVE  g[k + 1][i] < g[k + 1][j]
      <4>1. i \in 1 .. len /\ g[k + 1][i] = g[k][i] /\ g[k][i] \in Int /\ g[k][i] <= k
        BY <3>3, <3>4, <3>6
      <4>2. CASE j = len + 1
        BY <3>3, <4>1, <4>2
      <4>3. CASE j # len + 1
        <5>1. j \in 1 .. len
          BY <4>3
        <5> QED
          BY <3>3, <3>6, <3>a, <4>1, <5>1
      <4> QED
        BY <4>2, <4>3
    <3>7. ASSUME NEW l \in 1 .. k + 1, l \in S
          PROVE  \E i \in 1 .. len + 1 : g[k + 1][i] = l
      <4>1. CASE l = k + 1
        <5>1. len + 1 \in 1 .. len + 1
          BY <3>2
        <5> QED
          BY <3>3, <4>1, <5>1
      <4>2. CASE l \in 1 .. k
        <5>1. PICK i \in 1 .. len : g[k][i] = l
          BY <3>7, <3>b, <4>2
        <5>2. i \in 1 .. len + 1
          OBVIOUS
        <5> QED
          BY <3>3, <5>1, <5>2
      <4> QED
        BY <4>1, <4>2
    <3> QED
      BY <3>3, <3>5, <3>6, <3>7
  <2> QED
    BY <2>2, <2>3
<1> DEFINE T == {k \in 0 .. n : Good(k)}
<1>6. 0 \in T /\ \A k \in 0 .. n - 1 : k \in T => k + 1 \in T
  <2> HIDE DEF Good
  <2>1. 0 \in 0 .. n /\ \A k \in 0 .. n - 1 : k + 1 \in 0 .. n
    OBVIOUS
  <2> QED
    BY <1>4, <1>5, <2>1
<1>7. Good(n)
  <2> HIDE DEF Good
  <2>1. n \in T
    <3> HIDE DEF T
    <3> QED
      BY <1>6, RangeInduction
  <2> QED
    BY <2>1
<1> QED
  BY <1>3, <1>7

(* Two items follow each other in the lists put end to end.                *)
Follows(lists, n, x, y) ==
  \/ \E k \in 1 .. n : \E m \in 1 .. Len(lists[k]) - 1 : x = lists[k][m] /\ y = lists[k][m + 1]
  \/ \E k \in 1 .. n - 1 : x = lists[k][Len(lists[k])] /\ y = lists[k + 1][1]

(* What lists that are not empty are put end to end.                       *)
EndToEnd(all, lists, n, R) ==
  /\ all \in Seq(R) /\ Len(all) >= 1
  /\ all[1] = lists[1][1] /\ all[Len(all)] = lists[n][Len(lists[n])]
  /\ \A k \in 1 .. n : \A m \in 1 .. Len(lists[k]) : \E j \in 1 .. Len(all) : all[j] = lists[k][m]
  /\ \A j \in 1 .. Len(all) - 1 : Follows(lists, n, all[j], all[j + 1])

LEMMA EndToEndGrows ==
  ASSUME NEW R, NEW lists, NEW n \in Nat \ {0}, NEW all, EndToEnd(all, lists, n, R),
         lists[n] \in Seq(R), lists[n + 1] \in Seq(R), Len(lists[n + 1]) >= 1
  PROVE  EndToEnd(all \o lists[n + 1], lists, n + 1, R)
<1> DEFINE t == lists[n + 1]
           both == all \o t
<1>1. all \in Seq(R) /\ Len(all) >= 1
  BY DEF EndToEnd
<1>2. PICK a \in Nat \ {0}, b \in Nat \ {0} : a = Len(all) /\ b = Len(t)
  BY <1>1, LenProperties
<1>3. /\ both \in Seq(R) /\ Len(both) = a + b
      /\ \A i \in 1 .. a : both[i] = all[i]
      /\ \A i \in 1 .. b : both[a + i] = t[i]
  BY <1>1, <1>2, ConcatIs
<1> HIDE DEF both
<1>4. both[1] = lists[1][1]
  BY <1>2, <1>3 DEF EndToEnd
<1>5. both[a + b] = t[b]
  <2>1. b \in 1 .. b
    BY <1>2
  <2> QED
    BY ONLY <1>3, <2>1
<1>6. ASSUME NEW k \in 1 .. n + 1, NEW m \in 1 .. Len(lists[k])
      PROVE  \E j \in 1 .. a + b : both[j] = lists[k][m]
  <2>1. CASE k = n + 1
    <3>1. m \in 1 .. b /\ a + m \in 1 .. a + b
      BY <1>2, <2>1
    <3> QED
      BY <1>3, <2>1, <3>1
  <2>2. CASE k # n + 1
    <3>1. k \in 1 .. n
      BY <2>2
    <3>2. PICK j \in 1 .. a : all[j] = lists[k][m]
      BY <1>2, <3>1 DEF EndToEnd
    <3>3. j \in 1 .. a + b
      OBVIOUS
    <3> QED
      BY <1>3, <3>2, <3>3
  <2> QED
    BY <2>1, <2>2
<1>7. ASSUME NEW j \in 1 .. a + b - 1
      PROVE  Follows(lists, n + 1, both[j], both[j + 1])
  <2>1. CASE j < a
    <3>1. j \in 1 .. a - 1 /\ j \in 1 .. a /\ j + 1 \in 1 .. a
      BY <2>1
    <3>2. Follows(lists, n, both[j], both[j + 1])
      BY <1>2, <1>3, <3>1 DEF EndToEnd
    <3>3. \A k \in 1 .. n : k \in 1 .. n + 1
      OBVIOUS
    <3>4. \A k \in 1 .. n - 1 : k \in 1 .. (n + 1) - 1
      OBVIOUS
    <3> QED
      BY <3>2, <3>3, <3>4 DEF Follows
  <2>2. CASE j = a
    <3>1. both[j] = lists[n][Len(lists[n])]
      <4>1. a \in 1 .. a
        OBVIOUS
      <4> QED
        BY <1>2, <1>3, <2>2, <4>1 DEF EndToEnd
    <3>2. both[j + 1] = lists[n + 1][1]
      <4>1. 1 \in 1 .. b
        OBVIOUS
      <4> QED
        BY <1>3, <2>2, <4>1
    <3>3. n \in 1 .. (n + 1) - 1
      OBVIOUS
    <3> QED
      BY <3>1, <3>2, <3>3 DEF Follows
  <2>3. CASE j > a
    <3>1. PICK m \in 1 .. b - 1 : j = a + m
      <4>1. j - a \in 1 .. b - 1 /\ j = a + (j - a)
        BY <2>3
      <4> QED
        BY <4>1
    <3>2. both[j] = t[m]
      <4>1. m \in 1 .. b
        OBVIOUS
      <4> QED
        BY <1>3, <3>1, <4>1
    <3>3. both[j + 1] = t[m + 1]
      <4>1. m + 1 \in 1 .. b /\ j + 1 = a + (m + 1)
        BY <3>1
      <4>2. both[a + (m + 1)] = t[m + 1]
        BY <1>3, <4>1
      <4> QED
        BY <4>1, <4>2
    <3>4. n + 1 \in 1 .. n + 1 /\ m \in 1 .. Len(lists[n + 1]) - 1
      BY <1>2
    <3> QED
      BY <3>2, <3>3, <3>4 DEF Follows
  <2> QED
    BY <2>1, <2>2, <2>3
<1>8. /\ both \in Seq(R) /\ Len(both) >= 1 /\ both[Len(both)] = lists[n + 1][Len(lists[n + 1])]
      /\ \A k \in 1 .. n + 1 : \A m \in 1 .. Len(lists[k]) : \E j \in 1 .. Len(both) : both[j] = lists[k][m]
      /\ \A j \in 1 .. Len(both) - 1 : Follows(lists, n + 1, both[j], both[j + 1])
  BY <1>2, <1>3, <1>5, <1>6, <1>7
<1>9. EndToEnd(both, lists, n + 1, R)
  BY <1>4, <1>8 DEF EndToEnd
<1> QED
  BY <1>9 DEF both

(* FlattenSeq puts lists end to end.                                       *)
LEMMA FlattenSeqIs ==
  ASSUME NEW R, NEW lists \in Seq(Seq(R)), Len(lists) >= 1,
         \A k \in 1 .. Len(lists) : Len(lists[k]) >= 1
  PROVE  EndToEnd(FlattenSeq(lists), lists, Len(lists), R)
<1> DEFINE n == Len(lists)
           V == Seq(R)
           Flat(f) == f = [i \in 1 .. n |-> IF i = 1 THEN lists[i] ELSE f[i - 1] \o lists[i]]
           step == [p \in (2 .. n) \X V |-> p[2] \o lists[p[1]]]
<1>1. n \in Nat /\ n >= 1 /\ \A k \in 1 .. n : lists[k] \in V
  BY LenProperties, ElementOfSeq
<1>2. \E f : Flat(f)
  <2>1. step \in [(2 .. n) \X V -> V]
    <3>1. \A k \in 2 .. n : lists[k] \in V
      BY <1>1
    <3>2. \A k \in 2 .. n, v \in V : v \o lists[k] \in V
      BY <3>1, ConcatProperties
    <3> HIDE DEF V, n
    <3> QED
      BY <3>2
  <2>2. \A k \in 2 .. n, v \in V : step[<<k, v>>] = v \o lists[k]
    OBVIOUS
  <2>3. 1 \in Nat /\ 2 \in Nat /\ 2 = 1 + 1 /\ lists[1] \in V
    BY <1>1
  <2> HIDE DEF V, step, n
  <2>4. PICK f : Recurs(f, V, 1, 2, n, lists[1], step)
    BY <1>1, <2>1, <2>3, Recursion
  <2>5. \A k \in 2 .. n : k - 1 \in 1 .. n /\ f[k - 1] \in V
    BY <1>1, <2>4 DEF Recurs
  <2>6. \A k \in 1 .. n : f[k] = IF k = 1 THEN lists[k] ELSE f[k - 1] \o lists[k]
    <3>1. \A k \in 1 .. n : k = 1 \/ k \in 2 .. n
      BY <1>1
    <3> QED
      BY <2>2, <2>4, <2>5, <3>1 DEF Recurs
  <2>7. Flat(f)
    BY <2>4, <2>6 DEF Recurs
  <2> QED
    BY <2>7
<1> DEFINE g == CHOOSE f : Flat(f)
<1>3. Flat(g)
  BY <1>2
<1>4. FlattenSeq(lists) = g[n]
  BY <1>1 DEF FlattenSeq
<1> HIDE DEF g
<1> DEFINE T == {k \in 1 .. n : EndToEnd(g[k], lists, k, R)}
<1>5. 1 \in T
  <2>1. g[1] = lists[1] /\ 1 \in 1 .. n /\ lists[1] \in Seq(R) /\ Len(lists[1]) >= 1
    BY <1>1, <1>3
  <2>2. Len(lists[1]) \in Nat
    BY <2>1, LenProperties
  <2>3. \A j \in 1 .. Len(lists[1]) - 1 : Follows(lists, 1, lists[1][j], lists[1][j + 1])
    <3>1. 1 \in 1 .. 1
      OBVIOUS
    <3> QED
      BY <3>1 DEF Follows
  <2>4. EndToEnd(lists[1], lists, 1, R)
    <3>1. \A k \in 1 .. 1 : k = 1
      OBVIOUS
    <3> QED
      BY <2>1, <2>2, <2>3, <3>1 DEF EndToEnd
  <2> QED
    BY <2>1, <2>4
<1>6. ASSUME NEW k \in 1 .. n - 1, k \in T PROVE k + 1 \in T
  <2>1. k \in Nat \ {0} /\ k \in 1 .. n /\ k + 1 \in 1 .. n /\ k + 1 # 1 /\ (k + 1) - 1 = k
    BY <1>1
  <2>2. g[k + 1] = g[k] \o lists[k + 1]
    BY <1>3, <2>1
  <2>3. lists[k] \in Seq(R) /\ lists[k + 1] \in Seq(R) /\ Len(lists[k + 1]) >= 1
    BY <1>1, <2>1
  <2>4. EndToEnd(g[k], lists, k, R)
    BY <1>6
  <2>5. EndToEnd(g[k] \o lists[k + 1], lists, k + 1, R)
    BY <2>1, <2>3, <2>4, EndToEndGrows
  <2> QED
    BY <2>1, <2>2, <2>5
<1>7. n \in T
  <2> HIDE DEF T, n
  <2>1. 1 \in Nat /\ n \in 1 .. n
    BY <1>1
  <2> QED
    BY <1>1, <1>5, <1>6, <2>1, RangeInduction
<1> QED
  BY <1>4, <1>7

(* A listing that has both ends of the range has them first and last.      *)
LEMMA InOrderEnds ==
  ASSUME NEW S, NEW n \in Nat, n >= 2, 1 \in S, n \in S
  PROVE  /\ Len(InOrder(S, n)) \in Nat /\ Len(InOrder(S, n)) >= 2
         /\ InOrder(S, n)[1] = 1 /\ InOrder(S, n)[Len(InOrder(S, n))] = n
<1> DEFINE list == InOrder(S, n)
<1>1. /\ list \in Seq(1 .. n)
      /\ \A i, j \in 1 .. Len(list) : i < j => list[i] < list[j]
      /\ \A k \in 1 .. n : k \in S => \E i \in 1 .. Len(list) : list[i] = k
  BY InOrderIs
<1>2. 1 \in 1 .. n /\ n \in 1 .. n
  OBVIOUS
<1> HIDE DEF list
<1>3. PICK len \in Nat : len = Len(list)
  BY <1>1, LenProperties
<1>4. \A i \in 1 .. len : list[i] \in 1 .. n
  BY <1>1, <1>3, ElementOfSeq
<1>5. PICK i \in 1 .. len, j \in 1 .. len : list[i] = 1 /\ list[j] = n
  BY <1>1, <1>2, <1>3
<1>6. i = 1
  <2> SUFFICES ASSUME i # 1 PROVE FALSE
    OBVIOUS
  <2>1. 1 \in 1 .. len /\ 1 < i
    OBVIOUS
  <2>2. list[1] < 1 /\ list[1] \in 1 .. n
    BY <1>1, <1>3, <1>4, <1>5, <2>1
  <2> QED
    BY <2>2
<1>7. j = len
  <2> SUFFICES ASSUME j # len PROVE FALSE
    OBVIOUS
  <2>1. len \in 1 .. len /\ j < len
    OBVIOUS
  <2>2. n < list[len] /\ list[len] \in 1 .. n
    BY <1>1, <1>3, <1>4, <1>5, <2>1
  <2> QED
    BY <2>2
<1>8. len >= 2
  BY <1>5, <1>6, <1>7
<1> QED
  BY <1>3, <1>5, <1>6, <1>7, <1>8 DEF list

(* Runs of points have two at least.                                       *)
PointRuns == {r \in Seq(Nat) : Len(r) >= 2}

(* What is picked of a run with both its ends is a run between them.       *)
LEMMA PickedIs ==
  ASSUME NEW run \in PointRuns, NEW S
  PROVE  LET picked == Picked(run, InOrder({1, Len(run)} \cup S, Len(run))) IN
         /\ picked \in PointRuns /\ picked[1] = run[1] /\ picked[Len(picked)] = run[Len(run)]
         /\ \A k \in 1 .. Len(run) : k \in S => \E i \in 1 .. Len(picked) : picked[i] = run[k]
<1> DEFINE U == {1, Len(run)} \cup S
           n == Len(run)
           list == InOrder(U, n)
           picked == Picked(run, list)
<1>1. n \in Nat /\ n >= 2 /\ \A i \in 1 .. n : run[i] \in Nat
  BY LenProperties, ElementOfSeq DEF PointRuns
<1>2. 1 \in U /\ n \in U
  OBVIOUS
<1> HIDE DEF U, n
<1>3. /\ list \in Seq(1 .. n) /\ Len(list) \in Nat /\ Len(list) >= 2
      /\ list[1] = 1 /\ list[Len(list)] = n
      /\ \A k \in 1 .. n : k \in U => \E i \in 1 .. Len(list) : list[i] = k
  BY <1>1, <1>2, InOrderIs, InOrderEnds
<1> HIDE DEF list
<1>4. PICK len \in Nat : len = Len(list) /\ len >= 2
  BY <1>3
<1>5. DOMAIN list = 1 .. len /\ \A i \in 1 .. len : list[i] \in 1 .. n
  BY <1>3, <1>4, LenProperties, ElementOfSeq
<1>6. picked = [i \in 1 .. len |-> run[list[i]]]
  BY <1>5 DEF Picked
<1> HIDE DEF picked
<1>7. \A i \in 1 .. len : picked[i] = run[list[i]] /\ picked[i] \in Nat
  BY <1>1, <1>5, <1>6
<1>8. picked \in Seq(Nat) /\ Len(picked) = len
  BY <1>6, <1>7
<1>9. 1 \in 1 .. len /\ len \in 1 .. len
  BY <1>4
<1>10. picked[1] = run[1] /\ picked[len] = run[n]
  BY <1>3, <1>4, <1>7, <1>9
<1>11. ASSUME NEW k \in 1 .. n, k \in S PROVE \E i \in 1 .. len : picked[i] = run[k]
  <2>1. k \in U
    BY <1>11 DEF U
  <2> QED
    BY <1>3, <1>4, <1>7, <2>1
<1> QED
  BY <1>4, <1>8, <1>10, <1>11 DEF PointRuns, U, n, list, picked

-----------------------------------------------------------------------------
(* Planning in sections.                                                   *)

(* Runs that meet end to end from one point to another, by way of others.  *)
Chain(runs, first, last, by) ==
  /\ runs \in Seq(PointRuns) /\ Len(runs) >= 1
  /\ runs[1][1] = first /\ runs[Len(runs)][Len(runs[Len(runs)])] = last
  /\ \A i \in 1 .. Len(runs) - 1 : runs[i][Len(runs[i])] = runs[i + 1][1]
  /\ \A p \in by : \E i \in 1 .. Len(runs) : \E m \in 1 .. Len(runs[i]) : runs[i][m] = p

(* A stretch of a list of points is a run between its ends.                *)
LEMMA Range2Is ==
  ASSUME NEW points \in Seq(Nat), NEW a \in 1 .. Len(points), NEW b \in 1 .. Len(points), a < b
  PROVE  LET run == Range2(points, a, b) IN
         run \in PointRuns /\ run[1] = points[a] /\ run[Len(run)] = points[b]
<1> DEFINE len == b - a + 1
           run == Range2(points, a, b)
<1>1. Len(points) \in Nat /\ \A i \in 1 .. Len(points) : points[i] \in Nat
  BY LenProperties, ElementOfSeq
<1>2. len \in Nat /\ len >= 2 /\ a + 1 - 1 = a /\ a + len - 1 = b
  BY <1>1
<1>3. \A k \in 1 .. len : a + k - 1 \in 1 .. Len(points)
  BY <1>1
<1>4. run = [k \in 1 .. len |-> points[a + k - 1]]
  BY DEF Range2
<1> HIDE DEF len, run
<1>5. \A k \in 1 .. len : run[k] = points[a + k - 1] /\ run[k] \in Nat
  BY <1>1, <1>3, <1>4
<1>6. run \in Seq(Nat) /\ Len(run) = len
  BY <1>2, <1>4, <1>5
<1>7. 1 \in 1 .. len /\ len \in 1 .. len
  BY <1>2
<1>8. run[1] = points[a] /\ run[len] = points[b]
  BY <1>2, <1>5, <1>7
<1> QED
  BY <1>2, <1>6, <1>8 DEF run, PointRuns

(* However a section is planned leg by leg, the legs are a chain that goes *)
(* by all that the operator placed.                                        *)
LEMMA LegByLegIs ==
  ASSUME NEW points \in PointRuns, NEW runs \in LegByLeg(points)
  PROVE  Chain(runs, points[1], points[Len(points)],
               {points[k] : k \in {j \in 1 .. Len(points) : placed[points[j]]}})
<1> DEFINE n == Len(points)
<1>1. points \in Seq(Nat) /\ n \in Nat /\ n >= 2
  BY LenProperties DEF PointRuns
<1>2. PICK dropped \in SUBSET {k \in 2 .. n : MayDrop(points, k)} :
        runs = LET ends == InOrder((1 .. n) \ dropped, n)
               IN  [i \in 1 .. Len(ends) - 1 |-> Range2(points, ends[i], ends[i + 1])]
  BY DEF LegByLeg
<1> DEFINE U == (1 .. n) \ dropped
           ends == InOrder(U, n)
<1>3. 1 \in U /\ n \in U /\ \A j \in 1 .. n : placed[points[j]] => j \in U
  BY <1>1 DEF MayDrop
<1> HIDE DEF U, n
<1>4. /\ ends \in Seq(1 .. n) /\ Len(ends) \in Nat /\ Len(ends) >= 2
      /\ \A i, j \in 1 .. Len(ends) : i < j => ends[i] < ends[j]
      /\ ends[1] = 1 /\ ends[Len(ends)] = n
      /\ \A k \in 1 .. n : k \in U => \E i \in 1 .. Len(ends) : ends[i] = k
  BY <1>1, <1>3, InOrderIs, InOrderEnds
<1>5. runs = [i \in 1 .. Len(ends) - 1 |-> Range2(points, ends[i], ends[i + 1])]
  BY <1>2 DEF U
<1> HIDE DEF ends
<1>6. PICK len \in Nat : len = Len(ends) - 1 /\ len >= 1 /\ Len(ends) = len + 1
  <2>1. Len(ends) - 1 \in Nat /\ Len(ends) - 1 >= 1 /\ Len(ends) = (Len(ends) - 1) + 1
    BY <1>4
  <2> QED
    BY <2>1
<1>7. \A i \in 1 .. len + 1 : ends[i] \in 1 .. n
  BY <1>4, <1>6, ElementOfSeq
<1>8. ASSUME NEW i \in 1 .. len
      PROVE  runs[i] \in PointRuns /\ runs[i][1] = points[ends[i]] /\ runs[i][Len(runs[i])] = points[ends[i + 1]]
  <2>1. i \in 1 .. len + 1 /\ i + 1 \in 1 .. len + 1 /\ i < i + 1
    <3>1. len \in Nat /\ i \in 1 .. len
      OBVIOUS
    <3> QED
      BY ONLY <3>1
  <2>2. ends[i] \in 1 .. n /\ ends[i + 1] \in 1 .. n
    BY ONLY <1>7, <2>1
  <2>4. ends[i] < ends[i + 1]
    BY ONLY <1>4, <1>6, <2>1
  <2>3. runs[i] = Range2(points, ends[i], ends[i + 1])
    BY <1>5, <1>6
  <2>5. ends[i] \in 1 .. Len(points) /\ ends[i + 1] \in 1 .. Len(points)
    BY ONLY <2>2 DEF n
  <2>6. points \in Seq(Nat)
    BY ONLY <1>1
  <2>7. LET run == Range2(points, ends[i], ends[i + 1]) IN
        run \in PointRuns /\ run[1] = points[ends[i]] /\ run[Len(run)] = points[ends[i + 1]]
    BY ONLY <2>4, <2>5, <2>6, Range2Is
  <2> QED
    BY ONLY <2>3, <2>7
<1>9. runs \in Seq(PointRuns) /\ Len(runs) = len
  BY <1>5, <1>6, <1>8
<1>10. runs[1][1] = points[1] /\ runs[len][Len(runs[len])] = points[n]
  <2>1. 1 \in 1 .. len /\ len \in 1 .. len
    BY <1>6
  <2> QED
    BY <1>4, <1>6, <1>8, <2>1
<1>11. \A i \in 1 .. len - 1 : runs[i][Len(runs[i])] = runs[i + 1][1]
  <2>1. \A i \in 1 .. len - 1 : i \in 1 .. len /\ i + 1 \in 1 .. len
    BY <1>6
  <2> QED
    BY <1>8, <2>1
<1>12. ASSUME NEW j \in 1 .. n, placed[points[j]]
       PROVE  \E i \in 1 .. len : \E m \in 1 .. Len(runs[i]) : runs[i][m] = points[j]
  <2>1. PICK i \in 1 .. len + 1 : ends[i] = j
    BY <1>3, <1>4, <1>6, <1>12
  <2>2. ASSUME NEW r \in PointRuns PROVE 1 \in 1 .. Len(r) /\ Len(r) \in 1 .. Len(r)
    BY LenProperties DEF PointRuns
  <2>3. CASE i \in 1 .. len
    BY <1>8, <2>1, <2>2, <2>3
  <2>4. CASE i = len + 1
    <3>1. len \in 1 .. len
      BY <1>6
    <3> QED
      BY <1>8, <2>1, <2>2, <2>4, <3>1
  <2> QED
    BY <2>3, <2>4
<1> DEFINE by == {points[k] : k \in {j \in 1 .. n : placed[points[j]]}}
<1>13. \A p \in by : \E i \in 1 .. len : \E m \in 1 .. Len(runs[i]) : runs[i][m] = p
  BY <1>12
<1> HIDE DEF by
<1>14. Chain(runs, points[1], points[n], by)
  BY <1>6, <1>9, <1>10, <1>11, <1>13 DEF Chain
<1> QED
  BY <1>14 DEF n, by

(* The requested points, and the sections they are grouped in, from the    *)
(* first on.                                                               *)
SectionsMeet ==
  /\ placed \in Seq(BOOLEAN) /\ Len(placed) >= 2
  /\ sections \in Seq(Nat \X Nat)
  /\ \A k \in 1 .. Len(sections) :
       1 <= sections[k][1] /\ sections[k][1] < sections[k][2] /\ sections[k][2] <= Len(placed)
  /\ Len(sections) >= 1 => sections[1][1] = 1
  /\ \A k \in 1 .. Len(sections) - 1 : sections[k][2] = sections[k + 1][1]
  /\ stage = "anchor" => sections = <<>>

(* What is planned of a section is a chain that goes by all that the       *)
(* operator placed in it.                                                  *)
PartsChain ==
  stage = "plan" =>
    /\ Len(sections) >= 1 /\ sections[Len(sections)][2] = Len(placed)
    /\ parts \in [1 .. Len(sections) -> {Unplanned} \cup Seq(PointRuns)]
    /\ \A k \in 1 .. Len(sections) :
         parts[k] \notin {Unplanned, Failed} =>
           Chain(parts[k], sections[k][1], sections[k][2],
                 {p \in sections[k][1] .. sections[k][2] : placed[p]})

(* A stretch is within a route, which is what it was there.                *)
StretchRecords == [from : Nat \ {0}, to : Nat, was : Seq(Nat)]

Stands(r, s) ==
  /\ s \in StretchRecords
  /\ s.from < s.to /\ s.to <= Len(r) /\ s.to - s.from <= Len(s.was)
  /\ \A i \in 1 .. s.to - s.from : r[s.from + i - 1] = s.was[i]

(* The stretches to visit stand, in order, and no two share more than one  *)
(* leg.                                                                    *)
StretchesStand ==
  /\ route \in Seq(Nat)
  /\ stage \in {"straighten", "refine", "repair"} => Len(route) >= 2
  /\ pending \in Seq(StretchRecords)
  /\ \A k \in 1 .. Len(pending) : Stands(route, pending[k])
  /\ \A k, l \in 1 .. Len(pending) : k < l => pending[k].to - 1 <= pending[l].from

(* While the last check found nothing there is nothing to repair, and the  *)
(* route is the one it looked at.                                          *)
ClearIsUntouched ==
  /\ repair \in [passes : Nat, fixed : BOOLEAN, remaining : Nat, seen : Seq(Nat)]
  /\ stage \in {"repair", "answered"} /\ repair.remaining = 0 => pending = <<>> /\ repair.seen = route

PlanInv == SectionsMeet /\ PartsChain /\ StretchesStand /\ ClearIsUntouched

-----------------------------------------------------------------------------
(* The sections reach every point.                                         *)
LEMMA SectionsCover ==
  ASSUME SectionsMeet, Len(sections) >= 1, sections[Len(sections)][2] = Len(placed),
         NEW p \in 1 .. Len(placed)
  PROVE  \E k \in 1 .. Len(sections) : p \in sections[k][1] .. sections[k][2]
<1> DEFINE n == Len(sections)
           T == {k \in 1 .. n : \A q \in 1 .. sections[k][2] :
                                  \E j \in 1 .. k : q \in sections[j][1] .. sections[j][2]}
<1>1. n \in Nat /\ n >= 1 /\ Len(placed) \in Nat
  BY LenProperties DEF SectionsMeet
<1>2. \A k \in 1 .. n : sections[k] \in Nat \X Nat
  BY ElementOfSeq DEF SectionsMeet
<1>3. \A k \in 1 .. n : sections[k][1] \in Nat /\ sections[k][2] \in Nat
  BY <1>2
<1> HIDE DEF n
<1>4. 1 \in T
  <2>1. 1 \in 1 .. n /\ sections[1][1] = 1 /\ 1 \in 1 .. 1
    BY <1>1 DEF SectionsMeet, n
  <2> QED
    BY <1>3, <2>1
<1>5. ASSUME NEW k \in 1 .. n - 1, k \in T PROVE k + 1 \in T
  <2>1. k \in 1 .. n /\ k + 1 \in 1 .. n
    BY <1>1
  <2>2. sections[k][2] = sections[k + 1][1]
    BY DEF SectionsMeet, n
  <2>3. ASSUME NEW q \in 1 .. sections[k + 1][2]
        PROVE  \E j \in 1 .. k + 1 : q \in sections[j][1] .. sections[j][2]
    <3>1. CASE q <= sections[k][2]
      <4>1. q \in 1 .. sections[k][2]
        BY <1>3, <2>1, <3>1
      <4>2. PICK j \in 1 .. k : q \in sections[j][1] .. sections[j][2]
        BY <1>5, <4>1
      <4>3. j \in 1 .. k + 1
        OBVIOUS
      <4> QED
        BY <4>2, <4>3
    <3>2. CASE ~(q <= sections[k][2])
      <4>1. q \in sections[k + 1][1] .. sections[k + 1][2]
        BY <1>3, <2>1, <2>2, <3>2
      <4>2. k + 1 \in 1 .. k + 1
        OBVIOUS
      <4> QED
        BY <4>1, <4>2
    <3> QED
      BY <3>1, <3>2
  <2> QED
    BY <2>1, <2>3
<1>6. n \in T
  <2> HIDE DEF T
  <2>1. 1 \in Nat /\ n \in 1 .. n
    BY <1>1
  <2> QED
    BY <1>1, <1>4, <1>5, <2>1, RangeInduction
<1> QED
  BY <1>6 DEF n

(* Sections that are planned make one chain through every point placed.    *)
LEMMA PlannedIsChain ==
  ASSUME PlanInv, AllPlanned, \A k \in DOMAIN parts : parts[k] # Failed
  PROVE  Chain(FlattenSeq(parts), 1, Len(placed), {p \in 1 .. Len(placed) : placed[p]})
<1> DEFINE n == Len(sections)
           runs == FlattenSeq(parts)
<1>1. stage = "plan" /\ SectionsMeet
  BY DEF AllPlanned, PlanInv
<1>2. n \in Nat /\ n >= 1 /\ sections[n][2] = Len(placed) /\ sections[1][1] = 1
  BY <1>1, LenProperties DEF PlanInv, SectionsMeet, PartsChain
<1>3. parts \in [1 .. n -> {Unplanned} \cup Seq(PointRuns)]
  BY <1>1 DEF PlanInv, PartsChain
<1>4. \A k \in 1 .. n : Chain(parts[k], sections[k][1], sections[k][2],
                              {p \in sections[k][1] .. sections[k][2] : placed[p]})
  BY <1>1, <1>3 DEF PlanInv, PartsChain, AllPlanned
<1> HIDE DEF n
<1>5. \A k \in 1 .. n : parts[k] \in Seq(PointRuns) /\ Len(parts[k]) \in Nat /\ Len(parts[k]) >= 1
  BY <1>4, LenProperties DEF Chain
<1>6. parts \in Seq(Seq(PointRuns)) /\ Len(parts) = n
  <2>1. parts \in [1 .. n -> Seq(PointRuns)]
    BY <1>3, <1>5
  <2> QED
    BY <1>2, <2>1, SeqDef, LenProperties
<1>7. EndToEnd(runs, parts, n, PointRuns)
  BY <1>2, <1>5, <1>6, FlattenSeqIs
<1> HIDE DEF runs
<1>8. 1 \in 1 .. n /\ n \in 1 .. n
  BY <1>2
<1>9. runs[1][1] = 1
  BY <1>2, <1>4, <1>7, <1>8 DEF EndToEnd, Chain
<1>10. runs[Len(runs)][Len(runs[Len(runs)])] = Len(placed)
  <2>1. runs[Len(runs)] = parts[n][Len(parts[n])]
    BY <1>7 DEF EndToEnd
  <2> QED
    BY <1>2, <1>4, <1>8, <2>1 DEF Chain
<1>11. ASSUME NEW i \in 1 .. Len(runs) - 1
       PROVE  runs[i][Len(runs[i])] = runs[i + 1][1]
  <2>1. Follows(parts, n, runs[i], runs[i + 1])
    BY <1>7 DEF EndToEnd
  <2>2. CASE \E k \in 1 .. n : \E m \in 1 .. Len(parts[k]) - 1 :
               runs[i] = parts[k][m] /\ runs[i + 1] = parts[k][m + 1]
    BY <1>4, <2>2 DEF Chain
  <2>3. CASE \E k \in 1 .. n - 1 :
               runs[i] = parts[k][Len(parts[k])] /\ runs[i + 1] = parts[k + 1][1]
    <3>1. PICK k \in 1 .. n - 1 : runs[i] = parts[k][Len(parts[k])] /\ runs[i + 1] = parts[k + 1][1]
      BY <2>3
    <3>2. k \in 1 .. n /\ k + 1 \in 1 .. n
      BY <1>2
    <3>3. parts[k][Len(parts[k])][Len(parts[k][Len(parts[k])])] = sections[k][2]
          /\ parts[k + 1][1][1] = sections[k + 1][1]
      BY <1>4, <3>2 DEF Chain
    <3>4. sections[k][2] = sections[k + 1][1]
      BY <1>1 DEF SectionsMeet, n
    <3> QED
      BY <3>1, <3>3, <3>4
  <2> QED
    BY <2>1, <2>2, <2>3 DEF Follows
<1>12. ASSUME NEW p \in 1 .. Len(placed), placed[p]
       PROVE  \E i \in 1 .. Len(runs) : \E m \in 1 .. Len(runs[i]) : runs[i][m] = p
  <2>1. PICK k \in 1 .. n : p \in sections[k][1] .. sections[k][2]
    BY <1>1, <1>2, SectionsCover DEF n
  <2>2. PICK i \in 1 .. Len(parts[k]) : \E m \in 1 .. Len(parts[k][i]) : parts[k][i][m] = p
    BY <1>4, <1>12, <2>1 DEF Chain
  <2>3. PICK j \in 1 .. Len(runs) : runs[j] = parts[k][i]
    BY <1>7, <2>1, <2>2 DEF EndToEnd
  <2> QED
    BY <2>2, <2>3
<1> QED
  BY <1>7, <1>9, <1>10, <1>11, <1>12 DEF Chain, EndToEnd, runs

(* So the invariant says what is asked of the sections.                    *)
LEMMA PlannedFollows == PlanInv => PlannedThroughEveryPoint
<1> SUFFICES ASSUME PlanInv, AllPlanned, \A k \in DOMAIN parts : parts[k] # Failed
             PROVE  LET runs == FlattenSeq(parts) IN
                    /\ runs[1][1] = 1 /\ Last(Last(runs)) = NumPoints
                    /\ \A i \in 1 .. Len(runs) - 1 : Last(runs[i]) = runs[i + 1][1]
                    /\ \A p \in Points : placed[p] => \E i \in DOMAIN runs : p \in ToSet(runs[i])
  BY DEF PlannedThroughEveryPoint
<1> DEFINE runs == FlattenSeq(parts)
<1>1. Chain(runs, 1, Len(placed), {p \in 1 .. Len(placed) : placed[p]})
  BY PlannedIsChain
<1>2. DOMAIN placed = 1 .. Len(placed)
  BY LenProperties DEF PlanInv, SectionsMeet
<1> HIDE DEF runs
<1>3. DOMAIN runs = 1 .. Len(runs) /\ \A i \in 1 .. Len(runs) : runs[i] \in Seq(Nat)
  BY <1>1, LenProperties, ElementOfSeq DEF Chain, PointRuns
<1>4. \A i \in 1 .. Len(runs) : ToSet(runs[i]) = {runs[i][m] : m \in 1 .. Len(runs[i])}
  BY <1>3, LenProperties DEF ToSet
<1>5. ASSUME NEW p \in Points, placed[p] PROVE \E i \in DOMAIN runs : p \in ToSet(runs[i])
  <2>1. p \in {q \in 1 .. Len(placed) : placed[q]}
    BY <1>2, <1>5 DEF Points
  <2>2. PICK i \in 1 .. Len(runs) : \E m \in 1 .. Len(runs[i]) : runs[i][m] = p
    BY <1>1, <2>1 DEF Chain
  <2> QED
    BY <1>3, <1>4, <2>2
<1> QED
  BY <1>1, <1>5 DEF Chain, Last, NumPoints, runs

-----------------------------------------------------------------------------
(* The stretches of the route.                                             *)

(* What a part of a list has.                                              *)
LEMMA PartIs ==
  ASSUME NEW R, NEW s \in Seq(R), NEW a \in Nat \ {0}, NEW b \in Nat, b <= Len(s), a <= b + 1
  PROVE  /\ SubSeq(s, a, b) \in Seq(R) /\ Len(SubSeq(s, a, b)) = b - a + 1
         /\ \A i \in 1 .. b - a + 1 : SubSeq(s, a, b)[i] = s[a + i - 1]
<1>1. Len(s) \in Nat /\ \A i \in 1 .. Len(s) : s[i] \in R
  BY LenProperties, ElementOfSeq
<1>2. \A i \in a .. b : i \in 1 .. Len(s)
  BY <1>1
<1>3. \A i \in a .. b : s[i] \in R
  BY <1>1, <1>2
<1>4. (IF a <= b THEN b - a + 1 ELSE 0) = b - a + 1
  OBVIOUS
<1> QED
  BY <1>3, <1>4, SubSeqProperties

(* Stretches that stand are where they were found.                         *)
LEMMA StandingHit == StretchesStand => SplicesHitTheirStretch
<1> SUFFICES ASSUME StretchesStand, NEW k \in DOMAIN pending
             PROVE  /\ pending[k].to <= Len(route)
                    /\ SubSeq(route, pending[k].from, pending[k].to - 1)
                         = SubSeq(pending[k].was, 1, pending[k].to - pending[k].from)
  BY DEF SplicesHitTheirStretch
<1>1. k \in 1 .. Len(pending)
  BY LenProperties DEF StretchesStand
<1>2. /\ pending[k].from \in Nat \ {0} /\ pending[k].to \in Nat /\ pending[k].was \in Seq(Nat)
      /\ route \in Seq(Nat)
  <2>1. pending[k] \in [from : Nat \ {0}, to : Nat, was : Seq(Nat)]
    BY <1>1, ElementOfSeq DEF StretchesStand, StretchRecords
  <2> QED
    BY <2>1 DEF StretchesStand
<1>3. PICK from \in Nat \ {0}, to \in Nat : from = pending[k].from /\ to = pending[k].to
  BY <1>2
<1>4. PICK len \in Nat : len = to - from /\ from < to /\ to <= Len(route) /\ len <= Len(pending[k].was)
  <2>1. from < to /\ to <= Len(route) /\ to - from <= Len(pending[k].was)
    BY <1>1, <1>3 DEF StretchesStand, Stands
  <2>2. from \in Nat /\ to \in Nat
    OBVIOUS
  <2>3. to - from \in Nat
    BY ONLY <2>1, <2>2
  <2> QED
    BY <2>1, <2>3
<1>5. \A i \in 1 .. len : route[from + i - 1] = pending[k].was[i]
  BY <1>1, <1>3, <1>4 DEF StretchesStand, Stands
<1> DEFINE now == SubSeq(route, from, to - 1)
           then == SubSeq(pending[k].was, 1, len)
<1>6. Len(route) \in Nat /\ Len(pending[k].was) \in Nat
  BY <1>2, LenProperties
<1>7. to - 1 \in Nat /\ to - 1 <= Len(route) /\ from <= (to - 1) + 1 /\ (to - 1) - from + 1 = len
  BY <1>4, <1>6
<1>8. now \in Seq(Nat) /\ Len(now) = len /\ \A i \in 1 .. len : now[i] = route[from + i - 1]
  BY <1>2, <1>7, PartIs
<1>9. 1 <= len + 1 /\ len - 1 + 1 = len /\ 1 \in Nat \ {0}
  OBVIOUS
<1>10. then \in Seq(Nat) /\ Len(then) = len /\ \A i \in 1 .. len : then[i] = pending[k].was[i]
  <2>1. /\ then \in Seq(Nat) /\ Len(then) = len - 1 + 1
        /\ \A i \in 1 .. len - 1 + 1 : then[i] = pending[k].was[1 + i - 1]
    BY <1>2, <1>4, <1>9, PartIs
  <2>2. \A i \in 1 .. len : 1 + i - 1 = i
    OBVIOUS
  <2> QED
    BY <1>9, <2>1, <2>2
<1> HIDE DEF now, then
<1>11. now = then
  BY <1>5, <1>8, <1>10, SeqEqual
<1> QED
  BY <1>3, <1>4, <1>11 DEF now, then

(* A list that is as the route is up to some place, and goes on.           *)
SameUpTo(r, from) ==
  r \in Seq(Nat) /\ from + 1 <= Len(r) /\ \A i \in 1 .. from : r[i] = route[i]

(* A splice leaves the route alone before it, up to the start of what it   *)
(* replaces.                                                               *)
LEMMA SpliceIs ==
  ASSUME route \in Seq(Nat), NEW from \in Nat \ {0}, NEW to \in Nat, from < to, to <= Len(route),
         NEW with \in Replan(route[from], route[to])
  PROVE  SameUpTo(Splice(from, to, with), from)
<1> DEFINE before == SubSeq(route, 1, from - 1)
           after == SubSeq(route, to + 1, Len(route))
           both == before \o with
<1>1. Len(route) \in Nat /\ \A i \in 1 .. Len(route) : route[i] \in Nat
  BY LenProperties, ElementOfSeq
<1>2. /\ from - 1 \in Nat /\ from - 1 <= Len(route) /\ 1 <= (from - 1) + 1 /\ (from - 1) - 1 + 1 = from - 1
      /\ to + 1 \in Nat \ {0} /\ to + 1 <= Len(route) + 1
      /\ from \in 1 .. Len(route) /\ to \in 1 .. Len(route)
  BY <1>1
<1>3. before \in Seq(Nat) /\ Len(before) = from - 1 /\ \A i \in 1 .. from - 1 : before[i] = route[i]
  <2>1. /\ before \in Seq(Nat) /\ Len(before) = (from - 1) - 1 + 1
        /\ \A i \in 1 .. (from - 1) - 1 + 1 : before[i] = route[1 + i - 1]
    BY <1>2, PartIs
  <2>2. \A i \in 1 .. from - 1 : 1 + i - 1 = i
    OBVIOUS
  <2> QED
    BY <1>2, <2>1, <2>2
<1>4. after \in Seq(Nat) /\ Len(after) \in Nat
  BY <1>1, <1>2, PartIs, LenProperties
<1>5. with \in Seq(Nat) /\ Len(with) \in Nat /\ Len(with) >= 2 /\ with[1] = route[from]
  <2>1. PICK a \in Nat, b \in Nat : a = route[from] /\ b = route[to]
    BY <1>1, <1>2
  <2>2. with = <<a, b>> \/ with = <<a, 0, b>>
    BY <2>1 DEF Replan
  <2>3. CASE with = <<a, b>>
    BY <2>1, <2>3
  <2>4. CASE with = <<a, 0, b>>
    BY <2>1, <2>4
  <2> QED
    BY <2>2, <2>3, <2>4
<1> HIDE DEF before, after
<1>6. /\ both \in Seq(Nat) /\ Len(both) = (from - 1) + Len(with)
      /\ \A i \in 1 .. from - 1 : both[i] = before[i]
      /\ both[(from - 1) + 1] = with[1]
  <2>1. 1 \in 1 .. Len(with)
    BY <1>5
  <2>2. /\ both \in Seq(Nat) /\ Len(both) = Len(before) + Len(with)
        /\ \A i \in 1 .. Len(before) : both[i] = before[i]
        /\ \A i \in 1 .. Len(with) : both[Len(before) + i] = with[i]
    <3> HIDE DEF both
    <3>1. before \in Seq(Nat) /\ with \in Seq(Nat)
      BY <1>3, <1>5
    <3> QED
      BY <3>1, ConcatIs DEF both
  <2> HIDE DEF both
  <2> QED
    BY <1>3, <2>1, <2>2
<1>7. \A i \in 1 .. from : both[i] = route[i]
  <2>1. \A i \in 1 .. from : i = from \/ i \in 1 .. from - 1
    OBVIOUS
  <2>2. both[from] = route[from]
    <3>1. (from - 1) + 1 = from
      OBVIOUS
    <3> QED
      BY <1>5, <1>6, <3>1
  <2> QED
    BY <1>3, <1>6, <2>1, <2>2
<1> HIDE DEF both
<1>8. /\ both \o after \in Seq(Nat) /\ Len(both \o after) = Len(both) + Len(after)
      /\ \A i \in 1 .. Len(both) : (both \o after)[i] = both[i]
  <2>1. both \in Seq(Nat) /\ after \in Seq(Nat)
    BY <1>4, <1>6
  <2> QED
    BY <2>1, ConcatIs
<1>9. Len(both) \in Nat /\ from + 1 <= Len(both) /\ \A i \in 1 .. from : i \in 1 .. Len(both)
  <2>1. PICK w \in Nat : w = Len(with) /\ w >= 2
    BY <1>5
  <2>2. Len(both) = (from - 1) + w
    BY <1>6, <2>1
  <2> QED
    BY <2>1, <2>2
<1>10. from + 1 <= Len(both \o after) /\ \A i \in 1 .. from : (both \o after)[i] = route[i]
  <2>1. \A i \in 1 .. from : (both \o after)[i] = route[i]
    BY ONLY <1>7, <1>8, <1>9
  <2>2. Len(after) \in Nat
    BY <1>4, LenProperties
  <2>3. from + 1 <= Len(both) + Len(after)
    BY <1>9, <2>2
  <2> QED
    BY <1>8, <2>1, <2>3
<1>11. Splice(from, to, with) = both \o after
  BY DEF Splice, both, before, after
<1>12. SameUpTo(both \o after, from)
  BY <1>8, <1>10 DEF SameUpTo
<1> QED
  BY <1>11, <1>12

(* What is stitched of runs is a route, with the joins inside it in order. *)
JoinsInside(res) ==
  /\ res.waypoints \in Seq(Nat) /\ res.joins \in Seq(Nat)
  /\ 2 <= Len(res.waypoints)
  /\ \A k \in 1 .. Len(res.joins) : 2 <= res.joins[k] /\ res.joins[k] + 1 <= Len(res.waypoints)
  /\ \A k, l \in 1 .. Len(res.joins) : k < l => res.joins[k] < res.joins[l]

LEMMA StitchedIs ==
  ASSUME NEW runs \in Seq(PointRuns), Len(runs) >= 1
  PROVE  JoinsInside(Stitched(runs))
<1> DEFINE n == Len(runs)
           V == [waypoints : Seq(Nat), joins : Seq(Nat)]
           Longer(v, run) == [waypoints |-> v.waypoints \o Tail(run), joins |-> Append(v.joins, Len(v.waypoints))]
           first == [waypoints |-> runs[1], joins |-> <<>>]
           Sewn(f) == f = [i \in 1 .. n |-> IF i = 1 THEN first ELSE Longer(f[i - 1], runs[i])]
           step == [p \in (2 .. n) \X V |-> Longer(p[2], runs[p[1]])]
<1>1. n \in Nat /\ n >= 1 /\ \A k \in 1 .. n : runs[k] \in PointRuns
  BY LenProperties, ElementOfSeq
<1>2. ASSUME NEW run \in PointRuns
      PROVE  /\ run \in Seq(Nat) /\ Len(run) \in Nat /\ Len(run) >= 2
             /\ Tail(run) \in Seq(Nat) /\ Len(Tail(run)) = Len(run) - 1
  <2>1. run \in Seq(Nat) /\ Len(run) \in Nat /\ Len(run) >= 2
    BY LenProperties DEF PointRuns
  <2>2. run # <<>>
    BY <2>1, EmptySeq
  <2> QED
    BY <2>1, <2>2, HeadTailProperties
<1>3. ASSUME NEW v \in V, NEW run \in PointRuns
      PROVE  /\ Longer(v, run) \in V
             /\ Longer(v, run).waypoints = v.waypoints \o Tail(run)
             /\ Longer(v, run).joins = Append(v.joins, Len(v.waypoints))
  <2>1. v.waypoints \in Seq(Nat) /\ v.joins \in Seq(Nat) /\ Len(v.waypoints) \in Nat
    BY LenProperties
  <2>2. v.waypoints \o Tail(run) \in Seq(Nat) /\ Append(v.joins, Len(v.waypoints)) \in Seq(Nat)
    BY <1>2, <2>1, ConcatProperties, AppendProperties
  <2> QED
    BY <2>2
<1>4. first \in V
  <2>1. runs[1] \in Seq(Nat) /\ <<>> \in Seq(Nat)
    BY <1>1, <1>2, EmptySeq
  <2> QED
    BY <2>1
<1>5. \E f : Sewn(f)
  <2>1. step \in [(2 .. n) \X V -> V] /\ \A k \in 2 .. n, v \in V : step[<<k, v>>] = Longer(v, runs[k])
    <3>1. \A k \in 2 .. n : k \in 1 .. n
      OBVIOUS
    <3>2. \A k \in 2 .. n, v \in V : Longer(v, runs[k]) \in V
      BY <1>1, <1>3, <3>1
    <3> HIDE DEF V, n, Longer
    <3> QED
      BY <3>2
  <2>2. 1 \in Nat /\ 2 \in Nat /\ 2 = 1 + 1
    OBVIOUS
  <2> HIDE DEF V, n, Longer, first, step
  <2>3. PICK f : Recurs(f, V, 1, 2, n, first, step)
    BY <1>1, <1>4, <2>1, <2>2, Recursion
  <2>4. \A k \in 2 .. n : k - 1 \in 1 .. n /\ f[k - 1] \in V
    BY <1>1, <2>3 DEF Recurs
  <2>5. \A k \in 1 .. n : f[k] = IF k = 1 THEN first ELSE Longer(f[k - 1], runs[k])
    <3>1. \A k \in 1 .. n : k = 1 \/ k \in 2 .. n
      BY <1>1
    <3> QED
      BY <2>1, <2>3, <2>4, <3>1 DEF Recurs
  <2>6. Sewn(f)
    BY <2>3, <2>5 DEF Recurs
  <2> QED
    BY <2>6
<1> DEFINE g == CHOOSE f : Sewn(f)
<1>6. Sewn(g)
  BY <1>5
<1>7. Stitched(runs) = g[n]
  BY DEF Stitched
<1> HIDE DEF g
<1> DEFINE T == {k \in 1 .. n : g[k] \in V /\ JoinsInside(g[k])}
<1>8. 1 \in T
  <2>1. 1 \in 1 .. n /\ g[1] = first
    BY <1>1, <1>6
  <2>2. runs[1] \in Seq(Nat) /\ Len(runs[1]) >= 2 /\ <<>> \in Seq(Nat) /\ Len(<<>>) = 0
    BY <1>1, <1>2, EmptySeq
  <2>3. JoinsInside(first)
    BY <2>2 DEF JoinsInside
  <2> QED
    BY <1>4, <2>1, <2>3
<1>9. ASSUME NEW k \in 1 .. n - 1, k \in T PROVE k + 1 \in T
  <2>1. k \in 1 .. n /\ k + 1 \in 1 .. n /\ k + 1 # 1 /\ (k + 1) - 1 = k
    BY <1>1
  <2>2. g[k + 1] = Longer(g[k], runs[k + 1])
    BY <1>6, <2>1
  <2>3. PICK v, w, run : v = g[k] /\ w = g[k + 1] /\ run = runs[k + 1]
    OBVIOUS
  <2>4. v \in V /\ JoinsInside(v) /\ run \in PointRuns
    BY <1>1, <1>9, <2>1, <2>3
  <2>5. w \in V /\ w.waypoints = v.waypoints \o Tail(run) /\ w.joins = Append(v.joins, Len(v.waypoints))
    <3>1. w = Longer(v, run)
      BY <2>2, <2>3
    <3> QED
      BY <1>3, <2>4, <3>1
  <2>6. PICK a \in Nat, b \in Nat, m \in Nat :
          a = Len(v.waypoints) /\ b = Len(w.waypoints) /\ m = Len(v.joins) /\ a < b /\ 2 <= a
    <3>1. v.waypoints \in Seq(Nat) /\ v.joins \in Seq(Nat)
      BY <2>4
    <3>2. Len(w.waypoints) = Len(v.waypoints) + Len(Tail(run))
      BY <1>2, <2>4, <2>5, <3>1, ConcatProperties
    <3>3. Len(v.waypoints) \in Nat /\ Len(v.joins) \in Nat /\ 2 <= Len(v.waypoints)
      BY <2>4, <3>1, LenProperties DEF JoinsInside
    <3> QED
      BY <1>2, <2>4, <3>2, <3>3
  <2>7. /\ w.joins \in Seq(Nat) /\ Len(w.joins) = m + 1 /\ w.joins[m + 1] = a
        /\ \A i \in 1 .. m : w.joins[i] = v.joins[i]
    BY <2>4, <2>5, <2>6, AppendProperties
  <2>8. \A i \in 1 .. m : v.joins[i] \in Nat /\ 2 <= v.joins[i] /\ v.joins[i] + 1 <= a
    BY <2>4, <2>6, ElementOfSeq DEF JoinsInside
  <2>9. \A i \in 1 .. m + 1 : i = m + 1 \/ i \in 1 .. m
    OBVIOUS
  <2>10. \A i \in 1 .. m + 1 : 2 <= w.joins[i] /\ w.joins[i] + 1 <= b
    <3>1. 2 <= a /\ a + 1 <= b
      BY <2>6
    <3>2. \A x \in Nat : x + 1 <= a => x + 1 <= b
      BY <2>6
    <3>3. \A i \in 1 .. m : 2 <= v.joins[i] /\ v.joins[i] + 1 <= b
      BY <2>8, <3>2
    <3> QED
      BY <2>7, <2>9, <3>1, <3>3
  <2>11. ASSUME NEW i \in 1 .. m + 1, NEW j \in 1 .. m + 1, i < j
         PROVE  w.joins[i] < w.joins[j]
    <3>1. i \in 1 .. m
      BY <2>11
    <3>2. CASE j = m + 1
      <4>1. \A x \in Nat : x + 1 <= a => x < a
        OBVIOUS
      <4>2. v.joins[i] < a
        BY <2>8, <3>1, <4>1
      <4> QED
        BY <2>7, <3>1, <3>2, <4>2
    <3>3. CASE j \in 1 .. m
      <4>1. v.joins[i] < v.joins[j]
        BY <2>4, <2>6, <2>11, <3>1, <3>3 DEF JoinsInside
      <4> QED
        BY <2>7, <3>1, <3>3, <4>1
    <3> QED
      BY <2>9, <3>2, <3>3
  <2>12. JoinsInside(w)
    <3>1. w \in [waypoints : Seq(Nat), joins : Seq(Nat)]
      BY <2>5
    <3>2. w.waypoints \in Seq(Nat) /\ 2 <= b
      <4>1. w.waypoints \in Seq(Nat)
        BY ONLY <3>1
      <4> QED
        BY <2>6, <4>1
    <3> QED
      BY <2>6, <2>7, <2>10, <2>11, <3>2 DEF JoinsInside
  <2> QED
    BY <2>1, <2>3, <2>5, <2>12
<1>10. n \in T
  <2> HIDE DEF T, n
  <2>1. 1 \in Nat /\ n \in 1 .. n
    BY <1>1
  <2> QED
    BY <1>1, <1>8, <1>9, <2>1, RangeInduction
<1> QED
  BY <1>7, <1>10

-----------------------------------------------------------------------------
(* The steps of the sections.                                              *)

(* A run from one point to another, by way of some.                        *)
RunBy(run, a, b, by) ==
  /\ run \in PointRuns /\ run[1] = a /\ run[Len(run)] = b
  /\ \A p \in by : \E m \in 1 .. Len(run) : run[m] = p

(* The points of a section are a run from its start to its end.            *)
LEMMA RunsIs ==
  ASSUME NEW a \in Nat, NEW b \in Nat, a < b
  PROVE  RunBy(Runs(a, b), a, b, a .. b)
<1> DEFINE len == b - a + 1
           run == Runs(a, b)
<1>1. len \in Nat /\ len >= 2 /\ a + 1 - 1 = a /\ a + len - 1 = b
  OBVIOUS
<1>2. \A k \in 1 .. len : a + k - 1 \in Nat
  BY <1>1
<1>3. run = [k \in 1 .. len |-> a + k - 1]
  BY DEF Runs
<1>4. \A p \in a .. b : p - a + 1 \in 1 .. len /\ a + (p - a + 1) - 1 = p
  OBVIOUS
<1> HIDE DEF len, run
<1>5. \A k \in 1 .. len : run[k] = a + k - 1 /\ run[k] \in Nat
  BY <1>2, <1>3
<1>6. run \in Seq(Nat) /\ Len(run) = len
  BY <1>1, <1>3, <1>5
<1>7. 1 \in 1 .. len /\ len \in 1 .. len
  BY <1>1
<1>8. run[1] = a /\ run[len] = b
  BY <1>1, <1>5, <1>7
<1>9. \A p \in a .. b : \E m \in 1 .. len : run[m] = p
  BY <1>4, <1>5
<1>10. RunBy(run, a, b, a .. b)
  BY <1>1, <1>6, <1>8, <1>9 DEF PointRuns, RunBy
<1> QED
  BY <1>10 DEF run

(* A chain that goes by more goes by less.                                 *)
LEMMA ChainBy ==
  ASSUME NEW runs, NEW a, NEW b, NEW more, NEW by \in SUBSET more, Chain(runs, a, b, more)
  PROVE  Chain(runs, a, b, by)
BY DEF Chain

(* A section's points planned at once are a chain of one run.              *)
LEMMA OneRunIs ==
  ASSUME NEW a \in Nat, NEW b \in Nat, a < b, NEW by \in SUBSET (a .. b)
  PROVE  Chain(<<Runs(a, b)>>, a, b, by)
<1>1. /\ Runs(a, b) \in PointRuns /\ Runs(a, b)[1] = a /\ Runs(a, b)[Len(Runs(a, b))] = b
      /\ \A p \in a .. b : \E m \in 1 .. Len(Runs(a, b)) : Runs(a, b)[m] = p
  <2>1. RunBy(Runs(a, b), a, b, a .. b)
    BY RunsIs
  <2> QED
    BY <2>1 DEF RunBy
<1> DEFINE run == Runs(a, b)
           runs == <<run>>
<1> HIDE DEF run
<1>2. runs \in Seq(PointRuns) /\ Len(runs) = 1 /\ runs[1] = run
  BY <1>1 DEF run
<1> HIDE DEF runs
<1>3. 1 \in 1 .. 1 /\ 1 .. 1 - 1 = {}
  OBVIOUS
<1>4. Chain(runs, a, b, by)
  BY <1>1, <1>2, <1>3 DEF Chain, run
<1> QED
  BY <1>4 DEF runs, run

(* What a section is planned leg by leg to, with all its points or without *)
(* its anchors, is a chain through what the operator placed.               *)
LEMMA RetryIs ==
  ASSUME NEW a \in Nat, NEW b \in Nat, a < b, NEW runs,
         runs \in LegByLeg(Runs(a, b)) \/ runs \in LegByLeg(KeepUserPlaced(Runs(a, b)))
  PROVE  Chain(runs, a, b, {p \in a .. b : placed[p]})
<1> DEFINE all == Runs(a, b)
           by == {p \in a .. b : placed[p]}
<1>1. RunBy(all, a, b, by)
  <2>1. RunBy(all, a, b, a .. b)
    BY RunsIs
  <2>2. by \subseteq a .. b
    OBVIOUS
  <2> HIDE DEF all, by
  <2> QED
    BY <2>1, <2>2 DEF RunBy
<1>2. RunBy(KeepUserPlaced(all), a, b, by)
  <2> DEFINE S == {k \in DOMAIN all : placed[all[k]]}
             bare == Picked(all, InOrder({1, Len(all)} \cup S, Len(all)))
  <2>1. KeepUserPlaced(all) = bare
    BY DEF KeepUserPlaced
  <2>2. /\ bare \in PointRuns /\ bare[1] = all[1] /\ bare[Len(bare)] = all[Len(all)]
        /\ \A k \in 1 .. Len(all) : k \in S => \E i \in 1 .. Len(bare) : bare[i] = all[k]
    <3>1. all \in PointRuns
      BY <1>1 DEF RunBy
    <3> HIDE DEF all, S
    <3> QED
      BY <3>1, PickedIs
  <2> HIDE DEF bare
  <2>3. DOMAIN all = 1 .. Len(all)
    BY <1>1, LenProperties DEF RunBy, PointRuns
  <2> HIDE DEF all
  <2>4. ASSUME NEW p \in by PROVE \E m \in 1 .. Len(bare) : bare[m] = p
    <3>1. PICK k \in 1 .. Len(all) : all[k] = p
      BY <1>1 DEF RunBy
    <3>2. k \in S
      BY <2>3, <3>1
    <3> QED
      BY <2>2, <3>1, <3>2
  <2> QED
    BY <1>1, <2>1, <2>2, <2>4 DEF RunBy
<1>3. ASSUME NEW points, RunBy(points, a, b, by), runs \in LegByLeg(points) PROVE Chain(runs, a, b, by)
  <2> DEFINE more == {points[k] : k \in {j \in 1 .. Len(points) : placed[points[j]]}}
  <2>1. Chain(runs, points[1], points[Len(points)], more)
    BY <1>3, LegByLegIs DEF RunBy
  <2>2. by \in SUBSET more
    BY <1>3 DEF RunBy
  <2> HIDE DEF more, by
  <2>3. Chain(runs, a, b, more)
    BY <1>3, <2>1 DEF RunBy
  <2> QED
    BY <2>2, <2>3, ChainBy
<1> QED
  BY <1>1, <1>2, <1>3

(* What is left alone keeps its part of the invariant.                     *)
LEMMA PlanInvLeft ==
  ASSUME PlanInv
  PROVE  /\ UNCHANGED <<stage, placed, sections>> => SectionsMeet'
         /\ UNCHANGED <<stage, placed, sections, parts>> => PartsChain'
         /\ UNCHANGED <<stage, route, pending>> => StretchesStand'
         /\ UNCHANGED <<stage, route, pending, repair>> => ClearIsUntouched'
<1>1. UNCHANGED <<stage, placed, sections>> => SectionsMeet'
  BY DEF PlanInv, SectionsMeet
<1>2. UNCHANGED <<stage, placed, sections, parts>> => PartsChain'
  BY DEF PlanInv, PartsChain
<1>3. UNCHANGED <<stage, route, pending>> => StretchesStand'
  BY DEF PlanInv, StretchesStand
<1>4. UNCHANGED <<stage, route, pending, repair>> => ClearIsUntouched'
  BY DEF PlanInv, ClearIsUntouched
<1> QED
  BY <1>1, <1>2, <1>3, <1>4

(* A request is planned from its first point to its last, all of them      *)
(* placed by the operator.                                                 *)
LEMMA PlanInitInv == PlanInit => PlanInv
<1> SUFFICES ASSUME PlanInit PROVE PlanInv
  OBVIOUS
<1>1. PICK n \in 2 .. MaxPoints : placed = [k \in 1 .. n |-> TRUE]
  BY DEF PlanInit
<1>2. n \in Nat /\ n >= 2
  BY PlanAssumption, <1>1
<1>3. placed \in [1 .. n -> BOOLEAN]
  BY <1>1
<1>4. placed \in Seq(BOOLEAN) /\ Len(placed) = n
  BY <1>1, <1>2, <1>3, SeqDef, LenProperties
<1>5. /\ stage = "anchor" /\ sections = <<>> /\ route = <<>> /\ pending = <<>>
      /\ repair = [passes |-> 0, fixed |-> FALSE, remaining |-> 0, seen |-> <<>>]
  BY DEF PlanInit
<1>6. SectionsMeet
  BY <1>2, <1>4, <1>5, EmptySeq DEF SectionsMeet
<1>7. PartsChain
  BY <1>5 DEF PartsChain
<1>8. StretchesStand
  BY <1>5, EmptySeq DEF StretchesStand
<1>9. repair \in [passes : Nat, fixed : BOOLEAN, remaining : Nat, seen : Seq(Nat)]
  <2>1. <<>> \in Seq(Nat)
    BY EmptySeq
  <2> QED
    BY <1>5, <2>1
<1>10. ClearIsUntouched
  BY <1>5, <1>9 DEF ClearIsUntouched
<1> QED
  BY <1>6, <1>7, <1>8, <1>10 DEF PlanInv

(* anchorLongLegs only adds points.                                        *)
LEMMA AnchorsAdd ==
  ASSUME PlanInv, AnchorLongLegs
  PROVE  placed' \in Seq(BOOLEAN) /\ Len(placed') >= 2
<1> DEFINE n == Len(placed) - 1
           V == Seq(BOOLEAN)
<1>1. n \in Nat /\ n >= 1
  BY LenProperties DEF PlanInv, SectionsMeet
<1>2. PICK added \in [1 .. n -> 0 .. MaxAnchors] :
        placed' = LET out[k \in 0 .. n] ==
                        IF k = 0 THEN <<TRUE>>
                        ELSE out[k - 1] \o [a \in 1 .. added[k] |-> FALSE] \o <<TRUE>>
                  IN out[n]
  BY DEF AnchorLongLegs, NumPoints
<1> DEFINE Leg(v, k) == v \o [a \in 1 .. added[k] |-> FALSE] \o <<TRUE>>
           one == <<TRUE>>
           Out(f) == f = [k \in 0 .. n |-> IF k = 0 THEN one ELSE Leg(f[k - 1], k)]
           step == [p \in (1 .. n) \X V |-> Leg(p[2], p[1])]
<1>3. one \in V /\ Len(one) = 1
  OBVIOUS
<1>4. ASSUME NEW v \in V, NEW k \in 1 .. n
      PROVE  Leg(v, k) \in V /\ Len(v) \in Nat /\ Len(Leg(v, k)) >= Len(v) + 1
  <2>1. PICK c \in Nat : c = added[k]
    BY PlanAssumption
  <2>2. PICK marks : marks = [a \in 1 .. c |-> FALSE]
    OBVIOUS
  <2>3. marks \in [1 .. c -> BOOLEAN]
    BY <2>2
  <2>4. marks \in V /\ Len(marks) = c
    <3> HIDE DEF V
    <3>1. \A R : \A s \in [1 .. c -> R] : s \in Seq(R) /\ Len(s) = c
      BY ListIs
    <3> QED
      BY ONLY <2>3, <3>1 DEF V
  <2> HIDE DEF one, V
  <2>5. v \o marks \in V /\ Len(v) \in Nat /\ Len(v \o marks) = Len(v) + c
    BY <2>4, ConcatIs DEF V
  <2>a. PICK both : both = v \o marks
    OBVIOUS
  <2>b. both \o one \in V /\ Len(both) \in Nat /\ Len(both \o one) = Len(both) + Len(one)
    <3>1. both \in V /\ one \in V
      BY <1>3, <2>5, <2>a
    <3> QED
      BY ONLY <3>1, ConcatIs DEF V
  <2>6. (v \o marks) \o one \in V /\ Len((v \o marks) \o one) = Len(v \o marks) + 1
    BY <1>3, <2>a, <2>b
  <2>7. Leg(v, k) = (v \o marks) \o one
    BY <2>1, <2>2 DEF one
  <2> HIDE DEF Leg
  <2>8. PICK x \in Nat : x = Len(v) /\ Leg(v, k) \in V /\ Len(Leg(v, k)) = (x + c) + 1
    BY <2>5, <2>6, <2>7
  <2>9. (x + c) + 1 >= x + 1
    BY <2>1, <2>8
  <2>10. Leg(v, k) \in V /\ Len(v) \in Nat /\ Len(Leg(v, k)) >= Len(v) + 1
    BY <2>8, <2>9
  <2> QED
    BY <2>10
<1>5. \E f : Out(f)
  <2>1. step \in [(1 .. n) \X V -> V] /\ \A k \in 1 .. n, v \in V : step[<<k, v>>] = Leg(v, k)
    <3>1. \A k \in 1 .. n, v \in V : Leg(v, k) \in V
      BY <1>4
    <3> HIDE DEF V, n, Leg
    <3> QED
      BY <3>1
  <2>2. 0 \in Nat /\ 1 \in Nat /\ 1 = 0 + 1 /\ 0 <= n
    BY <1>1
  <2> HIDE DEF V, n, Leg, one, step
  <2>3. PICK f : Recurs(f, V, 0, 1, n, one, step)
    BY <1>1, <1>3, <2>1, <2>2, Recursion
  <2>4. \A k \in 1 .. n : k - 1 \in 0 .. n /\ f[k - 1] \in V
    BY <1>1, <2>3 DEF Recurs
  <2>5. \A k \in 0 .. n : f[k] = IF k = 0 THEN one ELSE Leg(f[k - 1], k)
    <3>1. \A k \in 0 .. n : k = 0 \/ k \in 1 .. n
      BY <1>1
    <3> QED
      BY <2>1, <2>3, <2>4, <3>1 DEF Recurs
  <2>6. Out(f)
    BY <2>3, <2>5 DEF Recurs
  <2> QED
    BY <2>6
<1> DEFINE g == CHOOSE f : Out(f)
<1>6. Out(g)
  BY <1>5
<1>7. placed' = g[n]
  BY <1>2
<1> HIDE DEF g
<1> DEFINE T == {k \in 0 .. n : g[k] \in V /\ Len(g[k]) >= k + 1}
<1>8. 0 \in T
  BY <1>1, <1>3, <1>6
<1>9. ASSUME NEW k \in 0 .. n - 1, k \in T PROVE k + 1 \in T
  <2>1. k \in 0 .. n /\ k + 1 \in 1 .. n /\ k + 1 \in 0 .. n /\ k + 1 # 0 /\ (k + 1) - 1 = k
    BY <1>1
  <2> HIDE DEF Leg, V
  <2>2. g[k + 1] = Leg(g[k], k + 1)
    BY <1>6, <2>1
  <2>3. g[k] \in V /\ Len(g[k]) >= k + 1
    BY <1>9
  <2>4. Leg(g[k], k + 1) \in V /\ Len(g[k]) \in Nat /\ Len(Leg(g[k], k + 1)) >= Len(g[k]) + 1
    BY <1>4, <2>1, <2>3
  <2>5. PICK x \in Nat : x = Len(g[k])
    BY <2>4
  <2>6. PICK y \in Nat : y = Len(g[k + 1])
    BY <2>2, <2>4, LenProperties DEF V
  <2>7. y >= (k + 1) + 1
    BY <2>2, <2>3, <2>4, <2>5, <2>6
  <2> QED
    BY <2>1, <2>2, <2>4, <2>6, <2>7
<1>10. n \in T
  <2> HIDE DEF T, n
  <2>1. 0 \in Nat /\ n \in 0 .. n
    BY <1>1
  <2> QED
    BY <1>1, <1>8, <1>9, <2>1, RangeInduction
<1>11. placed' \in V /\ Len(placed') >= n + 1
  BY <1>7, <1>10
<1>12. PICK y \in Nat : y = Len(placed')
  BY <1>11, LenProperties
<1> QED
  BY <1>1, <1>11, <1>12

(* Sections that grow keep meeting, and start with nothing planned.        *)
LEMMA GrowSectionMeets ==
  ASSUME PlanInv, GrowSection
  PROVE  PlanInv'
<1> DEFINE n == Len(sections)
           start == IF sections = <<>> THEN 1 ELSE Last(sections)[2]
<1>1. PICK end \in start + 1 .. NumPoints :
        /\ sections' = Append(sections, <<start, end>>)
        /\ IF end = NumPoints
           THEN stage' = "plan" /\ parts' = [k \in DOMAIN sections' |-> Unplanned]
           ELSE UNCHANGED <<stage, parts>>
  BY DEF GrowSection
<1>2. stage = "group" /\ UNCHANGED <<placed, flying, route, pending, done, repair>> /\ SectionsMeet
  BY DEF GrowSection, PlanInv
<1>3. n \in Nat /\ sections \in Seq(Nat \X Nat) /\ (n = 0 <=> sections = <<>>)
  BY <1>2, LenProperties, EmptySeq DEF SectionsMeet
<1>4. /\ \A k \in 1 .. n : sections[k] \in Nat \X Nat
      /\ Len(placed) \in Nat /\ placed \in Seq(BOOLEAN) /\ Len(placed) >= 2
  BY <1>2, LenProperties, ElementOfSeq DEF SectionsMeet
<1>5. /\ start \in Nat /\ start >= 1 /\ (n = 0 => start = 1) /\ (n >= 1 => start = sections[n][2])
  <2>1. CASE n = 0
    BY <1>3, <2>1
  <2>2. CASE n # 0
    <3>1. n \in 1 .. n /\ Last(sections) = sections[n]
      BY <1>3, <2>2 DEF Last
    <3>2. sections[n] \in Nat \X Nat /\ 1 <= sections[n][1] /\ sections[n][1] < sections[n][2]
      BY <1>2, <1>4, <3>1 DEF SectionsMeet
    <3> QED
      BY <1>3, <2>2, <3>1, <3>2
  <2> QED
    BY <2>1, <2>2
<1> HIDE DEF start
<1>6. end \in Nat /\ start < end /\ end <= Len(placed)
  BY <1>1, <1>4, <1>5 DEF NumPoints
<1>7. PICK new : new = <<start, end>>
  OBVIOUS
<1>8. new \in Nat \X Nat /\ new[1] = start /\ new[2] = end
  BY <1>5, <1>6, <1>7
<1>9. /\ sections' \in Seq(Nat \X Nat) /\ Len(sections') = n + 1 /\ sections'[n + 1] = new
      /\ \A k \in 1 .. n : sections'[k] = sections[k]
  BY <1>1, <1>3, <1>7, <1>8, AppendProperties
<1>10. SectionsMeet'
  <2>1. \A k \in 1 .. n + 1 : k \in 1 .. n \/ k = n + 1
    BY <1>3
  <2>2. \A k \in 1 .. n + 1 :
          1 <= sections'[k][1] /\ sections'[k][1] < sections'[k][2] /\ sections'[k][2] <= Len(placed)
    <3>1. \A k \in 1 .. n :
            1 <= sections[k][1] /\ sections[k][1] < sections[k][2] /\ sections[k][2] <= Len(placed)
      BY <1>2 DEF SectionsMeet
    <3> QED
      BY <1>5, <1>6, <1>8, <1>9, <2>1, <3>1
  <2>3. sections'[1][1] = 1
    <3>1. CASE n = 0
      BY <1>5, <1>8, <1>9, <3>1
    <3>2. CASE n # 0
      <4>1. 1 \in 1 .. n /\ n >= 1
        BY <1>3, <3>2
      <4> QED
        BY <1>2, <1>9, <4>1 DEF SectionsMeet
    <3> QED
      BY <3>1, <3>2
  <2>4. ASSUME NEW k \in 1 .. n PROVE sections'[k][2] = sections'[k + 1][1]
    <3>1. CASE k = n
      <4>1. n >= 1
        BY <3>1
      <4> QED
        BY <1>5, <1>8, <1>9, <3>1, <4>1
    <3>2. CASE k # n
      <4>1. k \in 1 .. n - 1 /\ k + 1 \in 1 .. n
        BY <1>3, <3>2
      <4>2. sections[k][2] = sections[k + 1][1]
        BY <1>2, <4>1 DEF SectionsMeet
      <4> QED
        BY <1>9, <4>1, <4>2
    <3> QED
      BY <3>1, <3>2
  <2>5. stage' # "anchor" /\ (n + 1) - 1 = n
    BY <1>1, <1>2, <1>3
  <2> QED
    BY <1>2, <1>4, <1>9, <2>2, <2>3, <2>4, <2>5 DEF SectionsMeet
<1>11. PartsChain'
  <2>1. CASE end # NumPoints
    BY <1>1, <1>2, <2>1 DEF PartsChain
  <2>2. CASE end = NumPoints
    <3>1. n + 1 >= 1 /\ DOMAIN sections' = 1 .. n + 1
      BY <1>3, <1>9, LenProperties
    <3>2. parts' = [k \in 1 .. n + 1 |-> Unplanned]
      BY <1>1, <2>2, <3>1
    <3>3. /\ parts' \in [1 .. n + 1 -> {Unplanned} \cup Seq(PointRuns)]
          /\ \A k \in 1 .. n + 1 : parts'[k] = Unplanned
      BY <3>2
    <3>4. sections'[n + 1][2] = Len(placed')
      BY <1>2, <1>8, <1>9, <2>2 DEF NumPoints
    <3> QED
      BY <1>9, <3>1, <3>3, <3>4 DEF PartsChain
  <2> QED
    BY <2>1, <2>2
<1>12. StretchesStand' /\ ClearIsUntouched'
  <2>1. stage' \in {"group", "plan"}
    BY <1>1, <1>2
  <2> QED
    BY <1>2, <2>1 DEF PlanInv, StretchesStand, ClearIsUntouched
<1> QED
  BY <1>10, <1>11, <1>12 DEF PlanInv

(* A section that is planned, fails or is planned again, keeps a chain.    *)
LEMMA PartKeeps ==
  ASSUME PlanInv, NEW k \in DOMAIN parts, NEW result,
         parts' = [parts EXCEPT ![k] = result],
         UNCHANGED <<stage, placed, sections, route, pending, repair>>,
         stage = "plan" =>
           \/ result = Failed
           \/ Chain(result, sections[k][1], sections[k][2], {p \in sections[k][1] .. sections[k][2] : placed[p]})
  PROVE  PlanInv'
<1>1. SectionsMeet' /\ StretchesStand' /\ ClearIsUntouched'
  BY PlanInvLeft
<1>2. CASE stage # "plan"
  <2>1. PartsChain'
    BY <1>2 DEF PartsChain
  <2> QED
    BY <1>1, <2>1 DEF PlanInv
<1>3. CASE stage = "plan"
  <2>1. parts \in [1 .. Len(sections) -> {Unplanned} \cup Seq(PointRuns)]
    BY <1>3 DEF PlanInv, PartsChain
  <2>2. result \in Seq(PointRuns)
    <3>1. <<>> \in Seq(PointRuns)
      BY EmptySeq
    <3> QED
      BY <1>3, <3>1 DEF Chain, Failed
  <2>3. /\ parts' \in [1 .. Len(sections) -> {Unplanned} \cup Seq(PointRuns)]
        /\ parts'[k] = result /\ \A j \in 1 .. Len(sections) : j # k => parts'[j] = parts[j]
    BY <2>1, <2>2
  <2>4. ASSUME NEW j \in 1 .. Len(sections), parts'[j] \notin {Unplanned, Failed}
        PROVE  Chain(parts'[j], sections[j][1], sections[j][2], {p \in sections[j][1] .. sections[j][2] : placed[p]})
    <3>1. CASE j = k
      BY <1>3, <2>3, <2>4, <3>1
    <3>2. CASE j # k
      BY <1>3, <2>3, <2>4, <3>2 DEF PlanInv, PartsChain
    <3> QED
      BY <3>1, <3>2
  <2>5. PartsChain'
    BY <1>3, <2>3, <2>4 DEF PlanInv, PartsChain
  <2> QED
    BY <1>1, <2>5 DEF PlanInv
<1> QED
  BY <1>2, <1>3

(* The ends of a section.                                                  *)
LEMMA SectionEnds ==
  ASSUME PlanInv, stage = "plan", NEW k \in DOMAIN parts
  PROVE  sections[k][1] \in Nat /\ sections[k][2] \in Nat /\ sections[k][1] < sections[k][2]
<1>1. k \in 1 .. Len(sections)
  BY DEF PlanInv, PartsChain
<1>2. sections[k] \in Nat \X Nat /\ sections[k][1] < sections[k][2]
  BY <1>1, ElementOfSeq DEF PlanInv, SectionsMeet
<1> QED
  BY <1>2

LEMMA PlanSectionKeeps ==
  ASSUME PlanInv, NEW k \in DOMAIN parts, PlanSection(k) PROVE PlanInv'
<1>1. PICK result \in {Failed, <<Runs(sections[k][1], sections[k][2])>>} : parts' = [parts EXCEPT ![k] = result]
  BY DEF PlanSection
<1>2. stage = "plan" =>
        \/ result = Failed
        \/ Chain(result, sections[k][1], sections[k][2], {p \in sections[k][1] .. sections[k][2] : placed[p]})
  BY <1>1, SectionEnds, OneRunIs
<1>3. UNCHANGED <<stage, placed, sections, route, pending, repair>>
  BY DEF PlanSection
<1> QED
  BY <1>1, <1>2, <1>3, PartKeeps

LEMMA RetryKeeps ==
  ASSUME PlanInv, NEW k \in DOMAIN parts, RetryLegByLeg(k) \/ RetryBare(k) PROVE PlanInv'
<1> DEFINE all == Runs(sections[k][1], sections[k][2])
<1>1. stage = "plan"
  BY DEF RetryLegByLeg, RetryBare, FirstFailed, AllPlanned
<1>2. PICK points \in {all, KeepUserPlaced(all)} : Retry(k, points)
  BY DEF RetryLegByLeg, RetryBare
<1>3. PICK runs \in LegByLeg(points) : parts' = [parts EXCEPT ![k] = runs]
  BY <1>2 DEF Retry
<1>4. Chain(runs, sections[k][1], sections[k][2], {p \in sections[k][1] .. sections[k][2] : placed[p]})
  <2>1. sections[k][1] \in Nat /\ sections[k][2] \in Nat /\ sections[k][1] < sections[k][2]
    BY <1>1, SectionEnds
  <2>2. runs \in LegByLeg(all) \/ runs \in LegByLeg(KeepUserPlaced(all))
    BY <1>2, <1>3
  <2> QED
    BY <2>1, <2>2, RetryIs
<1>5. UNCHANGED <<stage, placed, sections, route, pending, repair>>
  BY <1>2 DEF Retry
<1> QED
  BY <1>3, <1>4, <1>5, PartKeeps

-----------------------------------------------------------------------------
(* The steps of the passes over the merged route.                          *)

(* A stretch that is found stands.                                         *)
LEMMA FoundStands ==
  ASSUME NEW r \in Seq(Nat), NEW from \in Nat \ {0}, NEW to \in Nat, from < to, to <= Len(r)
  PROVE  Stands(r, [from |-> from, to |-> to, was |-> SubSeq(r, from, to)])
<1> DEFINE was == SubSeq(r, from, to)
           s == [from |-> from, to |-> to, was |-> was]
<1>1. from <= to + 1
  OBVIOUS
<1>2. was \in Seq(Nat) /\ Len(was) = to - from + 1 /\ \A i \in 1 .. to - from + 1 : was[i] = r[from + i - 1]
  BY <1>1, PartIs
<1> HIDE DEF was
<1>3. s \in StretchRecords /\ s.from = from /\ s.to = to /\ s.was = was
  BY <1>2 DEF StretchRecords
<1> HIDE DEF s
<1>4. to - from <= to - from + 1 /\ \A i \in 1 .. to - from : i \in 1 .. to - from + 1
  OBVIOUS
<1>5. Stands(r, s)
  BY <1>2, <1>3, <1>4 DEF Stands
<1> QED
  BY <1>5 DEF s, was

(* The pass that visits stretches keeps standing what it has yet to visit. *)
LEMMA SpliceLeaves ==
  ASSUME StretchesStand, pending # <<>>, NEW r \in Seq(Nat), Len(r) \in Nat,
         pending[Len(pending)].from + 1 <= Len(r),
         \A i \in 1 .. pending[Len(pending)].from : r[i] = route[i],
         NEW k \in 1 .. Len(pending) - 1
  PROVE  Stands(r, pending[k])
<1> DEFINE n == Len(pending)
<1>1. n \in Nat /\ k \in 1 .. n /\ n \in 1 .. n /\ k < n
  BY LenProperties DEF StretchesStand
<1>2. pending[k] \in StretchRecords /\ pending[n] \in StretchRecords
  BY <1>1, ElementOfSeq DEF StretchesStand
<1>3. Stands(route, pending[k]) /\ pending[k].to - 1 <= pending[n].from
  BY <1>1 DEF StretchesStand
<1>4. PICK s : s = pending[k]
  OBVIOUS
<1>5. PICK from \in Nat \ {0}, to \in Nat, next \in Nat \ {0} :
        from = s.from /\ to = s.to /\ next = pending[n].from
  BY <1>2, <1>4 DEF StretchRecords
<1> HIDE DEF n
<1>6. s \in StretchRecords /\ from < to /\ to - 1 <= next /\ to - from <= Len(s.was)
  BY <1>2, <1>3, <1>4, <1>5 DEF Stands
<1>7. next + 1 <= Len(r) /\ \A i \in 1 .. next : r[i] = route[i]
  BY <1>5 DEF n
<1>8. to <= Len(r)
  BY <1>6, <1>7
<1>9. \A i \in 1 .. to - from : from + i - 1 \in 1 .. next
  BY <1>6
<1>10. \A i \in 1 .. to - from : route[from + i - 1] = s.was[i]
  BY <1>3, <1>4, <1>5 DEF Stands
<1>11. Stands(r, s)
  BY <1>5, <1>6, <1>7, <1>8, <1>9, <1>10 DEF Stands
<1> QED
  BY <1>4, <1>11

(* The last stretch is taken off.                                          *)
LEMMA UnvisitedIs ==
  ASSUME StretchesStand, pending # <<>>
  PROVE  /\ Len(pending) \in Nat \ {0} /\ Unvisited \in Seq(StretchRecords)
         /\ Len(Unvisited) = Len(pending) - 1
         /\ \A k \in 1 .. Len(pending) - 1 : Unvisited[k] = pending[k]
<1>1. PICK n \in Nat : n = Len(pending) /\ n >= 1
  BY LenProperties, EmptySeq DEF StretchesStand
<1>2. \A k \in 1 .. n : pending[k] \in StretchRecords
  BY <1>1, ElementOfSeq DEF StretchesStand
<1>3. Unvisited = [k \in 1 .. n - 1 |-> pending[k]]
  BY <1>1 DEF Unvisited, Visited, RemoveAt
<1>4. \A k \in 1 .. n - 1 : k < n /\ k \in 1 .. n
  BY <1>1
<1>5. Unvisited \in [1 .. n - 1 -> StretchRecords] /\ \A k \in 1 .. n - 1 : Unvisited[k] = pending[k]
  BY <1>2, <1>3, <1>4
<1>6. n - 1 \in Nat
  BY <1>1
<1>7. Unvisited \in Seq(StretchRecords) /\ Len(Unvisited) = n - 1
  BY <1>5, <1>6, SeqDef, LenProperties
<1> QED
  BY <1>1, <1>5, <1>7

(* Whether the last stretch is spliced or stands, the others stand.        *)
LEMMA VisitKeeps ==
  ASSUME PlanInv, Respliced \/ StretchStands PROVE StretchesStand'
<1>1. StretchesStand /\ pending # <<>> /\ stage' = stage /\ pending' = Unvisited
  BY DEF PlanInv, Respliced, StretchStands
<1>2. PICK n \in Nat \ {0} : n = Len(pending)
  BY <1>1, UnvisitedIs
<1>3. /\ pending' \in Seq(StretchRecords) /\ Len(pending') = n - 1
      /\ \A k \in 1 .. n - 1 : pending'[k] = pending[k]
  BY <1>1, <1>2, UnvisitedIs
<1>4. n \in 1 .. n /\ \A k \in 1 .. n - 1 : k \in 1 .. n
  OBVIOUS
<1>5. \A k, l \in 1 .. n - 1 : k < l => pending'[k].to - 1 <= pending'[l].from
  <2>1. \A k, l \in 1 .. n : k < l => pending[k].to - 1 <= pending[l].from
    BY <1>1, <1>2 DEF StretchesStand
  <2> QED
    BY <1>3, <1>4, <2>1
<1>6. CASE StretchStands
  <2>1. route' = route
    BY <1>6 DEF StretchStands
  <2>2. \A k \in 1 .. n - 1 : Stands(route, pending[k])
    BY <1>1, <1>2, <1>4 DEF StretchesStand
  <2>3. \A k \in 1 .. n - 1 : Stands(route', pending'[k])
    BY <1>3, <2>1, <2>2
  <2> QED
    BY <1>1, <1>3, <1>5, <2>1, <2>3 DEF StretchesStand
<1>7. CASE Respliced
  <2>1. Visited = n
    BY <1>2 DEF Visited
  <2>2. PICK with \in Replan(route[pending[n].from], route[pending[n].to]) :
          route' = Splice(pending[n].from, pending[n].to, with)
    BY <1>7, <2>1 DEF Respliced
  <2>3. Stands(route, pending[n]) /\ route \in Seq(Nat)
    BY <1>1, <1>2, <1>4 DEF StretchesStand
  <2>4. PICK from \in Nat \ {0}, to \in Nat : from = pending[n].from /\ to = pending[n].to
    BY <2>3 DEF Stands, StretchRecords
  <2>5. from < to /\ to <= Len(route)
    BY <2>3, <2>4 DEF Stands
  <2>6. route' \in Seq(Nat) /\ from + 1 <= Len(route') /\ \A i \in 1 .. from : route'[i] = route[i]
    <3>1. SameUpTo(Splice(from, to, with), from)
      BY <2>2, <2>3, <2>4, <2>5, SpliceIs
    <3>2. SameUpTo(route', from)
      BY <2>2, <2>4, <3>1
    <3> QED
      BY <3>2 DEF SameUpTo
  <2>7. Len(route') \in Nat
    BY <2>6, LenProperties
  <2>8. \A k \in 1 .. n - 1 : Stands(route', pending[k])
    <3>1. PICK r : r = route'
      OBVIOUS
    <3>2. r \in Seq(Nat) /\ Len(r) \in Nat /\ pending[n].from + 1 <= Len(r)
          /\ \A i \in 1 .. pending[n].from : r[i] = route[i]
      BY <2>4, <2>6, <2>7, <3>1
    <3>3. \A k \in 1 .. n - 1 : Stands(r, pending[k])
      BY <1>1, <1>2, <3>2, SpliceLeaves
    <3> QED
      BY <3>1, <3>3
  <2>9. \A k \in 1 .. n - 1 : Stands(route', pending'[k])
    BY <1>3, <2>8
  <2>10. Len(route') >= 2
    BY <2>6, <2>7
  <2> QED
    BY <1>1, <1>3, <1>5, <2>6, <2>9, <2>10 DEF StretchesStand
<1> QED
  BY <1>6, <1>7

(* A pass that starts finds stretches that stand, in order.                *)
LEMMA FoundAre ==
  ASSUME NEW m \in Nat, NEW r \in Seq(Nat), Len(r) >= 2, NEW list, list = [k \in 1 .. m |-> list[k]],
         \A k \in 1 .. m : Stands(r, list[k]),
         \A k, l \in 1 .. m : k < l => list[k].to - 1 <= list[l].from,
         route' = r, pending' = list
  PROVE  StretchesStand'
<1>1. \A k \in 1 .. m : list[k] \in StretchRecords
  BY DEF Stands
<1>2. list \in Seq(StretchRecords) /\ Len(list) = m
  <2>1. list \in [1 .. m -> StretchRecords]
    BY <1>1
  <2> QED
    BY <2>1, ListIs
<1>3. /\ route' \in Seq(Nat) /\ Len(route') >= 2
      /\ pending' \in Seq(StretchRecords) /\ Len(pending') = m
      /\ \A k \in 1 .. m : Stands(route', pending'[k])
      /\ \A k, l \in 1 .. m : k < l => pending'[k].to - 1 <= pending'[l].from
  BY <1>2
<1> QED
  BY <1>3 DEF StretchesStand

(* The joins of a merged route are stretches that stand.                   *)
LEMMA MergeFinds ==
  ASSUME PlanInv, Merge PROVE StretchesStand'
<1> DEFINE runs == FlattenSeq(parts)
<1>1. PICK left \in SUBSET Points :
        LET res == Stitched([i \in DOMAIN runs |-> Smoothed(runs[i], left)])
        IN /\ route' = res.waypoints
           /\ pending' = [k \in DOMAIN res.joins |->
                           [from |-> res.joins[k] - 1, to |-> res.joins[k] + 1,
                            was |-> SubSeq(res.waypoints, res.joins[k] - 1, res.joins[k] + 1)]]
  BY DEF Merge
<1>2. Chain(runs, 1, Len(placed), {p \in 1 .. Len(placed) : placed[p]})
  BY PlannedIsChain DEF Merge
<1> HIDE DEF runs
<1>3. PICK n \in Nat : n = Len(runs) /\ n >= 1 /\ DOMAIN runs = 1 .. n /\ \A i \in 1 .. n : runs[i] \in PointRuns
  BY <1>2, LenProperties, ElementOfSeq DEF Chain
<1> DEFINE smooth == [i \in 1 .. n |-> Smoothed(runs[i], left)]
           res == Stitched(smooth)
<1>4. \A i \in 1 .. n : Smoothed(runs[i], left) \in PointRuns
  BY <1>3, PickedIs DEF Smoothed
<1>5. smooth \in Seq(PointRuns) /\ Len(smooth) = n
  <2>1. smooth \in [1 .. n -> PointRuns]
    BY <1>4
  <2> HIDE DEF smooth
  <2> QED
    BY <2>1, ListIs
<1>6. /\ route' = res.waypoints
      /\ pending' = [k \in DOMAIN res.joins |->
                      [from |-> res.joins[k] - 1, to |-> res.joins[k] + 1,
                       was |-> SubSeq(res.waypoints, res.joins[k] - 1, res.joins[k] + 1)]]
  BY <1>1, <1>3
<1> HIDE DEF smooth
<1>7. JoinsInside(res)
  BY <1>3, <1>5, StitchedIs
<1> HIDE DEF res
<1>8. PICK r, joins : r = res.waypoints /\ joins = res.joins
  OBVIOUS
<1>9. /\ r \in Seq(Nat) /\ joins \in Seq(Nat) /\ 2 <= Len(r) /\ Len(r) \in Nat
      /\ \A k \in 1 .. Len(joins) : 2 <= joins[k] /\ joins[k] + 1 <= Len(r)
      /\ \A k, l \in 1 .. Len(joins) : k < l => joins[k] < joins[l]
  BY <1>7, <1>8, LenProperties DEF JoinsInside
<1>10. PICK m \in Nat : m = Len(joins) /\ DOMAIN joins = 1 .. m
  BY <1>9, LenProperties
<1>11. \A k \in 1 .. m : joins[k] \in Nat
  BY <1>9, <1>10, ElementOfSeq
<1> DEFINE found == [k \in 1 .. m |-> [from |-> joins[k] - 1, to |-> joins[k] + 1,
                                       was |-> SubSeq(r, joins[k] - 1, joins[k] + 1)]]
<1>12. route' = r /\ pending' = found
  BY <1>6, <1>8, <1>10
<1>13. ASSUME NEW k \in 1 .. m PROVE Stands(r, found[k])
  <2>1. PICK from \in Nat \ {0}, to \in Nat : from = joins[k] - 1 /\ to = joins[k] + 1 /\ from < to /\ to <= Len(r)
    <3>1. joins[k] \in Nat /\ 2 <= joins[k] /\ joins[k] + 1 <= Len(r)
      BY <1>9, <1>10, <1>11
    <3>2. joins[k] - 1 \in Nat \ {0} /\ joins[k] + 1 \in Nat /\ joins[k] - 1 < joins[k] + 1
      BY <3>1
    <3> QED
      BY <3>1, <3>2
  <2>2. found[k] = [from |-> from, to |-> to, was |-> SubSeq(r, from, to)]
    BY <2>1
  <2>3. Stands(r, [from |-> from, to |-> to, was |-> SubSeq(r, from, to)])
    BY <1>9, <2>1, FoundStands
  <2> QED
    BY <2>2, <2>3
<1>14. ASSUME NEW k \in 1 .. m, NEW l \in 1 .. m, k < l PROVE found[k].to - 1 <= found[l].from
  <2>1. found[k].to = joins[k] + 1 /\ found[l].from = joins[l] - 1
    OBVIOUS
  <2>2. joins[k] \in Nat /\ joins[l] \in Nat /\ joins[k] < joins[l]
    BY <1>9, <1>10, <1>11, <1>14
  <2> HIDE DEF found
  <2> QED
    BY <2>1, <2>2
<1>15. found = [k \in 1 .. m |-> found[k]]
  OBVIOUS
<1> HIDE DEF found
<1> QED
  BY <1>9, <1>12, <1>13, <1>14, <1>15, FoundAre

(* A run of short legs has an end, where it stops for the first time.      *)
LEMMA RunEnds ==
  ASSUME NEW L \in Nat, NEW short \in SUBSET (1 .. L - 1), NEW k \in short
  PROVE  \E e \in k + 1 .. L : e \notin short /\ k .. e - 1 \subseteq short
<1> SUFFICES ASSUME ~ \E e \in k + 1 .. L : e \notin short /\ k .. e - 1 \subseteq short PROVE FALSE
  OBVIOUS
<1> DEFINE T == {e \in k .. L : k .. e \subseteq short}
<1>1. k \in Nat /\ L \notin short /\ k <= L
  OBVIOUS
<1>2. k \in T
  BY <1>1
<1>3. ASSUME NEW e \in k .. L - 1, e \in T PROVE e + 1 \in T
  <2>1. e + 1 \in k + 1 .. L /\ e + 1 \in k .. L /\ (e + 1) - 1 = e
    BY <1>1
  <2>2. k .. e \subseteq short
    BY <1>3
  <2>3. e + 1 \in short
    BY <2>1, <2>2
  <2>4. \A x \in k .. e + 1 : x = e + 1 \/ x \in k .. e
    BY <1>1
  <2> QED
    BY <2>1, <2>2, <2>3, <2>4
<1>4. L \in T
  <2> HIDE DEF T
  <2>1. L \in k .. L
    BY <1>1
  <2> QED
    BY <1>1, <1>2, <1>3, <2>1, RangeInduction
<1>5. L \in short
  BY <1>1, <1>4
<1> QED
  BY <1>1, <1>5

(* The runs of short legs are stretches that stand.                        *)
LEMMA TightWaterFinds ==
  ASSUME PlanInv, FindTightWater PROVE StretchesStand'
<1>1. route \in Seq(Nat) /\ Len(route) >= 2 /\ route' = route
  BY DEF FindTightWater, PlanInv, StretchesStand
<1>2. PICK L \in Nat : L = Len(route) /\ L >= 2
  BY <1>1, LenProperties
<1>3. PICK short \in SUBSET (1 .. L - 1) : pending' = TightWaterRuns(short)
  BY <1>2 DEF FindTightWater
<1> DEFINE S == {k \in short : k - 1 \notin short}
           starts == InOrder(S, L - 1)
           end(k) == CHOOSE e \in k + 1 .. L : e \notin short /\ k .. e - 1 \subseteq short
<1>4. L - 1 \in Nat
  BY <1>2
<1>5. /\ starts \in Seq(1 .. L - 1)
      /\ \A i \in 1 .. Len(starts) : starts[i] \in S
      /\ \A i, j \in 1 .. Len(starts) : i < j => starts[i] < starts[j]
  BY <1>4, InOrderIs
<1>6. pending' = [k \in DOMAIN starts |-> Stretch(starts[k], end(starts[k]))]
  BY <1>2, <1>3 DEF TightWaterRuns
<1>7. ASSUME NEW k \in short
      PROVE  end(k) \in k + 1 .. L /\ end(k) \notin short /\ k .. end(k) - 1 \subseteq short
  BY <1>2, RunEnds
<1> HIDE DEF starts, end
<1>8. PICK m \in Nat : m = Len(starts) /\ DOMAIN starts = 1 .. m
  BY <1>5, LenProperties
<1>9. \A k \in 1 .. m : starts[k] \in short /\ starts[k] - 1 \notin short /\ starts[k] \in 1 .. L - 1
  BY <1>5, <1>8
<1> DEFINE found == [k \in 1 .. m |-> Stretch(starts[k], end(starts[k]))]
<1>10. pending' = found
  BY <1>6, <1>8
<1>11. ASSUME NEW k \in 1 .. m
       PROVE  /\ Stands(route, found[k])
              /\ found[k].from = starts[k] /\ found[k].to = end(starts[k])
  <2>1. PICK from \in Nat \ {0}, to \in Nat : from = starts[k] /\ to = end(starts[k]) /\ from < to /\ to <= L
    <3>1. starts[k] \in Nat \ {0} /\ end(starts[k]) \in starts[k] + 1 .. L
      BY <1>7, <1>9
    <3>2. end(starts[k]) \in Nat /\ starts[k] < end(starts[k]) /\ end(starts[k]) <= L
      BY <1>2, <3>1
    <3> QED
      BY <3>1, <3>2
  <2>2. found[k] = [from |-> from, to |-> to, was |-> SubSeq(route, from, to)]
    BY <2>1 DEF Stretch
  <2>3. Stands(route, [from |-> from, to |-> to, was |-> SubSeq(route, from, to)])
    BY <1>1, <1>2, <2>1, FoundStands
  <2> QED
    BY <2>1, <2>2, <2>3
<1>12. ASSUME NEW k \in 1 .. m, NEW l \in 1 .. m, k < l PROVE found[k].to - 1 <= found[l].from
  <2>1. PICK a \in Nat, b \in Nat, e \in Nat : a = starts[k] /\ b = starts[l] /\ e = end(starts[k]) /\ a < b
    <3>1. starts[k] \in Nat /\ starts[l] \in Nat /\ starts[k] < starts[l]
      BY <1>5, <1>8, <1>9, <1>12
    <3>2. end(starts[k]) \in Nat
      BY <1>7, <1>9, <3>1
    <3> QED
      BY <3>1, <3>2
  <2>2. a .. e - 1 \subseteq short /\ b - 1 \notin short
    BY <1>7, <1>9, <2>1
  <2>3. e <= b
    BY <2>1, <2>2
  <2>4. e - 1 <= b
    BY <2>1, <2>3
  <2> QED
    BY <1>11, <2>1, <2>4
<1>13. found = [k \in 1 .. m |-> found[k]]
  OBVIOUS
<1> HIDE DEF found
<1>14. \A k \in 1 .. m : Stands(route, found[k])
  BY <1>11
<1>15. PICK r : r = route
  OBVIOUS
<1> QED
  BY <1>1, <1>10, <1>12, <1>13, <1>14, <1>15, FoundAre

(* The legs over land are stretches that stand, and there are none of them *)
(* when the check counts none.                                             *)
LEMMA LandFinds ==
  ASSUME PlanInv, FindLegsOverLand PROVE StretchesStand' /\ ClearIsUntouched'
<1>1. stage \in {"refine", "repair"} /\ stage' = "repair" /\ route' = route
  BY DEF FindLegsOverLand
<1>2. route \in Seq(Nat) /\ Len(route) >= 2
  BY <1>1 DEF PlanInv, StretchesStand
<1>3. PICK L \in Nat : L = Len(route) /\ L >= 2
  BY <1>2, LenProperties
<1>4. PICK bad \in SUBSET (1 .. L - 1) :
        /\ pending' = [k \in DOMAIN InOrder(bad, L - 1) |->
                         Stretch(InOrder(bad, L - 1)[k], InOrder(bad, L - 1)[k] + 1)]
        /\ repair' = [passes |-> repair.passes + 1, fixed |-> FALSE,
                      remaining |-> Cardinality(bad), seen |-> route]
  BY <1>3 DEF FindLegsOverLand
<1> DEFINE list == InOrder(bad, L - 1)
<1>5. L - 1 \in Nat
  BY <1>3
<1>6. /\ list \in Seq(1 .. L - 1)
      /\ \A i \in 1 .. Len(list) : list[i] \in bad
      /\ \A i, j \in 1 .. Len(list) : i < j => list[i] < list[j]
  BY <1>5, InOrderIs
<1>7. pending' = [k \in DOMAIN list |-> Stretch(list[k], list[k] + 1)]
  BY <1>4
<1> HIDE DEF list
<1>8. PICK m \in Nat : m = Len(list) /\ DOMAIN list = 1 .. m
  BY <1>6, LenProperties
<1>9. \A k \in 1 .. m : list[k] \in 1 .. L - 1
  BY <1>6, <1>8
<1> DEFINE found == [k \in 1 .. m |-> Stretch(list[k], list[k] + 1)]
<1>10. pending' = found
  BY <1>7, <1>8
<1>11. ASSUME NEW k \in 1 .. m
       PROVE  Stands(route, found[k]) /\ found[k].from = list[k] /\ found[k].to = list[k] + 1
  <2>1. PICK from \in Nat \ {0}, to \in Nat : from = list[k] /\ to = list[k] + 1 /\ from < to /\ to <= L
    <3>1. list[k] \in 1 .. L - 1
      BY <1>9
    <3>2. list[k] \in Nat \ {0} /\ list[k] + 1 \in Nat /\ list[k] < list[k] + 1 /\ list[k] + 1 <= L
      BY <1>3, <3>1
    <3> QED
      BY <3>2
  <2>2. found[k] = [from |-> from, to |-> to, was |-> SubSeq(route, from, to)]
    BY <2>1 DEF Stretch
  <2>3. Stands(route, [from |-> from, to |-> to, was |-> SubSeq(route, from, to)])
    BY <1>2, <1>3, <2>1, FoundStands
  <2> QED
    BY <2>1, <2>2, <2>3
<1>12. ASSUME NEW k \in 1 .. m, NEW l \in 1 .. m, k < l PROVE found[k].to - 1 <= found[l].from
  <2>1. PICK a \in Nat, b \in Nat : a = list[k] /\ b = list[l] /\ a < b
    BY <1>6, <1>8, <1>9, <1>12
  <2>2. (a + 1) - 1 <= b
    BY <2>1
  <2> QED
    BY <1>11, <2>1, <2>2
<1>13. found = [k \in 1 .. m |-> found[k]]
  OBVIOUS
<1>14. bad = {} => found = <<>>
  BY <1>6, <1>8
<1> HIDE DEF found
<1>15. \A k \in 1 .. m : Stands(route, found[k])
  BY <1>11
<1>16. StretchesStand'
  <2>1. PICK r : r = route
    OBVIOUS
  <2> QED
    BY <1>1, <1>2, <1>10, <1>12, <1>13, <1>15, <2>1, FoundAre
<1>17. Cardinality(bad) \in Nat /\ (Cardinality(bad) = 0 => bad = {})
  <2>1. IsFiniteSet(bad)
    <3>1. IsFiniteSet(1 .. L - 1)
      BY <1>3, FS_Interval
    <3> QED
      BY <3>1, FS_Subset
  <2> QED
    BY <2>1, FS_CardinalityType, FS_EmptySet
<1>18. repair.passes + 1 \in Nat
  <2>1. repair \in [passes : Nat, fixed : BOOLEAN, remaining : Nat, seen : Seq(Nat)]
    BY DEF PlanInv, ClearIsUntouched
  <2> QED
    BY <2>1
<1>19. /\ repair' \in [passes : Nat, fixed : BOOLEAN, remaining : Nat, seen : Seq(Nat)]
       /\ repair'.remaining = Cardinality(bad) /\ repair'.seen = route
  BY <1>2, <1>4, <1>17, <1>18
<1>20. ClearIsUntouched'
  BY <1>1, <1>10, <1>14, <1>17, <1>19 DEF ClearIsUntouched
<1> QED
  BY <1>16, <1>20

(* Repairing a leg, or letting it stand, leaves what the check counted;    *)
(* when it counted none there is nothing to repair.                        *)
LEMMA ClearKeeps ==
  ASSUME PlanInv, PlanNext, ~FindLegsOverLand PROVE ClearIsUntouched'
<1> DEFINE Records == [passes : Nat, fixed : BOOLEAN, remaining : Nat, seen : Seq(Nat)]
<1>1. repair \in Records /\ StretchesStand /\ ClearIsUntouched
  BY DEF PlanInv, ClearIsUntouched
<1>2. \/ repair' = repair
      \/ RepairLeg /\ repair' = [repair EXCEPT !.fixed = TRUE]
  BY DEF PlanNext, AnchorLongLegs, CoarsePassFails, Fail, GrowSection, LegDoesNotFit, StartPlanning, PlanSection,
         RetryLegByLeg, RetryBare, Retry, SectionUnplannable, Merge, StraightenJoin, StretchStands,
         FindTightWater, Refine, RepairLeg, Answer
<1>3. repair' \in Records /\ repair'.remaining = repair.remaining /\ repair'.seen = repair.seen
  <2>1. CASE repair' = repair
    BY <1>1, <2>1
  <2>2. CASE repair' = [repair EXCEPT !.fixed = TRUE]
    BY <1>1, <2>2
  <2> QED
    BY <1>2, <2>1, <2>2
<1>4. ASSUME stage' \in {"repair", "answered"}, repair'.remaining = 0
      PROVE  pending' = <<>> /\ repair'.seen = route'
  <2>1. \/ stage \in {"repair", "answered"} /\ UNCHANGED <<route, pending>>
        \/ stage' = stage /\ pending # <<>>
    BY <1>4 DEF PlanNext, AnchorLongLegs, CoarsePassFails, Fail, GrowSection, LegDoesNotFit, StartPlanning,
         PlanSection, RetryLegByLeg, RetryBare, Retry, SectionUnplannable, Merge, StraightenJoin, StretchStands,
         FindTightWater, Refine, RepairLeg, Answer, Respliced
  <2> QED
    BY <1>1, <1>3, <1>4, <2>1 DEF ClearIsUntouched
<1> QED
  BY <1>3, <1>4 DEF ClearIsUntouched

(* The other parts of the invariant, step by step.                         *)
LEMMA PlanStep == PlanInv /\ [PlanNext]_planVars => PlanInv'
<1> SUFFICES ASSUME PlanInv, [PlanNext]_planVars PROVE PlanInv'
  OBVIOUS
<1> DEFINE Rest == SectionsMeet' /\ PartsChain' /\ StretchesStand'
<1>1. ASSUME UNCHANGED <<placed, sections, parts>>, stage # "anchor", stage' \notin {"anchor", "plan"}
      PROVE  SectionsMeet' /\ PartsChain'
  BY <1>1 DEF PlanInv, SectionsMeet, PartsChain
<1>2. ASSUME stage' = "failed", UNCHANGED <<placed, sections, parts, route, pending>> PROVE Rest
  BY <1>2 DEF PlanInv, SectionsMeet, PartsChain, StretchesStand
<1>3. CASE AnchorLongLegs
  <2>1. /\ placed' \in Seq(BOOLEAN) /\ Len(placed') >= 2
        /\ stage' = "group" /\ sections' = <<>> /\ UNCHANGED <<route, pending>>
    BY <1>3, AnchorsAdd DEF AnchorLongLegs, PlanInv, SectionsMeet
  <2>2. SectionsMeet' /\ PartsChain'
    BY <2>1, EmptySeq DEF SectionsMeet, PartsChain
  <2>3. StretchesStand'
    BY <2>1 DEF PlanInv, StretchesStand
  <2>4. ~FindLegsOverLand
    BY <1>3 DEF AnchorLongLegs, FindLegsOverLand
  <2>5. ClearIsUntouched'
    BY <1>3, <2>4, ClearKeeps DEF PlanNext
  <2> QED
    BY <2>2, <2>3, <2>5 DEF PlanInv
<1>4. CASE GrowSection
  BY <1>4, GrowSectionMeets
<1>5. ASSUME NEW k \in DOMAIN parts, StartPlanning(k) PROVE PlanInv'
  BY <1>5, PlanInvLeft DEF StartPlanning, PlanInv
<1>6. ASSUME NEW k \in DOMAIN parts, PlanSection(k) PROVE PlanInv'
  BY <1>6, PlanSectionKeeps
<1>7. ASSUME NEW k \in DOMAIN parts, RetryLegByLeg(k) \/ RetryBare(k) PROVE PlanInv'
  BY <1>7, RetryKeeps
<1>8. CASE FindLegsOverLand
  <2>1. SectionsMeet' /\ PartsChain'
    BY <1>1, <1>8 DEF FindLegsOverLand, planning
  <2> QED
    BY <1>8, <2>1, LandFinds DEF PlanInv
<1>9. CASE UNCHANGED planVars
  BY <1>9, PlanInvLeft DEF planVars, PlanInv
<1>10. ASSUME PlanNext, ~FindLegsOverLand, Rest PROVE PlanInv'
  BY <1>10, ClearKeeps DEF PlanInv
<1>11. CASE Merge
  <2>1. stage' = "straighten" /\ sections' = <<>> /\ UNCHANGED placed
    BY <1>11 DEF Merge
  <2>2. SectionsMeet' /\ PartsChain'
    BY <2>1, EmptySeq DEF PlanInv, SectionsMeet, PartsChain
  <2>3. ~FindLegsOverLand
    BY <1>11 DEF Merge, AllPlanned, FindLegsOverLand
  <2> QED
    BY <1>10, <1>11, <2>2, <2>3, MergeFinds DEF PlanNext
<1>12. CASE FindTightWater
  <2>1. SectionsMeet' /\ PartsChain'
    BY <1>1, <1>12 DEF FindTightWater, planning
  <2>2. ~FindLegsOverLand
    BY <1>12 DEF FindTightWater, FindLegsOverLand
  <2> QED
    BY <1>10, <1>12, <2>1, <2>2, TightWaterFinds DEF PlanNext
<1>13. CASE StraightenJoin \/ Refine \/ RepairLeg \/ StretchStands
  <2>1. UNCHANGED <<stage, placed, sections, parts>>
    BY <1>13 DEF StraightenJoin, Refine, RepairLeg, StretchStands, Respliced, planning
  <2>2. SectionsMeet' /\ PartsChain'
    BY <2>1, PlanInvLeft
  <2>3. StretchesStand'
    BY <1>13, VisitKeeps DEF StraightenJoin, Refine, RepairLeg
  <2>4. CASE FindLegsOverLand
    BY <1>8, <2>4
  <2> QED
    BY <1>10, <1>13, <2>2, <2>3, <2>4 DEF PlanNext
<1>14. CASE Answer
  <2>1. SectionsMeet' /\ PartsChain'
    BY <1>1, <1>14 DEF Answer, planning
  <2>2. StretchesStand'
    BY <1>14 DEF Answer, PlanInv, StretchesStand
  <2>3. CASE FindLegsOverLand
    BY <1>8, <2>3
  <2> QED
    BY <1>10, <1>14, <2>1, <2>2, <2>3 DEF PlanNext
<1>15. CASE CoarsePassFails \/ LegDoesNotFit \/ \E k \in DOMAIN parts : SectionUnplannable(k)
  <2>1. Rest
    BY <1>2, <1>15 DEF CoarsePassFails, LegDoesNotFit, SectionUnplannable, Fail
  <2>2. CASE FindLegsOverLand
    BY <1>8, <2>2
  <2> QED
    BY <1>10, <1>15, <2>1, <2>2 DEF PlanNext
<1> QED
  BY <1>3, <1>4, <1>5, <1>6, <1>7, <1>8, <1>9, <1>11, <1>12, <1>13, <1>14, <1>15 DEF PlanNext

-----------------------------------------------------------------------------
(* The planner's invariant: sections meet end to end and are planned       *)
(* through what the operator placed, stretches stand where they were       *)
(* found, and a check that counted no leg over land looked at the route as *)
(* it is.                                                                  *)
THEOREM PlanInvariant == PlanSpec => []PlanInv
BY PlanInitInv, PlanStep, PTL DEF PlanSpec

(* Whatever fails and is retried, the planned runs meet from the first     *)
(* point to the last and go by every point the operator placed             *)
(* (planLegByLeg, keepUserPlaced), for any number of points and sections.  *)
THEOREM PlansKeepPoints == PlanSpec => []PlannedThroughEveryPoint
BY PlanInvariant, PlannedFollows, PTL

(* Working from the end, a splice hits the stretch that was found          *)
(* (straightenSectionJoins, refineTightWater, repairLegsOverLand).         *)
THEOREM SplicesHit == PlanSpec => []SplicesHitTheirStretch
<1>1. PlanInv => SplicesHitTheirStretch
  BY StandingHit DEF PlanInv
<1> QED
  BY <1>1, PlanInvariant, PTL

(* No route is answered without a warning unless that very route was       *)
(* checked and found clear (repairLegsOverLand).                           *)
THEOREM AnswersAreChecked == PlanSpec => []NeverSilent
<1>1. PlanInv => NeverSilent
  BY DEF PlanInv, ClearIsUntouched, NeverSilent
<1> QED
  BY <1>1, PlanInvariant, PTL
-----------------------------------------------------------------------------
(* The grid's arithmetic.                                                  *)

(* The square root of a natural number, rounded down.                      *)
LEMMA SquareRootIs ==
  ASSUME NEW n \in Nat
  PROVE  /\ SquareRoot(n) \in Nat
         /\ SquareRoot(n) * SquareRoot(n) <= n
         /\ n < (SquareRoot(n) + 1) * (SquareRoot(n) + 1)
<1> DEFINE Root(k, r) == r \in 0 .. k /\ r * r <= k /\ k < (r + 1) * (r + 1)
           T == {k \in Nat : \E r : Root(k, r)}
<1>1. 0 \in T
  <2>1. Root(0, 0)
    OBVIOUS
  <2> QED
    BY <2>1
<1>2. ASSUME NEW k \in 0 .. n - 1, k \in T PROVE k + 1 \in T
  <2>1. PICK r : Root(k, r)
    BY <1>2
  <2>2. r \in Nat /\ k \in Nat
    BY <2>1
  <2>3. CASE k + 1 < (r + 1) * (r + 1)
    <3>1. Root(k + 1, r)
      BY <2>1, <2>2, <2>3
    <3> QED
      BY <2>2, <3>1
  <2>4. CASE k + 1 = (r + 1) * (r + 1)
    <3>1. (r + 1) * (r + 1) < ((r + 1) + 1) * ((r + 1) + 1)
      BY <2>2
    <3>2. r + 1 \in 0 .. k + 1
      BY <2>1, <2>2
    <3>3. Root(k + 1, r + 1)
      BY <2>4, <3>1, <3>2, <2>2
    <3> HIDE DEF Root
    <3> QED
      BY <2>2, <3>3
  <2>5. k + 1 < (r + 1) * (r + 1) \/ k + 1 = (r + 1) * (r + 1)
    <3> DEFINE X == (r + 1) * (r + 1)
    <3>1. X \in Int /\ k < X
      BY <2>1, <2>2
    <3> HIDE DEF X
    <3>2. k + 1 < X \/ k + 1 = X
      BY <2>2, <3>1
    <3> QED
      BY <3>2 DEF X
  <2> HIDE DEF T
  <2> QED
    BY <2>3, <2>4, <2>5, Zenon
<1> HIDE DEF T
<1>3. \A k \in 0 .. n : k \in T
  BY ONLY n \in Nat, <1>1, <1>2, RangeInduction
<1>4. n \in 0 .. n
  OBVIOUS
<1>5. \E r \in 0 .. n : r * r <= n /\ n < (r + 1) * (r + 1)
  BY <1>3, <1>4 DEF T
<1> DEFINE R == CHOOSE r \in 0 .. n : r * r <= n /\ n < (r + 1) * (r + 1)
<1>6. R \in 0 .. n /\ R * R <= n /\ n < (R + 1) * (R + 1)
  BY <1>5
<1> QED
  BY <1>6 DEF SquareRoot

(* Squares of naturals are ordered as the numbers are.                     *)
LEMMA SquaresOrdered ==
  ASSUME NEW x \in Nat, NEW y \in Nat, x * x < y * y
  PROVE  x < y
<1> SUFFICES ASSUME y <= x PROVE FALSE
  OBVIOUS
<1>1. y * y <= x * y
  BY SMT
<1>2. x * y <= x * x
  BY SMT
<1> QED
  BY <1>1, <1>2

(* One side of a triangle of cells is no longer than the others together,  *)
(* also when they are rounded: r and q down, l up.                         *)
Triangle(u, v, a, b, r, q, l) ==
  /\ u \in Int /\ v \in Int /\ a \in Int /\ b \in Int
  /\ r \in Nat /\ q \in Nat /\ l \in Nat
  /\ r * r <= 10000 * ((u + a) * (u + a) + (v + b) * (v + b))
  /\ 10000 * (u * u + v * v) < (q + 1) * (q + 1)
  /\ 10000 * (a * a + b * b) <= l * l

LEMMA TriangleRounded ==
  ASSUME NEW u, NEW v, NEW a, NEW b, NEW r, NEW q, NEW l, Triangle(u, v, a, b, r, q, l)
  PROVE  r <= l + q
<1> USE DEF Triangle
<1> DEFINE D == 10000 * (u * u + v * v)
           E == 10000 * (a * a + b * b)
           P == 10000 * (u * a + v * b)
           X == q + 1
<1>1. D \in Int /\ E \in Int /\ P \in Int /\ X \in Nat /\ 0 <= D /\ 0 <= E
  <2>1. 0 <= u * u /\ 0 <= v * v /\ 0 <= a * a /\ 0 <= b * b
    BY SMT
  <2> QED
    BY <2>1
<1>2. P * P <= D * E
  <2> DEFINE w == u * b - v * a
  <2>1. (u * u + v * v) * (a * a + b * b) = (u * a + v * b) * (u * a + v * b) + w * w
    BY SMT
  <2>2. w \in Int /\ 0 <= w * w
    BY SMT
  <2> DEFINE p == u * a + v * b
             d == u * u + v * v
             e == a * a + b * b
  <2>3. p \in Int /\ d \in Int /\ e \in Int /\ p * p <= d * e /\ p * p \in Int /\ d * e \in Int
    BY <2>1, <2>2
  <2>4. P * P = 100000000 * (p * p) /\ D * E = 100000000 * (d * e)
    <3>1. P = 10000 * p /\ D = 10000 * d /\ E = 10000 * e
      OBVIOUS
    <3> HIDE DEF p, d, e, P, D, E
    <3> QED
      BY <2>3, <3>1
  <2> HIDE DEF p, d, e, P, D, E
  <2> QED
    BY <2>3, <2>4
<1>3. r * r <= D + E + 2 * P
  <2>1. 10000 * ((u + a) * (u + a) + (v + b) * (v + b)) = D + E + 2 * P
    BY SMT
  <2> QED
    BY <2>1
<1>4. D < X * X /\ E <= l * l
  OBVIOUS
<1> HIDE DEF D, E, P, X
<1>5. D * E <= (X * X) * (l * l)
  <2>1. D * E <= (X * X) * E
    BY <1>1, <1>4, SMT
  <2>2. (X * X) * E <= (X * X) * (l * l)
    BY <1>1, <1>4, SMT
  <2> QED
    BY <1>1, <2>1, <2>2
<1>6. P <= X * l
  <2> SUFFICES ASSUME X * l < P PROVE FALSE
    BY <1>1
  <2>1. X * l \in Nat
    BY <1>1
  <2> DEFINE Y == X * l
  <2>2. Y * Y < P * P
    <3> HIDE DEF Y
    <3>1. Y \in Nat /\ P \in Nat /\ Y < P
      BY <2>1, <1>1 DEF Y
    <3>2. Y * Y <= Y * P /\ Y * P < P * P
      BY <3>1
    <3> QED
      BY <3>1, <3>2
  <2>3. Y * Y = (X * X) * (l * l)
    BY <1>1
  <2> QED
    BY <1>1, <1>2, <1>5, <2>2, <2>3
<1>7. r * r < (X + l) * (X + l)
  <2>1. (X + l) * (X + l) = X * X + l * l + 2 * (X * l)
    BY <1>1
  <2> QED
    BY <1>1, <1>3, <1>4, <1>6, <2>1
<1>8. r < X + l
  BY <1>1, <1>7, SquaresOrdered
<1> QED
  BY <1>8 DEF X

(* The heuristic is consistent: the straight way to the goal grows by no   *)
(* more than a move's length.                                              *)
LEMMA HeuristicConsistent ==
  ASSUME NEW goal \in Cells, NEW c \in Cells, NEW d \in Neighbours(c)
  PROVE  /\ d \in Cells /\ d # c
         /\ StraightTo(goal, c) \in Nat /\ StraightTo(goal, d) \in Nat
         /\ MoveLength[<<d[1] - c[1], d[2] - c[2]>>] \in Nat
         /\ StraightTo(goal, c) <= MoveLength[<<d[1] - c[1], d[2] - c[2]>>] + StraightTo(goal, d)
<1>1. PICK o \in NeighbourOffsets : d = <<c[1] + o[1], c[2] + o[2]>>
  BY DEF Neighbours
<1>2. d \in Cells
  BY DEF Neighbours
<1>3. /\ o \in (-2 .. 2) \X (-2 .. 2) /\ o = <<o[1], o[2]>> /\ o[1] \in Int /\ o[2] \in Int
      /\ o[1] * o[1] + o[2] * o[2] \in {1, 2, 5}
  BY DEF NeighbourOffsets
<1>4. /\ c[1] \in 0 .. Width - 1 /\ c[2] \in 0 .. Height - 1
      /\ d[1] \in 0 .. Width - 1 /\ d[2] \in 0 .. Height - 1
      /\ goal[1] \in 0 .. Width - 1 /\ goal[2] \in 0 .. Height - 1
      /\ Width \in Nat /\ Height \in Nat
  BY <1>2, GridAssumption DEF Cells
<1>5. ASSUME NEW x \in Cells
      PROVE  \E r \in Nat : /\ StraightTo(goal, x) = r
                            /\ r * r <= 10000 * ((x[1] - goal[1]) * (x[1] - goal[1]) + (x[2] - goal[2]) * (x[2] - goal[2]))
                            /\ 10000 * ((x[1] - goal[1]) * (x[1] - goal[1]) + (x[2] - goal[2]) * (x[2] - goal[2])) < (r + 1) * (r + 1)
  <2>1. x[1] \in 0 .. Width - 1 /\ x[2] \in 0 .. Height - 1
    BY DEF Cells
  <2> DEFINE i == Magnitude(x[1] - goal[1])
             j == Magnitude(x[2] - goal[2])
             n == 10000 * (i * i + j * j)
  <2>2. i \in 0 .. Width /\ j \in 0 .. Height
    BY <2>1, <1>4 DEF Magnitude
  <2>3. i * i = (x[1] - goal[1]) * (x[1] - goal[1]) /\ j * j = (x[2] - goal[2]) * (x[2] - goal[2])
    BY <2>1, <1>4 DEF Magnitude
  <2>4. StraightTo(goal, x) = SquareRoot(n)
    BY <2>2 DEF StraightTo, Straight
  <2>5. n \in Nat
    BY <2>2
  <2> HIDE DEF n
  <2>6. SquareRoot(n) \in Nat /\ SquareRoot(n) * SquareRoot(n) <= n /\ n < (SquareRoot(n) + 1) * (SquareRoot(n) + 1)
    BY <2>5, SquareRootIs
  <2>7. n = 10000 * ((x[1] - goal[1]) * (x[1] - goal[1]) + (x[2] - goal[2]) * (x[2] - goal[2]))
    BY <2>3 DEF n
  <2> QED
    BY <2>4, <2>6, <2>7
<1>6. PICK r \in Nat : /\ StraightTo(goal, c) = r
                       /\ r * r <= 10000 * ((c[1] - goal[1]) * (c[1] - goal[1]) + (c[2] - goal[2]) * (c[2] - goal[2]))
  BY <1>5
<1>7. PICK q \in Nat : /\ StraightTo(goal, d) = q
                       /\ 10000 * ((d[1] - goal[1]) * (d[1] - goal[1]) + (d[2] - goal[2]) * (d[2] - goal[2])) < (q + 1) * (q + 1)
  BY <1>2, <1>5
<1>8. d[1] - c[1] = o[1] /\ d[2] - c[2] = o[2]
  BY <1>1, <1>3, <1>4
<1>9. d # c
  <2> SUFFICES ASSUME d = c PROVE FALSE
    OBVIOUS
  <2>1. o[1] = 0 /\ o[2] = 0
    BY <1>3, <1>4, <1>8
  <2> QED
    BY <1>3, <2>1
<1> DEFINE l == MoveLength[o]
<1>10. l \in Nat /\ 10000 * (o[1] * o[1] + o[2] * o[2]) <= l * l
  <2>1. l = CASE o[1] * o[1] + o[2] * o[2] = 1 -> 100
              [] o[1] * o[1] + o[2] * o[2] = 2 -> 142
              [] OTHER -> 224
    BY DEF MoveLength
  <2> HIDE DEF l
  <2> DEFINE s == o[1] * o[1] + o[2] * o[2]
  <2>2. s \in {1, 2, 5} /\ l = CASE s = 1 -> 100 [] s = 2 -> 142 [] OTHER -> 224
    BY <1>3, <2>1
  <2> HIDE DEF s
  <2>3. l \in Nat /\ 10000 * s <= l * l
    BY <2>2
  <2> QED
    BY <2>3 DEF s
<1>11. l = MoveLength[<<d[1] - c[1], d[2] - c[2]>>]
  BY <1>3, <1>8
<1> HIDE DEF l
<1>12. r <= l + q
  <2> DEFINE u == d[1] - goal[1]
             v == d[2] - goal[2]
             a == -o[1]
             b == -o[2]
  <2>1. u \in Int /\ v \in Int /\ a \in Int /\ b \in Int
    BY <1>3, <1>4
  <2>2. c[1] - goal[1] = u + a /\ c[2] - goal[2] = v + b
    BY <1>3, <1>4, <1>8
  <2>3. r * r <= 10000 * ((u + a) * (u + a) + (v + b) * (v + b))
    BY <1>6, <2>2
  <2>4. 10000 * (u * u + v * v) < (q + 1) * (q + 1)
    BY <1>7
  <2>5. 10000 * (a * a + b * b) <= l * l
    <3>1. a * a = o[1] * o[1] /\ b * b = o[2] * o[2]
      BY <1>3
    <3> QED
      BY <1>10, <3>1
  <2> HIDE DEF u, v, a, b
  <2> QED
    <3>1. Triangle(u, v, a, b, r, q, l)
      BY ONLY <2>1, <2>3, <2>4, <2>5, <1>10, r \in Nat, q \in Nat DEF Triangle
    <3> QED
      BY ONLY <3>1, TriangleRounded
<1> QED
  BY <1>2, <1>6, <1>7, <1>9, <1>10, <1>11, <1>12

-----------------------------------------------------------------------------
(* Walking a line, and what a move costs.                                  *)

(* A walk is a list of places, and not empty.                              *)
Places == Int \X Int
Walks == {w \in Seq(Places) : Len(w) >= 1}

LEMMA WalkIs ==
  ASSUME NEW a \in Cells, NEW b \in Cells
  PROVE  Walk(a, b) \in Walks
<1> DEFINE n == 2 * Steps(a, b)
           Eq(f) == f = [s \in 0 .. n |->
                           IF s = 0 THEN <<a>>
                           ELSE LET before == f[s - 1] IN
                                IF Sample(a, b, s, n) = Last(before) THEN before
                                ELSE Append(before, Sample(a, b, s, n))]
           step == [p \in (1 .. n) \X Walks |-> IF Sample(a, b, p[1], n) = Last(p[2]) THEN p[2]
                                                ELSE Append(p[2], Sample(a, b, p[1], n))]
           base == <<a>>
<1>1. a[1] \in Int /\ a[2] \in Int /\ b[1] \in Int /\ b[2] \in Int /\ a \in Places
  BY GridAssumption DEF Cells, Places
<1>2. n \in Nat
  BY <1>1 DEF Steps, Larger, Magnitude
<1> HIDE DEF n
<1>3. \A s \in 1 .. n : Sample(a, b, s, n) \in Places
  <2> TAKE s \in 1 .. n
  <2>1. ASSUME NEW x \in Int, NEW y \in Int PROVE Rounded(x, y, s, n) \in Int
    <3>1. 2 * (x * n + s * (y - x)) + n \in Int
      BY <1>2
    <3>2. 2 * n \in Nat /\ 2 * n > 0
      BY <1>2
    <3> QED
      BY <3>1, <3>2 DEF Rounded
  <2> QED
    BY <1>1, <2>1 DEF Sample, Places
<1>4. base \in Walks
  BY <1>1 DEF Walks
<1>5. \A s \in 1 .. n, w \in Walks : Append(w, Sample(a, b, s, n)) \in Walks
  <2> TAKE s \in 1 .. n, w \in Walks
  <2>1. w \in Seq(Places) /\ Len(w) >= 1 /\ Len(w) \in Nat
    BY DEF Walks
  <2>2. Append(w, Sample(a, b, s, n)) \in Seq(Places) /\ Len(Append(w, Sample(a, b, s, n))) = Len(w) + 1
    BY <1>3, <2>1, AppendProperties
  <2> QED
    BY <2>1, <2>2 DEF Walks
<1>6. step \in [(1 .. n) \X Walks -> Walks]
  BY <1>5
<1>7. \A s \in 1 .. n, w \in Walks :
        step[<<s, w>>] = IF Sample(a, b, s, n) = Last(w) THEN w ELSE Append(w, Sample(a, b, s, n))
  OBVIOUS
<1>8. 0 \in Nat /\ 1 \in Nat /\ 1 = 0 + 1 /\ 0 <= n
  BY <1>2
<1> HIDE DEF step, base
<1>9. PICK f : Recurs(f, Walks, 0, 1, n, base, step)
  BY ONLY <1>2, <1>4, <1>6, <1>8, Recursion
<1>10. Eq(f)
  <2>1. \A s \in 1 .. n : s - 1 \in 0 .. n /\ f[s - 1] \in Walks
    BY <1>2, <1>9 DEF Recurs
  <2>2. \A s \in 0 .. n : s = 0 \/ s \in 1 .. n
    BY <1>2
  <2>3. \A s \in 0 .. n : f[s] = IF s = 0 THEN <<a>>
                                 ELSE IF Sample(a, b, s, n) = Last(f[s - 1]) THEN f[s - 1]
                                 ELSE Append(f[s - 1], Sample(a, b, s, n))
    BY <1>7, <1>9, <2>1, <2>2 DEF base, Recurs
  <2> QED
    BY <1>9, <2>3 DEF Recurs
<1> DEFINE g == CHOOSE f_1 : Eq(f_1)
<1>11. Eq(g)
  BY <1>10
<1>12. Walk(a, b) = g[n]
  BY DEF Walk, n
<1> HIDE DEF g
<1>13. Unfolds(g, Walks, 0, 1, n, base, step)
  <2>1. 0 \in 0 .. n /\ \A s \in 1 .. n : s \in 0 .. n /\ s # 0
    BY <1>2
  <2> QED
    BY <1>7, <1>11, <2>1 DEF base, Unfolds
<1>14. \A s \in 0 .. n : g[s] \in Walks
  BY ONLY <1>2, <1>4, <1>6, <1>8, <1>13, RecursionStays
<1> QED
  BY <1>2, <1>12, <1>14

(* What the cells of a walk cost together is not less than open water.     *)
LEMMA SumAlongIs ==
  ASSUME NEW price, NEW w, NEW n \in Nat, Len(w) = n,
         \A k \in 1 .. n : price[w[k]] \in Nat /\ price[w[k]] >= One
  PROVE  SumAlong(price, w) \in Nat /\ SumAlong(price, w) >= One * n
<1> DEFINE Eq(f) == f = [k \in 0 .. n |-> IF k = 0 THEN 0 ELSE f[k - 1] + price[w[k]]]
           step == [p \in (1 .. n) \X Nat |-> p[2] + price[w[p[1]]]]
<1>1. step \in [(1 .. n) \X Nat -> Nat]
  OBVIOUS
<1>2. \A k \in 1 .. n, v \in Nat : step[<<k, v>>] = v + price[w[k]]
  OBVIOUS
<1>3. 0 \in Nat /\ 1 \in Nat /\ 1 = 0 + 1 /\ 0 <= n
  OBVIOUS
<1> HIDE DEF step
<1>4. PICK f : Recurs(f, Nat, 0, 1, n, 0, step)
  BY ONLY n \in Nat, <1>1, <1>3, Recursion
<1>5. Eq(f)
  <2>1. \A k \in 1 .. n : k - 1 \in 0 .. n /\ f[k - 1] \in Nat
    BY <1>4 DEF Recurs
  <2>2. \A k \in 0 .. n : k = 0 \/ k \in 1 .. n
    OBVIOUS
  <2>3. \A k \in 0 .. n : f[k] = IF k = 0 THEN 0 ELSE f[k - 1] + price[w[k]]
    BY <1>2, <1>4, <2>1, <2>2 DEF Recurs
  <2> QED
    BY <1>4, <2>3 DEF Recurs
<1> DEFINE g == CHOOSE f_1 : Eq(f_1)
<1>6. Eq(g)
  BY <1>5
<1>7. SumAlong(price, w) = g[n]
  BY DEF SumAlong
<1> HIDE DEF g
<1> DEFINE T == {k \in Nat : g[k] \in Nat /\ g[k] >= One * k}
<1>8. 0 \in T
  BY <1>6 DEF One
<1>9. ASSUME NEW k \in 0 .. n - 1, k \in T PROVE k + 1 \in T
  <2>1. k + 1 \in 1 .. n /\ k + 1 \in 0 .. n /\ (k + 1) - 1 = k /\ k + 1 # 0 /\ k \in Nat
    OBVIOUS
  <2>2. g[k + 1] = g[k] + price[w[k + 1]]
    BY <1>6, <2>1
  <2>3. price[w[k + 1]] \in Nat /\ price[w[k + 1]] >= One
    BY <2>1
  <2>4. g[k] \in Nat /\ g[k] >= One * k
    BY <1>9
  <2> QED
    BY <2>1, <2>2, <2>3, <2>4 DEF One
<1> HIDE DEF T
<1>10. \A k \in 0 .. n : k \in T
  BY ONLY n \in Nat, <1>3, <1>8, <1>9, RangeInduction
<1>11. n \in T
  BY <1>10
<1> QED
  BY <1>7, <1>11 DEF T

(* The prices finalize gives: none for a closed cell, open water's at the  *)
(* least for another.                                                      *)
PricesAreWhole(price) == \A c \in Cells : price[c] = 0 \/ (price[c] \in Nat /\ price[c] >= One)

(* A move costs at least its length in open water.                         *)
LEMMA MoveCostIs ==
  ASSUME NEW price, PricesAreWhole(price), NEW c \in Cells, NEW d \in Moves(price, c)
  PROVE  /\ MoveCost(price, c, d) \in Nat
         /\ MoveCost(price, c, d) >= One * MoveLength[<<d[1] - c[1], d[2] - c[2]>>]
<1> DEFINE w == Walked[<<c, d>>]
           n == Len(w)
           sum == SumAlong(price, w)
           l == MoveLength[<<d[1] - c[1], d[2] - c[2]>>]
<1>1. d \in Neighbours(c) /\ Navigable(price, c, d)
  BY DEF Moves
<1>2. d \in Cells /\ l \in Nat
  BY <1>1, HeuristicConsistent
<1>3. w \in Walks
  BY <1>2, WalkIs DEF Walked
<1>4. n \in Nat /\ n >= 1 /\ w \in Seq(Places)
  BY <1>3 DEF Walks
<1>5. \A k \in 1 .. n : price[w[k]] \in Nat /\ price[w[k]] >= One
  <2> TAKE k \in 1 .. n
  <2>1. Traversed[<<c, d>>] = ToSet(w)
    BY <1>2 DEF Traversed
  <2>2. w[k] \in ToSet(w)
    BY <1>4 DEF ToSet
  <2>3. w[k] \in Cells /\ price[w[k]] # 0
    BY <1>1, <2>1, <2>2 DEF Navigable, Passable
  <2> QED
    BY <2>3 DEF PricesAreWhole
<1>6. MoveCost(price, c, d) = (l * sum) \div n
  BY DEF MoveCost, MeanCost
<1> HIDE DEF w, n, l, sum
<1>7. sum \in Nat /\ sum >= One * n
  BY <1>4, <1>5, SumAlongIs DEF n, sum
<1>8. l * sum >= (One * l) * n /\ l * sum \in Nat
  <2>1. l * sum >= l * (One * n)
    BY <1>2, <1>4, <1>7 DEF One
  <2> QED
    BY <1>2, <1>4, <1>7, <2>1 DEF One
<1> DEFINE p == l * sum
           q == One * l
<1>9. p \in Nat /\ q \in Nat /\ p >= q * n
  BY <1>2, <1>8 DEF One
<1> HIDE DEF p, q
<1>10. p \div n \in Nat /\ p \div n >= q
  <2>1. p \div n \in Int /\ p < ((p \div n) + 1) * n /\ 0 <= p \div n
    BY <1>4, <1>9
  <2>2. q * n < ((p \div n) + 1) * n
    BY <1>4, <1>9, <2>1
  <2> DEFINE x == (p \div n) + 1
  <2>3. x \in Int /\ q * n < x * n
    BY <2>1, <2>2
  <2> HIDE DEF x
  <2>4. q < x
    <3> SUFFICES ASSUME x <= q PROVE FALSE
      BY <1>9, <2>3
    <3>1. x * n <= q * n
      BY <1>4, <1>9, <2>3
    <3> QED
      BY <1>4, <1>9, <2>3, <3>1
  <2> QED
    BY <1>9, <2>1, <2>4 DEF x
<1> QED
  BY <1>6, <1>10 DEF p, q, l

-----------------------------------------------------------------------------
(* The prices of a finished grid.                                          *)

(* Of some numbers one is the least.                                       *)
LEMMA LeastOfIs ==
  ASSUME NEW S \in SUBSET Nat, S # {}
  PROVE  LeastOf(S) \in S /\ \A u \in S : LeastOf(S) <= u
<1>1. PICK x \in S : \A y \in S : ~(<<y, x>> \in OpToRel(<, Nat))
  BY ONLY NatLessThanWellFounded, WFMin, S \in SUBSET Nat, S # {}
<1>2. \A y \in S : ~(y < x)
  BY <1>1 DEF OpToRel
<1>3. \A y \in S : x <= y
  BY <1>2
<1>4. \E v \in S : \A u \in S : v <= u
  BY <1>3
<1> QED
  BY <1>4 DEF LeastOf

(* Distances are numbers, whatever is relaxed.                             *)
Distances == [Cells -> Nat]
OffsetLists == [1 .. 8 -> Int \X Int \X Nat]

LEMMA RelaxCellIs ==
  ASSUME NEW d \in Distances, NEW c, NEW offsets \in OffsetLists
  PROVE  RelaxCell(d, c, offsets) \in Distances
<1> DEFINE seen == {k \in DOMAIN offsets : <<c[1] + offsets[k][1], c[2] + offsets[k][2]>> \in Cells}
           offers == {d[<<c[1] + offsets[k][1], c[2] + offsets[k][2]>>] + offsets[k][3] : k \in seen}
           v == LeastOf(offers \cup {d[c]})
<1>1. DOMAIN offsets = 1 .. 8 /\ \A k \in 1 .. 8 : offsets[k][3] \in Nat
  BY DEF OffsetLists
<1>2. offers \subseteq Nat
  <2> SUFFICES ASSUME NEW k \in seen
               PROVE  d[<<c[1] + offsets[k][1], c[2] + offsets[k][2]>>] + offsets[k][3] \in Nat
    OBVIOUS
  <2>1. <<c[1] + offsets[k][1], c[2] + offsets[k][2]>> \in Cells /\ offsets[k][3] \in Nat
    BY <1>1
  <2> DEFINE x == <<c[1] + offsets[k][1], c[2] + offsets[k][2]>>
  <2>2. d[x] \in Nat
    BY <2>1 DEF Distances
  <2> QED
    BY <2>1, <2>2
<1>3. RelaxCell(d, c, offsets) = [d EXCEPT ![c] = v]
  BY DEF RelaxCell
<1> HIDE DEF offers, seen, v
<1>4. c \in Cells => v \in Nat
  <2> HAVE c \in Cells
  <2>1. d[c] \in Nat
    BY DEF Distances
  <2> DEFINE S == offers \cup {d[c]}
  <2>2. S \in SUBSET Nat /\ S # {}
    BY <1>2, <2>1
  <2> HIDE DEF S
  <2>3. LeastOf(S) \in Nat
    BY <2>2, LeastOfIs
  <2> QED
    BY <2>3 DEF S, v
<1> QED
  BY <1>3, <1>4 DEF Distances

LEMMA SweepIs ==
  ASSUME NEW start \in Distances, NEW order, NEW offsets \in OffsetLists
  PROVE  Sweep(start, order, offsets) \in Distances
<1> DEFINE n == Width * Height
           Eq(f) == f = [k \in 0 .. n |-> IF k = 0 THEN start
                                          ELSE LET before == f[k - 1] IN RelaxCell(before, order[k], offsets)]
           step == [p \in (1 .. n) \X Distances |-> RelaxCell(p[2], order[p[1]], offsets)]
<1>1. n \in Nat
  BY GridAssumption
<1> HIDE DEF n
<1>2. step \in [(1 .. n) \X Distances -> Distances]
  BY RelaxCellIs
<1>3. \A k \in 1 .. n, v \in Distances : step[<<k, v>>] = RelaxCell(v, order[k], offsets)
  OBVIOUS
<1>4. 0 \in Nat /\ 1 \in Nat /\ 1 = 0 + 1 /\ 0 <= n
  BY <1>1
<1> HIDE DEF step
<1>5. PICK f : Recurs(f, Distances, 0, 1, n, start, step)
  BY ONLY <1>1, <1>2, <1>4, start \in Distances, Recursion
<1>6. Eq(f)
  <2>1. \A k \in 1 .. n : k - 1 \in 0 .. n /\ f[k - 1] \in Distances
    BY <1>1, <1>5 DEF Recurs
  <2>2. \A k \in 0 .. n : k = 0 \/ k \in 1 .. n
    BY <1>1
  <2>3. \A k \in 0 .. n : f[k] = IF k = 0 THEN start ELSE RelaxCell(f[k - 1], order[k], offsets)
    BY <1>3, <1>5, <2>1, <2>2 DEF Recurs
  <2> QED
    BY <1>5, <2>3 DEF Recurs
<1> DEFINE g == CHOOSE f_1 : Eq(f_1)
<1>7. Eq(g)
  BY <1>6
<1>8. Sweep(start, order, offsets) = g[n]
  BY DEF Sweep, n
<1> HIDE DEF g
<1>9. Unfolds(g, Distances, 0, 1, n, start, step)
  <2>1. 0 \in 0 .. n /\ \A k \in 1 .. n : k \in 0 .. n /\ k # 0
    BY <1>1
  <2> QED
    BY <1>3, <1>7, <2>1 DEF Unfolds
<1>10. \A k \in 0 .. n : g[k] \in Distances
  BY ONLY <1>1, <1>2, <1>4, <1>9, start \in Distances, RecursionStays
<1> QED
  BY <1>1, <1>8, <1>10

LEMMA ChamferDistanceIs ==
  ASSUME NEW src
  PROVE  ChamferDistance(src) \in Distances
<1>1. Forward \in OffsetLists
  <2>1. DOMAIN Forward = 1 .. 8 /\ Forward = [k \in 1 .. 8 |-> Forward[k]]
    BY DEF Forward
  <2>2. \A k \in 1 .. 8 : Forward[k] \in Int \X Int \X Nat
    BY DEF Forward
  <2> QED
    BY <2>1, <2>2 DEF OffsetLists
<1>2. Backward \in OffsetLists
  <2>1. DOMAIN Forward = 1 .. 8 /\ \A k \in 1 .. 8 : Forward[k] \in Int \X Int \X Nat
    BY <1>1 DEF OffsetLists
  <2>2. Backward = [k \in 1 .. 8 |-> <<-Forward[k][1], -Forward[k][2], Forward[k][3]>>]
    BY <2>1 DEF Backward
  <2> QED
    BY <2>1, <2>2 DEF OffsetLists
<1> DEFINE start == [c \in Cells |-> IF c \in src THEN 0 ELSE Far]
<1>3. start \in Distances
  BY DEF Distances, Far
<1> HIDE DEF start
<1> DEFINE LastFirst == [k \in 1 .. Width * Height |-> RowMajor[Width * Height + 1 - k]]
           there == Sweep(start, RowMajor, Forward)
<1>4. there \in Distances
  BY <1>1, <1>3, SweepIs
<1>5. ChamferDistance(src) = Sweep(there, LastFirst, Backward)
  BY DEF ChamferDistance, start
<1> HIDE DEF there, LastFirst
<1> QED
  BY <1>2, <1>4, <1>5, SweepIs

(* The penalties only add to the price of open water.                      *)
OptionSets ==
  [draft : Nat, ideal : Nat, unknownRange : Nat, unknown : Nat, depth : Nat,
   hard : Nat, soft : Nat, shore : Nat, beside : Nat, offChannel : Nat,
   unsurveyed : Nat, restricted : Nat]

LEMMA CellCostIs ==
  ASSUME NEW c, c.depth \in Int, NEW near \in Nat, NEW o \in OptionSets
  PROVE  CellCost(c, near, o) = 0 \/ (CellCost(c, near, o) \in Nat /\ CellCost(c, near, o) >= One)
<1>1. /\ o.draft \in Nat /\ o.ideal \in Nat /\ o.unknownRange \in Nat /\ o.unknown \in Nat /\ o.depth \in Nat
      /\ o.hard \in Nat /\ o.soft \in Nat /\ o.shore \in Nat /\ o.beside \in Nat /\ o.offChannel \in Nat
      /\ o.unsurveyed \in Nat /\ o.restricted \in Nat
  BY DEF OptionSets
<1>2. ASSUME NEW p \in Nat, NEW q \in Nat, NEW r \in Nat, r # 0
      PROVE  (p * q) \div r \in Nat
  <2>1. p * q \in Nat
    OBVIOUS
  <2> QED
    BY <1>2, <2>1
<1>3. DepthCost(c, near, o) \in Nat
  <2>1. CASE o.ideal > o.draft /\ c.depth < o.ideal
    <3>1. o.ideal - c.depth \in Nat /\ o.ideal - o.draft \in Nat /\ o.ideal - o.draft # 0
      BY <1>1, <2>1
    <3>2. (o.depth * (o.ideal - c.depth)) \div (o.ideal - o.draft) \in Nat
      BY <1>1, <1>2, <3>1
    <3> QED
      BY <1>1, <3>2 DEF DepthCost
  <2>2. CASE ~(o.ideal > o.draft /\ c.depth < o.ideal)
    BY <1>1, <2>2 DEF DepthCost
  <2> QED
    BY <2>1, <2>2
<1>4. ShoreCost(near, o) \in Nat
  <2>1. CASE o.soft > o.hard /\ near < o.soft
    <3>1. o.soft - near \in Nat /\ o.soft - o.hard \in Nat /\ o.soft - o.hard # 0
      BY <1>1, <2>1
    <3>2. (o.shore * (o.soft - near)) \div (o.soft - o.hard) \in Nat
      BY <1>1, <1>2, <3>1
    <3> QED
      BY <2>1, <3>2 DEF ShoreCost
  <2>2. CASE ~(o.soft > o.hard /\ near < o.soft)
    BY <2>2 DEF ShoreCost
  <2> QED
    BY <2>1, <2>2
<1>5. ChannelCost(c, o) \in Nat
  BY <1>1 DEF ChannelCost
<1> DEFINE x == IF "unsurveyed" \in c.flags THEN o.unsurveyed ELSE 0
           y == IF "restricted" \in c.flags THEN o.restricted ELSE 0
<1>6. x \in Nat /\ y \in Nat
  BY <1>1
<1>7. CellCost(c, near, o) \in {0, One + DepthCost(c, near, o) + ShoreCost(near, o) + ChannelCost(c, o) + x + y}
  BY DEF CellCost
<1> HIDE DEF x, y
<1> QED
  BY <1>3, <1>4, <1>5, <1>6, <1>7 DEF One

LEMMA FinalizeIs ==
  ASSUME NEW cells, \A c \in Cells : cells[c].depth \in Int, NEW o \in OptionSets
  PROVE  PricesAreWhole(Finalize(cells, o))
<1> DEFINE closed == {c \in Cells : ClosedHard(cells[c], o.draft)}
           near == ChamferDistance(closed)
<1>1. near \in Distances
  BY ChamferDistanceIs
<1>2. Finalize(cells, o) = [c \in Cells |-> CellCost(cells[c], near[c], o)]
  BY DEF Finalize
<1> HIDE DEF near
<1>3. ASSUME NEW c \in Cells
      PROVE  Finalize(cells, o)[c] = 0 \/ (Finalize(cells, o)[c] \in Nat /\ Finalize(cells, o)[c] >= One)
  <2>1. near[c] \in Nat
    BY <1>1 DEF Distances
  <2>2. Finalize(cells, o)[c] = CellCost(cells[c], near[c], o)
    BY <1>2
  <2>3. cells[c].depth \in Int
    OBVIOUS
  <2> QED
    BY <2>1, <2>2, <2>3, CellCostIs
<1> QED
  BY <1>3 DEF PricesAreWhole

(* So what is still ahead from a cell is no more than a move from it and   *)
(* what is ahead from there.                                               *)
LEMMA AheadIs ==
  ASSUME NEW price, PricesAreWhole(price), NEW goal \in Cells, NEW c \in Cells, NEW d \in Moves(price, c)
  PROVE  /\ d \in Cells /\ d # c
         /\ MoveCost(price, c, d) \in Nat
         /\ One * StraightTo(goal, c) \in Nat /\ One * StraightTo(goal, d) \in Nat
         /\ One * StraightTo(goal, c) <= MoveCost(price, c, d) + One * StraightTo(goal, d)
<1> DEFINE l == MoveLength[<<d[1] - c[1], d[2] - c[2]>>]
           hc == StraightTo(goal, c)
           hd == StraightTo(goal, d)
           m == MoveCost(price, c, d)
<1>1. d \in Neighbours(c)
  BY DEF Moves
<1>2. d \in Cells /\ d # c /\ hc \in Nat /\ hd \in Nat /\ l \in Nat /\ hc <= l + hd
  BY <1>1, HeuristicConsistent
<1>3. m \in Nat /\ m >= One * l
  BY MoveCostIs
<1> HIDE DEF l, hc, hd, m
<1>4. One * hc \in Nat /\ One * hd \in Nat /\ One * hc <= m + One * hd
  BY <1>2, <1>3 DEF One
<1> QED
  BY <1>2, <1>3, <1>4 DEF hc, hd, m

LEMMA AheadIsNat ==
  ASSUME NEW goal \in Cells, NEW c \in Cells
  PROVE  One * StraightTo(goal, c) \in Nat /\ StraightTo(goal, goal) = 0
<1>1. ASSUME NEW x \in Cells
      PROVE  StraightTo(goal, x) \in Nat /\ (x = goal => StraightTo(goal, x) = 0)
  <2>1. x[1] \in 0 .. Width - 1 /\ x[2] \in 0 .. Height - 1 /\ goal[1] \in 0 .. Width - 1 /\ goal[2] \in 0 .. Height - 1
    BY DEF Cells
  <2> DEFINE i == Magnitude(x[1] - goal[1])
             j == Magnitude(x[2] - goal[2])
             n == 10000 * (i * i + j * j)
  <2>2. i \in 0 .. Width /\ j \in 0 .. Height /\ Width \in Nat /\ Height \in Nat
    BY <2>1, GridAssumption DEF Magnitude
  <2>3. StraightTo(goal, x) = SquareRoot(n)
    BY <2>2 DEF StraightTo, Straight
  <2>4. n \in Nat
    BY <2>2
  <2>5. x = goal => n = 0
    BY <2>1, GridAssumption DEF Magnitude
  <2> HIDE DEF n
  <2>6. SquareRoot(n) \in Nat /\ SquareRoot(n) * SquareRoot(n) <= n
    BY <2>4, SquareRootIs
  <2>7. n = 0 => SquareRoot(n) = 0
    BY <2>6
  <2> QED
    BY <2>3, <2>5, <2>6, <2>7
<1> QED
  BY <1>1 DEF One

-----------------------------------------------------------------------------
(* The cheapest chains, round by round.                                    *)
Costs == [Cells -> Nat \cup {Infinite}]

(* A round keeps a cost or improves on it by one move, and by every move   *)
(* that improves on it.                                                    *)
LEMMA OneMoveMoreIs ==
  ASSUME NEW price, PricesAreWhole(price), NEW before \in Costs, NEW c \in Cells
  PROVE  /\ OneMoveMore(price, before)[c] \in Nat \cup {Infinite}
         /\ OneMoveMore(price, before)[c] # Infinite =>
              \/ OneMoveMore(price, before)[c] = before[c]
              \/ \E b \in Cells : /\ before[b] # Infinite /\ c \in Moves(price, b)
                                  /\ OneMoveMore(price, before)[c] = before[b] + MoveCost(price, b, c)
         /\ before[c] # Infinite =>
              OneMoveMore(price, before)[c] # Infinite /\ OneMoveMore(price, before)[c] <= before[c]
         /\ \A b \in Cells : before[b] # Infinite /\ c \in Moves(price, b) =>
              /\ OneMoveMore(price, before)[c] # Infinite
              /\ OneMoveMore(price, before)[c] <= before[b] + MoveCost(price, b, c)
<1> DEFINE froms == {e \in Cells : before[e] # Infinite /\ c \in Moves(price, e)}
           all == Offers(price, before, c)
           v == OneMoveMore(price, before)[c]
<1>1. all = {before[b] + MoveCost(price, b, c) : b \in froms} \cup ({before[c]} \ {Infinite})
  BY DEF Offers
<1>2. v = IF all = {} THEN Infinite ELSE LeastOf(all)
  BY DEF OneMoveMore
<1>3. \A b \in froms : before[b] \in Nat /\ MoveCost(price, b, c) \in Nat
  BY MoveCostIs DEF Costs
<1>4. before[c] \in Nat \cup {Infinite}
  BY DEF Costs
<1> HIDE DEF all, v
<1>5. all \in SUBSET Nat
  BY <1>1, <1>3, <1>4
<1>6. all # {} => v \in all /\ \A u \in all : v <= u
  BY <1>2, <1>5, LeastOfIs
<1>7. v # Infinite => all # {} /\ v \in all
  BY <1>2, <1>6
<1>8. \A u \in all : v \in Nat /\ v # Infinite /\ v <= u
  <2> TAKE u \in all
  <2>1. v \in all /\ v <= u
    BY <1>6
  <2>2. v \in Nat
    BY <1>5, <2>1
  <2> QED
    BY <2>1, <2>2 DEF Infinite
<1>9. v \in Nat \cup {Infinite}
  BY <1>2, <1>8, <1>6
<1>10. v # Infinite => v = before[c] \/ \E b \in froms : v = before[b] + MoveCost(price, b, c)
  BY <1>1, <1>7
<1>11. before[c] # Infinite => before[c] \in all
  BY <1>1
<1>12. \A b \in froms : before[b] + MoveCost(price, b, c) \in all
  BY <1>1
<1> QED
  BY <1>8, <1>9, <1>10, <1>11, <1>12 DEF v

RoundsOf(R, price, from) ==
  /\ R \in [0 .. Width * Height -> Costs]
  /\ R[0] = [c \in Cells |-> IF c = from THEN 0 ELSE Infinite]
  /\ \A k \in 1 .. Width * Height : R[k] = OneMoveMore(price, R[k - 1])
  /\ Cheapest(price, from) = R[Width * Height]
Rounds(price, from) == CHOOSE R : RoundsOf(R, price, from)

LEMMA RoundsAre ==
  ASSUME NEW price, PricesAreWhole(price), NEW from \in Cells
  PROVE  RoundsOf(Rounds(price, from), price, from)
<1> DEFINE n == Width * Height
           start == [c \in Cells |-> IF c = from THEN 0 ELSE Infinite]
           Eq(f) == f = [k \in 0 .. n |->
                           IF k = 0 THEN start
                           ELSE LET before == f[k - 1]  after == OneMoveMore(price, before) IN
                                IF after = before THEN before ELSE after]
           step == [p \in (1 .. n) \X Costs |-> OneMoveMore(price, p[2])]
<1>1. n \in Nat
  BY GridAssumption
<1> HIDE DEF n
<1>2. start \in Costs
  BY DEF Costs
<1>3. \A before \in Costs : OneMoveMore(price, before) \in Costs
  <2> TAKE before \in Costs
  <2>1. \A c \in Cells : OneMoveMore(price, before)[c] \in Nat \cup {Infinite}
    BY OneMoveMoreIs
  <2>2. OneMoveMore(price, before) = [c \in Cells |-> OneMoveMore(price, before)[c]]
    BY DEF OneMoveMore
  <2> QED
    BY <2>1, <2>2 DEF Costs
<1>4. step \in [(1 .. n) \X Costs -> Costs]
  BY <1>3
<1>5. \A k \in 1 .. n, v \in Costs : step[<<k, v>>] = OneMoveMore(price, v)
  OBVIOUS
<1>6. 0 \in Nat /\ 1 \in Nat /\ 1 = 0 + 1 /\ 0 <= n
  BY <1>1
<1> HIDE DEF step, start
<1>7. PICK f : Recurs(f, Costs, 0, 1, n, start, step)
  BY ONLY <1>1, <1>2, <1>4, <1>6, Recursion
<1>8. Eq(f)
  <2>1. \A k \in 1 .. n : k - 1 \in 0 .. n /\ f[k - 1] \in Costs
    BY <1>1, <1>7 DEF Recurs
  <2>2. \A k \in 0 .. n : k = 0 \/ k \in 1 .. n
    BY <1>1
  <2>3. \A k \in 0 .. n : f[k] = IF k = 0 THEN start
                                 ELSE IF OneMoveMore(price, f[k - 1]) = f[k - 1] THEN f[k - 1]
                                 ELSE OneMoveMore(price, f[k - 1])
    BY <1>5, <1>7, <2>1, <2>2 DEF Recurs
  <2> QED
    BY <1>7, <2>3 DEF Recurs
<1> DEFINE g == CHOOSE f_1 : Eq(f_1)
<1>9. Eq(g)
  BY <1>8
<1>10. Cheapest(price, from) = g[n]
  BY DEF Cheapest, n, start
<1> HIDE DEF g
<1>11. \A k \in 1 .. n : g[k] = OneMoveMore(price, g[k - 1])
  <2>1. \A k \in 1 .. n : k \in 0 .. n /\ k # 0
    BY <1>1
  <2> QED
    BY <1>9, <2>1
<1>12. g[0] = start
  <2>1. 0 \in 0 .. n
    BY <1>1
  <2> QED
    BY <1>9, <2>1
<1>13. Unfolds(g, Costs, 0, 1, n, start, step)
  BY <1>5, <1>11, <1>12 DEF Unfolds
<1>14. \A k \in 0 .. n : g[k] \in Costs
  BY ONLY <1>1, <1>2, <1>4, <1>6, <1>13, RecursionStays
<1>15. g \in [0 .. n -> Costs]
  BY <1>9, <1>14
<1>16. RoundsOf(g, price, from)
  BY <1>10, <1>11, <1>12, <1>15 DEF RoundsOf, n, start
<1> QED
  BY <1>16 DEF Rounds

(* What a round found, later rounds keep or improve.                       *)
LEMMA RoundsKeep ==
  ASSUME NEW price, PricesAreWhole(price), NEW from \in Cells, NEW c \in Cells,
         NEW j \in 0 .. Width * Height, Rounds(price, from)[j][c] # Infinite
  PROVE  \A k \in j .. Width * Height :
           Rounds(price, from)[k][c] # Infinite /\ Rounds(price, from)[k][c] <= Rounds(price, from)[j][c]
<1> DEFINE n == Width * Height
           R == Rounds(price, from)
           T == {k \in 0 .. n : R[k][c] # Infinite /\ R[k][c] <= R[j][c]}
<1>1. n \in Nat
  BY GridAssumption
<1>2. /\ \A k \in 0 .. n : R[k] \in Costs
      /\ \A k \in 1 .. n : R[k] = OneMoveMore(price, R[k - 1])
  <2>1. RoundsOf(R, price, from)
    BY RoundsAre
  <2> QED
    BY <2>1 DEF RoundsOf
<1> HIDE DEF n, R
<1>3. \A k \in 0 .. n : R[k][c] \in Nat \cup {Infinite}
  BY <1>2 DEF Costs
<1>4. j \in 0 .. n /\ R[j][c] # Infinite /\ j \in Nat
  BY <1>1 DEF n, R
<1>5. j \in T
  BY <1>3, <1>4
<1>6. ASSUME NEW k \in j .. n - 1, k \in T PROVE k + 1 \in T
  <2>1. k + 1 \in 1 .. n /\ k + 1 \in 0 .. n /\ k \in 0 .. n /\ (k + 1) - 1 = k
    BY <1>1, <1>4
  <2>2. R[k] \in Costs /\ R[k + 1] = OneMoveMore(price, R[k]) /\ R[k][c] # Infinite /\ R[k][c] <= R[j][c]
    BY <1>2, <1>6, <2>1
  <2>3. R[k + 1][c] # Infinite /\ R[k + 1][c] <= R[k][c]
    BY <2>2, OneMoveMoreIs
  <2>4. R[k + 1][c] \in Nat /\ R[k][c] \in Nat /\ R[j][c] \in Nat
    BY <1>3, <1>4, <2>1, <2>2, <2>3
  <2> QED
    BY <2>1, <2>2, <2>3, <2>4
<1> HIDE DEF T
<1>7. \A k \in j .. n : k \in T
  BY ONLY <1>1, <1>4, <1>5, <1>6, RangeInduction
<1> QED
  BY <1>7 DEF T, R, n

(* There are no more cells than the grid's width times its height.         *)
LEMMA CellsAreCounted ==
  ASSUME NEW S \in SUBSET Cells
  PROVE  IsFiniteSet(S) /\ Cardinality(S) \in 0 .. Width * Height
<1>1. Width \in Nat /\ Height \in Nat /\ Width # 0 /\ Height # 0
  BY GridAssumption
<1>2. /\ IsFiniteSet(0 .. Width - 1) /\ Cardinality(0 .. Width - 1) = Width
      /\ IsFiniteSet(0 .. Height - 1) /\ Cardinality(0 .. Height - 1) = Height
  <2>1. \A m \in Nat : m # 0 => IsFiniteSet(0 .. m - 1) /\ Cardinality(0 .. m - 1) = m
    <3> TAKE m \in Nat
    <3> HAVE m # 0
    <3>0. m \in Nat /\ m # 0
      OBVIOUS
    <3>1. 0 \in Int /\ m - 1 \in Int /\ ~(0 > m - 1) /\ (m - 1) - 0 + 1 = m
      BY ONLY <3>0
    <3> QED
      BY <3>1, FS_Interval
  <2> QED
    BY <1>1, <2>1
<1>3. IsFiniteSet(Cells) /\ Cardinality(Cells) = Width * Height
  BY <1>2, FS_Product, ZenonT(30) DEF Cells
<1>4. IsFiniteSet(S) /\ Cardinality(S) <= Width * Height
  BY <1>3, FS_Subset
<1>5. Cardinality(S) \in Nat /\ Width * Height \in Nat
  BY <1>1, <1>4, FS_CardinalityType
<1> QED
  BY <1>4, <1>5

-----------------------------------------------------------------------------
(* A*: what is known of the open and the closed cells while a leg is       *)
(* searched.                                                               *)
Searches ==
  [from : Cells, to : Cells, gScore : Costs, came : [Cells -> Cells \cup {NoCell}],
   closed : SUBSET Cells, open : SUBSET Cells]
Reached == search.closed \cup search.open

(* The cells with a score are those that were opened; the start has none   *)
(* to pay.                                                                 *)
ScoredAreReached ==
  /\ search.gScore[search.from] = 0
  /\ search.closed \cap search.open = {}
  /\ \A c \in Cells : c \in Reached <=> search.gScore[c] # Infinite

(* Every move from a closed cell was tried.                                *)
MovesTaken ==
  \A c \in search.closed : \A d \in Moves(cost, c) :
    d \in Reached /\ search.gScore[d] <= search.gScore[c] + MoveCost(cost, c, d)

(* Cells were closed in the order of their estimates.                      *)
ClosedInOrder == \A c \in search.closed, o \in search.open : Estimate(c) <= Estimate(o)

(* A score is the cost of a chain over closed cells, so of as many moves   *)
(* as there are, or dearer.                                                *)
ScoresAreChains ==
  \A c \in Reached :
    LET round == Rounds(cost, search.from)[Cardinality(search.closed)] IN
    round[c] # Infinite /\ round[c] <= search.gScore[c]

ChartIsSounded == \A c \in Cells : chart[c].depth \in Int

SearchInv ==
  /\ ChartIsSounded /\ PricesAreWhole(cost)
  /\ search # NoSearch => /\ search \in Searches
                          /\ ScoredAreReached /\ MovesTaken /\ ClosedInOrder /\ ScoresAreChains

-----------------------------------------------------------------------------
(* When the goal has the least estimate, the invariant makes its score the *)
(* cheapest: whatever a round finds is either the score of a closed cell   *)
(* or not less than the estimate of an open one.                           *)
LEMMA NothingCheaper ==
  ASSUME SearchInv, search # NoSearch, NEW k \in 0 .. Width * Height
  PROVE  \A c \in Cells : Rounds(cost, search.from)[k][c] # Infinite =>
           \/ c \in search.closed /\ search.gScore[c] <= Rounds(cost, search.from)[k][c]
           \/ \E o \in search.open : Estimate(o) <= Rounds(cost, search.from)[k][c] + One * StraightTo(search.to, c)
<1> DEFINE n == Width * Height
           R == Rounds(cost, search.from)
           h(c) == One * StraightTo(search.to, c)
           Bounded(i, c) == \/ c \in search.closed /\ search.gScore[c] <= R[i][c]
                            \/ \E o \in search.open : Estimate(o) <= R[i][c] + h(c)
           T == {i \in 0 .. n : \A c \in Cells : R[i][c] # Infinite => Bounded(i, c)}
<1>1. n \in Nat
  BY GridAssumption
<1>2. /\ search \in Searches /\ PricesAreWhole(cost)
      /\ ScoredAreReached /\ MovesTaken
  BY DEF SearchInv
<1>3. /\ search.from \in Cells /\ search.to \in Cells
      /\ search.closed \subseteq Cells /\ search.open \subseteq Cells
      /\ search.gScore \in Costs
  BY <1>2 DEF Searches
<1>4. /\ \A i \in 0 .. n : R[i] \in Costs
      /\ \A i \in 1 .. n : R[i] = OneMoveMore(cost, R[i - 1])
      /\ R[0] = [c \in Cells |-> IF c = search.from THEN 0 ELSE Infinite]
  <2>1. RoundsOf(R, cost, search.from)
    BY <1>2, <1>3, RoundsAre
  <2> QED
    BY <2>1 DEF RoundsOf
<1>5. \A c \in Cells : h(c) \in Nat
  BY <1>3, AheadIsNat
<1>6. \A o \in Reached : o \in Cells /\ search.gScore[o] \in Nat /\ Estimate(o) = search.gScore[o] + h(o)
  BY <1>2, <1>3 DEF ScoredAreReached, Reached, Costs, Estimate
<1>7. \A o \in search.open : Estimate(o) \in Nat
  BY <1>3, <1>5, <1>6 DEF Reached
<1>8. \A i \in 0 .. n, c \in Cells : R[i][c] \in Nat \cup {Infinite}
  BY <1>4 DEF Costs
<1> HIDE DEF n, R, h
<1>9. 0 \in T
  <2>1. 0 \in 0 .. n
    BY <1>1
  <2> SUFFICES ASSUME NEW c \in Cells, R[0][c] # Infinite PROVE Bounded(0, c)
    BY <2>1
  <2>2. c = search.from /\ R[0][c] = 0
    BY <1>4
  <2>3. search.gScore[c] = 0 /\ c \in Reached
    BY <1>2, <2>2 DEF ScoredAreReached, Infinite
  <2>4. CASE c \in search.closed
    BY <2>2, <2>3, <2>4
  <2>5. CASE c \in search.open
    <3>1. Estimate(c) <= R[0][c] + h(c)
      BY <1>5, <1>6, <2>2, <2>3
    <3> QED
      BY <2>5, <3>1
  <2> QED
    BY <2>3, <2>4, <2>5 DEF Reached
<1>10. ASSUME NEW i \in 0 .. n - 1, i \in T PROVE i + 1 \in T
  <2>1. i + 1 \in 1 .. n /\ i + 1 \in 0 .. n /\ i \in 0 .. n /\ (i + 1) - 1 = i
    BY <1>1
  <2>2. R[i] \in Costs /\ R[i + 1] = OneMoveMore(cost, R[i])
    BY <1>4, <2>1
  <2>3. \A c \in Cells : R[i][c] # Infinite => Bounded(i, c)
    BY <1>10
  <2> SUFFICES ASSUME NEW c \in Cells, R[i + 1][c] # Infinite PROVE Bounded(i + 1, c)
    BY <2>1
  <2>4. \/ R[i + 1][c] = R[i][c]
        \/ \E b \in Cells : R[i][b] # Infinite /\ c \in Moves(cost, b) /\ R[i + 1][c] = R[i][b] + MoveCost(cost, b, c)
    BY <1>2, <2>2, OneMoveMoreIs
  <2>5. CASE R[i + 1][c] = R[i][c]
    BY <2>3, <2>5
  <2>6. ASSUME NEW b \in Cells, R[i][b] # Infinite, c \in Moves(cost, b), R[i + 1][c] = R[i][b] + MoveCost(cost, b, c)
        PROVE  Bounded(i + 1, c)
    <3> DEFINE m == MoveCost(cost, b, c)
    <3>1. m \in Nat /\ h(b) <= m + h(c)
      BY <1>2, <1>3, <2>6, AheadIs DEF h
    <3>2. R[i][b] \in Nat /\ h(b) \in Nat /\ h(c) \in Nat
      BY <1>5, <1>8, <2>1, <2>6
    <3>3. R[i + 1][c] = R[i][b] + m
      BY <2>6
    <3> HIDE DEF m
    <3>4. CASE b \in search.closed /\ search.gScore[b] <= R[i][b]
      <4>1. c \in Reached /\ search.gScore[c] <= search.gScore[b] + m
        BY <1>2, <2>6, <3>4 DEF MovesTaken, m
      <4>2. search.gScore[b] \in Nat /\ search.gScore[c] \in Nat
        BY <1>6, <3>4, <4>1 DEF Reached
      <4>3. search.gScore[c] <= R[i + 1][c]
        BY <3>1, <3>2, <3>3, <3>4, <4>1, <4>2
      <4>4. CASE c \in search.closed
        BY <4>3, <4>4
      <4>5. CASE c \in search.open
        <5>1. Estimate(c) = search.gScore[c] + h(c)
          BY <1>6, <4>1
        <5>2. R[i + 1][c] \in Nat
          BY <3>1, <3>2, <3>3
        <5>3. Estimate(c) <= R[i + 1][c] + h(c)
          BY <3>2, <4>2, <4>3, <5>1, <5>2
        <5> QED
          BY <4>5, <5>3
      <4> QED
        BY <4>1, <4>4, <4>5 DEF Reached
    <3>5. ASSUME NEW o \in search.open, Estimate(o) <= R[i][b] + h(b)
          PROVE  Bounded(i + 1, c)
      <4>1. Estimate(o) \in Nat
        BY <1>7
      <4>2. Estimate(o) <= R[i + 1][c] + h(c)
        BY <3>1, <3>2, <3>3, <3>5, <4>1
      <4> QED
        BY <4>2
    <3> QED
      BY <2>3, <2>6, <3>4, <3>5
  <2> QED
    BY <2>4, <2>5, <2>6
<1> HIDE DEF T
<1>11. \A i \in 0 .. n : i \in T
  BY ONLY <1>1, 0 \in Nat, <1>9, <1>10, RangeInduction
<1> QED
  BY <1>11 DEF T, n, R, h

(* The score of a reached cell is never less than the cheapest cost.       *)
LEMMA NotUnderpriced ==
  ASSUME SearchInv, search # NoSearch, NEW c \in Reached
  PROVE  /\ Cheapest(cost, search.from)[c] # Infinite
         /\ Cheapest(cost, search.from)[c] <= search.gScore[c]
<1> DEFINE n == Width * Height
           R == Rounds(cost, search.from)
           j == Cardinality(search.closed)
<1>1. search \in Searches /\ PricesAreWhole(cost) /\ ScoresAreChains /\ ScoredAreReached
  BY DEF SearchInv
<1>2. search.closed \in SUBSET Cells /\ c \in Cells /\ search.from \in Cells /\ search.gScore \in Costs
  BY <1>1 DEF Searches, Reached
<1>3. j \in 0 .. n /\ n \in j .. n /\ n \in 0 .. n
  <2>1. j \in 0 .. n /\ n \in Nat
    BY <1>2, CellsAreCounted, GridAssumption
  <2> HIDE DEF j, n
  <2> QED
    BY <2>1
<1>4. R[j][c] # Infinite /\ R[j][c] <= search.gScore[c]
  BY <1>1 DEF ScoresAreChains
<1>5. R[n][c] # Infinite /\ R[n][c] <= R[j][c]
  BY <1>1, <1>2, <1>3, <1>4, RoundsKeep
<1>6. RoundsOf(R, cost, search.from)
  BY <1>1, <1>2, RoundsAre
<1>7. R[n] \in Costs /\ R[j] \in Costs /\ Cheapest(cost, search.from) = R[n]
  BY <1>3, <1>6 DEF RoundsOf
<1> HIDE DEF R, n, j
<1>8. R[n][c] \in Nat \cup {Infinite} /\ R[j][c] \in Nat \cup {Infinite}
  BY <1>2, <1>7 DEF Costs
<1>9. search.gScore[c] \in Nat
  BY <1>1, <1>2 DEF ScoredAreReached, Costs
<1> QED
  BY <1>4, <1>5, <1>7, <1>8, <1>9

LEMMA InvIsCheapest == SearchInv => RouteIsCheapest
<1> SUFFICES ASSUME SearchInv, search # NoSearch, search.to \in search.open, Least(search.to)
             PROVE  search.gScore[search.to] = Cheapest(cost, search.from)[search.to]
  BY DEF RouteIsCheapest
<1> DEFINE n == Width * Height
           R == Rounds(cost, search.from)
           t == search.to
           v == R[n][t]
<1>1. search \in Searches /\ PricesAreWhole(cost) /\ ScoredAreReached
  BY DEF SearchInv
<1>2. t \in Cells /\ search.from \in Cells /\ search.open \subseteq Cells /\ search.gScore \in Costs
  BY <1>1 DEF Searches
<1>3. n \in 0 .. n
  BY GridAssumption
<1>4. v = Cheapest(cost, search.from)[t] /\ v \in Nat \cup {Infinite}
  <2>1. RoundsOf(R, cost, search.from)
    BY <1>1, <1>2, RoundsAre
  <2>2. R[n] \in Costs /\ Cheapest(cost, search.from) = R[n]
    BY <1>3, <2>1 DEF RoundsOf
  <2> QED
    BY <1>2, <2>2 DEF Costs
<1>5. t \in Reached /\ t \notin search.closed
  BY <1>1 DEF Reached, ScoredAreReached
<1>6. v # Infinite /\ v <= search.gScore[t]
  BY <1>4, <1>5, NotUnderpriced
<1>7. \A o \in search.open : search.gScore[o] \in Nat
  BY <1>1, <1>2 DEF ScoredAreReached, Reached, Costs
<1>8. \E o \in search.open : Estimate(o) <= v + One * StraightTo(t, t)
  BY <1>2, <1>3, <1>5, <1>6, NothingCheaper
<1>9. StraightTo(t, t) = 0 /\ One * StraightTo(t, t) = 0 /\ \A o \in Cells : One * StraightTo(t, o) \in Nat
  BY <1>2, AheadIsNat DEF One
<1> HIDE DEF v
<1>10. PICK o \in search.open : Estimate(o) <= v
  BY <1>4, <1>6, <1>8, <1>9
<1>11. Estimate(t) = search.gScore[t] /\ Estimate(o) \in Nat /\ Estimate(t) \in Nat
  <2>1. Estimate(t) = search.gScore[t] + One * StraightTo(t, t) /\ Estimate(o) = search.gScore[o] + One * StraightTo(t, o)
    BY DEF Estimate
  <2>2. search.gScore[t] \in Nat /\ search.gScore[o] \in Nat /\ One * StraightTo(t, o) \in Nat
    BY <1>2, <1>7, <1>9
  <2> QED
    BY <1>9, <2>1, <2>2
<1>12. Estimate(t) <= Estimate(o)
  BY DEF Least
<1> QED
  BY <1>4, <1>6, <1>10, <1>11, <1>12

-----------------------------------------------------------------------------
(* Every step keeps the invariant.                                         *)
LEMMA SearchInitInv == SearchInit => SearchInv
<1> SUFFICES ASSUME SearchInit PROVE SearchInv
  OBVIOUS
<1>1. ChartIsSounded
  BY SearchAssumption DEF SearchInit, ChartIsSounded
<1>2. PricesAreWhole(Finalize(chart, Options))
  BY <1>1, OptionsAssumption, FinalizeIs DEF ChartIsSounded, OptionSets
<1> QED
  BY <1>1, <1>2 DEF SearchInit, SearchInv

(* What is not searched can be anything, as long as the prices are whole.  *)
LEMMA RelaxKeeps ==
  ASSUME SearchInv, Relax
  PROVE  SearchInv'
<1>1. Relaxed \in OptionSets
  BY OptionsAssumption DEF Relaxed, OptionSets
<1>2. PricesAreWhole(Finalize(chart, Relaxed))
  BY <1>1, FinalizeIs DEF SearchInv, ChartIsSounded
<1> QED
  BY <1>2 DEF Relax, SearchInv, ChartIsSounded, request

LEMMA SnapKeeps ==
  ASSUME SearchInv, SnapEnds
  PROVE  SearchInv'
<1>1. ASSUME NEW c PROVE NearestPassable(cost, c, SnapReach) \subseteq Cells
  <2> DEFINE open(r) == {d \in Ring(c, r) : Passable(cost, d)}
             rings == {r \in 0 .. SnapReach : open(r) # {}}
             first == open(CHOOSE r \in rings : \A q \in rings : r <= q)
             closest == {d \in first : \A e \in first : StraightTo(c, d) <= StraightTo(c, e)}
  <2>1. \A r : open(r) \subseteq Cells
    BY DEF Ring
  <2> HIDE DEF open
  <2>2. closest \subseteq Cells
    BY <2>1
  <2> HIDE DEF closest
  <2>3. NearestPassable(cost, c, SnapReach) = IF rings = {} THEN {} ELSE {d \in closest : \A e \in closest : ByRows(d) <= ByRows(e)}
    BY DEF NearestPassable, closest, open
  <2> QED
    BY <2>2, <2>3
<1>2. PICK from \in Cells, to \in Cells : search' = Begin(from, to)
  BY <1>1 DEF SnapEnds
<1>3. cost' = cost /\ chart' = chart
  BY DEF SnapEnds, request
<1> DEFINE score == [c \in Cells |-> IF c = from THEN 0 ELSE Infinite]
           none == [c \in Cells |-> NoCell]
<1>4. /\ search' = [from |-> from, to |-> to, gScore |-> score, came |-> none, closed |-> {}, open |-> {from}]
  BY <1>2 DEF Begin
<1>5. score \in Costs /\ none \in [Cells -> Cells \cup {NoCell}]
  BY DEF Costs
<1>6. score[from] = 0 /\ \A c \in Cells : c = from <=> score[c] # Infinite
  BY DEF Infinite
<1> HIDE DEF score, none
<1>7. search' \in Searches
  BY <1>4, <1>5 DEF Searches
<1>8. /\ search'.from = from /\ search'.gScore = score /\ search'.closed = {} /\ search'.open = {from}
      /\ Reached' = {from}
  BY <1>4 DEF Reached
<1>9. ScoredAreReached' /\ MovesTaken' /\ ClosedInOrder'
  BY <1>6, <1>8 DEF ScoredAreReached, MovesTaken, ClosedInOrder
<1>10. ScoresAreChains'
  <2>1. Cardinality(search'.closed) = 0
    BY <1>8, FS_EmptySet
  <2>2. RoundsOf(Rounds(cost, from), cost, from)
    BY RoundsAre DEF SearchInv
  <2>3. Rounds(cost, from)[0][from] = 0
    BY <2>2 DEF RoundsOf
  <2>4. \A c \in Reached' :
          /\ Rounds(cost', search'.from)[Cardinality(search'.closed)][c] # Infinite
          /\ Rounds(cost', search'.from)[Cardinality(search'.closed)][c] <= search'.gScore[c]
    BY <1>3, <1>6, <1>8, <2>1, <2>3 DEF Infinite
  <2> QED
    BY <2>4 DEF ScoresAreChains
<1> QED
  BY <1>3, <1>7, <1>9, <1>10 DEF SearchInv, ChartIsSounded

(* A cell expanded: it is closed, and those that are cheaper through it    *)
(* are open with the better score.                                         *)
Expanded(c) ==
  /\ search # NoSearch /\ c \in search.open /\ Least(c)
  /\ cost' = cost /\ chart' = chart
  /\ search' \in Searches
  /\ search'.from = search.from /\ search'.to = search.to
  /\ search'.open = (search.open \ {c}) \cup Cheaper(c)
  /\ search'.closed = search.closed \cup {c}
  /\ Reached' = Reached \cup Cheaper(c)
  /\ \A d \in Cheaper(c) : search'.gScore[d] = search.gScore[c] + MoveCost(cost, c, d)
  /\ \A d \in Cells \ Cheaper(c) : search'.gScore[d] = search.gScore[d]

(* The cells that are cheaper are none of those closed.                    *)
LEMMA CheaperIs ==
  ASSUME SearchInv, search # NoSearch, NEW c \in search.open
  PROVE  /\ c \in Cells /\ search.gScore[c] \in Nat
         /\ c \notin Cheaper(c) /\ c \notin search.closed /\ search.from \notin Cheaper(c)
         /\ Cheaper(c) \subseteq Moves(cost, c) /\ Cheaper(c) \cap search.closed = {}
         /\ \A d \in Moves(cost, c) : d \in Cells /\ d # c /\ MoveCost(cost, c, d) \in Nat
         /\ \A d \in Reached : d \in Cells /\ search.gScore[d] \in Nat
         /\ \A d \in Cheaper(c) \cap Reached : search.gScore[c] + MoveCost(cost, c, d) < search.gScore[d]
         /\ \A d \in (Moves(cost, c) \ Cheaper(c)) \ search.closed :
              d \in Reached /\ search.gScore[d] <= search.gScore[c] + MoveCost(cost, c, d)
<1>1. search \in Searches /\ PricesAreWhole(cost) /\ ScoredAreReached
  BY DEF SearchInv
<1>2. /\ search.from \in Cells /\ search.to \in Cells /\ search.closed \subseteq Cells /\ search.open \subseteq Cells
      /\ search.gScore \in Costs
  BY <1>1 DEF Searches
<1>3. \A d \in Reached : d \in Cells /\ search.gScore[d] \in Nat /\ search.gScore[d] # Infinite
  BY <1>1, <1>2 DEF ScoredAreReached, Reached, Costs
<1>4. c \in Cells /\ c \in Reached /\ c \notin search.closed /\ search.gScore[c] \in Nat
  BY <1>1, <1>2, <1>3 DEF ScoredAreReached, Reached
<1>5. \A d \in Moves(cost, c) : d \in Cells /\ d # c /\ MoveCost(cost, c, d) \in Nat
  BY <1>1, <1>2, <1>4, AheadIs
<1>6. Cheaper(c) \subseteq Moves(cost, c) /\ Cheaper(c) \cap search.closed = {}
  BY DEF Cheaper
<1>7. \A d \in Cheaper(c) \cap Reached : search.gScore[c] + MoveCost(cost, c, d) < search.gScore[d]
  BY <1>3 DEF Cheaper
<1>8. c \notin Cheaper(c)
  BY <1>5, <1>6
<1>9. search.from \notin Cheaper(c)
  <2> SUFFICES ASSUME search.from \in Cheaper(c) PROVE FALSE
    OBVIOUS
  <2>1. search.gScore[search.from] = 0 /\ search.from \in Reached
    BY <1>1, <1>2 DEF ScoredAreReached, Infinite
  <2>2. search.gScore[c] + MoveCost(cost, c, search.from) < 0 /\ MoveCost(cost, c, search.from) \in Nat
    BY <1>5, <1>6, <1>7, <2>1
  <2> QED
    BY <1>4, <2>2
<1>10. \A d \in (Moves(cost, c) \ Cheaper(c)) \ search.closed :
         d \in Reached /\ search.gScore[d] <= search.gScore[c] + MoveCost(cost, c, d)
  <2> TAKE d \in (Moves(cost, c) \ Cheaper(c)) \ search.closed
  <2>1. search.gScore[d] # Infinite /\ ~(search.gScore[c] + MoveCost(cost, c, d) < search.gScore[d])
    BY DEF Cheaper
  <2>2. d \in Reached /\ search.gScore[d] \in Nat /\ MoveCost(cost, c, d) \in Nat
    BY <1>1, <1>3, <1>5, <2>1 DEF ScoredAreReached
  <2> QED
    BY <1>4, <2>1, <2>2
<1> QED
  BY <1>3, <1>4, <1>5, <1>6, <1>7, <1>8, <1>9, <1>10

LEMMA ExpandIs ==
  ASSUME SearchInv, NEW c, Expand(c)
  PROVE  Expanded(c)
<1> DEFINE better == Cheaper(c)
           score == [d \in Cells |-> IF d \in better THEN search.gScore[c] + MoveCost(cost, c, d) ELSE search.gScore[d]]
           came == [d \in Cells |-> IF d \in better THEN c ELSE search.came[d]]
<1>1. search # NoSearch /\ c \in search.open /\ Least(c) /\ cost' = cost /\ chart' = chart
  BY DEF Expand, request
<1>2. search \in Searches /\ better \subseteq Moves(cost, c) /\ c \in Cells /\ search.gScore[c] \in Nat
  BY <1>1, CheaperIs DEF SearchInv
<1>3. better \subseteq Cells /\ \A d \in better : MoveCost(cost, c, d) \in Nat
  BY <1>1, CheaperIs
<1>4. search' = [search EXCEPT !.open = (search.open \ {c}) \cup better, !.closed = search.closed \cup {c},
                               !.gScore = score, !.came = came]
  BY DEF Expand
<1>5. score \in Costs /\ came \in [Cells -> Cells \cup {NoCell}]
  <2>1. search.gScore \in Costs /\ search.came \in [Cells -> Cells \cup {NoCell}]
    BY <1>2 DEF Searches
  <2>2. \A d \in Cells : score[d] \in Nat \cup {Infinite}
    <3> TAKE d \in Cells
    <3>1. CASE d \in better
      BY <1>2, <1>3, <3>1
    <3>2. CASE d \notin better
      BY <2>1, <3>2 DEF Costs
    <3> QED
      BY <3>1, <3>2
  <2> QED
    BY <1>2, <2>1, <2>2 DEF Costs
<1>6. /\ \A d \in better : score[d] = search.gScore[c] + MoveCost(cost, c, d)
      /\ \A d \in Cells \ better : score[d] = search.gScore[d]
  BY <1>3
<1> HIDE DEF better, score, came
<1>7. search.open \subseteq Cells /\ search.closed \subseteq Cells
  BY <1>2 DEF Searches
<1>8. /\ search' \in Searches
      /\ search'.from = search.from /\ search'.to = search.to
      /\ search'.open = (search.open \ {c}) \cup better
      /\ search'.closed = search.closed \cup {c}
      /\ search'.gScore = score
  BY <1>2, <1>3, <1>4, <1>5, <1>7 DEF Searches
<1>9. Reached' = Reached \cup better
  BY <1>1, <1>8 DEF Reached
<1> QED
  BY <1>1, <1>6, <1>8, <1>9 DEF Expanded, better

(* Scores only fall, and not those of closed cells.                        *)
LEMMA ScoresFall ==
  ASSUME SearchInv, NEW c, Expanded(c)
  PROVE  /\ \A d \in Reached : search'.gScore[d] \in Nat /\ search'.gScore[d] <= search.gScore[d]
         /\ \A d \in search'.closed : d \in Reached /\ search'.gScore[d] = search.gScore[d]
         /\ \A d \in Reached' : d \in Cells /\ search'.gScore[d] \in Nat
<1>1. search # NoSearch /\ c \in search.open
  BY DEF Expanded
<1>2. /\ c \in Cells /\ search.gScore[c] \in Nat
      /\ c \notin Cheaper(c) /\ c \notin search.closed
      /\ Cheaper(c) \subseteq Moves(cost, c) /\ Cheaper(c) \cap search.closed = {}
      /\ \A d \in Moves(cost, c) : d \in Cells /\ MoveCost(cost, c, d) \in Nat
      /\ \A d \in Reached : d \in Cells /\ search.gScore[d] \in Nat
      /\ \A d \in Cheaper(c) \cap Reached : search.gScore[c] + MoveCost(cost, c, d) < search.gScore[d]
  BY <1>1, CheaperIs
<1>3. /\ \A d \in Cheaper(c) : search'.gScore[d] = search.gScore[c] + MoveCost(cost, c, d)
      /\ \A d \in Cells \ Cheaper(c) : search'.gScore[d] = search.gScore[d]
      /\ search'.closed = search.closed \cup {c}
      /\ Reached' = Reached \cup Cheaper(c)
  BY DEF Expanded
<1>4. \A d \in Cheaper(c) : search'.gScore[d] \in Nat /\ d \in Cells
  BY <1>2, <1>3
<1>5. \A d \in Reached : search'.gScore[d] \in Nat /\ search'.gScore[d] <= search.gScore[d]
  <2> TAKE d \in Reached
  <2>1. CASE d \in Cheaper(c)
    <3>1. search.gScore[c] + MoveCost(cost, c, d) < search.gScore[d] /\ search.gScore[d] \in Nat
      BY <1>2, <2>1
    <3>2. search'.gScore[d] = search.gScore[c] + MoveCost(cost, c, d) /\ search'.gScore[d] \in Nat
      BY <1>3, <1>4, <2>1
    <3> QED
      BY <3>1, <3>2
  <2>2. CASE d \notin Cheaper(c)
    BY <1>2, <1>3, <2>2
  <2> QED
    BY <2>1, <2>2
<1>6. \A d \in search'.closed : d \in Reached /\ search'.gScore[d] = search.gScore[d]
  <2> TAKE d \in search'.closed
  <2>1. d \in Reached /\ d \notin Cheaper(c)
    BY <1>1, <1>2, <1>3 DEF Reached
  <2> QED
    BY <1>2, <1>3, <2>1
<1> QED
  BY <1>2, <1>3, <1>4, <1>5, <1>6

LEMMA ExpandKeepsScored ==
  ASSUME SearchInv, NEW c, Expanded(c)
  PROVE  ScoredAreReached'
<1>1. search # NoSearch /\ c \in search.open /\ ScoredAreReached /\ search \in Searches
  BY DEF Expanded, SearchInv
<1>2. /\ c \notin search.closed /\ search.from \notin Cheaper(c) /\ c \notin Cheaper(c)
      /\ Cheaper(c) \cap search.closed = {}
  BY <1>1, CheaperIs
<1>3. /\ search'.from = search.from /\ search'.closed = search.closed \cup {c}
      /\ search'.open = (search.open \ {c}) \cup Cheaper(c)
      /\ Reached' = Reached \cup Cheaper(c)
      /\ \A d \in Cells \ Cheaper(c) : search'.gScore[d] = search.gScore[d]
  BY DEF Expanded
<1>4. search'.gScore[search'.from] = 0
  BY <1>1, <1>2, <1>3 DEF Searches, ScoredAreReached
<1>5. search'.closed \cap search'.open = {}
  BY <1>1, <1>2, <1>3 DEF ScoredAreReached
<1>6. \A d \in Cells : d \in Reached' <=> search'.gScore[d] # Infinite
  <2> TAKE d \in Cells
  <2>1. CASE d \in Reached'
    <3>1. search'.gScore[d] \in Nat
      BY <2>1, ScoresFall
    <3> QED
      BY <2>1, <3>1 DEF Infinite
  <2>2. CASE d \notin Reached'
    BY <1>1, <1>3, <2>2 DEF ScoredAreReached
  <2> QED
    BY <2>1, <2>2
<1> QED
  BY <1>4, <1>5, <1>6 DEF ScoredAreReached

LEMMA ExpandKeepsOrder ==
  ASSUME SearchInv, NEW c, Expanded(c)
  PROVE  ClosedInOrder'
<1> DEFINE h(d) == One * StraightTo(search.to, d)
<1>1. /\ search # NoSearch /\ c \in search.open /\ Least(c) /\ search \in Searches /\ PricesAreWhole(cost)
      /\ ClosedInOrder
  BY DEF Expanded, SearchInv
<1>2. /\ c \in Cells /\ search.gScore[c] \in Nat /\ c \notin Cheaper(c)
      /\ Cheaper(c) \subseteq Moves(cost, c)
      /\ \A d \in Moves(cost, c) : d \in Cells /\ MoveCost(cost, c, d) \in Nat
      /\ \A d \in Reached : d \in Cells /\ search.gScore[d] \in Nat
  BY <1>1, CheaperIs
<1>3. /\ search'.to = search.to /\ search'.closed = search.closed \cup {c}
      /\ search'.open = (search.open \ {c}) \cup Cheaper(c)
      /\ \A d \in Cheaper(c) : search'.gScore[d] = search.gScore[c] + MoveCost(cost, c, d)
      /\ \A d \in Cells \ Cheaper(c) : search'.gScore[d] = search.gScore[d]
  BY DEF Expanded
<1>4. search.to \in Cells /\ search.open \subseteq Cells /\ search.closed \subseteq Cells
  BY <1>1 DEF Searches
<1>5. \A d \in Cells : h(d) \in Nat
  BY <1>4, AheadIsNat
<1>6. \A d \in Cheaper(c) : h(c) <= MoveCost(cost, c, d) + h(d)
  BY <1>1, <1>2, <1>4, AheadIs
<1>7. \A d \in Cells : Estimate(d) = search.gScore[d] + h(d) /\ Estimate(d)' = search'.gScore[d] + h(d)
  BY <1>3 DEF Estimate
<1>8. \A d \in Reached : d \in Cells /\ Estimate(d) \in Nat
  BY <1>2, <1>5, <1>7
<1> HIDE DEF h
<1>9. ASSUME NEW d \in search'.closed
      PROVE  d \in Cells /\ Estimate(d)' = Estimate(d) /\ Estimate(d) \in Nat /\ Estimate(d) <= Estimate(c)
  <2>1. d \in Reached /\ search'.gScore[d] = search.gScore[d] /\ d \in Cells
    BY <1>2, ScoresFall
  <2>2. Estimate(d)' = Estimate(d) /\ Estimate(d) \in Nat
    BY <1>7, <1>8, <2>1
  <2>3. Estimate(d) <= Estimate(c)
    BY <1>1, <1>3, <2>2 DEF ClosedInOrder
  <2> QED
    BY <2>1, <2>2, <2>3
<1>10. ASSUME NEW o \in search'.open
       PROVE  o \in Cells /\ Estimate(o)' \in Nat /\ Estimate(c) <= Estimate(o)'
  <2>1. CASE o \in Cheaper(c)
    <3>1. o \in Cells /\ search'.gScore[o] = search.gScore[c] + MoveCost(cost, c, o) /\ MoveCost(cost, c, o) \in Nat
      BY <1>2, <1>3, <2>1
    <3>2. h(c) <= MoveCost(cost, c, o) + h(o) /\ h(c) \in Nat /\ h(o) \in Nat
      BY <1>2, <1>5, <1>6, <2>1, <3>1
    <3>3. Estimate(c) = search.gScore[c] + h(c) /\ Estimate(o)' = search'.gScore[o] + h(o)
      BY <1>2, <1>7, <3>1
    <3> QED
      BY <1>2, <3>1, <3>2, <3>3
  <2>2. CASE o \notin Cheaper(c)
    <3>1. o \in search.open /\ o \in Cells /\ o \in Reached /\ search'.gScore[o] = search.gScore[o]
      BY <1>3, <1>4, <2>2 DEF Reached
    <3>2. Estimate(o)' = Estimate(o) /\ Estimate(o) \in Nat /\ Estimate(c) <= Estimate(o)
      BY <1>1, <1>7, <1>8, <3>1 DEF Least
    <3> QED
      BY <3>1, <3>2
  <2> QED
    BY <2>1, <2>2
<1>11. Estimate(c) \in Nat
  BY <1>1, <1>8 DEF Reached
<1>12. \A d \in search'.closed, o \in search'.open : Estimate(d)' <= Estimate(o)'
  <2> TAKE d \in search'.closed, o \in search'.open
  <2>1. Estimate(d)' \in Nat /\ Estimate(d)' <= Estimate(c)
    BY <1>9
  <2>2. Estimate(o)' \in Nat /\ Estimate(c) <= Estimate(o)'
    BY <1>10
  <2> QED
    BY <1>11, <2>1, <2>2
<1> QED
  BY <1>12 DEF ClosedInOrder

LEMMA ExpandKeepsMoves ==
  ASSUME SearchInv, NEW c, Expanded(c)
  PROVE  MovesTaken'
<1> DEFINE h(d) == One * StraightTo(search.to, d)
<1>1. /\ search # NoSearch /\ c \in search.open /\ search \in Searches /\ PricesAreWhole(cost)
      /\ ClosedInOrder /\ MovesTaken
  BY DEF Expanded, SearchInv
<1>2. /\ c \in Cells /\ search.gScore[c] \in Nat
      /\ Cheaper(c) \subseteq Moves(cost, c)
      /\ \A d \in Moves(cost, c) : d \in Cells /\ MoveCost(cost, c, d) \in Nat
      /\ \A d \in Reached : d \in Cells /\ search.gScore[d] \in Nat
      /\ \A d \in (Moves(cost, c) \ Cheaper(c)) \ search.closed :
           d \in Reached /\ search.gScore[d] <= search.gScore[c] + MoveCost(cost, c, d)
  BY <1>1, CheaperIs
<1>3. /\ cost' = cost /\ search'.closed = search.closed \cup {c} /\ Reached' = Reached \cup Cheaper(c)
      /\ \A d \in Cheaper(c) : search'.gScore[d] = search.gScore[c] + MoveCost(cost, c, d)
  BY DEF Expanded
<1>4. /\ \A d \in Reached : search'.gScore[d] \in Nat /\ search'.gScore[d] <= search.gScore[d]
      /\ \A d \in search'.closed : d \in Reached /\ search'.gScore[d] = search.gScore[d]
  BY ScoresFall
<1>5. search.to \in Cells
  BY <1>1 DEF Searches
<1>6. ASSUME NEW b \in search.closed, NEW d \in Moves(cost, b)
      PROVE  d \in Reached' /\ search'.gScore[d] <= search'.gScore[b] + MoveCost(cost, b, d)
  <2>1. d \in Reached /\ search.gScore[d] <= search.gScore[b] + MoveCost(cost, b, d)
    BY <1>1 DEF MovesTaken
  <2>2. b \in Reached /\ b \in Cells /\ search'.gScore[b] = search.gScore[b] /\ search.gScore[b] \in Nat
    BY <1>2, <1>3, <1>4
  <2>3. MoveCost(cost, b, d) \in Nat
    BY <1>1, <2>2, MoveCostIs
  <2>4. search'.gScore[d] \in Nat /\ search.gScore[d] \in Nat /\ search'.gScore[d] <= search.gScore[d]
    BY <1>2, <1>4, <2>1
  <2> QED
    BY <1>3, <2>1, <2>2, <2>3, <2>4
<1>7. ASSUME NEW d \in Moves(cost, c)
      PROVE  d \in Reached' /\ search'.gScore[d] <= search'.gScore[c] + MoveCost(cost, c, d)
  <2>1. search'.gScore[c] = search.gScore[c] /\ MoveCost(cost, c, d) \in Nat
    BY <1>2, <1>3, <1>4
  <2>2. CASE d \in Cheaper(c)
    <3>1. search'.gScore[d] = search.gScore[c] + MoveCost(cost, c, d) /\ d \in Reached'
      BY <1>3, <2>2
    <3> QED
      BY <1>2, <2>1, <3>1
  <2>3. CASE d \notin Cheaper(c) /\ d \notin search.closed
    <3>1. d \in Reached /\ search.gScore[d] <= search.gScore[c] + MoveCost(cost, c, d)
      BY <1>2, <2>3
    <3>2. search'.gScore[d] \in Nat /\ search.gScore[d] \in Nat /\ search'.gScore[d] <= search.gScore[d]
      BY <1>2, <1>4, <3>1
    <3> QED
      BY <1>2, <1>3, <2>1, <3>1, <3>2
  <2>4. CASE d \in search.closed
    <3>1. d \in Reached /\ search'.gScore[d] = search.gScore[d] /\ search.gScore[d] \in Nat
      BY <1>2, <1>3, <1>4, <2>4
    <3>2. Estimate(d) <= Estimate(c)
      BY <1>1, <2>4 DEF ClosedInOrder
    <3>3. h(c) <= MoveCost(cost, c, d) + h(d) /\ h(c) \in Nat /\ h(d) \in Nat
      BY <1>1, <1>2, <1>5, AheadIs
    <3>4. Estimate(c) = search.gScore[c] + h(c) /\ Estimate(d) = search.gScore[d] + h(d)
      BY DEF Estimate
    <3> HIDE DEF h
    <3>5. search.gScore[d] <= search.gScore[c] + MoveCost(cost, c, d)
      BY <1>2, <2>1, <3>1, <3>2, <3>3, <3>4
    <3> QED
      BY <1>3, <2>1, <3>1, <3>5
  <2> QED
    BY <2>2, <2>3, <2>4
<1>8. \A b \in search'.closed : \A d \in Moves(cost', b) :
        d \in Reached' /\ search'.gScore[d] <= search'.gScore[b] + MoveCost(cost', b, d)
  BY <1>3, <1>6, <1>7
<1> QED
  BY <1>8 DEF MovesTaken

LEMMA ExpandKeepsChains ==
  ASSUME SearchInv, NEW c, Expanded(c)
  PROVE  ScoresAreChains'
<1> DEFINE n == Width * Height
           R == Rounds(cost, search.from)
           j == Cardinality(search.closed)
<1>1. /\ search # NoSearch /\ c \in search.open /\ search \in Searches /\ PricesAreWhole(cost)
      /\ ScoresAreChains
  BY DEF Expanded, SearchInv
<1>2. /\ c \in Cells /\ search.gScore[c] \in Nat /\ c \notin search.closed
      /\ Cheaper(c) \subseteq Moves(cost, c)
      /\ \A d \in Moves(cost, c) : d \in Cells /\ MoveCost(cost, c, d) \in Nat
      /\ \A d \in Reached : d \in Cells /\ search.gScore[d] \in Nat
  BY <1>1, CheaperIs
<1>3. /\ cost' = cost /\ search'.from = search.from
      /\ search'.closed = search.closed \cup {c} /\ Reached' = Reached \cup Cheaper(c)
      /\ search' \in Searches
      /\ \A d \in Cheaper(c) : search'.gScore[d] = search.gScore[c] + MoveCost(cost, c, d)
      /\ \A d \in Cells \ Cheaper(c) : search'.gScore[d] = search.gScore[d]
  BY DEF Expanded
<1>4. search.from \in Cells /\ search.closed \in SUBSET Cells /\ search'.closed \in SUBSET Cells
  BY <1>1, <1>3 DEF Searches
<1>5. j \in 0 .. n /\ Cardinality(search'.closed) = j + 1 /\ j + 1 \in 0 .. n
  <2>1. IsFiniteSet(search.closed) /\ j \in 0 .. n
    BY <1>4, CellsAreCounted
  <2>2. Cardinality(search.closed \cup {c}) = j + 1
    BY <1>2, <2>1, FS_AddElement
  <2>3. Cardinality(search'.closed) \in 0 .. n
    BY <1>4, CellsAreCounted
  <2> QED
    BY <1>3, <2>1, <2>2, <2>3
<1>6. RoundsOf(R, cost, search.from)
  BY <1>1, <1>4, RoundsAre
<1>7. n \in Nat
  BY GridAssumption
<1> HIDE DEF n, j
<1>8. j + 1 \in 1 .. n /\ (j + 1) - 1 = j
  BY <1>5, <1>7
<1>9. R[j] \in Costs /\ R[j + 1] \in Costs /\ R[j + 1] = OneMoveMore(cost, R[j])
  BY <1>5, <1>6, <1>8 DEF RoundsOf, n
<1>10. \A d \in Reached : R[j][d] # Infinite /\ R[j][d] <= search.gScore[d]
  BY <1>1 DEF ScoresAreChains, j
<1> HIDE DEF R
<1>11. \A d \in Cells : R[j][d] \in Nat \cup {Infinite} /\ R[j + 1][d] \in Nat \cup {Infinite}
  BY <1>9 DEF Costs
<1>12. ASSUME NEW d \in Reached'
       PROVE  R[j + 1][d] # Infinite /\ R[j + 1][d] <= search'.gScore[d]
  <2>1. CASE d \in Cheaper(c)
    <3>1. d \in Moves(cost, c) /\ d \in Cells /\ MoveCost(cost, c, d) \in Nat
      BY <1>2, <2>1
    <3>2. R[j][c] # Infinite /\ R[j][c] <= search.gScore[c] /\ R[j][c] \in Nat
      BY <1>1, <1>2, <1>10, <1>11 DEF Reached
    <3>3. R[j + 1][d] # Infinite /\ R[j + 1][d] <= R[j][c] + MoveCost(cost, c, d)
      BY <1>1, <1>2, <1>9, <3>1, <3>2, OneMoveMoreIs
    <3>4. search'.gScore[d] = search.gScore[c] + MoveCost(cost, c, d) /\ R[j + 1][d] \in Nat
      BY <1>3, <1>11, <2>1, <3>1, <3>3
    <3> QED
      BY <1>2, <3>1, <3>2, <3>3, <3>4
  <2>2. CASE d \notin Cheaper(c)
    <3>1. d \in Reached /\ d \in Cells /\ search'.gScore[d] = search.gScore[d] /\ search.gScore[d] \in Nat
      BY <1>2, <1>3, <2>2
    <3>2. R[j][d] # Infinite /\ R[j][d] <= search.gScore[d] /\ R[j][d] \in Nat
      BY <1>10, <1>11, <3>1
    <3>3. R[j + 1][d] # Infinite /\ R[j + 1][d] <= R[j][d]
      BY <1>1, <1>9, <3>1, <3>2, OneMoveMoreIs
    <3>4. R[j + 1][d] \in Nat
      BY <1>11, <3>1, <3>3
    <3> QED
      BY <3>1, <3>2, <3>3, <3>4
  <2> QED
    BY <2>1, <2>2
<1>13. \A d \in Reached' :
         /\ Rounds(cost', search'.from)[Cardinality(search'.closed)][d] # Infinite
         /\ Rounds(cost', search'.from)[Cardinality(search'.closed)][d] <= search'.gScore[d]
  BY <1>3, <1>5, <1>12 DEF R
<1> QED
  BY <1>13 DEF ScoresAreChains

LEMMA ExpandKeeps ==
  ASSUME SearchInv, NEW c, Expand(c)
  PROVE  SearchInv'
<1>1. Expanded(c)
  BY ExpandIs
<1>2. cost' = cost /\ chart' = chart /\ search' \in Searches
  BY <1>1 DEF Expanded
<1>3. ScoredAreReached' /\ MovesTaken' /\ ClosedInOrder' /\ ScoresAreChains'
  BY <1>1, ExpandKeepsScored, ExpandKeepsMoves, ExpandKeepsOrder, ExpandKeepsChains
<1> QED
  BY <1>2, <1>3 DEF SearchInv, ChartIsSounded

LEMMA SearchStep == SearchInv /\ [SearchNext]_searchVars => SearchInv'
<1> SUFFICES ASSUME SearchInv, [SearchNext]_searchVars PROVE SearchInv'
  OBVIOUS
<1>1. CASE SnapEnds
  BY <1>1, SnapKeeps
<1>2. CASE Relax
  BY <1>2, RelaxKeeps
<1>3. CASE GiveUp
  BY <1>3 DEF GiveUp, SearchInv, ChartIsSounded, request
<1>4. CASE Arrive
  BY <1>4 DEF Arrive, SearchInv, ChartIsSounded, request
<1>5. ASSUME NEW c \in Cells, Expand(c) PROVE SearchInv'
  BY <1>5, ExpandKeeps
<1>6. CASE UNCHANGED searchVars
  BY <1>6 DEF searchVars, SearchInv, ChartIsSounded, ScoredAreReached, MovesTaken, ClosedInOrder, ScoresAreChains,
              Reached, Estimate
<1> QED
  BY <1>1, <1>2, <1>3, <1>4, <1>5, <1>6 DEF SearchNext

(* The invariant holds of every search.                                    *)
THEOREM SearchInvariant == SearchSpec => []SearchInv
<1> QED
  BY SearchInitInv, SearchStep, PTL DEF SearchSpec

(* A* is optimal: when the goal is taken from the heap, no chain of moves  *)
(* on the grid in force is cheaper (findPath).                             *)
THEOREM RoutesAreCheapest == SearchSpec => []RouteIsCheapest
<1> QED
  BY SearchInvariant, InvIsCheapest, PTL

-----------------------------------------------------------------------------
(* Lists of cells along which a boat can be steered.                       *)
Courses ==
  {w \in Seq(Cells) : Len(w) >= 1 /\ \A k \in 1 .. Len(w) - 1 : Navigable(cost, w[k], w[k + 1])}
CoursesFrom(a, b) == {w \in Courses : w[1] = a /\ w[Len(w)] = b}

(* The course after a point is left out, when what is before it leads to   *)
(* what is after it.                                                       *)
LEMMA WithoutIs ==
  ASSUME NEW a, NEW b, NEW w \in CoursesFrom(a, b), NEW k \in 2 .. Len(w) - 1,
         Navigable(cost, w[k - 1], w[k + 1])
  PROVE  Without(w, k) \in CoursesFrom(a, b)
<1> DEFINE n == Len(w)
           s == SubSeq(w, 1, k - 1)
           t == SubSeq(w, k + 1, n)
           v == Without(w, k)
<1>1. w \in Seq(Cells) /\ w[1] = a /\ w[n] = b /\ \A i \in 1 .. n - 1 : Navigable(cost, w[i], w[i + 1])
  BY DEF Courses, CoursesFrom
<1>2. n \in Nat /\ \A i \in 1 .. n : w[i] \in Cells
  BY <1>1, LenProperties, ElementOfSeq
<1>3. k \in Nat /\ 2 <= k /\ k + 1 <= n
  BY <1>2
<1>4. s \in Seq(Cells) /\ Len(s) = k - 1 /\ \A i \in 1 .. k - 1 : s[i] = w[i]
  <2>1. \A i \in 1 .. k - 1 : w[i] \in Cells
    BY <1>2, <1>3
  <2>2. 1 \in Int /\ k - 1 \in Int /\ 1 <= k - 1 /\ k - 1 - 1 + 1 = k - 1 /\ \A i \in 1 .. k - 1 : 1 + i - 1 = i
    BY <1>3
  <2> QED
    BY <2>1, <2>2, SubSeqProperties
<1>5. t \in Seq(Cells) /\ Len(t) = n - k /\ \A i \in 1 .. n - k : t[i] = w[k + i]
  <2>1. \A i \in k + 1 .. n : w[i] \in Cells
    BY <1>2, <1>3
  <2>2. k + 1 \in Int /\ n \in Int /\ k + 1 <= n /\ n - (k + 1) + 1 = n - k /\ \A i \in 1 .. n - k : (k + 1) + i - 1 = k + i
    BY <1>2, <1>3
  <2> QED
    BY <2>1, <2>2, SubSeqProperties
<1> HIDE DEF s, t, n
<1>6. v = s \o t
  BY DEF Without, s, t, n
<1> HIDE DEF v
<1>7. /\ v \in Seq(Cells) /\ Len(v) = n - 1
      /\ \A i \in 1 .. k - 1 : v[i] = w[i]
      /\ \A i \in 1 .. n - k : v[(k - 1) + i] = w[k + i]
  <2>1. s \in Seq(Cells) /\ t \in Seq(Cells)
    BY <1>4, <1>5
  <2>2. /\ v \in Seq(Cells) /\ Len(v) = Len(s) + Len(t)
        /\ \A i \in 1 .. Len(s) : v[i] = s[i]
        /\ \A i \in 1 .. Len(t) : v[Len(s) + i] = t[i]
    BY ONLY <1>6, <2>1, ConcatIs
  <2>3. \A i \in 1 .. k - 1 : i \in 1 .. Len(s)
    BY <1>4
  <2>4. \A i \in 1 .. n - k : i \in 1 .. Len(t)
    BY <1>5
  <2>5. (k - 1) + (n - k) = n - 1
    BY <1>2, <1>3
  <2>6. v \in Seq(Cells) /\ Len(v) = n - 1
    BY <1>4, <1>5, <2>2, <2>5
  <2>7. \A i \in 1 .. k - 1 : v[i] = w[i]
    BY <1>4, <2>2, <2>3
  <2>8. \A i \in 1 .. n - k : v[(k - 1) + i] = w[k + i]
    BY <1>4, <1>5, <2>2, <2>4
  <2> QED
    BY <2>6, <2>7, <2>8
<1>8. \A j \in k .. n - 1 : v[j] = w[j + 1]
  <2> TAKE j \in k .. n - 1
  <2>1. j - k + 1 \in 1 .. n - k /\ (k - 1) + (j - k + 1) = j /\ k + (j - k + 1) = j + 1
    BY <1>2, <1>3
  <2> QED
    BY <1>7, <2>1
<1>9. ASSUME NEW j \in 1 .. n - 2 PROVE Navigable(cost, v[j], v[j + 1])
  <2>1. CASE j < k - 1
    <3>1. j \in 1 .. k - 1 /\ j + 1 \in 1 .. k - 1 /\ j \in 1 .. n - 1
      BY <1>2, <1>3, <2>1
    <3> QED
      BY <1>1, <1>7, <3>1 DEF n
  <2>2. CASE j = k - 1
    <3>1. j \in 1 .. k - 1 /\ k \in k .. n - 1 /\ j + 1 = k
      BY <1>2, <1>3, <2>2
    <3> QED
      BY <1>7, <1>8, <2>2, <3>1
  <2>3. CASE j > k - 1
    <3>1. j \in k .. n - 1 /\ j + 1 \in k .. n - 1 /\ j + 1 \in 1 .. n - 1
      BY <1>2, <1>3, <2>3
    <3> QED
      BY <1>1, <1>8, <3>1 DEF n
  <2> QED
    BY <1>2, <1>3, <2>1, <2>2, <2>3
<1>10. v[1] = a /\ v[Len(v)] = b
  <2>1. 1 \in 1 .. k - 1 /\ n - 1 \in k .. n - 1 /\ (n - 1) + 1 = n
    BY <1>2, <1>3
  <2> QED
    BY <1>1, <1>7, <1>8, <2>1 DEF n
<1>11. Len(v) >= 1 /\ (n - 1) - 1 = n - 2
  BY <1>2, <1>3, <1>7
<1> QED
  BY <1>7, <1>9, <1>10, <1>11 DEF Courses, CoursesFrom, v

(* Two courses, the later one from where the earlier ends.                 *)
LEMMA CoursesJoin ==
  ASSUME NEW a, NEW b, NEW c, NEW w \in CoursesFrom(a, b), NEW v \in CoursesFrom(b, c)
  PROVE  w \o Tail(v) \in CoursesFrom(a, c)
<1> DEFINE n == Len(w)
           m == Len(v)
           t == Tail(v)
           u == w \o t
<1>1. /\ w \in Seq(Cells) /\ n >= 1 /\ w[1] = a /\ w[n] = b
      /\ \A i \in 1 .. n - 1 : Navigable(cost, w[i], w[i + 1])
  BY DEF Courses, CoursesFrom
<1>2. /\ v \in Seq(Cells) /\ m >= 1 /\ v[1] = b /\ v[m] = c
      /\ \A i \in 1 .. m - 1 : Navigable(cost, v[i], v[i + 1])
  BY DEF Courses, CoursesFrom
<1>3. n \in Nat /\ m \in Nat /\ v # <<>>
  BY <1>1, <1>2, LenProperties, EmptySeq
<1>4. t \in Seq(Cells) /\ Len(t) = m - 1 /\ \A i \in 1 .. m - 1 : t[i] = v[i + 1]
  BY <1>2, <1>3, HeadTailProperties
<1> HIDE DEF n, m, t
<1>5. /\ u \in Seq(Cells) /\ Len(u) = n + (m - 1)
      /\ \A i \in 1 .. n : u[i] = w[i]
      /\ \A i \in 1 .. m - 1 : u[n + i] = v[i + 1]
  <2>1. w \in Seq(Cells) /\ t \in Seq(Cells)
    BY <1>1, <1>4
  <2>2. /\ u \in Seq(Cells) /\ Len(u) = Len(w) + Len(t)
        /\ \A i \in 1 .. Len(w) : u[i] = w[i]
        /\ \A i \in 1 .. Len(t) : u[Len(w) + i] = t[i]
    BY ONLY <2>1, ConcatIs
  <2> HIDE DEF u
  <2>3. Len(w) = n
    BY DEF n
  <2>4. \A i \in 1 .. m - 1 : u[n + i] = v[i + 1]
    BY <1>4, <2>2, <2>3
  <2> QED
    BY <1>4, <2>2, <2>3, <2>4
<1> HIDE DEF u
<1>6. ASSUME NEW i \in 1 .. m PROVE u[(n - 1) + i] = v[i]
  <2>1. CASE i = 1
    <3>1. n \in 1 .. n /\ (n - 1) + 1 = n
      BY <1>1, <1>3
    <3> QED
      BY <1>1, <1>2, <1>5, <2>1, <3>1
  <2>2. CASE i # 1
    <3>1. i - 1 \in 1 .. m - 1 /\ n + (i - 1) = (n - 1) + i /\ (i - 1) + 1 = i
      BY <1>3, <2>2
    <3> QED
      BY <1>5, <3>1
  <2> QED
    BY <2>1, <2>2
<1>7. ASSUME NEW j \in 1 .. (n + (m - 1)) - 1 PROVE Navigable(cost, u[j], u[j + 1])
  <2>1. CASE j < n
    <3>1. j \in 1 .. n /\ j + 1 \in 1 .. n /\ j \in 1 .. n - 1
      BY <1>3, <2>1
    <3> QED
      BY <1>1, <1>5, <3>1
  <2>2. CASE j >= n
    <3>1. PICK i \in 1 .. m - 1 : j = (n - 1) + i
      <4>1. j - (n - 1) \in 1 .. m - 1 /\ j = (n - 1) + (j - (n - 1))
        BY <1>3, <2>2
      <4> QED
        BY <4>1
    <3>2. i \in 1 .. m /\ i + 1 \in 1 .. m /\ j + 1 = (n - 1) + (i + 1)
      BY <1>3, <3>1
    <3> QED
      BY <1>2, <1>6, <3>1, <3>2
  <2> QED
    BY <1>3, <2>1, <2>2
<1>8. u[1] = a /\ u[Len(u)] = c /\ Len(u) >= 1
  <2>1. 1 \in 1 .. n /\ m \in 1 .. m /\ (n - 1) + m = n + (m - 1) /\ n + (m - 1) >= 1
    BY <1>1, <1>2, <1>3
  <2> QED
    BY <1>1, <1>2, <1>5, <1>6, <2>1
<1>9. u \in Courses
  BY <1>5, <1>7, <1>8 DEF Courses
<1> QED
  BY <1>8, <1>9 DEF CoursesFrom, u, t

(* A point more at the end of a course.                                    *)
LEMMA CourseGrows ==
  ASSUME NEW a, NEW b, NEW w \in CoursesFrom(a, b), NEW c \in Cells, Navigable(cost, b, c)
  PROVE  Append(w, c) \in CoursesFrom(a, c)
<1> DEFINE n == Len(w)
           u == Append(w, c)
<1>1. /\ w \in Seq(Cells) /\ n >= 1 /\ w[1] = a /\ w[n] = b
      /\ \A i \in 1 .. n - 1 : Navigable(cost, w[i], w[i + 1])
  BY DEF Courses, CoursesFrom
<1>2. n \in Nat
  BY <1>1, LenProperties
<1>3. u \in Seq(Cells) /\ Len(u) = n + 1 /\ u[n + 1] = c /\ \A i \in 1 .. n : u[i] = w[i]
  BY <1>1, AppendProperties
<1> HIDE DEF n, u
<1>4. ASSUME NEW i \in 1 .. n PROVE Navigable(cost, u[i], u[i + 1])
  <2>1. CASE i = n
    BY <1>1, <1>3, <2>1
  <2>2. CASE i # n
    <3>1. i \in 1 .. n - 1 /\ i + 1 \in 1 .. n
      BY <1>2, <2>2
    <3> QED
      BY <1>1, <1>3, <3>1
  <2> QED
    BY <2>1, <2>2
<1>5. 1 \in 1 .. n /\ n + 1 >= 1 /\ (n + 1) - 1 = n
  BY <1>1, <1>2
<1>6. u \in Courses
  BY <1>3, <1>4, <1>5 DEF Courses
<1> QED
  BY <1>1, <1>3, <1>5, <1>6 DEF CoursesFrom, u

(* A stretch of a course is one.                                           *)
LEMMA CoursePart ==
  ASSUME NEW w \in Courses, NEW i \in 1 .. Len(w), NEW j \in i .. Len(w)
  PROVE  SubSeq(w, i, j) \in CoursesFrom(w[i], w[j])
<1> DEFINE n == Len(w)
           u == SubSeq(w, i, j)
<1>1. w \in Seq(Cells) /\ \A k \in 1 .. n - 1 : Navigable(cost, w[k], w[k + 1])
  BY DEF Courses
<1>2. n \in Nat /\ \A k \in 1 .. n : w[k] \in Cells
  BY <1>1, LenProperties, ElementOfSeq
<1>3. i \in Nat /\ j \in Nat /\ 1 <= i /\ i <= j /\ j <= n
  BY <1>2
<1>4. u \in Seq(Cells) /\ Len(u) = j - i + 1 /\ \A k \in 1 .. j - i + 1 : u[k] = w[i + k - 1]
  <2>1. i \in Int /\ j \in Int /\ \A k \in i .. j : w[k] \in Cells
    BY <1>2, <1>3
  <2> QED
    BY <1>3, <2>1, SubSeqProperties
<1> HIDE DEF n, u
<1>5. ASSUME NEW k \in 1 .. j - i PROVE Navigable(cost, u[k], u[k + 1])
  <2>1. /\ k \in 1 .. j - i + 1 /\ k + 1 \in 1 .. j - i + 1
        /\ i + k - 1 \in 1 .. n - 1 /\ i + (k + 1) - 1 = (i + k - 1) + 1
    BY <1>2, <1>3
  <2>2. u[k] = w[i + k - 1] /\ u[k + 1] = w[(i + k - 1) + 1]
    BY <1>4, <2>1
  <2> QED
    BY <1>1, <2>1, <2>2
<1>6. /\ 1 \in 1 .. j - i + 1 /\ j - i + 1 \in 1 .. j - i + 1 /\ i + 1 - 1 = i /\ i + (j - i + 1) - 1 = j
      /\ j - i + 1 >= 1 /\ (j - i + 1) - 1 = j - i
  BY <1>3
<1>7. u \in Courses
  BY <1>4, <1>5, <1>6 DEF Courses
<1>8. u[1] = w[i] /\ u[Len(u)] = w[j]
  BY <1>4, <1>6
<1> QED
  BY <1>7, <1>8 DEF CoursesFrom, u

-----------------------------------------------------------------------------
(* What smoothing leaves out leaves a course.                              *)

(* Foremost finds one of the set, if any.                                  *)
LEMMA ForemostIs ==
  ASSUME NEW S, NEW n \in Nat, NEW before
  PROVE  Foremost(S, n, before) \in S \cup {0}
<1> DEFINE V == S \cup {0}
           next(k, b) == IF k \in S /\ (b = 0 \/ <<k, b>> \in before) THEN k ELSE b
           Eq(f) == f = [k \in 0 .. n |-> IF k = 0 THEN 0 ELSE LET b == f[k - 1] IN next(k, b)]
           step == [q \in (1 .. n) \X V |-> next(q[1], q[2])]
<1>1. step \in [(1 .. n) \X V -> V]
  OBVIOUS
<1>2. \A k \in 1 .. n, v \in V : step[<<k, v>>] = next(k, v)
  OBVIOUS
<1>3. 0 \in Nat /\ 1 \in Nat /\ 1 = 0 + 1 /\ 0 <= n /\ 0 \in V
  OBVIOUS
<1> HIDE DEF step, V, next
<1>4. PICK f : Recurs(f, V, 0, 1, n, 0, step)
  BY ONLY n \in Nat, <1>1, <1>3, Recursion
<1>5. Eq(f)
  <2>1. \A k \in 1 .. n : k - 1 \in 0 .. n /\ f[k - 1] \in V
    BY <1>4 DEF Recurs
  <2>2. \A k \in 0 .. n : k = 0 \/ k \in 1 .. n
    OBVIOUS
  <2>3. \A k \in 0 .. n : f[k] = IF k = 0 THEN 0 ELSE next(k, f[k - 1])
    BY <1>2, <1>4, <2>1, <2>2 DEF Recurs
  <2> QED
    BY <1>4, <2>3 DEF Recurs
<1> DEFINE g == CHOOSE f_1 : Eq(f_1)
<1>6. Eq(g)
  BY <1>5
<1>7. Foremost(S, n, before) = g[n]
  BY DEF Foremost, next
<1> HIDE DEF g
<1>8. Unfolds(g, V, 0, 1, n, 0, step)
  <2>1. 0 \in 0 .. n /\ \A k \in 1 .. n : k \in 0 .. n /\ k # 0
    OBVIOUS
  <2> QED
    BY <1>2, <1>6, <2>1 DEF Unfolds
<1>9. \A k \in 0 .. n : g[k] \in V
  BY ONLY n \in Nat, <1>1, <1>3, <1>8, RecursionStays
<1>10. n \in 0 .. n
  OBVIOUS
<1> QED
  BY <1>7, <1>9, <1>10 DEF V

(* A kink is left out where the way past it is clear.                      *)
LEMMA DropOneReversalIs ==
  ASSUME NEW a, NEW b, NEW w \in CoursesFrom(a, b)
  PROVE  DropOneReversal(w) \in CoursesFrom(a, b)
<1> DEFINE drops == {i \in 2 .. Len(w) - 1 : Reversed(w, i) /\ BypassClear(w[i-1], w[i+1], ReversalCeiling)}
           sharper == {pair \in drops \X drops : Sharper(Turn(w, pair[1]), Turn(w, pair[2]))}
           worst == Foremost(drops, Len(w), sharper)
<1>1. Len(w) \in Nat
  BY LenProperties DEF CoursesFrom, Courses
<1>2. \A i \in drops : i \in 2 .. Len(w) - 1 /\ Navigable(cost, w[i - 1], w[i + 1])
  BY DEF BypassClear
<1>3. DropOneReversal(w) = IF worst = 0 THEN w ELSE Without(w, worst)
  BY DEF DropOneReversal
<1> HIDE DEF drops, sharper
<1>4. worst \in drops \cup {0}
  BY <1>1, ForemostIs
<1> HIDE DEF worst
<1> QED
  BY <1>2, <1>3, <1>4, WithoutIs

(* So is a point too many.                                                 *)
LEMMA ThinOneIs ==
  ASSUME NEW a, NEW b, NEW w \in CoursesFrom(a, b)
  PROVE  ThinOne(w) \in CoursesFrom(a, b)
<1> DEFINE dearest(k) == Larger(Larger(cost[w[k-1]], cost[w[k]]), cost[w[k+1]])
           drops == {k \in 2 .. Len(w) - 1 : BypassClear(w[k-1], w[k+1], dearest(k))}
           off(k) == CrossTrack(w[k-1], w[k], w[k+1])
           nearer == {pair \in drops \X drops : Nearer(off(pair[1]), off(pair[2]))}
           least == Foremost(drops, Len(w), nearer)
<1>1. Len(w) \in Nat
  BY LenProperties DEF CoursesFrom, Courses
<1>2. \A i \in drops : i \in 2 .. Len(w) - 1 /\ Navigable(cost, w[i - 1], w[i + 1])
  BY DEF BypassClear
<1>3. ThinOne(w) = IF Len(w) <= MaxWaypoints \/ least = 0 THEN w ELSE Without(w, least)
  BY DEF ThinOne
<1> HIDE DEF drops, nearer
<1>4. least \in drops \cup {0}
  BY <1>1, ForemostIs
<1> HIDE DEF least
<1> QED
  BY <1>2, <1>3, <1>4, WithoutIs

(* A point dropped from between two lies off a leg that is clear, so the   *)
(* last point kept always leads to the one looked at next.                 *)
LEMMA DropPassIs ==
  ASSUME NEW a, NEW b, NEW w \in CoursesFrom(a, b)
  PROVE  DropPass(w) \in CoursesFrom(a, b)
<1> DEFINE n == Len(w)
           V == {v \in Seq(Cells) : Len(v) >= 1}
           base == <<w[1]>>
           next(i, out) == IF Stays(Last(out), w[i], w[i + 1]) THEN Append(out, w[i]) ELSE out
           Eq(f) == f = [i \in 1 .. n - 1 |-> IF i = 1 THEN <<w[1]>> ELSE LET out == f[i - 1] IN next(i, out)]
           step == [q \in (2 .. n - 1) \X V |-> next(q[1], q[2])]
<1>1. /\ w \in Seq(Cells) /\ w[1] = a /\ w[n] = b
      /\ \A i \in 1 .. n - 1 : Navigable(cost, w[i], w[i + 1])
  BY DEF Courses, CoursesFrom
<1>2. n \in Nat /\ \A i \in 1 .. n : w[i] \in Cells
  BY <1>1, LenProperties, ElementOfSeq
<1>3. CASE n < 3
  BY <1>3 DEF DropPass
<1>4. CASE n >= 3
  <2>1. n - 1 \in Nat /\ 1 \in 1 .. n /\ 1 \in 1 .. n - 1 /\ 1 <= n - 1 /\ n - 1 >= 2
    BY <1>2, <1>4
  <2>2. base \in V
    BY <1>2, <2>1
  <2>3. ASSUME NEW i \in 2 .. n - 1, NEW v \in V PROVE next(i, v) \in V
    <3>1. w[i] \in Cells
      BY <1>2
    <3>2. v \in Seq(Cells) /\ Len(v) >= 1 /\ Len(v) \in Nat
      BY LenProperties
    <3>3. Append(v, w[i]) \in Seq(Cells) /\ Len(Append(v, w[i])) = Len(v) + 1
      BY <3>1, <3>2, AppendProperties
    <3> QED
      BY <3>2, <3>3
  <2>4. step \in [(2 .. n - 1) \X V -> V]
    BY <2>3
  <2>5. \A i \in 2 .. n - 1, v \in V : step[<<i, v>>] = next(i, v)
    OBVIOUS
  <2>6. 1 \in Nat /\ 2 \in Nat /\ 2 = 1 + 1
    OBVIOUS
  <2> HIDE DEF step, next, base, V
  <2>7. PICK f : Recurs(f, V, 1, 2, n - 1, base, step)
    BY ONLY <2>1, <2>2, <2>4, <2>6, Recursion
  <2>8. Eq(f)
    <3>0. n \in Nat
      BY ONLY <1>2
    <3>4. \A i \in 2 .. n - 1 : i - 1 \in 1 .. n - 1
      BY ONLY <3>0
    <3>1. \A i \in 2 .. n - 1 : i - 1 \in 1 .. n - 1 /\ f[i - 1] \in V
      BY ONLY <2>7, <3>4 DEF Recurs
    <3>2. \A i \in 1 .. n - 1 : i = 1 \/ i \in 2 .. n - 1
      BY ONLY <3>0
    <3>3. \A i \in 1 .. n - 1 : f[i] = IF i = 1 THEN <<w[1]>> ELSE next(i, f[i - 1])
      BY <2>5, <2>7, <3>1, <3>2 DEF base, Recurs
    <3> QED
      BY <2>7, <3>3 DEF Recurs
  <2> DEFINE g == CHOOSE f_1 : Eq(f_1)
  <2>9. Eq(g)
    BY <2>8
  <2>10. DropPass(w) = Append(g[n - 1], w[n])
    <3>1. ~(n < 3)
      BY ONLY <1>2, <1>4
    <3> HIDE DEF Eq
    <3>2. g = CHOOSE f_1 : f_1 = [i \in 1 .. n - 1 |-> IF i = 1 THEN <<w[1]>> ELSE LET out == f_1[i - 1] IN next(i, out)]
      BY ONLY Zenon DEF Eq
    <3> HIDE DEF g
    <3>3. DropPass(w) = IF n < 3 THEN w ELSE Append(g[n - 1], w[n])
      BY ONLY <3>2, SMTT(30) DEF DropPass, next
    <3> QED
      BY ONLY <3>1, <3>3
  <2> HIDE DEF g
  <2> DEFINE Leads(i) == \E c : g[i] \in CoursesFrom(a, c) /\ Navigable(cost, c, w[i + 1])
             T == {i \in Nat : Leads(i)}
  <2>11. 1 \in T
    <3>1. g[1] = <<a>>
      BY <1>1, <2>1, <2>9
    <3>2. <<a>> \in CoursesFrom(a, a)
      BY <1>1, <1>2, <2>1 DEF Courses, CoursesFrom
    <3> QED
      BY <1>1, <2>1, <3>1, <3>2
  <2>12. ASSUME NEW i \in 1 .. (n - 1) - 1, i \in T PROVE i + 1 \in T
    <3>1. /\ i + 1 \in 1 .. n - 1 /\ i + 1 \in 1 .. n /\ i + 1 # 1 /\ (i + 1) - 1 = i /\ i + 1 \in Nat
          /\ (i + 1) + 1 \in 1 .. n
      BY <1>2
    <3>2. PICK c : g[i] \in CoursesFrom(a, c) /\ Navigable(cost, c, w[i + 1])
      BY <2>12
    <3>3. g[i + 1] = next(i + 1, g[i])
      BY <2>9, <3>1
    <3>4. Last(g[i]) = c
      BY <3>2 DEF Last, CoursesFrom
    <3>5. CASE Stays(c, w[i + 1], w[(i + 1) + 1])
      <4>1. g[i + 1] = Append(g[i], w[i + 1])
        BY <3>3, <3>4, <3>5 DEF next
      <4>2. g[i + 1] \in CoursesFrom(a, w[i + 1])
        BY <1>2, <3>1, <3>2, <4>1, CourseGrows
      <4>3. Navigable(cost, w[i + 1], w[(i + 1) + 1])
        BY <1>1, <3>1
      <4> QED
        BY <3>1, <4>2, <4>3
    <3>6. CASE ~Stays(c, w[i + 1], w[(i + 1) + 1])
      <4>1. g[i + 1] = g[i]
        BY <3>3, <3>4, <3>6 DEF next
      <4>2. Navigable(cost, c, w[(i + 1) + 1])
        BY <3>6 DEF Stays
      <4> QED
        BY <3>1, <3>2, <4>1, <4>2
    <3> QED
      BY <3>5, <3>6
  <2> HIDE DEF T
  <2>13. \A i \in 1 .. n - 1 : i \in T
    BY ONLY <2>1, <2>6, <2>11, <2>12, RangeInduction
  <2>14. n - 1 \in T /\ (n - 1) + 1 = n /\ w[n] \in Cells
    BY <1>2, <2>1, <2>13
  <2>15. PICK c : g[n - 1] \in CoursesFrom(a, c) /\ Navigable(cost, c, w[n])
    BY <2>14 DEF T
  <2> QED
    BY <1>1, <2>10, <2>14, <2>15, CourseGrows
<1> QED
  BY <1>2, <1>3, <1>4

(* Doing it again and again leaves a course too.                           *)
LEMMA DropReversalsIs ==
  ASSUME NEW a, NEW b, NEW w \in CoursesFrom(a, b)
  PROVE  DropReversals(w) \in CoursesFrom(a, b)
<1> DEFINE n == Len(w)
           V == CoursesFrom(a, b)
           Eq(f) == f = [k \in 0 .. n |-> IF k = 0 THEN w ELSE DropOneReversal(f[k - 1])]
           step == [q \in (1 .. n) \X V |-> DropOneReversal(q[2])]
<1>1. n \in Nat /\ 0 \in Nat /\ 1 \in Nat /\ 1 = 0 + 1 /\ 0 <= n /\ n \in 0 .. n
  BY LenProperties DEF CoursesFrom, Courses
<1>2. w \in V /\ step \in [(1 .. n) \X V -> V]
  BY DropOneReversalIs
<1>3. \A k \in 1 .. n, v \in V : step[<<k, v>>] = DropOneReversal(v)
  OBVIOUS
<1> HIDE DEF step, V, n
<1>4. PICK f : Recurs(f, V, 0, 1, n, w, step)
  BY ONLY <1>1, <1>2, Recursion
<1>5. Eq(f)
  <2>1. \A k \in 1 .. n : k - 1 \in 0 .. n /\ f[k - 1] \in V
    BY <1>1, <1>4 DEF Recurs
  <2>2. \A k \in 0 .. n : k = 0 \/ k \in 1 .. n
    BY <1>1
  <2>3. \A k \in 0 .. n : f[k] = IF k = 0 THEN w ELSE DropOneReversal(f[k - 1])
    BY <1>3, <1>4, <2>1, <2>2 DEF Recurs
  <2> QED
    BY <1>4, <2>3 DEF Recurs
<1> DEFINE g == CHOOSE f_1 : Eq(f_1)
<1>6. Eq(g)
  BY <1>5
<1>7. DropReversals(w) = g[n]
  BY DEF DropReversals, n
<1> HIDE DEF g
<1>8. Unfolds(g, V, 0, 1, n, w, step)
  <2>1. 0 \in 0 .. n /\ \A k \in 1 .. n : k \in 0 .. n /\ k # 0
    BY <1>1
  <2> QED
    BY <1>3, <1>6, <2>1 DEF Unfolds
<1>9. \A k \in 0 .. n : g[k] \in V
  BY ONLY <1>1, <1>2, <1>8, RecursionStays
<1> QED
  BY <1>1, <1>2, <1>7, <1>9 DEF V

(* As does thinning to the limit.                                          *)
LEMMA ThinToLimitIs ==
  ASSUME NEW a, NEW b, NEW w \in CoursesFrom(a, b)
  PROVE  ThinToLimit(w) \in CoursesFrom(a, b)
<1> DEFINE n == Len(w)
           V == CoursesFrom(a, b)
           Eq(f) == f = [k \in 0 .. n |-> IF k = 0 THEN w ELSE ThinOne(f[k - 1])]
           step == [q \in (1 .. n) \X V |-> ThinOne(q[2])]
<1>1. n \in Nat /\ 0 \in Nat /\ 1 \in Nat /\ 1 = 0 + 1 /\ 0 <= n /\ n \in 0 .. n
  BY LenProperties DEF CoursesFrom, Courses
<1>2. w \in V /\ step \in [(1 .. n) \X V -> V]
  BY ThinOneIs
<1>3. \A k \in 1 .. n, v \in V : step[<<k, v>>] = ThinOne(v)
  OBVIOUS
<1> HIDE DEF step, V, n
<1>4. PICK f : Recurs(f, V, 0, 1, n, w, step)
  BY ONLY <1>1, <1>2, Recursion
<1>5. Eq(f)
  <2>1. \A k \in 1 .. n : k - 1 \in 0 .. n /\ f[k - 1] \in V
    BY <1>1, <1>4 DEF Recurs
  <2>2. \A k \in 0 .. n : k = 0 \/ k \in 1 .. n
    BY <1>1
  <2>3. \A k \in 0 .. n : f[k] = IF k = 0 THEN w ELSE ThinOne(f[k - 1])
    BY <1>3, <1>4, <2>1, <2>2 DEF Recurs
  <2> QED
    BY <1>4, <2>3 DEF Recurs
<1> DEFINE g == CHOOSE f_1 : Eq(f_1)
<1>6. Eq(g)
  BY <1>5
<1>7. ThinToLimit(w) = IF MaxWaypoints < 2 THEN w ELSE g[n]
  BY DEF ThinToLimit, n
<1> HIDE DEF g
<1>8. Unfolds(g, V, 0, 1, n, w, step)
  <2>1. 0 \in 0 .. n /\ \A k \in 1 .. n : k \in 0 .. n /\ k # 0
    BY <1>1
  <2> QED
    BY <1>3, <1>6, <2>1 DEF Unfolds
<1>9. \A k \in 0 .. n : g[k] \in V
  BY ONLY <1>1, <1>2, <1>8, RecursionStays
<1> QED
  BY <1>1, <1>2, <1>7, <1>9 DEF V

(* As do the passes over what lies on the line.                            *)
LEMMA DropWithinToleranceIs ==
  ASSUME NEW a, NEW b, NEW w \in CoursesFrom(a, b)
  PROVE  DropWithinTolerance(w) \in CoursesFrom(a, b)
<1> DEFINE n == Len(w)
           V == CoursesFrom(a, b)
           Eq(f) == f = [k \in 0 .. n |-> IF k = 0 THEN w ELSE DropPass(f[k - 1])]
           step == [q \in (1 .. n) \X V |-> DropPass(q[2])]
<1>1. n \in Nat /\ 0 \in Nat /\ 1 \in Nat /\ 1 = 0 + 1 /\ 0 <= n /\ n \in 0 .. n
  BY LenProperties DEF CoursesFrom, Courses
<1>2. w \in V /\ step \in [(1 .. n) \X V -> V]
  BY DropPassIs
<1>3. \A k \in 1 .. n, v \in V : step[<<k, v>>] = DropPass(v)
  OBVIOUS
<1> HIDE DEF step, V, n
<1>4. PICK f : Recurs(f, V, 0, 1, n, w, step)
  BY ONLY <1>1, <1>2, Recursion
<1>5. Eq(f)
  <2>1. \A k \in 1 .. n : k - 1 \in 0 .. n /\ f[k - 1] \in V
    BY <1>1, <1>4 DEF Recurs
  <2>2. \A k \in 0 .. n : k = 0 \/ k \in 1 .. n
    BY <1>1
  <2>3. \A k \in 0 .. n : f[k] = IF k = 0 THEN w ELSE DropPass(f[k - 1])
    BY <1>3, <1>4, <2>1, <2>2 DEF Recurs
  <2> QED
    BY <1>4, <2>3 DEF Recurs
<1> DEFINE g == CHOOSE f_1 : Eq(f_1)
<1>6. Eq(g)
  BY <1>5
<1>7. DropWithinTolerance(w) = g[n]
  BY DEF DropWithinTolerance, n
<1> HIDE DEF g
<1>8. Unfolds(g, V, 0, 1, n, w, step)
  <2>1. 0 \in 0 .. n /\ \A k \in 1 .. n : k \in 0 .. n /\ k # 0
    BY <1>1
  <2> QED
    BY <1>3, <1>6, <2>1 DEF Unfolds
<1>9. \A k \in 0 .. n : g[k] \in V
  BY ONLY <1>1, <1>2, <1>8, RecursionStays
<1> QED
  BY <1>1, <1>2, <1>7, <1>9 DEF V

-----------------------------------------------------------------------------
(* What is pulled taut is a course.                                        *)

(* The far end of a reach is ahead, and in a straight line.                *)
LEMMA ReachIs ==
  ASSUME NEW p \in Courses, NEW i \in 1 .. Len(p) - 1
  PROVE  /\ Reach(p, i) \in i + 1 .. Len(p)
         /\ Navigable(cost, p[i], p[Reach(p, i)])
<1> DEFINE n == Len(p)
           far == Smaller(n, i + PullWindow)
           Direct(j) == \A k \in i + 2 .. j : Steerable(p, i, k)
           Ends(j) == Direct(j) /\ (j = far \/ ~Steerable(p, i, j + 1))
           T == {j \in Nat : Direct(j)}
<1>1. n \in Nat /\ \A k \in 1 .. n - 1 : Navigable(cost, p[k], p[k + 1])
  BY LenProperties DEF Courses
<1>2. far \in i + 1 .. n /\ i + 1 \in Nat /\ far \in Nat /\ i + 1 <= far
  BY <1>1 DEF Smaller, PullWindow
<1> HIDE DEF far, n
<1>3. \E j \in i + 1 .. far : Ends(j)
  <2> SUFFICES ASSUME \A j \in i + 1 .. far : ~Ends(j) PROVE FALSE
    OBVIOUS
  <2>1. i + 1 \in T
    <3>1. i + 2 .. i + 1 = {}
      BY <1>2
    <3> QED
      BY <1>2, <3>1
  <2>2. ASSUME NEW j \in i + 1 .. far - 1, j \in T PROVE j + 1 \in T
    <3>1. j \in i + 1 .. far /\ j # far /\ j + 1 \in Nat /\ \A k \in i + 2 .. j + 1 : k \in i + 2 .. j \/ k = j + 1
      BY <1>2
    <3>2. Direct(j)
      BY <2>2
    <3>3. Steerable(p, i, j + 1)
      BY <3>1, <3>2
    <3> QED
      BY <3>1, <3>2, <3>3
  <2> HIDE DEF T
  <2>3. \A j \in i + 1 .. far : j \in T
    BY ONLY <1>2, <2>1, <2>2, RangeInduction
  <2>4. far \in i + 1 .. far /\ far \in T
    BY <1>2, <2>3
  <2> QED
    BY <2>4 DEF T
<1> DEFINE r == CHOOSE j \in i + 1 .. far : Ends(j)
<1>4. r \in i + 1 .. far /\ Ends(r)
  BY <1>3
<1>5. Reach(p, i) = r
  BY DEF Reach, far, n
<1> HIDE DEF r
<1>6. Navigable(cost, p[i], p[r])
  <2>1. CASE r = i + 1
    <3>1. i \in 1 .. n - 1
      BY DEF n
    <3> QED
      BY <1>1, <2>1, <3>1
  <2>2. CASE r # i + 1
    <3>1. r \in i + 2 .. r
      BY <1>2, <1>4, <2>2
    <3> QED
      BY <1>4, <3>1 DEF Steerable
  <2> QED
    BY <2>1, <2>2
<1>7. r \in i + 1 .. n
  <2>1. far <= n /\ i + 1 \in Nat /\ n \in Nat
    BY <1>1, <1>2
  <2> QED
    BY <1>2, <1>4, <2>1
<1> QED
  BY <1>5, <1>6, <1>7 DEF n

(* The cells kept go on from one to the other and reach the last.          *)
LEMMA PullTautIs ==
  ASSUME NEW a, NEW b, NEW p \in CoursesFrom(a, b)
  PROVE  PullTaut(p) \in CoursesFrom(a, b)
<1> DEFINE n == Len(p)
           V == {s \in Seq(1 .. n) : /\ Len(s) >= 1 /\ s[1] = 1
                                     /\ \A k \in 1 .. Len(s) - 1 : Navigable(cost, p[s[k]], p[s[k + 1]])}
           base == <<1>>
           next(s) == IF Last(s) = n THEN s ELSE Append(s, Reach(p, Last(s)))
           Eq(f) == f = [k \in 1 .. n |-> IF k = 1 THEN <<1>> ELSE LET before == f[k - 1] IN next(before)]
           step == [q \in (2 .. n) \X V |-> next(q[2])]
<1>1. p \in Courses /\ p \in Seq(Cells) /\ p[1] = a /\ p[n] = b
  BY DEF Courses, CoursesFrom
<1>2. n \in Nat /\ \A i \in 1 .. n : p[i] \in Cells
  BY <1>1, LenProperties, ElementOfSeq
<1>3. CASE n < 3
  BY <1>3 DEF PullTaut
<1>4. CASE n >= 3
  <2>1. 1 \in 1 .. n /\ n \in 1 .. n /\ 1 \in Nat /\ 2 \in Nat /\ 2 = 1 + 1 /\ 1 <= n
    BY <1>2, <1>4
  <2>2. base \in V
    BY <2>1
  <2>3. ASSUME NEW s \in V
        PROVE  /\ next(s) \in V /\ Len(s) \in Nat /\ Last(s) \in 1 .. n /\ Last(s) = s[Len(s)]
               /\ Last(s) # n => Last(next(s)) > Last(s)
               /\ Last(s) = n => next(s) = s
    <3>1. /\ s \in Seq(1 .. n) /\ Len(s) >= 1 /\ s[1] = 1 /\ Len(s) \in Nat
          /\ \A k \in 1 .. Len(s) - 1 : Navigable(cost, p[s[k]], p[s[k + 1]])
      BY LenProperties
    <3> DEFINE l == Len(s)
               e == Last(s)
    <3>2. e = s[l] /\ l \in 1 .. l
      BY <3>1 DEF Last
    <3>3. e \in 1 .. n
      BY <3>1, <3>2, ElementOfSeq
    <3>4. CASE e = n
      BY <3>1, <3>2, <3>3, <3>4
    <3>5. CASE e # n
      <4> DEFINE r == Reach(p, e)
                 t == Append(s, r)
      <4>1. e \in 1 .. Len(p) - 1
        BY <1>2, <3>3, <3>5
      <4> HIDE DEF e
      <4>2. r \in e + 1 .. n /\ Navigable(cost, p[e], p[r])
        BY <1>1, <4>1, ReachIs
      <4>3. r \in 1 .. n /\ r > e
        BY <1>2, <3>3, <4>2
      <4> HIDE DEF r
      <4>4. t \in Seq(1 .. n) /\ Len(t) = l + 1 /\ t[l + 1] = r /\ \A k \in 1 .. l : t[k] = s[k]
        BY <3>1, <4>3, AppendProperties
      <4>5. next(s) = t
        BY <3>5 DEF r, e
      <4> HIDE DEF t, l, next
      <4>6. l \in Nat /\ l >= 1
        BY <3>1 DEF l
      <4>7. ASSUME NEW k \in 1 .. (l + 1) - 1 PROVE Navigable(cost, p[t[k]], p[t[k + 1]])
        <5>1. CASE k = l
          BY <3>2, <4>2, <4>4, <5>1
        <5>2. CASE k # l
          <6>1. k \in 1 .. l /\ k + 1 \in 1 .. l /\ k \in 1 .. l - 1
            BY <4>6, <5>2
          <6> QED
            BY <3>1, <4>4, <6>1 DEF l
        <5> QED
          BY <5>1, <5>2
      <4>8. t[1] = 1 /\ Len(t) >= 1
        <5>1. 1 \in 1 .. l /\ l + 1 >= 1
          BY <4>6
        <5> QED
          BY <3>1, <4>4, <5>1
      <4>9. t \in V
        BY <4>4, <4>7, <4>8
      <4>10. Last(t) = r
        BY <4>4 DEF Last
      <4> QED
        BY <3>1, <3>2, <3>3, <3>5, <4>3, <4>5, <4>9, <4>10 DEF l, e
    <3> QED
      BY <3>4, <3>5
  <2>4. step \in [(2 .. n) \X V -> V]
    BY <2>3
  <2>5. \A k \in 2 .. n, s \in V : step[<<k, s>>] = next(s)
    OBVIOUS
  <2> HIDE DEF step, next, base, V
  <2>6. PICK f : Recurs(f, V, 1, 2, n, base, step)
    BY ONLY <1>2, <2>1, <2>2, <2>4, Recursion
  <2>7. Eq(f)
    <3>1. \A k \in 2 .. n : k - 1 \in 1 .. n /\ f[k - 1] \in V
      BY <1>2, <2>6 DEF Recurs
    <3>2. \A k \in 1 .. n : k = 1 \/ k \in 2 .. n
      BY <1>2
    <3>3. \A k \in 1 .. n : f[k] = IF k = 1 THEN <<1>> ELSE next(f[k - 1])
      BY <2>5, <2>6, <3>1, <3>2 DEF base, Recurs
    <3> QED
      BY <2>6, <3>3 DEF Recurs
  <2> DEFINE g == CHOOSE f_1 : Eq(f_1)
  <2>8. Eq(g)
    BY <2>7
  <2> DEFINE kept == g[n]
  <2>9. PullTaut(p) = [m \in 1 .. Len(kept) |-> p[kept[m]]]
    <3>1. ~(n < 3)
      BY <1>2, <1>4
    <3> QED
      BY ONLY <3>1 DEF PullTaut, next
  <2> HIDE DEF g
  <2> DEFINE T == {k \in Nat : g[k] \in V /\ Last(g[k]) >= k}
  <2>10. 1 \in T
    <3>1. g[1] = base /\ Last(base) = 1
      BY <2>1, <2>8 DEF base, Last
    <3> QED
      BY <2>1, <2>2, <3>1
  <2>11. ASSUME NEW k \in 1 .. n - 1, k \in T PROVE k + 1 \in T
    <3>1. k + 1 \in 1 .. n /\ k + 1 # 1 /\ (k + 1) - 1 = k /\ k + 1 \in Nat /\ k + 1 <= n
      BY <1>2
    <3>2. g[k + 1] = next(g[k]) /\ g[k] \in V /\ Last(g[k]) >= k
      BY <2>8, <2>11, <3>1
    <3>3. next(g[k]) \in V
      BY <2>3, <3>2
    <3>4. Last(next(g[k])) >= k + 1
      <4>1. Last(next(g[k])) \in 1 .. n /\ Last(g[k]) \in 1 .. n
        BY <2>3, <3>2, <3>3
      <4>2. CASE Last(g[k]) = n
        BY <2>3, <3>1, <3>2, <4>2
      <4>3. CASE Last(g[k]) # n
        <5>1. Last(next(g[k])) > Last(g[k])
          BY <2>3, <3>2, <4>3
        <5> QED
          BY <3>1, <3>2, <4>1, <5>1
      <4> QED
        BY <4>2, <4>3
    <3> QED
      BY <3>1, <3>2, <3>3, <3>4
  <2> HIDE DEF T
  <2>12. \A k \in 1 .. n : k \in T
    BY ONLY <1>2, <2>1, <2>10, <2>11, RangeInduction
  <2>13. kept \in V /\ Last(kept) >= n
    BY <2>1, <2>12 DEF T
  <2> HIDE DEF kept
  <2>14. Len(kept) \in Nat /\ kept[Len(kept)] = n
    BY <1>2, <2>3, <2>13
  <2> DEFINE l == Len(kept)
             u == [m \in 1 .. l |-> p[kept[m]]]
  <2>15. /\ kept \in Seq(1 .. n) /\ l >= 1 /\ kept[1] = 1
         /\ \A k \in 1 .. l - 1 : Navigable(cost, p[kept[k]], p[kept[k + 1]])
    BY <2>13 DEF V
  <2>16. \A m \in 1 .. l : kept[m] \in 1 .. n
    BY <2>15, ElementOfSeq
  <2> HIDE DEF l
  <2>17. l \in Nat
    BY <2>14 DEF l
  <2>18. u \in [1 .. l -> Cells]
    BY <1>2, <2>16
  <2>19. \A m \in 1 .. l : u[m] = p[kept[m]]
    OBVIOUS
  <2> HIDE DEF u
  <2>20. u \in Seq(Cells) /\ Len(u) = l
    BY <2>17, <2>18, ListIs
  <2>21. 1 \in 1 .. l /\ l \in 1 .. l /\ \A k \in 1 .. l - 1 : k \in 1 .. l /\ k + 1 \in 1 .. l
    BY <2>15, <2>17
  <2>22. kept[l] = n
    BY <2>14 DEF l
  <2> HIDE DEF n
  <2>23. u[1] = a /\ u[l] = b
    BY <1>1, <2>15, <2>19, <2>21, <2>22
  <2>24. \A k \in 1 .. l - 1 : Navigable(cost, u[k], u[k + 1])
    BY <2>15, <2>19, <2>21
  <2>25. u \in Courses
    BY <2>15, <2>20, <2>24 DEF Courses
  <2>26. PullTaut(p) = u
    BY <2>9 DEF u, l
  <2> QED
    BY <2>20, <2>23, <2>25, <2>26 DEF CoursesFrom
<1> QED
  BY <1>2, <1>3, <1>4

-----------------------------------------------------------------------------
(* The path as it is stitched, and what becomes of it.                     *)

(* The cells a search came by.                                             *)
LEMMA ReconstructIs ==
  ASSUME NEW came \in [Cells -> Cells \cup {NoCell}], NEW to \in Cells
  PROVE  Reconstruct(came, to) \in Seq(Cells) /\ Len(Reconstruct(came, to)) >= 1
<1> DEFINE n == Width * Height
           V == {w \in Seq(Cells) : Len(w) >= 1}
           base == <<to>>
           next(w) == IF came[Head(w)] = NoCell THEN w ELSE <<came[Head(w)]>> \o w
           Eq(f) == f = [k \in 0 .. n |-> IF k = 0 THEN <<to>> ELSE LET sofar == f[k - 1] IN next(sofar)]
           step == [q \in (1 .. n) \X V |-> next(q[2])]
<1>1. n \in Nat
  BY GridAssumption
<1> HIDE DEF n
<1>2. 0 \in Nat /\ 1 \in Nat /\ 1 = 0 + 1 /\ 0 <= n /\ n \in 0 .. n
  BY <1>1
<1>3. base \in V
  OBVIOUS
<1>4. ASSUME NEW w \in V PROVE next(w) \in V
  <2>1. w \in Seq(Cells) /\ Len(w) >= 1 /\ Len(w) \in Nat /\ w # <<>>
    BY LenProperties, EmptySeq
  <2>2. Head(w) \in Cells
    BY <2>1, HeadTailProperties
  <2>3. CASE came[Head(w)] = NoCell
    BY <2>3
  <2>4. CASE came[Head(w)] # NoCell
    <3> DEFINE c == came[Head(w)]
               s == <<c>>
    <3>1. c \in Cells
      BY <2>2, <2>4
    <3> HIDE DEF c
    <3>2. s \in Seq(Cells) /\ Len(s) = 1
      BY <3>1
    <3> HIDE DEF s
    <3>3. s \o w \in Seq(Cells) /\ Len(s \o w) = Len(s) + Len(w)
      BY ONLY <2>1, <3>2, ConcatIs
    <3>4. Len(s \o w) >= 1
      BY <2>1, <3>2, <3>3
    <3>5. next(w) = s \o w
      BY <2>4 DEF s, c
    <3> QED
      BY <3>3, <3>4, <3>5
  <2> QED
    BY <2>3, <2>4
<1>5. step \in [(1 .. n) \X V -> V]
  BY <1>4
<1>6. \A k \in 1 .. n, w \in V : step[<<k, w>>] = next(w)
  OBVIOUS
<1> HIDE DEF step, next, base, V
<1>7. PICK f : Recurs(f, V, 0, 1, n, base, step)
  BY ONLY <1>1, <1>2, <1>3, <1>5, Recursion
<1>8. Eq(f)
  <2>1. \A k \in 1 .. n : k - 1 \in 0 .. n /\ f[k - 1] \in V
    BY <1>1, <1>7 DEF Recurs
  <2>2. \A k \in 0 .. n : k = 0 \/ k \in 1 .. n
    BY <1>1
  <2>3. \A k \in 0 .. n : f[k] = IF k = 0 THEN <<to>> ELSE next(f[k - 1])
    BY <1>6, <1>7, <2>1, <2>2 DEF base, Recurs
  <2> QED
    BY <1>7, <2>3 DEF Recurs
<1> DEFINE g == CHOOSE f_1 : Eq(f_1)
<1>9. Eq(g)
  BY <1>8
<1>10. Reconstruct(came, to) = g[n]
  BY DEF Reconstruct, next, n
<1> HIDE DEF g
<1>11. Unfolds(g, V, 0, 1, n, base, step)
  <2>1. 0 \in 0 .. n /\ \A k \in 1 .. n : k \in 0 .. n /\ k # 0
    BY <1>1
  <2> QED
    BY <1>6, <1>9, <2>1 DEF Unfolds, base
<1>12. \A k \in 0 .. n : g[k] \in V
  BY ONLY <1>1, <1>2, <1>3, <1>5, <1>11, RecursionStays
<1> QED
  BY <1>2, <1>10, <1>12 DEF V

(* Where each leg ends in the path; a leg found has a cell at least.       *)
PathStitched ==
  /\ path \in Seq(Cells)
  /\ bounds \in Seq(Nat) /\ Len(bounds) >= 1 /\ bounds[1] = 0
  /\ \A k \in 1 .. Len(bounds) : bounds[k] <= Len(path)
  /\ \A k \in 1 .. Len(bounds) - 1 : bounds[k] <= bounds[k + 1] /\ bounds[k + 1] >= 1
  /\ bounds[Len(bounds)] = Len(path)
  /\ outcome = "planning" => leg = Len(bounds)
  /\ outcome = "found" => Len(bounds) >= 2

(* What was made of the path is a course from its first cell to its last.  *)
CourseOfPath ==
  waypoints # <<>> =>
    outcome = "found" /\ (PathIsConnected => waypoints \in CoursesFrom(path[1], path[Len(path)]))

ShapeInv == SearchInv /\ PathStitched /\ CourseOfPath

(* The legs pulled one by one, or the path as one, are a course.           *)
LEMMA PullLegsIs ==
  ASSUME PathStitched, outcome = "found", path \in Courses
  PROVE  PullLegs \in CoursesFrom(path[1], path[Len(path)])
<1> DEFINE n == Len(bounds) - 1
           lo(k) == IF k = 1 THEN 1 ELSE bounds[k]
           V == Seq(Cells)
           Eq(f) == f = [k \in 1 .. n |-> IF k = 1 THEN PullLeg(1) ELSE f[k - 1] \o Tail(PullLeg(k))]
           step == [q \in (2 .. n) \X V |-> q[2] \o Tail(PullLeg(q[1]))]
<1>1. /\ Len(bounds) \in Nat /\ Len(path) \in Nat /\ n \in Nat /\ n >= 1
      /\ \A k \in 1 .. Len(bounds) : bounds[k] \in Nat
  BY LenProperties, ElementOfSeq DEF PathStitched
<1>2. bounds[n + 1] = Len(path)
  BY <1>1 DEF PathStitched
<1>3. ASSUME NEW k \in 1 .. n
      PROVE  lo(k) \in 1 .. Len(path) /\ bounds[k + 1] \in lo(k) .. Len(path)
  <2>1. k \in 1 .. Len(bounds) /\ k + 1 \in 1 .. Len(bounds) /\ k \in 1 .. Len(bounds) - 1
    BY <1>1
  <2>2. /\ bounds[k] \in Nat /\ bounds[k + 1] \in Nat /\ bounds[k] <= bounds[k + 1]
        /\ bounds[k + 1] >= 1 /\ bounds[k + 1] <= Len(path)
    BY <1>1, <2>1 DEF PathStitched
  <2>3. k # 1 => bounds[k] >= 1
    <3>1. k # 1 => k - 1 \in 1 .. Len(bounds) - 1 /\ (k - 1) + 1 = k
      BY <2>1
    <3> QED
      BY <3>1 DEF PathStitched
  <2> QED
    BY <1>1, <2>2, <2>3
<1>4. 1 \in 1 .. Len(path) /\ Len(path) \in 1 .. Len(path)
  <2>1. 1 \in 1 .. n
    BY <1>1
  <2> QED
    BY <1>1, <1>3, <2>1
<1>5. \A k \in 1 .. n : PullLeg(k) \in CoursesFrom(path[lo(k)], path[bounds[k + 1]])
  BY <1>3, CoursePart, PullTautIs DEF PullLeg
<1>6. path \in CoursesFrom(path[1], path[Len(path)])
  BY DEF CoursesFrom
<1>7. CASE ~(KeepWaypoints /\ Len(bounds) > 2)
  BY <1>6, <1>7, PullTautIs DEF PullLegs
<1>8. CASE KeepWaypoints /\ Len(bounds) > 2
  <2>1. 1 \in Nat /\ 2 \in Nat /\ 2 = 1 + 1 /\ 1 \in 1 .. n /\ n \in 1 .. n
    BY <1>1
  <2> HIDE DEF n
  <2>2. PullLeg(1) \in V
    BY <1>5, <2>1 DEF CoursesFrom, Courses
  <2>3. ASSUME NEW k \in 2 .. n, NEW w \in V PROVE w \o Tail(PullLeg(k)) \in V
    <3>1. k \in 1 .. n
      BY <1>1
    <3>2. PullLeg(k) \in Seq(Cells) /\ Len(PullLeg(k)) >= 1
      BY <1>5, <3>1 DEF CoursesFrom, Courses
    <3>3. PullLeg(k) # <<>>
      BY <3>2
    <3>4. Tail(PullLeg(k)) \in Seq(Cells)
      BY <3>2, <3>3, HeadTailProperties
    <3> QED
      BY <3>4, ConcatIs
  <2>4. step \in [(2 .. n) \X V -> V]
    BY <2>3
  <2>5. \A k \in 2 .. n, w \in V : step[<<k, w>>] = w \o Tail(PullLeg(k))
    OBVIOUS
  <2> HIDE DEF step, V
  <2>6. PICK f : Recurs(f, V, 1, 2, n, PullLeg(1), step)
    BY ONLY <1>1, <2>1, <2>2, <2>4, Recursion
  <2>7. Eq(f)
    <3>1. \A k \in 2 .. n : k - 1 \in 1 .. n /\ f[k - 1] \in V
      BY <1>1, <2>6 DEF Recurs
    <3>2. \A k \in 1 .. n : k = 1 \/ k \in 2 .. n
      BY <1>1
    <3>3. \A k \in 1 .. n : f[k] = IF k = 1 THEN PullLeg(1) ELSE f[k - 1] \o Tail(PullLeg(k))
      BY <2>5, <2>6, <3>1, <3>2 DEF Recurs
    <3> QED
      BY <2>6, <3>3 DEF Recurs
  <2> DEFINE g == CHOOSE f_1 : Eq(f_1)
  <2>8. Eq(g)
    BY <2>7
  <2>9. PullLegs = g[n]
    BY <1>8 DEF PullLegs, n
  <2> HIDE DEF g
  <2> DEFINE T == {k \in Nat : g[k] \in CoursesFrom(path[1], path[bounds[k + 1]])}
  <2>10. 1 \in T
    <3>1. g[1] = PullLeg(1) /\ lo(1) = 1
      BY <2>1, <2>8
    <3> QED
      BY <1>5, <2>1, <3>1
  <2>11. ASSUME NEW k \in 1 .. n - 1, k \in T PROVE k + 1 \in T
    <3>1. k + 1 \in 1 .. n /\ k + 1 # 1 /\ (k + 1) - 1 = k /\ k + 1 \in Nat
      BY <1>1
    <3>2. g[k + 1] = g[k] \o Tail(PullLeg(k + 1)) /\ lo(k + 1) = bounds[k + 1]
      BY <2>8, <3>1
    <3>3. g[k] \in CoursesFrom(path[1], path[bounds[k + 1]])
      BY <2>11
    <3>4. PullLeg(k + 1) \in CoursesFrom(path[bounds[k + 1]], path[bounds[(k + 1) + 1]])
      BY <1>5, <3>1, <3>2
    <3>5. g[k + 1] \in CoursesFrom(path[1], path[bounds[(k + 1) + 1]])
      BY <3>2, <3>3, <3>4, CoursesJoin
    <3> QED
      BY <3>1, <3>5
  <2> HIDE DEF T
  <2>12. \A k \in 1 .. n : k \in T
    BY ONLY <1>1, <2>1, <2>10, <2>11, RangeInduction
  <2> QED
    BY <1>2, <2>1, <2>9, <2>12 DEF T
<1> QED
  BY <1>7, <1>8

(* Nothing is stitched yet.                                                *)
LEMMA ShapeInitInv == ShapeInit => ShapeInv
<1> SUFFICES ASSUME ShapeInit PROVE ShapeInv
  OBVIOUS
<1>1. SearchInv
  BY SearchInitInv DEF ShapeInit
<1>2. PathStitched
  <2>1. path = <<>> /\ bounds = <<0>> /\ leg = 1 /\ outcome = "planning"
    BY DEF ShapeInit, SearchInit
  <2> QED
    BY <2>1 DEF PathStitched
<1>3. CourseOfPath
  BY DEF ShapeInit, CourseOfPath
<1> QED
  BY <1>1, <1>2, <1>3 DEF ShapeInv

(* A leg that was found is put behind the path, and where it ends noted.   *)
LEMMA ArriveStitches ==
  ASSUME SearchInv, PathStitched, Arrive
  PROVE  PathStitched'
<1> DEFINE found == Reconstruct(search.came, search.to)
           n == Len(path)
           m == Len(path')
           l == Len(bounds)
<1>1. outcome = "planning" /\ search \in Searches
  BY DEF Arrive, SearchInv
<1>2. found \in Seq(Cells) /\ Len(found) >= 1
  BY <1>1, ReconstructIs DEF Searches
<1> HIDE DEF found
<1>3. /\ path \in Seq(Cells) /\ n \in Nat /\ bounds \in Seq(Nat) /\ l \in Nat /\ l >= 1 /\ bounds[1] = 0
      /\ \A k \in 1 .. l : bounds[k] \in Nat /\ bounds[k] <= n
      /\ \A k \in 1 .. l - 1 : bounds[k] <= bounds[k + 1] /\ bounds[k + 1] >= 1
      /\ bounds[l] = n /\ leg = l
  BY <1>1, LenProperties, ElementOfSeq DEF PathStitched
<1>4. path' \in Seq(Cells) /\ m \in Nat /\ m >= n /\ m >= 1
  <2>1. CASE leg = 1
    <3>1. path' = found
      BY <2>1 DEF Arrive, found
    <3>2. n = 0
      BY <1>3, <2>1
    <3>3. Len(found) \in Nat
      BY <1>2, LenProperties
    <3> QED
      BY <1>2, <3>1, <3>2, <3>3
  <2>2. CASE leg # 1
    <3> DEFINE t == Tail(found)
    <3>1. path' = path \o t
      BY <2>2 DEF Arrive, found
    <3>2. found # <<>>
      BY <1>2
    <3>3. t \in Seq(Cells)
      BY <1>2, <3>2, HeadTailProperties
    <3> HIDE DEF t
    <3>4. path \o t \in Seq(Cells) /\ Len(t) \in Nat /\ Len(path \o t) = Len(path) + Len(t)
      BY <1>3, <3>3, ConcatIs
    <3>5. n >= 1
      <4>1. l - 1 \in 1 .. l - 1 /\ (l - 1) + 1 = l
        BY <1>3, <2>2
      <4> QED
        BY <1>3, <4>1
    <3> QED
      BY <1>3, <3>1, <3>4, <3>5
  <2> QED
    BY <2>1, <2>2
<1>5. bounds' = Append(bounds, m)
  BY DEF Arrive
<1> HIDE DEF n, m, l
<1>6. /\ bounds' \in Seq(Nat) /\ Len(bounds') = l + 1 /\ bounds'[l + 1] = m
      /\ \A k \in 1 .. l : bounds'[k] = bounds[k]
  BY <1>3, <1>4, <1>5, AppendProperties DEF l
<1>7. 1 \in 1 .. l /\ l \in 1 .. l /\ (l + 1) - 1 = l /\ l + 1 >= 2
  BY <1>3
<1>8. \A k \in 1 .. l + 1 : bounds'[k] <= m
  <2> TAKE k \in 1 .. l + 1
  <2>1. CASE k = l + 1
    <3>1. bounds'[k] = m
      BY ONLY <1>6, <2>1
    <3> QED
      BY ONLY <1>4, <3>1
  <2>2. CASE k # l + 1
    <3>1. k \in 1 .. l
      BY <1>3, <2>2
    <3>2. bounds'[k] = bounds[k] /\ bounds[k] \in Nat /\ bounds[k] <= n
      BY <1>3, <1>6, <3>1
    <3>3. m >= n /\ m \in Nat /\ n \in Nat
      BY <1>3, <1>4
    <3> QED
      BY ONLY <3>2, <3>3
  <2> QED
    BY <2>1, <2>2
<1>9. \A k \in 1 .. l : bounds'[k] <= bounds'[k + 1] /\ bounds'[k + 1] >= 1
  <2> TAKE k \in 1 .. l
  <2>1. CASE k = l
    BY <1>3, <1>4, <1>6, <1>7, <2>1
  <2>2. CASE k # l
    <3>1. k \in 1 .. l - 1 /\ k + 1 \in 1 .. l
      BY <1>3, <2>2
    <3> QED
      BY <1>3, <1>6, <3>1
  <2> QED
    BY <2>1, <2>2
<1>10. outcome' = "planning" => leg' = l + 1
  BY <1>3 DEF Arrive
<1> QED
  BY <1>3, <1>4, <1>6, <1>7, <1>8, <1>9, <1>10 DEF PathStitched, m

(* The other steps of the search leave the path alone.                     *)
LEMMA SearchStitches ==
  ASSUME SearchInv, PathStitched, [SearchNext]_searchVars
  PROVE  PathStitched'
<1>1. CASE SnapEnds
  BY <1>1 DEF SnapEnds, PathStitched
<1>2. CASE Relax
  BY <1>2 DEF Relax, PathStitched
<1>3. CASE GiveUp
  BY <1>3 DEF GiveUp, PathStitched
<1>4. CASE Arrive
  BY <1>4, ArriveStitches
<1>5. ASSUME NEW c \in Cells, Expand(c) PROVE PathStitched'
  BY <1>5 DEF Expand, PathStitched
<1>6. CASE UNCHANGED searchVars
  BY <1>6 DEF searchVars, PathStitched
<1> QED
  BY <1>1, <1>2, <1>3, <1>4, <1>5, <1>6 DEF SearchNext

(* A path that was found stays, so what was made of it is still of it.     *)
LEMMA SearchKeepsCourse ==
  ASSUME CourseOfPath, [SearchNext]_searchVars, waypoints' = waypoints
  PROVE  CourseOfPath'
<1> SUFFICES ASSUME waypoints # <<>>
             PROVE  outcome' = "found" /\ (PathIsConnected' => waypoints \in CoursesFrom(path[1], path[Len(path)])')
  BY DEF CourseOfPath
<1>1. outcome = "found"
  BY DEF CourseOfPath
<1>2. UNCHANGED searchVars
  <2>1. ~SnapEnds
    BY <1>1 DEF SnapEnds, Idle
  <2>2. ~Relax
    BY <1>1 DEF Relax
  <2>3. ~GiveUp
    BY <1>1 DEF GiveUp
  <2>4. ~Arrive
    BY <1>1 DEF Arrive
  <2>5. \A c \in Cells : ~Expand(c)
    BY <1>1 DEF Expand
  <2> QED
    BY <2>1, <2>2, <2>3, <2>4, <2>5 DEF SearchNext
<1>3. cost' = cost /\ path' = path /\ outcome' = outcome
  BY <1>2 DEF searchVars
<1> QED
  BY <1>1, <1>3 DEF CourseOfPath, PathIsConnected, CoursesFrom, Courses

(* What is packaged is the path pulled taut and thinned.                   *)
LEMMA PackageShapes ==
  ASSUME PathStitched, Package
  PROVE  CourseOfPath'
<1>1. outcome = "found" /\ UNCHANGED searchVars /\ waypoints' = DropWithinTolerance(PathToWaypoints)
  BY DEF Package
<1>2. ASSUME PathIsConnected PROVE DropWithinTolerance(PathToWaypoints) \in CoursesFrom(path[1], path[Len(path)])
  <2>1. path \in Courses
    <3>1. /\ Len(path) \in Nat /\ Len(bounds) \in Nat /\ Len(bounds) >= 2
      BY <1>1, LenProperties DEF PathStitched
    <3>2. 1 \in 1 .. Len(bounds) - 1 /\ 1 + 1 \in 1 .. Len(bounds)
      BY <3>1
    <3>3. bounds[1 + 1] >= 1 /\ bounds[1 + 1] <= Len(path) /\ bounds[1 + 1] \in Nat
      BY <3>2, ElementOfSeq DEF PathStitched
    <3>4. Len(path) >= 1
      BY <3>1, <3>3
    <3> QED
      BY <1>2, <3>4 DEF PathStitched, PathIsConnected, Courses
  <2>2. PullLegs \in CoursesFrom(path[1], path[Len(path)])
    BY <1>1, <2>1, PullLegsIs
  <2>3. DropReversals(PullLegs) \in CoursesFrom(path[1], path[Len(path)])
    BY <2>2, DropReversalsIs
  <2>4. PathToWaypoints \in CoursesFrom(path[1], path[Len(path)])
    BY <2>3, ThinToLimitIs DEF PathToWaypoints
  <2> QED
    BY <2>4, DropWithinToleranceIs
<1>3. cost' = cost /\ path' = path /\ outcome' = outcome
  BY <1>1 DEF searchVars
<1>4. PathIsConnected' = PathIsConnected /\ CoursesFrom(path[1], path[Len(path)])' = CoursesFrom(path[1], path[Len(path)])
  BY <1>3 DEF PathIsConnected, CoursesFrom, Courses
<1> QED
  BY <1>1, <1>2, <1>3, <1>4 DEF CourseOfPath

(* Every step keeps the invariant.                                         *)
LEMMA ShapeStep == ShapeInv /\ [ShapeNext]_shapeVars => ShapeInv'
<1> SUFFICES ASSUME ShapeInv, [ShapeNext]_shapeVars PROVE ShapeInv'
  OBVIOUS
<1>1. CASE SearchNext /\ UNCHANGED <<waypoints, minDepth>>
  BY <1>1, SearchStep, SearchStitches, SearchKeepsCourse DEF ShapeInv
<1>2. CASE Package
  <2>1. UNCHANGED searchVars
    BY <1>2 DEF Package
  <2> QED
    BY <1>2, <2>1, SearchStep, SearchStitches, PackageShapes DEF ShapeInv
<1>3. CASE UNCHANGED shapeVars
  <2>1. UNCHANGED searchVars /\ waypoints' = waypoints
    BY <1>3 DEF shapeVars
  <2> QED
    BY <2>1, SearchStep, SearchStitches, SearchKeepsCourse DEF ShapeInv
<1> QED
  BY <1>1, <1>2, <1>3 DEF ShapeNext

(* The legs of a course can be steered.                                    *)
LEMMA ShapeInvIsNavigable == ShapeInv => WaypointsNavigable
<1> SUFFICES ASSUME ShapeInv, waypoints # <<>>, PathIsConnected
             PROVE  /\ \A l \in Legs : Navigable(cost, l[1], l[2])
                    /\ waypoints[1] = path[1] /\ waypoints[Len(waypoints)] = path[Len(path)]
  BY DEF WaypointsNavigable
<1>1. waypoints \in CoursesFrom(path[1], path[Len(path)])
  BY DEF ShapeInv, CourseOfPath
<1>2. /\ waypoints[1] = path[1] /\ waypoints[Len(waypoints)] = path[Len(path)]
      /\ \A k \in 1 .. Len(waypoints) - 1 : Navigable(cost, waypoints[k], waypoints[k + 1])
  BY <1>1 DEF CoursesFrom, Courses
<1>3. ASSUME NEW l \in Legs PROVE Navigable(cost, l[1], l[2])
  <2>1. PICK k \in 1 .. Len(waypoints) - 1 : l = <<waypoints[k], waypoints[k + 1]>>
    BY DEF Legs
  <2> QED
    BY <1>2, <2>1
<1> QED
  BY <1>2, <1>3

(* The invariant holds from the request to the waypoints.                  *)
THEOREM ShapeInvariant == ShapeSpec => []ShapeInv
<1> QED
  BY ShapeInitInv, ShapeStep, PTL DEF ShapeSpec

(* Smoothing cuts no corner: of a path of legal moves it makes waypoints   *)
(* whose legs can all be steered, from the first cell to the last.         *)
THEOREM WaypointsCanBeSteered == ShapeSpec => []WaypointsNavigable
<1> QED
  BY ShapeInvariant, ShapeInvIsNavigable, PTL

-----------------------------------------------------------------------------
(* Tiles.  What is to be read of a cell does not depend on the order of    *)
(* its features, on charts of one scale: whether there is land, a channel, *)
(* and for each boat whether there is a danger.  To the painter that knows *)
(* the boat a wreck is a wall or nothing, to the other a wall or a depth:  *)
(* that is a danger to the same boats.                                     *)
Features == [class : STRING, scale : 0 .. Coarsest, drval : Int \X Int, valsou : Int]
Flags ==
  {"land", "obstruction", "channel", "channelDepth", "dredged", "unsurveyed", "restricted"}
CellRecs == [depth : Int, scaleOf : 0 .. Coarsest, flags : SUBSET Flags, landScale : 0 .. Coarsest]

ChannelClasses == {"fairway", "dredged"}
Deep(f) == f.class \in ChannelClasses /\ DepareKeyDepth(f) # Uncharted

Dangerous(f, d) ==
  \/ f.class = "pile"
  \/ f.class = "wreck" /\ ~ObstructionIsClear(f, d)
  \/ f.class \in ChannelClasses \cup {"depare"} /\ DepareKeyDepth(f) # Uncharted /\ DepareKeyDepth(f) < d

Shallow(c, d) == c.depth # Uncharted /\ c.depth < d
Danger(c, d) == "obstruction" \in c.flags \/ Shallow(c, d)

(* A cell painted with features of scale s only.                           *)
OfScale(c, s) ==
  /\ c \in CellRecs
  /\ (c.scaleOf = s \/ (c.scaleOf = Coarsest /\ c.depth = Uncharted))
  /\ (c.landScale = s \/ (c.landScale = Coarsest /\ "land" \notin c.flags))

Reads(c, fs, k, d) ==
  /\ ("land" \in c.flags) <=> (\E i \in 1 .. k : fs[i].class = "land")
  /\ ("channel" \in c.flags) <=> (\E i \in 1 .. k : fs[i].class \in ChannelClasses)
  /\ ("channelDepth" \in c.flags) <=> (\E i \in 1 .. k : Deep(fs[i]))
  /\ ("dredged" \in c.flags) => (\E i \in 1 .. k : fs[i].class \in ChannelClasses)
  /\ Danger(c, d) <=> (\E i \in 1 .. k : Dangerous(fs[i], d))

(* What one feature adds to a cell.                                        *)
Adds(c, next, f, d) ==
  /\ ("land" \in next.flags) <=> ("land" \in c.flags \/ f.class = "land")
  /\ ("channel" \in next.flags) <=> ("channel" \in c.flags \/ f.class \in ChannelClasses)
  /\ ("channelDepth" \in next.flags) <=> ("channelDepth" \in c.flags \/ Deep(f))
  /\ ("dredged" \in next.flags) => ("dredged" \in c.flags \/ f.class \in ChannelClasses)
  /\ Danger(next, d) <=> (Danger(c, d) \/ Dangerous(f, d))

LEMMA ReadsGrow ==
  ASSUME NEW c, NEW next, NEW fs, NEW k \in Nat, NEW d,
         Reads(c, fs, k, d), Adds(c, next, fs[k + 1], d)
  PROVE  Reads(next, fs, k + 1, d)
<1>1. \A i \in 1 .. k + 1 : i \in 1 .. k \/ i = k + 1
  OBVIOUS
<1>2. k + 1 \in 1 .. k + 1 /\ \A i \in 1 .. k : i \in 1 .. k + 1
  OBVIOUS
<1>3. ("land" \in next.flags) <=> (\E i \in 1 .. k + 1 : fs[i].class = "land")
  <2>1. ("land" \in c.flags) <=> (\E i \in 1 .. k : fs[i].class = "land")
    BY DEF Reads
  <2>2. ("land" \in next.flags) <=> ("land" \in c.flags \/ fs[k + 1].class = "land")
    BY DEF Adds
  <2> QED
    BY ONLY <1>1, <1>2, <2>1, <2>2
<1>4. ("channel" \in next.flags) <=> (\E i \in 1 .. k + 1 : fs[i].class \in ChannelClasses)
  <2>1. ("channel" \in c.flags) <=> (\E i \in 1 .. k : fs[i].class \in ChannelClasses)
    BY DEF Reads
  <2>2. ("channel" \in next.flags) <=> ("channel" \in c.flags \/ fs[k + 1].class \in ChannelClasses)
    BY DEF Adds
  <2> QED
    BY ONLY <1>1, <1>2, <2>1, <2>2
<1>5. ("channelDepth" \in next.flags) <=> (\E i \in 1 .. k + 1 : Deep(fs[i]))
  <2>1. ("channelDepth" \in c.flags) <=> (\E i \in 1 .. k : Deep(fs[i]))
    BY DEF Reads
  <2>2. ("channelDepth" \in next.flags) <=> ("channelDepth" \in c.flags \/ Deep(fs[k + 1]))
    BY DEF Adds
  <2> QED
    BY ONLY <1>1, <1>2, <2>1, <2>2
<1>6. ("dredged" \in next.flags) => (\E i \in 1 .. k + 1 : fs[i].class \in ChannelClasses)
  <2>1. ("dredged" \in c.flags) => (\E i \in 1 .. k : fs[i].class \in ChannelClasses)
    BY DEF Reads
  <2>2. ("dredged" \in next.flags) => ("dredged" \in c.flags \/ fs[k + 1].class \in ChannelClasses)
    BY DEF Adds
  <2> QED
    BY ONLY <1>1, <1>2, <2>1, <2>2
<1>7. Danger(next, d) <=> (\E i \in 1 .. k + 1 : Dangerous(fs[i], d))
  <2>1. Danger(c, d) <=> (\E i \in 1 .. k : Dangerous(fs[i], d))
    BY DEF Reads
  <2>2. Danger(next, d) <=> (Danger(c, d) \/ Dangerous(fs[k + 1], d))
    BY DEF Adds
  <2> QED
    BY ONLY <1>1, <1>2, <2>1, <2>2
<1> QED
  BY <1>3, <1>4, <1>5, <1>6, <1>7 DEF Reads

-----------------------------------------------------------------------------
(* The strokes of the painters.                                            *)
LEMMA KeyDepthIs == \A f \in Features : DepareKeyDepth(f) \in Int
  BY DEF Features, DepareKeyDepth, Uncharted

LEMMA MarkIs ==
  ASSUME NEW c \in CellRecs, NEW fl \in SUBSET Flags
  PROVE  /\ Mark(c, fl) \in CellRecs
         /\ Mark(c, fl).depth = c.depth /\ Mark(c, fl).scaleOf = c.scaleOf
         /\ Mark(c, fl).landScale = c.landScale
         /\ Mark(c, fl).flags = c.flags \cup fl
<1>1. c.flags \cup fl \in SUBSET Flags
  BY DEF CellRecs
<1>2. Mark(c, fl) = [c EXCEPT !.flags = c.flags \cup fl]
  BY DEF Mark
<1> QED
  BY <1>1, <1>2 DEF CellRecs

LEMMA SetDepthIs ==
  ASSUME NEW s \in 0 .. Coarsest, NEW c, OfScale(c, s), NEW d \in Int
  PROVE  /\ SetDepth(c, d, s) \in CellRecs
         /\ SetDepth(c, d, s).depth = IF c.depth = Uncharted \/ d < c.depth THEN d ELSE c.depth
         /\ SetDepth(c, d, s).scaleOf = s
         /\ SetDepth(c, d, s).flags = c.flags /\ SetDepth(c, d, s).landScale = c.landScale
<1>1. /\ c \in CellRecs
      /\ (c.scaleOf = s \/ (c.scaleOf = Coarsest /\ c.depth = Uncharted)) /\ s \in Int /\ s <= Coarsest
      /\ Coarsest = 1000
  BY DEF OfScale, CellRecs, Coarsest
<1>2. CASE s < c.scaleOf
  <2>1. SetDepth(c, d, s) = [c EXCEPT !.depth = d, !.scaleOf = s]
    BY <1>2 DEF SetDepth
  <2>2. c.depth = Uncharted
    BY <1>1, <1>2
  <2> DEFINE e == [c EXCEPT !.depth = d, !.scaleOf = s]
  <2>3. /\ e \in CellRecs
        /\ e.depth = d /\ e.scaleOf = s /\ e.flags = c.flags /\ e.landScale = c.landScale
    <3>1. c \in CellRecs /\ s \in 0 .. Coarsest /\ d \in Int
      BY <1>1
    <3> QED
      BY ONLY <3>1 DEF CellRecs
  <2> QED
    BY <2>1, <2>2, <2>3
<1>3. CASE ~(s < c.scaleOf)
  <2>1. c.scaleOf = s
    BY <1>1, <1>3
  <2>2. SetDepth(c, d, s) = IF c.depth = Uncharted \/ d < c.depth THEN [c EXCEPT !.depth = d] ELSE c
    BY <1>3, <2>1 DEF SetDepth
  <2>3. c \in CellRecs /\ d \in Int
    BY <1>1
  <2> DEFINE e == [c EXCEPT !.depth = d]
  <2>4. /\ e \in CellRecs
        /\ e.depth = d /\ e.scaleOf = c.scaleOf /\ e.flags = c.flags /\ e.landScale = c.landScale
    BY ONLY <2>3 DEF CellRecs
  <2> HIDE DEF e
  <2> QED
    BY <2>1, <2>2, <2>3, <2>4 DEF e
<1> QED
  BY <1>2, <1>3

LEMMA MarkWaterIs ==
  ASSUME NEW s \in 0 .. Coarsest, NEW c \in CellRecs,
         c.landScale = s \/ (c.landScale = Coarsest /\ "land" \notin c.flags)
  PROVE  /\ MarkWater(c, s) \in CellRecs
         /\ MarkWater(c, s).depth = c.depth /\ MarkWater(c, s).scaleOf = c.scaleOf
         /\ MarkWater(c, s).landScale = s
         /\ MarkWater(c, s).flags = c.flags
<1>1. CASE s < c.landScale
  <2>1. MarkWater(c, s) = [c EXCEPT !.flags = @ \ {"land"}, !.landScale = s] /\ "land" \notin c.flags
    BY <1>1 DEF MarkWater, CellRecs
  <2>2. c.flags \ {"land"} = c.flags
    BY <2>1
  <2> QED
    BY <2>1, <2>2 DEF CellRecs
<1>2. CASE ~(s < c.landScale)
  BY <1>2 DEF MarkWater, CellRecs, Coarsest
<1> QED
  BY <1>1, <1>2

(* A flag that says nothing about the cell, and an obstruction.            *)
LEMMA FlagAdds ==
  ASSUME NEW f, NEW c, NEW s, OfScale(c, s), NEW d, NEW fl \in SUBSET Flags,
         fl \cap {"land", "channel", "channelDepth", "dredged"} = {},
         f.class \notin ChannelClasses \cup {"land"},
         "obstruction" \in fl <=> Dangerous(f, d)
  PROVE  OfScale(Mark(c, fl), s) /\ Adds(c, Mark(c, fl), f, d)
<1> DEFINE m == Mark(c, fl)
<1>1. /\ m \in CellRecs /\ m.depth = c.depth /\ m.scaleOf = c.scaleOf
      /\ m.landScale = c.landScale /\ m.flags = c.flags \cup fl
  BY MarkIs DEF OfScale
<1> HIDE DEF m
<1>2. /\ "land" \notin fl /\ "channel" \notin fl /\ "channelDepth" \notin fl /\ "dredged" \notin fl
      /\ f.class # "land" /\ f.class \notin ChannelClasses /\ ~Deep(f)
  BY DEF Deep
<1>3. /\ ("land" \in m.flags) <=> ("land" \in c.flags)
      /\ ("channel" \in m.flags) <=> ("channel" \in c.flags)
      /\ ("channelDepth" \in m.flags) <=> ("channelDepth" \in c.flags)
      /\ ("dredged" \in m.flags) <=> ("dredged" \in c.flags)
      /\ ("obstruction" \in m.flags) <=> ("obstruction" \in c.flags \/ Dangerous(f, d))
  BY <1>1, <1>2
<1>4. OfScale(m, s)
  BY <1>1, <1>3 DEF OfScale
<1>5. Shallow(m, d) <=> Shallow(c, d)
  BY <1>1 DEF Shallow
<1>6. Adds(c, m, f, d)
  BY <1>2, <1>3, <1>5 DEF Adds, Danger
<1> QED
  BY <1>4, <1>6 DEF m

LEMMA NothingAdds ==
  ASSUME NEW f, NEW c, NEW d, f.class \notin ChannelClasses \cup {"land"}, ~Dangerous(f, d)
  PROVE  Adds(c, c, f, d)
BY DEF Adds, Deep

(* A depth that is given.                                                  *)
LEMMA ShallowGrows ==
  ASSUME NEW c, NEW e, c.depth \in Int, NEW key \in Int, key # Uncharted, NEW d \in Int,
         e.depth = IF c.depth = Uncharted \/ key < c.depth THEN key ELSE c.depth
  PROVE  Shallow(e, d) <=> (Shallow(c, d) \/ key < d)
BY DEF Shallow, Uncharted

LEMMA PaintCommonAdds ==
  ASSUME NEW f \in Features, NEW c, OfScale(c, f.scale), f.class \notin {"wreck", "restricted"}, NEW d \in Int
  PROVE  OfScale(PaintCommon(c, f), f.scale) /\ Adds(c, PaintCommon(c, f), f, d)
<1> DEFINE s == f.scale
           key == DepareKeyDepth(f)
           next == PaintCommon(c, f)
<1>1. s \in 0 .. Coarsest /\ key \in Int /\ f.class \in STRING
  BY KeyDepthIs DEF Features
<1>2. /\ c \in CellRecs /\ c.flags \in SUBSET Flags /\ c.depth \in Int
      /\ (c.landScale = s \/ (c.landScale = Coarsest /\ "land" \notin c.flags))
      /\ c.landScale \in 0 .. Coarsest /\ OfScale(c, s)
  BY DEF OfScale, CellRecs
<1> HIDE DEF key
<1>3. CASE f.class = "land"
  <2> DEFINE m == Mark(c, {"land"})
             e == [m EXCEPT !.landScale = s]
  <2>1. s <= c.landScale
    <3>1. s \in 0 .. Coarsest /\ (c.landScale = s \/ c.landScale = Coarsest)
      BY <1>1, <1>2
    <3>2. 0 \in Int /\ Coarsest \in Int /\ \A k \in 0 .. Coarsest : k <= k /\ k <= Coarsest
      BY DEF Coarsest
    <3> QED
      BY ONLY <3>1, <3>2
  <2>2. next = e
    BY <1>3, <2>1 DEF PaintCommon, MarkLand
  <2>3. /\ m \in CellRecs /\ m.depth = c.depth /\ m.scaleOf = c.scaleOf
        /\ m.landScale = c.landScale /\ m.flags = c.flags \cup {"land"}
    <3>1. {"land"} \in SUBSET Flags
      BY DEF Flags
    <3> QED
      BY <1>2, <3>1, MarkIs
  <2> HIDE DEF m
  <2>4. /\ e \in CellRecs /\ e.depth = c.depth /\ e.scaleOf = c.scaleOf
        /\ e.landScale = s /\ e.flags = c.flags \cup {"land"}
    BY <1>1, <2>3 DEF CellRecs
  <2> HIDE DEF e
  <2>5. OfScale(e, s)
    BY <1>2, <2>4 DEF OfScale
  <2>6. ~Dangerous(f, d) /\ ~Deep(f) /\ f.class \notin ChannelClasses
    BY <1>3 DEF Dangerous, Deep, ChannelClasses
  <2>7. /\ "land" \in e.flags
        /\ ("channel" \in e.flags) <=> ("channel" \in c.flags)
        /\ ("channelDepth" \in e.flags) <=> ("channelDepth" \in c.flags)
        /\ ("dredged" \in e.flags) <=> ("dredged" \in c.flags)
        /\ ("obstruction" \in e.flags) <=> ("obstruction" \in c.flags)
    BY <2>4
  <2>8. Shallow(e, d) <=> Shallow(c, d)
    BY <2>4 DEF Shallow
  <2>9. Adds(c, e, f, d)
    BY <1>3, <2>6, <2>7, <2>8 DEF Adds, Danger
  <2> QED
    BY <2>2, <2>5, <2>9
<1>4. CASE f.class = "pile"
  <2>1. next = Mark(c, {"obstruction"})
    BY <1>4 DEF PaintCommon
  <2>2. f.class \notin ChannelClasses \cup {"land"} /\ Dangerous(f, d)
    BY <1>4 DEF Dangerous, ChannelClasses
  <2>3. {"obstruction"} \in SUBSET Flags /\ {"obstruction"} \cap {"land", "channel", "channelDepth", "dredged"} = {}
    BY DEF Flags
  <2>4. "obstruction" \in {"obstruction"} <=> Dangerous(f, d)
    BY <2>2
  <2>5. OfScale(Mark(c, {"obstruction"}), s) /\ Adds(c, Mark(c, {"obstruction"}), f, d)
    BY <1>2, <2>2, <2>3, <2>4, FlagAdds
  <2> QED
    BY <2>1, <2>5
<1>5. CASE f.class = "depare"
  <2>1. f.class \notin ChannelClasses \cup {"land"} /\ f.class # "pile" /\ f.class # "wreck" /\ ~Deep(f)
    BY <1>5 DEF ChannelClasses, Deep
  <2>2. Dangerous(f, d) <=> key # Uncharted /\ key < d
    BY <1>5, <2>1 DEF Dangerous, key
  <2>3. CASE key = Uncharted
    <3>1. next = c
      BY <1>5, <2>3 DEF PaintCommon, PaintDepthArea, key
    <3>2. Adds(c, c, f, d)
      BY <2>1, <2>2, <2>3, NothingAdds
    <3> QED
      BY <1>2, <3>1, <3>2
  <2>4. CASE key # Uncharted
    <3> DEFINE e == SetDepth(c, key, s)
               w == MarkWater(e, s)
    <3>1. next = w
      BY <1>5, <2>4 DEF PaintCommon, PaintDepthArea, key
    <3>2. /\ e \in CellRecs
          /\ e.depth = IF c.depth = Uncharted \/ key < c.depth THEN key ELSE c.depth
          /\ e.scaleOf = s /\ e.flags = c.flags /\ e.landScale = c.landScale
      BY <1>1, <1>2, SetDepthIs
    <3> HIDE DEF e
    <3>3. /\ w \in CellRecs /\ w.depth = e.depth /\ w.scaleOf = e.scaleOf /\ w.landScale = s /\ w.flags = e.flags
      BY <1>1, <1>2, <3>2, MarkWaterIs
    <3> HIDE DEF w
    <3>4. OfScale(w, s)
      BY <3>2, <3>3 DEF OfScale
    <3>5. Shallow(w, d) <=> (Shallow(c, d) \/ key < d)
      BY <1>1, <1>2, <2>4, <3>2, <3>3, ShallowGrows
    <3>6. w.flags = c.flags
      BY <3>2, <3>3
    <3>7. Adds(c, w, f, d)
      BY <2>1, <2>2, <2>4, <3>5, <3>6 DEF Adds, Danger
    <3> QED
      BY <3>1, <3>4, <3>7
  <2> QED
    BY <2>3, <2>4
<1>6. CASE f.class \in ChannelClasses
  <2> DEFINE base == SetDepth(c, key, s)
             sounded == IF key # Uncharted THEN Mark(base, {"channelDepth"}) ELSE c
             more == {"channel"} \cup (IF f.class = "dredged" THEN {"dredged"} ELSE {})
             m == Mark(sounded, more)
             w == MarkWater(m, s)
  <2>1. next = w
    BY <1>6 DEF PaintCommon, PaintChannel, ChannelClasses, key
  <2>2. /\ f.class # "land" /\ f.class # "pile" /\ f.class # "wreck"
        /\ Deep(f) <=> key # Uncharted
        /\ Dangerous(f, d) <=> (key # Uncharted /\ key < d)
    <3>1. f.class # "land" /\ f.class # "pile" /\ f.class # "wreck"
      BY <1>6 DEF ChannelClasses
    <3> QED
      BY <1>6, <3>1 DEF Deep, Dangerous, key
  <2>3. /\ base \in CellRecs
        /\ base.depth = IF c.depth = Uncharted \/ key < c.depth THEN key ELSE c.depth
        /\ base.scaleOf = s /\ base.flags = c.flags /\ base.landScale = c.landScale
    BY <1>1, <1>2, SetDepthIs
  <2> HIDE DEF base
  <2>4. /\ Mark(base, {"channelDepth"}) \in CellRecs
        /\ Mark(base, {"channelDepth"}).depth = base.depth /\ Mark(base, {"channelDepth"}).scaleOf = s
        /\ Mark(base, {"channelDepth"}).landScale = c.landScale
        /\ Mark(base, {"channelDepth"}).flags = c.flags \cup {"channelDepth"}
    <3>1. {"channelDepth"} \in SUBSET Flags
      BY DEF Flags
    <3> QED
      BY <2>3, <3>1, MarkIs
  <2>5. /\ sounded \in CellRecs
        /\ sounded.depth = IF key = Uncharted THEN c.depth ELSE base.depth
        /\ sounded.scaleOf = IF key = Uncharted THEN c.scaleOf ELSE s
        /\ sounded.landScale = c.landScale
        /\ sounded.flags = c.flags \cup (IF key = Uncharted THEN {} ELSE {"channelDepth"})
    BY <1>2, <2>4
  <2> HIDE DEF sounded
  <2>6. more \in SUBSET Flags /\ "channel" \in more /\ more \subseteq {"channel", "dredged"}
    BY DEF Flags
  <2> HIDE DEF more
  <2>7. /\ m \in CellRecs /\ m.depth = sounded.depth /\ m.scaleOf = sounded.scaleOf
        /\ m.landScale = c.landScale /\ m.flags = sounded.flags \cup more
    BY <2>5, <2>6, MarkIs
  <2>8. /\ ("land" \in m.flags) <=> ("land" \in c.flags)
        /\ ("obstruction" \in m.flags) <=> ("obstruction" \in c.flags)
        /\ "channel" \in m.flags
        /\ ("channelDepth" \in m.flags) <=> ("channelDepth" \in c.flags \/ key # Uncharted)
    <3>1. "land" \notin more /\ "obstruction" \notin more /\ "channelDepth" \notin more
      BY <2>6
    <3>2. m.flags = (c.flags \cup (IF key = Uncharted THEN {} ELSE {"channelDepth"})) \cup more
      BY <2>5, <2>7
    <3> QED
      BY <2>6, <3>1, <3>2
  <2> HIDE DEF m
  <2>9. /\ w \in CellRecs /\ w.depth = m.depth /\ w.scaleOf = m.scaleOf /\ w.landScale = s /\ w.flags = m.flags
    BY <1>1, <1>2, <2>7, <2>8, MarkWaterIs
  <2> HIDE DEF w
  <2>10. OfScale(w, s)
    BY <1>2, <2>5, <2>7, <2>9 DEF OfScale
  <2>11. Shallow(w, d) <=> (Shallow(c, d) \/ (key # Uncharted /\ key < d))
    <3>1. CASE key = Uncharted
      BY <2>5, <2>7, <2>9, <3>1 DEF Shallow
    <3>2. CASE key # Uncharted
      <4>1. w.depth = IF c.depth = Uncharted \/ key < c.depth THEN key ELSE c.depth
        BY <2>3, <2>5, <2>7, <2>9, <3>2
      <4> QED
        BY <1>1, <1>2, <3>2, <4>1, ShallowGrows
    <3> QED
      BY <3>1, <3>2
  <2>12. Adds(c, w, f, d)
    BY <1>6, <2>2, <2>8, <2>9, <2>11 DEF Adds, Danger
  <2> QED
    BY <2>1, <2>10, <2>12
<1>7. CASE f.class \notin ChannelClasses \cup {"land", "pile", "depare"}
  <2>1. next = IF f.class = "unsurveyed" THEN Mark(c, {"unsurveyed"}) ELSE c
    BY <1>7 DEF PaintCommon, ChannelClasses
  <2>2. f.class \notin ChannelClasses \cup {"land"} /\ ~Dangerous(f, d)
    BY <1>7 DEF Dangerous
  <2>3. {"unsurveyed"} \in SUBSET Flags /\ {"unsurveyed"} \cap {"land", "channel", "channelDepth", "dredged"} = {}
    BY DEF Flags
  <2>4. "obstruction" \in {"unsurveyed"} <=> Dangerous(f, d)
    BY <2>2
  <2>5. OfScale(Mark(c, {"unsurveyed"}), s) /\ Adds(c, Mark(c, {"unsurveyed"}), f, d)
    BY <1>2, <2>2, <2>3, <2>4, FlagAdds
  <2>6. Adds(c, c, f, d)
    BY <2>2, NothingAdds
  <2> QED
    BY <1>2, <2>1, <2>5, <2>6
<1> QED
  BY <1>3, <1>4, <1>5, <1>6, <1>7

LEMMA RoutingAdds ==
  ASSUME NEW f \in Features, NEW c, OfScale(c, f.scale), NEW d \in Int
  PROVE  /\ OfScale(PaintForRouting(c, f, d, TRUE), f.scale)
         /\ Adds(c, PaintForRouting(c, f, d, TRUE), f, d)
<1>1. CASE f.class \in {"wreck", "restricted"}
  <2> DEFINE fl == IF f.class = "restricted" THEN {"restricted"} ELSE {"obstruction"}
  <2>1. PaintForRouting(c, f, d, TRUE) =
          IF f.class = "wreck" /\ ObstructionIsClear(f, d) THEN c ELSE Mark(c, fl)
    BY <1>1 DEF PaintForRouting
  <2>2. f.class \notin ChannelClasses \cup {"land"}
    BY <1>1 DEF ChannelClasses
  <2>3. Dangerous(f, d) <=> f.class = "wreck" /\ ~ObstructionIsClear(f, d)
    BY <1>1 DEF Dangerous, ChannelClasses
  <2>4. CASE f.class = "wreck" /\ ObstructionIsClear(f, d)
    BY <2>1, <2>2, <2>3, <2>4, NothingAdds
  <2>5. CASE ~(f.class = "wreck" /\ ObstructionIsClear(f, d))
    <3>1. fl \in SUBSET Flags /\ fl \cap {"land", "channel", "channelDepth", "dredged"} = {}
      BY DEF Flags
    <3>2. "obstruction" \in fl <=> f.class # "restricted"
      OBVIOUS
    <3>3. "obstruction" \in fl <=> Dangerous(f, d)
      BY <1>1, <2>3, <2>5, <3>2
    <3> HIDE DEF fl
    <3>4. OfScale(Mark(c, fl), f.scale) /\ Adds(c, Mark(c, fl), f, d)
      BY <2>2, <3>1, <3>3, FlagAdds
    <3> QED
      BY <2>1, <2>5, <3>4
  <2> QED
    BY <2>4, <2>5
<1>2. CASE f.class \notin {"wreck", "restricted"}
  <2>1. PaintForRouting(c, f, d, TRUE) = PaintCommon(c, f)
    BY <1>2 DEF PaintForRouting
  <2> QED
    BY <1>2, <2>1, PaintCommonAdds
<1> QED
  BY <1>1, <1>2

LEMMA TileAdds ==
  ASSUME NEW f \in Features, NEW c, OfScale(c, f.scale), NEW d \in Int
  PROVE  OfScale(PaintForNavTile(c, f), f.scale) /\ Adds(c, PaintForNavTile(c, f), f, d)
<1>1. CASE f.class = "wreck" /\ f.valsou # Uncharted
  <2> DEFINE e == SetDepth(c, f.valsou, f.scale)
  <2>1. PaintForNavTile(c, f) = e
    BY <1>1 DEF PaintForNavTile
  <2>2. f.scale \in 0 .. Coarsest /\ f.valsou \in Int /\ c \in CellRecs /\ c.depth \in Int
    BY DEF Features, OfScale, CellRecs
  <2>3. /\ e \in CellRecs
        /\ e.depth = IF c.depth = Uncharted \/ f.valsou < c.depth THEN f.valsou ELSE c.depth
        /\ e.scaleOf = f.scale /\ e.flags = c.flags /\ e.landScale = c.landScale
    BY <2>2, SetDepthIs
  <2> HIDE DEF e
  <2>4. OfScale(e, f.scale)
    BY <2>3 DEF OfScale
  <2>5. Shallow(e, d) <=> (Shallow(c, d) \/ f.valsou < d)
    BY <1>1, <2>2, <2>3, ShallowGrows
  <2>6. f.class \notin ChannelClasses /\ f.class # "land" /\ ~Deep(f)
    BY <1>1 DEF ChannelClasses, Deep
  <2>7. Dangerous(f, d) <=> f.valsou < d
    <3>1. f.class = "wreck" /\ f.class # "pile" /\ f.class \notin ChannelClasses \cup {"depare"}
      BY <1>1 DEF ChannelClasses
    <3>2. ObstructionIsClear(f, d) <=> f.valsou >= d
      BY <1>1 DEF ObstructionIsClear
    <3>3. Dangerous(f, d) <=> ~ObstructionIsClear(f, d)
      BY <3>1 DEF Dangerous
    <3> QED
      BY <2>2, <3>2, <3>3
  <2>8. Adds(c, e, f, d)
    BY <2>3, <2>5, <2>6, <2>7 DEF Adds, Danger
  <2> QED
    BY <2>1, <2>4, <2>8
<1>2. CASE (f.class = "wreck" /\ f.valsou = Uncharted) \/ f.class = "restricted"
  <2> DEFINE fl == IF f.class = "restricted" THEN {"restricted"} ELSE {"obstruction"}
  <2>1. PaintForNavTile(c, f) = Mark(c, fl)
    BY <1>2 DEF PaintForNavTile
  <2>2. f.class \notin ChannelClasses \cup {"land"}
    BY <1>2 DEF ChannelClasses
  <2>3. Dangerous(f, d) <=> f.class = "wreck"
    <3>1. f.class # "pile" /\ f.class \notin ChannelClasses \cup {"depare"}
      BY <1>2 DEF ChannelClasses
    <3>2. f.class = "wreck" => ~ObstructionIsClear(f, d)
      BY <1>2 DEF ObstructionIsClear
    <3> QED
      BY <3>1, <3>2 DEF Dangerous
  <2>4. fl \in SUBSET Flags /\ fl \cap {"land", "channel", "channelDepth", "dredged"} = {}
    BY DEF Flags
  <2>5. "obstruction" \in fl <=> f.class # "restricted"
    OBVIOUS
  <2>6. "obstruction" \in fl <=> Dangerous(f, d)
    BY <1>2, <2>3, <2>5
  <2> HIDE DEF fl
  <2>7. OfScale(Mark(c, fl), f.scale) /\ Adds(c, Mark(c, fl), f, d)
    BY <2>2, <2>4, <2>6, FlagAdds
  <2> QED
    BY <2>1, <2>7
<1>3. CASE f.class \notin {"wreck", "restricted"}
  <2>1. PaintForNavTile(c, f) = PaintCommon(c, f)
    BY <1>3 DEF PaintForNavTile
  <2> QED
    BY <1>3, <2>1, PaintCommonAdds
<1> QED
  BY <1>1, <1>2, <1>3

-----------------------------------------------------------------------------
(* What the painters leave.                                                *)
PaintedCells(s) == {c \in CellRecs : OfScale(c, s)}

LEMMA NewCellIs == \A s \in 0 .. Coarsest : NewCell \in PaintedCells(s)
  BY DEF NewCell, PaintedCells, OfScale, CellRecs, Coarsest, Uncharted

LEMMA PaintingReads ==
  ASSUME NEW fs, NEW n \in Nat, NEW s \in 0 .. Coarsest, NEW d \in Int,
         NEW paint \in [(1 .. n) \X PaintedCells(s) -> PaintedCells(s)],
         \A k \in 1 .. n : \A c \in PaintedCells(s) : Adds(c, paint[<<k, c>>], fs[k], d),
         NEW g, Unfolds(g, PaintedCells(s), 0, 1, n, NewCell, paint)
  PROVE  g[n] \in CellRecs /\ Reads(g[n], fs, n, d)
<1>1. NewCell \in PaintedCells(s)
  BY NewCellIs
<1>2. \A k \in 0 .. n : g[k] \in PaintedCells(s)
  <2> DEFINE V == PaintedCells(s)
  <2>1. /\ n \in Nat /\ 0 \in Nat /\ 1 \in Nat /\ 1 = 0 + 1 /\ NewCell \in V
        /\ paint \in [(1 .. n) \X V -> V] /\ Unfolds(g, V, 0, 1, n, NewCell, paint)
    BY <1>1
  <2> HIDE DEF V
  <2>2. \A k \in 0 .. n : g[k] \in V
    BY ONLY <2>1, RecursionStays
  <2> QED
    BY <2>2 DEF V
<1> DEFINE T == {k \in 0 .. n : Reads(g[k], fs, k, d)}
<1>3. 0 \in T
  <2>1. g[0] = NewCell
    BY DEF Unfolds
  <2>2. NewCell.flags = {} /\ NewCell.depth = Uncharted
    BY DEF NewCell
  <2>3. ~Danger(NewCell, d) /\ \A i \in 1 .. 0 : FALSE
    BY <2>2 DEF Danger, Shallow
  <2>4. Reads(NewCell, fs, 0, d)
    BY <2>2, <2>3 DEF Reads
  <2> QED
    BY <2>1, <2>4
<1>4. ASSUME NEW k \in 0 .. n - 1, k \in T PROVE k + 1 \in T
  <2>1. k \in Nat /\ k + 1 \in 1 .. n /\ k + 1 \in 0 .. n /\ (k + 1) - 1 = k /\ k \in 0 .. n
    OBVIOUS
  <2>2. g[k + 1] = paint[<<k + 1, g[k]>>]
    BY <1>2, <2>1 DEF Unfolds
  <2>3. Adds(g[k], g[k + 1], fs[k + 1], d)
    BY <1>2, <2>1, <2>2
  <2>4. Reads(g[k], fs, k, d)
    BY <1>4
  <2>5. Reads(g[k + 1], fs, k + 1, d)
    BY <2>1, <2>3, <2>4, ReadsGrow
  <2> QED
    BY <2>1, <2>5
<1>5. 0 \in Nat
  OBVIOUS
<1>6. \A k \in 0 .. n : k \in T
  <2> HIDE DEF T
  <2> QED
    BY <1>3, <1>4, <1>5, RangeInduction
<1> QED
  BY <1>2, <1>6 DEF PaintedCells

LEMMA RoutingReads ==
  ASSUME NEW fs \in Seq(Features), NEW s \in 0 .. Coarsest, \A k \in 1 .. Len(fs) : fs[k].scale = s,
         NEW d \in Int
  PROVE  /\ RasterizeForRouting(fs, d) \in CellRecs
         /\ Reads(RasterizeForRouting(fs, d), fs, Len(fs), d)
<1> DEFINE n == Len(fs)
           V == PaintedCells(s)
           Eq(f) == f = [k \in 0 .. n |-> IF k = 0 THEN NewCell ELSE PaintForRouting(f[k - 1], fs[k], d, TRUE)]
           paint == [p \in (1 .. n) \X V |-> PaintForRouting(p[2], fs[p[1]], d, TRUE)]
<1>1. n \in Nat /\ \A k \in 1 .. n : fs[k] \in Features /\ fs[k].scale = s
  BY LenProperties, ElementOfSeq
<1>2. ASSUME NEW k \in 1 .. n, NEW c \in V
      PROVE  /\ PaintForRouting(c, fs[k], d, TRUE) \in V
             /\ Adds(c, PaintForRouting(c, fs[k], d, TRUE), fs[k], d)
  <2>1. fs[k] \in Features /\ OfScale(c, fs[k].scale)
    BY <1>1 DEF PaintedCells
  <2>2. /\ OfScale(PaintForRouting(c, fs[k], d, TRUE), fs[k].scale)
        /\ Adds(c, PaintForRouting(c, fs[k], d, TRUE), fs[k], d)
    BY <2>1, RoutingAdds
  <2> QED
    BY <1>1, <2>2 DEF PaintedCells, OfScale
<1>3. NewCell \in V
  BY NewCellIs
<1> HIDE DEF V
<1>4. /\ paint \in [(1 .. n) \X V -> V]
      /\ \A k \in 1 .. n : \A c \in V : paint[<<k, c>>] = PaintForRouting(c, fs[k], d, TRUE)
  BY <1>2
<1> HIDE DEF paint, n
<1>5. PICK f : Recurs(f, V, 0, 1, n, NewCell, paint)
  <2>1. n \in Nat /\ 0 \in Nat /\ 1 \in Nat /\ 1 = 0 + 1 /\ 0 <= n
    BY <1>1
  <2>2. paint \in [(1 .. n) \X V -> V]
    BY <1>4
  <2> QED
    BY ONLY <1>3, <2>1, <2>2, Recursion
<1>6. Eq(f)
  <2>1. ASSUME NEW k \in 0 .. n, k # 0 PROVE f[k] = PaintForRouting(f[k - 1], fs[k], d, TRUE)
    <3>1. k \in 1 .. n /\ k - 1 \in 0 .. n
      BY <1>1, <2>1
    <3>2. f[k - 1] \in V
      BY <1>5, <3>1 DEF Recurs
    <3> QED
      BY <1>4, <1>5, <3>1, <3>2 DEF Recurs
  <2> QED
    BY <1>5, <2>1 DEF Recurs
<1> DEFINE g == CHOOSE h : Eq(h)
<1>7. RasterizeForRouting(fs, d) = g[n]
  BY DEF RasterizeForRouting, n
<1>8. Eq(g)
  BY <1>6
<1> HIDE DEF g
<1>9. Unfolds(g, V, 0, 1, n, NewCell, paint)
  <2>1. 0 \in 0 .. n /\ \A k \in 1 .. n : k \in 0 .. n /\ k # 0
    BY <1>1
  <2> QED
    BY <1>4, <1>8, <2>1 DEF Unfolds
<1>10. \A k \in 1 .. n : \A c \in V : Adds(c, paint[<<k, c>>], fs[k], d)
  BY <1>2, <1>4
<1>11. g[n] \in CellRecs /\ Reads(g[n], fs, n, d)
  BY <1>1, <1>4, <1>9, <1>10, PaintingReads DEF V
<1> QED
  BY <1>7, <1>11 DEF n

LEMMA TileReads ==
  ASSUME NEW fs \in Seq(Features), NEW s \in 0 .. Coarsest, \A k \in 1 .. Len(fs) : fs[k].scale = s,
         NEW d \in Int
  PROVE  /\ RasterizeForNavTile(fs) \in CellRecs
         /\ Reads(RasterizeForNavTile(fs), fs, Len(fs), d)
<1> DEFINE n == Len(fs)
           V == PaintedCells(s)
           Eq(f) == f = [k \in 0 .. n |-> IF k = 0 THEN NewCell ELSE PaintForNavTile(f[k - 1], fs[k])]
           paint == [p \in (1 .. n) \X V |-> PaintForNavTile(p[2], fs[p[1]])]
<1>1. n \in Nat /\ \A k \in 1 .. n : fs[k] \in Features /\ fs[k].scale = s
  BY LenProperties, ElementOfSeq
<1>2. ASSUME NEW k \in 1 .. n, NEW c \in V
      PROVE  PaintForNavTile(c, fs[k]) \in V /\ Adds(c, PaintForNavTile(c, fs[k]), fs[k], d)
  <2>1. fs[k] \in Features /\ OfScale(c, fs[k].scale)
    BY <1>1 DEF PaintedCells
  <2>2. OfScale(PaintForNavTile(c, fs[k]), fs[k].scale) /\ Adds(c, PaintForNavTile(c, fs[k]), fs[k], d)
    BY <2>1, TileAdds
  <2> QED
    BY <1>1, <2>2 DEF PaintedCells, OfScale
<1>3. NewCell \in V
  BY NewCellIs
<1> HIDE DEF V
<1>4. /\ paint \in [(1 .. n) \X V -> V]
      /\ \A k \in 1 .. n : \A c \in V : paint[<<k, c>>] = PaintForNavTile(c, fs[k])
  BY <1>2
<1> HIDE DEF paint, n
<1>5. PICK f : Recurs(f, V, 0, 1, n, NewCell, paint)
  <2>1. n \in Nat /\ 0 \in Nat /\ 1 \in Nat /\ 1 = 0 + 1 /\ 0 <= n
    BY <1>1
  <2>2. paint \in [(1 .. n) \X V -> V]
    BY <1>4
  <2> QED
    BY ONLY <1>3, <2>1, <2>2, Recursion
<1>6. Eq(f)
  <2>1. ASSUME NEW k \in 0 .. n, k # 0 PROVE f[k] = PaintForNavTile(f[k - 1], fs[k])
    <3>1. k \in 1 .. n /\ k - 1 \in 0 .. n
      BY <1>1, <2>1
    <3>2. f[k - 1] \in V
      BY <1>5, <3>1 DEF Recurs
    <3> QED
      BY <1>4, <1>5, <3>1, <3>2 DEF Recurs
  <2> QED
    BY <1>5, <2>1 DEF Recurs
<1> DEFINE g == CHOOSE h : Eq(h)
<1>7. RasterizeForNavTile(fs) = g[n]
  BY DEF RasterizeForNavTile, n
<1>8. Eq(g)
  BY <1>6
<1> HIDE DEF g
<1>9. Unfolds(g, V, 0, 1, n, NewCell, paint)
  <2>1. 0 \in 0 .. n /\ \A k \in 1 .. n : k \in 0 .. n /\ k # 0
    BY <1>1
  <2> QED
    BY <1>4, <1>8, <2>1 DEF Unfolds
<1>10. \A k \in 1 .. n : \A c \in V : Adds(c, paint[<<k, c>>], fs[k], d)
  BY <1>2, <1>4
<1>11. g[n] \in CellRecs /\ Reads(g[n], fs, n, d)
  BY <1>1, <1>4, <1>9, <1>10, PaintingReads DEF V
<1> QED
  BY <1>7, <1>11 DEF n

(* Whichever way round.                                                    *)
LEMMA ReverseReads ==
  ASSUME NEW fs \in Seq(Features), NEW c, NEW d, Reads(c, Reverse(fs), Len(fs), d)
  PROVE  Reads(c, fs, Len(fs), d)
<1> DEFINE n == Len(fs)
           r == Reverse(fs)
<1>1. n \in Nat
  BY LenProperties
<1>2. \A i \in 1 .. n : n - i + 1 \in 1 .. n /\ r[i] = fs[n - i + 1] /\ fs[i] = r[n - i + 1]
  <2>1. r = [i \in 1 .. n |-> fs[(n - i) + 1]]
    BY DEF Reverse
  <2>2. \A i \in 1 .. n : n - i + 1 \in 1 .. n /\ (n - (n - i + 1)) + 1 = i
    BY <1>1
  <2> HIDE DEF n, r
  <2> QED
    BY <2>1, <2>2
<1> HIDE DEF n, r
<1>3. (\E i \in 1 .. n : r[i].class = "land") <=> (\E i \in 1 .. n : fs[i].class = "land")
  BY ONLY <1>2
<1>4. (\E i \in 1 .. n : r[i].class \in ChannelClasses) <=> (\E i \in 1 .. n : fs[i].class \in ChannelClasses)
  BY ONLY <1>2
<1>5. (\E i \in 1 .. n : Deep(r[i])) <=> (\E i \in 1 .. n : Deep(fs[i]))
  BY ONLY <1>2
<1>6. (\E i \in 1 .. n : Dangerous(r[i], d)) <=> (\E i \in 1 .. n : Dangerous(fs[i], d))
  BY ONLY <1>2
<1> QED
  BY <1>3, <1>4, <1>5, <1>6 DEF Reads, n, r

-----------------------------------------------------------------------------
(* A cell is stored and sampled.                                           *)
LEMMA ClosesIs ==
  ASSUME NEW c, NEW d, "channel" \notin c.flags, "dredged" \notin c.flags
  PROVE  ClosedHard(c, d) <=> ("land" \in c.flags \/ Danger(c, d))
<1>1. c.flags \cap {"land", "obstruction"} # {} <=> ("land" \in c.flags \/ "obstruction" \in c.flags)
  OBVIOUS
<1> QED
  BY <1>1 DEF ClosedHard, Danger, Shallow

(* Saturation loses no boat: none has a draft of more than a tile can say. *)
LEMMA ClampedDepth ==
  ASSUME NEW v \in Int, v # Uncharted, NEW d \in 0 .. MaxDecimetres \div 10
  PROVE  /\ ClampDecimetres(v) \in Int /\ ClampDecimetres(v) > NavDepthUncharted
         /\ ClampDecimetres(v) \div 10 # Uncharted
         /\ ClampDecimetres(v) \div 10 < d <=> v < d
<1>1. d \in Int /\ 0 <= d /\ d <= 3276 /\ 32767 \div 10 = 3276
  BY DEF MaxDecimetres
<1>2. CASE 10 * v < -32767
  <2>1. ClampDecimetres(v) = -32767
    BY <1>2 DEF ClampDecimetres, Larger, Smaller, MaxDecimetres, NavDepthUncharted
  <2>2. \A w \in Int : w < 0 => w \div 10 < 0 /\ (w < -1000 => w \div 10 < -100)
    OBVIOUS
  <2> QED
    BY <1>1, <1>2, <2>1, <2>2 DEF NavDepthUncharted, Uncharted
<1>3. CASE 10 * v > 32767
  <2>1. ClampDecimetres(v) = 32767
    BY <1>3 DEF ClampDecimetres, Larger, Smaller, MaxDecimetres, NavDepthUncharted
  <2> QED
    BY <1>1, <1>3, <2>1 DEF NavDepthUncharted, Uncharted
<1>4. CASE 10 * v >= -32767 /\ 10 * v <= 32767
  <2>1. ClampDecimetres(v) = 10 * v
    BY <1>4 DEF ClampDecimetres, Larger, Smaller, MaxDecimetres, NavDepthUncharted
  <2>2. (10 * v) \div 10 = v
    OBVIOUS
  <2> QED
    BY <1>4, <2>1, <2>2 DEF NavDepthUncharted, Uncharted
<1> QED
  BY <1>2, <1>3, <1>4

LEMMA DraftIs == \A d \in 0 .. MaxDecimetres \div 10 : d \in Int
  BY DEF MaxDecimetres

LEMMA StoredIs ==
  ASSUME NEW c \in CellRecs, NEW d \in 0 .. MaxDecimetres \div 10
  PROVE  /\ Stored(c).depth \in Int /\ Stored(c).depth >= NavDepthUncharted
         /\ Stored(c).depth # NavDepthUncharted <=> c.depth # Uncharted
         /\ Stored(c).depth # NavDepthUncharted => Stored(c).depth \div 10 # Uncharted
         /\ Stored(c).depth # NavDepthUncharted => (Stored(c).depth \div 10 < d <=> c.depth < d)
         /\ \A x \in StoredFlags : x \in Stored(c).flags <=> x \in c.flags
         /\ Stored(c).flags \subseteq c.flags
<1>1. c.depth \in Int
  BY DEF CellRecs
<1>2. Stored(c).depth = IF c.depth = Uncharted THEN NavDepthUncharted ELSE ClampDecimetres(c.depth)
  BY DEF Stored
<1>3. Stored(c).flags = c.flags \cap StoredFlags
  BY DEF Stored
<1>4. /\ Stored(c).depth \in Int /\ Stored(c).depth >= NavDepthUncharted
      /\ Stored(c).depth # NavDepthUncharted <=> c.depth # Uncharted
      /\ Stored(c).depth # NavDepthUncharted => Stored(c).depth \div 10 # Uncharted
      /\ Stored(c).depth # NavDepthUncharted => (Stored(c).depth \div 10 < d <=> c.depth < d)
  <2>1. CASE c.depth = Uncharted
    BY <1>2, <2>1 DEF NavDepthUncharted
  <2>2. CASE c.depth # Uncharted
    <3>1. /\ ClampDecimetres(c.depth) \in Int /\ ClampDecimetres(c.depth) > NavDepthUncharted
          /\ ClampDecimetres(c.depth) \div 10 # Uncharted
          /\ ClampDecimetres(c.depth) \div 10 < d <=> c.depth < d
      BY <1>1, <2>2, ClampedDepth
    <3>2. Stored(c).depth = ClampDecimetres(c.depth)
      BY <1>2, <2>2
    <3> QED
      BY <2>2, <3>1, <3>2 DEF NavDepthUncharted
  <2> QED
    BY <2>1, <2>2
<1> QED
  BY <1>3, <1>4

(* The shoalest of the pixels is shallow to a boat when one of them is.    *)
LEMMA ShoalestIs ==
  ASSUME NEW S, \A p \in S : p.depth \in Int /\ p.depth > NavDepthUncharted /\ p.depth \div 10 # Uncharted,
         NEW d \in Int
  PROVE  (Shoalest(S) # Uncharted /\ Shoalest(S) < d) <=> \E p \in S : p.depth \div 10 < d
<1>1. CASE S = {}
  BY <1>1 DEF Shoalest
<1>2. CASE S # {}
  <2> DEFINE H == {p.depth + 32768 : p \in S}
  <2>1. H \subseteq Nat /\ H # {}
    BY <1>2 DEF NavDepthUncharted
  <2> HIDE DEF H
  <2>2. PICK x \in H : \A y \in H : ~(<<y, x>> \in OpToRel(<, Nat))
    BY ONLY NatLessThanWellFounded, WFMin, <2>1
  <2>3. x \in Nat /\ \A y \in H : y \in Nat /\ ~(y < x)
    BY <2>1, <2>2 DEF OpToRel
  <2>4. \E p \in S : \A q \in S : p.depth <= q.depth
    <3>1. PICK p \in S : x = p.depth + 32768
      BY DEF H
    <3>2. ASSUME NEW q \in S PROVE p.depth <= q.depth
      <4>1. q.depth + 32768 \in H
        BY DEF H
      <4>2. ~(q.depth + 32768 < p.depth + 32768) /\ p.depth \in Int /\ q.depth \in Int
        BY <2>3, <3>1, <4>1
      <4> QED
        BY <4>2
    <3> QED
      BY <3>2
  <2> DEFINE least == CHOOSE p \in S : \A q \in S : p.depth <= q.depth
  <2>5. least \in S /\ \A q \in S : least.depth <= q.depth
    BY <2>4
  <2>6. Shoalest(S) = least.depth \div 10
    BY <1>2 DEF Shoalest
  <2> HIDE DEF least
  <2>7. Shoalest(S) # Uncharted
    BY <2>5, <2>6
  <2>8. ASSUME NEW q \in S, q.depth \div 10 < d PROVE Shoalest(S) < d
    <3>1. least.depth \in Int /\ q.depth \in Int /\ least.depth <= q.depth
      BY <2>5
    <3>2. \A a, b \in Int : a <= b => a \div 10 <= b \div 10
      OBVIOUS
    <3>3. least.depth \div 10 <= q.depth \div 10 /\ least.depth \div 10 \in Int /\ q.depth \div 10 \in Int
      BY <3>1, <3>2
    <3> QED
      BY <2>6, <2>8, <3>3
  <2> QED
    BY <2>5, <2>6, <2>7, <2>8
<1> QED
  BY <1>1, <1>2

(* What sampling makes of the cells of a tile.                             *)
LEMMA SampleIs ==
  ASSUME NEW n \in Nat \ {0}, NEW cells \in [1 .. n -> CellRecs]
  PROVE  LET pixels == [k \in 1 .. n |-> Stored(cells[k])]
             c == SampleTilesIntoGrid(pixels)
         IN  /\ \A x \in StoredFlags \ {"land"} : x \in c.flags <=> \E k \in 1 .. n : x \in cells[k].flags
             /\ "land" \in c.flags <=> 2 * Cardinality({k \in 1 .. n : "land" \in cells[k].flags}) >= n
             /\ (\A k \in 1 .. n : "channel" \notin cells[k].flags) =>
                  c.depth = Shoalest({pixels[k] : k \in {i \in 1 .. n : Sounded(pixels[i])}})
<1> DEFINE pixels == [k \in 1 .. n |-> Stored(cells[k])]
           c == SampleTilesIntoGrid(pixels)
           under == ToSet(pixels)
           flags == (UNION {p.flags : p \in under}) \ {"land"}
           land == Cardinality({k \in DOMAIN pixels : IsLand(pixels[k])})
           water == {p \in under : Sounded(p)}
           depth == Shoalest(IF "channel" \in flags THEN {p \in water : "channel" \in p.flags} ELSE water)
<1>1. /\ DOMAIN pixels = 1 .. n /\ \A k \in 1 .. n : pixels[k] = Stored(cells[k])
  OBVIOUS
<1>2. pixels # <<>> /\ Len(pixels) = n
  <2>1. pixels \in [1 .. n -> {Stored(cells[k]) : k \in 1 .. n}] /\ n \in Nat
    OBVIOUS
  <2> HIDE DEF pixels
  <2>2. Len(pixels) = n
    BY <2>1, ListIs
  <2> QED
    BY <2>2
<1>3. c = [NewCell EXCEPT !.depth = depth, !.flags = flags \cup (IF 2 * land >= n THEN {"land"} ELSE {})]
  BY <1>2 DEF SampleTilesIntoGrid
<1> HIDE DEF pixels
<1>4. under = {pixels[k] : k \in 1 .. n}
  BY <1>1 DEF ToSet
<1> HIDE DEF under
<1>5. \A x : x \in flags <=> x # "land" /\ \E k \in 1 .. n : x \in Stored(cells[k]).flags
  <2>1. \A x : x \in flags <=> x # "land" /\ \E p \in under : x \in p.flags
    OBVIOUS
  <2> HIDE DEF flags
  <2>2. \A x : (\E p \in under : x \in p.flags) <=> \E k \in 1 .. n : x \in pixels[k].flags
    BY ONLY <1>4
  <2> QED
    BY <1>1, <2>1, <2>2
<1> HIDE DEF flags
<1>6. water = {pixels[k] : k \in {i \in 1 .. n : Sounded(pixels[i])}}
  BY <1>4
<1>7. land = Cardinality({k \in 1 .. n : "land" \in cells[k].flags})
  <2>1. \A k \in 1 .. n : IsLand(pixels[k]) <=> "land" \in cells[k].flags
    BY <1>1 DEF IsLand, Stored, StoredFlags
  <2>2. {k \in DOMAIN pixels : IsLand(pixels[k])} = {k \in 1 .. n : "land" \in cells[k].flags}
    BY <1>1, <2>1
  <2> QED
    BY <2>2
<1> HIDE DEF land, water, depth
<1>8. c.depth = depth /\ c.flags = flags \cup (IF 2 * land >= n THEN {"land"} ELSE {})
  BY <1>3 DEF NewCell
<1> HIDE DEF c
<1>9. ASSUME NEW x \in StoredFlags \ {"land"}
      PROVE  x \in c.flags <=> \E k \in 1 .. n : x \in cells[k].flags
  <2>1. \A k \in 1 .. n : x \in Stored(cells[k]).flags <=> x \in cells[k].flags
    BY DEF Stored
  <2>2. x \in c.flags <=> x \in flags
    BY <1>8
  <2> QED
    BY <1>5, <2>1, <2>2
<1>10. "land" \in c.flags <=> 2 * land >= n
  BY <1>5, <1>8
<1>11. ASSUME \A k \in 1 .. n : "channel" \notin cells[k].flags PROVE depth = Shoalest(water)
  <2>1. "channel" \notin flags
    BY <1>5, <1>11 DEF Stored
  <2> QED
    BY <2>1 DEF depth
<1> QED
  BY <1>6, <1>7, <1>8, <1>9, <1>10, <1>11 DEF c, pixels

(* Outside channels: half land, a wall, or shallow water.                  *)
LEMMA SampledCloses ==
  ASSUME NEW n \in Nat \ {0}, NEW cells \in [1 .. n -> CellRecs], NEW d \in 0 .. MaxDecimetres \div 10,
         \A k \in 1 .. n : "channel" \notin cells[k].flags /\ "dredged" \notin cells[k].flags
  PROVE  ClosedHard(SampleTilesIntoGrid([k \in 1 .. n |-> Stored(cells[k])]), d) <=>
           \/ 2 * Cardinality({k \in 1 .. n : "land" \in cells[k].flags}) >= n
           \/ \E k \in 1 .. n : "obstruction" \in cells[k].flags
           \/ \E k \in 1 .. n : "land" \notin cells[k].flags /\ Shallow(cells[k], d)
<1> DEFINE pixels == [k \in 1 .. n |-> Stored(cells[k])]
           c == SampleTilesIntoGrid(pixels)
           water == {pixels[k] : k \in {i \in 1 .. n : Sounded(pixels[i])}}
           land == Cardinality({k \in 1 .. n : "land" \in cells[k].flags})
<1>1. /\ \A x \in StoredFlags \ {"land"} : x \in c.flags <=> \E k \in 1 .. n : x \in cells[k].flags
      /\ "land" \in c.flags <=> 2 * land >= n
      /\ c.depth = Shoalest(water)
  BY SampleIs
<1>2. \A k \in 1 .. n : pixels[k] = Stored(cells[k])
  OBVIOUS
<1> HIDE DEF c, pixels, land
<1>3. ASSUME NEW k \in 1 .. n
      PROVE  /\ pixels[k].depth \in Int /\ pixels[k].depth >= NavDepthUncharted
             /\ Sounded(pixels[k]) <=> ("land" \notin cells[k].flags /\ cells[k].depth # Uncharted)
             /\ Sounded(pixels[k]) => /\ pixels[k].depth > NavDepthUncharted
                                      /\ pixels[k].depth \div 10 # Uncharted
                                      /\ (pixels[k].depth \div 10 < d <=> cells[k].depth < d)
  <2>1. cells[k] \in CellRecs /\ pixels[k] = Stored(cells[k])
    BY <1>2
  <2>2. /\ pixels[k].depth \in Int /\ pixels[k].depth >= NavDepthUncharted
        /\ pixels[k].depth # NavDepthUncharted <=> cells[k].depth # Uncharted
        /\ pixels[k].depth # NavDepthUncharted => pixels[k].depth \div 10 # Uncharted
        /\ pixels[k].depth # NavDepthUncharted => (pixels[k].depth \div 10 < d <=> cells[k].depth < d)
        /\ \A x \in StoredFlags : x \in pixels[k].flags <=> x \in cells[k].flags
    BY <2>1, StoredIs
  <2>3. IsLand(pixels[k]) <=> "land" \in cells[k].flags
    BY <2>2 DEF IsLand, StoredFlags
  <2>4. Sounded(pixels[k]) <=> ("land" \notin cells[k].flags /\ cells[k].depth # Uncharted)
    BY <2>2, <2>3 DEF Sounded
  <2>5. Sounded(pixels[k]) => pixels[k].depth # NavDepthUncharted
    BY DEF Sounded
  <2> QED
    BY <2>2, <2>4, <2>5 DEF NavDepthUncharted
<1>4. (Shoalest(water) # Uncharted /\ Shoalest(water) < d) <=> \E p \in water : p.depth \div 10 < d
  <2>1. \A p \in water : p.depth \in Int /\ p.depth > NavDepthUncharted /\ p.depth \div 10 # Uncharted
    BY <1>3
  <2>2. d \in Int
    BY DraftIs
  <2> HIDE DEF water
  <2> QED
    BY <2>1, <2>2, ShoalestIs
<1>5. (\E p \in water : p.depth \div 10 < d) <=>
        \E k \in 1 .. n : Sounded(pixels[k]) /\ pixels[k].depth \div 10 < d
  OBVIOUS
<1>6. Shallow(c, d) <=> \E k \in 1 .. n : "land" \notin cells[k].flags /\ Shallow(cells[k], d)
  <2>1. Shallow(c, d) <=> \E k \in 1 .. n : Sounded(pixels[k]) /\ pixels[k].depth \div 10 < d
    BY <1>1, <1>4, <1>5 DEF Shallow
  <2>2. \A k \in 1 .. n : (Sounded(pixels[k]) /\ pixels[k].depth \div 10 < d) <=>
                            ("land" \notin cells[k].flags /\ Shallow(cells[k], d))
    BY <1>3 DEF Shallow
  <2> QED
    BY ONLY <2>1, <2>2
<1>7. /\ "channel" \notin c.flags /\ "dredged" \notin c.flags
      /\ "obstruction" \in c.flags <=> \E k \in 1 .. n : "obstruction" \in cells[k].flags
  BY <1>1 DEF StoredFlags
<1>8. ClosedHard(c, d) <=> ("land" \in c.flags \/ "obstruction" \in c.flags \/ Shallow(c, d))
  BY <1>7, ClosesIs DEF Danger
<1> QED
  BY <1>1, <1>6, <1>7, <1>8 DEF c, pixels, land

-----------------------------------------------------------------------------
(* The tile serves every draft.                                            *)
LEMMA OneScaleIs ==
  ASSUME NEW fs \in Seq(Features), OfOneScale(fs)
  PROVE  \E s \in 0 .. Coarsest : \A k \in 1 .. Len(fs) : fs[k].scale = s
<1>1. DOMAIN fs = 1 .. Len(fs) /\ Len(fs) \in Nat
  BY LenProperties
<1>2. CASE Len(fs) = 0
  BY <1>1, <1>2 DEF Coarsest
<1>3. CASE Len(fs) # 0
  <2>1. 1 \in DOMAIN fs /\ fs[1] \in Features
    BY <1>1, <1>3, ElementOfSeq
  <2>2. fs[1].scale \in 0 .. Coarsest
    BY <2>1 DEF Features
  <2> QED
    BY <1>1, <2>1, <2>2 DEF OfOneScale
<1> QED
  BY <1>2, <1>3

(* What both painters agree on.                                            *)
LEMMA PaintersAgree ==
  ASSUME NEW fs \in Seq(Features), OfOneScale(fs), NEW d \in Int
  PROVE  LET t == RasterizeForNavTile(fs)
             r == RasterizeForRouting(fs, d)
         IN  /\ t \in CellRecs
             /\ "land" \in t.flags <=> OnLand(fs)
             /\ "channel" \in t.flags <=> InChannel(fs)
             /\ "channelDepth" \in t.flags <=> HasDepth(fs)
             /\ "dredged" \in t.flags => InChannel(fs)
             /\ ~InChannel(fs) => (ChartCloses(fs, d) <=> (OnLand(fs) \/ Danger(t, d)))
<1> DEFINE n == Len(fs)
           t == RasterizeForNavTile(fs)
           r == RasterizeForRouting(fs, d)
           z == RasterizeForRouting(fs, 0)
<1>1. PICK s \in 0 .. Coarsest : \A k \in 1 .. n : fs[k].scale = s
  BY OneScaleIs
<1>2. t \in CellRecs /\ Reads(t, fs, n, d)
  BY <1>1, TileReads
<1>3. Reads(r, fs, n, d)
  BY <1>1, RoutingReads
<1>4. Reads(z, fs, n, 0)
  BY <1>1, RoutingReads
<1>5. OnLand(fs) <=> "land" \in z.flags
  BY DEF OnLand
<1>6. HasDepth(fs) <=> "channelDepth" \in z.flags
  BY DEF HasDepth
<1>7. ChartCloses(fs, d) <=> ClosedHard(r, d)
  BY DEF ChartCloses
<1>8. InChannel(fs) <=> \E i \in 1 .. n : fs[i].class \in ChannelClasses
  <2>1. DOMAIN fs = 1 .. n
    BY LenProperties
  <2> QED
    BY <2>1 DEF InChannel, ChannelClasses
<1> HIDE DEF n, t, r, z
<1>9. /\ ("land" \in t.flags) <=> OnLand(fs)
      /\ ("land" \in r.flags) <=> OnLand(fs)
  BY <1>2, <1>3, <1>4, <1>5 DEF Reads
<1>10. /\ ("channel" \in t.flags) <=> InChannel(fs)
       /\ ("channel" \in r.flags) <=> InChannel(fs)
       /\ ("dredged" \in t.flags) => InChannel(fs)
       /\ ("dredged" \in r.flags) => InChannel(fs)
  BY <1>2, <1>3, <1>8 DEF Reads
<1>11. ("channelDepth" \in t.flags) <=> HasDepth(fs)
  BY <1>2, <1>4, <1>6 DEF Reads
<1>12. Danger(t, d) <=> Danger(r, d)
  BY <1>2, <1>3 DEF Reads
<1>13. ~InChannel(fs) => (ChartCloses(fs, d) <=> (OnLand(fs) \/ Danger(t, d)))
  BY <1>7, <1>9, <1>10, <1>12, ClosesIs
<1> QED
  BY <1>2, <1>9, <1>10, <1>11, <1>13 DEF t

(* Outside channels.                                                       *)
LEMMA TilesCloseOutside ==
  ASSUME NEW features \in Seq(Seq(Features)), features # <<>>,
         \A k \in DOMAIN features : OfOneScale(features[k]) /\ ~InChannel(features[k]),
         NEW d \in 0 .. MaxDecimetres \div 10
  PROVE  OutsideChannels(features, d)
<1> DEFINE n == Len(features)
           cells == [k \in 1 .. n |-> RasterizeForNavTile(features[k])]
           Land == {k \in DOMAIN features : OnLand(features[k])}
           Closed == {k \in DOMAIN features : ChartCloses(features[k], d)}
           tile == TilesClose(features, d)
<1>1. n \in Nat \ {0} /\ DOMAIN features = 1 .. n /\ \A k \in 1 .. n : features[k] \in Seq(Features)
  BY LenProperties, ElementOfSeq, EmptySeq
<1>2. d \in Int
  BY DraftIs
<1>3. ASSUME NEW k \in 1 .. n
      PROVE  /\ cells[k] \in CellRecs
             /\ "land" \in cells[k].flags <=> OnLand(features[k])
             /\ "channel" \notin cells[k].flags /\ "dredged" \notin cells[k].flags
             /\ ChartCloses(features[k], d) <=> (OnLand(features[k]) \/ Danger(cells[k], d))
  <2>1. features[k] \in Seq(Features) /\ OfOneScale(features[k]) /\ ~InChannel(features[k])
    BY <1>1
  <2>2. cells[k] = RasterizeForNavTile(features[k])
    OBVIOUS
  <2> QED
    BY <1>2, <2>1, <2>2, PaintersAgree
<1>4. tile = ClosedHard(SampleTilesIntoGrid([k \in 1 .. n |-> Stored(cells[k])]), d)
  <2>1. [k \in DOMAIN features |-> Stored(RasterizeForNavTile(features[k]))] = [k \in 1 .. n |-> Stored(cells[k])]
    BY <1>1
  <2> QED
    BY <2>1 DEF TilesClose, Sampled
<1>5. cells \in [1 .. n -> CellRecs]
  BY <1>3
<1> HIDE DEF cells, n, tile
<1>6. tile <=> \/ 2 * Cardinality({k \in 1 .. n : "land" \in cells[k].flags}) >= n
               \/ \E k \in 1 .. n : "obstruction" \in cells[k].flags
               \/ \E k \in 1 .. n : "land" \notin cells[k].flags /\ Shallow(cells[k], d)
  BY <1>1, <1>3, <1>4, <1>5, SampledCloses
<1>7. Land = {k \in 1 .. n : "land" \in cells[k].flags}
  BY <1>1, <1>3
<1>8. 2 * Cardinality(Land) >= n => tile
  BY <1>6, <1>7
<1>9. Closed \subseteq Land \/ tile
  <2>1. SUFFICES ASSUME NEW k \in Closed, k \notin Land PROVE tile
    OBVIOUS
  <2>2. k \in 1 .. n /\ "land" \notin cells[k].flags /\ Danger(cells[k], d)
    BY <1>1, <1>3, <2>1
  <2> QED
    BY <1>6, <2>2 DEF Danger
<1>10. Closed # {} \/ ~tile
  <2>1. SUFFICES ASSUME Closed = {} PROVE ~tile
    OBVIOUS
  <2>2. \A k \in 1 .. n : "land" \notin cells[k].flags /\ ~Danger(cells[k], d)
    BY <1>1, <1>3, <2>1
  <2>3. {k \in 1 .. n : "land" \in cells[k].flags} = {}
    BY <2>2
  <2>4. Cardinality({k \in 1 .. n : "land" \in cells[k].flags}) = 0
    BY <2>3, FS_EmptySet
  <2>5. ~(2 * Cardinality({k \in 1 .. n : "land" \in cells[k].flags}) >= n)
    BY <1>1, <2>4
  <2> QED
    BY <1>6, <2>2, <2>5 DEF Danger
<1> QED
  BY <1>8, <1>9, <1>10 DEF OutsideChannels, n, tile

(* In channels.                                                            *)
LEMMA TilesOpenInChannels ==
  ASSUME NEW features \in Seq(Seq(Features)), features # <<>>,
         \A k \in DOMAIN features : OfOneScale(features[k]) /\ ~HasDepth(features[k]),
         \E k \in DOMAIN features : InChannel(features[k]), NEW d
  PROVE  ~TilesClose(features, d)
<1> DEFINE n == Len(features)
           cells == [k \in 1 .. n |-> RasterizeForNavTile(features[k])]
           c == SampleTilesIntoGrid([k \in 1 .. n |-> Stored(cells[k])])
<1>1. n \in Nat \ {0} /\ DOMAIN features = 1 .. n /\ \A k \in 1 .. n : features[k] \in Seq(Features)
  BY LenProperties, ElementOfSeq, EmptySeq
<1>2. ASSUME NEW k \in 1 .. n
      PROVE  /\ cells[k] \in CellRecs
             /\ "channel" \in cells[k].flags <=> InChannel(features[k])
             /\ "channelDepth" \notin cells[k].flags
  <2>1. features[k] \in Seq(Features) /\ OfOneScale(features[k]) /\ ~HasDepth(features[k])
    BY <1>1
  <2>2. cells[k] = RasterizeForNavTile(features[k]) /\ 0 \in Int
    OBVIOUS
  <2> QED
    BY <2>1, <2>2, PaintersAgree
<1>3. TilesClose(features, d) = ClosedHard(c, d)
  <2>1. [k \in DOMAIN features |-> Stored(RasterizeForNavTile(features[k]))] = [k \in 1 .. n |-> Stored(cells[k])]
    BY <1>1
  <2> QED
    BY <2>1 DEF TilesClose, Sampled
<1>4. cells \in [1 .. n -> CellRecs]
  BY <1>2
<1> HIDE DEF cells, n
<1>5. \A x \in StoredFlags \ {"land"} : x \in c.flags <=> \E k \in 1 .. n : x \in cells[k].flags
  BY <1>1, <1>4, SampleIs
<1> HIDE DEF c
<1>6. "channel" \in c.flags /\ "channelDepth" \notin c.flags
  BY <1>1, <1>2, <1>5 DEF StoredFlags
<1> QED
  BY <1>3, <1>6 DEF ClosedHard

(* One cell, whatever the order its features come in.                      *)
LEMMA TileAgreesWithChart ==
  ASSUME NEW fs \in Seq(Features), OfOneScale(fs), ~InChannel(fs), NEW d \in 0 .. MaxDecimetres \div 10
  PROVE  TilesClose(<<Reverse(fs)>>, d) <=> ChartCloses(fs, d)
<1> DEFINE r == Reverse(fs)
           t == RasterizeForNavTile(r)
           cells == [k \in 1 .. 1 |-> t]
<1>1. d \in Int
  BY DraftIs
<1>2. PICK s \in 0 .. Coarsest : \A k \in 1 .. Len(fs) : fs[k].scale = s
  BY OneScaleIs
<1>3. r \in Seq(Features) /\ Len(r) = Len(fs) /\ \A k \in 1 .. Len(r) : r[k].scale = s
  <2>1. r = [i \in 1 .. Len(fs) |-> fs[(Len(fs) - i) + 1]] /\ Len(fs) \in Nat
    BY LenProperties DEF Reverse
  <2>2. \A i \in 1 .. Len(fs) : (Len(fs) - i) + 1 \in 1 .. Len(fs)
    BY <2>1
  <2>3. \A i \in 1 .. Len(fs) : fs[i] \in Features
    BY ElementOfSeq
  <2> HIDE DEF r
  <2>4. r \in [1 .. Len(fs) -> Features] /\ \A k \in 1 .. Len(fs) : r[k].scale = s
    BY <1>2, <2>1, <2>2, <2>3
  <2> QED
    BY <2>1, <2>4, ListIs
<1>4. t \in CellRecs /\ Reads(t, r, Len(fs), d)
  BY <1>1, <1>3, TileReads
<1> HIDE DEF t
<1>5. Reads(t, fs, Len(fs), d)
  BY <1>4, ReverseReads
<1>6. Reads(RasterizeForNavTile(fs), fs, Len(fs), d)
  BY <1>1, <1>2, TileReads
<1> DEFINE u == RasterizeForNavTile(fs)
<1>7. /\ "land" \in u.flags <=> OnLand(fs)
      /\ "channel" \notin u.flags /\ ~InChannel(fs)
      /\ ChartCloses(fs, d) <=> (OnLand(fs) \/ Danger(u, d))
  BY <1>1, PaintersAgree
<1> HIDE DEF u
<1>8. /\ "land" \in t.flags <=> OnLand(fs)
      /\ "channel" \notin t.flags
      /\ Danger(t, d) <=> Danger(u, d)
  BY <1>5, <1>6, <1>7 DEF Reads, u
<1>9. "dredged" \notin t.flags
  <2>1. ("channel" \in t.flags) <=> (\E i \in 1 .. Len(fs) : fs[i].class \in ChannelClasses)
    BY <1>5 DEF Reads
  <2>2. ("dredged" \in t.flags) => (\E i \in 1 .. Len(fs) : fs[i].class \in ChannelClasses)
    BY <1>5 DEF Reads
  <2> QED
    BY <1>8, <2>1, <2>2
<1>10. TilesClose(<<r>>, d) = ClosedHard(SampleTilesIntoGrid([k \in 1 .. 1 |-> Stored(cells[k])]), d)
  <2>1. [k \in DOMAIN <<r>> |-> Stored(RasterizeForNavTile(<<r>>[k]))] = [k \in 1 .. 1 |-> Stored(cells[k])]
    BY DEF t
  <2> QED
    BY <2>1 DEF TilesClose, Sampled
<1>11. 1 \in Nat \ {0} /\ cells \in [1 .. 1 -> CellRecs] /\ \A k \in 1 .. 1 : cells[k] = t
  BY <1>4
<1> HIDE DEF cells
<1>12. TilesClose(<<r>>, d) <=>
         \/ 2 * Cardinality({k \in 1 .. 1 : "land" \in cells[k].flags}) >= 1
         \/ \E k \in 1 .. 1 : "obstruction" \in cells[k].flags
         \/ \E k \in 1 .. 1 : "land" \notin cells[k].flags /\ Shallow(cells[k], d)
  BY <1>8, <1>9, <1>10, <1>11, SampledCloses
<1> DEFINE L == {k \in 1 .. 1 : "land" \in cells[k].flags}
<1>13. 2 * Cardinality(L) >= 1 <=> "land" \in t.flags
  <2>1. CASE "land" \in t.flags
    <3>1. L = {1}
      BY <1>11, <2>1
    <3> HIDE DEF L
    <3>2. Cardinality({1}) = 1
      BY FS_Singleton
    <3> QED
      BY <2>1, <3>1, <3>2
  <2>2. CASE "land" \notin t.flags
    <3>1. L = {}
      BY <1>11, <2>2
    <3> HIDE DEF L
    <3>2. Cardinality({}) = 0
      BY FS_EmptySet
    <3> QED
      BY <2>2, <3>1, <3>2
  <2> QED
    BY <2>1, <2>2
<1>14. TilesClose(<<r>>, d) <=> ("land" \in t.flags \/ Danger(t, d))
  <2>1. 1 \in 1 .. 1 /\ \A k \in 1 .. 1 : cells[k] = t
    BY <1>11
  <2> QED
    BY <1>12, <1>13, <2>1 DEF Danger
<1> QED
  BY <1>7, <1>8, <1>14

(* Whatever is charted under a cell, in any order, and whatever boats ask: *)
(* on charts of one scale, and outside channels, a stored cell closes to a *)
(* boat when the chart does, and several pixels by their rule.             *)
THEOREM TilesServeEveryDraft ==
  ASSUME charted \in Seq(Seq(Features))
  PROVE  TileServesEveryDraft
<1>1. SUFFICES ASSUME charted # <<>>, \A k \in DOMAIN charted : OfOneScale(charted[k])
      PROVE  /\ Len(charted) = 1 /\ ~InChannel(charted[1]) => TileAgrees(charted[1])
             /\ SampleAgrees(charted)
  BY DEF TileServesEveryDraft
<1>2. \A d \in Drafts : d \in 0 .. MaxDecimetres \div 10
  BY NavTilesAssumption
<1>3. ASSUME Len(charted) = 1, ~InChannel(charted[1]) PROVE TileAgrees(charted[1])
  <2>1. 1 \in DOMAIN charted /\ charted[1] \in Seq(Features)
    <3>1. DOMAIN charted = 1 .. Len(charted) /\ 1 \in 1 .. Len(charted)
      BY <1>3, LenProperties
    <3> QED
      BY <3>1, ElementOfSeq
  <2>2. OfOneScale(charted[1])
    BY <1>1, <2>1
  <2> QED
    BY <1>2, <1>3, <2>1, <2>2, TileAgreesWithChart DEF TileAgrees
<1>4. SampleAgrees(charted)
  <2>1. SUFFICES ASSUME NEW d \in Drafts
        PROVE  IF \A k \in DOMAIN charted : ~InChannel(charted[k]) THEN OutsideChannels(charted, d)
               ELSE (\A k \in DOMAIN charted : ~HasDepth(charted[k])) => ~TilesClose(charted, d)
    BY DEF SampleAgrees
  <2>2. CASE \A k \in DOMAIN charted : ~InChannel(charted[k])
    <3>1. OutsideChannels(charted, d)
      BY <1>1, <1>2, <2>2, TilesCloseOutside
    <3> QED
      BY <2>2, <3>1
  <2>3. CASE \E k \in DOMAIN charted : InChannel(charted[k])
    <3>1. (\A k \in DOMAIN charted : ~HasDepth(charted[k])) => ~TilesClose(charted, d)
      BY <1>1, <2>3, TilesOpenInChannels
    <3> QED
      BY <2>3, <3>1
  <2> QED
    BY <2>2, <2>3
<1> QED
  BY <1>3, <1>4
-----------------------------------------------------------------------------
(* The charted marks.  Marks of a corridor are ordered from the west.      *)
Marks == [x : Int, y : Int, side : {"port", "starboard", "safeWater"}]
MarkLists ==
  {s \in Seq(Marks) : \A i, j \in 1 .. Len(s) : i < j => s[i].x <= s[j].x}
SameBuoy(m, o) == m.side = o.side /\ Square(m, o) <= DedupReach * DedupReach
ChartedBuoys == [class : STRING, catlam : Int, x : Int, y : Int]

(* A square is no smaller than the square of a smaller number.             *)
LEMMA SquaresAreOrdered ==
  ASSUME NEW a \in Int, NEW b \in Int, NEW r \in Nat, a * a + b * b <= r * r
  PROVE  a <= r /\ -a <= r
<1>1. b * b >= 0 /\ a * a \in Int /\ b * b \in Int /\ r * r \in Int
  <2>1. b >= 0 => b * b >= 0
    OBVIOUS
  <2>2. b < 0 => b * b >= 0
    OBVIOUS
  <2> QED
    BY <2>1, <2>2
<1>2. ASSUME NEW c \in Int, c > r PROVE c * c > r * r
  <2>1. c * c > c * r \/ r = 0
    BY <1>2
  <2>2. c * r >= r * r
    BY <1>2
  <2>3. c * c > 0 /\ c * c \in Int /\ c * r \in Int /\ (r = 0 => r * r = 0)
    BY <1>2
  <2> QED
    BY <1>1, <2>1, <2>2, <2>3
<1>3. (-a) * (-a) = a * a /\ -a \in Int
  OBVIOUS
<1>4. ~(a > r) /\ ~(-a > r)
  BY <1>1, <1>2, <1>3
<1> QED
  BY <1>3, <1>4

(* How far two marks are apart: the same from either side, and no less     *)
(* than their longitudes.                                                  *)
LEMMA SquareIs ==
  ASSUME NEW m \in Marks, NEW o \in Marks
  PROVE  /\ Square(m, o) \in Nat /\ Square(m, o) = Square(o, m) /\ Square(m, m) = 0
         /\ \A r \in Nat : Square(m, o) <= r * r => m.x - o.x <= r /\ o.x - m.x <= r
<1>1. m.x \in Int /\ m.y \in Int /\ o.x \in Int /\ o.y \in Int
  BY DEF Marks
<1>2. PICK a \in Int : a = m.x - o.x /\ o.x - m.x = -a
  BY <1>1
<1>3. PICK b \in Int : b = m.y - o.y /\ o.y - m.y = -b
  BY <1>1
<1>4. Square(m, o) = a * a + b * b
  BY <1>2, <1>3 DEF Square
<1>5. Square(o, m) = (-a) * (-a) + (-b) * (-b)
  BY <1>2, <1>3 DEF Square
<1>6. \A c \in Int : c * c \in Nat /\ (-c) * (-c) = c * c
  <2> SUFFICES ASSUME NEW c \in Int PROVE c * c \in Nat /\ (-c) * (-c) = c * c
    OBVIOUS
  <2>1. c >= 0 => c * c >= 0
    OBVIOUS
  <2>2. c < 0 => c * c >= 0
    OBVIOUS
  <2>3. c * c \in Int /\ (-c) * (-c) = c * c
    OBVIOUS
  <2> QED
    BY <2>1, <2>2, <2>3
<1>7. Square(m, m) = 0
  <2>1. m.x - m.x = 0 /\ m.y - m.y = 0
    BY <1>1
  <2>2. 0 * 0 = 0
    OBVIOUS
  <2> QED
    BY <2>1, <2>2 DEF Square
<1>8. \A r \in Nat : a * a + b * b <= r * r => a <= r /\ -a <= r
  BY SquaresAreOrdered
<1>9. a * a \in Nat /\ b * b \in Nat /\ a * a + b * b \in Nat
  <2>1. a * a \in Nat /\ b * b \in Nat
    BY <1>6
  <2> QED
    BY ONLY <2>1
<1>10. Square(o, m) = Square(m, o)
  BY ONLY <1>4, <1>5, <1>6, a \in Int, b \in Int
<1> QED
  BY ONLY <1>2, <1>4, <1>7, <1>8, <1>9, <1>10

(* The order of the marks is total.                                        *)
LEMMA MarksAreOrdered ==
  ASSUME NEW m \in Marks, NEW o \in Marks
  PROVE  /\ ~MarkBefore(m, m) /\ (MarkBefore(m, o) => ~MarkBefore(o, m) /\ m.x <= o.x)
         /\ m = o \/ MarkBefore(m, o) \/ MarkBefore(o, m)
         /\ \A p \in Marks : MarkBefore(m, o) /\ MarkBefore(o, p) => MarkBefore(m, p)
<1> DEFINE side(q) == SideOrder[q.side]
<1>1. \A q \in Marks : q.x \in Int /\ q.y \in Int /\ side(q) \in Int
  BY DEF Marks, SideOrder
<1>2. \A q, r \in Marks : side(q) = side(r) => q.side = r.side
  BY DEF Marks, SideOrder
<1>3. \A q, r \in Marks : q.x = r.x /\ q.y = r.y /\ q.side = r.side => q = r
  BY DEF Marks
<1>4. \A q, r : MarkBefore(q, r) <=>
        \/ q.x < r.x
        \/ q.x = r.x /\ q.y < r.y
        \/ q.x = r.x /\ q.y = r.y /\ side(q) < side(r)
  BY DEF MarkBefore
<1> HIDE DEF side
<1>5. ~MarkBefore(m, m) /\ (MarkBefore(m, o) => ~MarkBefore(o, m) /\ m.x <= o.x)
  BY <1>1, <1>4
<1>6. m = o \/ MarkBefore(m, o) \/ MarkBefore(o, m)
  BY <1>1, <1>2, <1>3, <1>4
<1>7. ASSUME NEW p \in Marks, MarkBefore(m, o), MarkBefore(o, p) PROVE MarkBefore(m, p)
  BY <1>1, <1>4, <1>7
<1> QED
  BY <1>5, <1>6, <1>7

(* Sorting lists every mark, each in its place.                            *)
LEMMA SortedIs ==
  ASSUME NEW S \in SUBSET Marks, IsFiniteSet(S)
  PROVE  Sorted(S) \in MarkLists /\ \A m \in S : \E k \in 1 .. Len(Sorted(S)) : Sorted(S)[k] = m
<1> DEFINE n == Cardinality(S)
           Before(m) == {o \in S : MarkBefore(o, m)}
           rank == [m \in S |-> Cardinality(Before(m)) + 1]
<1>1. n \in Nat
  BY FS_CardinalityType
<1>2. ASSUME NEW m \in S PROVE rank[m] \in 1 .. n
  <2>1. Before(m) \in SUBSET S /\ Before(m) # S
    <3>1. m \in Marks
      OBVIOUS
    <3>2. m \notin Before(m)
      BY <3>1, MarksAreOrdered
    <3> QED
      BY <3>2
  <2> DEFINE B == Before(m)
  <2>2. IsFiniteSet(B) /\ Cardinality(B) <= n /\ Cardinality(B) # n
    <3> HIDE DEF B
    <3>1. B \in SUBSET S /\ B # S
      BY <2>1 DEF B
    <3> QED
      BY <3>1, FS_Subset
  <2>3. Cardinality(B) \in Nat
    <3> HIDE DEF B
    <3> QED
      BY <2>2, FS_CardinalityType
  <2>4. rank[m] = Cardinality(B) + 1
    OBVIOUS
  <2> HIDE DEF B, rank, n
  <2> QED
    BY ONLY <1>1, <2>2, <2>3, <2>4
<1>3. ASSUME NEW m \in S, NEW o \in S, MarkBefore(m, o) PROVE rank[m] < rank[o]
  <2> DEFINE B == Before(m)
             C == Before(o)
  <2>1. B \subseteq C /\ m \in C /\ m \notin B
    <3>1. m \in Marks /\ o \in Marks /\ ~MarkBefore(m, m)
      BY MarksAreOrdered
    <3>2. \A p \in S : MarkBefore(p, m) => MarkBefore(p, o)
      BY <1>3, <3>1, MarksAreOrdered
    <3> QED
      BY <1>3, <3>1, <3>2
  <2>2. C \subseteq S
    OBVIOUS
  <2>3. rank[m] = Cardinality(B) + 1 /\ rank[o] = Cardinality(C) + 1
    OBVIOUS
  <2> HIDE DEF B, C, rank
  <2>4. IsFiniteSet(C) /\ IsFiniteSet(B) /\ Cardinality(B) <= Cardinality(C) /\ Cardinality(B) # Cardinality(C)
    <3>1. IsFiniteSet(C)
      BY <2>2, FS_Subset
    <3> QED
      BY <2>1, <3>1, FS_Subset
  <2>5. Cardinality(B) \in Nat /\ Cardinality(C) \in Nat
    BY <2>4, FS_CardinalityType
  <2> QED
    BY ONLY <2>3, <2>4, <2>5
<1> HIDE DEF n
<1>4. \A m \in S : Rank(S, m) = rank[m]
  BY DEF Rank
<1> HIDE DEF rank
<1>5. \A m, o \in S : m # o => rank[m] # rank[o]
  <2> SUFFICES ASSUME NEW m \in S, NEW o \in S, m # o PROVE rank[m] # rank[o]
    OBVIOUS
  <2>1. MarkBefore(m, o) \/ MarkBefore(o, m)
    BY MarksAreOrdered
  <2>2. rank[m] \in 1 .. n /\ rank[o] \in 1 .. n
    BY <1>2
  <2> QED
    BY <1>3, <2>1, <2>2
<1>6. ASSUME NEW k \in 1 .. n PROVE \E m \in S : rank[m] = k
  <2>1. rank \in [S -> 1 .. n]
    <3>1. rank \in [S -> {rank[m] : m \in S}]
      BY DEF rank
    <3> QED
      BY <1>2, <3>1
  <2>2. rank \in Injection(S, 1 .. n)
    BY <1>5, <2>1 DEF Injection, IsInjective
  <2>3. IsFiniteSet(1 .. n) /\ Cardinality(1 .. n) = n
    BY <1>1, FS_Interval
  <2>4. rank \in Surjection(S, 1 .. n)
    BY <2>2, <2>3, FS_Injection DEF n
  <2> QED
    BY <2>4 DEF Surjection
<1> DEFINE s == Sorted(S)
<1>7. s = [k \in 1 .. n |-> CHOOSE m \in S : Rank(S, m) = k]
  BY DEF Sorted, n
<1> HIDE DEF s
<1>8. ASSUME NEW k \in 1 .. n PROVE s[k] \in S /\ rank[s[k]] = k
  <2>1. \E m \in S : Rank(S, m) = k
    BY <1>4, <1>6
  <2>2. s[k] = CHOOSE m \in S : Rank(S, m) = k
    BY <1>7
  <2>3. s[k] \in S /\ Rank(S, s[k]) = k
    BY <2>1, <2>2
  <2> QED
    BY <1>4, <2>3
<1>9. s \in Seq(Marks) /\ Len(s) = n
  <2>1. s \in [1 .. n -> Marks]
    BY <1>7, <1>8
  <2> QED
    BY <1>1, <2>1, ListIs
<1>10. ASSUME NEW i \in 1 .. n, NEW j \in 1 .. n, i < j PROVE s[i].x <= s[j].x
  <2>1. s[i] \in S /\ s[j] \in S /\ rank[s[i]] = i /\ rank[s[j]] = j
    BY <1>8
  <2>2. ~MarkBefore(s[j], s[i])
    <3>1. MarkBefore(s[j], s[i]) => j < i
      BY <1>3, <2>1
    <3> QED
      BY <1>10, <3>1
  <2>3. s[i] # s[j]
    BY <1>10, <2>1
  <2> QED
    BY <2>1, <2>2, <2>3, MarksAreOrdered
<1>11. ASSUME NEW m \in S PROVE \E k \in 1 .. n : s[k] = m
  <2>1. rank[m] \in 1 .. n
    BY <1>2
  <2>2. s[rank[m]] \in S /\ rank[s[rank[m]]] = rank[m]
    BY <1>8, <2>1
  <2>3. s[rank[m]] = m
    BY <1>5, <2>2
  <2> QED
    BY <2>1, <2>3
<1> QED
  BY <1>9, <1>10, <1>11 DEF MarkLists, s

(* What the scan of the marks up to the k-th has kept: each buoy once, and *)
(* of each mark its buoy.                                                  *)
Kept(marks, k, out) ==
  /\ out \in MarkLists
  /\ \A i \in 1 .. Len(out) : \E p \in 1 .. k : out[i] = marks[p]
  /\ \A i, j \in 1 .. Len(out) : i # j => ~SameBuoy(out[i], out[j])
  /\ \A p \in 1 .. k : \E i \in 1 .. Len(out) : SameBuoy(marks[p], out[i])

(* A mark is far from all that was kept unless the scan back meets its     *)
(* buoy: the kept marks between are no further in longitude.               *)
LEMMA ScanBackMeetsIt ==
  ASSUME NEW out \in MarkLists, NEW m \in Marks, \A i \in 1 .. Len(out) : out[i].x <= m.x,
         NEW k \in 1 .. Len(out), SameBuoy(m, out[k])
  PROVE  Repeats(out, m)
<1>1. out \in Seq(Marks) /\ Len(out) \in Nat /\ DOMAIN out = 1 .. Len(out) /\ \A i \in 1 .. Len(out) : out[i] \in Marks
  BY LenProperties, ElementOfSeq DEF MarkLists
<1>2. m.side = out[k].side /\ Square(m, out[k]) <= DedupReach * DedupReach
  BY DEF SameBuoy
<1>3. m.x - out[k].x <= DedupReach
  BY <1>1, <1>2, SquareIs, ChannelMarksAssumption
<1>4. ASSUME NEW i \in k .. Len(out) PROVE m.x - out[i].x <= DedupReach
  <2>1. i \in 1 .. Len(out) /\ (i = k \/ k < i)
    BY <1>1
  <2>2. out[k].x <= out[i].x
    <3>1. out[k].x \in Int
      BY <1>1 DEF Marks
    <3> QED
      BY <2>1, <3>1 DEF MarkLists
  <2>3. m.x \in Int /\ out[k].x \in Int /\ out[i].x \in Int /\ DedupReach \in Int
    BY <1>1, <2>1, ChannelMarksAssumption DEF Marks
  <2> QED
    BY ONLY <1>3, <2>2, <2>3
<1> QED
  BY <1>1, <1>2, <1>4 DEF Repeats

LEMMA KeptGrows ==
  ASSUME NEW marks \in MarkLists, NEW k \in Nat, k + 1 \in 1 .. Len(marks), NEW out, Kept(marks, k, out)
  PROVE  Kept(marks, k + 1, IF Repeats(out, marks[k + 1]) THEN out ELSE Append(out, marks[k + 1]))
<1> DEFINE m == marks[k + 1]
           L == Len(out)
           more == Append(out, m)
<1>1. /\ marks \in Seq(Marks) /\ Len(marks) \in Nat /\ \A i \in 1 .. Len(marks) : marks[i] \in Marks
      /\ out \in Seq(Marks) /\ L \in Nat /\ DOMAIN out = 1 .. L /\ \A i \in 1 .. L : out[i] \in Marks
  BY LenProperties, ElementOfSeq DEF MarkLists, Kept
<1>2. \A p \in 1 .. k : p \in 1 .. Len(marks) /\ p < k + 1 /\ p \in 1 .. k + 1
  BY <1>1
<1>3. \A p \in 1 .. k + 1 : p \in 1 .. k \/ p = k + 1
  OBVIOUS
<1>4. m \in Marks /\ k + 1 \in 1 .. k + 1
  BY <1>1
<1>5. \A i \in 1 .. L : out[i].x <= m.x
  <2> SUFFICES ASSUME NEW i \in 1 .. L PROVE out[i].x <= m.x
    OBVIOUS
  <2>1. PICK p \in 1 .. k : out[i] = marks[p]
    BY DEF Kept
  <2>2. p \in 1 .. Len(marks) /\ p < k + 1
    BY <1>2
  <2> QED
    BY <2>1, <2>2 DEF MarkLists
<1> HIDE DEF m, L
<1>6. CASE Repeats(out, m)
  <2>1. PICK i \in 1 .. L : SameBuoy(m, out[i])
    BY <1>1, <1>6 DEF Repeats, SameBuoy
  <2>2. \A p \in 1 .. k + 1 : \E j \in 1 .. L : SameBuoy(marks[p], out[j])
    BY <1>3, <2>1 DEF Kept, L, m
  <2>3. \A j \in 1 .. L : \E p \in 1 .. k + 1 : out[j] = marks[p]
    BY <1>2 DEF Kept, L
  <2>4. Kept(marks, k + 1, out)
    BY <2>2, <2>3 DEF Kept, L
  <2> QED
    BY <1>6, <2>4 DEF m
<1>7. CASE ~Repeats(out, m)
  <2>1. \A i \in 1 .. L : ~SameBuoy(m, out[i])
    BY <1>4, <1>5, <1>7, ScanBackMeetsIt DEF Kept, L
  <2>2. /\ more \in Seq(Marks) /\ Len(more) = L + 1 /\ more[L + 1] = m
        /\ \A i \in 1 .. L : more[i] = out[i]
    BY <1>1, <1>4, AppendProperties DEF L
  <2> HIDE DEF more
  <2>3. \A i \in 1 .. L + 1 : i = L + 1 \/ (i \in 1 .. L /\ i < L + 1)
    BY ONLY <1>1
  <2>4. \A i \in 1 .. L : i \in 1 .. L + 1
    BY ONLY <1>1
  <2>5. L + 1 \in 1 .. L + 1
    BY ONLY <1>1
  <2>6. \A i, j \in 1 .. L + 1 : i < j => more[i].x <= more[j].x
    <3> SUFFICES ASSUME NEW i \in 1 .. L + 1, NEW j \in 1 .. L + 1, i < j PROVE more[i].x <= more[j].x
      OBVIOUS
    <3>1. i \in 1 .. L
      BY <1>1
    <3>2. CASE j = L + 1
      BY <1>5, <2>2, <3>1, <3>2
    <3>3. CASE j \in 1 .. L
      BY <2>2, <3>1, <3>3 DEF Kept, MarkLists, L
    <3> QED
      BY <2>3, <3>2, <3>3
  <2>7. more \in MarkLists
    BY <2>2, <2>6 DEF MarkLists
  <2>8. \A i \in 1 .. L + 1 : \E p \in 1 .. k + 1 : more[i] = marks[p]
    <3> SUFFICES ASSUME NEW i \in 1 .. L + 1 PROVE \E p \in 1 .. k + 1 : more[i] = marks[p]
      OBVIOUS
    <3>1. CASE i = L + 1
      BY <1>4, <2>2, <3>1 DEF m
    <3>2. CASE i \in 1 .. L
      BY <1>2, <2>2, <3>2 DEF Kept, L
    <3> QED
      BY <2>3, <3>1, <3>2
  <2>9. \A i, j \in 1 .. L + 1 : i # j => ~SameBuoy(more[i], more[j])
    <3> SUFFICES ASSUME NEW i \in 1 .. L + 1, NEW j \in 1 .. L + 1, i # j PROVE ~SameBuoy(more[i], more[j])
      OBVIOUS
    <3>1. \A q \in 1 .. L : SameBuoy(out[q], m) <=> SameBuoy(m, out[q])
      <4> SUFFICES ASSUME NEW q \in 1 .. L PROVE SameBuoy(out[q], m) <=> SameBuoy(m, out[q])
        OBVIOUS
      <4>1. Square(out[q], m) = Square(m, out[q])
        BY <1>1, <1>4, SquareIs
      <4> QED
        BY <4>1 DEF SameBuoy
    <3>2. CASE i = L + 1
      <4>1. j \in 1 .. L
        BY <2>3, <3>2
      <4> QED
        BY <2>1, <2>2, <3>2, <4>1
    <3>3. CASE j = L + 1
      <4>1. i \in 1 .. L
        BY <2>3, <3>3
      <4> QED
        BY <2>1, <2>2, <3>1, <3>3, <4>1
    <3>4. CASE i \in 1 .. L /\ j \in 1 .. L
      BY <2>2, <3>4 DEF Kept, L
    <3> QED
      BY <2>3, <3>2, <3>3, <3>4
  <2>10. \A p \in 1 .. k + 1 : \E i \in 1 .. L + 1 : SameBuoy(marks[p], more[i])
    <3> SUFFICES ASSUME NEW p \in 1 .. k + 1 PROVE \E i \in 1 .. L + 1 : SameBuoy(marks[p], more[i])
      OBVIOUS
    <3>1. CASE p \in 1 .. k
      <4>1. PICK i \in 1 .. L : SameBuoy(marks[p], out[i])
        BY <3>1 DEF Kept, L
      <4> QED
        BY <2>2, <2>4, <4>1
    <3>2. CASE p = k + 1
      <4>1. Square(m, m) <= DedupReach * DedupReach
        <5>1. Square(m, m) = 0 /\ DedupReach \in Nat
          BY <1>4, SquareIs, ChannelMarksAssumption
        <5>2. \A r \in Nat : 0 <= r * r
          OBVIOUS
        <5> QED
          BY <5>1, <5>2
      <4> QED
        BY <2>2, <2>5, <3>2, <4>1 DEF SameBuoy, m
    <3> QED
      BY <1>3, <3>1, <3>2
  <2>11. Kept(marks, k + 1, more)
    BY <2>2, <2>7, <2>8, <2>9, <2>10 DEF Kept
  <2> QED
    BY <1>7, <2>11 DEF m, more
<1> QED
  BY <1>6, <1>7

(* One scan is deduping.                                                   *)
LEMMA DedupeIs ==
  ASSUME NEW marks \in MarkLists
  PROVE  Kept(marks, Len(marks), DedupeMarks(marks))
<1> DEFINE n == Len(marks)
           V == Seq(Marks)
           none == <<>>
           next(k, out) == IF Repeats(out, marks[k]) THEN out ELSE Append(out, marks[k])
           Eq(f) == f = [k \in 0 .. n |-> IF k = 0 THEN <<>> ELSE LET out == f[k - 1] IN
                           IF Repeats(out, marks[k]) THEN out ELSE Append(out, marks[k])]
           step == [q \in (1 .. n) \X V |-> next(q[1], q[2])]
<1>1. marks \in Seq(Marks) /\ n \in Nat /\ \A k \in 1 .. n : marks[k] \in Marks
  BY LenProperties, ElementOfSeq DEF MarkLists
<1>2. none \in V /\ Len(none) = 0
  BY EmptySeq
<1>3. \A k \in 1 .. n, v \in V : next(k, v) \in V
  BY <1>1, AppendProperties
<1>4. step \in [(1 .. n) \X V -> V]
  BY <1>3
<1>5. \A k \in 1 .. n, v \in V : step[<<k, v>>] = next(k, v)
  OBVIOUS
<1>6. 0 \in Nat /\ 1 \in Nat /\ 1 = 0 + 1 /\ 0 <= n
  BY <1>1
<1> HIDE DEF step, next, none, V, n
<1>7. PICK f : Recurs(f, V, 0, 1, n, none, step)
  BY ONLY <1>1, <1>2, <1>4, <1>6, Recursion
<1>8. Eq(f)
  <2>1. \A k \in 1 .. n : k - 1 \in 0 .. n /\ f[k - 1] \in V
    <3>1. \A k \in 1 .. n : k - 1 \in 0 .. n
      BY ONLY <1>1
    <3> QED
      BY ONLY <1>7, <3>1 DEF Recurs
  <2>2. \A k \in 0 .. n : k = 0 \/ k \in 1 .. n
    BY ONLY <1>1
  <2>3. ASSUME NEW k \in 0 .. n PROVE f[k] = IF k = 0 THEN <<>> ELSE LET out == f[k - 1] IN
                           IF Repeats(out, marks[k]) THEN out ELSE Append(out, marks[k])
    <3>1. CASE k = 0
      BY <1>7, <3>1 DEF Recurs, none
    <3>2. CASE k # 0
      <4>1. k \in 1 .. n
        BY <2>2, <3>2
      <4>2. f[k] = next(k, f[k - 1])
        BY <1>5, <1>7, <2>1, <4>1 DEF Recurs
      <4> QED
        BY <3>2, <4>2 DEF next
    <3> QED
      BY <3>1, <3>2
  <2> QED
    BY <1>7, <2>3 DEF Recurs
<1> DEFINE g == CHOOSE f_1 : Eq(f_1)
<1>9. Eq(g)
  BY <1>8
<1>10. DedupeMarks(marks) = g[n]
  BY DEF DedupeMarks, n
<1> HIDE DEF g
<1> DEFINE T == {k \in 0 .. n : Kept(marks, k, g[k])}
<1>11. 0 \in T
  <2>1. none \in MarkLists
    BY <1>2 DEF MarkLists, V
  <2>2. g[0] = none
    BY <1>6, <1>9 DEF none
  <2>3. 0 \in 0 .. n
    BY <1>6
  <2> QED
    BY <1>2, <2>1, <2>2, <2>3 DEF Kept
<1>12. ASSUME NEW k \in 0 .. n - 1, k \in T PROVE k + 1 \in T
  <2>1. k \in Nat /\ k + 1 \in 1 .. n /\ k + 1 \in 0 .. n /\ k + 1 # 0 /\ (k + 1) - 1 = k
    BY <1>1
  <2>2. g[k + 1] = IF Repeats(g[k], marks[k + 1]) THEN g[k] ELSE Append(g[k], marks[k + 1])
    BY <1>9, <2>1
  <2>3. Kept(marks, k, g[k])
    BY <1>12
  <2>4. k + 1 \in 1 .. Len(marks)
    BY <2>1 DEF n
  <2>5. Kept(marks, k + 1, g[k + 1])
    BY ONLY <2>1, <2>2, <2>3, <2>4, KeptGrows, marks \in MarkLists
  <2> QED
    BY <2>1, <2>5
<1>13. n \in T
  <2>1. n \in 0 .. n
    BY <1>1
  <2>2. \A k \in 0 .. n - 1 : k \in T => k + 1 \in T
    BY <1>12
  <2> HIDE DEF T
  <2> QED
    BY ONLY <1>1, <1>6, <1>11, <2>1, <2>2, RangeInduction
<1> QED
  BY <1>10, <1>13 DEF n

(* The buoys of a corridor.                                                *)
LEMMA ChannelMarksAre ==
  ASSUME NEW features \in SUBSET ChartedBuoys, IsFiniteSet(features)
  PROVE  /\ ChannelMarksFrom(features) \in MarkLists
         /\ EveryBuoyOnce(features)
<1> DEFINE S == UNION {MarksIn(f) : f \in features}
           sorted == Sorted(S)
           marks == ChannelMarksFrom(features)
           handed == {f \in features : Side(f) # "none"}
           mark(f) == [x |-> f.x, y |-> f.y, side |-> Side(f)]
<1>1. S = {mark(f) : f \in handed}
  BY DEF MarksIn
<1>2. S \in SUBSET Marks
  <2>1. \A f : Side(f) # "none" => Side(f) \in {"port", "starboard", "safeWater"}
    BY DEF Side
  <2>2. \A f \in handed : mark(f) \in Marks
    BY <2>1 DEF ChartedBuoys, Marks
  <2> HIDE DEF mark, handed
  <2> QED
    BY <1>1, <2>2
<1>3. IsFiniteSet(S)
  <2>1. IsFiniteSet(handed)
    <3>1. handed \in SUBSET features
      OBVIOUS
    <3> QED
      BY <3>1, FS_Subset
  <2> DEFINE marked == [f \in handed |-> mark(f)]
  <2>2. marked \in [handed -> S] /\ \A m \in S : \E f \in handed : marked[f] = m
    BY <1>1
  <2>3. marked \in Surjection(handed, S)
    <3> HIDE DEF handed, mark, marked, S
    <3> QED
      BY <2>2 DEF Surjection
  <2> HIDE DEF handed, mark, marked, S
  <2> QED
    BY <2>1, <2>3, FS_Surjection
<1> HIDE DEF S
<1>4. sorted \in MarkLists /\ \A m \in S : \E k \in 1 .. Len(sorted) : sorted[k] = m
  BY <1>2, <1>3, SortedIs
<1>5. marks = DedupeMarks(sorted)
  BY DEF ChannelMarksFrom, S
<1> HIDE DEF sorted, marks
<1>6. Kept(sorted, Len(sorted), marks)
  BY <1>4, <1>5, DedupeIs
<1>7. marks \in MarkLists /\ DOMAIN marks = 1 .. Len(marks)
  BY <1>6, LenProperties DEF Kept, MarkLists
<1>8. \A i, j \in DOMAIN marks : i # j => ~SameBuoy(marks[i], marks[j])
  BY <1>6, <1>7 DEF Kept
<1>9. ASSUME NEW f \in features, NEW m \in MarksIn(f)
      PROVE  \E i \in DOMAIN marks : SameBuoy(m, marks[i])
  <2>1. m \in S
    BY DEF S
  <2>2. PICK k \in 1 .. Len(sorted) : sorted[k] = m
    BY <1>4, <2>1
  <2> QED
    BY <1>6, <1>7, <2>2 DEF Kept
<1> QED
  BY <1>7, <1>8, <1>9 DEF EveryBuoyOnce, SameBuoy, marks

(* MayGate asks the same of two marks from either side.                    *)
LEMMA MayGateIs ==
  ASSUME NEW m \in Marks, NEW o \in Marks
  PROVE  /\ MayGate(m, o) <=> MayGate(o, m)
         /\ MayGate(m, o) => m.side # "safeWater" /\ o.side # "safeWater"
<1>1. Square(m, o) = Square(o, m)
  BY SquareIs
<1>2. CrossesLand(m, o) <=> CrossesLand(o, m)
  BY DEF CrossesLand
<1>3. {m.side, o.side} = {o.side, m.side}
  OBVIOUS
<1>4. {m.side, o.side} = {"port", "starboard"} => m.side # "safeWater" /\ o.side # "safeWater"
  <2>1. m.side \in {m.side, o.side} /\ o.side \in {m.side, o.side} /\ "safeWater" \notin {"port", "starboard"}
    OBVIOUS
  <2> QED
    BY <2>1
<1> QED
  BY <1>1, <1>2, <1>3, <1>4 DEF MayGate

(* Of marks one is the nearest, and of the nearest one scanned first.      *)
LEMMA NearestExists ==
  ASSUME NEW n \in Nat, NEW i \in 1 .. n, NEW S \in SUBSET ((1 .. n) \ {i}), S # {}, NEW far \in [S -> Nat]
  PROVE  \E j \in S : \A k \in S \ {j} :
           far[j] < far[k] \/ (far[j] = far[k] /\ ScannedBefore(i, j, k))
<1>1. PICK j1 \in S : \A k \in S : far[j1] <= far[k]
  <2> DEFINE F == {far[k] : k \in S}
  <2>1. F \subseteq Nat /\ F # {}
    OBVIOUS
  <2>2. LeastOf(F) \in F /\ \A u \in F : LeastOf(F) <= u
    <3> HIDE DEF F
    <3> QED
      BY <2>1, LeastOfIs
  <2>3. PICK j \in S : far[j] = LeastOf(F)
    BY <2>2
  <2>4. \A k \in S : far[k] \in F
    OBVIOUS
  <2> HIDE DEF F
  <2> QED
    BY <2>2, <2>3, <2>4
<1> DEFINE E == {k \in S : far[k] = far[j1]}
           turn == [k \in 1 .. n |-> IF k < i THEN i - k ELSE n + k]
<1>2. \A k \in 1 .. n : turn[k] \in Nat /\ turn[k] = IF k < i THEN i - k ELSE n + k
  OBVIOUS
<1> HIDE DEF turn
<1>3. PICK j \in E : \A k \in E : turn[j] <= turn[k]
  <2> DEFINE F == {turn[k] : k \in E}
  <2>1. E \subseteq 1 .. n /\ j1 \in E
    OBVIOUS
  <2> HIDE DEF E
  <2>2. F \subseteq Nat /\ F # {}
    BY <1>2, <2>1
  <2>3. LeastOf(F) \in F /\ \A u \in F : LeastOf(F) <= u
    <3> HIDE DEF F
    <3> QED
      BY <2>2, LeastOfIs
  <2>4. PICK j \in E : turn[j] = LeastOf(F)
    BY <2>3
  <2>5. \A k \in E : turn[k] \in F
    OBVIOUS
  <2> HIDE DEF F
  <2> QED
    BY <2>3, <2>4, <2>5
<1>4. j \in S /\ far[j] = far[j1] /\ j \in 1 .. n /\ j # i
  OBVIOUS
<1>5. ASSUME NEW k \in S \ {j} PROVE far[j] < far[k] \/ (far[j] = far[k] /\ ScannedBefore(i, j, k))
  <2>1. k \in S /\ k # j /\ k \in 1 .. n /\ k # i /\ far[k] \in Nat /\ far[j] \in Nat
    BY <1>4
  <2>2. CASE k \in E
    <3>1. turn[j] <= turn[k] /\ far[j] = far[k]
      BY <1>3, <1>4, <2>2
    <3>2. /\ turn[j] = IF j < i THEN i - j ELSE n + j
          /\ turn[k] = IF k < i THEN i - k ELSE n + k
      BY <1>2, <1>4, <2>1
    <3>3. i \in Nat /\ j \in Nat /\ k \in Nat /\ n \in Nat /\ i <= n
      BY <1>4, <2>1
    <3>4. (j < i /\ (k < j \/ i < k)) \/ (i < j /\ j < k)
      BY ONLY <1>4, <2>1, <3>1, <3>2, <3>3
    <3> QED
      BY <3>1, <3>4 DEF ScannedBefore
  <2>3. CASE k \notin E
    <3>1. far[k] # far[j1] /\ far[j1] <= far[k]
      BY <1>1, <2>1, <2>3
    <3> QED
      BY <1>4, <2>1, <3>1
  <2> QED
    BY <2>2, <2>3
<1> QED
  BY <1>4, <1>5

(* The nearest mark is one a gate may be made with, and no other is nearer *)
(* within reach.                                                           *)
Opposite(marks, i) == {j \in Scan(marks, i, GateWidth) : MayGate(marks[i], marks[j])}

LEMMA NearestIs ==
  ASSUME NEW marks \in MarkLists, NEW i \in DOMAIN marks
  PROVE  IF Opposite(marks, i) = {} THEN Nearest(marks, i) = 0
         ELSE /\ Nearest(marks, i) \in Opposite(marks, i)
              /\ \A k \in Opposite(marks, i) :
                   Square(marks[i], marks[Nearest(marks, i)]) <= Square(marks[i], marks[k])
<1> DEFINE n == Len(marks)
           S == Opposite(marks, i)
           far == [k \in S |-> Square(marks[i], marks[k])]
           First(j) == \A k \in S \ {j} :
             \/ Square(marks[i], marks[j]) < Square(marks[i], marks[k])
             \/ Square(marks[i], marks[j]) = Square(marks[i], marks[k]) /\ ScannedBefore(i, j, k)
<1>1. n \in Nat /\ DOMAIN marks = 1 .. n /\ \A k \in 1 .. n : marks[k] \in Marks
  BY LenProperties, ElementOfSeq DEF MarkLists
<1>2. Nearest(marks, i) = IF S = {} THEN 0 ELSE CHOOSE j \in S : First(j)
  BY DEF Nearest, Opposite
<1>3. S \in SUBSET ((1 .. n) \ {i}) /\ i \in 1 .. n
  BY <1>1 DEF Opposite, Scan
<1> HIDE DEF S, n
<1>4. CASE S = {}
  BY <1>2, <1>4 DEF S
<1>5. CASE S # {}
  <2>1. far \in [S -> Nat]
    BY <1>1, <1>3, SquareIs
  <2>2. \A k \in S : far[k] = Square(marks[i], marks[k])
    OBVIOUS
  <2> HIDE DEF far
  <2>3. PICK j \in S : \A k \in S \ {j} : far[j] < far[k] \/ (far[j] = far[k] /\ ScannedBefore(i, j, k))
    BY <1>1, <1>3, <1>5, <2>1, NearestExists
  <2>4. First(j)
    BY <2>2, <2>3
  <2> DEFINE c == CHOOSE c_1 \in S : First(c_1)
  <2>5. c \in S /\ First(c) /\ Nearest(marks, i) = c
    BY <1>2, <1>5, <2>4
  <2> HIDE DEF c
  <2>6. \A k \in S : Square(marks[i], marks[c]) <= Square(marks[i], marks[k])
    <3> SUFFICES ASSUME NEW k \in S PROVE Square(marks[i], marks[c]) <= Square(marks[i], marks[k])
      OBVIOUS
    <3>1. far[c] \in Nat /\ far[k] \in Nat /\ (k = c \/ far[c] <= far[k])
      <4>1. far[c] \in Nat /\ far[k] \in Nat
        BY <2>1, <2>5
      <4>2. k = c \/ far[c] < far[k] \/ far[c] = far[k]
        BY <2>2, <2>5
      <4> QED
        BY ONLY <4>1, <4>2
    <3>2. far[c] <= far[k]
      BY ONLY <3>1
    <3> QED
      BY <2>2, <2>5, <3>2
  <2> QED
    BY <1>5, <2>5, <2>6 DEF S
<1> QED
  BY <1>4, <1>5

(* Marks that may make a gate see each other: no mark between them is out  *)
(* of reach.                                                               *)
LEMMA GatesAreInReach ==
  ASSUME NEW marks \in MarkLists, NEW i \in DOMAIN marks, NEW j \in DOMAIN marks, i # j,
         MayGate(marks[i], marks[j])
  PROVE  j \in Opposite(marks, i)
<1>1. Len(marks) \in Nat /\ DOMAIN marks = 1 .. Len(marks) /\ \A k \in 1 .. Len(marks) : marks[k] \in Marks
  BY LenProperties, ElementOfSeq DEF MarkLists
<1>2. /\ marks[j].x - marks[i].x <= GateWidth /\ marks[i].x - marks[j].x <= GateWidth
      /\ marks[i] \in Marks /\ marks[j] \in Marks
  BY <1>1, SquareIs, ChannelMarksAssumption DEF MayGate
<1>3. ASSUME NEW k \in j .. i - 1 \cup i + 1 .. j
      PROVE  Distance(marks[i].x, marks[k].x) <= GateWidth
  <2>1. /\ k \in 1 .. Len(marks)
        /\ (j = k /\ k < i) \/ (j < k /\ k < i) \/ (i < k /\ k = j) \/ (i < k /\ k < j)
    BY <1>1
  <2>2. marks[k].x \in Int /\ marks[i].x \in Int /\ marks[j].x \in Int /\ GateWidth \in Int
    BY <1>1, <1>2, <2>1, ChannelMarksAssumption DEF Marks
  <2>3. \/ marks[j].x <= marks[k].x /\ marks[k].x <= marks[i].x
        \/ marks[i].x <= marks[k].x /\ marks[k].x <= marks[j].x
    <3>1. \A p, q \in 1 .. Len(marks) : p < q => marks[p].x <= marks[q].x
      BY DEF MarkLists
    <3>2. i \in 1 .. Len(marks) /\ j \in 1 .. Len(marks)
      BY <1>1
    <3> QED
      BY ONLY <2>1, <2>2, <3>1, <3>2
  <2>4. marks[k].x - marks[i].x <= GateWidth /\ marks[i].x - marks[k].x <= GateWidth
    BY ONLY <1>2, <2>2, <2>3
  <2> QED
    BY <2>4 DEF Distance
<1> QED
  BY <1>3 DEF Opposite, Scan

(* Gates pair the marks.                                                   *)
LEMMA GatesPair ==
  ASSUME NEW features, ChannelMarksFrom(features) \in MarkLists
  PROVE  GatesArePairs(features)
<1> DEFINE marks == ChannelMarksFrom(features)
           safe == {k \in DOMAIN marks : marks[k].side = "safeWater"}
           mutual == {k \in DOMAIN marks : Nearest(marks, k) > k /\ Nearest(marks, Nearest(marks, k)) = k}
           gates == ChannelGates(marks)
           only(i, j) == \A k \in DOMAIN marks \ {i, j} :
             MayGate(marks[i], marks[k]) => Square(marks[i], marks[j]) < Square(marks[i], marks[k])
<1>1. gates = {<<i, i>> : i \in safe} \cup {<<i, Nearest(marks, i)>> : i \in mutual}
  BY DEF ChannelGates
<1> HIDE DEF marks, gates
<1>2. /\ marks \in MarkLists /\ Len(marks) \in Nat /\ DOMAIN marks = 1 .. Len(marks)
      /\ \A k \in 1 .. Len(marks) : marks[k] \in Marks
  BY LenProperties, ElementOfSeq DEF MarkLists, marks
<1>3. ASSUME NEW i \in mutual
      PROVE  /\ i \in 1 .. Len(marks) /\ Nearest(marks, i) \in 1 .. Len(marks) /\ i < Nearest(marks, i)
             /\ i \notin safe /\ Nearest(marks, i) \notin safe
             /\ Nearest(marks, Nearest(marks, i)) = i
  <2>1. i \in 1 .. Len(marks) /\ Nearest(marks, i) > i /\ i \in DOMAIN marks
    BY <1>2
  <2>2. Opposite(marks, i) # {}
    <3>1. Nearest(marks, i) # 0
      BY <2>1
    <3> QED
      BY <1>2, <2>1, <3>1, NearestIs
  <2>3. Nearest(marks, i) \in Opposite(marks, i)
    BY <1>2, <2>1, <2>2, NearestIs
  <2> DEFINE j == Nearest(marks, i)
  <2>4. j \in 1 .. Len(marks) /\ MayGate(marks[i], marks[j])
    BY <1>2, <2>3 DEF Opposite, Scan
  <2>5. marks[i].side # "safeWater" /\ marks[j].side # "safeWater"
    <3> HIDE DEF j
    <3> QED
      BY <1>2, <2>1, <2>4, MayGateIs
  <2>6. i < j
    <3>1. j \in Nat /\ i \in Nat /\ j > i
      BY <2>1, <2>4
    <3> HIDE DEF j
    <3> QED
      BY ONLY <3>1
  <2> QED
    BY <2>1, <2>4, <2>5, <2>6
<1> HIDE DEF safe, mutual
<1>4. ASSUME NEW g \in gates, NEW h \in gates, {g[1], g[2]} \cap {h[1], h[2]} # {}
      PROVE  g = h
  <2>1. (\E i \in safe : g = <<i, i>>) \/ (\E i \in mutual : g = <<i, Nearest(marks, i)>>)
    BY <1>1
  <2>2. (\E k \in safe : h = <<k, k>>) \/ (\E k \in mutual : h = <<k, Nearest(marks, k)>>)
    BY <1>1
  <2>3. CASE (\E i \in safe : g = <<i, i>>) /\ (\E k \in safe : h = <<k, k>>)
    BY <1>4, <2>3
  <2>4. CASE (\E i \in safe : g = <<i, i>>) /\ (\E k \in mutual : h = <<k, Nearest(marks, k)>>)
    <3>1. PICK i \in safe : g = <<i, i>>
      BY <2>4
    <3>2. PICK k \in mutual : h = <<k, Nearest(marks, k)>>
      BY <2>4
    <3>3. i = k \/ i = Nearest(marks, k)
      BY <1>4, <3>1, <3>2
    <3> QED
      BY <1>3, <3>3
  <2>5. CASE (\E i \in mutual : g = <<i, Nearest(marks, i)>>) /\ (\E k \in safe : h = <<k, k>>)
    <3>1. PICK i \in mutual : g = <<i, Nearest(marks, i)>>
      BY <2>5
    <3>2. PICK k \in safe : h = <<k, k>>
      BY <2>5
    <3>3. k = i \/ k = Nearest(marks, i)
      BY <1>4, <3>1, <3>2
    <3> QED
      BY <1>3, <3>3
  <2>6. CASE (\E i \in mutual : g = <<i, Nearest(marks, i)>>) /\ (\E k \in mutual : h = <<k, Nearest(marks, k)>>)
    <3>1. PICK i \in mutual : g = <<i, Nearest(marks, i)>>
      BY <2>6
    <3>2. PICK k \in mutual : h = <<k, Nearest(marks, k)>>
      BY <2>6
    <3>3. i = k \/ i = Nearest(marks, k) \/ Nearest(marks, i) = k \/ Nearest(marks, i) = Nearest(marks, k)
      BY <1>4, <3>1, <3>2
    <3>4. /\ Nearest(marks, Nearest(marks, i)) = i /\ Nearest(marks, Nearest(marks, k)) = k
          /\ i \in Nat /\ k \in Nat /\ Nearest(marks, i) \in Nat /\ Nearest(marks, k) \in Nat
          /\ i < Nearest(marks, i) /\ k < Nearest(marks, k)
      BY <1>3
    <3>5. i = k
      <4>1. i = Nearest(marks, k) => Nearest(marks, i) = k
        BY <3>4
      <4>2. Nearest(marks, i) = k => Nearest(marks, k) = i
        BY <3>4
      <4>3. Nearest(marks, i) = Nearest(marks, k) => i = k
        BY <3>4
      <4>4. ~(i = Nearest(marks, k) /\ Nearest(marks, i) = k)
        BY <3>4
      <4> QED
        BY <3>3, <4>1, <4>2, <4>3, <4>4
    <3> QED
      BY <3>1, <3>2, <3>5
  <2> QED
    BY <2>1, <2>2, <2>3, <2>4, <2>5, <2>6
<1>5. ASSUME NEW i \in DOMAIN marks, NEW j \in DOMAIN marks, i # j, MayGate(marks[i], marks[j]), only(i, j)
      PROVE  Nearest(marks, i) = j
  <2>1. j \in Opposite(marks, i)
    BY <1>2, <1>5, GatesAreInReach
  <2> DEFINE c == Nearest(marks, i)
  <2>2. c \in Opposite(marks, i) /\ Square(marks[i], marks[c]) <= Square(marks[i], marks[j])
    BY <1>2, <2>1, NearestIs
  <2>3. c \in DOMAIN marks /\ c # i /\ MayGate(marks[i], marks[c])
    BY <2>2 DEF Opposite, Scan
  <2> HIDE DEF c
  <2>4. c # j => Square(marks[i], marks[j]) < Square(marks[i], marks[c])
    BY <1>5, <2>3
  <2>5. Square(marks[i], marks[j]) \in Nat /\ Square(marks[i], marks[c]) \in Nat
    BY <1>2, <2>3, SquareIs
  <2>6. c = j
    BY ONLY <2>2, <2>4, <2>5
  <2> QED
    BY <2>6 DEF c
<1>6. ASSUME NEW i \in DOMAIN marks, NEW j \in DOMAIN marks,
             i < j, MayGate(marks[i], marks[j]), only(i, j), only(j, i)
      PROVE  <<i, j>> \in gates
  <2>1. i # j /\ i \in Nat /\ j \in Nat
    BY <1>2, <1>6
  <2>2. MayGate(marks[j], marks[i])
    BY <1>2, <1>6, MayGateIs
  <2>3. Nearest(marks, i) = j
    BY <1>5, <1>6, <2>1
  <2>4. Nearest(marks, j) = i
    BY <1>5, <1>6, <2>1, <2>2
  <2>5. i \in mutual
    BY <1>6, <2>1, <2>3, <2>4 DEF mutual
  <2> QED
    BY <1>1, <2>3, <2>5
<1>7. ASSUME NEW i \in DOMAIN marks, Nearest(marks, i) # 0
      PROVE  /\ Nearest(marks, i) \in DOMAIN marks /\ MayGate(marks[i], marks[Nearest(marks, i)])
             /\ \A k \in DOMAIN marks :
                  MayGate(marks[i], marks[k]) =>
                    Square(marks[i], marks[Nearest(marks, i)]) <= Square(marks[i], marks[k])
  <2>1. /\ Nearest(marks, i) \in Opposite(marks, i)
        /\ \A k \in Opposite(marks, i) :
             Square(marks[i], marks[Nearest(marks, i)]) <= Square(marks[i], marks[k])
    BY <1>2, <1>7, NearestIs
  <2>2. ~MayGate(marks[i], marks[i])
    <3>1. \A s : {s, s} # {"port", "starboard"}
      <4>1. "port" # "starboard"
        OBVIOUS
      <4> QED
        BY <4>1
    <3> QED
      BY <3>1 DEF MayGate
  <2>3. ASSUME NEW k \in DOMAIN marks, MayGate(marks[i], marks[k]) PROVE k \in Opposite(marks, i)
    BY <1>2, <2>2, <2>3, GatesAreInReach
  <2> QED
    BY <2>1, <2>3 DEF Opposite, Scan
<1>8. ASSUME NEW g \in gates, g[1] # g[2]
      PROVE  /\ MayGate(marks[g[1]], marks[g[2]])
             /\ \A k \in DOMAIN marks :
                  MayGate(marks[g[1]], marks[k]) => Square(marks[g[1]], marks[g[2]]) <= Square(marks[g[1]], marks[k])
             /\ \A k \in DOMAIN marks :
                  MayGate(marks[g[2]], marks[k]) => Square(marks[g[2]], marks[g[1]]) <= Square(marks[g[2]], marks[k])
  <2>1. PICK i \in mutual : g = <<i, Nearest(marks, i)>>
    BY <1>1, <1>8
  <2> DEFINE j == Nearest(marks, i)
  <2>2. /\ i \in DOMAIN marks /\ j \in DOMAIN marks /\ i \in Nat /\ j \in Nat /\ i # 0 /\ j # 0
        /\ Nearest(marks, j) = i /\ g[1] = i /\ g[2] = j
    BY <1>2, <1>3, <2>1
  <2> HIDE DEF j
  <2>3. j = Nearest(marks, i)
    BY DEF j
  <2> QED
    BY <1>7, <2>2, <2>3
<1> QED
  BY <1>4, <1>6, <1>8 DEF GatesArePairs, gates, marks

(* MarksPairUp for any buoys: a corridor's marks are each listed once, and *)
(* gates pair them, a mark in one gate at most, with the nearest it can    *)
(* have, and every mutual choice taken.                                    *)
THEOREM MarksArePaired ==
  ASSUME buoys \in SUBSET ChartedBuoys, IsFiniteSet(buoys)
  PROVE  MarksPairUp
<1> QED
  BY ChannelMarksAre, GatesPair DEF MarksPairUp

-----------------------------------------------------------------------------
(* Isobars.  A side of a cell that a level crosses is an edge of the grid. *)

(* A fraction of a way is between its ends.                                *)
LEMMA PartOfWay ==
  ASSUME NEW k \in Int, NEW y \in Int, NEW d \in Int, 0 <= k, k <= y, 0 < y
  PROVE  /\ (k * d) \div y \in Int
         /\ 0 <= d => 0 <= (k * d) \div y /\ (k * d) \div y <= d
         /\ d <= 0 => d <= (k * d) \div y /\ (k * d) \div y <= 0
<1> DEFINE x == k * d
           q == x \div y
<1>1. x \in Int
  OBVIOUS
<1>2. q \in Int /\ y * q <= x /\ x < y * q + y
  <2> HIDE DEF x
  <2> QED
    BY <1>1
<1>3. 0 <= d => 0 <= x /\ x <= y * d
  OBVIOUS
<1>4. d <= 0 => x <= 0 /\ y * d <= x
  OBVIOUS
<1> HIDE DEF x, q
<1>5. 0 <= d => 0 <= q /\ q <= d
  <2>1. ASSUME 0 <= d, q < 0 PROVE FALSE
    <3>1. y * q + y <= 0
      BY <1>2, <2>1
    <3> QED
      BY <1>1, <1>2, <1>3, <2>1, <3>1
  <2>2. ASSUME 0 <= d, d < q PROVE FALSE
    <3>1. y * d + y <= y * q
      BY <1>2, <2>2
    <3> QED
      BY <1>1, <1>2, <1>3, <2>2, <3>1
  <2> QED
    BY <1>2, <2>1, <2>2
<1>6. d <= 0 => d <= q /\ q <= 0
  <2>1. ASSUME d <= 0, 0 < q PROVE FALSE
    <3>1. y <= y * q
      BY <1>2, <2>1
    <3> QED
      BY <1>1, <1>2, <1>4, <2>1, <3>1
  <2>2. ASSUME d <= 0, q < d PROVE FALSE
    <3>1. y * q + y <= y * d
      BY <1>2, <2>2
    <3> QED
      BY <1>1, <1>2, <1>4, <2>2, <3>1
  <2> QED
    BY <1>2, <2>1, <2>2
<1> QED
  BY <1>2, <1>5, <1>6 DEF x, q

(* How far from the first of two corners a level is crossed, d apart.      *)
Shift(level, a, b, d) == Crossing(level, a, b, 0, d)
Between(level, a, b) == (a > level) # (b > level)

(* The crossing is on the way from the first corner to the second.         *)
LEMMA ShiftIs ==
  ASSUME NEW level \in Int, NEW a \in Int, NEW b \in Int, NEW d \in Int, Between(level, a, b)
  PROVE  /\ Shift(level, a, b, d) \in Int
         /\ 0 <= d => 0 <= Shift(level, a, b, d) /\ Shift(level, a, b, d) <= d
         /\ d <= 0 => d <= Shift(level, a, b, d) /\ Shift(level, a, b, d) <= 0
         /\ \A from, to \in Int : to - from = d =>
              Crossing(level, a, b, from, to) = from + Shift(level, a, b, d)
<1>1. CASE b > a
  <2> DEFINE k == level - a
             y == b - a
  <2>1. k \in Int /\ y \in Int /\ 0 <= k /\ k <= y /\ 0 < y
    BY <1>1 DEF Between
  <2>2. \A from, to \in Int : Crossing(level, a, b, from, to) = from + (k * (to - from)) \div y
    BY <1>1 DEF Crossing
  <2>3. Shift(level, a, b, d) = 0 + (k * (d - 0)) \div y
    BY <2>2 DEF Shift
  <2> HIDE DEF k, y
  <2>4. (k * d) \div y \in Int
    BY ONLY <2>1, PartOfWay, d \in Int
  <2>5. d - 0 = d /\ Shift(level, a, b, d) = (k * d) \div y
    BY <2>3, <2>4
  <2>6. \A from, to \in Int : to - from = d => Crossing(level, a, b, from, to) = from + Shift(level, a, b, d)
    BY <2>2, <2>5
  <2> QED
    BY <2>1, <2>5, <2>6, PartOfWay
<1>2. CASE ~(b > a)
  <2> DEFINE k == a - level
             y == a - b
  <2>1. k \in Int /\ y \in Int /\ 0 <= k /\ k <= y /\ 0 < y
    BY <1>2 DEF Between
  <2>2. \A from, to \in Int : Crossing(level, a, b, from, to) = from + (k * (to - from)) \div y
    BY <1>2 DEF Crossing
  <2>3. Shift(level, a, b, d) = 0 + (k * (d - 0)) \div y
    BY <2>2 DEF Shift
  <2> HIDE DEF k, y
  <2>4. (k * d) \div y \in Int
    BY ONLY <2>1, PartOfWay, d \in Int
  <2>5. d - 0 = d /\ Shift(level, a, b, d) = (k * d) \div y
    BY <2>3, <2>4
  <2>6. \A from, to \in Int : to - from = d => Crossing(level, a, b, from, to) = from + Shift(level, a, b, d)
    BY <2>2, <2>5
  <2> QED
    BY <2>1, <2>5, <2>6, PartOfWay
<1> QED
  BY <1>1, <1>2

(* The ends of segments are the places of what they join, one each.        *)
Joined(C, S, Pt) ==
  \E f \in Bijection(S \X {1, 2}, C) : \A end \in S \X {1, 2} : end[1][end[2]] = Pt[f[end]]

(* No segment joins nothing, one joins two, and two that differ join four. *)
LEMMA JoinNone ==
  ASSUME NEW Pt
  PROVE  Joined({}, {}, Pt)
<1> DEFINE f == [end \in {} \X {1, 2} |-> 0]
<1>1. {} \X {1, 2} = {}
  OBVIOUS
<1>2. f \in Bijection({} \X {1, 2}, {})
  BY <1>1 DEF Bijection, Injection, Surjection, IsInjective
<1> QED
  BY <1>1, <1>2 DEF Joined

LEMMA JoinOne ==
  ASSUME NEW a, NEW b, a # b, NEW Pt
  PROVE  Joined({a, b}, {<<Pt[a], Pt[b]>>}, Pt)
<1> DEFINE s == <<Pt[a], Pt[b]>>
           E == {s} \X {1, 2}
           f == [end \in E |-> IF end[2] = 1 THEN a ELSE b]
<1>1. s[1] = Pt[a] /\ s[2] = Pt[b]
  OBVIOUS
<1> HIDE DEF s
<1>2. E = {<<s, 1>>, <<s, 2>>} /\ <<s, 1>>[2] = 1 /\ <<s, 2>>[2] = 2 /\ <<s, 1>>[1] = s /\ <<s, 2>>[1] = s
  OBVIOUS
<1> HIDE DEF E
<1>3. f \in [E -> {a, b}] /\ f[<<s, 1>>] = a /\ f[<<s, 2>>] = b
  BY <1>2
<1> HIDE DEF f
<1>4. f \in Bijection(E, {a, b})
  BY <1>2, <1>3 DEF Bijection, Injection, Surjection, IsInjective
<1>5. \A end \in E : end[1][end[2]] = Pt[f[end]]
  BY <1>1, <1>2, <1>3
<1> QED
  BY <1>4, <1>5 DEF Joined, E, s

LEMMA JoinTwo ==
  ASSUME NEW a, NEW b, NEW c, NEW d, a # b, a # c, a # d, b # c, b # d, c # d, NEW Pt,
         Pt[a] # Pt[c] \/ Pt[b] # Pt[d]
  PROVE  Joined({a, b, c, d}, {<<Pt[a], Pt[b]>>, <<Pt[c], Pt[d]>>}, Pt)
<1> DEFINE s == <<Pt[a], Pt[b]>>
           t == <<Pt[c], Pt[d]>>
           E == {s, t} \X {1, 2}
           f == [end \in E |-> IF end[1] = s THEN IF end[2] = 1 THEN a ELSE b
                               ELSE IF end[2] = 1 THEN c ELSE d]
<1>1. s[1] = Pt[a] /\ s[2] = Pt[b] /\ t[1] = Pt[c] /\ t[2] = Pt[d]
  OBVIOUS
<1> HIDE DEF s, t
<1>2. s # t
  BY <1>1
<1>3. /\ E = {<<s, 1>>, <<s, 2>>, <<t, 1>>, <<t, 2>>}
      /\ <<s, 1>>[2] = 1 /\ <<s, 2>>[2] = 2 /\ <<s, 1>>[1] = s /\ <<s, 2>>[1] = s
      /\ <<t, 1>>[2] = 1 /\ <<t, 2>>[2] = 2 /\ <<t, 1>>[1] = t /\ <<t, 2>>[1] = t
  OBVIOUS
<1> HIDE DEF E
<1>4. f \in [E -> {a, b, c, d}] /\ f[<<s, 1>>] = a /\ f[<<s, 2>>] = b /\ f[<<t, 1>>] = c /\ f[<<t, 2>>] = d
  BY <1>2, <1>3
<1> HIDE DEF f
<1>5. f \in Bijection(E, {a, b, c, d})
  BY <1>3, <1>4 DEF Bijection, Injection, Surjection, IsInjective
<1>6. \A end \in E : end[1][end[2]] = Pt[f[end]]
  BY <1>1, <1>3, <1>4
<1> QED
  BY <1>5, <1>6 DEF Joined, E, s, t

-----------------------------------------------------------------------------
(* The sides of a cell, and where a level crosses them.                    *)
Sides == {"top", "right", "bottom", "left"}

PointsOf(level, c) ==
  [e \in Sides |->
     IF e = "top" THEN <<Crossing(level, c.tl, c.tr, c.west, c.east), c.north>>
     ELSE IF e = "right" THEN <<c.east, Crossing(level, c.tr, c.br, c.north, c.south)>>
     ELSE IF e = "bottom" THEN <<Crossing(level, c.bl, c.br, c.west, c.east), c.south>>
     ELSE <<c.west, Crossing(level, c.tl, c.bl, c.north, c.south)>>]

Crossed(level, c) ==
  {e \in Sides : \/ e = "top" /\ Between(level, c.tl, c.tr)
                 \/ e = "right" /\ Between(level, c.tr, c.br)
                 \/ e = "bottom" /\ Between(level, c.bl, c.br)
                 \/ e = "left" /\ Between(level, c.tl, c.bl)}

CellRecords == [tl : Int, tr : Int, bl : Int, br : Int, west : Int, east : Int, north : Int, south : Int]

(* Which corners are above a level, told by each of them.                  *)
LEMMA CornersAbove ==
  ASSUME NEW above \in SUBSET Corners, NEW A \in BOOLEAN, NEW B \in BOOLEAN, NEW C \in BOOLEAN, NEW D \in BOOLEAN,
         "tl" \in above <=> A, "tr" \in above <=> B, "bl" \in above <=> C, "br" \in above <=> D
  PROVE  /\ above \in {{}, Corners \ {}} <=> (A = B /\ C = D /\ A = C)
         /\ above \in {{"bl"}, Corners \ {"bl"}} <=> (A = B /\ B = D /\ C # D)
         /\ above \in {{"br"}, Corners \ {"br"}} <=> (A = B /\ A = C /\ C # D)
         /\ above \in {{"bl", "br"}, Corners \ {"bl", "br"}} <=> (A = B /\ C = D /\ A # C)
         /\ above \in {{"tr"}, Corners \ {"tr"}} <=> (A # B /\ C = D /\ A = C)
         /\ above \in {{"tr", "br"}, Corners \ {"tr", "br"}} <=> (A # B /\ C # D /\ A = C)
         /\ above \in {{"tl"}, Corners \ {"tl"}} <=> (A # B /\ C = D /\ B = C)
         /\ above = {"tr", "bl"} <=> (~A /\ B /\ C /\ ~D)
         /\ above = {"tl", "br"} <=> (A /\ ~B /\ ~C /\ D)
<1>1. ASSUME NEW S \in SUBSET Corners
      PROVE  above = S <=> /\ "tl" \in S <=> A
                           /\ "tr" \in S <=> B
                           /\ "bl" \in S <=> C
                           /\ "br" \in S <=> D
  <2>1. \A k : k \in Corners <=> k = "tl" \/ k = "tr" \/ k = "bl" \/ k = "br"
    BY DEF Corners
  <2>2. above = S <=> \A k \in Corners : k \in above <=> k \in S
    OBVIOUS
  <2>3. (\A k \in Corners : k \in above <=> k \in S) <=>
          /\ "tl" \in above <=> "tl" \in S
          /\ "tr" \in above <=> "tr" \in S
          /\ "bl" \in above <=> "bl" \in S
          /\ "br" \in above <=> "br" \in S
    BY ONLY <2>1
  <2> QED
    BY <2>2, <2>3
<1>2. /\ "tl" # "tr" /\ "tl" # "bl" /\ "tl" # "br" /\ "tr" # "bl" /\ "tr" # "br" /\ "bl" # "br"
      /\ "tl" \in Corners /\ "tr" \in Corners /\ "bl" \in Corners /\ "br" \in Corners
  BY DEF Corners
<1>3. ASSUME NEW S \in SUBSET Corners
      PROVE  above \in {S, Corners \ S} <=>
               \/ ("tl" \in S <=> A) /\ ("tr" \in S <=> B) /\ ("bl" \in S <=> C) /\ ("br" \in S <=> D)
               \/ ("tl" \in S <=> ~A) /\ ("tr" \in S <=> ~B) /\ ("bl" \in S <=> ~C) /\ ("br" \in S <=> ~D)
  <2>1. Corners \ S \in SUBSET Corners
    OBVIOUS
  <2>2. above = Corners \ S <=> ("tl" \in S <=> ~A) /\ ("tr" \in S <=> ~B) /\ ("bl" \in S <=> ~C) /\ ("br" \in S <=> ~D)
    BY ONLY <1>1, <1>2, <2>1
  <2> QED
    BY ONLY <1>1, <2>2
<1>4. above \in {{}, Corners \ {}} <=> (A = B /\ C = D /\ A = C)
  <2>1. {} \in SUBSET Corners /\ "tl" \notin {} /\ "tr" \notin {} /\ "bl" \notin {} /\ "br" \notin {}
    BY ONLY <1>2
  <2> DEFINE S == {}
  <2> HIDE DEF S
  <2>2. above \in {S, Corners \ S} <=> (A = B /\ C = D /\ A = C)
    BY ONLY <1>3, <2>1, A \in BOOLEAN, B \in BOOLEAN, C \in BOOLEAN, D \in BOOLEAN DEF S
  <2> QED
    BY ONLY <2>2 DEF S
<1>5. above \in {{"bl"}, Corners \ {"bl"}} <=> (A = B /\ B = D /\ C # D)
  <2>1. {"bl"} \in SUBSET Corners /\ "tl" \notin {"bl"} /\ "tr" \notin {"bl"} /\ "bl" \in {"bl"} /\ "br" \notin {"bl"}
    BY ONLY <1>2
  <2> DEFINE S == {"bl"}
  <2> HIDE DEF S
  <2>2. above \in {S, Corners \ S} <=> (A = B /\ B = D /\ C # D)
    BY ONLY <1>3, <2>1, A \in BOOLEAN, B \in BOOLEAN, C \in BOOLEAN, D \in BOOLEAN DEF S
  <2> QED
    BY ONLY <2>2 DEF S
<1>6. above \in {{"br"}, Corners \ {"br"}} <=> (A = B /\ A = C /\ C # D)
  <2>1. {"br"} \in SUBSET Corners /\ "tl" \notin {"br"} /\ "tr" \notin {"br"} /\ "bl" \notin {"br"} /\ "br" \in {"br"}
    BY ONLY <1>2
  <2> DEFINE S == {"br"}
  <2> HIDE DEF S
  <2>2. above \in {S, Corners \ S} <=> (A = B /\ A = C /\ C # D)
    BY ONLY <1>3, <2>1, A \in BOOLEAN, B \in BOOLEAN, C \in BOOLEAN, D \in BOOLEAN DEF S
  <2> QED
    BY ONLY <2>2 DEF S
<1>7. above \in {{"bl", "br"}, Corners \ {"bl", "br"}} <=> (A = B /\ C = D /\ A # C)
  <2>1. {"bl", "br"} \in SUBSET Corners /\ "tl" \notin {"bl", "br"} /\ "tr" \notin {"bl", "br"} /\ "bl" \in {"bl", "br"} /\ "br" \in {"bl", "br"}
    BY ONLY <1>2
  <2> DEFINE S == {"bl", "br"}
  <2> HIDE DEF S
  <2>2. above \in {S, Corners \ S} <=> (A = B /\ C = D /\ A # C)
    BY ONLY <1>3, <2>1, A \in BOOLEAN, B \in BOOLEAN, C \in BOOLEAN, D \in BOOLEAN DEF S
  <2> QED
    BY ONLY <2>2 DEF S
<1>8. above \in {{"tr"}, Corners \ {"tr"}} <=> (A # B /\ C = D /\ A = C)
  <2>1. {"tr"} \in SUBSET Corners /\ "tl" \notin {"tr"} /\ "tr" \in {"tr"} /\ "bl" \notin {"tr"} /\ "br" \notin {"tr"}
    BY ONLY <1>2
  <2> DEFINE S == {"tr"}
  <2> HIDE DEF S
  <2>2. above \in {S, Corners \ S} <=> (A # B /\ C = D /\ A = C)
    BY ONLY <1>3, <2>1, A \in BOOLEAN, B \in BOOLEAN, C \in BOOLEAN, D \in BOOLEAN DEF S
  <2> QED
    BY ONLY <2>2 DEF S
<1>9. above \in {{"tr", "br"}, Corners \ {"tr", "br"}} <=> (A # B /\ C # D /\ A = C)
  <2>1. {"tr", "br"} \in SUBSET Corners /\ "tl" \notin {"tr", "br"} /\ "tr" \in {"tr", "br"} /\ "bl" \notin {"tr", "br"} /\ "br" \in {"tr", "br"}
    BY ONLY <1>2
  <2> DEFINE S == {"tr", "br"}
  <2> HIDE DEF S
  <2>2. above \in {S, Corners \ S} <=> (A # B /\ C # D /\ A = C)
    BY ONLY <1>3, <2>1, A \in BOOLEAN, B \in BOOLEAN, C \in BOOLEAN, D \in BOOLEAN DEF S
  <2> QED
    BY ONLY <2>2 DEF S
<1>10. above \in {{"tl"}, Corners \ {"tl"}} <=> (A # B /\ C = D /\ B = C)
  <2>1. {"tl"} \in SUBSET Corners /\ "tl" \in {"tl"} /\ "tr" \notin {"tl"} /\ "bl" \notin {"tl"} /\ "br" \notin {"tl"}
    BY ONLY <1>2
  <2> DEFINE S == {"tl"}
  <2> HIDE DEF S
  <2>2. above \in {S, Corners \ S} <=> (A # B /\ C = D /\ B = C)
    BY ONLY <1>3, <2>1, A \in BOOLEAN, B \in BOOLEAN, C \in BOOLEAN, D \in BOOLEAN DEF S
  <2> QED
    BY ONLY <2>2 DEF S
<1>11. above = {"tr", "bl"} <=> (~A /\ B /\ C /\ ~D)
  BY ONLY <1>1, <1>2
<1>12. above = {"tl", "br"} <=> (A /\ ~B /\ ~C /\ D)
  BY ONLY <1>1, <1>2
<1> QED
  BY ONLY <1>4, <1>5, <1>6, <1>7, <1>8, <1>9, <1>10, <1>11, <1>12

(* The segments through a cell join the places where the level crosses its *)
(* sides, each to one.                                                     *)
LEMMA MarchJoins ==
  ASSUME NEW level \in Int, NEW c \in CellRecords, c.north # c.south
  PROVE  Joined(Crossed(level, c), MarchCell(level, c), PointsOf(level, c))
<1> DEFINE Pt == PointsOf(level, c)
           above == {k \in Corners : c[k] > level}
           A == c.tl > level
           B == c.tr > level
           C == c.bl > level
           D == c.br > level
           Top == Pt["top"]
           Right == Pt["right"]
           Bottom == Pt["bottom"]
           Left == Pt["left"]
           high == c.tl + c.tr + c.bl + c.br > 4 * level
           falling == {<<Top, Left>>, <<Bottom, Right>>}
           rising == {<<Top, Right>>, <<Bottom, Left>>}
           M == MarchCell(level, c)
           Either(S) == above \in {S, Corners \ S}
<1>1. /\ Top = <<Crossing(level, c.tl, c.tr, c.west, c.east), c.north>>
      /\ Right = <<c.east, Crossing(level, c.tr, c.br, c.north, c.south)>>
      /\ Bottom = <<Crossing(level, c.bl, c.br, c.west, c.east), c.south>>
      /\ Left = <<c.west, Crossing(level, c.tl, c.bl, c.north, c.south)>>
  BY DEF PointsOf, Sides
<1>2. M = CASE Either({}) -> {}
            [] Either({"bl"}) -> {<<Left, Bottom>>}
            [] Either({"br"}) -> {<<Bottom, Right>>}
            [] Either({"bl", "br"}) -> {<<Left, Right>>}
            [] Either({"tr"}) -> {<<Top, Right>>}
            [] Either({"tr", "br"}) -> {<<Top, Bottom>>}
            [] Either({"tl"}) -> {<<Top, Left>>}
            [] above = {"tr", "bl"} -> IF high THEN falling ELSE rising
            [] above = {"tl", "br"} -> IF high THEN rising ELSE falling
  BY <1>1 DEF MarchCell
<1>3. Top # Bottom
  BY <1>1
<1>4. /\ "tl" \in above <=> A
      /\ "tr" \in above <=> B
      /\ "bl" \in above <=> C
      /\ "br" \in above <=> D
      /\ above \subseteq Corners
  BY DEF Corners
<1>5. /\ "top" \in Crossed(level, c) <=> (A # B)
      /\ "right" \in Crossed(level, c) <=> (B # D)
      /\ "bottom" \in Crossed(level, c) <=> (C # D)
      /\ "left" \in Crossed(level, c) <=> (A # C)
      /\ Crossed(level, c) \subseteq Sides
  BY DEF Crossed, Sides, Between
<1>6. A \in BOOLEAN /\ B \in BOOLEAN /\ C \in BOOLEAN /\ D \in BOOLEAN
  OBVIOUS
<1> DEFINE X == Crossed(level, c)
<1> HIDE DEF M, Top, Right, Bottom, Left, above, high, A, B, C, D, Pt, X
<1>7. /\ Either({}) <=> (A = B /\ C = D /\ A = C)
      /\ Either({"bl"}) <=> (A = B /\ B = D /\ C # D)
      /\ Either({"br"}) <=> (A = B /\ A = C /\ C # D)
      /\ Either({"bl", "br"}) <=> (A = B /\ C = D /\ A # C)
      /\ Either({"tr"}) <=> (A # B /\ C = D /\ A = C)
      /\ Either({"tr", "br"}) <=> (A # B /\ C # D /\ A = C)
      /\ Either({"tl"}) <=> (A # B /\ C = D /\ B = C)
      /\ above = {"tr", "bl"} <=> (~A /\ B /\ C /\ ~D)
      /\ above = {"tl", "br"} <=> (A /\ ~B /\ ~C /\ D)
  BY ONLY <1>4, <1>6, CornersAbove
<1>8. CASE A = B /\ C = D /\ A = C
  <2>1. M = {}
    BY ONLY <1>2, <1>7, <1>8
  <2>2. X = {}
    BY ONLY <1>5, <1>8 DEF Sides, X
  <2> QED
    BY <2>1, <2>2, JoinNone DEF X, M, Pt
<1>9. CASE A = B /\ B = D /\ C # D
  <2>1. M = {<<Left, Bottom>>}
    BY ONLY <1>2, <1>6, <1>7, <1>9
  <2>2. X = {"left", "bottom"}
    BY ONLY <1>5, <1>6, <1>9 DEF Sides, X
  <2>3. Joined({"left", "bottom"}, {<<Pt["left"], Pt["bottom"]>>}, Pt)
    BY ONLY "left" # "bottom", JoinOne
  <2> QED
    BY <2>1, <2>2, <2>3 DEF X, M, Pt, Left, Bottom
<1>10. CASE A = B /\ A = C /\ C # D
  <2>1. M = {<<Bottom, Right>>}
    BY ONLY <1>2, <1>6, <1>7, <1>10
  <2>2. X = {"bottom", "right"}
    BY ONLY <1>5, <1>6, <1>10 DEF Sides, X
  <2>3. Joined({"bottom", "right"}, {<<Pt["bottom"], Pt["right"]>>}, Pt)
    BY ONLY "bottom" # "right", JoinOne
  <2> QED
    BY <2>1, <2>2, <2>3 DEF X, M, Pt, Right, Bottom
<1>11. CASE A = B /\ C = D /\ A # C
  <2>1. M = {<<Left, Right>>}
    BY ONLY <1>2, <1>6, <1>7, <1>11
  <2>2. X = {"left", "right"}
    BY ONLY <1>5, <1>6, <1>11 DEF Sides, X
  <2>3. Joined({"left", "right"}, {<<Pt["left"], Pt["right"]>>}, Pt)
    BY ONLY "left" # "right", JoinOne
  <2> QED
    BY <2>1, <2>2, <2>3 DEF X, M, Pt, Left, Right
<1>12. CASE A # B /\ C = D /\ A = C
  <2>1. M = {<<Top, Right>>}
    BY ONLY <1>2, <1>6, <1>7, <1>12
  <2>2. X = {"top", "right"}
    BY ONLY <1>5, <1>6, <1>12 DEF Sides, X
  <2>3. Joined({"top", "right"}, {<<Pt["top"], Pt["right"]>>}, Pt)
    BY ONLY "top" # "right", JoinOne
  <2> QED
    BY <2>1, <2>2, <2>3 DEF X, M, Pt, Top, Right
<1>13. CASE A # B /\ C # D /\ A = C
  <2>1. M = {<<Top, Bottom>>}
    BY ONLY <1>2, <1>6, <1>7, <1>13
  <2>2. X = {"top", "bottom"}
    BY ONLY <1>5, <1>6, <1>13 DEF Sides, X
  <2>3. Joined({"top", "bottom"}, {<<Pt["top"], Pt["bottom"]>>}, Pt)
    BY ONLY "top" # "bottom", JoinOne
  <2> QED
    BY <2>1, <2>2, <2>3 DEF X, M, Pt, Top, Bottom
<1>14. CASE A # B /\ C = D /\ B = C
  <2>1. M = {<<Top, Left>>}
    BY ONLY <1>2, <1>6, <1>7, <1>14
  <2>2. X = {"top", "left"}
    BY ONLY <1>5, <1>6, <1>14 DEF Sides, X
  <2>3. Joined({"top", "left"}, {<<Pt["top"], Pt["left"]>>}, Pt)
    BY ONLY "top" # "left", JoinOne
  <2> QED
    BY <2>1, <2>2, <2>3 DEF X, M, Pt, Top, Left
<1>15. CASE A # B /\ C # D /\ A # C
  <2>1. M = falling \/ M = rising
    BY ONLY <1>2, <1>6, <1>7, <1>15
  <2>2. X = {"top", "left", "bottom", "right"} /\ X = {"top", "right", "bottom", "left"}
    BY ONLY <1>5, <1>6, <1>15 DEF Sides, X
  <2>3. /\ "top" # "left" /\ "top" # "bottom" /\ "top" # "right"
        /\ "left" # "bottom" /\ "left" # "right" /\ "bottom" # "right"
    OBVIOUS
  <2>4. Pt["top"] # Pt["bottom"]
    BY <1>3 DEF Top, Bottom
  <2>5. Joined({"top", "left", "bottom", "right"}, {<<Pt["top"], Pt["left"]>>, <<Pt["bottom"], Pt["right"]>>}, Pt)
    BY ONLY <2>3, <2>4, JoinTwo
  <2>6. Joined({"top", "right", "bottom", "left"}, {<<Pt["top"], Pt["right"]>>, <<Pt["bottom"], Pt["left"]>>}, Pt)
    BY ONLY <2>3, <2>4, JoinTwo
  <2> QED
    BY <2>1, <2>2, <2>5, <2>6 DEF X, M, Pt, Top, Bottom, Left, Right
<1>16. \/ A = B /\ C = D /\ A = C
       \/ A = B /\ B = D /\ C # D
       \/ A = B /\ A = C /\ C # D
       \/ A = B /\ C = D /\ A # C
       \/ A # B /\ C = D /\ A = C
       \/ A # B /\ C # D /\ A = C
       \/ A # B /\ C = D /\ B = C
       \/ A # B /\ C # D /\ A # C
  BY ONLY <1>6
<1> QED
  BY <1>8, <1>9, <1>10, <1>11, <1>12, <1>13, <1>14, <1>15, <1>16

-----------------------------------------------------------------------------
(* The edges of a grid: across from a point to the next one east, and down *)
(* to the next one south.                                                  *)
Grids == {g \in [nx : Nat, ny : Nat, lo1 : Int, la1 : Int, dx : Nat \ {0}, dy : Nat \ {0}] :
            (g.nx - 1) * g.dx < 360}

FieldAt(g, v, i, j) == v[j * g.nx + i + 1]
CellOf(g, v, at) == CellAt([grid |-> g, values |-> v], at[1], at[2])

EdgeOf(at, e) ==
  [down |-> e \in {"left", "right"},
   x |-> IF e = "right" THEN at[1] + 1 ELSE at[1],
   y |-> IF e = "bottom" THEN at[2] + 1 ELSE at[2]]

NextAlong(g, v, edge) ==
  IF edge.down THEN FieldAt(g, v, edge.x, edge.y + 1) ELSE FieldAt(g, v, edge.x + 1, edge.y)
EdgeCrossed(level, g, v, edge) == Between(level, FieldAt(g, v, edge.x, edge.y), NextAlong(g, v, edge))
EdgePlace(level, g, v, edge) ==
  LET along == Shift(level, FieldAt(g, v, edge.x, edge.y), NextAlong(g, v, edge),
                     IF edge.down THEN -g.dy ELSE g.dx)
  IN <<g.lo1 + edge.x * g.dx + IF edge.down THEN 0 ELSE along,
       g.la1 - edge.y * g.dy + IF edge.down THEN along ELSE 0>>

(* A place as one east of the grid's first meridian.                       *)
PlaceIn(g, q) == <<IF q[1] < g.lo1 THEN q[1] + 360 ELSE q[1], q[2]>>

(* A valid cell has its corners and its edges from the grid.               *)
LEMMA CellIs ==
  ASSUME NEW g \in Grids, NEW v, NEW i \in Int, NEW j \in Int, CellIsValid(CellOf(g, v, <<i, j>>))
  PROVE  LET c == CellOf(g, v, <<i, j>>) IN
         /\ c \in CellRecords /\ c.south = c.north - g.dy /\ c.east = c.west + g.dx
         /\ c.tl = FieldAt(g, v, i, j) /\ c.tr = FieldAt(g, v, i + 1, j)
         /\ c.bl = FieldAt(g, v, i, j + 1) /\ c.br = FieldAt(g, v, i + 1, j + 1)
         /\ c.west = ShiftLon(g.lo1 + i * g.dx) /\ c.north = g.la1 - j * g.dy
<1> DEFINE c == CellOf(g, v, <<i, j>>)
           west == ShiftLon(g.lo1 + i * g.dx)
           north == g.la1 - j * g.dy
           south == g.la1 - (j + 1) * g.dy
<1>1. g.nx \in Nat /\ g.lo1 \in Int /\ g.la1 \in Int /\ g.dx \in Nat /\ g.dy \in Nat
  BY DEF Grids
<1>2. west \in Int
  BY <1>1 DEF ShiftLon
<1>3. north \in Int /\ south \in Int /\ south = north - g.dy
  BY <1>1
<1> HIDE DEF west, north, south
<1>4. c = [tl |-> FieldAt(g, v, i, j), tr |-> FieldAt(g, v, i + 1, j),
           bl |-> FieldAt(g, v, i, j + 1), br |-> FieldAt(g, v, i + 1, j + 1),
           west |-> west, east |-> west + g.dx, north |-> north, south |-> south]
  BY DEF CellOf, CellAt, CellBetween, At, FieldAt, west, north, south
<1> HIDE DEF c
<1>5. \A k \in Corners : c[k] \in Int
  BY IsobarsAssumption DEF CellIsValid, Valid, c
<1>6. c.tl \in Int /\ c.tr \in Int /\ c.bl \in Int /\ c.br \in Int
  BY <1>4, <1>5 DEF Corners
<1>7. c \in CellRecords
  BY <1>1, <1>2, <1>3, <1>4, <1>6 DEF CellRecords
<1> QED
  BY <1>3, <1>4, <1>7 DEF c, west, north

(* Where a meridian of the grid is, brought to a side of the globe.        *)
LEMMA MeridianIs ==
  ASSUME NEW g \in Grids, NEW d \in Int, NEW m \in Int, NEW east \in Int,
         0 <= d, d < 360, d - m \in Int, 0 <= d - m,
         east = ShiftLon(g.lo1 + d - m) + m, 0 <= m
  PROVE  (IF east < g.lo1 THEN east + 360 ELSE east) = g.lo1 + d
<1>1. g.lo1 \in Int
  BY DEF Grids
<1> QED
  BY <1>1 DEF ShiftLon

(* A level crosses a side as it crosses the edge, there and within the     *)
(* cell.                                                                   *)
LEMMA SidesAreEdges ==
  ASSUME NEW g \in Grids, NEW v, NEW i \in 0 .. g.nx - 2, NEW j \in 0 .. g.ny - 2,
         CellIsValid(CellOf(g, v, <<i, j>>)), NEW level \in Int, NEW e \in Sides
  PROVE  LET c == CellOf(g, v, <<i, j>>)
             edge == EdgeOf(<<i, j>>, e)
             point == PointsOf(level, c)[e]
         IN /\ e \in Crossed(level, c) <=> EdgeCrossed(level, g, v, edge)
            /\ e \in Crossed(level, c) =>
                 /\ PlaceIn(g, point) = EdgePlace(level, g, v, edge)
                 /\ point \in Int \X Int
                 /\ c.west <= point[1] /\ point[1] <= c.west + g.dx
                 /\ c.north - g.dy <= point[2] /\ point[2] <= c.north
<1> DEFINE c == CellOf(g, v, <<i, j>>)
           edge == EdgeOf(<<i, j>>, e)
           point == PointsOf(level, c)[e]
           a == FieldAt(g, v, edge.x, edge.y)
           b == NextAlong(g, v, edge)
           x == i * g.dx
<1>1. g.nx \in Nat /\ g.ny \in Nat /\ g.lo1 \in Int /\ g.la1 \in Int /\ g.dx \in Nat /\ g.dy \in Nat /\ (g.nx - 1) * g.dx < 360
  BY DEF Grids
<1>2. /\ c \in CellRecords /\ c.south = c.north - g.dy /\ c.east = c.west + g.dx
      /\ c.tl = FieldAt(g, v, i, j) /\ c.tr = FieldAt(g, v, i + 1, j)
      /\ c.bl = FieldAt(g, v, i, j + 1) /\ c.br = FieldAt(g, v, i + 1, j + 1)
      /\ c.west = ShiftLon(g.lo1 + x) /\ c.north = g.la1 - j * g.dy
  BY CellIs
<1>3. x \in Int /\ 0 <= x /\ x + g.dx < 360 /\ (i + 1) * g.dx = x + g.dx
  <2>1. (i + 1) * g.dx <= (g.nx - 1) * g.dx /\ (i + 1) * g.dx = i * g.dx + g.dx /\ 0 <= i * g.dx /\ i * g.dx \in Int
    <3>1. i \in Int /\ 0 <= i /\ i + 1 <= g.nx - 1
      BY <1>1
    <3> QED
      BY ONLY <1>1, <3>1
  <2> QED
    BY <1>1, <2>1
<1>4. (j + 1) * g.dy = j * g.dy + g.dy /\ j * g.dy \in Int
  BY <1>1
<1>5. /\ c.tl \in Int /\ c.tr \in Int /\ c.bl \in Int /\ c.br \in Int
      /\ c.west \in Int /\ c.east \in Int /\ c.north \in Int /\ c.south \in Int
  BY <1>2 DEF CellRecords
<1> HIDE DEF c, x
<1>6. \A d, m \in Int : 0 <= d /\ d < 360 /\ 0 <= m /\ 0 <= d - m /\ d - m = x =>
        PlaceIn(g, <<c.west + m, 0>>)[1] = g.lo1 + d
  <2> TAKE d \in Int, m \in Int
  <2> HAVE 0 <= d /\ d < 360 /\ 0 <= m /\ 0 <= d - m /\ d - m = x
  <2>1. c.west + m = ShiftLon(g.lo1 + d - m) + m /\ c.west + m \in Int
    <3>1. g.lo1 + d - m = g.lo1 + x
      BY <1>1, <1>3
    <3> QED
      BY <1>2, <1>5, <3>1
  <2> QED
    BY <2>1, MeridianIs DEF PlaceIn
<1>7. \A q : PlaceIn(g, q) = <<PlaceIn(g, <<q[1], 0>>)[1], q[2]>>
  BY DEF PlaceIn
<1>8. CASE e = "top"
  <2>1. /\ edge.down = FALSE /\ edge.x = i /\ edge.y = j
        /\ a = c.tl /\ b = c.tr
    <3>1. edge = [down |-> FALSE, x |-> i, y |-> j]
      <4>1. (e \in {"left", "right"}) = FALSE
        BY ONLY <1>8
      <4> QED
        BY ONLY <1>8, <4>1 DEF EdgeOf
    <3> HIDE DEF edge
    <3> QED
      BY <1>2, <3>1 DEF NextAlong
  <2>2. point = <<Crossing(level, c.tl, c.tr, c.west, c.east), c.north>>
    BY <1>8 DEF PointsOf, Sides
  <2>3. e \in Crossed(level, c) <=> Between(level, a, b)
    BY <1>8, <2>1 DEF Crossed, Sides
  <2> DEFINE s == Shift(level, a, b, g.dx)
  <2>4. EdgePlace(level, g, v, edge) = <<g.lo1 + i * g.dx + s, g.la1 - j * g.dy + 0>>
    BY <2>1 DEF EdgePlace
  <2> HIDE DEF point, a, b, edge
  <2>5. ASSUME Between(level, a, b)
        PROVE  s \in Int /\ 0 <= s /\ s <= g.dx /\ point = <<c.west + s, c.north>>
    <3>1. c.east - c.west = g.dx
      BY <1>1, <1>2, <1>5
    <3>2. a \in Int /\ b \in Int /\ c.west \in Int /\ c.east \in Int /\ g.dx \in Int
      BY <1>1, <1>5, <2>1
    <3>3. s \in Int /\ 0 <= s /\ s <= g.dx /\ Crossing(level, a, b, c.west, c.east) = c.west + s
      <4>1. 0 <= g.dx
        BY <1>1
      <4>2. s \in Int /\ (0 <= g.dx => 0 <= s /\ s <= g.dx) /\ (g.dx <= 0 => g.dx <= s /\ s <= 0)
        BY ONLY <2>5, <3>2, level \in Int, ShiftIs DEF s
      <4>3. \A from, to \in Int : to - from = g.dx => Crossing(level, a, b, from, to) = from + s
        BY ONLY <2>5, <3>2, level \in Int, ShiftIs DEF s
      <4> QED
        BY ONLY <3>1, <3>2, <4>1, <4>2, <4>3
    <3> QED
      BY <2>1, <2>2, <3>3
  <2> HIDE DEF s
  <2>6. ASSUME Between(level, a, b)
        PROVE  PlaceIn(g, point) = EdgePlace(level, g, v, edge) /\ point \in Int \X Int
    <3>1. PlaceIn(g, <<c.west + s, 0>>)[1] = g.lo1 + (x + s)
      BY <1>1, <1>3, <1>6, <2>5, <2>6
    <3>2. g.lo1 + (x + s) = g.lo1 + i * g.dx + s /\ c.north = g.la1 - j * g.dy + 0
      BY <1>1, <1>2, <1>3, <1>4, <2>5, <2>6 DEF x
    <3> QED
      BY <1>5, <1>7, <2>4, <2>5, <2>6, <3>1, <3>2
  <2> QED
    BY <1>1, <1>5, <2>3, <2>5, <2>6 DEF EdgeCrossed, a, b, c, point, edge
<1>9. CASE e = "bottom"
  <2>1. /\ edge.down = FALSE /\ edge.x = i /\ edge.y = j + 1
        /\ a = c.bl /\ b = c.br
    <3>1. edge = [down |-> FALSE, x |-> i, y |-> j + 1]
      <4>1. (e \in {"left", "right"}) = FALSE
        BY ONLY <1>9
      <4> QED
        BY ONLY <1>9, <4>1 DEF EdgeOf
    <3> HIDE DEF edge
    <3> QED
      BY <1>2, <3>1 DEF NextAlong
  <2>2. point = <<Crossing(level, c.bl, c.br, c.west, c.east), c.south>>
    BY <1>9 DEF PointsOf, Sides
  <2>3. e \in Crossed(level, c) <=> Between(level, a, b)
    BY <1>9, <2>1 DEF Crossed, Sides
  <2> DEFINE s == Shift(level, a, b, g.dx)
  <2>4. EdgePlace(level, g, v, edge) = <<g.lo1 + i * g.dx + s, g.la1 - (j + 1) * g.dy + 0>>
    BY <2>1 DEF EdgePlace
  <2> HIDE DEF point, a, b, edge
  <2>5. ASSUME Between(level, a, b)
        PROVE  s \in Int /\ 0 <= s /\ s <= g.dx /\ point = <<c.west + s, c.south>>
    <3>1. c.east - c.west = g.dx
      BY <1>1, <1>2, <1>5
    <3>2. a \in Int /\ b \in Int /\ c.west \in Int /\ c.east \in Int /\ g.dx \in Int
      BY <1>1, <1>5, <2>1
    <3>3. s \in Int /\ 0 <= s /\ s <= g.dx /\ Crossing(level, a, b, c.west, c.east) = c.west + s
      <4>1. 0 <= g.dx
        BY <1>1
      <4>2. s \in Int /\ (0 <= g.dx => 0 <= s /\ s <= g.dx) /\ (g.dx <= 0 => g.dx <= s /\ s <= 0)
        BY ONLY <2>5, <3>2, level \in Int, ShiftIs DEF s
      <4>3. \A from, to \in Int : to - from = g.dx => Crossing(level, a, b, from, to) = from + s
        BY ONLY <2>5, <3>2, level \in Int, ShiftIs DEF s
      <4> QED
        BY ONLY <3>1, <3>2, <4>1, <4>2, <4>3
    <3> QED
      BY <2>1, <2>2, <3>3
  <2> HIDE DEF s
  <2>6. ASSUME Between(level, a, b)
        PROVE  PlaceIn(g, point) = EdgePlace(level, g, v, edge) /\ point \in Int \X Int
    <3>1. PlaceIn(g, <<c.west + s, 0>>)[1] = g.lo1 + (x + s)
      BY <1>1, <1>3, <1>6, <2>5, <2>6
    <3>2. g.lo1 + (x + s) = g.lo1 + i * g.dx + s /\ c.south = g.la1 - (j + 1) * g.dy + 0
      BY <1>1, <1>2, <1>3, <1>4, <2>5, <2>6 DEF x
    <3> QED
      BY <1>5, <1>7, <2>4, <2>5, <2>6, <3>1, <3>2
  <2> QED
    BY <1>1, <1>2, <1>5, <2>3, <2>5, <2>6 DEF EdgeCrossed, a, b, c, point, edge
<1>10. CASE e = "left"
  <2>1. /\ edge.down = TRUE /\ edge.x = i /\ edge.y = j
        /\ a = c.tl /\ b = c.bl
    <3>1. edge = [down |-> TRUE, x |-> i, y |-> j]
      <4>1. (e \in {"left", "right"}) = TRUE
        BY ONLY <1>10
      <4> QED
        BY ONLY <1>10, <4>1 DEF EdgeOf
    <3> HIDE DEF edge
    <3> QED
      BY <1>2, <3>1 DEF NextAlong
  <2>2. point = <<c.west, Crossing(level, c.tl, c.bl, c.north, c.south)>>
    BY <1>10 DEF PointsOf, Sides
  <2>3. e \in Crossed(level, c) <=> Between(level, a, b)
    BY <1>10, <2>1 DEF Crossed, Sides
  <2> DEFINE s == Shift(level, a, b, -g.dy)
  <2>4. EdgePlace(level, g, v, edge) = <<g.lo1 + i * g.dx + 0, g.la1 - j * g.dy + s>>
    BY <2>1 DEF EdgePlace
  <2> HIDE DEF point, a, b, edge
  <2>5. ASSUME Between(level, a, b)
        PROVE  s \in Int /\ s <= 0 /\ -g.dy <= s /\ point = <<c.west, c.north + s>>
    <3>1. c.south - c.north = -g.dy /\ -g.dy \in Int /\ -g.dy <= 0
      BY <1>1, <1>2, <1>5
    <3>2. a \in Int /\ b \in Int /\ c.north \in Int /\ c.south \in Int /\ -g.dy \in Int
      BY <1>1, <1>5, <2>1
    <3>3. s \in Int /\ s <= 0 /\ -g.dy <= s /\ Crossing(level, a, b, c.north, c.south) = c.north + s
      <4>1. -g.dy <= 0
        BY <1>1
      <4>2. s \in Int /\ (0 <= -g.dy => 0 <= s /\ s <= -g.dy) /\ (-g.dy <= 0 => -g.dy <= s /\ s <= 0)
        BY ONLY <2>5, <3>2, level \in Int, ShiftIs DEF s
      <4>3. \A from, to \in Int : to - from = -g.dy => Crossing(level, a, b, from, to) = from + s
        BY ONLY <2>5, <3>2, level \in Int, ShiftIs DEF s
      <4> QED
        BY ONLY <3>1, <3>2, <4>1, <4>2, <4>3
    <3> QED
      BY <2>1, <2>2, <3>3
  <2> HIDE DEF s
  <2>6. ASSUME Between(level, a, b)
        PROVE  PlaceIn(g, point) = EdgePlace(level, g, v, edge) /\ point \in Int \X Int
    <3>1. PlaceIn(g, <<c.west + 0, 0>>)[1] = g.lo1 + x
      BY <1>1, <1>3, <1>6
    <3>2. g.lo1 + x = g.lo1 + i * g.dx + 0 /\ c.north + s = g.la1 - j * g.dy + s /\ c.west + 0 = c.west
      BY <1>1, <1>2, <1>3, <1>4, <1>5, <2>5, <2>6 DEF x
    <3> QED
      BY <1>5, <1>7, <2>4, <2>5, <2>6, <3>1, <3>2
  <2> QED
    BY <1>1, <1>5, <2>3, <2>5, <2>6 DEF EdgeCrossed, a, b, c, point, edge
<1>11. CASE e = "right"
  <2>1. /\ edge.down = TRUE /\ edge.x = i + 1 /\ edge.y = j
        /\ a = c.tr /\ b = c.br
    <3>1. edge = [down |-> TRUE, x |-> i + 1, y |-> j]
      <4>1. (e \in {"left", "right"}) = TRUE
        BY ONLY <1>11
      <4> QED
        BY ONLY <1>11, <4>1 DEF EdgeOf
    <3> HIDE DEF edge
    <3> QED
      BY <1>2, <3>1 DEF NextAlong
  <2>2. point = <<c.east, Crossing(level, c.tr, c.br, c.north, c.south)>>
    BY <1>11 DEF PointsOf, Sides
  <2>3. e \in Crossed(level, c) <=> Between(level, a, b)
    BY <1>11, <2>1 DEF Crossed, Sides
  <2> DEFINE s == Shift(level, a, b, -g.dy)
  <2>4. EdgePlace(level, g, v, edge) = <<g.lo1 + (i + 1) * g.dx + 0, g.la1 - j * g.dy + s>>
    BY <2>1 DEF EdgePlace
  <2> HIDE DEF point, a, b, edge
  <2>5. ASSUME Between(level, a, b)
        PROVE  s \in Int /\ s <= 0 /\ -g.dy <= s /\ point = <<c.east, c.north + s>>
    <3>1. c.south - c.north = -g.dy /\ -g.dy \in Int /\ -g.dy <= 0
      BY <1>1, <1>2, <1>5
    <3>2. a \in Int /\ b \in Int /\ c.north \in Int /\ c.south \in Int /\ -g.dy \in Int
      BY <1>1, <1>5, <2>1
    <3>3. s \in Int /\ s <= 0 /\ -g.dy <= s /\ Crossing(level, a, b, c.north, c.south) = c.north + s
      <4>1. -g.dy <= 0
        BY <1>1
      <4>2. s \in Int /\ (0 <= -g.dy => 0 <= s /\ s <= -g.dy) /\ (-g.dy <= 0 => -g.dy <= s /\ s <= 0)
        BY ONLY <2>5, <3>2, level \in Int, ShiftIs DEF s
      <4>3. \A from, to \in Int : to - from = -g.dy => Crossing(level, a, b, from, to) = from + s
        BY ONLY <2>5, <3>2, level \in Int, ShiftIs DEF s
      <4> QED
        BY ONLY <3>1, <3>2, <4>1, <4>2, <4>3
    <3> QED
      BY <2>1, <2>2, <3>3
  <2> HIDE DEF s
  <2>6. ASSUME Between(level, a, b)
        PROVE  PlaceIn(g, point) = EdgePlace(level, g, v, edge) /\ point \in Int \X Int
    <3>1. PlaceIn(g, <<c.west + g.dx, 0>>)[1] = g.lo1 + (x + g.dx)
      BY <1>1, <1>3, <1>6
    <3>2. g.lo1 + (x + g.dx) = g.lo1 + (i + 1) * g.dx + 0 /\ c.north + s = g.la1 - j * g.dy + s
      BY <1>1, <1>2, <1>3, <1>4, <1>5, <2>5, <2>6
    <3> QED
      BY <1>2, <1>5, <1>7, <2>4, <2>5, <2>6, <3>1, <3>2
  <2> QED
    BY <1>1, <1>2, <1>5, <2>3, <2>5, <2>6 DEF EdgeCrossed, a, b, c, point, edge
<1> QED
  BY <1>8, <1>9, <1>10, <1>11 DEF Sides

(* No segment of a cell is too long, so all of a valid cell are kept.      *)
LEMMA SegmentsJoin ==
  ASSUME NEW g \in Grids, NEW v, NEW i \in 0 .. g.nx - 2, NEW j \in 0 .. g.ny - 2,
         CellIsValid(CellOf(g, v, <<i, j>>)), NEW level \in Int
  PROVE  LET c == CellOf(g, v, <<i, j>>)
         IN Joined(Crossed(level, c), LevelSegments(level, c, g), PointsOf(level, c))
<1> DEFINE c == CellOf(g, v, <<i, j>>)
           C == Crossed(level, c)
           M == MarchCell(level, c)
           Pt == PointsOf(level, c)
<1>1. g.nx \in Nat /\ g.ny \in Nat /\ g.dx \in Nat \ {0} /\ g.dy \in Nat \ {0}
  BY DEF Grids
<1>2. c \in CellRecords /\ c.south = c.north - g.dy
  BY CellIs
<1>3. c.north \in Int /\ c.west \in Int /\ c.north # c.south
  BY <1>1, <1>2 DEF CellRecords
<1>4. \A e \in C : /\ Pt[e] \in Int \X Int
                   /\ c.west <= Pt[e][1] /\ Pt[e][1] <= c.west + g.dx
                   /\ c.north - g.dy <= Pt[e][2] /\ Pt[e][2] <= c.north
  <2>1. C \subseteq Sides
    BY DEF Crossed
  <2> QED
    BY <2>1, SidesAreEdges
<1>5. Joined(C, M, Pt)
  BY <1>2, <1>3, MarchJoins
<1>6. CellIsValid(c)
  OBVIOUS
<1>7. LevelSegments(level, c, g) = {s \in M : ~TooLong(s, g)}
  BY <1>6 DEF LevelSegments
<1> HIDE DEF c, C, M, Pt
<1>8. ASSUME NEW s \in M PROVE ~TooLong(s, g)
  <2>1. PICK f \in Bijection(M \X {1, 2}, C) : \A end \in M \X {1, 2} : end[1][end[2]] = Pt[f[end]]
    BY <1>5 DEF Joined
  <2>2. f \in [M \X {1, 2} -> C]
    BY <2>1 DEF Bijection, Injection
  <2>3. <<s, 1>> \in M \X {1, 2} /\ <<s, 2>> \in M \X {1, 2}
    OBVIOUS
  <2>4. s[1] = Pt[f[<<s, 1>>]] /\ s[2] = Pt[f[<<s, 2>>]] /\ f[<<s, 1>>] \in C /\ f[<<s, 2>>] \in C
    BY <2>1, <2>2, <2>3
  <2>5. \A k \in {1, 2} : /\ s[k][1] \in Int /\ c.west <= s[k][1] /\ s[k][1] <= c.west + g.dx
                          /\ s[k][2] \in Int /\ c.north - g.dy <= s[k][2] /\ s[k][2] <= c.north
    BY <1>4, <2>4
  <2> QED
    BY <1>1, <1>3, <2>5 DEF TooLong
<1> QED
  BY <1>5, <1>7, <1>8 DEF c, C, M, Pt

-----------------------------------------------------------------------------
(* The ends of segments that are at p, and the sides that are crossed at p.*)
EndsIn(level, g, v, p, at) ==
  {end \in LevelSegments(level, CellOf(g, v, at), g) \X {1, 2} : PlaceIn(g, end[1][end[2]]) = p}
EndsAt(level, g, v, p) == UNION {{at} \X EndsIn(level, g, v, p, at) : at \in GridCells(g)}
SidesAt(level, g, v, p) ==
  {x \in GridCells(g) \X Sides :
     /\ CellIsValid(CellOf(g, v, x[1]))
     /\ EdgeCrossed(level, g, v, EdgeOf(x[1], x[2]))
     /\ EdgePlace(level, g, v, EdgeOf(x[1], x[2])) = p}

(* The ends at a point are the sides crossed there, one each.              *)
LEMMA EndsAreSides ==
  ASSUME NEW g \in Grids, NEW v, NEW level \in Int, NEW p
  PROVE  Bijection(EndsAt(level, g, v, p), SidesAt(level, g, v, p)) # {}
<1> DEFINE G == GridCells(g)
           c(at) == CellOf(g, v, at)
           Segs(at) == LevelSegments(level, c(at), g)
           C(at) == Crossed(level, c(at))
           Pt(at) == PointsOf(level, c(at))
           A == EndsAt(level, g, v, p)
           B == SidesAt(level, g, v, p)
           Fits(at, f) == /\ f \in Bijection(Segs(at) \X {1, 2}, C(at))
                          /\ \A end \in Segs(at) \X {1, 2} : end[1][end[2]] = Pt(at)[f[end]]
           join(at) == CHOOSE f : Fits(at, f)
           h == [y \in A |-> <<y[1], join(y[1])[y[2]]>>]
<1>1. ASSUME NEW at \in G
      PROVE  \E i \in 0 .. g.nx - 2, j \in 0 .. g.ny - 2 : at = <<i, j>>
  BY DEF GridCells
<1>2. ASSUME NEW at \in G, CellIsValid(c(at))
      PROVE  /\ Fits(at, join(at))
             /\ \A e \in Sides : /\ e \in C(at) <=> EdgeCrossed(level, g, v, EdgeOf(at, e))
                                 /\ e \in C(at) => PlaceIn(g, Pt(at)[e]) = EdgePlace(level, g, v, EdgeOf(at, e))
             /\ C(at) \subseteq Sides
  <2>1. PICK i \in 0 .. g.nx - 2, j \in 0 .. g.ny - 2 : at = <<i, j>>
    BY <1>1
  <2>2. Joined(C(at), Segs(at), Pt(at))
    BY <1>2, <2>1, SegmentsJoin
  <2>3. \E f : Fits(at, f)
    BY <2>2 DEF Joined
  <2>4. \A e \in Sides : /\ e \in C(at) <=> EdgeCrossed(level, g, v, EdgeOf(at, e))
                         /\ e \in C(at) => PlaceIn(g, Pt(at)[e]) = EdgePlace(level, g, v, EdgeOf(at, e))
    BY <1>2, <2>1, SidesAreEdges
  <2>5. C(at) \subseteq Sides
    BY DEF Crossed
  <2>6. Fits(at, join(at))
    BY ONLY <2>3
  <2> QED
    BY ONLY <2>4, <2>5, <2>6
<1>3. \A at \in G : ~CellIsValid(c(at)) => Segs(at) = {}
  BY DEF LevelSegments
<1>4. \A y : y \in A <=> \E at \in G : \E end \in Segs(at) \X {1, 2} : y = <<at, end>> /\ PlaceIn(g, end[1][end[2]]) = p
  BY DEF EndsAt, EndsIn
<1>5. \A x : x \in B <=> \E at \in G, e \in Sides :
               /\ x = <<at, e>> /\ CellIsValid(c(at))
               /\ EdgeCrossed(level, g, v, EdgeOf(at, e)) /\ EdgePlace(level, g, v, EdgeOf(at, e)) = p
  BY DEF SidesAt
<1> HIDE DEF G, c, Segs, C, Pt, A, B, join
<1>6. ASSUME NEW at \in G, CellIsValid(c(at))
      PROVE  /\ join(at) \in [Segs(at) \X {1, 2} -> C(at)]
             /\ \A x, y \in Segs(at) \X {1, 2} : join(at)[x] = join(at)[y] => x = y
             /\ \A e \in C(at) : \E x \in Segs(at) \X {1, 2} : join(at)[x] = e
             /\ \A end \in Segs(at) \X {1, 2} : end[1][end[2]] = Pt(at)[join(at)[end]]
  BY <1>2, <1>6 DEF Bijection, Injection, Surjection, IsInjective
<1>7. ASSUME NEW y \in A
      PROVE  /\ y = <<y[1], y[2]>> /\ y[1] \in G /\ CellIsValid(c(y[1])) /\ y[2] \in Segs(y[1]) \X {1, 2}
             /\ h[y] = <<y[1], join(y[1])[y[2]]>> /\ h[y] \in B
  <2>1. PICK at \in G : \E end \in Segs(at) \X {1, 2} : y = <<at, end>> /\ PlaceIn(g, end[1][end[2]]) = p
    BY <1>4
  <2>2. PICK end \in Segs(at) \X {1, 2} : y = <<at, end>> /\ PlaceIn(g, end[1][end[2]]) = p
    BY <2>1
  <2>3. y[1] = at /\ y[2] = end /\ CellIsValid(c(at))
    BY <1>3, <2>2
  <2> DEFINE e == join(at)[end]
  <2>4. h[y] = <<at, e>>
    BY <2>3
  <2>5. e \in C(at) /\ end[1][end[2]] = Pt(at)[e]
    <3>1. /\ join(at) \in [Segs(at) \X {1, 2} -> C(at)]
          /\ \A x \in Segs(at) \X {1, 2} : x[1][x[2]] = Pt(at)[join(at)[x]]
      BY ONLY <1>6, <2>3, at \in G
    <3> QED
      BY ONLY <3>1, end \in Segs(at) \X {1, 2}
  <2> HIDE DEF e, h
  <2>6. e \in Sides /\ EdgeCrossed(level, g, v, EdgeOf(at, e)) /\ EdgePlace(level, g, v, EdgeOf(at, e)) = p
    BY <1>2, <2>2, <2>3, <2>5
  <2>7. <<at, e>> \in B
    BY <1>5, <2>3, <2>6
  <2> QED
    BY <2>2, <2>3, <2>4, <2>7 DEF e
<1>8. h \in [A -> B]
  BY <1>7
<1>9. ASSUME NEW y \in A, NEW z \in A, h[y] = h[z] PROVE y = z
  <2>1. /\ y = <<y[1], y[2]>> /\ y[1] \in G /\ CellIsValid(c(y[1])) /\ y[2] \in Segs(y[1]) \X {1, 2}
        /\ h[y] = <<y[1], join(y[1])[y[2]]>>
    BY <1>7
  <2>2. /\ z = <<z[1], z[2]>> /\ z[2] \in Segs(z[1]) \X {1, 2}
        /\ h[z] = <<z[1], join(z[1])[z[2]]>>
    BY <1>7
  <2> HIDE DEF h
  <2> DEFINE d == join(y[1])[y[2]]
             e == join(z[1])[z[2]]
  <2>3. y[1] = z[1] /\ d = e
    <3>1. h[y] = <<y[1], d>> /\ h[z] = <<z[1], e>>
      BY ONLY <2>1, <2>2
    <3>2. <<y[1], d>> = <<z[1], e>>
      BY <1>9, <3>1
    <3> HIDE DEF d, e
    <3> QED
      BY ONLY <3>2
  <2>4. y[2] = z[2]
    <3>1. z[2] \in Segs(y[1]) \X {1, 2} /\ join(y[1])[y[2]] = join(y[1])[z[2]]
      BY ONLY <2>2, <2>3
    <3> QED
      <4>1. \A m, n \in Segs(y[1]) \X {1, 2} : join(y[1])[m] = join(y[1])[n] => m = n
        BY ONLY <1>6, <2>1
      <4> QED
        BY ONLY <2>1, <3>1, <4>1
  <2> QED
    BY <2>1, <2>2, <2>3, <2>4
<1>10. ASSUME NEW x \in B PROVE \E y \in A : h[y] = x
  <2>1. PICK at \in G, e \in Sides :
          /\ x = <<at, e>> /\ CellIsValid(c(at))
          /\ EdgeCrossed(level, g, v, EdgeOf(at, e)) /\ EdgePlace(level, g, v, EdgeOf(at, e)) = p
    BY <1>5
  <2>2. e \in C(at) /\ PlaceIn(g, Pt(at)[e]) = p
    BY <1>2, <2>1
  <2>3. PICK end \in Segs(at) \X {1, 2} : join(at)[end] = e
    BY <1>6, <2>1, <2>2
  <2>4. PlaceIn(g, end[1][end[2]]) = p
    BY <1>6, <2>1, <2>2, <2>3
  <2>5. <<at, end>> \in A
    BY <1>4, <2>4
  <2>6. h[<<at, end>>] = x
    BY <2>1, <2>3, <2>5
  <2> QED
    BY <2>5, <2>6
<1> HIDE DEF h
<1>11. h \in Bijection(A, B)
  BY <1>8, <1>9, <1>10 DEF Bijection, Injection, Surjection, IsInjective
<1> QED
  BY <1>11 DEF A, B

-----------------------------------------------------------------------------
(* Inside the field, an edge has a valid cell on each of its sides.        *)
Around(g, p) ==
  {at \in GridCells(g) : /\ p[1] - g.lo1 \in at[1] * g.dx .. (at[1] + 1) * g.dx
                         /\ g.la1 - p[2] \in at[2] * g.dy .. (at[2] + 1) * g.dy}
IsInside(g, v, p) ==
  /\ p[1] - g.lo1 \in 1 .. (g.nx - 1) * g.dx - 1
  /\ g.la1 - p[2] \in 1 .. (g.ny - 1) * g.dy - 1
  /\ \A at \in Around(g, p) : CellIsValid(CellOf(g, v, at))

LEMMA EdgeInside ==
  ASSUME NEW g \in Grids, NEW v, NEW level \in Int, NEW p, IsInside(g, v, p),
         NEW edge \in [down : BOOLEAN, x : Nat, y : Nat],
         EdgeCrossed(level, g, v, edge), EdgePlace(level, g, v, edge) = p,
         FieldAt(g, v, edge.x, edge.y) \in Int, NextAlong(g, v, edge) \in Int
  PROVE  /\ edge.down /\ edge.y \in 0 .. g.ny - 2 =>
              /\ <<edge.x - 1, edge.y>> \in Around(g, p)
              /\ <<edge.x, edge.y>> \in Around(g, p)
         /\ ~edge.down /\ edge.x \in 0 .. g.nx - 2 =>
              /\ <<edge.x, edge.y - 1>> \in Around(g, p)
              /\ <<edge.x, edge.y>> \in Around(g, p)
<1> DEFINE x == edge.x
           y == edge.y
           a == FieldAt(g, v, x, y)
           b == NextAlong(g, v, edge)
           X == x * g.dx
           Y == y * g.dy
           u == p[1] - g.lo1
           w == g.la1 - p[2]
<1>1. /\ g.nx \in Nat /\ g.ny \in Nat /\ g.lo1 \in Int /\ g.la1 \in Int
      /\ g.dx \in Nat /\ g.dy \in Nat /\ 0 < g.dx /\ 0 < g.dy /\ x \in Nat /\ y \in Nat
  BY DEF Grids
<1>2. X \in Nat /\ (x + 1) * g.dx = X + g.dx /\ (x - 1) * g.dx = X - g.dx
  BY <1>1
<1>3. Y \in Nat /\ (y + 1) * g.dy = Y + g.dy /\ (y - 1) * g.dy = Y - g.dy
  BY <1>1
<1>4. u \in 1 .. (g.nx - 1) * g.dx - 1 /\ w \in 1 .. (g.ny - 1) * g.dy - 1
  BY DEF IsInside
<1>5. X \in 1 .. (g.nx - 1) * g.dx - 1 => x - 1 \in 0 .. g.nx - 2 /\ x \in 0 .. g.nx - 2
  <2> SUFFICES ASSUME X \in 1 .. (g.nx - 1) * g.dx - 1 PROVE 1 <= x /\ x < g.nx - 1
    BY <1>1
  <2>1. x # 0
    BY <1>1
  <2>2. ASSUME g.nx - 1 <= x PROVE FALSE
    <3>1. (g.nx - 1) * g.dx <= x * g.dx
      BY <1>1, <2>2
    <3> QED
      BY <1>1, <1>2, <3>1
  <2> QED
    BY <1>1, <2>1, <2>2
<1>6. Y \in 1 .. (g.ny - 1) * g.dy - 1 => y - 1 \in 0 .. g.ny - 2 /\ y \in 0 .. g.ny - 2
  <2> SUFFICES ASSUME Y \in 1 .. (g.ny - 1) * g.dy - 1 PROVE 1 <= y /\ y < g.ny - 1
    BY <1>1
  <2>1. y # 0
    BY <1>1
  <2>2. ASSUME g.ny - 1 <= y PROVE FALSE
    <3>1. (g.ny - 1) * g.dy <= y * g.dy
      BY <1>1, <2>2
    <3> QED
      BY <1>1, <1>3, <3>1
  <2> QED
    BY <1>1, <2>1, <2>2
<1>7. ASSUME NEW i \in 0 .. g.nx - 2, NEW j \in 0 .. g.ny - 2,
             u \in i * g.dx .. (i + 1) * g.dx, w \in j * g.dy .. (j + 1) * g.dy
      PROVE  <<i, j>> \in Around(g, p)
  BY <1>7 DEF Around, GridCells
<1>8. Between(level, a, b) /\ a \in Int /\ b \in Int
  BY DEF EdgeCrossed
<1>9. ASSUME edge.down, y \in 0 .. g.ny - 2
      PROVE  <<x - 1, y>> \in Around(g, p) /\ <<x, y>> \in Around(g, p)
  <2> DEFINE s == Shift(level, a, b, -g.dy)
  <2>1. p = <<g.lo1 + X + 0, g.la1 - Y + s>>
    BY <1>9 DEF EdgePlace
  <2>2. -g.dy \in Int /\ -g.dy <= 0
    BY <1>1
  <2> HIDE DEF a, b, X, Y, x, y
  <2>3. s \in Int /\ s <= 0 /\ -g.dy <= s
    BY ONLY <1>8, <2>2, level \in Int, ShiftIs
  <2> HIDE DEF s
  <2>4. u = X /\ w = Y - s
    BY <1>1, <1>2, <1>3, <2>1, <2>3
  <2>5. w \in Y .. Y + g.dy
    BY <1>1, <1>3, <2>3, <2>4
  <2>6. X \in X - g.dx .. X /\ X \in X .. X + g.dx
    BY <1>1, <1>2
  <2>7. x - 1 \in 0 .. g.nx - 2 /\ x \in 0 .. g.nx - 2
    BY <1>4, <1>5, <2>4
  <2>8. x - 1 + 1 = x
    BY <1>1
  <2>9. y * g.dy = Y /\ x * g.dx = X
    BY DEF X, Y
  <2>10. w \in y * g.dy .. (y + 1) * g.dy
    BY <1>3, <2>5, <2>9
  <2>11. u \in (x - 1) * g.dx .. (x - 1 + 1) * g.dx
    BY <1>2, <2>4, <2>6, <2>8, <2>9
  <2>12. u \in x * g.dx .. (x + 1) * g.dx
    BY <1>2, <2>4, <2>6, <2>9
  <2> QED
    BY <1>7, <1>9, <2>7, <2>10, <2>11, <2>12
<1>10. ASSUME ~edge.down, x \in 0 .. g.nx - 2
       PROVE  <<x, y - 1>> \in Around(g, p) /\ <<x, y>> \in Around(g, p)
  <2> DEFINE s == Shift(level, a, b, g.dx)
  <2>1. p = <<g.lo1 + X + s, g.la1 - Y + 0>>
    BY <1>10 DEF EdgePlace
  <2>2. g.dx \in Int /\ 0 <= g.dx
    BY <1>1
  <2> HIDE DEF a, b, X, Y, x, y
  <2>3. s \in Int /\ 0 <= s /\ s <= g.dx
    BY ONLY <1>8, <2>2, level \in Int, ShiftIs
  <2> HIDE DEF s
  <2>4. u = X + s /\ w = Y
    BY <1>1, <1>2, <1>3, <2>1, <2>3
  <2>5. u \in X .. X + g.dx
    BY <1>1, <1>2, <2>3, <2>4
  <2>6. Y \in Y - g.dy .. Y /\ Y \in Y .. Y + g.dy
    BY <1>1, <1>3
  <2>7. y - 1 \in 0 .. g.ny - 2 /\ y \in 0 .. g.ny - 2
    BY <1>4, <1>6, <2>4
  <2>8. y - 1 + 1 = y
    BY <1>1
  <2>9. y * g.dy = Y /\ x * g.dx = X
    BY DEF X, Y
  <2>10. u \in x * g.dx .. (x + 1) * g.dx
    BY <1>2, <2>5, <2>9
  <2>11. w \in (y - 1) * g.dy .. (y - 1 + 1) * g.dy
    BY <1>3, <2>4, <2>6, <2>8, <2>9
  <2>12. w \in y * g.dy .. (y + 1) * g.dy
    BY <1>3, <2>4, <2>6, <2>9
  <2> QED
    BY <1>7, <1>10, <2>7, <2>10, <2>11, <2>12
<1> QED
  BY <1>9, <1>10

(* The same edge as the side of the cell beyond it.                        *)
Over(x) ==
  LET i == x[1][1]
      j == x[1][2]
  IN IF x[2] = "right" THEN << <<i + 1, j>>, "left">>
     ELSE IF x[2] = "left" THEN << <<i - 1, j>>, "right">>
     ELSE IF x[2] = "bottom" THEN << <<i, j + 1>>, "top">>
     ELSE << <<i, j - 1>>, "bottom">>

LEMMA OverIs ==
  ASSUME NEW i, NEW j
  PROVE  /\ Over(<< <<i, j>>, "right">>) = << <<i + 1, j>>, "left">>
         /\ Over(<< <<i, j>>, "left">>) = << <<i - 1, j>>, "right">>
         /\ Over(<< <<i, j>>, "bottom">>) = << <<i, j + 1>>, "top">>
         /\ Over(<< <<i, j>>, "top">>) = << <<i, j - 1>>, "bottom">>
<1>1. \A e : << <<i, j>>, e>>[2] = e /\ << <<i, j>>, e>>[1][1] = i /\ << <<i, j>>, e>>[1][2] = j
  OBVIOUS
<1>2. "left" # "right" /\ "bottom" # "right" /\ "bottom" # "left" /\ "top" # "right" /\ "top" # "left" /\ "top" # "bottom"
  OBVIOUS
<1> QED
  BY ONLY <1>1, <1>2 DEF Over

(* A side crossed at a point inside has a side of another cell over        *)
(* against it, which is crossed there too.                                 *)
LEMMA CrossesOver ==
  ASSUME NEW g \in Grids, NEW v, NEW level \in Int, NEW p, IsInside(g, v, p), NEW x \in SidesAt(level, g, v, p)
  PROVE  /\ Over(x) \in SidesAt(level, g, v, p)
         /\ Over(Over(x)) = x
         /\ x[2] \in {"right", "bottom"} <=> Over(x)[2] \notin {"right", "bottom"}
<1> DEFINE at == x[1]
           e == x[2]
           i == at[1]
           j == at[2]
           edge == EdgeOf(at, e)
           c == CellOf(g, v, at)
<1>1. at \in GridCells(g) /\ e \in Sides /\ x = <<at, e>> /\ CellIsValid(c)
      /\ EdgeCrossed(level, g, v, edge) /\ EdgePlace(level, g, v, edge) = p
  BY DEF SidesAt
<1>2. g.nx \in Nat /\ g.ny \in Nat
  BY DEF Grids
<1>3. i \in 0 .. g.nx - 2 /\ j \in 0 .. g.ny - 2 /\ at = <<i, j>>
  BY <1>1 DEF GridCells
<1>4. i \in Nat /\ j \in Nat /\ i + 1 - 1 = i /\ j + 1 - 1 = j /\ i - 1 + 1 = i /\ j - 1 + 1 = j
  BY <1>2, <1>3
<1>5. /\ FieldAt(g, v, i, j) \in Int /\ FieldAt(g, v, i + 1, j) \in Int
      /\ FieldAt(g, v, i, j + 1) \in Int /\ FieldAt(g, v, i + 1, j + 1) \in Int
  <2>1. CellIsValid(CellOf(g, v, <<i, j>>)) /\ i \in Int /\ j \in Int
    BY <1>1, <1>3, <1>4
  <2> HIDE DEF i, j
  <2>2. CellOf(g, v, <<i, j>>) \in CellRecords
    BY <2>1, CellIs
  <2> QED
    BY <2>1, <2>2, CellIs DEF CellRecords
<1> HIDE DEF at, e, i, j, edge, c
<1>6. ASSUME NEW nb, NEW s \in Sides, nb \in Around(g, p), EdgeOf(nb, s) = edge
      PROVE  <<nb, s>> \in SidesAt(level, g, v, p)
  <2>1. nb \in GridCells(g) /\ CellIsValid(CellOf(g, v, nb))
    BY <1>6 DEF Around, IsInside
  <2> QED
    BY <1>1, <1>6, <2>1 DEF SidesAt
<1>7. CASE e = "right"
  <2>1. edge = [down |-> TRUE, x |-> i + 1, y |-> j]
    <3>1. (e \in {"left", "right"}) = TRUE
      BY ONLY <1>7
    <3> QED
      BY ONLY <1>7, <3>1 DEF EdgeOf, edge, i, j
  <2>2. EdgeOf(<<i + 1, j>>, "left") = edge
    BY <2>1 DEF EdgeOf
  <2>3. FieldAt(g, v, edge.x, edge.y) \in Int /\ NextAlong(g, v, edge) \in Int
    BY <1>5, <2>1 DEF NextAlong
  <2>4. edge \in [down : BOOLEAN, x : Nat, y : Nat] /\ edge.down /\ edge.y \in 0 .. g.ny - 2
    BY <1>3, <1>4, <2>1
  <2>5. <<edge.x, edge.y>> \in Around(g, p)
    BY <1>1, <2>3, <2>4, EdgeInside
  <2>6. << <<i + 1, j>>, "left">> \in SidesAt(level, g, v, p)
    <3>1. "left" \in Sides
      BY DEF Sides
    <3>2. <<i + 1, j>> \in Around(g, p)
      BY <2>1, <2>5
    <3> QED
      BY ONLY <1>6, <2>2, <3>1, <3>2
  <2>7. Over(x) = << <<i + 1, j>>, "left">>
    BY <1>7 DEF Over, e, i, j, at
  <2>8. Over(<< <<i + 1, j>>, "left">>) = << <<i, j>>, "right">>
    <3> DEFINE n == i + 1
    <3>1. n - 1 = i
      BY ONLY <1>4
    <3> HIDE DEF n
    <3>2. Over(<< <<n, j>>, "left">>) = << <<i, j>>, "right">>
      BY ONLY <3>1, OverIs
    <3> QED
      BY ONLY <3>2 DEF n
  <2> QED
    BY <1>1, <1>3, <1>4, <1>7, <2>6, <2>7, <2>8 DEF e
<1>8. CASE e = "left"
  <2>1. edge = [down |-> TRUE, x |-> i, y |-> j]
    <3>1. (e \in {"left", "right"}) = TRUE
      BY ONLY <1>8
    <3> QED
      BY ONLY <1>8, <3>1 DEF EdgeOf, edge, i, j
  <2>2. EdgeOf(<<i - 1, j>>, "right") = edge
    BY <1>4, <2>1 DEF EdgeOf
  <2>3. FieldAt(g, v, edge.x, edge.y) \in Int /\ NextAlong(g, v, edge) \in Int
    BY <1>5, <2>1 DEF NextAlong
  <2>4. edge \in [down : BOOLEAN, x : Nat, y : Nat] /\ edge.down /\ edge.y \in 0 .. g.ny - 2
    BY <1>3, <1>4, <2>1
  <2>5. <<edge.x - 1, edge.y>> \in Around(g, p)
    BY <1>1, <2>3, <2>4, EdgeInside
  <2>6. << <<i - 1, j>>, "right">> \in SidesAt(level, g, v, p)
    <3>1. "right" \in Sides
      BY DEF Sides
    <3>2. <<i - 1, j>> \in Around(g, p)
      BY <2>1, <2>5
    <3> QED
      BY ONLY <1>6, <2>2, <3>1, <3>2
  <2>7. Over(x) = << <<i - 1, j>>, "right">>
    BY <1>8 DEF Over, e, i, j, at
  <2>8. Over(<< <<i - 1, j>>, "right">>) = << <<i - 1 + 1, j>>, "left">>
    BY OverIs
  <2> QED
    BY <1>1, <1>3, <1>4, <1>8, <2>6, <2>7, <2>8 DEF e
<1>9. CASE e = "bottom"
  <2>1. edge = [down |-> FALSE, x |-> i, y |-> j + 1]
    <3>1. (e \in {"left", "right"}) = FALSE
      BY ONLY <1>9
    <3> QED
      BY ONLY <1>9, <3>1 DEF EdgeOf, edge, i, j
  <2>2. EdgeOf(<<i, j + 1>>, "top") = edge
    <3>1. ("top" \in {"left", "right"}) = FALSE
      OBVIOUS
    <3> QED
      BY <2>1, <3>1 DEF EdgeOf
  <2>3. FieldAt(g, v, edge.x, edge.y) \in Int /\ NextAlong(g, v, edge) \in Int
    BY <1>5, <2>1 DEF NextAlong
  <2>4. edge \in [down : BOOLEAN, x : Nat, y : Nat] /\ ~edge.down /\ edge.x \in 0 .. g.nx - 2
    BY <1>3, <1>4, <2>1
  <2>5. <<edge.x, edge.y>> \in Around(g, p)
    BY <1>1, <2>3, <2>4, EdgeInside
  <2>6. << <<i, j + 1>>, "top">> \in SidesAt(level, g, v, p)
    <3>1. "top" \in Sides
      BY DEF Sides
    <3>2. <<i, j + 1>> \in Around(g, p)
      BY <2>1, <2>5
    <3> QED
      BY ONLY <1>6, <2>2, <3>1, <3>2
  <2>7. Over(x) = << <<i, j + 1>>, "top">>
    BY <1>9 DEF Over, e, i, j, at
  <2>8. Over(<< <<i, j + 1>>, "top">>) = << <<i, j>>, "bottom">>
    <3> DEFINE n == j + 1
    <3>1. n - 1 = j
      BY ONLY <1>4
    <3> HIDE DEF n
    <3>2. Over(<< <<i, n>>, "top">>) = << <<i, j>>, "bottom">>
      BY ONLY <3>1, OverIs
    <3> QED
      BY ONLY <3>2 DEF n
  <2> QED
    BY <1>1, <1>3, <1>4, <1>9, <2>6, <2>7, <2>8 DEF e
<1>10. CASE e = "top"
  <2>1. edge = [down |-> FALSE, x |-> i, y |-> j]
    <3>1. (e \in {"left", "right"}) = FALSE
      BY ONLY <1>10
    <3> QED
      BY ONLY <1>10, <3>1 DEF EdgeOf, edge, i, j
  <2>2. EdgeOf(<<i, j - 1>>, "bottom") = edge
    <3>1. ("bottom" \in {"left", "right"}) = FALSE
      OBVIOUS
    <3> QED
      BY <1>4, <2>1, <3>1 DEF EdgeOf
  <2>3. FieldAt(g, v, edge.x, edge.y) \in Int /\ NextAlong(g, v, edge) \in Int
    BY <1>5, <2>1 DEF NextAlong
  <2>4. edge \in [down : BOOLEAN, x : Nat, y : Nat] /\ ~edge.down /\ edge.x \in 0 .. g.nx - 2
    BY <1>3, <1>4, <2>1
  <2>5. <<edge.x, edge.y - 1>> \in Around(g, p)
    BY <1>1, <2>3, <2>4, EdgeInside
  <2>6. << <<i, j - 1>>, "bottom">> \in SidesAt(level, g, v, p)
    <3>1. "bottom" \in Sides
      BY DEF Sides
    <3>2. <<i, j - 1>> \in Around(g, p)
      BY <2>1, <2>5
    <3> QED
      BY ONLY <1>6, <2>2, <3>1, <3>2
  <2>7. Over(x) = << <<i, j - 1>>, "bottom">>
    BY <1>10 DEF Over, e, i, j, at
  <2>8. Over(<< <<i, j - 1>>, "bottom">>) = << <<i, j - 1 + 1>>, "top">>
    BY OverIs
  <2> QED
    BY <1>1, <1>3, <1>4, <1>10, <2>6, <2>7, <2>8 DEF e
<1> QED
  BY <1>1, <1>7, <1>8, <1>9, <1>10 DEF Sides

(* So the ends at a point inside the field come in twos.                   *)
LEMMA EndsComeInTwos ==
  ASSUME NEW g \in Grids, NEW v, NEW level \in Int, NEW p, IsInside(g, v, p)
  PROVE  Cardinality(EndsAt(level, g, v, p)) % 2 = 0
<1> DEFINE A == EndsAt(level, g, v, p)
           B == SidesAt(level, g, v, p)
           Here == {x \in B : x[2] \in {"right", "bottom"}}
           Beyond == {x \in B : x[2] \notin {"right", "bottom"}}
           f == [x \in Here |-> Over(x)]
<1>1. IsFiniteSet(B)
  <2>1. IsFiniteSet(0 .. g.nx - 2) /\ IsFiniteSet(0 .. g.ny - 2)
    <3>1. g.nx \in Nat /\ g.ny \in Nat
      BY DEF Grids
    <3>2. g.nx - 2 \in Int /\ g.ny - 2 \in Int /\ 0 \in Int
      BY <3>1
    <3> QED
      BY ONLY <3>2, FS_Interval
  <2>2. IsFiniteSet(GridCells(g))
    BY <2>1, FS_Product DEF GridCells
  <2>3. IsFiniteSet(Sides)
    <3>1. IsFiniteSet({"top"}) /\ IsFiniteSet({"right"}) /\ IsFiniteSet({"bottom"}) /\ IsFiniteSet({"left"})
      BY FS_Singleton
    <3>2. Sides = ({"top"} \cup {"right"}) \cup ({"bottom"} \cup {"left"})
      BY DEF Sides
    <3> QED
      BY <3>1, <3>2, FS_Union
  <2>4. IsFiniteSet(GridCells(g) \X Sides)
    BY <2>2, <2>3, FS_Product
  <2>5. B \subseteq GridCells(g) \X Sides
    BY DEF SidesAt
  <2> QED
    BY <2>4, <2>5, FS_Subset
<1>2. \A x \in B : /\ Over(x) \in B /\ Over(Over(x)) = x
                   /\ x[2] \in {"right", "bottom"} <=> Over(x)[2] \notin {"right", "bottom"}
  BY CrossesOver
<1>3. PICK h : h \in Bijection(A, B)
  BY EndsAreSides
<1> HIDE DEF A, B
<1>4. f \in Bijection(Here, Beyond)
  <2>1. f \in [Here -> Beyond] /\ \A x \in Here : f[x] = Over(x)
    BY <1>2
  <2>2. \A x, y \in Here : f[x] = f[y] => x = y
    BY <1>2, <2>1
  <2>3. \A y \in Beyond : \E x \in Here : f[x] = y
    <3> TAKE y \in Beyond
    <3>1. Over(y) \in Here /\ Over(Over(y)) = y
      BY <1>2
    <3> QED
      BY <2>1, <3>1
  <2> HIDE DEF f, Here, Beyond
  <2> QED
    BY <2>1, <2>2, <2>3 DEF Bijection, Injection, Surjection, IsInjective
<1>5. IsFiniteSet(Here) /\ IsFiniteSet(Beyond) /\ Here \cup Beyond = B /\ Here \cap Beyond = {}
  <2>1. Here \subseteq B /\ Beyond \subseteq B
    OBVIOUS
  <2>2. IsFiniteSet(Here) /\ IsFiniteSet(Beyond)
    BY <1>1, <2>1, FS_Subset
  <2> QED
    BY <2>2
<1> HIDE DEF Here, Beyond, f
<1>6. Cardinality(Beyond) = Cardinality(Here) /\ Cardinality(Here) \in Nat
  <2>1. ExistsBijection(Here, Beyond)
    BY <1>4 DEF ExistsBijection
  <2> QED
    BY <1>5, <2>1, FS_Bijection, FS_CardinalityType
<1>7. Cardinality(B) = Cardinality(Here) + Cardinality(Here)
  <2>1. Cardinality(Here \cap Beyond) = 0
    BY <1>5, FS_EmptySet
  <2>2. Cardinality(Here \cup Beyond) = Cardinality(Here) + Cardinality(Beyond) - Cardinality(Here \cap Beyond)
    BY <1>5, FS_Union
  <2> QED
    <3>1. Cardinality(B) = Cardinality(Here) + Cardinality(Here) - 0
      BY ONLY <1>5, <1>6, <2>1, <2>2
    <3> QED
      BY ONLY <1>6, <3>1
<1>8. Cardinality(A) = Cardinality(B)
  <2>1. h \in Injection(A, B) /\ h \in Surjection(A, B)
    BY <1>3 DEF Bijection
  <2> QED
    BY <1>1, <2>1, FS_Injection
<1>9. \A n \in Nat : (n + n) % 2 = 0
  OBVIOUS
<1> QED
  BY <1>6, <1>7, <1>8, <1>9 DEF A

(* NoLooseEnds, of what the contours of a record are.                      *)
LEMMA IsobarsClose ==
  ASSUME NEW record, record.grid \in Grids
  PROVE  NoLooseEnds(record.grid, record.values, ContourLatLonGrid(record))
<1> DEFINE g == record.grid
           v == record.values
           lines == ContourLatLonGrid(record)
           Place(end) == <<IF end[1][end[2]][1] < g.lo1 THEN end[1][end[2]][1] + 360 ELSE end[1][end[2]][1],
                           end[1][end[2]][2]>>
           ends(level) == [at \in GridCells(g) |-> lines[at][level] \X {1, 2}]
           at_p(level, p) == UNION {{at} \X {end \in ends(level)[at] : Place(end) = p} : at \in GridCells(g)}
<1>1. \A at : CellAt(record, at[1], at[2]) = CellOf(g, v, at)
  BY DEF CellOf, CellAt, CellBetween, At
<1>2. \A at \in GridCells(g), level \in Levels : lines[at][level] = LevelSegments(level, CellOf(g, v, at), g)
  BY <1>1 DEF ContourLatLonGrid
<1>3. \A end : Place(end) = PlaceIn(g, end[1][end[2]])
  BY DEF PlaceIn
<1> HIDE DEF lines, Place
<1>4. ASSUME NEW level \in Levels, NEW p
      PROVE  at_p(level, p) = EndsAt(level, g, v, p)
  <2>1. \A at \in GridCells(g) : {end \in ends(level)[at] : Place(end) = p} = EndsIn(level, g, v, p, at)
    BY <1>2, <1>3 DEF EndsIn
  <2> QED
    BY <2>1 DEF EndsAt
<1>5. ASSUME NEW level \in Levels, NEW p, IsInside(g, v, p)
      PROVE  Cardinality(at_p(level, p)) % 2 = 0
  <2>1. level \in Int
    BY IsobarsAssumption
  <2> HIDE DEF at_p
  <2> QED
    BY <1>4, <1>5, <2>1, EndsComeInTwos
<1> HIDE DEF g, v
<1> DEFINE inside(p) ==
             /\ p[1] - g.lo1 \in 1 .. (g.nx - 1) * g.dx - 1
             /\ g.la1 - p[2] \in 1 .. (g.ny - 1) * g.dy - 1
             /\ \A at \in {at \in GridCells(g) : /\ p[1] - g.lo1 \in at[1] * g.dx .. (at[1] + 1) * g.dx
                                                 /\ g.la1 - p[2] \in at[2] * g.dy .. (at[2] + 1) * g.dy} :
                   CellIsValid(CellAt([grid |-> g, values |-> v], at[1], at[2]))
           places(level) == UNION {{Place(end) : end \in ends(level)[at]} : at \in GridCells(g)}
<1>6. \A p : IsInside(g, v, p) <=> inside(p)
  BY DEF IsInside, Around, CellOf
<1>7. NoLooseEnds(g, v, lines)
  <2>1. \A level \in Levels : \A p : IsInside(g, v, p) => Cardinality(at_p(level, p)) % 2 = 0
    BY ONLY <1>5
  <2> HIDE DEF ends, at_p, inside, places
  <2>2. \A level \in Levels : \A p \in places(level) : inside(p) => Cardinality(at_p(level, p)) % 2 = 0
    BY ONLY <1>6, <2>1
  <2> QED
    BY ONLY <2>2 DEF NoLooseEnds, Place, ends, at_p, inside, places
<1> QED
  BY <1>7 DEF g, v, lines

-----------------------------------------------------------------------------
(* Highs and lows.  Two in one window would each beat the other.           *)
Centers(grid) == (ExtremumRadius .. grid.nx - ExtremumRadius - 1) \X (ExtremumRadius .. grid.ny - ExtremumRadius - 1)
Nearby == ((-ExtremumRadius .. ExtremumRadius) \X (-ExtremumRadius .. ExtremumRadius)) \ {<<0, 0>>}

(* What an extreme at p is.                                                *)
IsExtremeAt(record, p, e) ==
  LET v == At(record, p[1], p[2])
      There(d) == At(record, p[1] + d[1], p[2] + d[2])
  IN /\ e = [at |-> <<ShiftLon(record.grid.lo1 + p[1] * record.grid.dx), record.grid.la1 - p[2] * record.grid.dy>>,
             kind |-> e.kind, value |-> v]
     /\ v \in Int
     /\ \A d \in Nearby : There(d) \in Int
     /\ \/ e.kind = "H" /\ \A d \in Nearby : There(d) < v
        \/ e.kind = "L" /\ \A d \in Nearby : There(d) > v

(* A high or low is an extreme of its window.                              *)
LEMMA ExtremaAre ==
  ASSUME NEW record, NEW e \in Extrema(record)
  PROVE  Nearby # {} /\ \E p \in Centers(record.grid) : IsExtremeAt(record, p, e)
<1> DEFINE grid == record.grid
           R == ExtremumRadius
           V(p) == At(record, p[1], p[2])
           Inner == {p \in (R .. grid.nx - R - 1) \X (R .. grid.ny - R - 1) : Valid(V(p))}
           Window(p) == {At(record, p[1] + d[1], p[2] + d[2]) : d \in ((-R .. R) \X (-R .. R)) \ {<<0, 0>>}}
           High(p) == /\ \A v \in Window(p) : Valid(v) /\ v < V(p)
                      /\ \E v \in Window(p) : V(p) - v >= ExtremumMinOffset
           Low(p) == /\ \A v \in Window(p) : Valid(v) /\ v > V(p)
                     /\ \E v \in Window(p) : v - V(p) >= ExtremumMinOffset
           Point(p, kind) == [at |-> <<ShiftLon(grid.lo1 + p[1] * grid.dx), grid.la1 - p[2] * grid.dy>>,
                              kind |-> kind, value |-> V(p)]
<1>1. \/ \E p \in Inner : High(p) /\ e = Point(p, "H")
      \/ \E p \in Inner : Low(p) /\ e = Point(p, "L")
  BY DEF Extrema
<1>2. \A v : Valid(v) => v \in Int
  BY IsobarsAssumption DEF Valid
<1>3. \A p : \A v : v \in Window(p) <=> \E d \in Nearby : v = At(record, p[1] + d[1], p[2] + d[2])
  BY DEF Nearby
<1>4. \A p \in Inner : p \in Centers(grid) /\ V(p) \in Int
  BY <1>2 DEF Centers
<1> HIDE DEF Inner, Window
<1>5. CASE \E p \in Inner : High(p) /\ e = Point(p, "H")
  <2>1. PICK p \in Inner : High(p) /\ e = Point(p, "H")
    BY <1>5
  <2>2. Nearby # {} /\ \A d \in Nearby : At(record, p[1] + d[1], p[2] + d[2]) \in Window(p)
    BY <1>3, <2>1
  <2>3. \A d \in Nearby : LET a == At(record, p[1] + d[1], p[2] + d[2]) IN a \in Int /\ a < V(p)
    BY <1>2, <2>1, <2>2
  <2>4. e.kind = "H" /\ e = Point(p, e.kind)
    BY <2>1
  <2>5. IsExtremeAt(record, p, e)
    BY <1>4, <2>3, <2>4 DEF IsExtremeAt
  <2> QED
    BY <1>4, <2>2, <2>5
<1>6. CASE \E p \in Inner : Low(p) /\ e = Point(p, "L")
  <2>1. PICK p \in Inner : Low(p) /\ e = Point(p, "L")
    BY <1>6
  <2>2. Nearby # {} /\ \A d \in Nearby : At(record, p[1] + d[1], p[2] + d[2]) \in Window(p)
    BY <1>3, <2>1
  <2>3. \A d \in Nearby : LET a == At(record, p[1] + d[1], p[2] + d[2]) IN a \in Int /\ a > V(p)
    BY <1>2, <2>1, <2>2
  <2>4. e.kind = "L" /\ e = Point(p, e.kind)
    BY <2>1
  <2>5. IsExtremeAt(record, p, e)
    BY <1>4, <2>3, <2>4 DEF IsExtremeAt
  <2> QED
    BY <1>4, <2>2, <2>5
<1> QED
  BY <1>1, <1>5, <1>6

(* A distance of k steps is k steps and more.                              *)
LEMMA StepsWithin ==
  ASSUME NEW w \in Nat \ {0}, NEW k \in Nat, NEW d \in Int, k * w <= d
  PROVE  d \div w >= k
<1> DEFINE q == d \div w
<1>1. q \in Int /\ w * q <= d /\ d < w * q + w
  OBVIOUS
<1> HIDE DEF q
<1>2. ASSUME q < k PROVE FALSE
  <2>1. w * q + w <= k * w
    BY <1>1, <1>2
  <2> QED
    BY <1>1, <2>1
<1> QED
  BY <1>1, <1>2 DEF q

(* Points that many columns apart are as far apart on the globe, also when *)
(* one of them is told as west of Greenwich.                               *)
LEMMA MeridiansApart ==
  ASSUME NEW g \in Grids, NEW R \in Nat \ {0}, NEW i \in R .. g.nx - R - 1, NEW j \in R .. g.nx - R - 1,
         i - j > R \/ j - i > R
  PROVE  LET d == ShiftLon(g.lo1 + i * g.dx) - ShiftLon(g.lo1 + j * g.dx)
         IN (IF d < 0 THEN -d ELSE d) \div g.dx > R
<1> DEFINE a == ShiftLon(g.lo1 + i * g.dx)
           b == ShiftLon(g.lo1 + j * g.dx)
           d == a - b
           w == g.dx
           n == (i - j) * w
<1>1. /\ g.nx \in Nat /\ g.lo1 \in Int /\ w \in Nat \ {0} /\ (g.nx - 1) * w < 360
      /\ i \in Int /\ j \in Int
  BY DEF Grids
<1>2. i * w \in Int /\ j * w \in Int /\ n \in Int /\ n = i * w - j * w
  BY ONLY <1>1
<1>3. /\ a = g.lo1 + i * w \/ a = g.lo1 + i * w - 360
      /\ b = g.lo1 + j * w \/ b = g.lo1 + j * w - 360
  <2> DEFINE l == g.lo1 + i * w
             m == g.lo1 + j * w
  <2>1. l \in Int /\ m \in Int
    BY ONLY <1>1, <1>2
  <2>2. a = ShiftLon(l) /\ b = ShiftLon(m)
    OBVIOUS
  <2> HIDE DEF a, b, l, m
  <2>3. (a = l \/ a = l - 360) /\ (b = m \/ b = m - 360)
    BY ONLY <2>1, <2>2 DEF ShiftLon
  <2> QED
    BY ONLY <1>1, <1>2, <2>3 DEF l, m
<1>4. (i - j > R => (R + 1) * w <= n) /\ (j - i > R => (R + 1) * w <= -n)
  <2>1. ASSUME i - j > R PROVE (R + 1) * w <= (i - j) * w
    <3>1. R + 1 <= i - j
      BY <1>1, <2>1
    <3> QED
      BY ONLY <1>1, <3>1, R \in Nat \ {0}
  <2>2. ASSUME j - i > R PROVE (R + 1) * w <= -((i - j) * w)
    <3>1. R + 1 <= j - i
      BY <1>1, <2>2
    <3>2. (R + 1) * w <= (j - i) * w /\ (j - i) * w = -((i - j) * w)
      BY ONLY <1>1, <3>1, R \in Nat \ {0}
    <3> QED
      BY <3>2
  <2> QED
    BY <2>1, <2>2
<1>5. n <= 359 - (R + 1) * w /\ -n <= 359 - (R + 1) * w
  <2>1. i - j <= g.nx - 1 - (R + R) /\ j - i <= g.nx - 1 - (R + R) /\ R + 1 <= R + R
    BY <1>1
  <2>2. ASSUME NEW k \in Int, k <= g.nx - 1 - (R + R) PROVE k * w <= 359 - (R + 1) * w
    <3>1. k + (R + 1) <= g.nx - 1
      BY <1>1, <2>1, <2>2
    <3>2. (k + (R + 1)) * w <= (g.nx - 1) * w /\ (k + (R + 1)) * w = k * w + (R + 1) * w
      BY ONLY <1>1, <2>2, <3>1, R \in Nat \ {0}, k \in Int
    <3>3. k * w \in Int /\ (R + 1) * w \in Int
      BY ONLY <1>1, R \in Nat \ {0}, k \in Int
    <3> QED
      BY <1>1, <3>2, <3>3
  <2>3. i - j \in Int /\ j - i \in Int /\ (j - i) * w = -((i - j) * w)
    BY ONLY <1>1
  <2> QED
    BY <2>1, <2>2, <2>3
<1>6. (R + 1) * w \in Nat /\ R + 1 \in Nat
  BY ONLY <1>1, R \in Nat \ {0}
<1>7. i - j > R \/ j - i > R
  OBVIOUS
<1> DEFINE r == (R + 1) * w
           x == i * w
           y == j * w
<1>8. n \in Int /\ x \in Int /\ y \in Int /\ r \in Nat /\ n = x - y /\ g.lo1 \in Int
      /\ n <= 359 - r /\ -n <= 359 - r /\ (r <= n \/ r <= -n)
      /\ (a = g.lo1 + x \/ a = g.lo1 + x - 360) /\ (b = g.lo1 + y \/ b = g.lo1 + y - 360)
  BY ONLY <1>1, <1>2, <1>3, <1>4, <1>5, <1>6, <1>7
<1> HIDE DEF a, b, w, n, r, x, y
<1>9. (IF d < 0 THEN -d ELSE d) \in Int /\ r <= IF d < 0 THEN -d ELSE d
  BY ONLY <1>8
<1>10. (IF d < 0 THEN -d ELSE d) \div w >= R + 1
  BY ONLY <1>1, <1>6, <1>9, StepsWithin DEF r
<1> HIDE DEF d
<1>11. (IF d < 0 THEN -d ELSE d) \div w \in Int
  <2> DEFINE m == IF d < 0 THEN -d ELSE d
  <2>1. m \in Int /\ w \in Int /\ w > 0
    BY <1>1, <1>9
  <2> HIDE DEF m
  <2>2. m \div w \in Int
    BY ONLY <2>1
  <2> QED
    BY ONLY <2>2 DEF m
<1>12. (IF d < 0 THEN -d ELSE d) \div w > R
  <2> DEFINE q == (IF d < 0 THEN -d ELSE d) \div w
  <2> HIDE DEF q
  <2>1. q \in Int /\ q >= R + 1
    BY <1>10, <1>11 DEF q
  <2>2. q > R
    BY ONLY <2>1, R \in Nat \ {0}
  <2> QED
    BY <2>2 DEF q
<1> QED
  BY ONLY <1>12 DEF d, a, b, w

(* And rows.                                                               *)
LEMMA ParallelsApart ==
  ASSUME NEW g \in Grids, NEW R \in Nat, NEW i \in Int, NEW j \in Int, i - j > R \/ j - i > R
  PROVE  LET d == (g.la1 - i * g.dy) - (g.la1 - j * g.dy)
         IN (IF d < 0 THEN -d ELSE d) \div g.dy > R
<1> DEFINE d == (g.la1 - i * g.dy) - (g.la1 - j * g.dy)
           w == g.dy
           m == IF d < 0 THEN -d ELSE d
<1>1. g.la1 \in Int /\ w \in Nat \ {0}
  BY DEF Grids
<1>2. d = (j - i) * w /\ d \in Int
  <2>1. i * w \in Int /\ j * w \in Int /\ (j - i) * w = j * w - i * w
    BY ONLY <1>1, i \in Int, j \in Int
  <2> QED
    BY <1>1, <2>1
<1> HIDE DEF d
<1>3. (R + 1) * w <= m /\ m \in Int
  <2>1. CASE i - j > R
    <3>1. R + 1 <= i - j
      BY <2>1
    <3>2. (R + 1) * w <= (i - j) * w /\ (i - j) * w = -((j - i) * w) /\ 0 <= (R + 1) * w /\ (R + 1) * w \in Int
      BY ONLY <1>1, <3>1, R \in Nat, i \in Int, j \in Int
    <3> QED
      BY <1>2, <3>2
  <2>2. CASE j - i > R
    <3>1. R + 1 <= j - i
      BY <2>2
    <3>2. (R + 1) * w <= (j - i) * w /\ 0 <= (R + 1) * w /\ (R + 1) * w \in Int
      BY ONLY <1>1, <3>1, R \in Nat, i \in Int, j \in Int
    <3> QED
      BY <1>2, <3>2
  <2> QED
    BY <2>1, <2>2
<1> HIDE DEF m, w
<1>4. m \div w >= R + 1 /\ m \div w \in Int
  <2>1. w \in Int /\ w > 0 /\ R + 1 \in Nat
    BY <1>1
  <2>2. m \div w \in Int
    BY ONLY <1>3, <2>1
  <2> QED
    BY ONLY <1>1, <1>3, <2>1, <2>2, StepsWithin
<1>5. m \div w > R
  BY ONLY <1>4, R \in Nat
<1> QED
  BY ONLY <1>5 DEF m, w, d

(* ExtremaApart, of what the highs and lows of a record are.               *)
LEMMA ExtremaKeepApart ==
  ASSUME NEW record, record.grid \in Grids
  PROVE  ExtremaApart(record.grid, Extrema(record))
<1> DEFINE g == record.grid
           R == ExtremumRadius
           Apart(e, f, k, width) ==
             LET d == e.at[k] - f.at[k] IN (IF d < 0 THEN -d ELSE d) \div width
<1>1. ASSUME NEW e \in Extrema(record), NEW f \in Extrema(record), e # f, e.kind = f.kind
      PROVE  Apart(e, f, 1, g.dx) > R \/ Apart(e, f, 2, g.dy) > R
  <2>1. Nearby # {}
    BY ExtremaAre
  <2>2. PICK p \in Centers(g) : IsExtremeAt(record, p, e)
    BY ExtremaAre
  <2>3. PICK q \in Centers(g) : IsExtremeAt(record, q, f)
    BY ExtremaAre
  <2>4. R \in Nat \ {0} /\ g.nx \in Nat /\ g.ny \in Nat
    <3>1. R # 0
      BY <2>1 DEF Nearby
    <3> QED
      BY <3>1, IsobarsAssumption DEF Grids
  <2>5. /\ p = <<p[1], p[2]>> /\ p[1] \in R .. g.nx - R - 1 /\ p[2] \in R .. g.ny - R - 1
        /\ q = <<q[1], q[2]>> /\ q[1] \in R .. g.nx - R - 1 /\ q[2] \in R .. g.ny - R - 1
    BY DEF Centers
  <2>6. p[1] \in Int /\ p[2] \in Int /\ q[1] \in Int /\ q[2] \in Int
    BY <2>4, <2>5
  <2>7. e.at = <<ShiftLon(g.lo1 + p[1] * g.dx), g.la1 - p[2] * g.dy>>
    BY <2>2 DEF IsExtremeAt
  <2>8. f.at = <<ShiftLon(g.lo1 + q[1] * g.dx), g.la1 - q[2] * g.dy>>
    BY <2>3 DEF IsExtremeAt
  <2>9. p[1] # q[1] \/ p[2] # q[2]
    BY <1>1, <2>2, <2>3 DEF IsExtremeAt
  <2>10. \/ p[1] - q[1] > R \/ q[1] - p[1] > R
         \/ p[2] - q[2] > R \/ q[2] - p[2] > R
    <3> SUFFICES ASSUME ~(p[1] - q[1] > R \/ q[1] - p[1] > R \/ p[2] - q[2] > R \/ q[2] - p[2] > R)
                 PROVE  FALSE
      OBVIOUS
    <3> DEFINE there == <<q[1] - p[1], q[2] - p[2]>>
               back == <<p[1] - q[1], p[2] - q[2]>>
    <3>1. there \in Nearby /\ back \in Nearby
      BY <2>4, <2>6, <2>9 DEF Nearby
    <3>2. /\ p[1] + there[1] = q[1] /\ p[2] + there[2] = q[2]
          /\ q[1] + back[1] = p[1] /\ q[2] + back[2] = p[2]
      BY <2>6
    <3> HIDE DEF there, back
    <3> DEFINE a == At(record, p[1], p[2])
               b == At(record, q[1], q[2])
    <3>3. /\ a \in Int /\ b \in Int
          /\ At(record, p[1] + there[1], p[2] + there[2]) = b
          /\ At(record, q[1] + back[1], q[2] + back[2]) = a
      BY <2>2, <2>3, <3>2 DEF IsExtremeAt
    <3> HIDE DEF a, b
    <3>4. \/ e.kind = "H" /\ b < a
          \/ e.kind = "L" /\ b > a
      BY <2>2, <3>1, <3>3 DEF IsExtremeAt, a
    <3>5. \/ f.kind = "H" /\ a < b
          \/ f.kind = "L" /\ a > b
      BY <2>3, <3>1, <3>3 DEF IsExtremeAt, b
    <3> QED
      BY ONLY <1>1, <3>3, <3>4, <3>5
  <2>11. CASE p[1] - q[1] > R \/ q[1] - p[1] > R
    <3> DEFINE a == ShiftLon(g.lo1 + p[1] * g.dx)
               b == ShiftLon(g.lo1 + q[1] * g.dx)
    <3>1. (IF a - b < 0 THEN -(a - b) ELSE a - b) \div g.dx > R
      BY ONLY <2>4, <2>5, <2>11, record.grid \in Grids, MeridiansApart
    <3> HIDE DEF a, b
    <3>2. e.at[1] = a /\ f.at[1] = b
      BY <2>7, <2>8 DEF a, b
    <3> QED
      BY <3>1, <3>2
  <2>12. CASE p[2] - q[2] > R \/ q[2] - p[2] > R
    <3> DEFINE a == g.la1 - p[2] * g.dy
               b == g.la1 - q[2] * g.dy
    <3>1. (IF a - b < 0 THEN -(a - b) ELSE a - b) \div g.dy > R
      BY ONLY <2>4, <2>6, <2>12, record.grid \in Grids, ParallelsApart
    <3> HIDE DEF a, b
    <3>2. e.at[2] = a /\ f.at[2] = b
      BY <2>7, <2>8 DEF a, b
    <3> QED
      BY <3>1, <3>2
  <2> QED
    BY <2>10, <2>11, <2>12
<1> QED
  BY <1>1 DEF ExtremaApart

(* IsobarsHoldTogether for any forecast, levels and window: where the      *)
(* pressure field that is read has a grid of at most once around, no       *)
(* isobar ends inside it and no two highs or lows share a window.          *)
THEOREM IsobarsHold ==
  ASSUME LET record == FirstRecord(ParseMessages(forecast, "pressure"))
         IN record.verdict = "record" => record.grid \in Grids
  PROVE  IsobarsHoldTogether
<1> DEFINE record == FirstRecord(ParseMessages(forecast, "pressure"))
           drawn == DecodeGFSIsobars(forecast)
<1>1. drawn = IF record.verdict # "record" THEN [ok |-> FALSE]
              ELSE [ok |-> TRUE, lines |-> ContourLatLonGrid(record), extrema |-> Extrema(record)]
  BY DEF DecodeGFSIsobars
<1>2. drawn.ok => record.verdict = "record" /\ drawn.lines = ContourLatLonGrid(record) /\ drawn.extrema = Extrema(record)
  BY <1>1
<1>3. record.verdict = "record" =>
        /\ NoLooseEnds(record.grid, record.values, ContourLatLonGrid(record))
        /\ ExtremaApart(record.grid, Extrema(record))
  BY IsobarsClose, ExtremaKeepApart
<1> QED
  BY <1>2, <1>3 DEF IsobarsHoldTogether
=============================================================================
