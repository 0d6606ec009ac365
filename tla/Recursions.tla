----------------------------- MODULE Recursions -----------------------------
(***************************************************************************)
(* Induction and recursion over a range of numbers, from the theorems      *)
(* about minimal elements: what a loop leaves, written as a recursive      *)
(* function of the number of rounds.  And two facts about lists.           *)
(***************************************************************************)
EXTENDS Integers, Sequences, SequenceTheorems, WellFoundedInduction, TLAPS

(* What holds at the start and goes on holding holds to the end.           *)
LEMMA RangeInduction ==
  ASSUME NEW a \in Nat, NEW n \in Nat, NEW T, a \in T, \A k \in a .. n - 1 : k \in T => k + 1 \in T
  PROVE  \A k \in a .. n : k \in T
<1> DEFINE Not == {k \in a .. n : k \notin T}
<1> SUFFICES ASSUME Not # {} PROVE FALSE
  OBVIOUS
<1>1. Not \subseteq Nat
  OBVIOUS
<1> HIDE DEF Not
<1>2. PICK x \in Not : \A y \in Not : ~(<<y, x>> \in OpToRel(<, Nat))
  BY ONLY NatLessThanWellFounded, WFMin, Not # {}, <1>1
<1>3. \A y \in Not : ~(y < x)
  BY <1>1, <1>2 DEF OpToRel
<1>4. x \in a .. n /\ x \notin T /\ x # a
  BY DEF Not
<1>5. x - 1 \in a .. n - 1 /\ x - 1 < x /\ (x - 1) + 1 = x
  BY <1>4
<1>6. x - 1 \in T
  BY <1>3, <1>5 DEF Not
<1> QED
  BY <1>4, <1>5, <1>6

(* A function can be defined by what it is at first and from what it was.  *)
Recurs(f, V, a, b, n, base, step) ==
  /\ f \in [a .. n -> V] /\ f[a] = base
  /\ \A k \in b .. n : f[k] = step[<<k, f[k - 1]>>]

LEMMA Recursion ==
  ASSUME NEW V, NEW a \in Nat, NEW b \in Nat, b = a + 1, NEW n \in Nat, a <= n,
         NEW base \in V, NEW step \in [(b .. n) \X V -> V]
  PROVE  \E f : Recurs(f, V, a, b, n, base, step)
<1> DEFINE Upto(f, m) == f \in [a .. m -> V] /\ f[a] = base /\ \A k \in a + 1 .. m : f[k] = step[<<k, f[k - 1]>>]
           T == {m \in a .. n : \E f : Upto(f, m)}
<1>1. a \in T
  <2>1. a \in a .. a /\ a \in a .. n /\ \A k \in a + 1 .. a : FALSE
    OBVIOUS
  <2>2. Upto([k \in a .. a |-> base], a)
    BY <2>1
  <2> QED
    BY <2>1, <2>2
<1>2. ASSUME NEW m \in a .. n - 1, m \in T PROVE m + 1 \in T
  <2>1. PICK f : Upto(f, m)
    BY <1>2
  <2>2. f[m] \in V /\ step[<<m + 1, f[m]>>] \in V
    BY <2>1
  <2> DEFINE g == [k \in a .. m + 1 |-> IF k = m + 1 THEN step[<<m + 1, f[m]>>] ELSE f[k]]
  <2>3. g \in [a .. m + 1 -> V] /\ g[m + 1] = step[<<m + 1, f[m]>>] /\ \A k \in a .. m : g[k] = f[k]
    BY <2>1, <2>2
  <2> HIDE DEF g
  <2>4. ASSUME NEW k \in a + 1 .. m + 1 PROVE g[k] = step[<<k, g[k - 1]>>]
    <3>1. CASE k = m + 1
      <4>1. k - 1 = m /\ m \in a .. m
        BY <3>1
      <4> QED
        BY <2>3, <3>1, <4>1
    <3>2. CASE k # m + 1
      <4>1. k \in a + 1 .. m /\ k \in a .. m /\ k - 1 \in a .. m
        BY <3>2
      <4> QED
        BY <2>1, <2>3, <4>1
    <3> QED
      BY <3>1, <3>2
  <2>5. a \in a .. m /\ m + 1 \in a .. n
    OBVIOUS
  <2>6. Upto(g, m + 1)
    BY <2>1, <2>3, <2>4, <2>5
  <2> QED
    BY <2>5, <2>6
<1> HIDE DEF T
<1>3. \A m \in a .. n : m \in T
  BY ONLY a \in Nat, n \in Nat, <1>1, <1>2, RangeInduction
<1>4. n \in T
  BY <1>3
<1> QED
  BY <1>4 DEF T, Recurs

(* A recursion whose steps stay in V is in V.                              *)
Unfolds(g, V, a, b, n, base, step) ==
  g[a] = base /\ \A k \in b .. n : g[k - 1] \in V => g[k] = step[<<k, g[k - 1]>>]

LEMMA RecursionStays ==
  ASSUME NEW V, NEW a \in Nat, NEW b \in Nat, b = a + 1, NEW n \in Nat,
         NEW base \in V, NEW step \in [(b .. n) \X V -> V],
         NEW g, Unfolds(g, V, a, b, n, base, step)
  PROVE  \A k \in a .. n : g[k] \in V
<1> USE DEF Unfolds
<1> DEFINE T == {k \in Nat : g[k] \in V}
<1>1. a \in T
  OBVIOUS
<1>2. ASSUME NEW k \in a .. n - 1, k \in T PROVE k + 1 \in T
  <2>1. k + 1 \in b .. n /\ (k + 1) - 1 = k
    OBVIOUS
  <2>2. g[k + 1] = step[<<k + 1, g[k]>>]
    BY <1>2, <2>1
  <2> QED
    BY <1>2, <2>1, <2>2
<1> HIDE DEF T
<1>3. \A k \in a .. n : k \in T
  BY ONLY a \in Nat, n \in Nat, <1>1, <1>2, RangeInduction
<1> QED
  BY <1>3 DEF T

-----------------------------------------------------------------------------
(* A function from 1 .. n is a list.                                       *)
LEMMA ListIs ==
  ASSUME NEW n \in Nat
  PROVE  \A R : \A s \in [1 .. n -> R] : s \in Seq(R) /\ Len(s) = n
BY SeqDef, LenProperties

(* One list after another.                                                 *)
LEMMA ConcatIs ==
  ASSUME NEW R, NEW s \in Seq(R), NEW t \in Seq(R)
  PROVE  /\ s \o t \in Seq(R) /\ Len(s) \in Nat /\ Len(t) \in Nat /\ Len(s \o t) = Len(s) + Len(t)
         /\ \A i \in 1 .. Len(s) : (s \o t)[i] = s[i]
         /\ \A i \in 1 .. Len(t) : (s \o t)[Len(s) + i] = t[i]
<1>1. Len(s) \in Nat /\ Len(t) \in Nat
  BY LenProperties
<1>2. /\ s \o t \in Seq(R) /\ Len(s \o t) = Len(s) + Len(t)
      /\ \A i \in 1 .. Len(s) + Len(t) : (s \o t)[i] = IF i <= Len(s) THEN s[i] ELSE t[i - Len(s)]
  BY ConcatProperties
<1>3. ASSUME NEW i \in 1 .. Len(s) PROVE (s \o t)[i] = s[i]
  <2>1. i \in 1 .. Len(s) + Len(t) /\ i <= Len(s)
    BY <1>1
  <2> QED
    BY <1>2, <2>1
<1>4. ASSUME NEW i \in 1 .. Len(t) PROVE (s \o t)[Len(s) + i] = t[i]
  <2>1. Len(s) + i \in 1 .. Len(s) + Len(t) /\ ~(Len(s) + i <= Len(s)) /\ (Len(s) + i) - Len(s) = i
    BY <1>1
  <2> QED
    BY <1>2, <2>1
<1> QED
  BY <1>1, <1>2, <1>3, <1>4
=============================================================================
