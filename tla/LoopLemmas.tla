---------------------------- MODULE LoopLemmas -----------------------------
(***************************************************************************)
(* What the proofs about loops rest on: a set of numbers has a least       *)
(* element, numbers are reached by induction, and a loop of any number of  *)
(* turns has a run, which the recursive functions of the models describe.  *)
(***************************************************************************)
EXTENDS Integers, WellFoundedInduction, TLAPS

(* Any set of natural numbers that is not empty has a least element.       *)
LEMMA LeastNatural ==
  ASSUME NEW T, T \subseteq Nat, T # {}
  PROVE  \E n \in T : \A m \in T : n <= m
<1> DEFINE Less == OpToRel(<, Nat)
<1>1. IsWellFoundedOn(Less, Nat)
  BY NatLessThanWellFounded, Zenon
<1>2. \A x, y \in Nat : x < y => <<x, y>> \in Less
  BY DEF OpToRel
<1> HIDE DEF Less
<1>3. PICK R : IsWellFoundedOn(R, Nat) /\ (\A x, y \in Nat : x < y => <<x, y>> \in R)
  BY <1>1, <1>2, Zenon
<1>4. PICK n \in T : \A m \in T : ~ (<<m, n>> \in R)
  BY <1>3, WFMin, Zenon
<1>5. ASSUME NEW m \in T PROVE n <= m
  <2>1. ~ (m < n)
    BY <1>3, <1>4, Zenon
  <2> QED
    BY <2>1
<1> QED
  BY <1>5

(* What a loop of n turns computes, turn after turn. *)
Runs(n, S, first, turn) ==
  {f \in [0 .. n -> S] : f[0] = first /\ \A i \in 1 .. n : f[i] = turn[i][f[i - 1]]}

(* Whatever its turns do, a loop over n turns has a run.                   *)
LEMMA LoopRuns ==
  ASSUME NEW n \in Nat, NEW S, NEW first \in S, NEW turn \in [1 .. n -> [S -> S]]
  PROVE  Runs(n, S, first, turn) # {}
<1> DEFINE T == {m \in 0 .. n : Runs(m, S, first, turn) = {}}
<1>1. SUFFICES ASSUME n \in T PROVE FALSE
  OBVIOUS
<1>2. PICK m \in T : \A k \in T : m <= k
  <2>1. T \subseteq Nat /\ T # {}
    BY <1>1
  <2> HIDE DEF T
  <2> QED
    BY <2>1, LeastNatural
<1>3. m \in Nat /\ m <= n /\ Runs(m, S, first, turn) = {}
  OBVIOUS
<1>4. CASE m = 0
  <2> DEFINE g == [i \in 0 .. 0 |-> first]
  <2>1. g \in [0 .. 0 -> S] /\ g[0] = first
    OBVIOUS
  <2>2. g \in Runs(0, S, first, turn)
    BY <2>1 DEF Runs
  <2> QED
    BY <1>3, <1>4, <2>2
<1>5. CASE m # 0
  <2>1. m - 1 \in 0 .. n /\ m \in 1 .. n
    BY <1>3, <1>5
  <2>2. m - 1 \notin T
    <3>1. ~ (m <= m - 1)
      BY <1>3
    <3> HIDE DEF T
    <3> QED
      BY <1>2, <3>1
  <2>3. PICK f \in Runs(m - 1, S, first, turn) : TRUE
    BY <2>1, <2>2
  <2> DEFINE g == [i \in 0 .. m |-> IF i < m THEN f[i] ELSE turn[m][f[m - 1]]]
  <2>4. /\ f \in [0 .. m - 1 -> S] /\ f[0] = first
        /\ \A i \in 1 .. m - 1 : f[i] = turn[i][f[i - 1]]
    BY <2>3 DEF Runs
  <2>5. turn[m][f[m - 1]] \in S
    BY <1>3, <1>5, <2>1, <2>4
  <2>6. g \in [0 .. m -> S] /\ g[0] = first
    BY <1>3, <1>5, <2>4, <2>5
  <2>7. ASSUME NEW i \in 1 .. m PROVE g[i] = turn[i][g[i - 1]]
    <3>1. i - 1 \in 0 .. m /\ i - 1 < m /\ g[i - 1] = f[i - 1]
      BY <1>3
    <3>2. CASE i < m
      BY <1>3, <2>4, <3>1, <3>2
    <3>3. CASE i = m
      BY <1>3, <3>1, <3>3
    <3> QED
      BY <1>3, <3>2, <3>3
  <2> HIDE DEF g
  <2>8. g \in Runs(m, S, first, turn)
    BY <2>6, <2>7 DEF Runs
  <2> QED
    BY <1>3, <2>8
<1> QED
  BY <1>4, <1>5

(* What holds of 0, and of n + 1 if of n < m, holds up to m.               *)
LEMMA UpTo ==
  ASSUME NEW m \in Nat, NEW T, 0 \in T,
         \A n \in 0 .. m - 1 : n \in T => n + 1 \in T
  PROVE  0 .. m \subseteq T
<1> DEFINE U == {n \in 0 .. m : n \notin T}
<1>1. SUFFICES ASSUME U # {} PROVE FALSE
  OBVIOUS
<1>2. PICK n \in U : \A k \in U : n <= k
  <2>1. U \subseteq Nat
    OBVIOUS
  <2> HIDE DEF U
  <2> QED
    BY <1>1, <2>1, LeastNatural
<1>3. n \in 0 .. m /\ n \notin T /\ n # 0
  OBVIOUS
<1>4. n - 1 \in 0 .. m - 1 /\ n - 1 \notin T /\ n - 1 \in 0 .. m
  BY <1>3
<1>5. n - 1 \in U
  BY <1>4
<1>6. n <= n - 1
  <2> HIDE DEF U
  <2> QED
    BY <1>2, <1>5
<1> QED
  BY <1>3, <1>6
=============================================================================
