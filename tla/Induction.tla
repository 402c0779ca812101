------------------------------ MODULE Induction ------------------------------
(***************************************************************************)
(* Induction on the naturals for sets, from the well-foundedness of <: for *)
(* what the loops of the code compute.                                     *)
(***************************************************************************)
EXTENDS Naturals, WellFoundedInduction, TLAPS

Less == {p \in Nat \X Nat : p[1] < p[2]}

LEMMA LeastElement ==
  ASSUME NEW T, T \subseteq Nat, T # {}
  PROVE  \E n \in T : \A m \in T : n <= m
<1>1. Less = OpToRel(<, Nat)
  BY DEF OpToRel, Less
<1>2. IsWellFoundedOn(Less, Nat)
  BY <1>1, NatLessThanWellFounded
<1>3. PICK n \in T : \A m \in T : ~(<<m, n>> \in Less)
  BY <1>2, WFMin
<1>4. \A m \in T : ~(m < n)
  BY <1>3 DEF Less
<1>. QED BY <1>4

LEMMA NaturalInduction ==
  ASSUME NEW S \in SUBSET Nat, 0 \in S, \A n \in S : n + 1 \in S
  PROVE  S = Nat
<1>. SUFFICES ASSUME Nat \ S # {} PROVE FALSE
  OBVIOUS
<1>1. PICK n \in Nat \ S : \A m \in Nat \ S : n <= m
  BY LeastElement
<1>2. n # 0 /\ n - 1 \in Nat
  BY <1>1
<1>3. n - 1 \in S
  BY <1>1, <1>2
<1>. QED BY <1>1, <1>2, <1>3

(* Recursion: f[n] is what the first n of k functions, applied one after   *)
(* the other, make of `start`.                                             *)
Reaches(f, start, F, k) ==
  f = [n \in 0..k |-> IF n = 0 THEN start ELSE F[n][f[n - 1]]]

LEMMA RecursionExists ==
  ASSUME NEW V, NEW start \in V, NEW k \in Nat, NEW F \in [1..k -> [V -> V]]
  PROVE  \E f \in [0..k -> V] : Reaches(f, start, F, k)
<1>. DEFINE S == {n \in Nat : n <= k => \E f \in [0..n -> V] : Reaches(f, start, F, n)}
<1>1. 0 \in S
  <2>. DEFINE f == [n \in 0..0 |-> start]
  <2>1. f \in [0..0 -> V] /\ Reaches(f, start, F, 0)
    BY DEF Reaches
  <2>. QED BY <2>1
<1>2. ASSUME NEW n \in S, n + 1 <= k
      PROVE  \E f \in [0..(n + 1) -> V] : Reaches(f, start, F, n + 1)
  <2>1. PICK f \in [0..n -> V] : Reaches(f, start, F, n)
    BY <1>2
  <2>. DEFINE g == [m \in 0..(n + 1) |-> IF m = n + 1 THEN F[n + 1][f[n]] ELSE f[m]]
  <2>2. F[n + 1] \in [V -> V] /\ n \in 0..n
    BY <1>2
  <2>3. g \in [0..(n + 1) -> V]
    BY <2>2
  <2>4. \A m \in 0..n : f[m] = IF m = 0 THEN start ELSE F[m][f[m - 1]]
    BY <2>1 DEF Reaches
  <2>5. \A m \in 0..(n + 1) : g[m] = IF m = 0 THEN start ELSE F[m][g[m - 1]]
    <3>1. \A m \in 0..n : g[m] = f[m]
      OBVIOUS
    <3>2. g[n + 1] = F[n + 1][f[n]]
      OBVIOUS
    <3>3. \A m \in 0..(n + 1) : m = n + 1 \/ (m \in 0..n /\ (m # 0 => m - 1 \in 0..n))
      OBVIOUS
    <3>4. (n + 1) - 1 = n /\ n + 1 # 0
      OBVIOUS
    <3>. HIDE DEF g
    <3>. QED BY <2>2, <2>4, <3>1, <3>2, <3>3, <3>4
  <2>6. Reaches(g, start, F, n + 1)
    BY <2>5 DEF Reaches
  <2>. HIDE DEF g
  <2>. QED BY <2>3, <2>6
<1>3. \A n \in S : n + 1 \in S
  BY <1>2
<1>4. S = Nat
  <2>. HIDE DEF S
  <2>. QED BY <1>1, <1>3, NaturalInduction DEF S
<1>. QED BY <1>4
=============================================================================
