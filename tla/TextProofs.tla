------------------------------ MODULE TextProofs ------------------------------
(***************************************************************************)
(* Theorems about TextValidators, for texts of any length and any limits:  *)
(* what `split` and `trim` compute, that accepted paths are their own      *)
(* normal form, and that kept text is accepted again.                      *)
(***************************************************************************)
EXTENDS TextValidators, Induction, SequenceTheorems, FiniteSetTheorems

-----------------------------------------------------------------------------
(* Sequences, last element first *)

LEMMA FrontAndLast ==
  ASSUME NEW S, NEW q \in Seq(S), q # << >>
  PROVE  /\ Front(q) \in Seq(S) /\ Last(q) \in S
         /\ q = Append(Front(q), Last(q))
<1>1. PICK r \in Seq(S), e \in S : q = Append(r, e)
  BY SequenceEmptyOrAppend
<1>2. Len(q) = Len(r) + 1 /\ q[Len(r) + 1] = e /\ Len(r) \in Nat
  BY <1>1
<1>3. Last(q) = e
  BY <1>2 DEF Last
<1>4. Front(q) = r
  BY <1>1, <1>2 DEF Front
<1>. QED BY <1>1, <1>3, <1>4

LEMMA FrontOfAppend ==
  ASSUME NEW S, NEW q \in Seq(S), NEW e \in S
  PROVE  Front(Append(q, e)) = q /\ Last(Append(q, e)) = e
<1>1. /\ Append(q, e) \in Seq(S) /\ Append(q, e) # << >>
  BY AppendProperties
<1>2. /\ Front(Append(q, e)) \in Seq(S) /\ Last(Append(q, e)) \in S
      /\ Append(q, e) = Append(Front(Append(q, e)), Last(Append(q, e)))
  BY <1>1, FrontAndLast
<1>. QED BY <1>2, AppendInjective

-----------------------------------------------------------------------------
(* Segments: one character more *)

(* What one character does to the segments before it. *)
Grow(parts, c) ==
  IF c = "/" THEN Append(parts, << >>) ELSE Append(Front(parts), Append(Last(parts), c))

Splits(f, t) == f = [n \in 0..Len(t) |-> IF n = 0 THEN << << >> >> ELSE Grow(f[n - 1], t[n])]

(* A text has at least one segment. *)
Parts(A) == Seq(Seq(A)) \ {<< >>}

LEMMA GrowType ==
  ASSUME NEW A, NEW parts \in Parts(A), NEW c \in A
  PROVE  Grow(parts, c) \in Parts(A)
<1>1. parts \in Seq(Seq(A)) /\ parts # << >>
  BY DEF Parts
<1>2. CASE c = "/"
  <2>1. << >> \in Seq(A)
    BY EmptySeq
  <2>. QED BY <1>1, <1>2, <2>1, AppendProperties DEF Grow, Parts
<1>3. CASE c # "/"
  <2>1. Front(parts) \in Seq(Seq(A)) /\ Append(Last(parts), c) \in Seq(A)
    BY <1>1, FrontAndLast, AppendProperties
  <2>2. /\ Append(Front(parts), Append(Last(parts), c)) \in Seq(Seq(A))
        /\ Append(Front(parts), Append(Last(parts), c)) # << >>
    <3>. HIDE DEF Front, Last
    <3>1. \A S : \A q \in Seq(S), e \in S : Append(q, e) \in Seq(S) /\ Append(q, e) # << >>
      BY AppendProperties
    <3>. QED BY <2>1, <3>1, Zenon
  <2>. QED BY <1>3, <2>2, Zenon DEF Grow, Parts
<1>. QED BY <1>2, <1>3

LEMMA SplitExists ==
  ASSUME NEW A, NEW t \in Seq(A)
  PROVE  \E f \in [0..Len(t) -> Parts(A)] : Splits(f, t)
<1>. DEFINE V == Parts(A)
            F == [n \in 1..Len(t) |-> [q \in V |-> Grow(q, t[n])]]
<1>1. << << >> >> \in V
  <2>1. << >> \in Seq(A)
    BY EmptySeq
  <2>. QED BY <2>1 DEF Parts
<1>2. F \in [1..Len(t) -> [V -> V]]
  BY GrowType
<1>3. Len(t) \in Nat
  OBVIOUS
<1>4. PICK f \in [0..Len(t) -> V] : Reaches(f, << << >> >>, F, Len(t))
  <2>. HIDE DEF V, F
  <2>. QED BY <1>1, <1>2, <1>3, RecursionExists
<1>5. \A n \in 0..Len(t) : n # 0 => F[n][f[n - 1]] = Grow(f[n - 1], t[n])
  <2>1. \A n \in 0..Len(t) : n # 0 => n \in 1..Len(t) /\ f[n - 1] \in V
    BY <1>3
  <2>. HIDE DEF V
  <2>. QED BY <2>1
<1>6. Splits(f, t)
  <2>. HIDE DEF F
  <2>. QED BY <1>4, <1>5 DEF Reaches, Splits
<1>. QED BY <1>4, <1>6

LEMMA SegmentsAre ==
  ASSUME NEW A, NEW t \in Seq(A)
  PROVE  \E f : Splits(f, t) /\ Segments(t) = f[Len(t)]
<1>. DEFINE f == CHOOSE g : Splits(g, t)
<1>1. Splits(f, t)
  BY SplitExists
<1>2. Segments(t) = f[Len(t)]
  BY DEF Segments, Splits, Grow
<1>. QED BY <1>1, <1>2

(* There is one such recursion, so a longer text continues it. *)
LEMMA SplitsAgree ==
  ASSUME NEW A, NEW t \in Seq(A), NEW u \in Seq(A), Len(t) <= Len(u),
         \A n \in 1..Len(t) : t[n] = u[n],
         NEW f, Splits(f, t), NEW g, Splits(g, u)
  PROVE  \A n \in 0..Len(t) : f[n] = g[n]
<1>1. /\ \A n \in 0..Len(t) : f[n] = IF n = 0 THEN << << >> >> ELSE Grow(f[n - 1], t[n])
      /\ \A n \in 0..Len(u) : g[n] = IF n = 0 THEN << << >> >> ELSE Grow(g[n - 1], u[n])
  BY Zenon DEF Splits
<1>. DEFINE S == {n \in Nat : n <= Len(t) => f[n] = g[n]}
<1>2. 0 \in S
  BY <1>1
<1>3. ASSUME NEW n \in S PROVE n + 1 \in S
  <2>1. n + 1 <= Len(t) => /\ f[n + 1] = Grow(f[n], t[n + 1])
                           /\ g[n + 1] = Grow(g[n], u[n + 1])
                           /\ t[n + 1] = u[n + 1] /\ f[n] = g[n]
    BY <1>1
  <2>. QED BY <2>1
<1>4. S = Nat
  <2>. HIDE DEF S
  <2>. QED BY <1>2, <1>3, NaturalInduction DEF S
<1>. QED BY <1>4

LEMMA SegmentsOfNone == Segments(<< >>) = << << >> >>
<1>1. << >> \in Seq({}) /\ Len(<< >>) = 0
  BY EmptySeq
<1>2. PICK f : Splits(f, << >>) /\ Segments(<< >>) = f[0]
  BY <1>1, SegmentsAre
<1>. QED BY <1>1, <1>2 DEF Splits

LEMMA SegmentsOfOneMore ==
  ASSUME NEW A, NEW t \in Seq(A), NEW c \in A
  PROVE  Segments(Append(t, c)) = Grow(Segments(t), c)
<1>. DEFINE u == Append(t, c)
<1>1. /\ u \in Seq(A) /\ Len(u) = Len(t) + 1 /\ u[Len(u)] = c /\ Len(t) \in Nat
      /\ \A n \in 1..Len(t) : t[n] = u[n]
  BY AppendProperties
<1>. HIDE DEF u
<1>2. PICK f : Splits(f, t) /\ Segments(t) = f[Len(t)]
  BY SegmentsAre
<1>3. PICK g : Splits(g, u) /\ Segments(u) = g[Len(u)]
  BY <1>1, SegmentsAre
<1>4. g[Len(u)] = Grow(g[Len(t)], c)
  BY <1>1, <1>3 DEF Splits
<1>5. f[Len(t)] = g[Len(t)]
  BY <1>1, <1>2, <1>3, SplitsAgree
<1>. QED BY <1>2, <1>3, <1>4, <1>5 DEF u

LEMMA SegmentsType ==
  ASSUME NEW A, NEW t \in Seq(A)
  PROVE  Segments(t) \in Parts(A)
<1>1. PICK f \in [0..Len(t) -> Parts(A)] : Splits(f, t)
  BY SplitExists
<1>2. PICK g : Splits(g, t) /\ Segments(t) = g[Len(t)]
  BY SegmentsAre
<1>3. f[Len(t)] = g[Len(t)] /\ Len(t) \in 0..Len(t)
  BY <1>1, <1>2, SplitsAgree
<1>. QED BY <1>1, <1>2, <1>3

-----------------------------------------------------------------------------
(* Segments: no two texts have the same *)

LEMMA GrowIsInjective ==
  ASSUME NEW A, NEW p \in Parts(A), NEW q \in Parts(A), NEW c \in A, NEW d \in A,
         Grow(p, c) = Grow(q, d)
  PROVE  p = q /\ c = d
<1>. DEFINE fp == Front(p)
            lp == Last(p)
            fq == Front(q)
            lq == Last(q)
<1>1. /\ p \in Seq(Seq(A)) /\ fp \in Seq(Seq(A)) /\ lp \in Seq(A)
      /\ q \in Seq(Seq(A)) /\ fq \in Seq(Seq(A)) /\ lq \in Seq(A)
  BY FrontAndLast DEF Parts
<1>2. p = Append(fp, lp) /\ q = Append(fq, lq)
  BY FrontAndLast DEF Parts
<1>3. /\ Grow(p, c) = IF c = "/" THEN Append(p, << >>) ELSE Append(fp, Append(lp, c))
      /\ Grow(q, d) = IF d = "/" THEN Append(q, << >>) ELSE Append(fq, Append(lq, d))
  BY DEF Grow
<1>. HIDE DEF fp, lp, fq, lq
<1>4. /\ Append(lp, c) \in Seq(A) /\ Append(lp, c) # << >>
      /\ Append(lq, d) \in Seq(A) /\ Append(lq, d) # << >>
  <2>1. \A r \in Seq(A), e \in A : Append(r, e) \in Seq(A) /\ Append(r, e) # << >>
    BY AppendProperties
  <2>. QED BY <1>1, <2>1, Zenon
<1>5. << >> \in Seq(A)
  BY EmptySeq
<1>6. CASE c = "/" /\ d = "/"
  <2>1. Append(p, << >>) = Append(q, << >>)
    BY <1>3, <1>6
  <2>2. p = q
    BY <1>1, <1>5, <2>1, AppendInjective
  <2>. QED BY <1>6, <2>2
<1>7. CASE c # "/" /\ d # "/"
  <2>1. Append(fp, Append(lp, c)) = Append(fq, Append(lq, d))
    BY <1>3, <1>7
  <2>2. fp = fq /\ Append(lp, c) = Append(lq, d)
    BY <1>1, <1>4, <2>1, AppendInjective
  <2>3. lp = lq /\ c = d
    BY <1>1, <2>2, AppendInjective
  <2>. QED BY <1>2, <2>2, <2>3
<1>8. CASE c = "/" /\ d # "/"
  <2>1. Append(p, << >>) = Append(fq, Append(lq, d))
    BY <1>3, <1>8
  <2>2. << >> = Append(lq, d)
    BY <1>1, <1>4, <1>5, <2>1, AppendInjective
  <2>. QED BY <1>4, <2>2
<1>9. CASE c # "/" /\ d = "/"
  <2>1. Append(fp, Append(lp, c)) = Append(q, << >>)
    BY <1>3, <1>9
  <2>2. << >> = Append(lp, c)
    BY <1>1, <1>4, <1>5, <2>1, AppendInjective
  <2>. QED BY <1>4, <2>2
<1>. QED BY <1>6, <1>7, <1>8, <1>9

LEMMA GrowIsNotFirst ==
  ASSUME NEW A, NEW p \in Parts(A), NEW c \in A
  PROVE  Grow(p, c) # << << >> >>
<1>1. /\ p \in Seq(Seq(A)) /\ p # << >>
      /\ Front(p) \in Seq(Seq(A)) /\ Last(p) \in Seq(A) /\ << >> \in Seq(A)
  BY FrontAndLast, EmptySeq DEF Parts
<1>2. Append(Last(p), c) \in Seq(A) \ {<< >>}
  BY <1>1, AppendProperties
<1>3. << << >> >> = Append(<< >>, << >>) /\ << >> \in Seq(Seq(A))
  OBVIOUS
<1>. HIDE DEF Front, Last
<1>4. \A r, z \in Seq(Seq(A)), e, f \in Seq(A) : Append(r, e) = Append(z, f) => r = z /\ e = f
  BY AppendInjective
<1>5. Append(p, << >>) # Append(<< >>, << >>)
  BY <1>1, <1>3, <1>4, Zenon
<1>6. Append(Front(p), Append(Last(p), c)) # Append(<< >>, << >>)
  BY <1>1, <1>2, <1>3, <1>4, Zenon
<1>. QED BY <1>3, <1>5, <1>6, Zenon DEF Grow

(* split('/') loses nothing.                                               *)
LEMMA SegmentsDetermine ==
  ASSUME NEW A, NEW t \in Seq(A), NEW u \in Seq(A), Segments(t) = Segments(u)
  PROVE  t = u
<1>. DEFINE S == {n \in Nat : \A v, w \in Seq(A) :
                                Len(v) = n /\ Segments(v) = Segments(w) => v = w}
<1>1. ASSUME NEW v \in Seq(A), v # << >>
      PROVE  \E r \in Seq(A), c \in A :
               /\ v = Append(r, c) /\ Len(v) = Len(r) + 1
               /\ Segments(r) \in Parts(A) /\ Segments(v) = Grow(Segments(r), c)
  <2>1. PICK r \in Seq(A), c \in A : v = Append(r, c)
    BY <1>1, SequenceEmptyOrAppend
  <2>2. Segments(r) \in Parts(A) /\ Segments(v) = Grow(Segments(r), c)
    BY <2>1, SegmentsType, SegmentsOfOneMore
  <2>3. Len(v) = Len(r) + 1
    BY <2>1, AppendProperties
  <2>. QED BY <2>1, <2>2, <2>3
<1>2. 0 \in S
  <2>. SUFFICES ASSUME NEW v \in Seq(A), NEW w \in Seq(A), Len(v) = 0,
                       Segments(v) = Segments(w), w # << >>
                PROVE  FALSE
    BY EmptySeq
  <2>1. Segments(w) = << << >> >>
    <3>1. v = << >>
      OBVIOUS
    <3>. QED BY <3>1, SegmentsOfNone
  <2>. QED BY <1>1, <2>1, GrowIsNotFirst
<1>3. ASSUME NEW n \in S PROVE n + 1 \in S
  <2>. SUFFICES ASSUME NEW v \in Seq(A), NEW w \in Seq(A), Len(v) = n + 1,
                       Segments(v) = Segments(w)
                PROVE  v = w
    OBVIOUS
  <2>1. v # << >>
    OBVIOUS
  <2>2. PICK r \in Seq(A), c \in A :
          /\ v = Append(r, c) /\ Len(v) = Len(r) + 1
          /\ Segments(r) \in Parts(A) /\ Segments(v) = Grow(Segments(r), c)
    BY <1>1, <2>1
  <2>3. w # << >>
    BY <2>2, GrowIsNotFirst, SegmentsOfNone
  <2>4. PICK z \in Seq(A), d \in A :
          /\ w = Append(z, d) /\ Len(w) = Len(z) + 1
          /\ Segments(z) \in Parts(A) /\ Segments(w) = Grow(Segments(z), d)
    BY <1>1, <2>3
  <2>5. Segments(r) = Segments(z) /\ c = d
    <3>1. Grow(Segments(r), c) = Grow(Segments(z), d)
      BY <2>2, <2>4
    <3>. QED BY <2>2, <2>4, <3>1, GrowIsInjective
  <2>6. r = z
    BY <2>2, <2>5
  <2>. QED BY <2>2, <2>4, <2>5, <2>6
<1>4. S = Nat
  <2>. HIDE DEF S
  <2>. QED BY <1>2, <1>3, NaturalInduction DEF S
<1>5. Len(t) \in S
  BY <1>4
<1>. QED BY <1>5

-----------------------------------------------------------------------------
(* Walk: a path without empty and dotted segments goes straight down *)

Root == [path |-> << >>, below |-> TRUE]

Walks(f, parts) ==
  f = [n \in 0..Len(parts) |-> IF n = 0 THEN Root ELSE Step(f[n - 1], parts[n])]

LEMMA WalksStraightDown ==
  ASSUME NEW V, NEW parts \in Seq(V),
         \A i \in 1..Len(parts) : parts[i] \notin {<< >>, <<".">>, <<".", ".">>},
         NEW n \in 1..Len(parts)
  PROVE  Step([path |-> SubSeq(parts, 1, n - 1), below |-> TRUE], parts[n])
           = [path |-> SubSeq(parts, 1, n), below |-> TRUE]
<1>. DEFINE w == [path |-> SubSeq(parts, 1, n - 1), below |-> TRUE]
<1>1. SubSeq(parts, 1, n) = Append(SubSeq(parts, 1, n - 1), parts[n])
  OBVIOUS
<1>2. w.path = SubSeq(parts, 1, n - 1) /\ w.below = TRUE
  OBVIOUS
<1>3. Step(w, parts[n]) = [path |-> Append(w.path, parts[n]), below |-> w.below]
  <2>. HIDE DEF w
  <2>. QED BY Zenon DEF Step
<1>. QED BY <1>1, <1>2, <1>3, Zenon

LEMMA WalkOfNormal ==
  ASSUME NEW A, NEW t \in Seq(A),
         \A i \in DOMAIN Segments(t) : Segments(t)[i] \notin {<< >>, <<".">>, <<".", ".">>}
  PROVE  Walk(t).below /\ Walk(t).path = Segments(t)
<1>. DEFINE parts == Segments(t)
            g == [n \in 0..Len(parts) |-> [path |-> SubSeq(parts, 1, n), below |-> TRUE]]
            f == CHOOSE h : Walks(h, parts)
<1>1. parts \in Seq(Seq(A)) /\ Len(parts) \in Nat
  BY SegmentsType DEF Parts
<1>2. /\ g[0] = Root
      /\ \A n \in 1..Len(parts) : Step(g[n - 1], parts[n]) = g[n]
  <2>1. SubSeq(parts, 1, 0) = << >>
    BY SubSeqEmpty
  <2>2. g[0] = Root
    <3>1. g[0] = [path |-> SubSeq(parts, 1, 0), below |-> TRUE]
      <4>. HIDE DEF parts
      <4>. QED BY <1>1
    <3>. QED BY <2>1, <3>1 DEF Root
  <2>3. ASSUME NEW n \in 1..Len(parts)
        PROVE  Step(g[n - 1], parts[n]) = g[n]
    <3>1. Step([path |-> SubSeq(parts, 1, n - 1), below |-> TRUE], parts[n])
            = [path |-> SubSeq(parts, 1, n), below |-> TRUE]
      <4>1. \A i \in 1..Len(parts) : parts[i] \notin {<< >>, <<".">>, <<".", ".">>}
        BY <1>1
      <4>. HIDE DEF parts
      <4>. QED BY <1>1, <4>1, WalksStraightDown
    <3>2. n \in 0..Len(parts) /\ n - 1 \in 0..Len(parts)
      BY <1>1
    <3>3. /\ g[n] = [path |-> SubSeq(parts, 1, n), below |-> TRUE]
          /\ g[n - 1] = [path |-> SubSeq(parts, 1, n - 1), below |-> TRUE]
      <4>. HIDE DEF parts
      <4>. QED BY <3>2
    <3>. QED BY <3>1, <3>3
  <2>. QED BY <2>2, <2>3
<1>3. Walks(g, parts)
  <2>1. \A n \in 0..Len(parts) : g[n] = IF n = 0 THEN Root ELSE Step(g[n - 1], parts[n])
    <3>. HIDE DEF g, parts
    <3>1. \A n \in 0..Len(parts) : n = 0 \/ n \in 1..Len(parts)
      BY <1>1
    <3>. QED BY <1>2, <3>1
  <2>2. g = [n \in 0..Len(parts) |-> g[n]]
    <3>. HIDE DEF parts
    <3>. QED OBVIOUS
  <2>. HIDE DEF g, parts
  <2>. QED BY <2>1, <2>2 DEF Walks
<1>4. Walks(f, parts)
  <2>. HIDE DEF g, parts
  <2>. QED BY <1>3
<1>5. Walk(t) = f[Len(parts)]
  BY DEF Walk, Walks, Root
<1>. HIDE DEF f, parts
<1>6. f[0] = Root /\ \A n \in 1..Len(parts) : f[n] = Step(f[n - 1], parts[n])
  <2>1. \A n \in 0..Len(parts) : f[n] = IF n = 0 THEN Root ELSE Step(f[n - 1], parts[n])
    BY <1>4, Zenon DEF Walks
  <2>2. 0 \in 0..Len(parts) /\ \A n \in 1..Len(parts) : n \in 0..Len(parts) /\ n # 0
    BY <1>1
  <2>. QED BY <2>1, <2>2, Zenon
<1>. DEFINE S == {n \in Nat : n <= Len(parts) => f[n] = g[n]}
<1>7. 0 \in S
  BY <1>2, <1>6
<1>8. ASSUME NEW n \in S PROVE n + 1 \in S
  <2>1. ASSUME n + 1 <= Len(parts) PROVE f[n + 1] = g[n + 1]
    <3>. HIDE DEF g
    <3>1. n + 1 \in 1..Len(parts) /\ (n + 1) - 1 = n /\ f[n] = g[n]
      BY <2>1, <1>1
    <3>. QED BY <1>2, <1>6, <3>1
  <2>. HIDE DEF g
  <2>. QED BY <2>1
<1>9. S = Nat
  <2>. HIDE DEF S
  <2>. QED BY <1>7, <1>8, NaturalInduction DEF S
<1>10. f[Len(parts)] = [path |-> SubSeq(parts, 1, Len(parts)), below |-> TRUE]
  <2>1. Len(parts) \in Nat /\ Len(parts) <= Len(parts) /\ Len(parts) \in 0..Len(parts)
    BY <1>1
  <2>2. f[Len(parts)] = g[Len(parts)]
    <3>. HIDE DEF g
    <3>. QED BY <1>9, <2>1
  <2>. QED BY <2>1, <2>2
<1>11. SubSeq(parts, 1, Len(parts)) = parts
  BY <1>1, SubSeqFull
<1>. QED BY <1>5, <1>10, <1>11 DEF parts

-----------------------------------------------------------------------------
(* Paths *)

TextOK == text \in Seq(Chars)

LEMMA TextType == Spec => []TextOK
<1>1. Init => TextOK
  BY EmptySeq DEF Init, TextOK
<1>2. TextOK /\ [Next]_text => TextOK'
  <2>. SUFFICES ASSUME TextOK, [Next]_text PROVE TextOK'
    OBVIOUS
  <2>1. CASE Clear
    BY <2>1, EmptySeq DEF Clear, TextOK
  <2>2. ASSUME NEW c \in Chars, Type(c) PROVE TextOK'
    BY <2>2, AppendProperties DEF Type, TextOK
  <2>3. CASE UNCHANGED text
    BY <2>3 DEF TextOK
  <2>. QED BY <2>1, <2>2, <2>3, Zenon DEF Next
<1>. QED BY <1>1, <1>2, PTL DEF Spec

LEMMA AcceptedIsNormal ==
  ASSUME NEW t \in Seq(Chars), valid_item_name(t) \/ valid_secret_reference(t)
  PROVE  Walk(t).below /\ Walk(t).path = Segments(t)
<1>1. RelativePath(t)
  BY DEF valid_item_name, valid_secret_reference
<1>. QED BY <1>1, WalkOfNormal DEF RelativePath

(* An accepted item name or secret reference is its own normal form and    *)
(* stays below the root it is resolved against (lib.rs:1058, lib.rs:1089). *)
THEOREM PathsAreNormal == Spec => []PathsAreCanonical
<1>1. TextOK => PathsAreCanonical
  BY AcceptedIsNormal DEF PathsAreCanonical, TextOK
<1>. QED BY <1>1, TextType, PTL

(* So two accepted names that differ never lead to the same place, and the *)
(* duplicate check of create_export, which compares texts, is one on paths *)
(* (lib.rs:287).                                                           *)
THEOREM AcceptedPathsDiffer ==
  ASSUME NEW t \in Seq(Chars), NEW u \in Seq(Chars),
         valid_item_name(t) \/ valid_secret_reference(t),
         valid_item_name(u) \/ valid_secret_reference(u),
         Walk(t).path = Walk(u).path
  PROVE  t = u
BY AcceptedIsNormal, SegmentsDetermine

-----------------------------------------------------------------------------
(* trim *)

Solid(t) == {i \in DOMAIN t : t[i] \notin White}

LEMMA MinAndMax ==
  ASSUME NEW n \in Nat, NEW T \in SUBSET (1..n), T # {}
  PROVE  /\ Min(T) \in T /\ \A x \in T : Min(T) <= x
         /\ Max(T) \in T /\ \A x \in T : x <= Max(T)
<1>1. PICK a \in T : \A x \in T : a <= x
  <2>1. T \subseteq Nat
    OBVIOUS
  <2>. QED BY <2>1, LeastElement
<1>2. \E b \in T : \A x \in T : b >= x
  <2>. DEFINE D == {n - x : x \in T}
  <2>1. D \subseteq Nat /\ D # {}
    OBVIOUS
  <2>2. PICK d \in D : \A e \in D : d <= e
    <3>. HIDE DEF D
    <3>. QED BY <2>1, LeastElement
  <2>3. PICK b \in T : d = n - b
    BY <2>2
  <2>4. \A x \in T : n - b <= n - x
    BY <2>2, <2>3
  <2>. QED BY <2>4
<1>3. Min(T) \in T /\ \A x \in T : Min(T) <= x
  BY <1>1 DEF Min
<1>4. Max(T) \in T /\ \A x \in T : Max(T) >= x
  BY <1>2 DEF Max
<1>. QED BY <1>3, <1>4

(* What trim leaves runs from the first solid character to the last one.   *)
LEMMA TrimIs ==
  ASSUME NEW A, NEW t \in Seq(A), Solid(t) # {}
  PROVE  \E a, b \in 1..Len(t) :
           /\ a <= b /\ trim(t) = SubSeq(t, a, b)
           /\ trim(t) \in Seq(A) /\ Len(trim(t)) = b - a + 1
           /\ \A i \in 1..Len(trim(t)) : trim(t)[i] = t[a + i - 1]
           /\ t[a] \notin White /\ t[b] \notin White
<1>. DEFINE a == Min(Solid(t))
            b == Max(Solid(t))
<1>1. Len(t) \in Nat /\ Solid(t) \subseteq 1..Len(t)
  BY DEF Solid
<1>2. /\ a \in Solid(t) /\ \A x \in Solid(t) : a <= x
      /\ b \in Solid(t) /\ \A x \in Solid(t) : x <= b
  BY <1>1, MinAndMax
<1>3. trim(t) = SubSeq(t, a, b)
  BY DEF trim, Solid
<1>. HIDE DEF a, b
<1>4. /\ a \in 1..Len(t) /\ b \in 1..Len(t) /\ a <= b
      /\ t[a] \notin White /\ t[b] \notin White
  BY <1>1, <1>2 DEF Solid
<1>5. a \in Int /\ b \in Int /\ \A i \in a..b : t[i] \in A
  BY <1>4
<1>6. /\ trim(t) \in Seq(A) /\ Len(trim(t)) = b - a + 1
      /\ \A i \in 1..(b - a + 1) : trim(t)[i] = t[a + i - 1]
  BY <1>3, <1>4, <1>5, SubSeqProperties
<1>. QED BY <1>3, <1>4, <1>6

LEMMA TrimOfNoSolid ==
  ASSUME NEW t, trim(t) # << >>
  PROVE  Solid(t) # {}
BY DEF trim, Solid

LEMMA TrimAgain ==
  ASSUME NEW A, NEW t \in Seq(A), Solid(t) # {}
  PROVE  trim(t) # << >> /\ trim(trim(t)) = trim(t)
<1>. DEFINE u == trim(t)
<1>1. PICK a, b \in 1..Len(t) :
        /\ a <= b /\ u \in Seq(A) /\ Len(u) = b - a + 1
        /\ \A i \in 1..Len(u) : u[i] = t[a + i - 1]
        /\ t[a] \notin White /\ t[b] \notin White
  BY TrimIs
<1>. HIDE DEF u
<1>2. /\ Len(u) \in Nat /\ 1 \in 1..Len(u) /\ Len(u) \in 1..Len(u)
      /\ a + 1 - 1 = a /\ a + Len(u) - 1 = b /\ DOMAIN u = 1..Len(u)
  BY <1>1
<1>3. u[1] \notin White /\ u[Len(u)] \notin White
  BY <1>1, <1>2
<1>4. 1 \in Solid(u) /\ Len(u) \in Solid(u) /\ Solid(u) \subseteq 1..Len(u)
  BY <1>2, <1>3 DEF Solid
<1>5. /\ Min(Solid(u)) \in Solid(u) /\ \A x \in Solid(u) : Min(Solid(u)) <= x
      /\ Max(Solid(u)) \in Solid(u) /\ \A x \in Solid(u) : x <= Max(Solid(u))
  BY <1>2, <1>4, MinAndMax
<1>6. Min(Solid(u)) = 1 /\ Max(Solid(u)) = Len(u)
  BY <1>2, <1>4, <1>5
<1>7. trim(u) = SubSeq(u, 1, Len(u))
  BY <1>4, <1>6 DEF trim, Solid
<1>8. trim(u) = u
  BY <1>1, <1>7, SubSeqFull
<1>. QED BY <1>2, <1>8 DEF u

(* Trimming keeps a text within a limit measured in bytes.                 *)
LEMMA TrimIsNoLonger ==
  ASSUME NEW A, NEW t \in Seq(A), Solid(t) # {}
  PROVE  len(trim(t)) \in Nat /\ len(t) \in Nat /\ len(trim(t)) <= len(t)
<1>. DEFINE Wide(v) == {i \in DOMAIN v : v[i] = "nbsp"}
            u == trim(t)
<1>1. PICK a, b \in 1..Len(t) :
        /\ a <= b /\ u \in Seq(A) /\ Len(u) = b - a + 1
        /\ \A i \in 1..Len(u) : u[i] = t[a + i - 1]
  BY TrimIs
<1>. HIDE DEF u
<1>2. ASSUME NEW v \in Seq(A)
      PROVE  IsFiniteSet(Wide(v)) /\ Cardinality(Wide(v)) \in Nat /\ Len(v) \in Nat
  <2>1. Wide(v) \subseteq 1..Len(v) /\ Len(v) \in Nat
    OBVIOUS
  <2>2. IsFiniteSet(1..Len(v))
    BY <2>1, FS_Interval
  <2>. HIDE DEF Wide
  <2>3. IsFiniteSet(Wide(v))
    BY <2>1, <2>2, FS_Subset
  <2>. QED BY <2>1, <2>3, FS_CardinalityType
<1>3. Cardinality(Wide(u)) <= Cardinality(Wide(t))
  <2>. DEFINE f == [i \in Wide(u) |-> a + i - 1]
  <2>1. \A i \in 1..Len(u) : a + i - 1 \in 1..Len(t)
    BY <1>1
  <2>2. \A i \in Wide(u) : i \in 1..Len(u) /\ a + i - 1 \in Wide(t)
    BY <1>1, <2>1
  <2>3. \A i, j \in Wide(u) : a + i - 1 = a + j - 1 => i = j
    BY <2>2
  <2>. HIDE DEF Wide
  <2>4. f \in Injection(Wide(u), Wide(t))
    BY <2>2, <2>3 DEF Injection, IsInjective
  <2>. HIDE DEF f
  <2>5. IsFiniteSet(Wide(t))
    BY <1>2
  <2>. QED BY <2>4, <2>5, FS_Injection
<1>4. len(u) = Len(u) + Cardinality(Wide(u)) /\ len(t) = Len(t) + Cardinality(Wide(t))
  BY DEF len
<1>5. /\ Cardinality(Wide(u)) \in Nat /\ Cardinality(Wide(t)) \in Nat
      /\ Len(u) \in Nat /\ Len(t) \in Nat /\ Len(u) <= Len(t)
  <2>. HIDE DEF Wide
  <2>1. Len(u) \in Nat /\ Len(t) \in Nat
    BY <1>1, <1>2
  <2>2. Len(u) <= Len(t)
    BY <1>1, <2>1
  <2>. QED BY <1>1, <1>2, <2>1, <2>2, Zenon
<1>. HIDE DEF Wide
<1>. QED BY <1>3, <1>4, <1>5 DEF u

LEMMA KeptIsAcceptedAgain ==
  ASSUME NEW t \in Seq(Chars), NEW limit \in Nat, FreeText(t, limit)
  PROVE  FreeText(trim(t), limit) /\ trim(trim(t)) = trim(t)
<1>1. Solid(t) # {}
  BY TrimOfNoSolid DEF FreeText
<1>2. trim(t) # << >> /\ trim(trim(t)) = trim(t)
  BY <1>1, TrimAgain
<1>3. len(trim(t)) <= limit
  BY <1>1, TrimIsNoLonger DEF FreeText
<1>4. \A i \in DOMAIN trim(t) : trim(t)[i] \notin Control
  <2>1. PICK a, b \in 1..Len(t) :
          /\ a <= b /\ trim(t) \in Seq(Chars) /\ Len(trim(t)) = b - a + 1
          /\ \A i \in 1..Len(trim(t)) : trim(t)[i] = t[a + i - 1]
    BY <1>1, TrimIs
  <2>2. DOMAIN trim(t) = 1..Len(trim(t)) /\ DOMAIN t = 1..Len(t)
    BY <2>1
  <2>3. \A i \in 1..Len(trim(t)) : a + i - 1 \in 1..Len(t)
    BY <2>1
  <2>. QED BY <2>1, <2>2, <2>3 DEF FreeText
<1>. QED BY <1>2, <1>3, <1>4 DEF FreeText

(* A stored reason or receipt, sent back, is accepted and is the same      *)
(* text: trimming it twice is trimming it once, and makes it no longer     *)
(* (lib.rs:445, lib.rs:848).                                               *)
THEOREM KeptTextIsKept == Spec => []KeptTextIsAcceptedAgain
<1>1. ReasonLimit \in Nat /\ ReceiptLimit \in Nat
  BY LimitAssumption
<1>2. TextOK => KeptTextIsAcceptedAgain
  BY <1>1, KeptIsAcceptedAgain
  DEF KeptTextIsAcceptedAgain, ReasonIsValid, ReceiptIsValid, TextOK
<1>. QED BY <1>2, TextType, PTL

=============================================================================
