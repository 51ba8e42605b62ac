---------------------------- MODULE RankingProofs ----------------------------
(***************************************************************************)
(* Proofs about the rankings: an answer of the search is the fusion of its *)
(* two rankings, and the suggestions are the best ones the caps allow.     *)
(*                                                                         *)
(* What a fold or an ordering computes is proved by induction, stated      *)
(* about sets of naturals and finite sets (LeastOf, ByInduction): the      *)
(* lemmas take sets and functions where the library's take operators.      *)
(***************************************************************************)
EXTENDS Ranking, FiniteSetTheorems, SequenceTheorems, WellFoundedInduction, TLAPS

-----------------------------------------------------------------------------
(* Naturals *)

\* A set of naturals has a least element.
LEMMA LeastOf ==
  ASSUME NEW T \in SUBSET Nat, T # {}
  PROVE  \E x \in T : \A y \in T : x <= y
<1>1. IsWellFoundedOn(OpToRel(<, Nat), Nat)
    BY NatLessThanWellFounded
<1>2. PICK x \in T : \A y \in T : ~ (<<y, x>> \in OpToRel(<, Nat))
    BY <1>1, WFMin
<1>3. \A y \in T : ~ (y < x)
    BY <1>2 DEF OpToRel
<1> QED BY <1>3

\* What holds of 0 and of a successor holds of all.
LEMMA ByInduction ==
  ASSUME NEW T, 0 \in T, \A n \in Nat : n \in T => n + 1 \in T
  PROVE  Nat \subseteq T
<1> SUFFICES ASSUME Nat \ T # {} PROVE FALSE
    OBVIOUS
<1>1. PICK n \in Nat \ T : \A m \in Nat \ T : n <= m
    BY LeastOf
<1>2. n # 0 /\ n - 1 \in Nat
    BY <1>1
<1>3. n - 1 \in T
    BY <1>1, <1>2
<1> QED BY <1>1, <1>2, <1>3

-----------------------------------------------------------------------------
(* Orders *)

StrictOrder(S, R) ==
  /\ \A x \in S : <<x, x>> \notin R
  /\ \A x, y \in S : x # y => <<x, y>> \in R \/ <<y, x>> \in R
  /\ \A x, y, z \in S : <<x, y>> \in R /\ <<y, z>> \in R => <<x, z>> \in R

\* In a strict order of a finite set the elements have as many before them as
\* their place says, and every place is taken: InOrder lists all of S, in order.
LEMMA OrderLists ==
  ASSUME NEW S, NEW R, IsFiniteSet(S), StrictOrder(S, R)
  PROVE  LET s == InOrder(S, R)
             n == Cardinality(S)
         IN  /\ n \in Nat /\ s \in [1..n -> S] /\ s \in Seq(S) /\ Len(s) = n
             /\ \A i, j \in 1..n : <<s[i], s[j]>> \in R <=> i < j
             /\ \A i, j \in 1..n : s[i] = s[j] => i = j
             /\ \A x \in S : \E i \in 1..n : s[i] = x
<1> DEFINE n == Cardinality(S)
           s == InOrder(S, R)
           before(x) == {y \in S : <<y, x>> \in R}
           place == [x \in S |-> Cardinality(before(x)) + 1]
<1>1. n \in Nat
    BY FS_CardinalityType
<1>2. \A x \in S : before(x) \in SUBSET S /\ x \notin before(x)
    BY DEF StrictOrder
<1>3. \A x, y \in S : <<x, y>> \in R => before(x) \in SUBSET before(y) /\ x \in before(y)
    BY DEF StrictOrder
<1>4. \A i \in 1..n, x \in S :
        Cardinality(before(x)) = i - 1 => s[i] \in S /\ Cardinality(before(s[i])) = i - 1
    <2> SUFFICES ASSUME NEW i \in 1..n, NEW x \in S, Cardinality(before(x)) = i - 1
                 PROVE  s[i] \in S /\ Cardinality(before(s[i])) = i - 1
        OBVIOUS
    <2>1. s[i] = CHOOSE z \in S : Cardinality(before(z)) = i - 1
        BY DEF InOrder
    <2> HIDE DEF s, before
    <2> QED BY <2>1
<1> HIDE DEF before, s
<1>5. \A x \in S : /\ IsFiniteSet(before(x)) /\ Cardinality(before(x)) \in Nat
                   /\ Cardinality(before(x)) < n
    <2> TAKE x \in S
    <2>1. before(x) \in SUBSET S /\ before(x) # S
        BY <1>2
    <2>2. IsFiniteSet(before(x)) /\ Cardinality(before(x)) <= n /\ Cardinality(before(x)) # n
        BY <2>1, FS_Subset
    <2>3. Cardinality(before(x)) \in Nat
        BY <2>2, FS_CardinalityType
    <2> QED BY <2>2, <2>3, <1>1
<1>6. \A x, y \in S : <<x, y>> \in R => Cardinality(before(x)) < Cardinality(before(y))
    <2> SUFFICES ASSUME NEW x \in S, NEW y \in S, <<x, y>> \in R
                 PROVE  Cardinality(before(x)) < Cardinality(before(y))
        OBVIOUS
    <2>1. before(x) \in SUBSET before(y) /\ before(x) # before(y)
        BY <1>2, <1>3
    <2>2. IsFiniteSet(before(y)) /\ Cardinality(before(x)) \in Nat /\ Cardinality(before(y)) \in Nat
        BY <1>5
    <2>3. Cardinality(before(x)) <= Cardinality(before(y)) /\ Cardinality(before(x)) # Cardinality(before(y))
        BY <2>1, <2>2, FS_Subset
    <2> QED BY <2>2, <2>3
<1>7. \A x \in S : place[x] = Cardinality(before(x)) + 1 /\ place[x] \in 1..n
    BY <1>1, <1>5
<1>8. place \in [S -> 1..n]
    BY <1>7
<1> HIDE DEF place
<1>9. \A x, y \in S : <<x, y>> \in R => place[x] < place[y]
    BY <1>5, <1>6, <1>7
<1>10. \A x, y \in S : place[x] = place[y] => x = y
    <2> SUFFICES ASSUME NEW x \in S, NEW y \in S, place[x] = place[y], x # y PROVE FALSE
        OBVIOUS
    <2>1. place[x] < place[y] \/ place[y] < place[x]
        BY <1>9 DEF StrictOrder
    <2> QED BY <2>1, <1>7
<1>11. place \in Injection(S, 1..n)
    BY <1>8, <1>10 DEF Injection, IsInjective
<1>12. IsFiniteSet(1..n) /\ Cardinality(1..n) = n
    BY <1>1, FS_Interval
<1>13. place \in Surjection(S, 1..n)
    BY <1>11, <1>12, FS_Injection
<1>14. \A i \in 1..n : s[i] \in S /\ place[s[i]] = i
    <2> TAKE i \in 1..n
    <2>1. PICK x \in S : place[x] = i
        BY <1>13 DEF Surjection
    <2>2. Cardinality(before(x)) = i - 1
        BY <2>1, <1>5, <1>7
    <2>3. s[i] \in S /\ Cardinality(before(s[i])) = i - 1
        BY <2>2, <1>4
    <2> QED BY <2>3, <1>1, <1>7
<1>15. s \in [1..n -> S]
    BY <1>14 DEF InOrder, s
<1>16. \A i, j \in 1..n : <<s[i], s[j]>> \in R <=> i < j
    <2> SUFFICES ASSUME NEW i \in 1..n, NEW j \in 1..n PROVE <<s[i], s[j]>> \in R <=> i < j
        OBVIOUS
    <2>1. s[i] \in S /\ s[j] \in S /\ place[s[i]] = i /\ place[s[j]] = j
        BY <1>14
    <2>2. <<s[i], s[j]>> \in R => i < j
        BY <2>1, <1>9
    <2>3. <<s[j], s[i]>> \in R => j < i
        BY <2>1, <1>9
    <2>4. s[i] = s[j] \/ <<s[i], s[j]>> \in R \/ <<s[j], s[i]>> \in R
        BY <2>1 DEF StrictOrder
    <2>5. s[i] = s[j] => i = j
        BY <2>1
    <2> QED BY <2>2, <2>3, <2>4, <2>5, <1>1
<1>17. s \in Seq(S) /\ Len(s) = n
    BY <1>1, <1>15
<1>18. \A i, j \in 1..n : s[i] = s[j] => i = j
    BY <1>14
<1>19. \A x \in S : \E i \in 1..n : s[i] = x
    BY <1>7, <1>10, <1>14
<1> USE DEF s
<1> QED BY <1>1, <1>15, <1>16, <1>17, <1>18, <1>19

-----------------------------------------------------------------------------
(* Finite sets, folds and sequences *)

\* What holds of the empty set, and of a set when it holds of it less each of its
\* elements, holds of every subset of a finite set.
LEMMA BySubsets ==
  ASSUME NEW S, IsFiniteSet(S), NEW P, {} \in P,
         \A T \in SUBSET S : T # {} /\ (\A x \in T : T \ {x} \in P) => T \in P
  PROVE  SUBSET S \subseteq P
<1> DEFINE Q == {n \in Nat : \A T \in SUBSET S : Cardinality(T) = n => T \in P}
<1>1. \A T \in SUBSET S : IsFiniteSet(T) /\ Cardinality(T) \in Nat /\ (Cardinality(T) = 0 <=> T = {})
    BY FS_Subset, FS_CardinalityType, FS_EmptySet
<1>2. 0 \in Q
    BY <1>1
<1>3. ASSUME NEW n \in Nat, n \in Q PROVE n + 1 \in Q
    <2> SUFFICES ASSUME NEW T \in SUBSET S, Cardinality(T) = n + 1 PROVE T \in P
        OBVIOUS
    <2>1. T # {}
        BY <1>1
    <2>2. ASSUME NEW x \in T PROVE T \ {x} \in P
        <3>1. Cardinality(T \ {x}) = n
            BY <1>1, FS_RemoveElement
        <3> QED BY <3>1, <1>3
    <2> QED BY <2>1, <2>2
<1> HIDE DEF Q
<1>4. Nat \subseteq Q
    BY <1>2, <1>3, ByInduction
<1> USE DEF Q
<1> QED BY <1>1, <1>4

\* A function of the subsets of S whose value at a set is a step from its value at
\* the set less its next element.
FoldExists(S, X, base, step, next) ==
  \E g \in [SUBSET S -> X] : \A T \in SUBSET S :
    g[T] = IF T = {} THEN base ELSE step[<<next[T], g[T \ {next[T]}]>>]

\* A fold over a finite set is defined.
LEMMA FoldDefined ==
  ASSUME NEW S, IsFiniteSet(S), NEW X, NEW base \in X,
         NEW step \in [S \X X -> X],
         NEW next, \A T \in SUBSET S : T # {} => next[T] \in T
  PROVE  FoldExists(S, X, base, step, next)
<1> DEFINE Upto(n) == {T \in SUBSET S : Cardinality(T) <= n}
           Fold(g, n) == \A T \in Upto(n) :
              g[T] = IF T = {} THEN base ELSE step[<<next[T], g[T \ {next[T]}]>>]
           Q == {n \in Nat : \E g \in [Upto(n) -> X] : Fold(g, n)}
<1>1. \A T \in SUBSET S : IsFiniteSet(T) /\ Cardinality(T) \in Nat /\ (Cardinality(T) = 0 <=> T = {})
    BY FS_Subset, FS_CardinalityType, FS_EmptySet
<1>2. \A T \in SUBSET S : T # {} =>
        /\ next[T] \in T /\ next[T] \in S /\ T \ {next[T]} \in SUBSET S
        /\ Cardinality(T \ {next[T]}) = Cardinality(T) - 1
    BY <1>1, FS_RemoveElement
<1>3. 0 \in Q
    <2> DEFINE g == [T \in Upto(0) |-> base]
    <2>1. \A T \in Upto(0) : T = {}
        BY <1>1
    <2>2. g \in [Upto(0) -> X] /\ Fold(g, 0)
        BY <2>1
    <2> QED BY <2>2
<1>4. ASSUME NEW n \in Nat, n \in Q PROVE n + 1 \in Q
    <2>1. PICK g \in [Upto(n) -> X] : Fold(g, n)
        BY <1>4
    <2> DEFINE h == [T \in Upto(n + 1) |->
                       IF T \in Upto(n) THEN g[T] ELSE step[<<next[T], g[T \ {next[T]}]>>]]
    <2>2. \A T \in Upto(n + 1) : T # {} => T \ {next[T]} \in Upto(n)
        BY <1>1, <1>2
    <2>3. \A T \in Upto(n) : T \in Upto(n + 1) /\ h[T] = g[T]
        BY <1>1
    <2>4. \A T \in Upto(n + 1) \ Upto(n) : T # {} /\ h[T] = step[<<next[T], g[T \ {next[T]}]>>]
        BY <1>1
    <2> HIDE DEF h
    <2>5. \A T \in Upto(n + 1) : h[T] \in X
        BY <2>1, <2>2, <2>3, <2>4, <1>2
    <2>6. Fold(h, n + 1)
        BY <2>1, <2>2, <2>3, <2>4
    <2>7. h \in [Upto(n + 1) -> X]
        BY <2>5 DEF h
    <2> HIDE DEF Fold, Upto
    <2>8. n + 1 \in Nat
        OBVIOUS
    <2> QED BY <2>6, <2>7, <2>8
<1>5. Cardinality(S) \in Nat /\ \A T \in SUBSET S : Cardinality(T) <= Cardinality(S)
    BY FS_CardinalityType, FS_Subset
<1>6. Upto(Cardinality(S)) = SUBSET S
    BY <1>5
<1> HIDE DEF Q
<1>7. Nat \subseteq Q
    BY <1>3, <1>4, ByInduction
<1>8. Cardinality(S) \in Q
    BY <1>5, <1>7
<1>9. PICK g \in [Upto(Cardinality(S)) -> X] : Fold(g, Cardinality(S))
    BY <1>8 DEF Q
<1> QED BY <1>6, <1>9 DEF FoldExists

\* IndexOf finds the first place of an element, and 0 for one that is not there.
LEMMA FirstIndex ==
  ASSUME NEW S, NEW s \in Seq(S), NEW x
  PROVE  /\ IndexOf(s, x) \in 0..Len(s)
         /\ x \in ToSet(s) <=> IndexOf(s, x) # 0
         /\ x \in ToSet(s) => /\ IndexOf(s, x) \in 1..Len(s) /\ s[IndexOf(s, x)] = x
                            /\ \A j \in 1..Len(s) : s[j] = x => IndexOf(s, x) <= j
<1> DEFINE I == {i \in 1..Len(s) : s[i] = x}
<1>1. IndexOf(s, x) = IF I # {} THEN Min(I) ELSE 0
    BY DEF IndexOf, SelectInSeq
<1>2. x \in ToSet(s) <=> I # {}
    BY DEF ToSet
<1>3. Len(s) \in Nat
    OBVIOUS
<1>4. CASE I = {}
    BY <1>1, <1>2, <1>3, <1>4
<1>5. CASE I # {}
    <2>1. I \in SUBSET Nat
        BY <1>3
    <2> HIDE DEF I
    <2>2. PICK i \in I : \A j \in I : i <= j
        BY <1>5, <2>1, LeastOf
    <2>3. Min(I) \in I /\ \A j \in I : Min(I) <= j
        BY <2>2 DEF Min
    <2> USE DEF I
    <2> QED BY <1>1, <1>2, <1>3, <1>5, <2>3
<1> QED BY <1>4, <1>5

\* A bounded set of naturals has a greatest element.
LEMMA GreatestOf ==
  ASSUME NEW n \in Nat, NEW T \in SUBSET (1..n), T # {}
  PROVE  Max(T) \in T /\ \A y \in T : y <= Max(T)
<1> DEFINE D == {n - x : x \in T}
<1>1. \A x \in T : n - x \in Nat
    OBVIOUS
<1>2. D \in SUBSET Nat /\ D # {}
    BY <1>1
<1>3. PICK d \in D : \A e \in D : d <= e
    <2> HIDE DEF D
    <2> QED BY <1>2, LeastOf
<1>4. PICK x \in T : d = n - x
    BY <1>3
<1>5. \A y \in T : n - y \in D
    OBVIOUS
<1>6. \A y \in T : x >= y
    BY <1>3, <1>4, <1>5
<1>7. Max(T) \in T /\ \A y \in T : Max(T) >= y
    BY <1>6 DEF Max
<1> QED BY <1>7

\* How many elements of a sequence are in F.
CountIn(s, F) == Cardinality({i \in DOMAIN s : s[i] \in F})

\* Of the elements in F, a longer sequence has one more if its last is in F.
LEMMA CountAppend ==
  ASSUME NEW S, NEW s \in Seq(S), NEW x \in S, NEW F
  PROVE  /\ CountIn(s, F) \in Nat /\ CountIn(s, F) <= Len(s)
         /\ CountIn(Append(s, x), F) = CountIn(s, F) + (IF x \in F THEN 1 ELSE 0)
<1> DEFINE n == Len(s)
           I == {i \in DOMAIN s : s[i] \in F}
           J == {i \in DOMAIN Append(s, x) : Append(s, x)[i] \in F}
<1>1. n \in Nat /\ DOMAIN s = 1..n
    OBVIOUS
<1>2. DOMAIN Append(s, x) = 1..(n + 1) /\ Append(s, x)[n + 1] = x
    OBVIOUS
<1>3. \A i \in 1..n : Append(s, x)[i] = s[i]
    OBVIOUS
<1>4. IsFiniteSet(1..n) /\ Cardinality(1..n) = n
    BY <1>1, FS_Interval
<1>5. I \in SUBSET (1..n) /\ n + 1 \notin I
    BY <1>1
<1>6. IsFiniteSet(I) /\ Cardinality(I) <= n /\ Cardinality(I) \in Nat
    BY <1>4, <1>5, FS_Subset, FS_CardinalityType
<1>7. J = IF x \in F THEN I \cup {n + 1} ELSE I
    BY <1>1, <1>2, <1>3
<1> HIDE DEF I, J
<1>8. Cardinality(J) = Cardinality(I) + (IF x \in F THEN 1 ELSE 0)
    <2>1. Cardinality(I \cup {n + 1}) = Cardinality(I) + 1
        BY <1>5, <1>6, FS_AddElement
    <2> QED BY <1>6, <1>7, <2>1
<1> USE DEF I, J
<1> QED BY <1>6, <1>8 DEF CountIn

\* More elements are in a larger set, and all are in a set of all.
LEMMA CountMonotone ==
  ASSUME NEW S, NEW s \in Seq(S), NEW F, NEW H
  PROVE  /\ CountIn(s, F) \in Nat /\ CountIn(s, H) \in Nat
         /\ (\A i \in DOMAIN s : s[i] \in F => s[i] \in H) => CountIn(s, F) <= CountIn(s, H)
         /\ (\A i \in DOMAIN s : s[i] \in H) => CountIn(s, H) = Len(s)
<1> DEFINE n == Len(s)
           I == {i \in DOMAIN s : s[i] \in F}
           J == {i \in DOMAIN s : s[i] \in H}
<1>1. n \in Nat /\ DOMAIN s = 1..n
    OBVIOUS
<1>2. IsFiniteSet(1..n) /\ Cardinality(1..n) = n
    BY <1>1, FS_Interval
<1>3. I \in SUBSET (1..n) /\ J \in SUBSET (1..n)
    BY <1>1
<1>4. (\A i \in DOMAIN s : s[i] \in F => s[i] \in H) => I \in SUBSET J
    OBVIOUS
<1>5. (\A i \in DOMAIN s : s[i] \in H) => J = 1..n
    BY <1>1
<1>6. CountIn(s, F) = Cardinality(I) /\ CountIn(s, H) = Cardinality(J)
    BY DEF CountIn
<1> HIDE DEF I, J
<1>7. IsFiniteSet(I) /\ IsFiniteSet(J)
    BY <1>2, <1>3, FS_Subset
<1>8. Cardinality(I) \in Nat /\ Cardinality(J) \in Nat
    BY <1>7, FS_CardinalityType
<1>9. I \in SUBSET J => Cardinality(I) <= Cardinality(J)
    BY <1>7, FS_Subset
<1> QED BY <1>2, <1>4, <1>5, <1>6, <1>8, <1>9

-----------------------------------------------------------------------------
(* Scores and caps *)

\* An edge weighs something.
LEMMA WeightType == \A r \in PathEdge : Weight(r) \in Nat
<1> SUFFICES ASSUME NEW r \in PathEdge PROVE Weight(r) \in Nat
    OBVIOUS
<1> DEFINE base == [builds_on |-> 35, follow_up |-> 60, similar |-> 50]
<1>1. Decay \in Seq(Nat) /\ r.from \in DOMAIN Decay
    BY DEF Decay, PathEdge
<1>2. Decay[r.from] \in Nat
    BY <1>1
<1>3. base[r.kind] \in Nat
    BY DEF PathEdge
<1>4. Weight(r) = base[r.kind] * Decay[r.from]
    BY DEF Weight
<1> HIDE DEF base
<1> QED BY <1>2, <1>3, <1>4

\* There are few edges.
LEMMA EdgesFinite == IsFiniteSet(PathEdge)
<1> DEFINE K == {"builds_on", "follow_up", "similar"}
           D == DOMAIN Decay
           f == [r \in PathEdge |-> <<r.kind, r.from>>]
<1>1. IsFiniteSet({"builds_on"}) /\ IsFiniteSet({"builds_on"} \cup {"follow_up"})
    BY FS_Singleton, FS_AddElement
<1>2. K = ({"builds_on"} \cup {"follow_up"}) \cup {"similar"}
    OBVIOUS
<1>3. IsFiniteSet(K)
    BY <1>1, <1>2, FS_AddElement
<1>4. D = 1..8
    BY DEF Decay
<1>5. IsFiniteSet(D)
    <2>1. \A n \in Nat : IsFiniteSet(1..n)
        BY FS_Interval
    <2> QED BY <1>4, <2>1
<1>6. IsFiniteSet(K \X D)
    BY <1>3, <1>5, FS_Product
<1>7. \A r \in PathEdge : r.kind \in K /\ r.from \in D
    BY DEF PathEdge
<1>8. \A r, e \in PathEdge : r.kind = e.kind /\ r.from = e.from => r = e
    BY DEF PathEdge
<1> HIDE DEF K, D
<1>9. f \in [PathEdge -> K \X D]
    BY <1>7
<1>10. \A r, e \in PathEdge : f[r] = f[e] => r = e
    BY <1>8
<1> HIDE DEF f
<1>11. f \in Injection(PathEdge, K \X D)
    BY <1>9, <1>10 DEF Injection, IsInjective
<1> QED BY <1>6, <1>11, FS_Injection

\* The score of a suggestion is a sum of weights.
LEMMA ScoreType ==
  ASSUME NEW c, c.reasons \in SUBSET PathEdge
  PROVE  Score(c) \in Nat
<1> DEFINE R == c.reasons
           Next1(T) == CHOOSE x \in T : TRUE
           next == [T \in SUBSET R |-> Next1(T)]
           step == [p \in R \X Nat |-> Weight(p[1]) + p[2]]
           Sum(g) == g = [T \in SUBSET R |-> IF T = {} THEN 0 ELSE Weight(Next1(T)) + g[T \ {Next1(T)}]]
           sum == CHOOSE g : Sum(g)
<1>1. IsFiniteSet(R)
    BY EdgesFinite, FS_Subset
<1>2. \A r \in R : Weight(r) \in Nat
    BY WeightType
<1>3. Score(c) = sum[R]
    BY DEF Score, MapThenSumSet, MapThenFoldSet
<1>4. step \in [R \X Nat -> Nat]
    BY <1>2
<1>5. \A T \in SUBSET R : T # {} => next[T] = Next1(T) /\ Next1(T) \in T
    OBVIOUS
<1>6. \A r \in R, k \in Nat : step[<<r, k>>] = Weight(r) + k
    OBVIOUS
<1> HIDE DEF R, step, Next1, next
<1>7. \A T \in SUBSET R : T # {} => next[T] \in T
    BY <1>5
<1> DEFINE N == Nat  zero == 0
<1>8. zero \in N /\ step \in [R \X N -> N]
    BY <1>4
<1> HIDE DEF N, zero
<1>9. FoldExists(R, N, zero, step, next)
    BY <1>1, <1>7, <1>8, FoldDefined
<1>10. PICK g \in [SUBSET R -> N] : \A T \in SUBSET R :
        g[T] = IF T = {} THEN zero ELSE step[<<next[T], g[T \ {next[T]}]>>]
    BY <1>9 DEF FoldExists
<1> USE DEF N, zero
<1>11. Sum(g)
    <2>1. \A T \in SUBSET R : T # {} => Next1(T) \in R /\ g[T \ {Next1(T)}] \in Nat
        BY <1>5
    <2> QED BY <1>5, <1>6, <1>10, <2>1
<1>12. Sum(sum)
    BY <1>11
<1> HIDE DEF sum
<1> DEFINE P == {T \in SUBSET R : sum[T] \in Nat}
<1>13. {} \in P
    BY <1>12
<1>14. ASSUME NEW T \in SUBSET R, T # {}, \A x \in T : T \ {x} \in P
       PROVE  T \in P
    <2>1. Next1(T) \in T /\ Weight(Next1(T)) \in Nat /\ sum[T \ {Next1(T)}] \in Nat
        BY <1>2, <1>5, <1>14
    <2>2. sum[T] = Weight(Next1(T)) + sum[T \ {Next1(T)}]
        BY <1>12, <1>14
    <2> QED BY <2>1, <2>2
<1> HIDE DEF P
<1>15. SUBSET R \subseteq P
    BY <1>1, <1>13, <1>14, BySubsets
<1>16. R \in P
    BY <1>15
<1> QED BY <1>3, <1>16 DEF P

\* A source and the works without an arXiv id may have one suggestion at least.
LEMMA CapTypes ==
  ASSUME NEW limit \in Nat \ {0}, NEW sources \in Nat
  PROVE  SourceCap(limit, sources) \in Nat \ {0} /\ ExternalCap(limit) \in Nat \ {0}
<1>1. (34 * limit) \div 100 \in Nat
    OBVIOUS
<1>2. RoundShare(limit) \in Nat
    BY <1>1 DEF RoundShare
<1>3. ExternalCap(limit) \in Nat \ {0}
    BY <1>2 DEF ExternalCap
<1>4. sources > 0 => (limit + sources - 1) \div sources \in Nat
    OBVIOUS
<1>5. SourceCap(limit, sources) \in Nat \ {0}
    BY <1>4, RankingAssumption DEF SourceCap
<1> QED BY <1>3, <1>5

\* What a question for suggestions is made of.
LEMMA PickQuestion ==
  ASSUME NEW q \in PickQuestions
  PROVE  /\ q.limit \in Nat \ {0}
         /\ DOMAIN q.works = 1..NumWorks
         /\ Eligible(q) = (1..NumWorks) \ q.exclude /\ IsFiniteSet(Eligible(q))
         /\ \A w \in Eligible(q) : Score(q.works[w]) \in Nat
         /\ CapOf(q) \in Nat \ {0} /\ ExternalCap(q.limit) \in Nat \ {0}
<1> DEFINE E == Eligible(q)
           source == [w \in E |-> SourceOf(q.works[w])]
           Sources == {SourceOf(q.works[w]) : w \in E}
<1>1. /\ q.works \in [1..NumWorks -> Suggestion] /\ q.exclude \in SUBSET (1..NumWorks)
      /\ q.limit \in PickLimits
    BY DEF PickQuestions
<1>2. q.limit \in Nat \ {0}
    BY <1>1, RankingAssumption
<1>3. \A c \in Suggestion : c.reasons \in SUBSET PathEdge
    BY RankingAssumption DEF Suggestion
<1>4. E = (1..NumWorks) \ q.exclude
    BY <1>1 DEF Eligible
<1>5. \A w \in E : Score(q.works[w]) \in Nat
    BY <1>1, <1>3, <1>4, ScoreType
<1>6. IsFiniteSet(1..NumWorks)
    BY RankingAssumption, FS_Interval
<1>7. IsFiniteSet(E)
    BY <1>4, <1>6, FS_Subset
<1>8. source \in Surjection(E, Sources)
    BY DEF Surjection
<1> HIDE DEF E, source, Sources
<1>9. IsFiniteSet(Sources)
    BY <1>7, <1>8, FS_Surjection
<1>10. Cardinality(Sources) \in Nat
    BY <1>9, FS_CardinalityType
<1>11. CapOf(q) = SourceCap(q.limit, Cardinality(Sources))
    BY DEF CapOf, E, Sources
<1>12. CapOf(q) \in Nat \ {0} /\ ExternalCap(q.limit) \in Nat \ {0}
    BY <1>2, <1>10, <1>11, CapTypes
<1> USE DEF E
<1> QED BY <1>1, <1>2, <1>4, <1>5, <1>7, <1>12

\* The works are ranked by score, then by key.
LEMMA WorksOrdered ==
  ASSUME NEW q \in PickQuestions
  PROVE  StrictOrder(Eligible(q), WorksOrder(q))
<1> DEFINE E == Eligible(q)
           score == [w \in E |-> Score(q.works[w])]
           W == WorksOrder(q)
<1>1. \A w \in E : score[w] \in Nat /\ w \in Nat
    BY PickQuestion
<1>2. \A w, o \in E : <<w, o>> \in W <=> score[w] > score[o] \/ (score[w] = score[o] /\ w < o)
    BY DEF WorksOrder
<1> HIDE DEF E, score, W
<1>3. StrictOrder(E, W)
    BY <1>1, <1>2 DEF StrictOrder
<1> QED BY <1>3 DEF E, W

-----------------------------------------------------------------------------
(* The suggestions *)

\* The choices made after so many of the ranked works.
PickedFrom(q, ranked, n, c) ==
  /\ c[0] = <<>>
  /\ \A i \in 1..n :
       c[i] = IF Fits(q, c[i - 1], ranked[i]) THEN Append(c[i - 1], ranked[i]) ELSE c[i - 1]

\* The fold of pick goes through the ranked works one by one.
LEMMA PickSteps ==
  ASSUME NEW q, NEW E, NEW n \in Nat, RankedWorks(q) \in [1..n -> E]
  PROVE  \E c : PickedFrom(q, RankedWorks(q), n, c) /\ Pick(q) = c[n]
<1> DEFINE ranked == RankedWorks(q)
           Add(chosen, w) == IF Fits(q, chosen, w) THEN Append(chosen, w) ELSE chosen
           D == 1..n
           X == Seq(E)
           next == [T \in SUBSET D |-> Max(T)]
           step == [p \in D \X X |-> Add(p[2], ranked[p[1]])]
           Picks(g) == g = [T \in SUBSET D |->
                              IF T = {} THEN <<>> ELSE Add(g[T \ {Max(T)}], ranked[Max(T)])]
           picks == CHOOSE g : Picks(g)
           none == <<>>
<1>1. DOMAIN RankedWorks(q) = D
    OBVIOUS
<1>2. Pick(q) = picks[D]
    BY <1>1 DEF Pick, FoldLeft, MapThenFoldSet
<1>3. IsFiniteSet(D)
    BY FS_Interval
<1>4. \A T \in SUBSET D : T # {} => Max(T) \in T
    BY GreatestOf
<1>5. \A T \in SUBSET D : T # {} => next[T] \in T /\ next[T] = Max(T)
    BY <1>4
<1>6. \A chosen \in X, i \in D : Add(chosen, ranked[i]) \in X
    OBVIOUS
<1>7. step \in [D \X X -> X] /\ none \in X
    BY <1>6
<1>8. \A i \in D, chosen \in X : step[<<i, chosen>>] = Add(chosen, ranked[i])
    OBVIOUS
<1> HIDE DEF Add, D, X, next, step, none
<1>9. FoldExists(D, X, none, step, next)
    BY <1>3, <1>5, <1>7, FoldDefined
<1>10. PICK g \in [SUBSET D -> X] : \A T \in SUBSET D :
         g[T] = IF T = {} THEN none ELSE step[<<next[T], g[T \ {next[T]}]>>]
    BY <1>9 DEF FoldExists
<1>11. Picks(g)
    <2>1. \A T \in SUBSET D : T # {} => Max(T) \in D /\ g[T \ {Max(T)}] \in X
        BY <1>4
    <2> QED BY <1>5, <1>8, <1>10, <2>1 DEF none
<1>12. Picks(picks)
    BY <1>11
<1> HIDE DEF picks
<1> DEFINE c == [i \in 0..n |-> picks[1..i]]
<1>13. c[0] = <<>>
    <2>1. 1..0 = {} /\ 0 \in 0..n
        OBVIOUS
    <2> QED BY <1>12, <2>1
<1>14. ASSUME NEW i \in 1..n
       PROVE  c[i] = Add(c[i - 1], ranked[i])
    <2>1. 1..i \in SUBSET D /\ i \in 1..i
        BY DEF D
    <2>2. Max(1..i) = i
        <3> DEFINE T == 1..i
        <3>1. T \in SUBSET (1..n) /\ T # {}
            BY <2>1 DEF D
        <3> HIDE DEF T
        <3>2. Max(T) \in T /\ \A y \in T : y <= Max(T)
            BY <3>1, GreatestOf
        <3> USE DEF T
        <3> QED BY <2>1, <3>2
    <2>3. (1..i) \ {i} = 1..(i - 1)
        OBVIOUS
    <2>4. c[i] = picks[1..i] /\ c[i - 1] = picks[1..(i - 1)]
        OBVIOUS
    <2>5. picks[1..i] = Add(picks[(1..i) \ {i}], ranked[i])
        BY <1>12, <2>1, <2>2
    <2> QED BY <2>3, <2>4, <2>5
<1>15. c[n] = picks[D]
    BY DEF D
<1> HIDE DEF c
<1>16. PickedFrom(q, ranked, n, c)
    BY <1>13, <1>14 DEF PickedFrom, Add
<1> QED BY <1>2, <1>15, <1>16

\* The works as good as w, those of a source, and those without an arXiv id.
GoodAs(q, w) == {x \in Eligible(q) : Score(q.works[x]) >= Score(q.works[w])}
FromSource(q, s) == {x \in Eligible(q) : SourceOf(q.works[x]) = s}
WithoutId(q) == {x \in Eligible(q) : q.works[x].external}

\* The counts of pick, as numbers of chosen works in a set of works.
LEMMA CountsOfPick ==
  \A q \in PickQuestions : \A chosen \in Seq(Eligible(q)) :
    /\ \A s : OfSource(q, chosen, s) = CountIn(chosen, FromSource(q, s))
    /\ Externals(q, chosen) = CountIn(chosen, WithoutId(q))
    /\ \A w : PassedOver(q, chosen, w) <=>
         \/ CountIn(chosen, GoodAs(q, w)) = q.limit
         \/ CountIn(chosen, GoodAs(q, w) \cap FromSource(q, SourceOf(q.works[w]))) = CapOf(q)
         \/ /\ q.works[w].external
            /\ CountIn(chosen, GoodAs(q, w) \cap WithoutId(q)) = ExternalCap(q.limit)
<1> SUFFICES ASSUME NEW q \in PickQuestions, NEW chosen \in Seq(Eligible(q)), NEW s, NEW w
             PROVE  /\ OfSource(q, chosen, s) = CountIn(chosen, FromSource(q, s))
                    /\ Externals(q, chosen) = CountIn(chosen, WithoutId(q))
                    /\ PassedOver(q, chosen, w) <=>
                         \/ CountIn(chosen, GoodAs(q, w)) = q.limit
                         \/ CountIn(chosen, GoodAs(q, w) \cap FromSource(q, SourceOf(q.works[w]))) = CapOf(q)
                         \/ /\ q.works[w].external
                            /\ CountIn(chosen, GoodAs(q, w) \cap WithoutId(q)) = ExternalCap(q.limit)
    OBVIOUS
<1> DEFINE D == DOMAIN chosen
           src == SourceOf(q.works[w])
           better == {i \in D : Score(q.works[chosen[i]]) >= Score(q.works[w])}
<1>1. \A i \in D : chosen[i] \in Eligible(q)
    OBVIOUS
<1>2. {i \in D : SourceOf(q.works[chosen[i]]) = s} = {i \in D : chosen[i] \in FromSource(q, s)}
    BY <1>1 DEF FromSource
<1>3. {i \in D : q.works[chosen[i]].external} = {i \in D : chosen[i] \in WithoutId(q)}
    BY <1>1 DEF WithoutId
<1>4. better = {i \in D : chosen[i] \in GoodAs(q, w)}
    BY <1>1 DEF GoodAs
<1>5. {i \in better : SourceOf(q.works[chosen[i]]) = src}
        = {i \in D : chosen[i] \in GoodAs(q, w) \cap FromSource(q, src)}
    BY <1>1 DEF GoodAs, FromSource
<1>6. {i \in better : q.works[chosen[i]].external}
        = {i \in D : chosen[i] \in GoodAs(q, w) \cap WithoutId(q)}
    BY <1>1 DEF GoodAs, WithoutId
<1>7. /\ OfSource(q, chosen, s) = CountIn(chosen, FromSource(q, s))
      /\ Externals(q, chosen) = CountIn(chosen, WithoutId(q))
    BY <1>2, <1>3 DEF OfSource, Externals, CountIn
<1>8. PassedOver(q, chosen, w) <=>
        \/ CountIn(chosen, GoodAs(q, w)) = q.limit
        \/ CountIn(chosen, GoodAs(q, w) \cap FromSource(q, src)) = CapOf(q)
        \/ /\ q.works[w].external
           /\ CountIn(chosen, GoodAs(q, w) \cap WithoutId(q)) = ExternalCap(q.limit)
    BY <1>4, <1>5, <1>6 DEF PassedOver, CountIn
<1> QED BY <1>7, <1>8

\* No share is exceeded.
WithinShares(q, chosen) ==
  /\ Len(chosen) <= q.limit
  /\ Externals(q, chosen) <= ExternalCap(q.limit)
  /\ \A s : OfSource(q, chosen, s) <= CapOf(q)

\* A work that fits exceeds no share, and what was passed over stays so: the share
\* that was full has no place for the new one either.
LEMMA WorkFits ==
  ASSUME NEW q \in PickQuestions, NEW chosen \in Seq(Eligible(q)), NEW w \in Eligible(q),
         WithinShares(q, chosen), Fits(q, chosen, w)
  PROVE  /\ Append(chosen, w) \in Seq(Eligible(q))
         /\ WithinShares(q, Append(chosen, w))
         /\ \A v : PassedOver(q, chosen, v) => PassedOver(q, Append(chosen, w), v)
<1> DEFINE E == Eligible(q)
           longer == Append(chosen, w)
           good(v) == GoodAs(q, v)
           of(s) == FromSource(q, s)
           external == WithoutId(q)
           source(v) == SourceOf(q.works[v])
           limit == q.limit
           cap == CapOf(q)
           externalCap == ExternalCap(limit)
<1>1. limit \in Nat /\ cap \in Nat /\ externalCap \in Nat
    BY PickQuestion
<1>2. longer \in Seq(E) /\ Len(longer) = Len(chosen) + 1 /\ Len(chosen) \in Nat
    OBVIOUS
<1>3. \A s : OfSource(q, chosen, s) = CountIn(chosen, of(s)) /\ OfSource(q, longer, s) = CountIn(longer, of(s))
    BY <1>2, CountsOfPick
<1>4. Externals(q, chosen) = CountIn(chosen, external) /\ Externals(q, longer) = CountIn(longer, external)
    BY <1>2, CountsOfPick
<1>5. /\ \A s : w \in of(s) <=> s = source(w)
      /\ w \in external <=> q.works[w].external
    BY DEF FromSource, WithoutId
<1>6. /\ Len(chosen) < limit /\ CountIn(chosen, of(source(w))) < cap
      /\ w \in external => CountIn(chosen, external) < externalCap
    BY <1>3, <1>4, <1>5 DEF Fits
<1>7. /\ Len(chosen) <= limit /\ CountIn(chosen, external) <= externalCap
      /\ \A s : CountIn(chosen, of(s)) <= cap
    BY <1>3, <1>4 DEF WithinShares
<1>8. \A v : PassedOver(q, chosen, v) <=>
        \/ CountIn(chosen, good(v)) = limit
        \/ CountIn(chosen, good(v) \cap of(source(v))) = cap
        \/ q.works[v].external /\ CountIn(chosen, good(v) \cap external) = externalCap
    BY CountsOfPick
<1>9. \A v : PassedOver(q, longer, v) <=>
        \/ CountIn(longer, good(v)) = limit
        \/ CountIn(longer, good(v) \cap of(source(v))) = cap
        \/ q.works[v].external /\ CountIn(longer, good(v) \cap external) = externalCap
    BY <1>2, CountsOfPick
<1>10. \A F : /\ CountIn(chosen, F) \in Nat /\ CountIn(chosen, F) <= Len(chosen)
              /\ CountIn(longer, F) = CountIn(chosen, F) + (IF w \in F THEN 1 ELSE 0)
    BY CountAppend
<1>11. \A v : /\ CountIn(chosen, good(v) \cap of(source(v))) <= CountIn(chosen, of(source(v)))
              /\ CountIn(chosen, good(v) \cap external) <= CountIn(chosen, external)
    <2> TAKE v
    <2> HIDE DEF good, of, external, source, E
    <2>1. CountIn(chosen, good(v) \cap of(source(v))) <= CountIn(chosen, of(source(v)))
        BY CountMonotone
    <2>2. CountIn(chosen, good(v) \cap external) <= CountIn(chosen, external)
        BY CountMonotone
    <2> QED BY <2>1, <2>2
<1> HIDE DEF E, longer, good, of, external, source, limit, cap, externalCap
<1>12. WithinShares(q, longer)
    <2>1. Len(longer) <= limit
        BY <1>1, <1>2, <1>6
    <2>2. CountIn(longer, external) <= externalCap
        BY <1>1, <1>6, <1>7, <1>10
    <2>3. \A s : CountIn(longer, of(s)) <= cap
        BY <1>1, <1>6, <1>7, <1>5, <1>10
    <2> QED BY <1>3, <1>4, <2>1, <2>2, <2>3 DEF WithinShares, limit, cap, externalCap
<1>13. ASSUME NEW v, PassedOver(q, chosen, v) PROVE PassedOver(q, longer, v)
    <2>1. CountIn(chosen, good(v)) # limit
        BY <1>1, <1>2, <1>6, <1>10
    <2>2. CASE CountIn(chosen, good(v) \cap of(source(v))) = cap
        <3>1. w \notin of(source(v))
            <4>1. cap <= CountIn(chosen, of(source(v))) /\ CountIn(chosen, of(source(v))) \in Nat
                BY <1>10, <1>11, <2>2
            <4>2. source(v) # source(w)
                BY <1>1, <1>6, <4>1
            <4> QED BY <1>5, <4>2
        <3>2. CountIn(longer, good(v) \cap of(source(v))) = cap
            BY <1>1, <1>10, <2>2, <3>1
        <3> QED BY <1>9, <3>2
    <2>3. CASE q.works[v].external /\ CountIn(chosen, good(v) \cap external) = externalCap
        <3>1. w \notin external
            <4>1. externalCap <= CountIn(chosen, external) /\ CountIn(chosen, external) \in Nat
                BY <1>10, <1>11, <2>3
            <4> QED BY <1>1, <1>6, <4>1
        <3>2. CountIn(longer, good(v) \cap external) = externalCap
            BY <1>1, <1>10, <2>3, <3>1
        <3> QED BY <1>9, <2>3, <3>2
    <2> QED BY <1>8, <1>13, <2>1, <2>2, <2>3
<1> QED BY <1>2, <1>12, <1>13 DEF E, longer

\* A work that does not fit is passed over for the ones before it.
LEMMA WorkDoesNotFit ==
  ASSUME NEW q \in PickQuestions, NEW chosen \in Seq(Eligible(q)), NEW w \in Eligible(q),
         WithinShares(q, chosen), ~Fits(q, chosen, w),
         \A i \in DOMAIN chosen : Score(q.works[chosen[i]]) >= Score(q.works[w])
  PROVE  PassedOver(q, chosen, w)
<1> DEFINE E == Eligible(q)
           good == GoodAs(q, w)
           of(s) == FromSource(q, s)
           external == WithoutId(q)
           src == SourceOf(q.works[w])
           limit == q.limit
           cap == CapOf(q)
           externalCap == ExternalCap(limit)
<1>1. limit \in Nat /\ cap \in Nat /\ externalCap \in Nat
    BY PickQuestion
<1>2. \A s : OfSource(q, chosen, s) = CountIn(chosen, of(s))
    BY CountsOfPick
<1>3. Externals(q, chosen) = CountIn(chosen, external)
    BY CountsOfPick
<1>4. PassedOver(q, chosen, w) <=>
        \/ CountIn(chosen, good) = limit
        \/ CountIn(chosen, good \cap of(src)) = cap
        \/ q.works[w].external /\ CountIn(chosen, good \cap external) = externalCap
    BY CountsOfPick
<1>5. \A i \in DOMAIN chosen : chosen[i] \in good
    BY DEF GoodAs
<1>6. Len(chosen) <= limit /\ CountIn(chosen, external) <= externalCap /\ CountIn(chosen, of(src)) <= cap
    BY <1>2, <1>3 DEF WithinShares
<1>7. \/ ~(Len(chosen) < limit)
      \/ ~(CountIn(chosen, of(src)) < cap)
      \/ q.works[w].external /\ ~(CountIn(chosen, external) < externalCap)
    BY <1>2, <1>3 DEF Fits
<1> HIDE DEF E, good, of, external, src, limit, cap, externalCap
<1>8. CountIn(chosen, good) = Len(chosen) /\ Len(chosen) \in Nat
    BY <1>5, CountMonotone
<1>9. \A F : /\ CountIn(chosen, F) \in Nat
             /\ CountIn(chosen, good \cap F) \in Nat
             /\ CountIn(chosen, F) <= CountIn(chosen, good \cap F)
             /\ CountIn(chosen, good \cap F) <= CountIn(chosen, F)
    <2> TAKE F
    <2>1. CountIn(chosen, F) <= CountIn(chosen, good \cap F)
        BY <1>5, CountMonotone
    <2>2. CountIn(chosen, good \cap F) <= CountIn(chosen, F)
        BY CountMonotone
    <2>3. CountIn(chosen, F) \in Nat /\ CountIn(chosen, good \cap F) \in Nat
        BY CountMonotone
    <2> QED BY <2>1, <2>2, <2>3
<1> QED BY <1>1, <1>4, <1>6, <1>7, <1>8, <1>9

\* What is chosen of the first i ranked works, best first; the others are passed over.
BestOf(q, ranked, i, chosen) ==
  /\ chosen \in Seq(Eligible(q)) /\ WithinShares(q, chosen)
  /\ \A k \in DOMAIN chosen : \E m \in 1..i : chosen[k] = ranked[m]
  /\ \A k, l \in DOMAIN chosen :
       k < l => chosen[k] # chosen[l] /\ Score(q.works[chosen[k]]) >= Score(q.works[chosen[l]])
  /\ \A m \in 1..i : ranked[m] \in ToSet(chosen) \/ PassedOver(q, chosen, ranked[m])

\* The next of the ranked works: it comes after all that are chosen.
LEMMA NextWork ==
  ASSUME NEW q \in PickQuestions, NEW n \in Nat, NEW ranked \in [1..n -> Eligible(q)],
         \A k, l \in 1..n : k < l => /\ ranked[k] # ranked[l]
                                    /\ Score(q.works[ranked[k]]) >= Score(q.works[ranked[l]]),
         NEW i \in 1..n, NEW chosen, BestOf(q, ranked, i - 1, chosen)
  PROVE  BestOf(q, ranked, i,
                IF Fits(q, chosen, ranked[i]) THEN Append(chosen, ranked[i]) ELSE chosen)
<1> DEFINE E == Eligible(q)
           w == ranked[i]
<1>1. /\ chosen \in Seq(E) /\ WithinShares(q, chosen) /\ w \in E
      /\ Len(chosen) \in Nat /\ DOMAIN chosen = 1..Len(chosen)
    BY DEF BestOf
<1>2. \A k \in DOMAIN chosen : chosen[k] # w /\ Score(q.works[chosen[k]]) >= Score(q.works[w])
    <2> TAKE k \in DOMAIN chosen
    <2>1. PICK m \in 1..(i - 1) : chosen[k] = ranked[m]
        BY DEF BestOf
    <2>2. m \in 1..n /\ m < i
        BY <2>1
    <2> QED BY <2>1, <2>2
<1>3. CASE Fits(q, chosen, w)
    <2> DEFINE longer == Append(chosen, w)
    <2>1. /\ longer \in Seq(E) /\ WithinShares(q, longer)
          /\ \A v : PassedOver(q, chosen, v) => PassedOver(q, longer, v)
        BY <1>1, <1>3, WorkFits
    <2>2. /\ Len(longer) = Len(chosen) + 1 /\ longer[Len(chosen) + 1] = w
          /\ \A k \in DOMAIN chosen : longer[k] = chosen[k]
          /\ DOMAIN longer = 1..(Len(chosen) + 1)
        BY <1>1
    <2> HIDE DEF longer, w
    <2>3. \A k \in DOMAIN longer : \E m \in 1..i : longer[k] = ranked[m]
        <3> TAKE k \in DOMAIN longer
        <3>1. CASE k \in DOMAIN chosen
            <4>1. PICK m \in 1..(i - 1) : chosen[k] = ranked[m]
                BY <3>1 DEF BestOf
            <4> QED BY <2>2, <3>1, <4>1
        <3>2. CASE k = Len(chosen) + 1
            BY <2>2, <3>2 DEF w
        <3> QED BY <1>1, <2>2, <3>1, <3>2
    <2>4. \A k, l \in DOMAIN longer :
            k < l => longer[k] # longer[l] /\ Score(q.works[longer[k]]) >= Score(q.works[longer[l]])
        <3> SUFFICES ASSUME NEW k \in DOMAIN longer, NEW l \in DOMAIN longer, k < l
                     PROVE  longer[k] # longer[l] /\ Score(q.works[longer[k]]) >= Score(q.works[longer[l]])
            OBVIOUS
        <3>1. k \in DOMAIN chosen /\ longer[k] = chosen[k]
            BY <1>1, <2>2
        <3>2. CASE l \in DOMAIN chosen
            BY <2>2, <3>1, <3>2 DEF BestOf
        <3>3. CASE l = Len(chosen) + 1
            BY <1>2, <2>2, <3>1, <3>3
        <3> QED BY <1>1, <2>2, <3>2, <3>3
    <2>5. \A m \in 1..i : ranked[m] \in ToSet(longer) \/ PassedOver(q, longer, ranked[m])
        <3> TAKE m \in 1..i
        <3>1. \A x \in ToSet(chosen) : x \in ToSet(longer)
            BY <1>1, <2>2 DEF ToSet
        <3>2. w \in ToSet(longer)
            BY <1>1, <2>2 DEF ToSet
        <3>3. m \in 1..(i - 1) \/ m = i
            OBVIOUS
        <3> QED BY <2>1, <3>1, <3>2, <3>3 DEF BestOf, w
    <2> QED BY <1>3, <2>1, <2>3, <2>4, <2>5 DEF BestOf, longer, w
<1>4. CASE ~Fits(q, chosen, w)
    <2>1. PassedOver(q, chosen, w)
        BY <1>1, <1>2, <1>4, WorkDoesNotFit
    <2>2. \A k \in DOMAIN chosen : \E m \in 1..i : chosen[k] = ranked[m]
        BY DEF BestOf
    <2>3. \A m \in 1..i : m \in 1..(i - 1) \/ m = i
        OBVIOUS
    <2>4. \A m \in 1..i : ranked[m] \in ToSet(chosen) \/ PassedOver(q, chosen, ranked[m])
        BY <2>1, <2>3 DEF BestOf
    <2> HIDE DEF w
    <2>5. BestOf(q, ranked, i, chosen)
        BY <2>2, <2>4 DEF BestOf
    <2> QED BY <1>4, <2>5 DEF w
<1> QED BY <1>3, <1>4

\* Before the first, nothing is chosen.
LEMMA NothingChosen ==
  ASSUME NEW q \in PickQuestions, NEW ranked
  PROVE  BestOf(q, ranked, 0, <<>>)
<1>1. <<>> \in Seq(Eligible(q)) /\ Len(<<>>) = 0 /\ DOMAIN <<>> = {}
    OBVIOUS
<1>2. \A s : OfSource(q, <<>>, s) = 0
    BY <1>1, FS_EmptySet DEF OfSource
<1>3. Externals(q, <<>>) = 0
    BY <1>1, FS_EmptySet DEF Externals
<1>4. WithinShares(q, <<>>)
    BY <1>1, <1>2, <1>3, PickQuestion DEF WithinShares
<1> QED BY <1>1, <1>4 DEF BestOf

\* pick chooses the best works within the caps.
LEMMA PickIsBest == \A q \in PickQuestions : IsBestWithinCaps(q, Pick(q))
<1> SUFFICES ASSUME NEW q \in PickQuestions PROVE IsBestWithinCaps(q, Pick(q))
    OBVIOUS
<1> DEFINE E == Eligible(q)
           ranked == RankedWorks(q)
           n == Cardinality(E)
<1>1. IsFiniteSet(E) /\ StrictOrder(E, WorksOrder(q)) /\ ranked = InOrder(E, WorksOrder(q))
    BY PickQuestion, WorksOrdered DEF RankedWorks
<1> HIDE DEF ranked
<1>2. /\ n \in Nat /\ ranked \in [1..n -> E]
      /\ \A k, l \in 1..n : <<ranked[k], ranked[l]>> \in WorksOrder(q) <=> k < l
      /\ \A k, l \in 1..n : ranked[k] = ranked[l] => k = l
      /\ \A w \in E : \E k \in 1..n : ranked[k] = w
    BY <1>1, OrderLists
<1>3. \A k, l \in 1..n : k < l => /\ ranked[k] # ranked[l]
                                 /\ Score(q.works[ranked[k]]) >= Score(q.works[ranked[l]])
    <2> SUFFICES ASSUME NEW k \in 1..n, NEW l \in 1..n, k < l
                 PROVE  ranked[k] # ranked[l] /\ Score(q.works[ranked[k]]) >= Score(q.works[ranked[l]])
        OBVIOUS
    <2>1. <<ranked[k], ranked[l]>> \in WorksOrder(q) /\ ranked[k] \in E /\ ranked[l] \in E
        BY <1>2
    <2>2. Score(q.works[ranked[k]]) \in Nat /\ Score(q.works[ranked[l]]) \in Nat
        BY <2>1, PickQuestion
    <2>3. Score(q.works[ranked[k]]) > Score(q.works[ranked[l]])
            \/ Score(q.works[ranked[k]]) = Score(q.works[ranked[l]])
        BY <2>1 DEF WorksOrder
    <2> QED BY <1>2, <2>2, <2>3
<1> HIDE DEF n
<1>4. PICK c : PickedFrom(q, ranked, n, c) /\ Pick(q) = c[n]
    <2>1. n \in Nat /\ RankedWorks(q) \in [1..n -> E]
        BY <1>2 DEF ranked
    <2> HIDE DEF E
    <2> QED BY <2>1, PickSteps DEF ranked
<1> DEFINE T == {i \in Nat : i <= n => BestOf(q, ranked, i, c[i])}
<1>5. 0 \in T
    BY <1>4, NothingChosen DEF PickedFrom
<1>6. ASSUME NEW i \in Nat, i \in T PROVE i + 1 \in T
    <2> SUFFICES ASSUME i + 1 <= n PROVE BestOf(q, ranked, i + 1, c[i + 1])
        OBVIOUS
    <2>1. i + 1 \in 1..n /\ (i + 1) - 1 = i
        BY <1>2
    <2>2. BestOf(q, ranked, (i + 1) - 1, c[i])
        BY <1>2, <1>6, <2>1
    <2>3. c[i + 1] = IF Fits(q, c[i], ranked[i + 1]) THEN Append(c[i], ranked[i + 1]) ELSE c[i]
        BY <1>4, <2>1 DEF PickedFrom
    <2> QED BY <1>2, <1>3, <2>1, <2>2, <2>3, NextWork
<1> HIDE DEF T
<1>7. n \in T
    BY <1>2, <1>5, <1>6, ByInduction
<1> DEFINE chosen == Pick(q)
<1>8. BestOf(q, ranked, n, chosen)
    BY <1>2, <1>4, <1>7 DEF T
<1> HIDE DEF chosen
<1>9. chosen \in Seq(E) /\ WithinShares(q, chosen)
    BY <1>8 DEF BestOf
<1>10. ToSet(chosen) \cap q.exclude = {}
    BY <1>9, PickQuestion DEF ToSet
<1>11. ASSUME NEW w \in (1..NumWorks) \ (q.exclude \cup ToSet(chosen))
       PROVE  PassedOver(q, chosen, w)
    <2>1. PICK k \in 1..n : ranked[k] = w
        BY <1>2, PickQuestion
    <2> QED BY <1>8, <2>1 DEF BestOf
<1>12. \A i, j \in DOMAIN chosen :
         i < j => chosen[i] # chosen[j] /\ Score(q.works[chosen[i]]) >= Score(q.works[chosen[j]])
    BY <1>8 DEF BestOf
<1>13. IsBestWithinCaps(q, chosen)
    BY <1>9, <1>10, <1>11, <1>12 DEF IsBestWithinCaps, WithinShares
<1> QED BY <1>13 DEF chosen

-----------------------------------------------------------------------------
(* The fusion *)

\* A strictly increasing sequence of 1..n in 1..n is 1, 2, ..., n.
LEMMA IncreasingIsIdentity ==
  ASSUME NEW n \in Nat, NEW f \in [1..n -> 1..n], \A i, j \in 1..n : i < j => f[i] < f[j]
  PROVE  \A i \in 1..n : f[i] = i
<1> DEFINE Up == {m \in Nat : m \in 1..n => f[m] >= m}
           Down == {m \in Nat : n - m \in 1..n => f[n - m] <= n - m}
<1>1. 0 \in Up /\ 0 \in Down
    OBVIOUS
<1>2. ASSUME NEW m \in Nat, m \in Up PROVE m + 1 \in Up
    <2> SUFFICES ASSUME m + 1 \in 1..n PROVE f[m + 1] >= m + 1
        OBVIOUS
    <2>1. CASE m = 0
        BY <2>1
    <2>2. CASE m # 0
        <3>1. m \in 1..n /\ f[m] < f[m + 1] /\ f[m] >= m
            BY <1>2, <2>2
        <3>2. f[m] \in Nat /\ f[m + 1] \in Nat
            BY <3>1
        <3> QED BY <3>1, <3>2
    <2> QED BY <2>1, <2>2
<1>3. ASSUME NEW m \in Nat, m \in Down PROVE m + 1 \in Down
    <2> SUFFICES ASSUME n - (m + 1) \in 1..n PROVE f[n - (m + 1)] <= n - (m + 1)
        OBVIOUS
    <2> DEFINE k == n - (m + 1)
    <2>1. k \in 1..n /\ k + 1 \in 1..n /\ n - m = k + 1
        OBVIOUS
    <2> HIDE DEF k
    <2>2. f[k] < f[k + 1] /\ f[k + 1] <= k + 1 /\ f[k] \in Nat /\ f[k + 1] \in Nat
        BY <1>3, <2>1
    <2>3. f[k] <= k
        BY <2>1, <2>2
    <2> QED BY <2>3 DEF k
<1> HIDE DEF Up, Down
<1>4. Nat \subseteq Up /\ Nat \subseteq Down
    BY <1>1, <1>2, <1>3, ByInduction
<1>5. \A i \in 1..n : f[i] >= i /\ f[i] <= i /\ f[i] \in Nat
    <2> TAKE i \in 1..n
    <2>1. i \in Up /\ n - i \in Down /\ n - (n - i) = i
        BY <1>4
    <2> QED BY <2>1 DEF Up, Down
<1> QED BY <1>5

\* What a question for papers is made of.
LEMMA SearchQuestion ==
  ASSUME NEW q \in SearchQuestions
  PROVE  /\ q.nearest \in Seq(1..NumPapers) /\ q.keyword \in Seq(1..NumPapers)
         /\ q.limit \in Nat \ {0}
         /\ Fused(q) \in SUBSET (1..NumPapers) /\ IsFiniteSet(Fused(q))
<1>1. /\ q.nearest \in UpTo(1..NumPapers, MaxChunks)
      /\ q.keyword \in UpTo(1..NumPapers, MaxKeyword) /\ q.limit \in SearchLimits
    BY DEF SearchQuestions, Ranked
<1>2. ASSUME NEW P, NEW n \in Nat, NEW s \in UpTo(P, n) PROVE s \in Seq(P) /\ ToSet(s) \subseteq P
    <2>1. PICK T \in {[1..m -> P] : m \in 0..n} : s \in T
        BY DEF UpTo
    <2>2. PICK m \in 0..n : T = [1..m -> P]
        BY <2>1
    <2>3. m \in Nat /\ s \in [1..m -> P]
        BY <2>1, <2>2
    <2>4. s \in Seq(P)
        BY <2>3
    <2>5. DOMAIN s = 1..m /\ \A i \in 1..m : s[i] \in P
        BY <2>3
    <2> QED BY <2>4, <2>5 DEF ToSet
<1>3. q.nearest \in Seq(1..NumPapers) /\ q.keyword \in Seq(1..NumPapers)
    BY <1>1, <1>2, RankingAssumption
<1>4. Fused(q) \in SUBSET (1..NumPapers)
    BY <1>1, <1>2, RankingAssumption DEF Fused
<1>5. IsFiniteSet(1..NumPapers)
    BY RankingAssumption, FS_Interval
<1> QED BY <1>1, <1>3, <1>4, <1>5, FS_Subset, RankingAssumption

\* The dense ranking counts the papers up to a paper's best chunk: papers are ranked
\* from 1 on in the order of their best chunks.
LEMMA DenseRanks ==
  ASSUME NEW P, NEW s \in Seq(P)
  PROVE  /\ IsFiniteSet(ToSet(s))
         /\ \A p : /\ DenseRank(s, p) \in Nat
                   /\ DenseRank(s, p) # 0 <=> p \in ToSet(s)
                   /\ DenseRank(s, p) <= Cardinality(ToSet(s))
         /\ \A p, o \in ToSet(s) : IndexOf(s, p) < IndexOf(s, o) => DenseRank(s, p) < DenseRank(s, o)
<1> DEFINE n == Len(s)
           S == ToSet(s)
           B == Best(s)
           first == [p \in S |-> IndexOf(s, p)]
           upto(p) == {i \in B : i <= IndexOf(s, p)}
<1>1. n \in Nat /\ DOMAIN s = 1..n
    OBVIOUS
<1>2. \A p : /\ IndexOf(s, p) \in 0..n
             /\ p \in S <=> IndexOf(s, p) # 0
             /\ p \in S => IndexOf(s, p) \in 1..n /\ s[IndexOf(s, p)] = p
    BY FirstIndex
<1>3. \A i \in B : i \in 1..n /\ IndexOf(s, s[i]) = i /\ s[i] \in S
    BY <1>1 DEF Best, ToSet
<1>4. \A p \in S : first[p] \in B /\ s[first[p]] = p
    BY <1>1, <1>2 DEF Best
<1>5. IsFiniteSet(1..n)
    BY <1>1, FS_Interval
<1>6. IsFiniteSet(B)
    BY <1>3, <1>5, FS_Subset
<1>7. \A i \in B : first[s[i]] = i
    BY <1>3
<1>8. \A p : /\ DenseRank(s, p) = Cardinality(upto(p)) /\ upto(p) \in SUBSET B
             /\ upto(p) = {} <=> p \notin S
    <2> TAKE p
    <2>1. p \in S => IndexOf(s, p) \in upto(p)
        BY <1>2, <1>4
    <2>2. p \notin S => upto(p) = {}
        BY <1>2, <1>3
    <2> QED BY <2>1, <2>2 DEF DenseRank
<1>9. \A p, o \in S : IndexOf(s, p) < IndexOf(s, o) =>
        upto(p) \in SUBSET upto(o) /\ IndexOf(s, o) \in upto(o) /\ IndexOf(s, o) \notin upto(p)
    BY <1>2, <1>3, <1>4
<1> HIDE DEF B, S, n, upto
<1>10. first \in [S -> B]
    BY <1>4
<1> HIDE DEF first
<1>11. first \in Injection(S, B)
    BY <1>4, <1>10 DEF Injection, IsInjective
<1>12. first \in Surjection(S, B)
    BY <1>3, <1>7, <1>10 DEF Surjection
<1>13. IsFiniteSet(S) /\ Cardinality(S) = Cardinality(B)
    BY <1>6, <1>11, <1>12, FS_Injection
<1>14. \A p : IsFiniteSet(upto(p)) /\ Cardinality(upto(p)) <= Cardinality(B)
    BY <1>6, <1>8, FS_Subset
<1>15. \A p : Cardinality(upto(p)) \in Nat /\ (Cardinality(upto(p)) = 0 <=> upto(p) = {})
    BY <1>14, FS_CardinalityType, FS_EmptySet
<1>16. ASSUME NEW p \in S, NEW o \in S, IndexOf(s, p) < IndexOf(s, o)
       PROVE  DenseRank(s, p) < DenseRank(s, o)
    <2>1. upto(p) \in SUBSET upto(o) /\ upto(p) # upto(o)
        BY <1>9, <1>16
    <2>2. Cardinality(upto(p)) <= Cardinality(upto(o)) /\ Cardinality(upto(p)) # Cardinality(upto(o))
        BY <1>14, <2>1, FS_Subset
    <2> QED BY <1>8, <1>15, <2>2
<1> USE DEF S
<1> QED BY <1>8, <1>13, <1>14, <1>15, <1>16

Fraction == Nat \X (Nat \ {0})

\* Products of larger naturals are larger.
LEMMA Products ==
  /\ \A a, b, c \in Nat : a <= b => a * c <= b * c
  /\ \A a, b \in Nat, c \in Nat \ {0} : a * c <= b * c => a <= b
  /\ \A a, b \in Nat, c \in Nat \ {0} : a < b <=> a * c < b * c
OBVIOUS

\* Fractions are ordered: not being above is transitive.
LEMMA FractionsOrdered ==
  /\ \A x, y \in Fraction : Above(x, y) => ~Above(y, x)
  /\ \A x, y, z \in Fraction : ~Above(x, y) /\ ~Above(y, z) => ~Above(x, z)
<1>1. ASSUME NEW x \in Fraction, NEW y \in Fraction, Above(x, y) PROVE ~Above(y, x)
    BY <1>1 DEF Fraction, Above
<1>2. \A a, c, e \in Nat, b, d, f \in Nat \ {0} :
        a * d <= c * b /\ c * f <= e * d => a * f <= e * b
    <2> SUFFICES ASSUME NEW a \in Nat, NEW c \in Nat, NEW e \in Nat,
                        NEW b \in Nat \ {0}, NEW d \in Nat \ {0}, NEW f \in Nat \ {0},
                        a * d <= c * b, c * f <= e * d
                 PROVE  a * f <= e * b
        OBVIOUS
    <2>1. (a * d) * f <= (c * b) * f
        BY Products
    <2>2. (c * f) * b <= (e * d) * b
        BY Products
    <2>3. /\ (a * d) * f = (a * f) * d /\ (c * b) * f = (c * f) * b
          /\ (e * d) * b = (e * b) * d
        OBVIOUS
    <2>4. (a * f) * d <= (e * b) * d
        BY <2>1, <2>2, <2>3
    <2> QED BY <2>4, Products
<1>3. ASSUME NEW x \in Fraction, NEW y \in Fraction, NEW z \in Fraction,
             ~Above(x, y), ~Above(y, z)
      PROVE  ~Above(x, z)
    <2> DEFINE a == x[1]
               b == x[2]
               c == y[1]
               d == y[2]
               e == z[1]
               f == z[2]
    <2>1. a \in Nat /\ b \in Nat \ {0} /\ c \in Nat /\ d \in Nat \ {0} /\ e \in Nat /\ f \in Nat \ {0}
        BY DEF Fraction
    <2>2. /\ ~Above(x, y) <=> ~(a * d > c * b)
          /\ ~Above(y, z) <=> ~(c * f > e * d)
          /\ ~Above(x, z) <=> ~(a * f > e * b)
        BY DEF Above
    <2> HIDE DEF a, b, c, d, e, f
    <2>3. /\ a * d \in Nat /\ c * b \in Nat /\ c * f \in Nat
          /\ e * d \in Nat /\ a * f \in Nat /\ e * b \in Nat
        BY <2>1
    <2>4. a * d <= c * b /\ c * f <= e * d
        BY <1>3, <2>2, <2>3
    <2>5. a * f <= e * b
        BY <1>2, <2>1, <2>4
    <2> QED BY <2>2, <2>3, <2>5
<1> QED BY <1>1, <1>3

\* A sum is above another if one of its parts is and the other is not below.
LEMMA SumsOrdered ==
  ASSUME NEW x \in Fraction, NEW y \in Fraction, NEW v \in Fraction, NEW w \in Fraction
  PROVE  /\ Plus(x, y) \in Fraction
         /\ Above(x, v) /\ ~Above(w, y) => Above(Plus(x, y), Plus(v, w))
         /\ ~Above(v, x) /\ Above(y, w) => Above(Plus(x, y), Plus(v, w))
<1>1. /\ x[1] \in Nat /\ x[2] \in Nat \ {0} /\ y[1] \in Nat /\ y[2] \in Nat \ {0}
      /\ v[1] \in Nat /\ v[2] \in Nat \ {0} /\ w[1] \in Nat /\ w[2] \in Nat \ {0}
    BY DEF Fraction
<1>2. \A a, b \in Nat \ {0} : a * b \in Nat \ {0}
    OBVIOUS
<1>3. Plus(x, y) \in Fraction
    BY <1>1, <1>2 DEF Plus, Fraction
<1>4. ASSUME NEW a \in Nat, NEW b \in Nat \ {0}, NEW c \in Nat, NEW d \in Nat \ {0},
             NEW e \in Nat, NEW f \in Nat \ {0}, NEW g \in Nat, NEW h \in Nat \ {0},
             g * b <= a * h, e * d <= c * f, (g * b < a * h) \/ (e * d < c * f)
      PROVE  (a * d + c * b) * (h * f) > (g * f + e * h) * (b * d)
    <2> DEFINE k == d * f
               l == b * h
    <2>1. k \in Nat \ {0} /\ l \in Nat \ {0}
        BY <1>2
    <2>2. (g * b) * k <= (a * h) * k /\ (e * d) * l <= (c * f) * l
        BY <1>4, <2>1, Products
    <2>3. (g * b) * k < (a * h) * k \/ (e * d) * l < (c * f) * l
        BY <1>4, <2>1, Products
    <2>4. (a * d + c * b) * (h * f) = (a * h) * k + (c * f) * l
        OBVIOUS
    <2>5. (g * f + e * h) * (b * d) = (g * b) * k + (e * d) * l
        OBVIOUS
    <2>6. /\ (g * b) * k \in Nat /\ (a * h) * k \in Nat
          /\ (e * d) * l \in Nat /\ (c * f) * l \in Nat
        OBVIOUS
    <2>7. (g * b) * k + (e * d) * l < (a * h) * k + (c * f) * l
        <3> HIDE DEF k, l
        <3> QED BY <2>2, <2>3, <2>6
    <2> QED BY <2>4, <2>5, <2>7
<1>5. /\ Above(x, v) <=> v[1] * x[2] < x[1] * v[2]
      /\ ~Above(v, x) <=> v[1] * x[2] <= x[1] * v[2]
      /\ Above(y, w) <=> w[1] * y[2] < y[1] * w[2]
      /\ ~Above(w, y) <=> w[1] * y[2] <= y[1] * w[2]
    BY <1>1 DEF Above
<1>6. ASSUME v[1] * x[2] <= x[1] * v[2], w[1] * y[2] <= y[1] * w[2],
             v[1] * x[2] < x[1] * v[2] \/ w[1] * y[2] < y[1] * w[2]
      PROVE  Above(Plus(x, y), Plus(v, w))
    <2>1. (x[1] * y[2] + y[1] * x[2]) * (v[2] * w[2]) > (v[1] * w[2] + w[1] * v[2]) * (x[2] * y[2])
        BY <1>1, <1>4, <1>6
    <2> QED BY <2>1 DEF Plus, Above
<1>7. v[1] * x[2] < x[1] * v[2] => v[1] * x[2] <= x[1] * v[2]
    BY <1>1
<1>8. w[1] * y[2] < y[1] * w[2] => w[1] * y[2] <= y[1] * w[2]
    BY <1>1
<1> QED BY <1>3, <1>5, <1>6, <1>7, <1>8

\* A better rank has the larger reciprocal, no rank the least.
LEMMA RanksOrdered ==
  ASSUME NEW r \in Nat, NEW s \in Nat
  PROVE  /\ Rrf(r) \in Fraction
         /\ Above(Rrf(r), Rrf(s)) <=> r # 0 /\ (s # 0 => r < s)
BY DEF Rrf, RrfK, Fraction, Above

\* Both rankings put a paper ahead exactly when its reciprocal rank is above.
LEMMA AheadIsAbove ==
  ASSUME NEW P, NEW s \in Seq(P), NEW p, NEW o
  PROVE  /\ DenseRank(s, p) \in Nat /\ IndexOf(s, p) \in Nat
         /\ Ahead(s, p, o) <=> Above(Rrf(DenseRank(s, p)), Rrf(DenseRank(s, o)))
         /\ Ahead(s, p, o) <=> Above(Rrf(IndexOf(s, p)), Rrf(IndexOf(s, o)))
<1> DEFINE S == ToSet(s)
<1>1. \A x : /\ IndexOf(s, x) \in Nat /\ DenseRank(s, x) \in Nat
             /\ x \in S <=> IndexOf(s, x) # 0
             /\ x \in S <=> DenseRank(s, x) # 0
             /\ x \in S => s[IndexOf(s, x)] = x
    BY FirstIndex, DenseRanks
<1>2. \A x, y \in S : IndexOf(s, x) < IndexOf(s, y) => DenseRank(s, x) < DenseRank(s, y)
    BY DenseRanks
<1> HIDE DEF S
<1>3. p \in S /\ o \in S => (IndexOf(s, p) < IndexOf(s, o) <=> DenseRank(s, p) < DenseRank(s, o))
    <2> SUFFICES ASSUME p \in S, o \in S
                 PROVE  IndexOf(s, p) < IndexOf(s, o) <=> DenseRank(s, p) < DenseRank(s, o)
        OBVIOUS
    <2>1. CASE IndexOf(s, p) = IndexOf(s, o)
        <3>1. p = o
            BY <1>1, <2>1
        <3> QED BY <1>1, <3>1
    <2>2. CASE IndexOf(s, p) < IndexOf(s, o)
        BY <1>2, <2>2
    <2>3. CASE IndexOf(s, o) < IndexOf(s, p)
        <3>1. DenseRank(s, o) < DenseRank(s, p)
            BY <1>2, <2>3
        <3> QED BY <1>1, <2>3, <3>1
    <2> QED BY <1>1, <2>1, <2>2, <2>3
<1>4. Ahead(s, p, o) <=> p \in S /\ (o \in S => IndexOf(s, p) < IndexOf(s, o))
    BY DEF Ahead, S
<1>5. Ahead(s, p, o) <=> Above(Rrf(IndexOf(s, p)), Rrf(IndexOf(s, o)))
    BY <1>1, <1>4, RanksOrdered
<1>6. Ahead(s, p, o) <=> Above(Rrf(DenseRank(s, p)), Rrf(DenseRank(s, o)))
    BY <1>1, <1>3, <1>4, RanksOrdered
<1> QED BY <1>1, <1>5, <1>6

\* The score of a paper is a fraction; a paper that one ranking puts ahead of another
\* and neither behind it has the larger score.
LEMMA ScoresOrdered ==
  ASSUME NEW q \in SearchQuestions
  PROVE  /\ \A p : RrfScore(q, p) \in Fraction
         /\ \A p, o : Ahead(q.nearest, p, o) /\ ~Ahead(q.keyword, o, p)
                        => Above(RrfScore(q, p), RrfScore(q, o))
         /\ \A p, o : Ahead(q.keyword, p, o) /\ ~Ahead(q.nearest, o, p)
                        => Above(RrfScore(q, p), RrfScore(q, o))
<1> DEFINE dense(p) == Rrf(DenseRank(q.nearest, p))
           words(p) == Rrf(IndexOf(q.keyword, p))
<1>1. q.nearest \in Seq(1..NumPapers) /\ q.keyword \in Seq(1..NumPapers)
    BY SearchQuestion
<1>2. \A p, o : /\ DenseRank(q.nearest, p) \in Nat /\ IndexOf(q.keyword, p) \in Nat
                /\ Ahead(q.nearest, p, o) <=> Above(dense(p), dense(o))
                /\ Ahead(q.keyword, p, o) <=> Above(words(p), words(o))
    BY <1>1, AheadIsAbove
<1>3. \A p : dense(p) \in Fraction /\ words(p) \in Fraction
    BY <1>2, RanksOrdered
<1>4. \A p : RrfScore(q, p) = Plus(dense(p), words(p))
    BY DEF RrfScore
<1> HIDE DEF dense, words
<1>5. \A p, o : /\ Plus(dense(p), words(p)) \in Fraction
                /\ Above(dense(p), dense(o)) /\ ~Above(words(o), words(p))
                     => Above(Plus(dense(p), words(p)), Plus(dense(o), words(o)))
                /\ ~Above(dense(o), dense(p)) /\ Above(words(p), words(o))
                     => Above(Plus(dense(p), words(p)), Plus(dense(o), words(o)))
    BY <1>3, SumsOrdered
<1> QED BY <1>2, <1>4, <1>5

\* The papers found are in a strict order: by score, and by id between equal scores.
LEMMA FusedOrdered ==
  ASSUME NEW q \in SearchQuestions
  PROVE  StrictOrder(Fused(q), FusedOrder(q))
<1> DEFINE F == Fused(q)
           above == {e \in F \X F : Above(RrfScore(q, e[1]), RrfScore(q, e[2]))}
<1>1. F \subseteq Nat
    BY SearchQuestion
<1>2. \A x, y \in F : <<x, y>> \in above => <<y, x>> \notin above
    BY ScoresOrdered, FractionsOrdered
<1>3. \A x, y, z \in F : <<x, y>> \notin above /\ <<y, z>> \notin above => <<x, z>> \notin above
    <2> SUFFICES ASSUME NEW x \in F, NEW y \in F, NEW z \in F,
                        <<x, y>> \notin above, <<y, z>> \notin above
                 PROVE  <<x, z>> \notin above
        OBVIOUS
    <2>1. ~Above(RrfScore(q, x), RrfScore(q, y)) /\ ~Above(RrfScore(q, y), RrfScore(q, z))
        OBVIOUS
    <2>2. ~Above(RrfScore(q, x), RrfScore(q, z))
        BY <2>1, ScoresOrdered, FractionsOrdered
    <2> QED BY <2>2
<1>4. \A x, y \in F : <<x, y>> \in FusedOrder(q) <=> <<x, y>> \in above \/ (<<y, x>> \notin above /\ x < y)
    BY DEF FusedOrder
<1> HIDE DEF above, F
<1>5. \A x \in F : <<x, x>> \notin FusedOrder(q)
    BY <1>1, <1>2, <1>4
<1>6. \A x, y \in F : x # y => <<x, y>> \in FusedOrder(q) \/ <<y, x>> \in FusedOrder(q)
    BY <1>1, <1>4
<1>7. ASSUME NEW x \in F, NEW y \in F, NEW z \in F,
             <<x, y>> \in FusedOrder(q), <<y, z>> \in FusedOrder(q)
      PROVE  <<x, z>> \in FusedOrder(q)
    <2>1. <<y, x>> \notin above /\ <<z, y>> \notin above
        BY <1>2, <1>4, <1>7
    <2>2. <<z, x>> \notin above
        BY <1>3, <2>1
    <2>3. CASE <<x, y>> \in above \/ <<y, z>> \in above
        <3>1. <<x, z>> \in above
            BY <1>3, <2>1, <2>3
        <3> QED BY <1>4, <3>1
    <2>4. CASE <<x, y>> \notin above /\ <<y, z>> \notin above
        <3>1. x < y /\ y < z
            BY <1>4, <1>7, <2>4
        <3>2. x < z
            BY <1>1, <3>1
        <3> QED BY <1>4, <2>2, <3>2
    <2> QED BY <2>3, <2>4
<1> USE DEF F
<1> QED BY <1>5, <1>6, <1>7 DEF StrictOrder

\* The rows of an answer: the first papers of the order, as many as there is room for.
LEMMA RowsOfSearch ==
  ASSUME NEW q \in SearchQuestions
  PROVE  LET n == Cardinality(Fused(q))
             rows == InOrder(Fused(q), FusedOrder(q))
             k == IF n < q.limit THEN n ELSE q.limit
             hits == HybridRows(q)
         IN  /\ n \in Nat /\ k \in 0..n /\ rows \in [1..n -> Fused(q)]
             /\ \A i, j \in 1..n : <<rows[i], rows[j]>> \in FusedOrder(q) <=> i < j
             /\ \A i, j \in 1..n : rows[i] = rows[j] => i = j
             /\ \A p \in Fused(q) : \E i \in 1..n : rows[i] = p
             /\ DOMAIN hits = 1..k /\ Len(hits) = k
             /\ \A i \in 1..k : hits[i].paper = rows[i] /\ hits[i].chunk = IndexOf(q.nearest, rows[i])
<1> DEFINE n == Cardinality(Fused(q))
           rows == InOrder(Fused(q), FusedOrder(q))
           k == IF n < q.limit THEN n ELSE q.limit
           hits == HybridRows(q)
           kept == FirstOf(rows, q.limit)
<1>1. IsFiniteSet(Fused(q)) /\ q.limit \in Nat \ {0}
    BY SearchQuestion
<1> HIDE DEF rows, n
<1>2. /\ n \in Nat /\ rows \in [1..n -> Fused(q)] /\ rows \in Seq(Fused(q)) /\ Len(rows) = n
      /\ \A i, j \in 1..n : <<rows[i], rows[j]>> \in FusedOrder(q) <=> i < j
      /\ \A i, j \in 1..n : rows[i] = rows[j] => i = j
      /\ \A p \in Fused(q) : \E i \in 1..n : rows[i] = p
    BY <1>1, FusedOrdered, OrderLists DEF rows, n
<1>3. k \in 0..n
    BY <1>1, <1>2
<1>4. kept = SubSeq(rows, 1, k)
    BY <1>1, <1>2 DEF FirstOf
<1>5. Len(kept) = k /\ DOMAIN kept = 1..k /\ \A i \in 1..k : kept[i] = rows[i]
    BY <1>2, <1>3, <1>4
<1>6. /\ DOMAIN hits = DOMAIN kept
      /\ \A i \in DOMAIN kept :
           hits[i].paper = kept[i] /\ hits[i].chunk = IndexOf(q.nearest, kept[i])
      /\ hits = [i \in DOMAIN kept |-> hits[i]]
    BY DEF HybridRows, rows
<1> HIDE DEF kept, hits
<1>7. Len(hits) = k
    BY <1>2, <1>3, <1>5, <1>6
<1> USE DEF rows, hits, n
<1> QED BY <1>2, <1>3, <1>5, <1>6, <1>7

\* A hit says whether the words found its paper.
LEMMA FoundByWords ==
  \A q : \A i \in DOMAIN HybridRows(q) :
    HybridRows(q)[i].keyword <=> HybridRows(q)[i].paper \in ToSet(q.keyword)
BY DEF HybridRows

\* The search answers with the fusion of its rankings.
LEMMA SearchIsFusion == \A q \in SearchQuestions : IsFusion(q, HybridRows(q))
<1> SUFFICES ASSUME NEW q \in SearchQuestions PROVE IsFusion(q, HybridRows(q))
    OBVIOUS
<1> DEFINE F == Fused(q)
           n == Cardinality(F)
           rows == InOrder(F, FusedOrder(q))
           k == IF n < q.limit THEN n ELSE q.limit
           hits == HybridRows(q)
           papers == [i \in DOMAIN hits |-> hits[i].paper]
<1>1. /\ q.nearest \in Seq(1..NumPapers) /\ q.keyword \in Seq(1..NumPapers)
      /\ F = ToSet(q.nearest) \cup ToSet(q.keyword)
    BY SearchQuestion DEF Fused
<1>2. /\ n \in Nat /\ k \in 0..n /\ rows \in [1..n -> F]
      /\ \A i, j \in 1..n : <<rows[i], rows[j]>> \in FusedOrder(q) <=> i < j
      /\ \A i, j \in 1..n : rows[i] = rows[j] => i = j
      /\ \A p \in F : \E i \in 1..n : rows[i] = p
      /\ DOMAIN hits = 1..k /\ Len(hits) = k
    BY RowsOfSearch
<1>3. \A i \in 1..k : hits[i].paper = rows[i] /\ hits[i].chunk = IndexOf(q.nearest, rows[i])
    BY RowsOfSearch
<1> HIDE DEF rows, hits, k
<1>4. /\ papers \in Seq(F) /\ Len(papers) = k /\ DOMAIN papers = 1..k
      /\ \A i \in 1..k : papers[i] = rows[i]
    <2>1. papers = [i \in 1..k |-> rows[i]]
        <3>1. DOMAIN hits = 1..k
            BY <1>2
        <3>2. \A i \in DOMAIN hits : hits[i].paper = rows[i]
            BY <1>3, <3>1
        <3> QED BY <3>1, <3>2
    <2>2. k \in Nat /\ k <= n
        BY <1>2
    <2>3. \A i \in 1..k : rows[i] \in F
        BY <1>2, <2>2
    <2> HIDE DEF papers
    <2> QED BY <2>1, <2>2, <2>3
<1>5. \A p, o \in F :
        (/\ Ahead(q.nearest, p, o) \/ Ahead(q.keyword, p, o)
         /\ ~Ahead(q.nearest, o, p) /\ ~Ahead(q.keyword, o, p))
        => <<p, o>> \in FusedOrder(q)
    BY ScoresOrdered DEF FusedOrder
<1> HIDE DEF papers
<1>6. Cardinality(ToSet(papers)) = k
    <2> DEFINE P == ToSet(papers)
    <2>1. papers \in [1..k -> P] /\ \A p \in P : \E i \in 1..k : papers[i] = p
        BY <1>4 DEF ToSet
    <2>2. \A i, j \in 1..k : papers[i] = papers[j] => i = j
        BY <1>2, <1>4
    <2>3. k \in Nat
        BY <1>2
    <2>4. IsFiniteSet(1..k) /\ Cardinality(1..k) = k
        BY <2>3, FS_Interval
    <2> HIDE DEF P
    <2>5. papers \in Surjection(1..k, P) /\ papers \in Bijection(1..k, P)
        BY <2>1, <2>2 DEF Surjection, Injection, IsInjective, Bijection
    <2>6. Cardinality(P) = Cardinality(1..k)
        BY <2>4, <2>5, FS_Bijection DEF ExistsBijection
    <2> QED BY <2>4, <2>6 DEF P
<1>7. ASSUME NEW p \in F, NEW o \in F, <<p, o>> \in FusedOrder(q), o \in ToSet(papers)
      PROVE  p \in ToSet(papers) /\ IndexOf(papers, p) < IndexOf(papers, o)
    <2>1. /\ IndexOf(papers, o) \in 1..k /\ papers[IndexOf(papers, o)] = o
          /\ p \in ToSet(papers) => IndexOf(papers, p) \in 1..k /\ papers[IndexOf(papers, p)] = p
        BY <1>4, <1>7, FirstIndex
    <2>2. PICK i \in 1..n : rows[i] = p
        BY <1>2
    <2>3. IndexOf(papers, o) \in 1..n /\ rows[IndexOf(papers, o)] = o
        BY <1>2, <1>4, <2>1
    <2>4. i < IndexOf(papers, o)
        BY <1>2, <1>7, <2>2, <2>3
    <2>5. i \in 1..k /\ papers[i] = p
        BY <1>2, <1>4, <2>1, <2>2, <2>4
    <2>6. p \in ToSet(papers)
        BY <1>4, <2>5 DEF ToSet
    <2>7. IndexOf(papers, p) \in 1..n /\ rows[IndexOf(papers, p)] = p
        BY <1>2, <1>4, <2>1, <2>6
    <2>8. IndexOf(papers, p) = i
        BY <1>2, <2>2, <2>7
    <2> QED BY <2>4, <2>6, <2>8
<1>8. ASSUME q.keyword = <<>> PROVE \A i \in 1..k : DenseRank(q.nearest, papers[i]) = i
    <2> DEFINE f == [i \in 1..n |-> DenseRank(q.nearest, rows[i])]
    <2>1. ToSet(q.keyword) = {} /\ F = ToSet(q.nearest)
        BY <1>1, <1>8 DEF ToSet
    <2>2. \A p, o : ~Ahead(q.keyword, p, o)
        BY <2>1 DEF Ahead
    <2>3. \A p \in F : DenseRank(q.nearest, p) \in 1..n
        BY <1>1, <1>2, <2>1, DenseRanks
    <2>4. ASSUME NEW i \in 1..n, NEW j \in 1..n, i < j PROVE f[i] < f[j]
        <3>1. rows[i] \in F /\ rows[j] \in F /\ rows[i] # rows[j]
            BY <1>2, <2>4
        <3>2. <<rows[j], rows[i]>> \notin FusedOrder(q)
            BY <1>2, <2>4
        <3>3. ~Ahead(q.nearest, rows[j], rows[i]) \/ Ahead(q.nearest, rows[i], rows[j])
            BY <1>5, <2>2, <3>1, <3>2
        <3>4. \A p \in F : IndexOf(q.nearest, p) \in Nat /\ q.nearest[IndexOf(q.nearest, p)] = p
            BY <1>1, <2>1, FirstIndex
        <3>5. IndexOf(q.nearest, rows[i]) # IndexOf(q.nearest, rows[j])
            BY <3>1, <3>4
        <3>6. IndexOf(q.nearest, rows[i]) < IndexOf(q.nearest, rows[j])
            BY <2>1, <3>1, <3>3, <3>4, <3>5 DEF Ahead
        <3>7. DenseRank(q.nearest, rows[i]) < DenseRank(q.nearest, rows[j])
            BY <1>1, <2>1, <3>1, <3>6, DenseRanks
        <3> QED BY <3>7
    <2>5. f \in [1..n -> 1..n]
        BY <1>2, <2>3
    <2> HIDE DEF n
    <2>6. \A i \in 1..n : f[i] = i
        <3> HIDE DEF f
        <3> QED BY <1>2, <2>4, <2>5, IncreasingIsIdentity
    <2>7. \A i \in 1..k : i \in 1..n
        BY <1>2
    <2> QED BY <1>4, <2>6, <2>7
<1>9. \A i \in 1..k :
        IF hits[i].chunk = 0 THEN hits[i].paper \notin ToSet(q.nearest)
        ELSE /\ q.nearest[hits[i].chunk] = hits[i].paper
             /\ \A j \in 1..(hits[i].chunk - 1) : q.nearest[j] # hits[i].paper
    <2> TAKE i \in 1..k
    <2> DEFINE p == rows[i]
               c == IndexOf(q.nearest, p)
    <2>1. hits[i].paper = p /\ hits[i].chunk = c
        BY <1>3
    <2>2. /\ c \in 0..Len(q.nearest) /\ p \in ToSet(q.nearest) <=> c # 0
          /\ p \in ToSet(q.nearest) => /\ q.nearest[c] = p
                                       /\ \A j \in 1..Len(q.nearest) : q.nearest[j] = p => c <= j
        BY <1>1, FirstIndex
    <2>3. Len(q.nearest) \in Nat
        BY <1>1
    <2> HIDE DEF c, p
    <2>4. c # 0 => \A j \in 1..(c - 1) : q.nearest[j] # p
        BY <2>2, <2>3
    <2> QED BY <2>1, <2>2, <2>4
<1> HIDE DEF n
<1>10. /\ Len(hits) = k /\ DOMAIN hits = 1..k /\ DOMAIN papers = 1..k
      /\ k = IF n < q.limit THEN n ELSE q.limit
    BY <1>2, <1>4 DEF k
<1> HIDE DEF F
<1>11. \A i \in DOMAIN hits : hits[i].keyword <=> hits[i].paper \in ToSet(q.keyword)
    BY FoundByWords DEF hits
<1>12. IsFusion(q, hits)
    BY <1>1, <1>5, <1>6, <1>7, <1>8, <1>9, <1>10, <1>11 DEF IsFusion, papers, n
<1> QED BY <1>12 DEF hits

-----------------------------------------------------------------------------
(* The answers *)

\* An answer is what the two rankings compute for the question it answers.
Computed ==
  /\ asked = Silence \/ asked \in SearchQuestions \/ asked \in PickQuestions
  /\ \/ answer = Silence
     \/ asked \in SearchQuestions /\ answer = [kind |-> "search", hits |-> HybridRows(asked)]
     \/ asked \in PickQuestions /\ answer = [kind |-> "pick", chosen |-> Pick(asked)]

\* A question and silence are told apart by their kinds.
LEMMA Kinds ==
  /\ Silence.kind = "none"
  /\ \A q \in SearchQuestions : q.kind = "search" /\ q # Silence
  /\ \A q \in PickQuestions : q.kind = "pick" /\ q # Silence
<1>1. Silence.kind = "none"
    BY DEF Silence
<1>2. \A q \in SearchQuestions : q.kind = "search"
    BY DEF SearchQuestions
<1>3. \A q \in PickQuestions : q.kind = "pick"
    BY DEF PickQuestions
<1> QED BY <1>1, <1>2, <1>3

\* Computed is inductive.
THEOREM AnswersComputed == RankingSpec => []Computed
<1>1. RankingInit => Computed
    BY DEF RankingInit, Computed
<1>2. Computed /\ [RankingNext]_rankingVars => Computed'
    <2> SUFFICES ASSUME Computed, [RankingNext]_rankingVars PROVE Computed'
        OBVIOUS
    <2>1. CASE Ask
        <3>1. answer = Silence
            BY <2>1, Kinds DEF Ask, Computed
        <3> QED BY <2>1, <3>1 DEF Ask, Computed
    <2>2. CASE AnswerSearch
        <3>1. asked \in SearchQuestions
            BY <2>2, Kinds DEF AnswerSearch, Computed
        <3> QED BY <2>2, <3>1 DEF AnswerSearch, Computed
    <2>3. CASE AnswerPick
        <3>1. asked \in PickQuestions
            BY <2>3, Kinds DEF AnswerPick, Computed
        <3> QED BY <2>3, <3>1 DEF AnswerPick, Computed
    <2>4. CASE AskAgain
        BY <2>4 DEF AskAgain, Computed
    <2>5. CASE UNCHANGED rankingVars
        BY <2>5 DEF rankingVars, Computed
    <2> QED BY <2>1, <2>2, <2>3, <2>4, <2>5 DEF RankingNext
<1> QED BY <1>1, <1>2, PTL DEF RankingSpec

\* An answer is to the question asked.
LEMMA RankingTyped == RankingSpec => []RankingTypeOK
<1>1. Computed => RankingTypeOK
    <2> SUFFICES ASSUME Computed, answer # Silence PROVE answer.kind = asked.kind
        BY DEF Computed, RankingTypeOK
    <2>1. CASE asked \in SearchQuestions /\ answer = [kind |-> "search", hits |-> HybridRows(asked)]
        BY <2>1, Kinds
    <2>2. CASE asked \in PickQuestions /\ answer = [kind |-> "pick", chosen |-> Pick(asked)]
        BY <2>2, Kinds
    <2> QED BY <2>1, <2>2 DEF Computed
<1> QED BY <1>1, AnswersComputed, PTL

\* Whatever the index holds, a search answers with the fusion of its two rankings.
THEOREM SearchesFused == RankingSpec => []FusedRanking
<1>1. Computed => FusedRanking
    <2> SUFFICES ASSUME Computed, answer.kind = "search" PROVE IsFusion(asked, answer.hits)
        BY DEF FusedRanking
    <2>1. answer # Silence
        BY Kinds
    <2>2. [kind |-> "pick", chosen |-> Pick(asked)].kind = "pick"
        OBVIOUS
    <2>3. asked \in SearchQuestions /\ answer = [kind |-> "search", hits |-> HybridRows(asked)]
        BY <2>1, <2>2 DEF Computed
    <2>4. answer.hits = HybridRows(asked)
        BY <2>3
    <2> QED BY <2>3, <2>4, SearchIsFusion
<1> QED BY <1>1, AnswersComputed, PTL

\* Whatever may be suggested, the suggestions are the best ones the caps allow.
THEOREM SuggestionsBest == RankingSpec => []SuggestionsWithinCaps
<1>1. Computed => SuggestionsWithinCaps
    <2> SUFFICES ASSUME Computed, answer.kind = "pick" PROVE IsBestWithinCaps(asked, answer.chosen)
        BY DEF SuggestionsWithinCaps
    <2>1. answer # Silence
        BY Kinds
    <2>2. [kind |-> "search", hits |-> HybridRows(asked)].kind = "search"
        OBVIOUS
    <2>3. asked \in PickQuestions /\ answer = [kind |-> "pick", chosen |-> Pick(asked)]
        BY <2>1, <2>2 DEF Computed
    <2>4. answer.chosen = Pick(asked)
        BY <2>3
    <2> QED BY <2>3, <2>4, PickIsBest
<1> QED BY <1>1, AnswersComputed, PTL
=============================================================================
