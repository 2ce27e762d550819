---------------------------- MODULE NatInduction ----------------------------
(***************************************************************************)
(* Induction over the naturals with a set in place of the predicate, from  *)
(* the well-foundedness of strict inclusion between finite sets.  With it: *)
(* the elements of a set of naturals in their order, by rank, and          *)
(* sequences that are cut and joined; and remainders.                      *)
(***************************************************************************)
EXTENDS Integers, FiniteSets, FiniteSetsExt, FiniteSetTheorems, SequenceTheorems,
        WellFoundedInduction, TLAPS

\* Every non-empty set of naturals has a least element.
LEMMA Least ==
  ASSUME NEW T, T \subseteq Nat, T # {}
  PROVE  \E x \in T : \A y \in T : x <= y
<1> DEFINE F == {0..n : n \in T}
           R == StrictSubsetOrdering(Nat)
<1>1. F \subseteq FiniteSubsetsOf(Nat) /\ F # {}
  <2>1. \A n \in T : 0..n \in SUBSET Nat /\ IsFiniteSet(0..n)
    BY FS_Interval
  <2> QED
    BY <2>1 DEF FiniteSubsetsOf
<1>2. PICK X \in F : \A Y \in F : << Y, X >> \notin R
  <2>1. IsWellFoundedOn(R, FiniteSubsetsOf(Nat))
    BY FS_StrictSubsetOrderingWellFounded
  <2> HIDE DEF F, R
  <2> QED
    BY <1>1, <2>1, WFMin
<1>3. PICK x \in T : X = 0..x
  OBVIOUS
<1>4. ASSUME NEW y \in T, y < x PROVE FALSE
  <2>1. 0..y \in F /\ 0..y \subseteq 0..x /\ x \in 0..x /\ x \notin 0..y
    BY <1>4
  <2>2. << 0..y, 0..x >> \in R
    BY <2>1 DEF StrictSubsetOrdering
  <2> QED
    BY <2>1, <2>2, <1>2, <1>3
<1> QED
  BY <1>4

\* A set that holds 0 and, with every natural, the next one holds them all.
LEMMA Induction ==
  ASSUME NEW T, 0 \in T, \A n \in Nat : n \in T => n + 1 \in T
  PROVE  Nat \subseteq T
<1> SUFFICES ASSUME Nat \ T # {} PROVE FALSE
  OBVIOUS
<1>1. PICK x \in Nat \ T : \A y \in Nat \ T : x <= y
  BY Least
<1>2. x - 1 \in Nat /\ x - 1 \in T
  BY <1>1
<1> QED
  BY <1>1, <1>2

\* f begins with start and goes on as step says.
Recursive(f, start, step) ==
  f = [n \in Nat |-> IF n = 0 THEN start ELSE step[<< f[n - 1], n >>]]

\* A function is defined by its value for 0 and a step from each natural to the next.
LEMMA Recursion ==
  ASSUME NEW start, NEW step
  PROVE  \E f : Recursive(f, start, step)
<1> DEFINE Good(g, n) ==
             g = [k \in 0..n |-> IF k = 0 THEN start ELSE step[<< g[k - 1], k >>]]
<1>1. \A n \in Nat : \E g : Good(g, n)
  <2> DEFINE T == {n \in Nat : \E g : Good(g, n)}
  <2>1. 0 \in T
    <3>1. Good([k \in 0..0 |-> start], 0)
      OBVIOUS
    <3> QED
      BY <3>1
  <2>2. ASSUME NEW n \in Nat, n \in T PROVE n + 1 \in T
    <3>1. PICK g : Good(g, n)
      BY <2>2
    <3> DEFINE h == [k \in 0..(n + 1) |-> IF k = n + 1 THEN step[<< g[n], n + 1 >>] ELSE g[k]]
    <3>2. ASSUME NEW k \in 0..(n + 1)
          PROVE  h[k] = IF k = 0 THEN start ELSE step[<< h[k - 1], k >>]
      <4>1. CASE k = n + 1
        BY <4>1
      <4>2. CASE k # n + 1
        <5>1. k \in 0..n /\ h[k] = g[k]
          BY <4>2
        <5>2. k # 0 => h[k - 1] = g[k - 1]
          BY <5>1
        <5> QED
          BY <3>1, <5>1, <5>2
      <4> QED
        BY <4>1, <4>2
    <3>3. Good(h, n + 1)
      BY <3>2
    <3> HIDE DEF h, Good
    <3> QED
      BY <3>3
  <2> HIDE DEF T
  <2>3. Nat \subseteq T
    BY <2>1, <2>2, Induction
  <2> QED
    BY <2>3 DEF T
<1>2. ASSUME NEW n \in Nat, NEW m \in Nat, NEW g, NEW h, Good(g, n), Good(h, m)
      PROVE  \A k \in Nat : k <= n /\ k <= m => g[k] = h[k]
  <2> DEFINE T == {k \in Nat : k <= n /\ k <= m => g[k] = h[k]}
  <2>1. 0 \in T
    BY <1>2
  <2>2. ASSUME NEW k \in Nat, k \in T PROVE k + 1 \in T
    <3> SUFFICES ASSUME k + 1 <= n, k + 1 <= m PROVE g[k + 1] = h[k + 1]
      OBVIOUS
    <3>1. k + 1 \in 0..n /\ k + 1 \in 0..m /\ k + 1 # 0 /\ k + 1 - 1 = k /\ g[k] = h[k]
      BY <2>2
    <3>2. g[k + 1] = step[<< g[k], k + 1 >>] /\ h[k + 1] = step[<< h[k], k + 1 >>]
      BY <1>2, <3>1
    <3> QED
      BY <3>1, <3>2
  <2> HIDE DEF T
  <2>3. Nat \subseteq T
    BY <2>1, <2>2, Induction
  <2> QED
    BY <2>3 DEF T
<1> DEFINE G(n) == CHOOSE g : Good(g, n)
<1>3. \A n \in Nat : Good(G(n), n)
  BY <1>1
<1> HIDE DEF G
<1> DEFINE f == [k \in Nat |-> G(k)[k]]
<1>4. f = [k \in Nat |-> IF k = 0 THEN start ELSE step[<< f[k - 1], k >>]]
  <2> SUFFICES ASSUME NEW k \in Nat
               PROVE  G(k)[k] = IF k = 0 THEN start ELSE step[<< f[k - 1], k >>]
    OBVIOUS
  <2>1. G(k)[k] = IF k = 0 THEN start ELSE step[<< G(k)[k - 1], k >>]
    BY <1>3
  <2>2. CASE k # 0
    <3>1. k - 1 \in Nat /\ k - 1 <= k
      BY <2>2
    <3> HIDE DEF Good
    <3>2. G(k)[k - 1] = G(k - 1)[k - 1]
      BY <1>2, <1>3, <3>1
    <3> QED
      BY <2>1, <2>2, <3>1, <3>2
  <2> QED
    BY <2>1, <2>2
<1> HIDE DEF f
<1> QED
  BY <1>4 DEF Recursive

\* What Min of the community modules picks from a set of naturals.
LEMMA LeastOf ==
  ASSUME NEW T, T \subseteq Nat, T # {}
  PROVE  Min(T) \in T /\ \A y \in T : Min(T) <= y
BY Least DEF Min

\* What Max picks from a finite set of naturals.
LEMMA GreatestOf ==
  ASSUME NEW T, T \subseteq Nat, T # {}, NEW b \in Nat, \A x \in T : x <= b
  PROVE  Max(T) \in T /\ \A y \in T : Max(T) >= y
<1> DEFINE M == {n \in Nat : \A x \in T : x <= n}
<1>1. PICK n \in M : \A y \in M : n <= y
  <2>1. M # {} /\ M \subseteq Nat
    OBVIOUS
  <2> HIDE DEF M
  <2> QED
    BY <2>1, Least
<1>2. n \in Nat /\ \A x \in T : x <= n
  OBVIOUS
<1>3. ASSUME n \notin T PROVE FALSE
  <2>1. \A x \in T : x < n
    BY <1>2, <1>3
  <2>2. PICK x \in T : x \in Nat /\ x < n
    BY <2>1
  <2>3. n - 1 \in M
    BY <2>1, <2>2
  <2> HIDE DEF M
  <2> QED
    BY <1>1, <1>2, <2>3
<1>4. \E x \in T : \A y \in T : x >= y
  BY <1>2, <1>3
<1> QED
  BY <1>4 DEF Max
-----------------------------------------------------------------------------
(* The place of an element in a finite set of naturals. *)

\* How many elements are not greater than k.
Rank(T, k) == Cardinality({j \in T : j <= k})

\* The rank is a number, not greater than that of the whole set.
LEMMA RankType ==
  ASSUME NEW T, T \subseteq Nat, IsFiniteSet(T), NEW k \in Nat
  PROVE  /\ Rank(T, k) \in Nat /\ Cardinality(T) \in Nat
         /\ Rank(T, k) <= Cardinality(T)
         /\ IsFiniteSet({j \in T : j <= k})
BY FS_Subset, FS_CardinalityType DEF Rank

\* It grows by one at every element, and only there.
LEMMA RankGrows ==
  ASSUME NEW T, T \subseteq Nat, IsFiniteSet(T), NEW a \in Nat, NEW b \in Nat, a <= b
  PROVE  /\ Rank(T, a) <= Rank(T, b)
         /\ b \in T /\ a # b => Rank(T, a) < Rank(T, b)
         /\ Rank(T, a) = Rank(T, b) => \A j \in T : ~(a < j /\ j <= b)
<1> DEFINE A == {j \in T : j <= a}
           B == {j \in T : j <= b}
<1>1. IsFiniteSet(A) /\ IsFiniteSet(B) /\ A \subseteq B
  <2>1. A \in SUBSET T /\ B \in SUBSET T
    OBVIOUS
  <2>2. \A j \in T : j \in Nat /\ (j <= a => j <= b)
    OBVIOUS
  <2>3. A \subseteq B
    BY <2>2
  <2> HIDE DEF A, B
  <2> QED
    BY <2>1, <2>3, FS_Subset
<1>2. Cardinality(A) <= Cardinality(B) /\ Cardinality(A) \in Nat /\ Cardinality(B) \in Nat
      /\ (Cardinality(A) = Cardinality(B) => A = B)
  <2> HIDE DEF A, B
  <2> QED
    BY <1>1, FS_Subset, FS_CardinalityType
<1>5. A = B => \A j \in T : ~(a < j /\ j <= b)
  OBVIOUS
<1>6. Rank(T, a) = Cardinality(A) /\ Rank(T, b) = Cardinality(B)
  BY DEF Rank
<1>7. b \in T /\ a # b => A # B
  OBVIOUS
<1> HIDE DEF A, B
<1> QED
  BY <1>2, <1>5, <1>6, <1>7

\* From a number to the next, the rank grows by one if that is an element.
LEMMA RankNext ==
  ASSUME NEW T, T \subseteq Nat, IsFiniteSet(T), NEW a \in Nat, NEW b \in Nat, b = a + 1
  PROVE  /\ Rank(T, a) \in Nat /\ Rank(T, b) \in Nat
         /\ b \in T => Rank(T, b) = Rank(T, a) + 1
         /\ b \notin T => Rank(T, b) = Rank(T, a)
<1> DEFINE A == {j \in T : j <= a}
           B == {j \in T : j <= b}
<1>1. A \in SUBSET T /\ Rank(T, a) = Cardinality(A) /\ Rank(T, b) = Cardinality(B)
  BY DEF Rank
<1>2. Rank(T, a) \in Nat /\ Rank(T, b) \in Nat
  BY RankType
<1>3. \A j \in T : j <= b <=> j <= a \/ j = b
  OBVIOUS
<1>4. b \notin A
  OBVIOUS
<1>5. b \in T => B = A \cup {b}
  BY <1>3
<1>6. b \notin T => B = A
  BY <1>3
<1> HIDE DEF A, B
<1>7. IsFiniteSet(A)
  BY <1>1, FS_Subset
<1> QED
  BY <1>1, <1>2, <1>4, <1>5, <1>6, <1>7, FS_AddElement

\* The whole set is counted at any bound of it, and nothing below it.
LEMMA RankEnds ==
  ASSUME NEW T, T \subseteq Nat, IsFiniteSet(T), NEW b \in Nat
  PROVE  /\ (\A j \in T : j <= b) => Rank(T, b) = Cardinality(T)
         /\ (\A j \in T : b < j) => Rank(T, b) = 0
         /\ Rank(T, b) = Cardinality(T) => \A j \in T : j <= b
<1> DEFINE B == {j \in T : j <= b}
<1>1. (\A j \in T : j <= b) => B = T
  OBVIOUS
<1>2. (\A j \in T : b < j) => B = {}
  <2>1. \A j \in T : j \in Nat /\ (b < j => ~(j <= b))
    OBVIOUS
  <2> QED
    BY <2>1
<1>3. Cardinality(B) = Cardinality(T) => B = T
  <2>1. B \in SUBSET T
    OBVIOUS
  <2> HIDE DEF B
  <2> QED
    BY <2>1, FS_Subset, Zenon
<1>4. B = T => \A j \in T : j <= b
  OBVIOUS
<1>5. Rank(T, b) = Cardinality(B)
  BY DEF Rank
<1> HIDE DEF B
<1> QED
  BY <1>1, <1>2, <1>3, <1>4, <1>5, FS_EmptySet

\* Every number up to the size is the rank of one element.
LEMMA RankedOnce ==
  ASSUME NEW T, T \subseteq Nat, IsFiniteSet(T), NEW n \in 1..Cardinality(T)
  PROVE  \E k \in T : Rank(T, k) = n
<1> DEFINE m == Cardinality(T)
           f == [k \in T |-> Rank(T, k)]
<1>1. m \in Nat
  BY FS_CardinalityType
<1>2. \A k \in T : Rank(T, k) \in 1..m
  <2> TAKE k \in T
  <2>1. Rank(T, k) \in Nat /\ Rank(T, k) <= m
    BY RankType
  <2>2. k \in {j \in T : j <= k} /\ IsFiniteSet({j \in T : j <= k})
    <3>1. k \in Nat
      OBVIOUS
    <3>2. k \in {j \in T : j <= k}
      BY <3>1
    <3>3. IsFiniteSet({j \in T : j <= k})
      BY <3>1, RankType, Zenon
    <3> QED
      BY <3>2, <3>3
  <2>3. Rank(T, k) # 0
    <3>1. \A S : IsFiniteSet(S) /\ Cardinality(S) = 0 => S = {}
      BY FS_EmptySet
    <3> QED
      BY <2>2, <3>1 DEF Rank
  <2> QED
    BY <1>1, <2>1, <2>3
<1>3. \A j, k \in T : Rank(T, j) = Rank(T, k) => j = k
  <2> SUFFICES ASSUME NEW j \in T, NEW k \in T, j < k PROVE Rank(T, j) < Rank(T, k)
    <3>1. \A j, k \in T : j \in Nat /\ k \in Nat /\ Rank(T, j) \in Nat /\ Rank(T, k) \in Nat
      BY RankType
    <3> QED
      BY <3>1
  <2>1. j \in Nat /\ k \in Nat /\ j <= k /\ j # k
    OBVIOUS
  <2> QED
    BY <2>1, RankGrows
<1>4. f \in Injection(T, 1..m)
  BY <1>2, <1>3 DEF Injection, IsInjective
<1>5. IsFiniteSet(1..m) /\ Cardinality(1..m) = m
  BY <1>1, FS_Interval
<1>6. f \in Surjection(T, 1..m)
  <2> HIDE DEF f
  <2> QED
    BY <1>4, <1>5, FS_Injection
<1> QED
  BY <1>6 DEF Surjection

\* No two elements have the same rank.
LEMMA RankTells ==
  ASSUME NEW T, T \subseteq Nat, IsFiniteSet(T), NEW j \in T, NEW k \in T
  PROVE  /\ Rank(T, j) = Rank(T, k) => j = k
         /\ j < k <=> Rank(T, j) < Rank(T, k)
<1>1. Rank(T, j) \in Nat /\ Rank(T, k) \in Nat /\ j \in Nat /\ k \in Nat
  BY RankType
<1>2. ASSUME j < k PROVE Rank(T, j) < Rank(T, k)
  <2>1. j <= k /\ j # k
    BY <1>1, <1>2
  <2> QED
    BY <1>1, <2>1, RankGrows
<1>3. ASSUME k < j PROVE Rank(T, k) < Rank(T, j)
  <2>1. k <= j /\ j # k
    BY <1>1, <1>3
  <2> QED
    BY <1>1, <2>1, RankGrows
<1> QED
  BY <1>1, <1>2, <1>3
-----------------------------------------------------------------------------
(* Sequences. *)

\* What Append adds and keeps.
LEMMA Appended ==
  ASSUME NEW S, NEW s \in Seq(S), NEW e \in S
  PROVE  /\ Append(s, e) \in Seq(S) /\ Append(s, e) # << >>
         /\ DOMAIN Append(s, e) = 1..(Len(s) + 1) /\ Len(Append(s, e)) = Len(s) + 1
         /\ DOMAIN s = 1..Len(s) /\ Len(s) \in Nat
         /\ \A n \in 1..Len(s) : Append(s, e)[n] = s[n]
         /\ Append(s, e)[Len(s) + 1] = e
OBVIOUS

\* A function on 1..n is a sequence of that length.
LEMMA FunctionIsSequence ==
  ASSUME NEW n \in Nat, NEW S, NEW s \in [1..n -> S]
  PROVE  s \in Seq(S) /\ Len(s) = n /\ DOMAIN s = 1..n
<1>1. s \in Seq(S)
  BY SeqDef
<1>2. DOMAIN s = 1..Len(s) /\ Len(s) \in Nat
  BY <1>1, LenProperties
<1>3. DOMAIN s = 1..n
  OBVIOUS
<1> QED
  BY <1>1, <1>2, <1>3

\* A part of a sequence.
LEMMA Sliced ==
  ASSUME NEW S, NEW s \in Seq(S), NEW a \in Nat, NEW b \in Nat, a <= b, b <= Len(s)
  PROVE  /\ SubSeq(s, a + 1, b) \in Seq(S) /\ Len(SubSeq(s, a + 1, b)) = b - a
         /\ \A n \in 1..(b - a) : SubSeq(s, a + 1, b)[n] = s[a + n]
<1>1. \A n \in (a + 1)..b : s[n] \in S
  BY LenProperties, ElementOfSeq
<1>2. /\ SubSeq(s, a + 1, b) \in Seq(S)
      /\ Len(SubSeq(s, a + 1, b)) = IF a + 1 <= b THEN b - (a + 1) + 1 ELSE 0
      /\ \A n \in 1..(b - (a + 1) + 1) : SubSeq(s, a + 1, b)[n] = s[a + 1 + n - 1]
  BY <1>1, SubSeqProperties
<1>3. \A n \in 1..(b - a) : n \in 1..(b - (a + 1) + 1) /\ a + 1 + n - 1 = a + n
  OBVIOUS
<1> QED
  BY <1>2, <1>3

\* What one sequence behind another holds.
IsJoined(s, t, st) ==
  /\ Len(st) = Len(s) + Len(t)
  /\ \A n \in 1..Len(s) : st[n] = s[n]
  /\ \A n \in 1..Len(t) : st[Len(s) + n] = t[n]

\* Concatenation.
LEMMA Joined ==
  ASSUME NEW S, NEW s \in Seq(S), NEW t \in Seq(S)
  PROVE  s \o t \in Seq(S) /\ IsJoined(s, t, s \o t)
<1>1. s \o t \in Seq(S)
  BY ConcatProperties
<1>2. Len(s \o t) = Len(s) + Len(t)
  BY ConcatProperties
<1>3. \A n \in 1..Len(s) : (s \o t)[n] = s[n]
  OBVIOUS
<1>4. \A n \in 1..Len(t) : (s \o t)[Len(s) + n] = t[n]
  OBVIOUS
<1> QED
  BY <1>1, <1>2, <1>3, <1>4, Zenon DEF IsJoined
-----------------------------------------------------------------------------
(* Remainders. *)

\* A number is a multiple of another and a remainder.
LEMMA Split ==
  ASSUME NEW W \in Nat \ {0}, NEW a \in Int
  PROVE  \E q \in Int : a = W * q + (a % W) /\ a % W \in 0..(W - 1)
<1>1. a = W * (a \div W) + (a % W) /\ a % W \in 0..(W - 1) /\ a \div W \in Int
  OBVIOUS
<1> QED
  BY <1>1

\* There is only one such remainder.
LEMMA Remainder ==
  ASSUME NEW W \in Nat \ {0}, NEW q \in Int, NEW r \in 0..(W - 1)
  PROVE  (W * q + r) % W = r
<1> DEFINE a == W * q + r
<1>0. a \in Int /\ a = W * q + r
  OBVIOUS
<1> SUFFICES a % W = r
  OBVIOUS
<1> HIDE DEF a
<1>1. PICK p \in Int : a = W * p + (a % W) /\ a % W \in 0..(W - 1)
  BY <1>0, Split
<1>2. CASE p = q
  BY <1>0, <1>1, <1>2
<1>3. CASE p > q
  <2>1. PICK d \in Nat : p = q + 1 + d
    BY <1>3
  <2>2. W * p = W * q + W + W * d /\ W * d >= 0
    BY <2>1
  <2> QED
    BY <1>0, <1>1, <2>2
<1>4. CASE p < q
  <2>1. PICK d \in Nat : q = p + 1 + d
    BY <1>4
  <2>2. W * q = W * p + W + W * d /\ W * d >= 0
    BY <2>1
  <2> QED
    BY <1>0, <1>1, <2>2
<1> QED
  BY <1>2, <1>3, <1>4
=============================================================================
