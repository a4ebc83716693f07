----------------------------- MODULE NumberProofs -----------------------------
(***************************************************************************)
(* Lemmas about numbers that the other proofs rest on: induction; division *)
(* and what Timestamp::trunc guarantees for every window and every time;   *)
(* sums over finite sets.  A sum is the community modules'                 *)
(* SumFunctionOnSet, whose recursion takes the elements in an arbitrary    *)
(* order; the lemmas say that the order does not matter.                   *)
(***************************************************************************)
EXTENDS Timestamp, FiniteSets, Functions, FiniteSetTheorems, WellFoundedInduction, TLAPS

-----------------------------------------------------------------------------
(* Induction                                                               *)

\* A set of natural numbers has a least element.
LEMMA Least ==
  ASSUME NEW T, T \subseteq Nat, T # {}
  PROVE  \E n \in T : \A m \in T : n <= m
<1> DEFINE R == {p \in Nat \X Nat : p[1] < p[2]}
<1>1. IsWellFoundedOn(R, Nat)
  BY NatLessThanWellFounded DEF OpToRel
<1>2. ASSUME NEW m \in Nat, NEW n \in Nat, m < n PROVE <<m, n>> \in R
  BY <1>2
<1> HIDE DEF R
<1>3. \E n \in T : \A m \in T : ~(<<m, n>> \in R)
  BY <1>1, WFMin
<1>4. PICK n \in T : \A m \in T : ~(<<m, n>> \in R)
  BY <1>3
<1>5. ASSUME NEW m \in T PROVE n <= m
  <2>1. m \in Nat /\ n \in Nat
    OBVIOUS
  <2>2. ~(<<m, n>> \in R)
    BY <1>4
  <2>3. ~(m < n)
    BY <1>2, <2>1, <2>2
  <2> QED
    BY <2>1, <2>3
<1> QED
  BY <1>5

\* Induction, for a set of numbers.
LEMMA NatInd ==
  ASSUME NEW T, 0 \in T, \A n \in Nat : n \in T => n + 1 \in T
  PROVE  \A n \in Nat : n \in T
<1> SUFFICES ASSUME NEW n \in Nat, n \notin T PROVE FALSE
  OBVIOUS
<1> DEFINE U == {m \in Nat : m \notin T}
<1>1. PICK m \in U : \A k \in U : m <= k
  BY Least
<1>2. m # 0 /\ m - 1 \in Nat
  OBVIOUS
<1>3. m - 1 \notin U
  BY <1>1, <1>2
<1>4. m - 1 \in T /\ m = m - 1 + 1
  BY <1>2, <1>3
<1> QED
  BY <1>1, <1>2, <1>4

-----------------------------------------------------------------------------
(* Division, and the windows of the clock                                  *)

\* % and \div decompose an integer.
LEMMA Division ==
  ASSUME NEW w \in Nat \ {0}, NEW t \in Int
  PROVE  /\ t % w \in 0 .. w - 1
         /\ t \div w \in Int
         /\ t = (t \div w) * w + (t % w)
OBVIOUS

\* The decomposition is unique.
LEMMA Remainder ==
  ASSUME NEW w \in Nat \ {0}, NEW q \in Int, NEW r \in 0 .. w - 1
  PROVE  (q * w + r) % w = r
OBVIOUS

\* trunc returns a multiple of the window.
LEMMA TruncMultiple ==
  ASSUME NEW w \in Nat \ {0}, NEW t \in Int
  PROVE  Trunc(t, w) = (t \div w) * w
BY Division DEF Trunc

\* trunc never moves a time forward, nor back by a whole window.
LEMMA TruncBounds ==
  ASSUME NEW w \in Nat \ {0}, NEW t \in Nat
  PROVE  /\ Trunc(t, w) \in Nat
         /\ Trunc(t, w) <= t
         /\ t < Trunc(t, w) + w
<1>1. Trunc(t, w) \in Int /\ Trunc(t, w) <= t /\ t < Trunc(t, w) + w
  BY Division DEF Trunc
<1>2. (t \div w) \in Int /\ Trunc(t, w) = (t \div w) * w
  <2>1. t \in Int
    OBVIOUS
  <2>2. (t \div w) \in Int
    BY <2>1, Division
  <2> QED
    BY <2>1, <2>2, TruncMultiple
<1>3. (t \div w) \in Nat
  BY <1>1, <1>2
<1> QED
  BY <1>1, <1>2, <1>3

\* A truncated time is aligned: truncating it again changes nothing.
LEMMA TruncIdempotent ==
  ASSUME NEW w \in Nat \ {0}, NEW t \in Nat
  PROVE  Trunc(Trunc(t, w), w) = Trunc(t, w)
<1> DEFINE q == t \div w
<1>1. q \in Int /\ Trunc(t, w) = q * w + 0
  <2>1. t \in Int
    OBVIOUS
  <2>2. q \in Int
    BY <2>1, Division
  <2>3. Trunc(t, w) = q * w
    BY <2>1, TruncMultiple
  <2> QED
    BY <2>2, <2>3
<1>2. (q * w + 0) % w = 0
  BY <1>1, Remainder
<1>3. Trunc(q * w + 0, w) = q * w + 0
  BY <1>1, <1>2 DEF Trunc
<1> QED
  BY <1>1, <1>3

\* One window after an aligned time is the next aligned time, and there is
\* none between the two.
LEMMA TruncNext ==
  ASSUME NEW w \in Nat \ {0}, NEW a \in Nat, Trunc(a, w) = a
  PROVE  /\ Trunc(a + w, w) = a + w
         /\ \A b \in Nat : Trunc(b, w) = b /\ a < b => a + w <= b
<1> DEFINE q == a \div w
<1>1. q \in Int /\ a = q * w
  BY Division, TruncMultiple
<1>2. a + w = (q + 1) * w + 0
  BY <1>1
<1>3. ((q + 1) * w + 0) % w = 0
  BY <1>1, Remainder
<1>4. Trunc(a + w, w) = a + w
  BY <1>2, <1>3 DEF Trunc
<1>5. ASSUME NEW b \in Nat, Trunc(b, w) = b, a < b
      PROVE  a + w <= b
  <2> DEFINE p == b \div w
  <2>1. p \in Int /\ b = p * w
    BY <1>5, Division, TruncMultiple
  <2> HIDE DEF p, q
  <2>2. q < p
    BY <1>1, <1>5, <2>1
  <2>3. (q + 1) * w <= p * w
    BY <1>1, <2>1, <2>2
  <2> QED
    BY <1>1, <1>2, <2>1, <2>3
<1> QED
  BY <1>4, <1>5

\* A later time is never truncated to an earlier window.
LEMMA TruncMonotone ==
  ASSUME NEW w \in Nat \ {0}, NEW s \in Nat, NEW t \in Nat, s <= t
  PROVE  Trunc(s, w) <= Trunc(t, w)
<1>1. /\ Trunc(s, w) \in Nat /\ Trunc(t, w) \in Nat
      /\ Trunc(s, w) <= s /\ t < Trunc(t, w) + w
  BY TruncBounds
<1>2. CASE Trunc(t, w) < Trunc(s, w)
  <2>1. Trunc(t, w) + w <= Trunc(s, w)
    BY <1>1, <1>2, TruncIdempotent, TruncNext
  <2> QED
    BY <1>1, <2>1
<1> QED
  BY <1>1, <1>2

-----------------------------------------------------------------------------
(* The recursion behind a sum                                              *)

\* The sum of F[x] for the x in S.
Sum(F, S) == SumFunctionOnSet(F, S)

\* The element that the fold takes from s, and its recursion.
Pick(s) == CHOOSE x \in s : TRUE
IsIter(g, F, S) ==
  g = [s \in SUBSET S |-> IF s = {} THEN 0 ELSE F[Pick(s)] + g[s \ {Pick(s)}]]

LEMMA SumIs ==
  ASSUME NEW F, NEW S
  PROVE  Sum(F, S) = (CHOOSE g : IsIter(g, F, S))[S]
BY DEF Sum, SumFunctionOnSet, FoldFunctionOnSet, MapThenFoldSet, Pick, IsIter

LEMMA PickIn ==
  ASSUME NEW s, s # {}
  PROVE  Pick(s) \in s
BY DEF Pick

\* A function that satisfies the recursion exists: built up from the subsets of
\* at most n elements.
LEMMA IterExists ==
  ASSUME NEW F, NEW S, IsFiniteSet(S)
  PROVE  \E g : IsIter(g, F, S)
<1> DEFINE Upto(g, n) ==
             g = [s \in SUBSET S |->
                   IF s # {} /\ Cardinality(s) <= n THEN F[Pick(s)] + g[s \ {Pick(s)}] ELSE 0]
           T == {n \in Nat : \E g : Upto(g, n)}
<1>0. ASSUME NEW s \in SUBSET S, s # {}
      PROVE  /\ Pick(s) \in s /\ s \ {Pick(s)} \in SUBSET S
             /\ Cardinality(s) \in Nat /\ Cardinality(s) > 0
             /\ Cardinality(s \ {Pick(s)}) = Cardinality(s) - 1
  <2>1. IsFiniteSet(s) /\ Pick(s) \in s
    BY <1>0, FS_Subset, PickIn
  <2>2. Cardinality(s \ {Pick(s)}) = Cardinality(s) - 1 /\ Cardinality(s) \in Nat
    BY <2>1, FS_RemoveElement, FS_CardinalityType
  <2>3. Cardinality(s) # 0
    BY <1>0, <2>1, FS_EmptySet
  <2> QED
    BY <2>1, <2>2, <2>3
<1>1. 0 \in T
  <2> DEFINE g0 == [s \in SUBSET S |-> 0]
  <2>1. ASSUME NEW s \in SUBSET S, s # {}, Cardinality(s) <= 0 PROVE FALSE
    <3>1. Cardinality(s) \in Nat /\ Cardinality(s) > 0
      BY <1>0, <2>1
    <3> QED
      BY <2>1, <3>1
  <2>2. Upto(g0, 0)
    BY <2>1
  <2> QED
    BY <2>2
<1>2. ASSUME NEW n \in Nat, n \in T PROVE n + 1 \in T
  <2>1. PICK g : Upto(g, n)
    BY <1>2
  <2> DEFINE h == [s \in SUBSET S |->
                    IF s # {} /\ Cardinality(s) <= n + 1 THEN F[Pick(s)] + g[s \ {Pick(s)}] ELSE 0]
  <2>2. ASSUME NEW s \in SUBSET S, s # {}, Cardinality(s) <= n + 1
        PROVE  h[s \ {Pick(s)}] = g[s \ {Pick(s)}]
    <3> DEFINE r == s \ {Pick(s)}
    <3>1. r \in SUBSET S /\ (r # {} => Cardinality(r) <= n /\ Cardinality(r) <= n + 1)
      BY <1>0, <2>2
    <3>2. g[r] = IF r # {} /\ Cardinality(r) <= n THEN F[Pick(r)] + g[r \ {Pick(r)}] ELSE 0
      BY <2>1, <3>1
    <3>3. h[r] = IF r # {} /\ Cardinality(r) <= n + 1 THEN F[Pick(r)] + g[r \ {Pick(r)}] ELSE 0
      BY <3>1
    <3> QED
      BY <3>1, <3>2, <3>3
  <2>3. h = [s \in SUBSET S |->
              IF s # {} /\ Cardinality(s) <= n + 1 THEN F[Pick(s)] + h[s \ {Pick(s)}] ELSE 0]
    BY <2>2
  <2> HIDE DEF h
  <2>4. \E f : Upto(f, n + 1)
    BY <2>3
  <2> QED
    BY <2>4
<1>3. \A n \in Nat : n \in T
  <2> HIDE DEF T
  <2> QED
    BY <1>1, <1>2, NatInd
<1>4. PICK g : Upto(g, Cardinality(S))
  BY <1>3, FS_CardinalityType
<1>5. ASSUME NEW s \in SUBSET S PROVE s # {} => Cardinality(s) <= Cardinality(S)
  BY FS_Subset
<1>6. g = [s \in SUBSET S |-> IF s = {} THEN 0 ELSE F[Pick(s)] + g[s \ {Pick(s)}]]
  BY <1>4, <1>5
<1> QED
  BY <1>6 DEF IsIter

\* The size of a subset of S, and of what remains without an element.
LEMMA SubsetSize ==
  ASSUME NEW S, IsFiniteSet(S), NEW s \in SUBSET S
  PROVE  /\ Cardinality(s) \in Nat
         /\ Cardinality(s) = 0 <=> s = {}
         /\ \A x \in s : Cardinality(s \ {x}) = Cardinality(s) - 1
<1>1. IsFiniteSet(s) /\ Cardinality(s) \in Nat
  BY FS_Subset, FS_CardinalityType
<1>2. \A x \in s : Cardinality(s \ {x}) = Cardinality(s) - 1
  BY <1>1, FS_RemoveElement
<1>3. Cardinality(s) = 0 <=> s = {}
  BY <1>1, FS_EmptySet
<1> QED
  BY <1>1, <1>2, <1>3

\* What the recursion says of a subset of S.
LEMMA IterFacts ==
  ASSUME NEW F, NEW S, NEW g, IsIter(g, F, S), NEW s \in SUBSET S
  PROVE  /\ s = {} => g[s] = 0
         /\ s # {} => Pick(s) \in s /\ g[s] = F[Pick(s)] + g[s \ {Pick(s)}]
<1>1. s # {} => Pick(s) \in s
  BY PickIn
<1>2. /\ s = {} => g[s] = 0
      /\ s # {} => g[s] = F[Pick(s)] + g[s \ {Pick(s)}]
  BY DEF IsIter
<1> QED
  BY <1>1, <1>2

\* A sum of natural numbers is one.
LEMMA IterNat ==
  ASSUME NEW F, NEW S, IsFiniteSet(S), \A x \in S : F[x] \in Nat, NEW g, IsIter(g, F, S)
  PROVE  \A s \in SUBSET S : g[s] \in Nat
<1> DEFINE T == {n \in Nat : \A s \in SUBSET S : Cardinality(s) = n => g[s] \in Nat}
<1>1. 0 \in T
  <2>1. ASSUME NEW s \in SUBSET S, Cardinality(s) = 0 PROVE g[s] \in Nat
    <3>1. s = {}
      BY <2>1, SubsetSize
    <3>2. g[s] = 0
      BY <3>1, IterFacts
    <3> QED
      BY <3>2
  <2> QED
    BY <2>1
<1>2. ASSUME NEW n \in Nat, n \in T PROVE n + 1 \in T
  <2>1. ASSUME NEW s \in SUBSET S, Cardinality(s) = n + 1 PROVE g[s] \in Nat
    <3>0. Cardinality(s) # 0
      BY <2>1
    <3>1. s # {}
      BY <3>0, SubsetSize
    <3>2. Pick(s) \in s /\ g[s] = F[Pick(s)] + g[s \ {Pick(s)}]
      BY <3>1, IterFacts
    <3>3. Cardinality(s \ {Pick(s)}) = n /\ s \ {Pick(s)} \in SUBSET S
      BY <2>1, <3>2, SubsetSize
    <3>4. g[s \ {Pick(s)}] \in Nat /\ F[Pick(s)] \in Nat
      BY <1>2, <3>2, <3>3
    <3> QED
      BY <3>2, <3>4
  <2> QED
    BY <2>1
<1>3. \A n \in Nat : n \in T
  <2> HIDE DEF T
  <2> QED
    BY <1>1, <1>2, NatInd
<1> QED
  BY <1>3, SubsetSize

\* Any element can be taken first.
LEMMA IterRemove ==
  ASSUME NEW F, NEW S, IsFiniteSet(S), \A x \in S : F[x] \in Nat, NEW g, IsIter(g, F, S)
  PROVE  \A s \in SUBSET S : \A x \in s : g[s] = F[x] + g[s \ {x}]
<1> DEFINE Good(s) == \A x \in s : g[s] = F[x] + g[s \ {x}]
           T == {n \in Nat : \A s \in SUBSET S : Cardinality(s) = n => Good(s)}
<1>0. \A s \in SUBSET S : g[s] \in Nat
  BY IterNat
<1>1. 0 \in T
  <2>1. ASSUME NEW s \in SUBSET S, Cardinality(s) = 0 PROVE Good(s)
    BY <2>1, SubsetSize
  <2> HIDE DEF Good
  <2> QED
    BY <2>1
<1>2. ASSUME NEW n \in Nat, n \in T PROVE n + 1 \in T
  <2>1. ASSUME NEW s \in SUBSET S, Cardinality(s) = n + 1 PROVE Good(s)
    <3> DEFINE p == Pick(s)
    <3>0. Cardinality(s) # 0
      BY <2>1
    <3>1. s # {}
      BY <3>0, SubsetSize
    <3>2. p \in s /\ g[s] = F[p] + g[s \ {p}]
      BY <3>1, IterFacts
    <3>3. ASSUME NEW x \in s PROVE Good(s \ {x})
      <4>1. Cardinality(s \ {x}) = n /\ s \ {x} \in SUBSET S
        BY <2>1, SubsetSize
      <4> HIDE DEF Good
      <4> QED
        BY <1>2, <4>1
    <3> HIDE DEF p
    <3>4. ASSUME NEW x \in s, x # p PROVE g[s] = F[x] + g[s \ {x}]
      <4>1. g[s \ {p}] = F[x] + g[(s \ {p}) \ {x}]
        BY <3>2, <3>3, <3>4
      <4>2. g[s \ {x}] = F[p] + g[(s \ {x}) \ {p}]
        BY <3>2, <3>3, <3>4
      <4>3. (s \ {p}) \ {x} = (s \ {x}) \ {p}
        OBVIOUS
      <4>4. F[x] \in Nat /\ F[p] \in Nat /\ g[(s \ {x}) \ {p}] \in Nat
        BY <1>0, <3>2
      <4> QED
        BY <3>2, <4>1, <4>2, <4>3, <4>4
    <3> QED
      BY <3>2, <3>4
  <2> HIDE DEF Good
  <2> QED
    BY <2>1
<1>3. \A n \in Nat : n \in T
  <2> HIDE DEF T
  <2> QED
    BY <1>1, <1>2, NatInd
<1> HIDE DEF Good
<1>4. \A s \in SUBSET S : Good(s)
  BY <1>3, SubsetSize
<1> QED
  BY <1>4 DEF Good

\* Two sums over the same set, term by term.
LEMMA IterLeq ==
  ASSUME NEW F, NEW S, IsFiniteSet(S), \A x \in S : F[x] \in Nat, NEW g, IsIter(g, F, S),
         NEW G, NEW U, IsFiniteSet(U), \A x \in U : G[x] \in Nat, NEW h, IsIter(h, G, U),
         NEW V, V \subseteq S, V \subseteq U, \A x \in V : F[x] <= G[x]
  PROVE  g[V] <= h[V]
<1> DEFINE T == {n \in Nat : \A s \in SUBSET V : Cardinality(s) = n => g[s] <= h[s]}
<1>0. /\ \A s \in SUBSET V : s \in SUBSET S /\ s \in SUBSET U
      /\ \A s \in SUBSET V : g[s] \in Nat /\ h[s] \in Nat
      /\ V \in SUBSET V
  <2>1. \A s \in SUBSET V : s \in SUBSET S /\ s \in SUBSET U
    OBVIOUS
  <2> QED
    BY <2>1, IterNat
<1>1. 0 \in T
  <2>1. ASSUME NEW s \in SUBSET V, Cardinality(s) = 0 PROVE g[s] <= h[s]
    <3>1. s = {} /\ g[s] = 0 /\ h[s] = 0
      <4>1. s = {}
        BY <1>0, <2>1, SubsetSize
      <4> QED
        BY <1>0, <4>1, IterFacts
    <3> QED
      BY <3>1
  <2> QED
    BY <2>1
<1>2. ASSUME NEW n \in Nat, n \in T PROVE n + 1 \in T
  <2>1. ASSUME NEW s \in SUBSET V, Cardinality(s) = n + 1 PROVE g[s] <= h[s]
    <3>0. Cardinality(s) # 0
      BY <2>1
    <3>1. s # {}
      BY <1>0, <3>0, SubsetSize
    <3>2. PICK x \in s : TRUE
      BY <3>1
    <3>3. g[s] = F[x] + g[s \ {x}] /\ h[s] = G[x] + h[s \ {x}]
      BY <1>0, IterRemove
    <3>4. Cardinality(s \ {x}) = n /\ s \ {x} \in SUBSET V
      BY <1>0, <2>1, SubsetSize
    <3>5. g[s \ {x}] <= h[s \ {x}]
      BY <1>2, <3>4
    <3>6. /\ F[x] \in Nat /\ G[x] \in Nat /\ F[x] <= G[x]
          /\ g[s \ {x}] \in Nat /\ h[s \ {x}] \in Nat
      BY <1>0, <3>4
    <3> QED
      BY <3>3, <3>5, <3>6
  <2> QED
    BY <2>1
<1>3. \A n \in Nat : n \in T
  <2> HIDE DEF T
  <2> QED
    BY <1>1, <1>2, NatInd
<1>4. Cardinality(V) \in Nat
  BY <1>0, SubsetSize
<1> QED
  BY <1>0, <1>3, <1>4

-----------------------------------------------------------------------------
(* Sums                                                                    *)

\* The terms of a sum are natural numbers, and finitely many.
IsNatOn(F, S) == IsFiniteSet(S) /\ \A x \in S : F[x] \in Nat

LEMMA SumIter ==
  ASSUME NEW F, NEW S, IsFiniteSet(S)
  PROVE  \E g : IsIter(g, F, S) /\ Sum(F, S) = g[S]
<1>1. IsIter(CHOOSE g : IsIter(g, F, S), F, S)
  <2>1. \E g : IsIter(g, F, S)
    BY IterExists
  <2> QED
    BY <2>1, Zenon
<1> QED
  BY <1>1, SumIs, Zenon

\* A sum is no larger than another one over the same set whose terms are not.
LEMMA SumLeq ==
  ASSUME NEW F, NEW G, NEW S, IsNatOn(F, S), IsNatOn(G, S), \A x \in S : F[x] <= G[x]
  PROVE  Sum(F, S) <= Sum(G, S)
<1>1. PICK g : IsIter(g, F, S) /\ Sum(F, S) = g[S]
  BY SumIter DEF IsNatOn
<1>2. PICK h : IsIter(h, G, S) /\ Sum(G, S) = h[S]
  BY SumIter DEF IsNatOn
<1>3. g[S] <= h[S]
  BY <1>1, <1>2, IterLeq DEF IsNatOn
<1> QED
  BY <1>1, <1>2, <1>3

LEMMA SumNat ==
  ASSUME NEW F, NEW S, IsNatOn(F, S)
  PROVE  Sum(F, S) \in Nat
<1>1. PICK g : IsIter(g, F, S) /\ Sum(F, S) = g[S]
  BY SumIter DEF IsNatOn
<1>2. g[S] \in Nat
  BY <1>1, IterNat DEF IsNatOn
<1> QED
  BY <1>1, <1>2

LEMMA SumEmpty ==
  ASSUME NEW F
  PROVE  Sum(F, {}) = 0
<1>0. IsFiniteSet({})
  BY FS_EmptySet
<1>1. PICK g : IsIter(g, F, {}) /\ Sum(F, {}) = g[{}]
  BY <1>0, SumIter
<1>2. g[{}] = 0
  BY <1>1 DEF IsIter
<1> QED
  BY <1>1, <1>2

\* Sums with the same terms are equal.
LEMMA SumEqual ==
  ASSUME NEW F, NEW G, NEW S, IsNatOn(F, S), \A x \in S : F[x] = G[x]
  PROVE  Sum(F, S) = Sum(G, S)
<1>1. IsNatOn(G, S)
  BY DEF IsNatOn
<1>2. \A x \in S : F[x] <= G[x] /\ G[x] <= F[x]
  BY <1>1 DEF IsNatOn
<1>3. Sum(F, S) <= Sum(G, S) /\ Sum(G, S) <= Sum(F, S)
  BY <1>1, <1>2, SumLeq
<1>4. Sum(F, S) \in Nat /\ Sum(G, S) \in Nat
  BY <1>1, SumNat
<1> QED
  BY <1>3, <1>4

\* Any term can be taken out of a sum.
LEMMA SumRemove ==
  ASSUME NEW F, NEW S, IsNatOn(F, S), NEW x \in S
  PROVE  Sum(F, S) = F[x] + Sum(F, S \ {x})
<1> DEFINE U == S \ {x}
<1>0. IsFiniteSet(S) /\ IsFiniteSet(U) /\ U \subseteq S /\ U \subseteq U
  BY FS_Subset DEF IsNatOn
<1>1. PICK g : IsIter(g, F, S) /\ Sum(F, S) = g[S]
  BY <1>0, SumIter
<1>2. PICK h : IsIter(h, F, U) /\ Sum(F, U) = h[U]
  BY <1>0, SumIter
<1> HIDE DEF U
<1>3. \A y \in S : F[y] \in Nat
  BY DEF IsNatOn
<1>4. \A y \in U : F[y] \in Nat /\ F[y] <= F[y]
  BY <1>0, <1>3
<1>5. g[U] <= h[U] /\ h[U] <= g[U]
  BY <1>0, <1>1, <1>2, <1>3, <1>4, IterLeq
<1>6. g[U] \in Nat /\ h[U] \in Nat
  BY <1>0, <1>1, <1>2, <1>3, <1>4, IterNat
<1>7. g[S] = F[x] + g[U]
  BY <1>0, <1>1, <1>3, IterRemove DEF U
<1> QED
  BY <1>1, <1>2, <1>5, <1>6, <1>7 DEF U

\* A term is added to a sum.
LEMMA SumAdd ==
  ASSUME NEW F, NEW S, IsNatOn(F, S), NEW x, x \notin S, F[x] \in Nat
  PROVE  Sum(F, S \cup {x}) = Sum(F, S) + F[x]
<1>1. IsNatOn(F, S \cup {x})
  BY FS_AddElement DEF IsNatOn
<1>2. (S \cup {x}) \ {x} = S
  OBVIOUS
<1>3. Sum(F, S \cup {x}) = F[x] + Sum(F, S)
  BY <1>1, <1>2, SumRemove
<1>4. Sum(F, S) \in Nat
  BY SumNat
<1> QED
  BY <1>3, <1>4

\* A sum over a larger set is no smaller.
LEMMA SumSubset ==
  ASSUME NEW F, NEW S, IsNatOn(F, S), NEW U, U \subseteq S
  PROVE  Sum(F, U) <= Sum(F, S)
<1>0. IsFiniteSet(S) /\ IsFiniteSet(U) /\ \A x \in S : F[x] \in Nat
  BY FS_Subset DEF IsNatOn
<1> DEFINE T == {n \in Nat : \A s \in SUBSET S :
                   Cardinality(s) = n /\ U \subseteq s => Sum(F, U) <= Sum(F, s)}
<1>1. ASSUME NEW s \in SUBSET S PROVE IsNatOn(F, s) /\ Sum(F, s) \in Nat
  <2>1. IsNatOn(F, s)
    BY <1>0, FS_Subset DEF IsNatOn
  <2> QED
    BY <2>1, SumNat
<1>2. 0 \in T
  <2>1. ASSUME NEW s \in SUBSET S, Cardinality(s) = 0, U \subseteq s
        PROVE  Sum(F, U) <= Sum(F, s)
    <3>1. s = {} /\ U = s
      BY <1>0, <2>1, SubsetSize
    <3> QED
      BY <1>1, <3>1
  <2> QED
    BY <2>1
<1>3. ASSUME NEW n \in Nat, n \in T PROVE n + 1 \in T
  <2>1. ASSUME NEW s \in SUBSET S, Cardinality(s) = n + 1, U \subseteq s
        PROVE  Sum(F, U) <= Sum(F, s)
    <3>1. CASE U = s
      BY <1>1, <3>1
    <3>2. CASE U # s
      <4>1. PICK x \in s : x \notin U
        BY <2>1, <3>2
      <4>2. Cardinality(s \ {x}) = n /\ s \ {x} \in SUBSET S /\ U \subseteq s \ {x}
        BY <1>0, <2>1, <4>1, SubsetSize
      <4>3. Sum(F, U) <= Sum(F, s \ {x})
        BY <1>3, <4>2
      <4>4. Sum(F, s) = F[x] + Sum(F, s \ {x})
        BY <1>1, <4>1, SumRemove
      <4>5. F[x] \in Nat /\ Sum(F, s \ {x}) \in Nat /\ Sum(F, U) \in Nat
        BY <1>0, <1>1, <4>1, <4>2
      <4> QED
        BY <4>3, <4>4, <4>5
    <3> QED
      BY <3>1, <3>2
  <2> QED
    BY <2>1
<1>4. \A n \in Nat : n \in T
  <2> HIDE DEF T
  <2> QED
    BY <1>2, <1>3, NatInd
<1>5. Cardinality(S) \in Nat
  BY <1>0, SubsetSize
<1> QED
  BY <1>4, <1>5

\* A sum over an image, for a function that is one to one.
LEMMA SumImage ==
  ASSUME NEW F, NEW S, IsFiniteSet(S), NEW f,
         \A x, y \in S : f[x] = f[y] => x = y,
         \A x \in S : F[f[x]] \in Nat
  PROVE  Sum(F, {f[x] : x \in S}) = Sum([x \in S |-> F[f[x]]], S)
<1> DEFINE G == [x \in S |-> F[f[x]]]
           Image(s) == {f[x] : x \in s}
           Good(s) == IsFiniteSet(Image(s)) /\ Sum(F, Image(s)) = Sum(G, s)
           T == {n \in Nat : \A s \in SUBSET S : Cardinality(s) = n => Good(s)}
<1>1. ASSUME NEW s \in SUBSET S PROVE IsNatOn(G, s)
  BY FS_Subset DEF IsNatOn
<1>2. 0 \in T
  <2>1. ASSUME NEW s \in SUBSET S, Cardinality(s) = 0 PROVE Good(s)
    <3>1. s = {} /\ Image(s) = {}
      BY <2>1, SubsetSize
    <3> QED
      BY <3>1, SumEmpty, FS_EmptySet
  <2> HIDE DEF Good
  <2> QED
    BY <2>1
<1>3. ASSUME NEW n \in Nat, n \in T PROVE n + 1 \in T
  <2>1. ASSUME NEW s \in SUBSET S, Cardinality(s) = n + 1 PROVE Good(s)
    <3>1. Cardinality(s) # 0
      BY <2>1
    <3>2. s # {}
      BY <3>1, SubsetSize
    <3>3. PICK x \in s : TRUE
      BY <3>2
    <3> DEFINE r == s \ {x}
    <3>4. Cardinality(r) = n /\ r \in SUBSET S
      BY <2>1, SubsetSize
    <3>5. IsFiniteSet(Image(r)) /\ Sum(F, Image(r)) = Sum(G, r)
      <4>1. Good(r)
        <5> HIDE DEF Good, r
        <5> QED
          BY <1>3, <3>4
      <4> QED
        BY <4>1
    <3>6. Image(s) = Image(r) \cup {f[x]} /\ f[x] \notin Image(r)
      OBVIOUS
    <3>7. IsNatOn(F, Image(r)) /\ F[f[x]] \in Nat
      BY <3>5 DEF IsNatOn
    <3>8. Sum(F, Image(s)) = Sum(F, Image(r)) + F[f[x]]
      <4> DEFINE I == Image(r)
      <4> HIDE DEF I
      <4> QED
        BY <3>6, <3>7, SumAdd DEF I
    <3>9. Sum(G, s) = G[x] + Sum(G, r) /\ G[x] = F[f[x]]
      BY <1>1, SumRemove
    <3>10. Sum(G, r) \in Nat
      BY <1>1, <3>4, SumNat
    <3>11. IsFiniteSet(Image(s))
      <4> DEFINE I == Image(r)
      <4>1. IsFiniteSet(I) /\ Image(s) = I \cup {f[x]}
        BY <3>5, <3>6
      <4> HIDE DEF I
      <4>2. IsFiniteSet(I \cup {f[x]})
        BY <4>1, FS_AddElement
      <4> QED
        BY <4>1, <4>2
    <3> QED
      BY <3>5, <3>7, <3>8, <3>9, <3>10, <3>11
  <2> HIDE DEF Good
  <2> QED
    BY <2>1
<1>4. \A n \in Nat : n \in T
  <2> HIDE DEF T
  <2> QED
    BY <1>2, <1>3, NatInd
<1>5. Good(S)
  <2> HIDE DEF Good
  <2> QED
    BY <1>4, SubsetSize
<1> QED
  BY <1>5

\* Terms that are zero may be left out.
LEMMA SumSame ==
  ASSUME NEW F, NEW S, IsNatOn(F, S), NEW U, U \subseteq S, \A x \in S \ U : F[x] = 0
  PROVE  Sum(F, S) = Sum(F, U)
<1>0. IsFiniteSet(S) /\ IsFiniteSet(U) /\ \A x \in S : F[x] \in Nat
  BY FS_Subset DEF IsNatOn
<1> DEFINE T == {n \in Nat : \A s \in SUBSET S :
                   Cardinality(s) = n /\ U \subseteq s => Sum(F, s) = Sum(F, U)}
<1>1. ASSUME NEW s \in SUBSET S PROVE IsNatOn(F, s) /\ Sum(F, s) \in Nat
  <2>1. IsNatOn(F, s)
    BY <1>0, FS_Subset DEF IsNatOn
  <2> QED
    BY <2>1, SumNat
<1>2. 0 \in T
  <2>1. ASSUME NEW s \in SUBSET S, Cardinality(s) = 0, U \subseteq s
        PROVE  Sum(F, s) = Sum(F, U)
    <3>1. s = {} /\ U = s
      BY <1>0, <2>1, SubsetSize
    <3> QED
      BY <3>1
  <2> QED
    BY <2>1
<1>3. ASSUME NEW n \in Nat, n \in T PROVE n + 1 \in T
  <2>1. ASSUME NEW s \in SUBSET S, Cardinality(s) = n + 1, U \subseteq s, U # s
        PROVE  Sum(F, s) = Sum(F, U)
    <3>1. PICK x \in s : x \notin U
      BY <2>1
    <3>2. Cardinality(s \ {x}) = n /\ s \ {x} \in SUBSET S /\ U \subseteq s \ {x}
      BY <1>0, <2>1, <3>1, SubsetSize
    <3>3. Sum(F, s \ {x}) = Sum(F, U)
      BY <1>3, <3>2
    <3>4. Sum(F, s) = F[x] + Sum(F, s \ {x})
      BY <1>1, <3>1, SumRemove
    <3>5. F[x] = 0 /\ Sum(F, s \ {x}) \in Nat
      BY <1>1, <3>1, <3>2
    <3> QED
      BY <3>3, <3>4, <3>5
  <2> QED
    BY <2>1
<1>4. \A n \in Nat : n \in T
  <2> HIDE DEF T
  <2> QED
    BY <1>2, <1>3, NatInd
<1>5. Cardinality(S) \in Nat
  BY <1>0, SubsetSize
<1> QED
  BY <1>4, <1>5

\* A sum of zeros.
LEMMA SumZero ==
  ASSUME NEW F, NEW S, IsFiniteSet(S), \A x \in S : F[x] = 0
  PROVE  Sum(F, S) = 0
<1>1. IsNatOn(F, S) /\ {} \subseteq S
  BY DEF IsNatOn
<1>2. Sum(F, S) = Sum(F, {})
  BY <1>1, SumSame
<1> QED
  BY <1>2, SumEmpty

\* One term changes.
LEMMA SumChange ==
  ASSUME NEW F, NEW G, NEW S, IsNatOn(F, S), IsNatOn(G, S), NEW x \in S,
         \A y \in S \ {x} : F[y] = G[y]
  PROVE  Sum(G, S) + F[x] = Sum(F, S) + G[x]
<1>1. IsNatOn(F, S \ {x})
  BY FS_Subset DEF IsNatOn
<1>2. Sum(F, S \ {x}) = Sum(G, S \ {x}) /\ Sum(F, S \ {x}) \in Nat
  BY <1>1, SumEqual, SumNat
<1>3. Sum(F, S) = F[x] + Sum(F, S \ {x}) /\ Sum(G, S) = G[x] + Sum(G, S \ {x})
  BY SumRemove
<1>4. F[x] \in Nat /\ G[x] \in Nat
  BY DEF IsNatOn
<1> QED
  BY <1>2, <1>3, <1>4

\* The sizes of disjoint sets add up to the size of their union.
LEMMA SumSizes ==
  ASSUME NEW F, NEW S, IsFiniteSet(S), \A x \in S : IsFiniteSet(F[x]),
         \A x, y \in S : x # y => F[x] \cap F[y] = {}
  PROVE  /\ IsFiniteSet(UNION {F[x] : x \in S})
         /\ Sum([x \in S |-> Cardinality(F[x])], S) = Cardinality(UNION {F[x] : x \in S})
<1> DEFINE G == [x \in S |-> Cardinality(F[x])]
           All(s) == UNION {F[x] : x \in s}
           Good(s) == IsFiniteSet(All(s)) /\ Sum(G, s) = Cardinality(All(s))
           T == {n \in Nat : \A s \in SUBSET S : Cardinality(s) = n => Good(s)}
<1>1. ASSUME NEW s \in SUBSET S PROVE IsNatOn(G, s)
  <2>1. IsFiniteSet(s)
    BY FS_Subset
  <2>2. \A x \in s : G[x] \in Nat
    BY FS_CardinalityType
  <2> QED
    BY <2>1, <2>2 DEF IsNatOn
<1>2. 0 \in T
  <2>1. ASSUME NEW s \in SUBSET S, Cardinality(s) = 0 PROVE Good(s)
    <3>1. s = {} /\ All(s) = {}
      BY <2>1, SubsetSize
    <3> QED
      BY <3>1, SumEmpty, FS_EmptySet
  <2> HIDE DEF Good
  <2> QED
    BY <2>1
<1>3. ASSUME NEW n \in Nat, n \in T PROVE n + 1 \in T
  <2>1. ASSUME NEW s \in SUBSET S, Cardinality(s) = n + 1 PROVE Good(s)
    <3>1. Cardinality(s) # 0
      BY <2>1
    <3>2. s # {}
      BY <3>1, SubsetSize
    <3>3. PICK x \in s : TRUE
      BY <3>2
    <3> DEFINE r == s \ {x}
    <3>4. Cardinality(r) = n /\ r \in SUBSET S
      BY <2>1, SubsetSize
    <3>5. IsFiniteSet(All(r)) /\ Sum(G, r) = Cardinality(All(r))
      <4>1. Good(r)
        <5> HIDE DEF Good, r
        <5> QED
          BY <1>3, <3>4
      <4> QED
        BY <4>1
    <3>6. All(s) = All(r) \cup F[x] /\ All(r) \cap F[x] = {}
      OBVIOUS
    <3>7. IsFiniteSet(F[x]) /\ Cardinality(F[x]) \in Nat
      BY FS_CardinalityType
    <3>8. /\ IsFiniteSet(All(s)) /\ Cardinality(All(r)) \in Nat
          /\ Cardinality(All(s)) = Cardinality(All(r)) + Cardinality(F[x])
      <4> DEFINE I == All(r)
      <4>1. IsFiniteSet(I) /\ All(s) = I \cup F[x] /\ I \cap F[x] = {}
        BY <3>5, <3>6
      <4> HIDE DEF I
      <4>2. /\ IsFiniteSet(I \cup F[x]) /\ Cardinality(I) \in Nat
            /\ Cardinality(I \cup F[x]) = Cardinality(I) + Cardinality(F[x]) - Cardinality({})
        <5>1. Cardinality(I) \in Nat
          BY <4>1, FS_CardinalityType
        <5>2. /\ IsFiniteSet(I \cup F[x])
              /\ Cardinality(I \cup F[x]) =
                   Cardinality(I) + Cardinality(F[x]) - Cardinality(I \cap F[x])
          BY <3>7, <4>1, FS_Union
        <5> QED
          BY <4>1, <5>1, <5>2
      <4>3. Cardinality(I \cup F[x]) = Cardinality(I) + Cardinality(F[x])
        BY <3>7, <4>2, FS_EmptySet
      <4> QED
        BY <4>1, <4>2, <4>3 DEF I
    <3>9. Sum(G, s) = G[x] + Sum(G, r) /\ G[x] = Cardinality(F[x])
      BY <1>1, SumRemove
    <3> QED
      BY <3>5, <3>7, <3>8, <3>9
  <2> HIDE DEF Good
  <2> QED
    BY <2>1
<1>4. \A n \in Nat : n \in T
  <2> HIDE DEF T
  <2> QED
    BY <1>2, <1>3, NatInd
<1>5. Good(S)
  <2> HIDE DEF Good
  <2> QED
    BY <1>4, SubsetSize
<1> QED
  BY <1>5

=============================================================================
