---------------------------- MODULE CommonLemmas ----------------------------
(***************************************************************************)
(* Lemmas that the proofs share.  Induction and recursion, with sets and   *)
(* functions for the predicates and operators that the provers cannot      *)
(* instantiate; what follows for finite sets; and how many n-grams a       *)
(* covering has.                                                           *)
(***************************************************************************)
EXTENDS Ngrams, FiniteSetTheorems, TLAPS

\* A set of natural numbers that is not empty has a least element.
LEMMA LeastElement ==
    ASSUME NEW S \in SUBSET Nat, S # {}
    PROVE  \E least \in S : \A n \in S : least <= n
PROOF
  <1> DEFINE T == {0 .. n : n \in S}
  <1>1. IsWellFoundedOn(StrictSubsetOrdering(Nat), FiniteSubsetsOf(Nat))
    BY FS_StrictSubsetOrderingWellFounded
  <1>2. T \subseteq FiniteSubsetsOf(Nat)
    <2> SUFFICES ASSUME NEW n \in S PROVE 0 .. n \in FiniteSubsetsOf(Nat)
      OBVIOUS
    <2>1. IsFiniteSet(0 .. n)
      BY FS_Interval
    <2> QED  BY <2>1 DEF FiniteSubsetsOf
  <1>3. T # {}
    OBVIOUS
  <1>4. PICK X \in T : \A Y \in T : <<Y, X>> \notin StrictSubsetOrdering(Nat)
    <2> HIDE DEF T
    <2> QED  BY <1>1, <1>2, <1>3, WFMin
  <1>5. PICK least \in S : X = 0 .. least
    BY <1>4
  <1>6. ASSUME NEW n \in S, n < least PROVE FALSE
    <2>1. 0 .. n \subseteq 0 .. least /\ least \notin 0 .. n /\ least \in 0 .. least
      BY <1>6
    <2>2. <<0 .. n, X>> \in StrictSubsetOrdering(Nat)
      BY <1>5, <2>1 DEF StrictSubsetOrdering
    <2> QED  BY <1>4, <2>2
  <1>7. \A n \in S : least <= n
    BY <1>6
  <1> QED  BY <1>7

\* Induction over the natural numbers: S are those of which something holds.
LEMMA SetInduction ==
    ASSUME NEW S \in SUBSET Nat, 0 \in S, \A n \in S : n + 1 \in S
    PROVE  S = Nat
PROOF
  <1> SUFFICES ASSUME Nat \ S # {} PROVE FALSE
    OBVIOUS
  <1>1. PICK least \in Nat \ S : \A n \in Nat \ S : least <= n
    BY LeastElement
  <1>2. least # 0 /\ least - 1 \in Nat /\ ~(least <= least - 1)
    BY <1>1
  <1>3. least - 1 \in S
    BY <1>1, <1>2
  <1> QED  BY <1>1, <1>2, <1>3

\* Induction up to n.
LEMMA UpToInduction ==
    ASSUME NEW n \in Nat, NEW S \in SUBSET (0 .. n), 0 \in S,
           \A k \in 1 .. n : k - 1 \in S => k \in S
    PROVE  S = 0 .. n
PROOF
  <1> DEFINE T == S \cup {k \in Nat : k > n}
  <1>1. 0 \in T
    OBVIOUS
  <1>2. ASSUME NEW k \in T PROVE k + 1 \in T
    <2>1. CASE k + 1 > n
      BY <2>1
    <2>2. CASE ~(k + 1 > n)
      <3>1. k \in S /\ k + 1 \in 1 .. n /\ (k + 1) - 1 = k
        BY <1>2, <2>2
      <3> QED  BY <3>1
    <2> QED  BY <2>1, <2>2
  <1>3. T \in SUBSET Nat /\ \A k \in 0 .. n : k \in T => k \in S
    <2>1. \A k \in S : k \in Nat
      OBVIOUS
    <2>2. \A k \in 0 .. n : k \in Nat /\ ~(k > n)
      OBVIOUS
    <2> QED  BY <2>1, <2>2
  <1>4. T = Nat
    <2> HIDE DEF T
    <2> QED  BY <1>1, <1>2, <1>3, SetInduction
  <1>5. \A k \in 0 .. n : k \in Nat
    OBVIOUS
  <1> QED  BY <1>3, <1>4, <1>5

\* f is computed from base, step by step.
Computes(f, base, step, n) ==
    /\ f[0] = base
    /\ \A k \in 1 .. n : f[k] = step[<<f[k - 1], k>>]

\* Recursion: there is such an f.
LEMMA RecursionUpTo ==
    ASSUME NEW S, NEW base \in S, NEW step \in [S \X Nat -> S], NEW n \in Nat
    PROVE  \E f \in [0 .. n -> S] : Computes(f, base, step, n)
PROOF
  <1> DEFINE T == {m \in Nat : \E f \in [0 .. m -> S] : Computes(f, base, step, m)}
  <1>1. 0 \in T
    <2> DEFINE f == [k \in 0 .. 0 |-> base]
    <2>1. f \in [0 .. 0 -> S] /\ Computes(f, base, step, 0)
      BY DEF Computes
    <2> QED  BY <2>1
  <1>2. ASSUME NEW m \in T PROVE m + 1 \in T
    <2>1. PICK f \in [0 .. m -> S] : Computes(f, base, step, m)
      BY <1>2
    <2> DEFINE g == [k \in 0 .. m + 1 |-> IF k = m + 1 THEN step[<<f[m], m + 1>>] ELSE f[k]]
    <2>2. m \in Nat /\ step[<<f[m], m + 1>>] \in S
      BY <1>2
    <2>3. g \in [0 .. m + 1 -> S]
      BY <2>2
    <2>4. g[0] = base
      BY <2>1, <2>2 DEF Computes
    <2>5. ASSUME NEW k \in 1 .. m + 1 PROVE g[k] = step[<<g[k - 1], k>>]
      <3>1. k - 1 \in 0 .. m /\ k - 1 # m + 1 /\ g[k - 1] = f[k - 1]
        BY <2>2
      <3>2. CASE k = m + 1
        <4>1. k - 1 = m /\ k \in 0 .. m + 1
          BY <2>2, <3>2
        <4>2. g[k] = step[<<f[m], m + 1>>]
          BY <3>2, <4>1
        <4> QED  BY <3>1, <3>2, <4>1, <4>2
      <3>3. CASE k # m + 1
        <4>1. k \in 1 .. m /\ g[k] = f[k]
          BY <2>2, <3>3
        <4> QED  BY <2>1, <3>1, <4>1 DEF Computes
      <3> QED  BY <3>2, <3>3
    <2>6. m + 1 \in Nat
      BY <2>2
    <2>7. Computes(g, base, step, m + 1)
      <3> HIDE DEF g
      <3> QED  BY <2>4, <2>5 DEF Computes
    <2> HIDE DEF g
    <2> QED  BY <2>3, <2>6, <2>7
  <1>3. T = Nat
    <2>1. T \in SUBSET Nat
      OBVIOUS
    <2> HIDE DEF T
    <2> QED  BY <1>1, <1>2, <2>1, SetInduction
  <1> QED  BY <1>3

\* And only one.
LEMMA RecursionIsUnique ==
    ASSUME NEW base, NEW step, NEW n \in Nat, NEW f, NEW g,
           Computes(f, base, step, n), Computes(g, base, step, n)
    PROVE  \A k \in 0 .. n : f[k] = g[k]
PROOF
  <1> DEFINE S == {k \in 0 .. n : f[k] = g[k]}
  <1>1. 0 \in S
    BY DEF Computes
  <1>2. ASSUME NEW k \in 1 .. n, k - 1 \in S PROVE k \in S
    <2>1. f[k] = step[<<f[k - 1], k>>] /\ g[k] = step[<<g[k - 1], k>>]
      BY DEF Computes
    <2>2. k \in 0 .. n /\ f[k - 1] = g[k - 1]
      BY <1>2
    <2> QED  BY <2>1, <2>2
  <1>3. S = 0 .. n
    <2>1. S \in SUBSET (0 .. n)
      OBVIOUS
    <2> HIDE DEF S
    <2> QED  BY <1>1, <1>2, <2>1, UpToInduction
  <1> QED  BY <1>3

\* Recursion over all natural numbers.
ComputesAll(f, base, step) ==
    f[0] = base /\ \A k \in Nat : f[k + 1] = step[<<f[k], k + 1>>]

LEMMA Recursion ==
    ASSUME NEW S, NEW base \in S, NEW step \in [S \X Nat -> S]
    PROVE  \E f \in [Nat -> S] : ComputesAll(f, base, step)
PROOF
  <1> DEFINE Upto(n) == CHOOSE f \in [0 .. n -> S] : Computes(f, base, step, n)
             F == [n \in Nat |-> Upto(n)[n]]
  <1>1. ASSUME NEW n \in Nat
        PROVE  Upto(n) \in [0 .. n -> S] /\ Computes(Upto(n), base, step, n)
    BY RecursionUpTo
  <1>2. ASSUME NEW k \in Nat PROVE Upto(k + 1)[k] = Upto(k)[k]
    <2>1. /\ Computes(Upto(k), base, step, k) /\ Computes(Upto(k + 1), base, step, k + 1)
          /\ k + 1 \in Nat
      BY <1>1
    <2> HIDE DEF Upto
    <2>2. Computes(Upto(k + 1), base, step, k)
      BY <2>1 DEF Computes
    <2> QED  BY <2>1, <2>2, RecursionIsUnique
  <1> HIDE DEF Upto
  <1>3. F \in [Nat -> S]
    BY <1>1
  <1>4. F[0] = base
    BY <1>1 DEF Computes
  <1>5. ASSUME NEW k \in Nat PROVE F[k + 1] = step[<<F[k], k + 1>>]
    <2>1. k + 1 \in Nat /\ k + 1 \in 1 .. k + 1 /\ (k + 1) - 1 = k
      OBVIOUS
    <2>2. Upto(k + 1)[k + 1] = step[<<Upto(k + 1)[k], k + 1>>]
      BY <1>1, <2>1 DEF Computes
    <2> QED  BY <1>2, <2>1, <2>2
  <1>6. ComputesAll(F, base, step)
    <2> HIDE DEF F
    <2> QED  BY <1>4, <1>5 DEF ComputesAll
  <1> QED  BY <1>3, <1>6

\* A finite set of integers that is not empty has a greatest element.
LEMMA GreatestElement ==
    ASSUME NEW S \in SUBSET Int, IsFiniteSet(S), S # {}
    PROVE  \E greatest \in S : \A x \in S : greatest >= x
PROOF
  <1> DEFINE Ahead(x) == {y \in S : y > x}
             T == {Ahead(x) : x \in S}
  <1>1. IsWellFoundedOn(StrictSubsetOrdering(S), FiniteSubsetsOf(S))
    BY FS_StrictSubsetOrderingWellFounded
  <1>2. T \subseteq FiniteSubsetsOf(S)
    <2> SUFFICES ASSUME NEW x \in S PROVE Ahead(x) \in FiniteSubsetsOf(S)
      OBVIOUS
    <2> QED  BY FS_Subset DEF FiniteSubsetsOf
  <1>3. T # {}
    OBVIOUS
  <1>4. PICK X \in T : \A Y \in T : <<Y, X>> \notin StrictSubsetOrdering(S)
    <2> HIDE DEF T
    <2> QED  BY <1>1, <1>2, <1>3, WFMin
  <1>5. PICK greatest \in S : X = Ahead(greatest)
    BY <1>4
  <1>6. ASSUME NEW x \in S, ~(greatest >= x) PROVE FALSE
    <2>1. \A y \in S : y > x => y > greatest
      BY <1>6
    <2>2. x \in Ahead(greatest) /\ x \notin Ahead(x)
      BY <1>6
    <2>3. Ahead(x) \subseteq Ahead(greatest)
      BY <2>1
    <2>4. <<Ahead(x), X>> \in StrictSubsetOrdering(S)
      BY <1>5, <2>2, <2>3 DEF StrictSubsetOrdering
    <2> QED  BY <1>4, <2>4
  <1> QED  BY <1>6

\* What a function makes of a finite set is finite.
LEMMA FiniteImage ==
    ASSUME NEW D, IsFiniteSet(D), NEW f
    PROVE  IsFiniteSet({f[i] : i \in D})
PROOF
  <1> DEFINE T == {f[i] : i \in D}
             g == [i \in D |-> f[i]]
  <1>1. g \in Surjection(D, T)
    BY DEF Surjection
  <1> HIDE DEF T, g
  <1>2. IsFiniteSet(T)
    BY <1>1, FS_Surjection
  <1> QED  BY <1>2 DEF T

-----------------------------------------------------------------------------
(* N-grams.                                                                *)

\* The heaviest pair inside a stretch whose ends outweigh all of them.
LEMMA InteriorBelow ==
    ASSUME NEW w, NEW k \in Nat, NEW j \in Nat, NEW bound \in Nat, bound > 0,
           \A m \in k + 1 .. j - 1 : w[m] \in Nat /\ w[m] < bound
    PROVE  Interior(w, k, j) < bound
PROOF
  <1> DEFINE S == {0} \cup {w[m] : m \in k + 1 .. j - 1}
  <1>1. S \subseteq 0 .. bound - 1 /\ S # {} /\ S \in SUBSET Int
    OBVIOUS
  <1>2. IsFiniteSet(S)
    <2>1. IsFiniteSet(0 .. bound - 1)
      BY FS_Interval
    <2> QED  BY <1>1, <2>1, FS_Subset
  <1>3. \E greatest \in S : \A x \in S : greatest >= x
    <2> HIDE DEF S
    <2> QED  BY <1>1, <1>2, GreatestElement
  <1>4. Max(S) \in S
    <2> HIDE DEF S
    <2> QED  BY <1>3 DEF Max
  <1> QED  BY <1>1, <1>4 DEF Interior

\* From every pair but the last starts a stretch of a covering: to the first
\* pair that is not lighter, or, where there is none, to the next pair left.
LEMMA StretchFromEveryPair ==
    ASSUME NEW L \in Nat, NEW w \in [1 .. L -> Nat], Len(w) = L, NEW k \in 1 .. L - 1
    PROVE  \E j \in k + 1 .. L : <<k, j>> \in Covering(w)
PROOF
  <1> DEFINE left == Left(w)
  <1>1. DOMAIN w = 1 .. L /\ k \in Nat /\ k \in 1 .. L /\ L \in k + 1 .. L
    OBVIOUS
  <1>2. left \subseteq 1 .. L /\ L \in left
    <2>1. L \in 1 .. L /\ (L + 1) - 1 = L /\ L + 1 .. L = {}
      BY <1>1
    <2> QED  BY <1>1, <2>1 DEF Left, Waits
  <1>3. CASE k \in left
    <2> DEFINE Later == {j \in left : k < j}
    <2>1. Later \in SUBSET Nat /\ Later # {}
      BY <1>1, <1>2
    <2> HIDE DEF Later
    <2>2. PICK j \in Later : \A n \in Later : j <= n
      BY <2>1, LeastElement
    <2>3. j \in left /\ k < j /\ \A n \in left : k < n => j <= n
      BY <2>2 DEF Later
    <2>4. j \in k + 1 .. L /\ (k + 1 .. j - 1) \cap left = {}
      BY <1>1, <1>2, <2>3
    <2>5. <<k, j>> \in Covering(w)
      BY <1>3, <2>3, <2>4 DEF Covering
    <2> QED  BY <2>4, <2>5
  <1>4. CASE k \notin left
    <2> DEFINE NotLighter == {j \in k + 1 .. L : ~(w[j] < w[k])}
    <2>1. NotLighter \in SUBSET Nat /\ NotLighter # {}
      <3>1. (L + 1) - 1 = L
        OBVIOUS
      <3>2. ~Waits(w, k, L + 1)
        BY <1>1, <1>4 DEF Left
      <3> QED  BY <1>1, <3>1, <3>2 DEF Waits
    <2> HIDE DEF NotLighter
    <2>2. PICK j \in NotLighter : \A n \in NotLighter : j <= n
      BY <2>1, LeastElement
    <2>3. /\ j \in k + 1 .. L /\ ~(w[j] < w[k])
          /\ \A n \in k + 1 .. L : ~(w[n] < w[k]) => j <= n
      BY <2>2 DEF NotLighter
    <2>4. j \in 1 .. L /\ k < j /\ w[k] <= w[j]
      <3>1. j \in 1 .. L /\ k < j
        BY <1>1, <2>3
      <3>2. w[j] \in Nat /\ w[k] \in Nat
        BY <1>1, <3>1
      <3> QED  BY <2>3, <3>1, <3>2
    <2>5. Waits(w, k, j)
      <3> SUFFICES ASSUME NEW m \in k + 1 .. j - 1 PROVE w[m] < w[k]
        BY DEF Waits
      <3>1. m \in k + 1 .. L /\ ~(j <= m)
        BY <1>1, <2>3
      <3> QED  BY <2>3, <3>1
    <2>6. <<k, j>> \in Covering(w)
      BY <1>1, <2>4, <2>5 DEF Covering
    <2> QED  BY <2>3, <2>6
  <1> QED  BY <1>3, <1>4

\* So every trigram begins an n-gram of the covering, which has a bigram too.
LEMMA TrigramsBeginGrams ==
    ASSUME NEW S, NEW text \in Seq(S), NEW f, NEW L \in Nat, L > 0, Len(text) = L + 1,
           PairWeights(text, f) \in [1 .. L -> Nat]
    PROVE  /\ \A t \in Trigrams(text) : \E g \in CoveringGrams(text, f) :
                 Len(g) >= 3 /\ SubSeq(g, 1, 3) = t
           /\ \E g \in CoveringGrams(text, f) : Len(g) = 2
PROOF
  <1> DEFINE w == PairWeights(text, f)
             left == Left(w)
  <1>1. w \in [1 .. L -> Nat] /\ DOMAIN w = 1 .. L /\ Len(w) = L
    <2>1. w \in [1 .. L -> Nat]
      OBVIOUS
    <2> HIDE DEF w
    <2> QED  BY <2>1
  <1>2. CoveringGrams(text, f) = {SubSeq(text, s[1], s[2] + 1) : s \in Covering(w)}
    BY DEF CoveringGrams, TextOf
  <1> HIDE DEF w
  <1>3. ASSUME NEW t \in Trigrams(text)
        PROVE  \E g \in CoveringGrams(text, f) : Len(g) >= 3 /\ SubSeq(g, 1, 3) = t
    <2>1. PICK k \in 1 .. Len(text) - 2 : t = SubSeq(text, k, k + 2)
      BY DEF Trigrams
    <2>2. k \in 1 .. L - 1 /\ k \in Nat
      OBVIOUS
    <2>3. PICK j \in k + 1 .. L : <<k, j>> \in Covering(w)
      BY <1>1, <2>2, StretchFromEveryPair
    <2> DEFINE g == SubSeq(text, k, j + 1)
    <2>4. g \in CoveringGrams(text, f)
      <3> DEFINE s == <<k, j>>
      <3>1. s \in Covering(w) /\ g = SubSeq(text, s[1], s[2] + 1)
        BY <2>3
      <3> HIDE DEF s, g
      <3> QED  BY <1>2, <3>1
    <2>5. Len(g) >= 3 /\ SubSeq(g, 1, 3) = t
      <3>1. j \in Nat /\ k + 1 <= j /\ j + 1 <= Len(text)
        BY <2>2
      <3>2. Len(g) = (j + 1) - k + 1 /\ \A n \in 1 .. 3 : g[n] = text[k + n - 1]
        BY <2>2, <3>1
      <3>3. Len(t) = 3 /\ \A n \in 1 .. 3 : t[n] = text[k + n - 1]
        BY <2>1, <2>2
      <3> QED  BY <2>1, <2>2, <3>1, <3>2, <3>3
    <2> QED  BY <2>4, <2>5
  <1>4. \E g \in CoveringGrams(text, f) : Len(g) = 2
    <2>1. left \subseteq 1 .. L /\ L \in left
      <3>1. L \in 1 .. L /\ (L + 1) - 1 = L /\ L + 1 .. L = {}
        OBVIOUS
      <3> QED  BY <1>1, <3>1 DEF Left, Waits
    <2>2. PICK bottom \in left : \A k \in left : bottom <= k
      <3>1. left \in SUBSET Nat /\ left # {}
        BY <2>1
      <3> HIDE DEF left
      <3> QED  BY <3>1, LeastElement
    <2>3. <<bottom, bottom>> \in Covering(w)
      BY <2>2 DEF Covering
    <2>4. SubSeq(text, bottom, bottom + 1) \in CoveringGrams(text, f)
      <3> DEFINE s == <<bottom, bottom>>
                 g == SubSeq(text, bottom, bottom + 1)
      <3>1. s \in Covering(w) /\ g = SubSeq(text, s[1], s[2] + 1)
        BY <2>3
      <3> HIDE DEF s, g
      <3>2. g \in CoveringGrams(text, f)
        BY <1>2, <3>1
      <3> QED  BY <3>2 DEF g
    <2>5. Len(SubSeq(text, bottom, bottom + 1)) = 2
      BY <2>1
    <2> QED  BY <2>4, <2>5
  <1> QED  BY <1>3, <1>4

\* And a set of n-grams with a bigram, in which all of some trigrams begin one,
\* has more elements than there are such trigrams.
LEMMA FewerTrigrams ==
    ASSUME NEW G, IsFiniteSet(G), NEW T,
           \A t \in T : \E g \in G : Len(g) >= 3 /\ SubSeq(g, 1, 3) = t,
           \E g \in G : Len(g) = 2
    PROVE  /\ IsFiniteSet(T) /\ Cardinality(T) \in Nat /\ Cardinality(G) \in Nat
           /\ Cardinality(G) > Cardinality(T)
PROOF
  <1> DEFINE Longer == {g \in G : Len(g) >= 3 /\ SubSeq(g, 1, 3) \in T}
             start == [g \in Longer |-> SubSeq(g, 1, 3)]
  <1>1. PICK bigram \in G : Len(bigram) = 2
    OBVIOUS
  <1>2. bigram \notin Longer
    <2>1. ~(Len(bigram) >= 3)
      BY <1>1
    <2> QED  BY <2>1
  <1>3. start \in Surjection(Longer, T)
    <2>1. \A t \in T : \E g \in Longer : start[g] = t
      OBVIOUS
    <2> QED  BY <2>1 DEF Surjection
  <1>4. Longer \in SUBSET (G \ {bigram})
    BY <1>2
  <1> HIDE DEF Longer, start
  <1>5. /\ IsFiniteSet(G \ {bigram}) /\ Cardinality(G) \in Nat
        /\ Cardinality(G \ {bigram}) = Cardinality(G) - 1
    BY <1>1, FS_RemoveElement, FS_CardinalityType
  <1>6. IsFiniteSet(Longer) /\ Cardinality(Longer) <= Cardinality(G) - 1
    BY <1>4, <1>5, FS_Subset
  <1>7. IsFiniteSet(T) /\ Cardinality(T) <= Cardinality(Longer)
    BY <1>3, <1>6, FS_Surjection
  <1>8. Cardinality(T) \in Nat /\ Cardinality(Longer) \in Nat
    BY <1>6, <1>7, FS_CardinalityType
  <1> QED  BY <1>5, <1>6, <1>7, <1>8
=============================================================================
