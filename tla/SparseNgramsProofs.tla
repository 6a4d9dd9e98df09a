------------------------- MODULE SparseNgramsProofs -------------------------
(***************************************************************************)
(* Proofs about the covering of sparse n-grams, for every literal and      *)
(* every weighting: the loops of extract_sparse_ngrams_covering compute    *)
(* Covering, which covers every byte and has more n-grams than the literal *)
(* has trigrams; all of them are indexed if no two of its pairs tie.       *)
(***************************************************************************)
EXTENDS SparseNgrams, FiniteSetTheorems, CommonLemmas, TLAPS

Weights == PairWeights(data, weight)
OnStack == {stack[d] : d \in DOMAIN stack}

\* The stretch from pair k to pair j, the first that k does not outweigh.
Closed(w, k, j) == Waits(w, k, j) /\ w[k] <= w[j]

\* Pairs k and j are left when all pairs are scanned, and none between them.
Neighbours(w, k, j) ==
    /\ k \in Left(w) /\ j \in Left(w) /\ k < j
    /\ (k + 1 .. j - 1) \cap Left(w) = {}

\* The stack falls, everything on it still outweighs what came after it, and
\* what has been popped in this turn was lighter than pair i.
StackFalls ==
    /\ \A d, e \in DOMAIN stack :
          d < e => stack[d] < stack[e] /\ Weights[stack[d]] > Weights[stack[e]]
    /\ \A d \in DOMAIN stack : stack[d] < i /\ Waits(Weights, stack[d], i)
    /\ i \in Pairs /\ stack # <<>> => \A m \in Top + 1 .. i - 1 : Weights[m] < Weights[i]
    /\ i \notin Pairs => stack # <<>>
    /\ phase = "done" => i \notin Pairs /\ Len(stack) = 1

\* Between neighbours on the stack everything is as light as the right one.
StackIsTight ==
    \A d \in DOMAIN stack : d + 1 \in DOMAIN stack =>
        \A m \in stack[d] + 1 .. stack[d + 1] - 1 : Weights[m] <= Weights[stack[d + 1]]

\* So it is within every n-gram.
GramsAreTight ==
    \A g \in grams : \A m \in g[1] + 1 .. g[2] - 1 :
        Weights[m] < Weights[g[1]] /\ Weights[m] <= Weights[g[2]]

\* During the scan, what has to be closed with a pair before i is closed, and
\* with i itself what is no longer on the stack; and nothing else.
ScanCloses ==
    /\ \A j \in 1 .. i - 1 : \A k \in 1 .. j - 1 : Closed(Weights, k, j) => <<k, j>> \in grams
    /\ i \in Pairs =>
          \A k \in 1 .. i - 1 : k \notin OnStack /\ Waits(Weights, k, i) =>
              /\ Weights[k] < Weights[i] /\ <<k, i>> \in grams
              /\ \A d \in DOMAIN stack : stack[d] < k
    /\ i \in Pairs =>
          \A g \in grams : /\ g[1] < g[2] /\ g[2] <= i /\ Closed(Weights, g[1], g[2])
                           /\ g[2] = i => g[1] \notin OnStack

\* While the stack is drained, the stretches above its top are there.
DrainCloses ==
    i \notin Pairs =>
        /\ \A k \in Left(Weights) : k \in OnStack \/ Top < k
        /\ \A k, j \in Pairs : Neighbours(Weights, k, j) /\ Top < j => <<k, j>> \in grams
        /\ \A g \in grams :
              \/ g[1] < g[2] /\ Closed(Weights, g[1], g[2])
              \/ Neighbours(Weights, g[1], g[2]) /\ Top < g[2]
              \/ phase = "done" /\ g = <<Top, Top>>

\* Every pair scanned is on the stack or an end of an n-gram.
NoPairIsLost ==
    /\ \A m \in 1 .. i - 1 : m \in OnStack \/ \E g \in grams : m \in {g[1], g[2]}
    /\ phase = "done" => <<Top, Top>> \in grams

SparseInv ==
    /\ TypeOK /\ StackFalls /\ StackIsTight /\ GramsAreTight
    /\ ScanCloses /\ DrainCloses /\ NoPairIsLost

\* The weights are numbers, one for each pair.
LEMMA WeightsType ==
    ASSUME TypeOK
    PROVE  /\ Len(data) \in Nat /\ Weights \in [Pairs -> Nat]
           /\ \A k \in Pairs : W(k) = Weights[k]
           /\ Len(Weights) = Len(data) - 1
           /\ Pairs \subseteq Nat
           /\ \A k \in Pairs : k > 0
PROOF
  <1>1. /\ data \in Seq(Bytes) /\ weight \in [Bytes \X Bytes -> Nat] /\ i \in 1 .. Len(data)
    BY DEF TypeOK
  <1>2. Len(data) \in Nat /\ Len(data) >= 1
    BY <1>1
  <1>3. \A k \in Pairs : k \in Nat /\ k > 0 /\ k \in 1 .. Len(data) /\ k + 1 \in 1 .. Len(data)
    BY <1>2 DEF Pairs
  <1>4. \A k \in Pairs : W(k) \in Nat
    BY <1>1, <1>3 DEF W
  <1>5. Weights = [k \in Pairs |-> W(k)]
    BY DEF Weights, PairWeights, W, Pairs
  <1>6. Len(data) - 1 \in Nat
    BY <1>2
  <1>7. Len(Weights) = Len(data) - 1
    BY <1>5, <1>6 DEF Pairs
  <1> QED  BY <1>2, <1>3, <1>4, <1>5, <1>7

LEMMA TextStays ==
    ASSUME UNCHANGED <<data, weight>>
    PROVE  Pairs' = Pairs /\ Weights' = Weights
  BY DEF Pairs, Weights, PairWeights

\* The stack and its top, as the loops find them.
LEMMA StackType ==
    ASSUME TypeOK
    PROVE  /\ stack \in Seq(Pairs) /\ Len(stack) \in Nat /\ DOMAIN stack = 1 .. Len(stack)
           /\ \A d \in 1 .. Len(stack) : stack[d] \in Pairs
           /\ stack # <<>> <=> Len(stack) > 0
           /\ stack # <<>> => Top \in Pairs
           /\ i \in Nat /\ i > 0 /\ i <= Len(data)
           /\ i \notin Pairs <=> i = Len(data)
PROOF
  <1>1. /\ stack \in Seq(Pairs) /\ Len(stack) \in Nat /\ DOMAIN stack = 1 .. Len(stack)
        /\ \A d \in 1 .. Len(stack) : stack[d] \in Pairs
        /\ stack # <<>> <=> Len(stack) > 0
    BY DEF TypeOK
  <1>2. Len(data) \in Nat /\ i \in 1 .. Len(data)
    BY WeightsType DEF TypeOK
  <1> QED  BY <1>1, <1>2 DEF Top, Pairs

\* Taking off the top of the stack.
LEMMA BelowTop ==
    ASSUME TypeOK, stack # <<>>
    PROVE  /\ Below \in Seq(Pairs) /\ Len(Below) = Len(stack) - 1
           /\ \A d \in 1 .. Len(stack) - 1 : Below[d] = stack[d]
           /\ DOMAIN Below = 1 .. Len(stack) - 1
PROOF
  <1>1. stack \in Seq(Pairs) /\ Len(stack) \in Nat /\ Len(stack) > 0
    BY StackType
  <1>2. Len(stack) - 1 \in Nat /\ Len(stack) - 1 <= Len(stack)
    BY <1>1
  <1> QED  BY <1>1, <1>2 DEF Below

LEMMA PopLighterKeeps ==
    ASSUME SparseInv, PopLighter
    PROVE  SparseInv'
PROOF
  <1> DEFINE w == Weights
             L == Len(stack)
             t == stack[L]
  <1> USE DEF SparseInv
  <1>1. /\ Pairs' = Pairs /\ Weights' = Weights /\ data' = data /\ weight' = weight
        /\ i' = i /\ phase' = phase /\ grams' = grams \cup {<<t, i>>}
        /\ stack' = Below /\ phase = "scan" /\ i \in Pairs /\ stack # <<>>
    BY TextStays DEF PopLighter, Scanning, TopLighter, Top
  <1>2. /\ L \in Nat /\ L > 0 /\ DOMAIN stack = 1 .. L
        /\ \A d \in 1 .. L : stack[d] \in Pairs
        /\ w \in [Pairs -> Nat] /\ Pairs \subseteq Nat /\ i \in Nat /\ t \in Pairs /\ t \in Nat
    BY <1>1, StackType, WeightsType DEF Top
  <1>3. w[t] < w[i]
    BY <1>1, <1>2, WeightsType DEF PopLighter, TopLighter, Top
  <1>4. /\ Len(stack') = L - 1 /\ DOMAIN stack' = 1 .. L - 1
        /\ \A d \in 1 .. L - 1 : stack'[d] = stack[d]
        /\ stack' \in Seq(Pairs) /\ (stack' # <<>> => L - 1 > 0)
    BY <1>1, BelowTop
  <1>5. /\ \A d, e \in 1 .. L : d < e => stack[d] < stack[e] /\ w[stack[d]] > w[stack[e]]
        /\ \A d \in 1 .. L : stack[d] < i /\ Waits(w, stack[d], i)
        /\ \A m \in t + 1 .. i - 1 : w[m] < w[i]
    BY <1>1, <1>2 DEF StackFalls, Top
  <1>6. TypeOK'
    BY <1>1, <1>2, <1>4 DEF TypeOK
  <1>7. StackFalls'
    <2>1. \A d, e \in DOMAIN stack' :
             d < e => stack'[d] < stack'[e] /\ w[stack'[d]] > w[stack'[e]]
      <3>1. \A d \in 1 .. L - 1 : d \in 1 .. L /\ stack'[d] = stack[d]
        BY <1>2, <1>4
      <3> QED  BY <1>4, <1>5, <3>1
    <2>2. \A d \in DOMAIN stack' : stack'[d] < i /\ Waits(w, stack'[d], i)
      BY <1>2, <1>4, <1>5
    <2>3. ASSUME stack' # <<>>, NEW m \in stack'[L - 1] + 1 .. i - 1
          PROVE  w[m] < w[i]
      <3>1. /\ L - 1 \in 1 .. L /\ L \in 1 .. L /\ stack'[L - 1] = stack[L - 1]
            /\ L - 1 \in DOMAIN stack /\ (L - 1) + 1 = L /\ L \in DOMAIN stack
        BY <1>2, <1>4, <2>3
      <3>2. stack[L - 1] \in Nat /\ m \in Nat /\ m > 0 /\ m < i
        <4>1. stack[L - 1] \in Nat
          BY <1>2, <3>1
        <4> QED  BY <1>2, <2>3, <3>1, <4>1
      <3>3. m \in Pairs
        BY <1>1, <1>2, <3>2 DEF Pairs
      <3>4. CASE m < t
        <4>1. m \in stack[L - 1] + 1 .. stack[L] - 1
          BY <1>2, <2>3, <3>1, <3>2, <3>4
        <4>2. w[m] <= w[t]
          BY <3>1, <4>1 DEF StackIsTight
        <4> QED  BY <1>1, <1>2, <1>3, <3>3, <4>2
      <3>5. CASE m = t
        BY <1>3, <3>5
      <3>6. CASE m > t
        BY <1>2, <1>5, <2>3, <3>2, <3>6
      <3> QED  BY <1>2, <3>2, <3>4, <3>5, <3>6
    <2> QED  BY <1>1, <1>4, <2>1, <2>2, <2>3 DEF StackFalls, Top
  <1>8. StackIsTight'
    <2> SUFFICES ASSUME NEW d \in 1 .. L - 1, d + 1 \in 1 .. L - 1,
                        NEW m \in stack'[d] + 1 .. stack'[d + 1] - 1
                 PROVE  w[m] <= w[stack'[d + 1]]
      BY <1>1, <1>4 DEF StackIsTight
    <2>1. d \in 1 .. L /\ d + 1 \in 1 .. L /\ stack'[d] = stack[d] /\ stack'[d + 1] = stack[d + 1]
      BY <1>2, <1>4
    <2> QED  BY <1>2, <2>1 DEF StackIsTight
  <1>9. GramsAreTight'
    <2> SUFFICES ASSUME NEW m \in t + 1 .. i - 1
                 PROVE  w[m] < w[t] /\ w[m] <= w[i]
      BY <1>1 DEF GramsAreTight
    <2>1. w[m] < w[t]
      BY <1>2, <1>5 DEF Waits
    <2>2. m \in Pairs
      BY <1>1, <1>2 DEF Pairs
    <2> QED  BY <1>1, <1>2, <1>3, <2>1, <2>2
  <1>10. /\ t \in OnStack /\ OnStack' \subseteq OnStack \ {t}
         /\ \A k \in OnStack : k \in OnStack' \/ k = t
    <2>1. t \in OnStack
      BY <1>2 DEF OnStack
    <2>2. ASSUME NEW d \in 1 .. L - 1 PROVE stack[d] \in OnStack /\ stack[d] # t
      BY <1>2, <1>5 DEF OnStack
    <2>3. OnStack' = {stack[d] : d \in 1 .. L - 1}
      BY <1>4 DEF OnStack
    <2>4. ASSUME NEW d \in 1 .. L PROVE stack[d] \in OnStack' \/ stack[d] = t
      BY <1>2, <2>3
    <2> QED  BY <1>2, <2>1, <2>2, <2>3, <2>4 DEF OnStack
  <1>11. ScanCloses'
    <2>1. \A j \in 1 .. i - 1 : \A k \in 1 .. j - 1 : Closed(w, k, j) => <<k, j>> \in grams'
      BY <1>1 DEF ScanCloses
    <2>2. ASSUME NEW k \in 1 .. i - 1, k \notin OnStack', Waits(w, k, i)
          PROVE  /\ w[k] < w[i] /\ <<k, i>> \in grams'
                 /\ \A d \in 1 .. L - 1 : stack'[d] < k
      <3>1. CASE k = t
        BY <1>1, <1>2, <1>3, <1>4, <1>5, <3>1
      <3>2. CASE k # t
        <4>1. k \notin OnStack
          BY <1>10, <2>2, <3>2
        <4>2. w[k] < w[i] /\ <<k, i>> \in grams /\ \A d \in 1 .. L : stack[d] < k
          BY <1>1, <1>2, <2>2, <4>1 DEF ScanCloses
        <4> QED  BY <1>1, <1>2, <1>4, <4>2
      <3> QED  BY <3>1, <3>2
    <2>3. ASSUME NEW g \in grams'
          PROVE  /\ g[1] < g[2] /\ g[2] <= i /\ Closed(w, g[1], g[2])
                 /\ g[2] = i => g[1] \notin OnStack'
      <3>1. CASE g \in grams
        BY <1>1, <1>10, <3>1 DEF ScanCloses
      <3>2. CASE g = <<t, i>>
        <4>1. g[1] = t /\ g[2] = i
          BY <3>2
        <4>2. t < i /\ Waits(w, t, i) /\ w[t] <= w[i] /\ t \notin OnStack'
          BY <1>1, <1>2, <1>3, <1>5, <1>10
        <4> QED  BY <1>2, <4>1, <4>2 DEF Closed
      <3> QED  BY <1>1, <3>1, <3>2
    <2> QED  BY <1>1, <1>4, <2>1, <2>2, <2>3 DEF ScanCloses
  <1>12. DrainCloses'
    BY <1>1 DEF DrainCloses
  <1>13. NoPairIsLost'
    <2>1. ASSUME NEW m \in 1 .. i - 1
          PROVE  m \in OnStack' \/ \E g \in grams' : m \in {g[1], g[2]}
      <3>1. CASE m = t
        <4>1. <<t, i>> \in grams' /\ m \in {<<t, i>>[1], <<t, i>>[2]}
          BY <1>1, <3>1
        <4> QED  BY <4>1
      <3>2. CASE m # t
        BY <1>1, <1>10, <3>2 DEF NoPairIsLost
      <3> QED  BY <3>1, <3>2
    <2> QED  BY <1>1, <2>1 DEF NoPairIsLost
  <1> QED  BY <1>6, <1>7, <1>8, <1>9, <1>11, <1>12, <1>13

\* Pair i goes onto the first M pairs of the stack: all of them, or all but an
\* equal top, and that one closed a stretch.
PairGoesOn(M) ==
    /\ Scanning /\ M \in Nat
    /\ stack' \in Seq(Pairs) /\ Len(stack') = M + 1 /\ stack'[M + 1] = i
    /\ \A d \in 1 .. M : stack'[d] = stack[d] /\ Weights[stack[d]] > Weights[i]
    /\ \/ M = Len(stack) /\ grams' = grams
       \/ /\ M = Len(stack) - 1 /\ Weights[Top] = Weights[i]
          /\ grams' = grams \cup {<<Top, i>>}
    /\ i' = i + 1 /\ UNCHANGED <<data, weight, phase>>

LEMMA PairGoesOnKeeps ==
    ASSUME SparseInv, NEW M, PairGoesOn(M)
    PROVE  SparseInv'
PROOF
  <1> DEFINE w == Weights
             L == Len(stack)
             t == stack[L]
             PopsTop == /\ M = L - 1 /\ L > 0 /\ w[t] = w[i]
                        /\ grams' = grams \cup {<<t, i>>}
  <1> USE DEF SparseInv
  <1>1. /\ Pairs' = Pairs /\ Weights' = Weights /\ data' = data /\ weight' = weight
        /\ i' = i + 1 /\ phase' = phase /\ phase = "scan" /\ i \in Pairs
        /\ M \in Nat /\ stack' \in Seq(Pairs) /\ Len(stack') = M + 1 /\ stack'[M + 1] = i
        /\ DOMAIN stack' = 1 .. M + 1
    BY TextStays DEF Scanning, PairGoesOn
  <1>2. /\ L \in Nat /\ DOMAIN stack = 1 .. L
        /\ \A d \in 1 .. L : stack[d] \in Pairs
        /\ w \in [Pairs -> Nat] /\ Pairs \subseteq Nat /\ i \in Nat /\ i > 0
        /\ Len(data) \in Nat /\ i < Len(data) /\ Len(w) = Len(data) - 1
        /\ L > 0 => t \in Pairs /\ t \in Nat
    <2>1. /\ L \in Nat /\ DOMAIN stack = 1 .. L /\ \A d \in 1 .. L : stack[d] \in Pairs
          /\ i \in Nat /\ i > 0 /\ Len(data) \in Nat
          /\ w \in [Pairs -> Nat] /\ Pairs \subseteq Nat /\ Len(w) = Len(data) - 1
      BY StackType, WeightsType
    <2>2. L > 0 => L \in 1 .. L
      BY <2>1
    <2>3. i < Len(data)
      BY <1>1, <2>1 DEF Pairs
    <2> QED  BY <2>1, <2>2, <2>3
  <1>3. (M = L /\ grams' = grams) \/ PopsTop
    <2>1. \/ M = L /\ grams' = grams
          \/ M = L - 1 /\ w[t] = w[i] /\ grams' = grams \cup {<<t, i>>}
      BY DEF Top, PairGoesOn
    <2>2. M = L - 1 => L > 0
      BY <1>1, <1>2
    <2> HIDE DEF L, t, w
    <2> QED  BY <2>1, <2>2
  <1>4. /\ DOMAIN stack' = 1 .. M + 1 /\ stack' # <<>> /\ Top' = i
        /\ \A d \in 1 .. M : d \in 1 .. L /\ stack'[d] = stack[d] /\ w[stack[d]] > w[i]
        /\ \A d \in 1 .. L : d \in 1 .. M \/ (PopsTop /\ d = L)
    <2>1. stack' # <<>> /\ Top' = i
      BY <1>1 DEF Top
    <2>2. \A d \in 1 .. M : stack'[d] = stack[d] /\ w[stack[d]] > w[i]
      BY DEF PairGoesOn
    <2>3. /\ \A d \in 1 .. M : d \in 1 .. L
          /\ \A d \in 1 .. L : d \in 1 .. M \/ (PopsTop /\ d = L)
      <3>1. CASE M = L
        BY <3>1
      <3>2. CASE PopsTop
        <4>1. M \in Nat /\ L = M + 1
          BY <1>1, <1>2, <3>2
        <4>2. \A d \in 1 .. L : d \in 1 .. M \/ d = L
          BY <4>1
        <4>3. \A d \in 1 .. M : d \in 1 .. L
          BY <4>1
        <4> HIDE DEF PopsTop, L
        <4> QED  BY <3>2, <4>2, <4>3
      <3> HIDE DEF PopsTop, L
      <3> QED  BY <1>3, <3>1, <3>2
    <2> QED  BY <1>1, <2>1, <2>2, <2>3
  <1> HIDE DEF w
  <1>5. /\ \A d, e \in 1 .. L : d < e => stack[d] < stack[e] /\ w[stack[d]] > w[stack[e]]
        /\ \A d \in 1 .. L : stack[d] < i /\ Waits(w, stack[d], i)
        /\ L > 0 => \A m \in t + 1 .. i - 1 : w[m] < w[i]
    <2>1. L > 0 => stack # <<>>
      BY <1>2
    <2> QED  BY <1>1, <1>2, <2>1 DEF StackFalls, Top, w
  <1>6. PopsTop => \A m \in t + 1 .. i - 1 : w[m] < w[t]
    BY <1>2, <1>5 DEF Waits
  <1>7. TypeOK'
    <2>1. grams' \subseteq Pairs \X Pairs
      <3>1. grams \subseteq Pairs \X Pairs
        BY DEF TypeOK
      <3>2. PopsTop => <<t, i>> \in Pairs \X Pairs
        BY <1>1, <1>2
      <3> QED  BY <1>1, <1>3, <3>1, <3>2
    <2>2. i + 1 \in 1 .. Len(data)
      BY <1>2
    <2> QED  BY <1>1, <2>1, <2>2 DEF TypeOK
  <1>8. StackFalls'
    <2>1. ASSUME NEW d \in 1 .. M + 1, NEW e \in 1 .. M + 1, d < e
          PROVE  stack'[d] < stack'[e] /\ w[stack'[d]] > w[stack'[e]]
      <3>1. d \in 1 .. M
        BY <1>1, <2>1
      <3>2. CASE e = M + 1
        BY <1>1, <1>4, <1>5, <3>1, <3>2
      <3>3. CASE e # M + 1
        <4>1. e \in 1 .. M
          BY <1>1, <3>3
        <4> QED  BY <1>4, <1>5, <2>1, <3>1, <4>1
      <3> QED  BY <3>2, <3>3
    <2>2. ASSUME NEW d \in 1 .. M + 1
          PROVE  stack'[d] < i + 1 /\ Waits(w, stack'[d], i + 1)
      <3>1. CASE d = M + 1
        <4>1. stack'[d] = i /\ i < i + 1 /\ ~(\E m \in i + 1 .. (i + 1) - 1 : TRUE)
          BY <1>1, <1>2, <3>1
        <4> QED  BY <4>1 DEF Waits
      <3>2. CASE d # M + 1
        <4>1. d \in 1 .. M /\ d \in 1 .. L /\ stack'[d] = stack[d] /\ stack[d] \in Nat
          <5>1. d \in 1 .. M
            BY <1>1, <3>2
          <5> QED  BY <1>2, <1>4, <5>1
        <4>2. stack[d] < i /\ Waits(w, stack[d], i) /\ w[i] < w[stack[d]]
          BY <1>2, <1>4, <1>5, <4>1
        <4> QED  BY <1>2, <4>1, <4>2 DEF Waits
      <3> QED  BY <3>1, <3>2
    <2>3. \A m \in i + 1 .. (i + 1) - 1 : FALSE
      BY <1>2
    <2> QED  BY <1>1, <1>4, <2>1, <2>2, <2>3 DEF StackFalls, w
  <1>9. StackIsTight'
    <2> SUFFICES ASSUME NEW d \in 1 .. M + 1, d + 1 \in 1 .. M + 1,
                        NEW m \in stack'[d] + 1 .. stack'[d + 1] - 1
                 PROVE  w[m] <= w[stack'[d + 1]]
      BY <1>1, <1>4 DEF StackIsTight, w
    <2>1. d \in 1 .. M /\ d \in 1 .. L /\ stack'[d] = stack[d] /\ stack[d] \in Nat
      <3>1. d \in 1 .. M
        BY <1>1
      <3> QED  BY <1>2, <1>4, <3>1
    <2>2. CASE d + 1 \in 1 .. M
      <3>1. d + 1 \in 1 .. L /\ stack'[d + 1] = stack[d + 1]
        BY <1>4, <2>2
      <3> QED  BY <1>2, <2>1, <3>1 DEF StackIsTight, w
    <2>3. CASE d = M
      <3>1. stack'[d + 1] = i /\ stack[d] > 0
        BY <1>1, <1>2, <2>1, <2>3, WeightsType
      <3>2. m \in Nat /\ stack[d] < m /\ m < i
        BY <1>2, <2>1, <3>1
      <3>3. m \in Pairs
        BY <1>1, <1>2, <3>2 DEF Pairs
      <3>4. CASE M = L
        BY <1>1, <1>2, <1>5, <2>1, <2>3, <3>1, <3>2, <3>3, <3>4
      <3>5. CASE PopsTop /\ m > t
        BY <1>1, <1>2, <1>5, <3>1, <3>2, <3>3, <3>5
      <3>6. CASE PopsTop /\ m = t
        BY <1>1, <1>2, <3>1, <3>6
      <3>7. CASE PopsTop /\ m < t
        <4>1. d + 1 = L /\ d + 1 \in DOMAIN stack /\ d \in DOMAIN stack
          BY <1>2, <2>1, <2>3, <3>7
        <4>2. m \in stack[d] + 1 .. stack[d + 1] - 1
          BY <1>2, <2>1, <3>2, <3>7, <4>1
        <4>3. w[m] <= w[t]
          BY <4>1, <4>2 DEF StackIsTight, w
        <4> QED  BY <3>1, <3>7, <4>3
      <3> QED  BY <1>2, <1>3, <3>2, <3>4, <3>5, <3>6, <3>7
    <2> QED  BY <1>1, <2>1, <2>2, <2>3
  <1>10. GramsAreTight'
    <2>1. CASE grams' = grams
      BY <1>1, <2>1 DEF GramsAreTight
    <2>2. CASE PopsTop
      <3> SUFFICES ASSUME NEW m \in t + 1 .. i - 1
                   PROVE  w[m] < w[t] /\ w[m] <= w[i]
        BY <1>1, <2>2 DEF GramsAreTight, w
      <3>1. m \in Pairs
        <4>1. t \in Nat
          BY <1>2, <2>2
        <4> HIDE DEF t
        <4> QED  BY <1>2, <4>1 DEF Pairs
      <3> QED  BY <1>2, <1>6, <2>2, <3>1
    <2> QED  BY <1>3, <2>1, <2>2
  <1>11. OnStack' = {stack'[d] : d \in 1 .. M + 1} /\ OnStack = {stack[d] : d \in 1 .. L}
    BY <1>2, <1>4 DEF OnStack
  <1>12. i \in OnStack' /\ \A k \in OnStack : (k \in OnStack' /\ w[k] > w[i]) \/ (PopsTop /\ k = t)
    <2>1. M + 1 \in 1 .. M + 1 /\ \A d \in 1 .. M : d \in 1 .. M + 1
      BY <1>1
    <2>2. ASSUME NEW d \in 1 .. L
          PROVE  (stack[d] \in OnStack' /\ w[stack[d]] > w[i]) \/ (PopsTop /\ stack[d] = t)
      BY <1>4, <1>11, <2>1
    <2> QED  BY <1>1, <1>11, <2>1, <2>2
  <1>13. ASSUME NEW k \in 1 .. i, Waits(w, k, i + 1) PROVE k \in OnStack'
    <2>1. CASE k = i
      BY <1>12, <2>1
    <2>2. CASE k # i
      <3>1. k \in 1 .. i - 1 /\ k \in Pairs
        BY <1>1, <1>2, <2>2 DEF Pairs
      <3>2. Waits(w, k, i) /\ w[i] < w[k]
        BY <1>2, <1>13, <3>1 DEF Waits
      <3>3. CASE k \in OnStack
        BY <1>2, <1>12, <3>1, <3>2, <3>3
      <3>4. CASE k \notin OnStack
        <4>1. w[k] < w[i]
          BY <1>1, <3>1, <3>2, <3>4 DEF ScanCloses, w
        <4> QED  BY <1>1, <1>2, <3>1, <3>2, <4>1
      <3> QED  BY <3>3, <3>4
    <2> QED  BY <2>1, <2>2
  <1>14. ASSUME NEW g \in grams' PROVE g[1] < g[2] /\ g[2] <= i /\ Closed(w, g[1], g[2])
    <2>1. CASE g \in grams
      BY <1>1, <2>1 DEF ScanCloses, w
    <2>2. CASE PopsTop /\ g = <<t, i>>
      <3>1. t < i /\ Waits(w, t, i) /\ w[t] <= w[i]
        BY <1>1, <1>2, <1>5, <2>2
      <3> QED  BY <1>2, <2>2, <3>1 DEF Closed
    <2> QED  BY <1>3, <2>1, <2>2
  <1>15. ASSUME NEW j \in 1 .. i, NEW k \in 1 .. j - 1, Closed(w, k, j)
         PROVE  <<k, j>> \in grams'
    <2>1. CASE j < i
      BY <1>2, <1>3, <1>15, <2>1 DEF ScanCloses, w
    <2>2. CASE j = i
      <3>1. k \in 1 .. i - 1 /\ k \in Pairs /\ Waits(w, k, i) /\ w[k] <= w[i]
        BY <1>1, <1>2, <1>15, <2>2 DEF Pairs, Closed
      <3>2. CASE k \notin OnStack
        BY <1>1, <1>3, <2>2, <3>1, <3>2 DEF ScanCloses, w
      <3>3. CASE k \in OnStack
        <4>1. (k \in OnStack' /\ w[k] > w[i]) \/ (PopsTop /\ k = t)
          BY <1>12, <3>3
        <4>2. w[k] \in Nat /\ w[i] \in Nat
          BY <1>1, <1>2, <3>1
        <4> QED  BY <2>2, <3>1, <4>1, <4>2
      <3> QED  BY <3>2, <3>3
    <2> QED  BY <1>2, <2>1, <2>2
  <1>16. ScanCloses'
    <2>1. \A j \in 1 .. (i + 1) - 1 : \A k \in 1 .. j - 1 : Closed(w, k, j) => <<k, j>> \in grams'
      BY <1>2, <1>15
    <2>2. \A k \in 1 .. (i + 1) - 1 : ~(k \notin OnStack' /\ Waits(w, k, i + 1))
      BY <1>2, <1>13
    <2>3. \A g \in grams' : g[1] < g[2] /\ g[2] <= i + 1 /\ Closed(w, g[1], g[2]) /\ g[2] # i + 1
      <3>1. grams' \subseteq Pairs \X Pairs
        BY <1>1, <1>7 DEF TypeOK
      <3>2. \A g \in grams' : g[2] \in Nat
        BY <1>2, <3>1
      <3> QED  BY <1>2, <1>14, <3>2
    <2> QED  BY <1>1, <2>1, <2>2, <2>3 DEF ScanCloses, w
  <1>17. DrainCloses'
    <2> SUFFICES ASSUME i + 1 \notin Pairs
                 PROVE  /\ \A k \in Left(w) : k \in OnStack' \/ i < k
                        /\ \A k, j \in Pairs : Neighbours(w, k, j) /\ i < j => <<k, j>> \in grams'
                        /\ \A g \in grams' : g[1] < g[2] /\ Closed(w, g[1], g[2])
      BY <1>1, <1>4 DEF DrainCloses, w
    <2>1. i + 1 = Len(w) + 1 /\ Pairs = 1 .. i
      BY <1>2 DEF Pairs
    <2>2. \A k \in Left(w) : k \in OnStack'
      BY <1>2, <1>13, <2>1 DEF Left
    <2>3. \A j \in Pairs : ~(i < j)
      BY <1>2, <2>1
    <2> QED  BY <1>14, <2>2, <2>3
  <1>18. NoPairIsLost'
    <2>1. ASSUME NEW m \in 1 .. i
          PROVE  m \in OnStack' \/ \E g \in grams' : m \in {g[1], g[2]}
      <3>1. CASE m = i \/ m \in OnStack' \/ (~PopsTop /\ m \in OnStack)
        BY <1>12, <3>1
      <3>2. CASE PopsTop /\ m = t
        <4>1. <<t, i>> \in grams' /\ m \in {<<t, i>>[1], <<t, i>>[2]}
          BY <3>2
        <4> QED  BY <4>1
      <3>3. CASE m # i /\ m \notin OnStack
        <4>1. m \in 1 .. i - 1
          BY <1>2, <3>3
        <4>2. \E g \in grams : m \in {g[1], g[2]}
          BY <3>3, <4>1 DEF NoPairIsLost
        <4> QED  BY <1>3, <4>2
      <3> QED  BY <1>12, <3>1, <3>2, <3>3
    <2>2. 1 .. (i + 1) - 1 = 1 .. i /\ (i + 1) - 1 = i
      BY <1>2
    <2> QED  BY <1>1, <2>1, <2>2 DEF NoPairIsLost
  <1> QED  BY <1>7, <1>8, <1>9, <1>10, <1>16, <1>17, <1>18

LEMMA PopEqualKeeps ==
    ASSUME SparseInv, PopEqual
    PROVE  SparseInv'
PROOF
  <1> DEFINE M == Len(stack) - 1
  <1> USE DEF SparseInv
  <1>1. /\ Scanning /\ stack # <<>> /\ W(Top) = W(i)
        /\ grams' = grams \cup {<<Top, i>>} /\ stack' = Append(Below, i) /\ i' = i + 1
        /\ UNCHANGED <<data, weight, phase>>
    BY DEF PopEqual, TopEqual
  <1>2. /\ i \in Pairs /\ Top \in Pairs /\ M \in Nat /\ Weights[Top] = Weights[i]
        /\ M + 1 = Len(stack) /\ DOMAIN stack = 1 .. Len(stack)
    BY <1>1, StackType, WeightsType DEF Scanning
  <1>3. /\ stack' \in Seq(Pairs) /\ Len(stack') = M + 1 /\ stack'[M + 1] = i
        /\ \A d \in 1 .. M : stack'[d] = stack[d]
    <2>1. Below \in Seq(Pairs) /\ Len(Below) = M /\ \A d \in 1 .. M : Below[d] = stack[d]
      BY <1>1, BelowTop
    <2> HIDE DEF M
    <2> QED  BY <1>1, <1>2, <2>1
  <1>4. \A d \in 1 .. M : Weights[stack[d]] > Weights[i]
    <2>1. \A d \in 1 .. M : d \in DOMAIN stack /\ Len(stack) \in DOMAIN stack /\ d < Len(stack)
      BY <1>2
    <2> QED  BY <1>2, <2>1 DEF StackFalls, Top
  <1> QED  BY <1>1, <1>2, <1>3, <1>4, PairGoesOnKeeps DEF PairGoesOn

LEMMA PushKeeps ==
    ASSUME SparseInv, Push
    PROVE  SparseInv'
PROOF
  <1> DEFINE M == Len(stack)
  <1> USE DEF SparseInv
  <1>1. /\ Scanning /\ grams' = grams /\ stack' = Append(stack, i) /\ i' = i + 1
        /\ stack # <<>> => ~(W(Top) < W(i)) /\ W(Top) # W(i)
        /\ UNCHANGED <<data, weight, phase>>
    BY DEF Push, TopLighter, TopEqual
  <1>2. /\ i \in Pairs /\ M \in Nat /\ DOMAIN stack = 1 .. M
        /\ \A d \in 1 .. M : stack[d] \in Pairs
        /\ Weights \in [Pairs -> Nat] /\ stack \in Seq(Pairs)
    BY <1>1, StackType, WeightsType DEF Scanning
  <1>3. /\ stack' \in Seq(Pairs) /\ Len(stack') = M + 1 /\ stack'[M + 1] = i
        /\ \A d \in 1 .. M : stack'[d] = stack[d]
    BY <1>1, <1>2
  <1>4. ASSUME NEW d \in 1 .. M PROVE Weights[stack[d]] > Weights[i]
    <2>1. stack # <<>> /\ M \in 1 .. M /\ Top \in Pairs
      BY <1>2, StackType
    <2>2. Weights[Top] > Weights[i]
      <3>1. Weights[Top] = W(Top) /\ Weights[i] = W(i)
        BY <1>2, <2>1, WeightsType
      <3>2. Weights[Top] \in Nat /\ Weights[i] \in Nat
        BY <1>2, <2>1
      <3> QED  BY <1>1, <2>1, <3>1, <3>2
    <2>3. d < M => Weights[stack[d]] > Weights[Top]
      BY <1>2, <2>1 DEF StackFalls, Top
    <2>4. stack[d] \in Pairs /\ Weights[stack[d]] \in Nat /\ Weights[Top] \in Nat
          /\ Weights[i] \in Nat
      BY <1>2, <2>1
    <2>5. d = M => stack[d] = Top
      BY DEF Top
    <2>6. d < M \/ d = M
      <3>1. \A x \in Nat : \A y \in 1 .. x : y < x \/ y = x
        OBVIOUS
      <3> HIDE DEF M
      <3> QED  BY <1>2, <3>1
    <2>7. CASE d = M
      BY <2>2, <2>5, <2>7
    <2>8. CASE d < M
      <3>1. \A x, y, z \in Nat : x > y /\ y > z => x > z
        OBVIOUS
      <3> QED  BY <2>2, <2>3, <2>4, <2>8, <3>1
    <2> QED  BY <2>6, <2>7, <2>8
  <1> QED  BY <1>1, <1>2, <1>3, <1>4, PairGoesOnKeeps DEF PairGoesOn

\* A position of the stack that is not below the one under the top is the top.
LEMMA NothingBetween ==
    ASSUME SparseInv, Len(stack) > 1, NEW k \in OnStack, stack[Len(stack) - 1] < k
    PROVE  k = Top
PROOF
  <1>1. /\ Len(stack) \in Nat /\ DOMAIN stack = 1 .. Len(stack)
        /\ \A d \in 1 .. Len(stack) : stack[d] \in Nat
    BY StackType, WeightsType DEF SparseInv
  <1>2. PICK d \in 1 .. Len(stack) : k = stack[d]
    BY <1>1 DEF OnStack
  <1>3. Len(stack) - 1 \in 1 .. Len(stack)
    BY <1>1
  <1>4. ~(d < Len(stack) - 1)
    BY <1>1, <1>2, <1>3 DEF SparseInv, StackFalls
  <1>5. d # Len(stack) - 1
    <2>1. stack[Len(stack) - 1] \in Nat
      BY <1>1, <1>3
    <2> QED  BY <1>2, <2>1
  <1>6. d = Len(stack)
    <2>1. \A n \in Nat : \A e \in 1 .. n : e < n - 1 \/ e = n - 1 \/ e = n
      OBVIOUS
    <2> QED  BY <1>1, <1>4, <1>5, <2>1
  <1> QED  BY <1>2, <1>6 DEF Top

LEMMA DrainKeeps ==
    ASSUME SparseInv, Drain
    PROVE  SparseInv'
PROOF
  <1> DEFINE w == Weights
             L == Len(stack)
             t == stack[L]
             s == stack[L - 1]
  <1> USE DEF SparseInv
  <1>1. /\ Pairs' = Pairs /\ Weights' = Weights /\ data' = data /\ weight' = weight
        /\ i' = i /\ phase' = phase /\ grams' = grams \cup {<<s, t>>}
        /\ stack' = Below /\ phase = "scan" /\ i \notin Pairs /\ stack # <<>> /\ L > 1
    BY TextStays, StackType DEF Drain, Top
  <1>2. /\ L \in Nat /\ L > 1 /\ DOMAIN stack = 1 .. L /\ L - 1 \in 1 .. L /\ L \in 1 .. L
        /\ \A d \in 1 .. L : stack[d] \in Pairs
        /\ w \in [Pairs -> Nat] /\ Pairs \subseteq Nat /\ i \in Nat
        /\ s \in Pairs /\ t \in Pairs /\ s \in Nat /\ t \in Nat
        /\ i = Len(w) + 1 /\ Pairs = 1 .. Len(w) /\ Pairs = DOMAIN w
    <2>1. /\ L \in Nat /\ DOMAIN stack = 1 .. L /\ \A d \in 1 .. L : stack[d] \in Pairs
          /\ w \in [Pairs -> Nat] /\ Pairs \subseteq Nat /\ i \in Nat
          /\ i = Len(data) /\ Len(data) \in Nat /\ Len(w) = Len(data) - 1
      BY <1>1, StackType, WeightsType
    <2>2. L - 1 \in 1 .. L /\ L \in 1 .. L
      BY <1>1, <2>1
    <2> QED  BY <1>1, <2>1, <2>2 DEF Pairs
  <1>3. /\ Len(stack') = L - 1 /\ DOMAIN stack' = 1 .. L - 1
        /\ \A d \in 1 .. L - 1 : stack'[d] = stack[d]
        /\ stack' \in Seq(Pairs) /\ stack' # <<>> /\ Top' = s
    <2>1. /\ Len(stack') = L - 1 /\ DOMAIN stack' = 1 .. L - 1
          /\ \A d \in 1 .. L - 1 : stack'[d] = stack[d]
          /\ stack' \in Seq(Pairs)
      BY <1>1, BelowTop
    <2>2. L - 1 \in 1 .. L - 1 /\ L - 1 > 0
      <3> HIDE DEF L
      <3> QED  BY <1>2
    <2> QED  BY <2>1, <2>2 DEF Top
  <1>4. /\ \A d, e \in 1 .. L : d < e => stack[d] < stack[e] /\ w[stack[d]] > w[stack[e]]
        /\ \A d \in 1 .. L : stack[d] < i /\ Waits(w, stack[d], i)
        /\ s < t /\ w[s] > w[t] /\ Top = t
    <2>1. L - 1 < L
      BY <1>2
    <2> QED  BY <1>2, <2>1 DEF StackFalls, Top
  <1>5. s \in Left(w) /\ t \in Left(w)
    BY <1>2, <1>4 DEF Left
  <1>6. TypeOK'
    <2>1. <<s, t>> \in Pairs \X Pairs
      BY <1>2
    <2> HIDE DEF s, t, w
    <2> QED  BY <1>1, <1>3, <2>1 DEF TypeOK
  <1>7. \A d \in 1 .. L - 1 : d \in 1 .. L /\ stack'[d] = stack[d]
    <2>1. \A d \in 1 .. L - 1 : d \in 1 .. L
      <3> HIDE DEF L
      <3> QED  BY <1>2
    <2> QED  BY <1>3, <2>1
  <1>8. StackFalls'
    BY <1>1, <1>3, <1>4, <1>7 DEF StackFalls
  <1>9. StackIsTight'
    <2> SUFFICES ASSUME NEW d \in 1 .. L - 1, d + 1 \in 1 .. L - 1,
                        NEW m \in stack'[d] + 1 .. stack'[d + 1] - 1
                 PROVE  w[m] <= w[stack'[d + 1]]
      BY <1>1, <1>3 DEF StackIsTight
    <2>1. d \in 1 .. L /\ d + 1 \in 1 .. L /\ stack'[d] = stack[d] /\ stack'[d + 1] = stack[d + 1]
      BY <1>7
    <2> QED  BY <1>2, <2>1 DEF StackIsTight
  <1>10. GramsAreTight'
    <2> SUFFICES ASSUME NEW m \in s + 1 .. t - 1
                 PROVE  w[m] < w[s] /\ w[m] <= w[t]
      BY <1>1 DEF GramsAreTight
    <2>1. m \in Pairs
      BY <1>2
    <2>2. L - 1 \in DOMAIN stack /\ (L - 1) + 1 \in DOMAIN stack /\ stack[(L - 1) + 1] = t
      BY <1>2
    <2>3. w[m] <= w[t]
      BY <2>2 DEF StackIsTight
    <2>4. w[m] \in Nat /\ w[s] \in Nat /\ w[t] \in Nat
      BY <1>2, <2>1
    <2> HIDE DEF w, s, t
    <2> QED  BY <1>4, <2>3, <2>4
  <1>11. /\ t \in OnStack /\ s \in OnStack' /\ OnStack' \subseteq OnStack
         /\ \A k \in OnStack : k \in OnStack' \/ k = t
         /\ \A k \in OnStack : k \in Nat
    <2>1. OnStack = {stack[d] : d \in 1 .. L} /\ OnStack' = {stack[d] : d \in 1 .. L - 1}
      BY <1>2, <1>3 DEF OnStack
    <2>2. L - 1 \in 1 .. L - 1 /\ \A d \in 1 .. L : d \in 1 .. L - 1 \/ d = L
      <3>1. \A n \in Nat : n > 1 =>
               n - 1 \in 1 .. n - 1 /\ \A d \in 1 .. n : d \in 1 .. n - 1 \/ d = n
        OBVIOUS
      <3> HIDE DEF L
      <3> QED  BY <1>2, <3>1
    <2>3. \A d \in 1 .. L - 1 : d \in 1 .. L
      BY <1>2
    <2> QED  BY <1>2, <2>1, <2>2, <2>3
  <1>12. ScanCloses'
    BY <1>1 DEF ScanCloses
  <1>13. ASSUME NEW k \in OnStack, s < k PROVE k = t
    BY <1>1, <1>4, <1>13, NothingBetween
  <1>14. \A k \in Left(w) : k \in Nat /\ (k \in OnStack \/ t < k)
    <2>1. \A k \in Left(w) : k \in Nat
      BY <1>2 DEF Left
    <2> QED  BY <1>1, <1>4, <2>1 DEF DrainCloses
  <1>15. Neighbours(w, s, t)
    <2>1. ASSUME NEW m \in s + 1 .. t - 1, m \in Left(w) PROVE FALSE
      <3>1. s < m /\ m < t
        <4> HIDE DEF s, t
        <4> QED  BY <1>2
      <3>2. m \in Nat /\ m \in OnStack
        <4> HIDE DEF s, t
        <4> QED  BY <1>2, <1>14, <2>1, <3>1
      <3> QED  BY <1>2, <1>13, <3>1, <3>2
    <2> QED  BY <1>4, <1>5, <2>1 DEF Neighbours
  <1>16. ASSUME NEW k \in Pairs, NEW j \in Pairs, Neighbours(w, k, j), s < j
         PROVE  <<k, j>> \in grams'
    <2>1. CASE t < j
      BY <1>1, <1>4, <1>16, <2>1 DEF DrainCloses
    <2>2. CASE ~(t < j)
      <3>1. j = t
        <4>1. j \in Left(w)
          BY <1>16 DEF Neighbours
        <4> QED  BY <1>13, <1>14, <1>16, <2>2, <4>1
      <3>2. k \in Left(w) /\ k < t /\ s \notin k + 1 .. t - 1
        BY <1>5, <1>16, <3>1 DEF Neighbours
      <3>3. k \in OnStack /\ ~(k < s)
        BY <1>2, <1>4, <1>14, <3>2
      <3>4. k = s
        <4>1. k # t /\ k \in Nat /\ s \in Nat
          BY <1>2, <1>16, <3>2
        <4>2. ~(s < k)
          BY <1>13, <3>3, <4>1
        <4> HIDE DEF s, t
        <4> QED  BY <3>3, <4>1, <4>2
      <3> QED  BY <1>1, <3>1, <3>4
    <2> QED  BY <2>1, <2>2
  <1>17. DrainCloses'
    <2>1. \A k \in Left(w) : k \in OnStack' \/ s < k
      <3>1. ASSUME NEW k \in Nat, t < k PROVE s < k
        BY <1>2, <1>4, <3>1
      <3>2. ASSUME NEW k \in OnStack PROVE k \in OnStack' \/ s < k
        BY <1>4, <1>11, <3>2
      <3> QED  BY <1>14, <3>1, <3>2
    <2>2. ASSUME NEW g \in grams'
          PROVE  \/ g[1] < g[2] /\ Closed(w, g[1], g[2])
                 \/ Neighbours(w, g[1], g[2]) /\ s < g[2]
      <3>1. CASE g \in grams
        <4>1. \/ g[1] < g[2] /\ Closed(w, g[1], g[2])
              \/ Neighbours(w, g[1], g[2]) /\ t < g[2]
          BY <1>1, <1>4, <3>1 DEF DrainCloses
        <4>2. g[2] \in Nat
          BY <1>2, <3>1 DEF TypeOK
        <4> QED  BY <1>2, <1>4, <4>1, <4>2
      <3>2. CASE g = <<s, t>>
        BY <1>4, <1>15, <3>2
      <3> QED  BY <1>1, <3>1, <3>2
    <2> QED  BY <1>1, <1>3, <1>16, <2>1, <2>2 DEF DrainCloses
  <1>18. NoPairIsLost'
    <2>1. ASSUME NEW m \in 1 .. i - 1
          PROVE  m \in OnStack' \/ \E g \in grams' : m \in {g[1], g[2]}
      <3>1. CASE m = t
        <4>1. <<s, t>> \in grams' /\ m \in {<<s, t>>[1], <<s, t>>[2]}
          BY <1>1, <3>1
        <4> QED  BY <4>1
      <3>2. CASE m # t
        BY <1>1, <1>11, <3>2 DEF NoPairIsLost
      <3> QED  BY <3>1, <3>2
    <2> QED  BY <1>1, <2>1 DEF NoPairIsLost
  <1> QED  BY <1>6, <1>8, <1>9, <1>10, <1>12, <1>17, <1>18

LEMMA BottomKeeps ==
    ASSUME SparseInv, Bottom
    PROVE  SparseInv'
PROOF
  <1> DEFINE w == Weights
             t == stack[1]
  <1> USE DEF SparseInv
  <1>1. /\ Pairs' = Pairs /\ Weights' = Weights /\ data' = data /\ weight' = weight
        /\ i' = i /\ stack' = stack /\ phase = "scan" /\ phase' = "done"
        /\ grams' = grams \cup {<<t, t>>} /\ i \notin Pairs /\ Len(stack) = 1 /\ Top = t
        /\ Top' = Top /\ OnStack' = OnStack
    BY TextStays DEF Bottom, Top, OnStack
  <1>2. t \in Pairs /\ t \in Nat /\ i \in Nat /\ Pairs \subseteq Nat
    BY <1>1, StackType, WeightsType
  <1>3. TypeOK'
    BY <1>1, <1>2 DEF TypeOK
  <1>4. StackFalls' /\ StackIsTight'
    BY <1>1 DEF StackFalls, StackIsTight
  <1>5. GramsAreTight'
    BY <1>1, <1>2 DEF GramsAreTight
  <1>6. ScanCloses'
    BY <1>1 DEF ScanCloses
  <1>7. DrainCloses'
    BY <1>1 DEF DrainCloses
  <1>8. NoPairIsLost'
    <2>1. \A m \in 1 .. i - 1 : m \in OnStack \/ \E g \in grams : m \in {g[1], g[2]}
      BY DEF NoPairIsLost
    <2> QED  BY <1>1, <2>1 DEF NoPairIsLost
  <1> QED  BY <1>3, <1>4, <1>5, <1>6, <1>7, <1>8

LEMMA SparseInitially ==
    ASSUME Init
    PROVE  SparseInv
PROOF
  <1>1. PICK n \in 2 .. MaxLength : data \in [1 .. n -> Bytes]
    BY DEF Init, Literals
  <1>2. n \in Nat /\ n >= 2 /\ data \in Seq(Bytes) /\ Len(data) = n
    BY <1>1
  <1>3. /\ weight \in [Bytes \X Bytes -> Nat] /\ i = 1 /\ stack = <<>> /\ grams = {}
        /\ phase = "scan"
    BY LengthAssumption DEF Init
  <1>4. stack \in Seq(Pairs) /\ Len(stack) = 0 /\ DOMAIN stack = {} /\ i \in Pairs
    BY <1>2, <1>3 DEF Pairs
  <1>5. TypeOK
    BY <1>2, <1>3, <1>4 DEF TypeOK
  <1>6. StackFalls /\ StackIsTight /\ GramsAreTight /\ DrainCloses
    BY <1>3, <1>4 DEF StackFalls, StackIsTight, GramsAreTight, DrainCloses
  <1>7. ScanCloses
    BY <1>3 DEF ScanCloses
  <1>8. NoPairIsLost
    BY <1>3, <1>4 DEF NoPairIsLost
  <1> QED  BY <1>5, <1>6, <1>7, <1>8 DEF SparseInv

LEMMA SparseStutters ==
    ASSUME SparseInv, UNCHANGED vars
    PROVE  SparseInv'
PROOF
  <1>1. /\ Pairs' = Pairs /\ Weights' = Weights /\ i' = i /\ stack' = stack /\ grams' = grams
        /\ data' = data /\ weight' = weight /\ phase' = phase /\ Top' = Top /\ OnStack' = OnStack
    BY TextStays DEF vars, Top, OnStack
  <1>2. TypeOK' /\ StackFalls' /\ StackIsTight' /\ GramsAreTight'
    BY <1>1 DEF SparseInv, TypeOK, StackFalls, StackIsTight, GramsAreTight
  <1>3. ScanCloses' /\ DrainCloses' /\ NoPairIsLost'
    BY <1>1 DEF SparseInv, ScanCloses, DrainCloses, NoPairIsLost
  <1> QED  BY <1>2, <1>3 DEF SparseInv

\* The inductive invariant of extract_sparse_ngrams_covering.
THEOREM SparseInvariant == Spec => []SparseInv
PROOF
  <1>1. Init => SparseInv
    BY SparseInitially
  <1>2. SparseInv /\ [Next]_vars => SparseInv'
    BY PopLighterKeeps, PopEqualKeeps, PushKeeps, DrainKeeps, BottomKeeps, SparseStutters
       DEF Next
  <1> QED  BY <1>1, <1>2, PTL DEF Spec

-----------------------------------------------------------------------------
(* What follows from it.                                                   *)

\* When the loops end: all pairs are scanned, and the bottom of the stack is
\* the least pair left.
LEMMA AtTheEnd ==
    ASSUME SparseInv, phase = "done"
    PROVE  /\ i = Len(data) /\ i = Len(Weights) + 1 /\ Pairs = 1 .. i - 1
           /\ Pairs = DOMAIN Weights /\ Pairs \subseteq Nat /\ i \in Nat
           /\ OnStack = {Top} /\ Top \in Pairs /\ Top \in Left(Weights)
           /\ \A k \in Left(Weights) : k \in Nat /\ Top <= k
           /\ grams \subseteq Pairs \X Pairs
           /\ <<Top, Top>> \in grams
           /\ \A g \in grams :
                 \/ g[1] < g[2] /\ Closed(Weights, g[1], g[2])
                 \/ Neighbours(Weights, g[1], g[2])
                 \/ g = <<Top, Top>>
PROOF
  <1> USE DEF SparseInv
  <1>1. i \notin Pairs /\ Len(stack) = 1 /\ DOMAIN stack = {1} /\ Top = stack[1]
    BY StackType DEF StackFalls, Top
  <1>2. /\ i = Len(data) /\ i \in Nat /\ Top \in Pairs /\ Pairs \subseteq Nat
        /\ Len(Weights) = Len(data) - 1 /\ Weights \in [Pairs -> Nat]
    BY <1>1, StackType, WeightsType
  <1>3. i = Len(Weights) + 1 /\ Pairs = 1 .. i - 1 /\ Pairs = DOMAIN Weights
    BY <1>2 DEF Pairs
  <1>4. OnStack = {Top}
    BY <1>1 DEF OnStack
  <1>5. Top \in Left(Weights)
    BY <1>1, <1>2, <1>3 DEF Left, StackFalls
  <1>6. \A k \in Left(Weights) : k \in Nat /\ Top <= k
    <2>1. \A k \in Left(Weights) : k \in Nat
      BY <1>2, <1>3 DEF Left
    <2> QED  BY <1>1, <1>2, <1>4, <2>1 DEF DrainCloses
  <1>7. grams \subseteq Pairs \X Pairs /\ <<Top, Top>> \in grams
    BY DEF TypeOK, NoPairIsLost
  <1>8. \A g \in grams :
           \/ g[1] < g[2] /\ Closed(Weights, g[1], g[2])
           \/ Neighbours(Weights, g[1], g[2])
           \/ g = <<Top, Top>>
    BY <1>1 DEF DrainCloses
  <1> QED  BY <1>2, <1>3, <1>4, <1>5, <1>6, <1>7, <1>8

\* TypeOK of every run of the loops (extract_sparse_ngrams_covering).
THEOREM SparseTypeCorrect == Spec => []TypeOK
PROOF
  <1>1. SparseInv => TypeOK
    BY DEF SparseInv
  <1> QED  BY <1>1, SparseInvariant, PTL

LEMMA InvShapesGrams ==
    ASSUME SparseInv
    PROVE  StackShapesGrams
PROOF
  <1> USE DEF SparseInv
  <1>1. /\ Len(stack) \in Nat /\ DOMAIN stack = 1 .. Len(stack)
        /\ \A d \in 1 .. Len(stack) : stack[d] \in Pairs
        /\ stack # <<>> => Top \in Pairs /\ Len(stack) \in 1 .. Len(stack)
        /\ i \in Nat /\ i <= Len(data) /\ Len(data) \in Nat
        /\ Weights \in [Pairs -> Nat] /\ Pairs \subseteq Nat
        /\ \A k \in Pairs : W(k) = Weights[k] /\ k > 0
    BY StackType, WeightsType
  <1>2. \A k, j \in Pairs : \A m \in k + 1 .. j - 1 : m \in Pairs
    BY <1>1 DEF Pairs
  <1>3. ASSUME NEW k \in 1 .. Len(stack) - 1
        PROVE  /\ stack[k] < stack[k + 1] /\ W(stack[k]) > W(stack[k + 1])
               /\ \A m \in stack[k] + 1 .. stack[k + 1] - 1 : W(m) <= W(stack[k + 1])
    <2>1. k \in 1 .. Len(stack) /\ k + 1 \in 1 .. Len(stack) /\ k < k + 1
      BY <1>1
    <2>2. stack[k] \in Pairs /\ stack[k + 1] \in Pairs
      BY <1>1, <2>1
    <2>3. stack[k] < stack[k + 1] /\ Weights[stack[k]] > Weights[stack[k + 1]]
      BY <1>1, <2>1 DEF StackFalls
    <2>4. \A m \in stack[k] + 1 .. stack[k + 1] - 1 :
             m \in Pairs /\ Weights[m] <= Weights[stack[k + 1]]
      BY <1>1, <1>2, <2>1, <2>2 DEF StackIsTight
    <2> QED  BY <1>1, <2>2, <2>3, <2>4
  <1>4. ASSUME stack # <<>>, NEW m \in Top + 1 .. i - 1
        PROVE  W(m) < W(Top)
    <2>1. m \in Pairs
      BY <1>1, <1>4 DEF Pairs
    <2>2. Weights[m] < Weights[Top]
      BY <1>1, <1>4 DEF StackFalls, Waits, Top
    <2> QED  BY <1>1, <1>4, <2>1, <2>2
  <1>5. ASSUME NEW g \in grams, NEW m \in g[1] + 1 .. g[2] - 1
        PROVE  W(m) < W(g[1]) /\ W(m) <= W(g[2])
    <2>1. g[1] \in Pairs /\ g[2] \in Pairs
      BY DEF TypeOK
    <2>2. m \in Pairs
      BY <1>2, <2>1
    <2>3. Weights[m] < Weights[g[1]] /\ Weights[m] <= Weights[g[2]]
      BY DEF GramsAreTight
    <2> QED  BY <1>1, <2>1, <2>2, <2>3
  <1> QED  BY <1>3, <1>4, <1>5 DEF StackShapesGrams

\* StackShapesGrams: the stack falls, and both ends of an n-gram bound what is
\* inside, whatever the hash pair_weight returns.
THEOREM StackBoundsGrams == Spec => []StackShapesGrams
  BY InvShapesGrams, SparseInvariant, PTL

LEMMA InvCoversEveryByte ==
    ASSUME SparseInv
    PROVE  CoversEveryByte
PROOF
  <1> SUFFICES ASSUME phase = "done", NEW b \in DOMAIN data
               PROVE  \E g \in grams : g[1] <= b /\ b <= g[2] + 1
    BY DEF CoversEveryByte
  <1>1. /\ i = Len(data) /\ i \in Nat /\ Pairs = 1 .. i - 1 /\ OnStack = {Top} /\ Top \in Pairs
        /\ <<Top, Top>> \in grams /\ grams \subseteq Pairs \X Pairs /\ Pairs \subseteq Nat
    BY AtTheEnd
  <1>2. b \in 1 .. i
    BY <1>1 DEF SparseInv, TypeOK
  <1>3. ASSUME NEW m \in Pairs
        PROVE  \E g \in grams : g[1] <= m /\ m <= g[2]
    <2>1. CASE m = Top
      <3>1. <<Top, Top>>[1] <= m /\ m <= <<Top, Top>>[2]
        BY <1>1, <2>1
      <3> QED  BY <1>1, <3>1
    <2>2. CASE m # Top
      <3>1. PICK g \in grams : m \in {g[1], g[2]}
        BY <1>1, <2>2 DEF SparseInv, NoPairIsLost
      <3>2. g[1] \in Nat /\ g[2] \in Nat /\ (g[1] < g[2] \/ g = <<Top, Top>>)
        BY <1>1, AtTheEnd DEF Neighbours
      <3> QED  BY <2>2, <3>1, <3>2
    <2> QED  BY <2>1, <2>2
  <1>4. CASE b \in Pairs
    <2>1. PICK g \in grams : g[1] <= b /\ b <= g[2]
      BY <1>3, <1>4
    <2> QED  BY <1>1, <1>2, <2>1
  <1>5. CASE b \notin Pairs
    <2>1. b = i /\ b - 1 \in Pairs
      BY <1>1, <1>2, <1>5
    <2>2. PICK g \in grams : g[1] <= b - 1 /\ b - 1 <= g[2]
      BY <1>3, <2>1
    <2> QED  BY <1>1, <1>2, <2>2
  <1> QED  BY <1>4, <1>5

\* CoversEveryByte: the covering of any literal leaves no byte of it out.
THEOREM EveryByteIsCovered == Spec => []CoversEveryByte
  BY InvCoversEveryByte, SparseInvariant, PTL

LEMMA InvComputesCovering ==
    ASSUME SparseInv
    PROVE  ComputesCovering
PROOF
  <1> DEFINE w == Weights
             left == Left(w)
             closed == {s \in (DOMAIN w) \X (DOMAIN w) :
                          s[1] < s[2] /\ w[s[1]] <= w[s[2]] /\ Waits(w, s[1], s[2])}
             between == {s \in left \X left :
                           s[1] < s[2] /\ (s[1] + 1 .. s[2] - 1) \cap left = {}}
             bottom == {<<k, k>> : k \in {b \in left : \A m \in left : b <= m}}
  <1> SUFFICES ASSUME phase = "done" PROVE grams = closed \cup between \cup bottom
    BY DEF ComputesCovering, Covering, Weights
  <1>1. /\ i \in Nat /\ Pairs = 1 .. i - 1 /\ Pairs = DOMAIN w
        /\ OnStack = {Top} /\ Top \in Pairs /\ Pairs \subseteq Nat /\ Top \in left
        /\ \A k \in left : k \in Nat /\ Top <= k
        /\ grams \subseteq Pairs \X Pairs /\ <<Top, Top>> \in grams
        /\ \A g \in grams : \/ g[1] < g[2] /\ Closed(w, g[1], g[2])
                            \/ Neighbours(w, g[1], g[2])
                            \/ g = <<Top, Top>>
    BY AtTheEnd
  <1>2. ASSUME NEW g \in grams PROVE g \in closed \cup between \cup bottom
    <2>1. CASE g[1] < g[2] /\ Closed(w, g[1], g[2])
      BY <1>1, <2>1 DEF Closed
    <2>2. CASE Neighbours(w, g[1], g[2])
      BY <1>1, <2>2 DEF Neighbours
    <2>3. CASE g = <<Top, Top>>
      BY <1>1, <2>3
    <2> QED  BY <1>1, <2>1, <2>2, <2>3
  <1>3. closed \subseteq grams
    <2> SUFFICES ASSUME NEW s \in closed PROVE s \in grams
      OBVIOUS
    <2>1. /\ s = <<s[1], s[2]>> /\ s[2] \in 1 .. i - 1 /\ s[1] \in 1 .. s[2] - 1
          /\ Closed(w, s[1], s[2])
      BY <1>1 DEF Closed
    <2> QED  BY <2>1 DEF SparseInv, ScanCloses
  <1>4. between \subseteq grams
    <2> SUFFICES ASSUME NEW s \in between PROVE s \in grams
      OBVIOUS
    <2>1. /\ s = <<s[1], s[2]>> /\ s[1] \in left /\ s[2] \in left /\ s[1] < s[2]
          /\ Neighbours(w, s[1], s[2])
      BY DEF Neighbours
    <2>2. Top < s[2] /\ s[1] \in Pairs /\ s[2] \in Pairs
      BY <1>1, <2>1 DEF Left
    <2>3. i \notin Pairs
      BY <1>1
    <2> QED  BY <2>1, <2>2, <2>3 DEF SparseInv, DrainCloses
  <1>5. bottom \subseteq grams
    <2> SUFFICES ASSUME NEW k \in left, \A m \in left : k <= m PROVE <<k, k>> \in grams
      OBVIOUS
    <2>1. k = Top
      BY <1>1
    <2> QED  BY <1>1, <2>1
  <1> QED  BY <1>2, <1>3, <1>4, <1>5

\* ComputesCovering: the loops with their stack return the set that Covering
\* defines, and that the planner's plans are built from.
THEOREM LoopsComputeCovering == Spec => []ComputesCovering
  BY InvComputesCovering, SparseInvariant, PTL

LEMMA InvSavesNoLookup ==
    ASSUME SparseInv
    PROVE  CoveringSavesNoLookup
PROOF
  <1> SUFFICES ASSUME phase = "done"
               PROVE  Cardinality(TextOf(data, grams)) > Cardinality(Trigrams(data))
    BY DEF CoveringSavesNoLookup
  <1> DEFINE L == Len(data) - 1
             G == TextOf(data, grams)
  <1>1. /\ i = Len(data) /\ i \in Nat /\ Pairs = 1 .. i - 1 /\ Top \in Pairs
        /\ grams \subseteq Pairs \X Pairs
    BY AtTheEnd
  <1>2. L \in Nat /\ L > 0 /\ Len(data) = L + 1 /\ Pairs = 1 .. L
    BY <1>1
  <1>3. data \in Seq(Bytes) /\ Weights \in [Pairs -> Nat]
    BY WeightsType DEF SparseInv, TypeOK
  <1>4. G = CoveringGrams(data, weight)
    <2>1. grams = Covering(PairWeights(data, weight))
      BY InvComputesCovering DEF ComputesCovering
    <2> QED  BY <2>1 DEF CoveringGrams
  <1>5. /\ \A t \in Trigrams(data) : \E g \in G : Len(g) >= 3 /\ SubSeq(g, 1, 3) = t
        /\ \E g \in G : Len(g) = 2
    <2>1. PairWeights(data, weight) \in [1 .. L -> Nat]
      BY <1>2, <1>3 DEF Weights
    <2> HIDE DEF L, G
    <2> QED  BY <1>2, <1>3, <1>4, <2>1, TrigramsBeginGrams
  <1>6. IsFiniteSet(G)
    <2>1. IsFiniteSet(Pairs \X Pairs)
      <3>1. 1 \in Int /\ i - 1 \in Int
        BY <1>1
      <3>2. IsFiniteSet(1 .. i - 1)
        BY <3>1, FS_Interval
      <3> QED  BY <1>1, <3>2, FS_Product
    <2>2. IsFiniteSet(grams)
      BY <1>1, <2>1, FS_Subset
    <2> DEFINE f == [s \in grams |-> SubSeq(data, s[1], s[2] + 1)]
    <2>3. G = {f[s] : s \in grams}
      BY DEF TextOf
    <2> HIDE DEF f, G
    <2> QED  BY <2>2, <2>3, FiniteImage
  <1> HIDE DEF G
  <1>7. Cardinality(G) > Cardinality(Trigrams(data))
    BY <1>5, <1>6, FewerTrigrams
  <1> QED  BY <1>7 DEF G

\* CoveringSavesNoLookup: for no literal and no weights does the covering that
\* a query looks up have as few n-grams as the literal has trigrams.
THEOREM CoveringNeverSaves == Spec => []CoveringSavesNoLookup
  BY InvSavesNoLookup, SparseInvariant, PTL

LEMMA InvDistinctAreCovered ==
    ASSUME SparseInv
    PROVE  DistinctWeightsAreCovered
PROOF
  <1> SUFFICES ASSUME phase = "done", Untied(data, weight)
               PROVE  TextOf(data, grams) \subseteq Indexed
    BY DEF DistinctWeightsAreCovered
  <1>1. /\ Pairs = DOMAIN Weights /\ Pairs \subseteq Nat /\ grams \subseteq Pairs \X Pairs
        /\ Weights \in [Pairs -> Nat] /\ Pairs = 1 .. i - 1 /\ i \in Nat
    BY AtTheEnd, WeightsType DEF SparseInv
  <1>2. \A k \in Pairs : Weights[k] > 0 /\ \A m \in Pairs \ {k} : Weights[k] # Weights[m]
    BY <1>1 DEF Untied, Weights
  <1>3. ASSUME NEW g \in grams PROVE g \in AllStretches(Weights)
    <2>1. g = <<g[1], g[2]>> /\ g[1] \in Pairs /\ g[2] \in Pairs /\ g[1] \in Nat /\ g[2] \in Nat
      BY <1>1
    <2>2. g[1] < g[2] \/ g[1] = g[2]
      BY AtTheEnd DEF Neighbours
    <2>3. CASE g[1] = g[2]
      BY <1>1, <2>1, <2>3 DEF AllStretches
    <2>4. CASE g[1] < g[2]
      <3>1. ASSUME NEW m \in g[1] + 1 .. g[2] - 1
            PROVE  Weights[m] \in Nat /\ Weights[m] < Weights[g[1]] /\ Weights[m] < Weights[g[2]]
        <4>1. m \in Pairs /\ m # g[2]
          BY <1>1, <2>1
        <4>2. Weights[m] < Weights[g[1]] /\ Weights[m] <= Weights[g[2]]
          BY DEF SparseInv, GramsAreTight
        <4>3. Weights[m] # Weights[g[2]]
          BY <1>2, <2>1, <4>1
        <4>4. Weights[m] \in Nat /\ Weights[g[2]] \in Nat
          BY <1>1, <2>1, <4>1
        <4> QED  BY <4>2, <4>3, <4>4
      <3>2. /\ Weights[g[1]] \in Nat /\ Weights[g[1]] > 0
            /\ Weights[g[2]] \in Nat /\ Weights[g[2]] > 0
        BY <1>1, <1>2, <2>1
      <3>3. Interior(Weights, g[1], g[2]) < Weights[g[1]]
        BY <2>1, <3>1, <3>2, InteriorBelow
      <3>4. Interior(Weights, g[1], g[2]) < Weights[g[2]]
        BY <2>1, <3>1, <3>2, InteriorBelow
      <3> QED  BY <1>1, <2>1, <2>4, <3>3, <3>4 DEF AllStretches
    <2> QED  BY <2>2, <2>3, <2>4
  <1> QED  BY <1>3 DEF TextOf, Indexed, SparseGrams, Weights

\* DistinctWeightsAreCovered: for literals without ties of weight, what a
\* query looks up was put into the index by extract_sparse_ngrams_all.
THEOREM DistinctWeightsAreIndexed == Spec => []DistinctWeightsAreCovered
  BY InvDistinctAreCovered, SparseInvariant, PTL
=============================================================================
