--------------------------- MODULE PlannerProofs ---------------------------
(***************************************************************************)
(* Proofs about the decomposition of a regex and its plan, for all atoms,  *)
(* weights and bounds: the split is exact, the literals of a plain regex   *)
(* are in every text it matches, no plan filters out such a text, and what *)
(* `qndx plan` prints explains the plan.                                   *)
(***************************************************************************)
EXTENDS Planner, SequenceTheorems, FiniteSetTheorems, CommonLemmas, TLAPS

-----------------------------------------------------------------------------
(* Stretches of a sequence, and what FlattenSeq joins.                     *)

\* part is what text has behind its first n elements.
Has(text, n, part) ==
    /\ n + Len(part) <= Len(text)
    /\ \A k \in 1 .. Len(part) : text[n + k] = part[k]

LEMMA HasBoth ==
    ASSUME NEW S, NEW text \in Seq(S), NEW n \in Nat, NEW a \in Seq(S), NEW b \in Seq(S),
           Has(text, n, a \o b)
    PROVE  Has(text, n, a) /\ Has(text, n + Len(a), b)
PROOF
  <1> DEFINE ab == a \o b
  <1>1. /\ Len(a) \in Nat /\ Len(b) \in Nat /\ Len(text) \in Nat
        /\ Len(ab) = Len(a) + Len(b)
        /\ \A k \in 1 .. Len(a) : ab[k] = a[k]
        /\ \A k \in 1 .. Len(b) : ab[Len(a) + k] = b[k]
    OBVIOUS
  <1> HIDE DEF ab
  <1>2. Has(text, n, ab)
    BY DEF ab
  <1>3. Has(text, n, a)
    <2>1. ASSUME NEW k \in 1 .. Len(a) PROVE text[n + k] = a[k]
      <3>1. k \in 1 .. Len(ab)
        BY <1>1
      <3> QED  BY <1>1, <1>2, <3>1 DEF Has
    <2>2. n + Len(a) <= Len(text)
      BY <1>1, <1>2 DEF Has
    <2> QED  BY <2>1, <2>2 DEF Has
  <1>4. Has(text, n + Len(a), b)
    <2>1. ASSUME NEW k \in 1 .. Len(b) PROVE text[(n + Len(a)) + k] = b[k]
      <3>1. Len(a) + k \in 1 .. Len(ab) /\ n + (Len(a) + k) = (n + Len(a)) + k
        BY <1>1
      <3> QED  BY <1>1, <1>2, <3>1 DEF Has
    <2>2. (n + Len(a)) + Len(b) <= Len(text)
      BY <1>1, <1>2 DEF Has
    <2> QED  BY <2>1, <2>2 DEF Has
  <1> QED  BY <1>3, <1>4

LEMMA HasWithin ==
    ASSUME NEW S, NEW text \in Seq(S), NEW part \in Seq(S), NEW bit \in Seq(S),
           NEW n \in Nat, NEW m \in Nat, Has(text, n, part), Has(part, m, bit)
    PROVE  Has(text, n + m, bit)
PROOF
  <1>1. Len(text) \in Nat /\ Len(part) \in Nat /\ Len(bit) \in Nat
    OBVIOUS
  <1>2. n + Len(part) <= Len(text) /\ m + Len(bit) <= Len(part)
    BY DEF Has
  <1>3. (n + m) + Len(bit) <= Len(text)
    BY <1>1, <1>2
  <1>4. ASSUME NEW k \in 1 .. Len(bit) PROVE text[(n + m) + k] = bit[k]
    <2>1. m + k \in 1 .. Len(part) /\ n + (m + k) = (n + m) + k
      BY <1>1, <1>2
    <2>2. text[n + (m + k)] = part[m + k] /\ part[m + k] = bit[k]
      BY <2>1 DEF Has
    <2> QED  BY <2>1, <2>2
  <1> QED  BY <1>3, <1>4 DEF Has

LEMMA HasItself ==
    ASSUME NEW S, NEW text \in Seq(S)
    PROVE  Has(text, 0, text)
PROOF
  BY DEF Has

\* The joined first sequences.
Joins(joined, seqs) ==
    /\ joined[0] = <<>>
    /\ \A m \in 1 .. Len(seqs) : joined[m] = joined[m - 1] \o seqs[m]
    /\ joined[Len(seqs)] = FlattenSeq(seqs)
    /\ \A m \in 1 .. Len(seqs) : Has(FlattenSeq(seqs), Len(joined[m - 1]), seqs[m])

LEMMA ConcatLaws ==
    ASSUME NEW S, NEW a \in Seq(S), NEW b \in Seq(S), NEW c \in Seq(S)
    PROVE  /\ a \o b \in Seq(S) /\ Len(a \o b) = Len(a) + Len(b)
           /\ (a \o b) \o c = a \o (b \o c)
           /\ a \o <<>> = a /\ <<>> \o a = a
           /\ Has(a \o b, 0, a) /\ Has(a \o b, Len(a), b)
PROOF
  <1>1. a \o b \in Seq(S) /\ Len(a \o b) = Len(a) + Len(b)
    OBVIOUS
  <1>2. (a \o b) \o c = a \o (b \o c) /\ a \o <<>> = a /\ <<>> \o a = a
    BY ConcatAssociative, ConcatEmptySeq
  <1>3. Has(a \o b, 0, a \o b)
    BY <1>1, HasItself
  <1>4. Has(a \o b, 0, a) /\ Has(a \o b, 0 + Len(a), b)
    BY <1>1, <1>3, HasBoth
  <1>5. 0 + Len(a) = Len(a)
    OBVIOUS
  <1> QED  BY <1>1, <1>2, <1>4, <1>5

LEMMA FlattenJoins ==
    ASSUME NEW S, NEW seqs \in Seq(Seq(S))
    PROVE  \E joined \in [0 .. Len(seqs) -> Seq(S)] : Joins(joined, seqs)
PROOF
  <1> DEFINE T == Seq(S)
             n == Len(seqs)
             step == [x \in T \X Nat |-> IF x[2] \in 1 .. n THEN x[1] \o seqs[x[2]] ELSE x[1]]
  <1>1. n \in Nat /\ \A m \in 1 .. n : seqs[m] \in T
    OBVIOUS
  <1>0. \A m \in 1 .. n : m \in 0 .. n /\ m - 1 \in 0 .. n /\ m \in Nat
    <2> HIDE DEF n
    <2> QED  BY <1>1
  <1>2. step \in [T \X Nat -> T]
    BY <1>1
  <1>3. <<>> \in T
    OBVIOUS
  <1>4. PICK joined \in [0 .. n -> T] : Computes(joined, <<>>, step, n)
    <2> DEFINE base == <<>>
    <2> HIDE DEF step, T, n, base
    <2>1. base \in T
      BY <1>3 DEF base
    <2>2. \E f \in [0 .. n -> T] : Computes(f, base, step, n)
      BY <1>1, <1>2, <2>1, RecursionUpTo
    <2> QED  BY <2>2 DEF base
  <1>5. joined[0] = <<>>
    BY <1>4 DEF Computes
  <1>6. ASSUME NEW m \in 1 .. n PROVE joined[m] = joined[m - 1] \o seqs[m]
    <2>1. joined[m] = step[<<joined[m - 1], m>>]
      BY <1>4 DEF Computes
    <2> HIDE DEF T, n
    <2>2. m - 1 \in 0 .. n /\ m \in Nat /\ joined[m - 1] \in T
      BY <1>0
    <2> QED  BY <2>1, <2>2
  <1> HIDE DEF step
  <1>7. joined[n] = FlattenSeq(seqs)
    <2>1. CASE n = 0
      <3>1. seqs = <<>>
        BY <2>1, EmptySeq
      <3> QED  BY <1>5, <2>1, <3>1 DEF FlattenSeq
    <2>2. CASE n # 0
      <3> DEFINE IsFlat(f) == f = [i \in 1 .. Len(seqs) |-> IF i = 1 THEN seqs[i] ELSE f[i - 1] \o seqs[i]]
                 g == [i \in 1 .. n |-> joined[i]]
                 flat == CHOOSE f : IsFlat(f)
      <3>1. IsFlat(g)
        <4>1. ASSUME NEW i \in 1 .. n
              PROVE  joined[i] = IF i = 1 THEN seqs[i] ELSE g[i - 1] \o seqs[i]
          <5>1. joined[i] = joined[i - 1] \o seqs[i] /\ seqs[i] \in T
            BY <1>1, <1>6
          <5>2. CASE i = 1
            <6>1. joined[i - 1] = <<>> /\ <<>> \o seqs[i] = seqs[i]
              BY <1>5, <5>1, <5>2, ConcatEmptySeq
            <6> QED  BY <5>1, <5>2, <6>1
          <5>3. CASE i # 1
            <6>1. i - 1 \in 1 .. n
              BY <1>1, <5>3
            <6> QED  BY <5>1, <5>3, <6>1
          <5> QED  BY <5>2, <5>3
        <4> QED  BY <4>1
      <3>2. IsFlat(flat)
        <4> HIDE DEF g, IsFlat
        <4> QED  BY <3>1
      <3>3. FlattenSeq(seqs) = flat[n]
        BY <2>2 DEF FlattenSeq
      <3>4. \A i \in 1 .. n : flat[i] = IF i = 1 THEN seqs[i] ELSE flat[i - 1] \o seqs[i]
        BY <3>2
      <3> HIDE DEF flat, g, IsFlat
      <3> DEFINE U == {i \in 0 .. n : i = 0 \/ flat[i] = joined[i]}
      <3>5. ASSUME NEW k \in 1 .. n, k - 1 \in U PROVE k \in U
        <4>1. k \in 0 .. n /\ joined[k] = joined[k - 1] \o seqs[k] /\ seqs[k] \in T
          BY <1>0, <1>1, <1>6
        <4>2. CASE k = 1
          <5>1. joined[k - 1] = <<>> /\ <<>> \o seqs[k] = seqs[k]
            BY <1>5, <4>1, <4>2, ConcatEmptySeq
          <5> QED  BY <3>4, <4>1, <4>2, <5>1
        <4>3. CASE k # 1
          <5>1. k - 1 # 0 /\ flat[k - 1] = joined[k - 1]
            BY <1>1, <3>5, <4>3
          <5> QED  BY <3>4, <4>1, <4>3, <5>1
        <4> QED  BY <4>2, <4>3
      <3>6. U = 0 .. n
        <4>1. U \in SUBSET (0 .. n) /\ 0 \in U
          BY <1>1
        <4> HIDE DEF U, n
        <4> QED  BY <1>1, <3>5, <4>1, UpToInduction
      <3>7. n \in 0 .. n
        BY <1>1
      <3> QED  BY <2>2, <3>3, <3>6, <3>7
    <2> QED  BY <2>1, <2>2
  <1>8. \A m \in 1 .. n : Has(joined[n], Len(joined[m - 1]), seqs[m])
    <2> DEFINE U == {i \in 0 .. n : \A m \in 1 .. i : Has(joined[i], Len(joined[m - 1]), seqs[m])}
    <2>1. ASSUME NEW k \in 1 .. n, k - 1 \in U PROVE k \in U
      <3>1. /\ k - 1 \in 0 .. n /\ k \in 0 .. n
            /\ joined[k - 1] \in Seq(S) /\ seqs[k] \in Seq(S) /\ joined[k] \in Seq(S)
            /\ joined[k] = joined[k - 1] \o seqs[k]
        <4>1. k \in 0 .. n /\ k - 1 \in 0 .. n
          BY <1>0
        <4>2. joined[k] \in T /\ joined[k - 1] \in T /\ seqs[k] \in T
          BY <1>1, <4>1
        <4> QED  BY <1>6, <4>1, <4>2
      <3>2. Has(joined[k], 0, joined[k - 1]) /\ Has(joined[k], Len(joined[k - 1]), seqs[k])
        BY <3>1, ConcatLaws
      <3>3. ASSUME NEW m \in 1 .. k PROVE Has(joined[k], Len(joined[m - 1]), seqs[m])
        <4>1. CASE m = k
          BY <3>2, <4>1
        <4>2. CASE m # k
          <5>1. m \in 1 .. k - 1 /\ m - 1 \in 0 .. n /\ m \in 1 .. n
            BY <1>1, <4>2
          <5>2. Has(joined[k - 1], Len(joined[m - 1]), seqs[m])
            BY <2>1, <5>1
          <5>3. Len(joined[m - 1]) \in Nat /\ seqs[m] \in Seq(S) /\ 0 + Len(joined[m - 1]) = Len(joined[m - 1])
            BY <1>1, <5>1
          <5>4. Has(joined[k], 0 + Len(joined[m - 1]), seqs[m])
            BY <3>1, <3>2, <5>2, <5>3, HasWithin
          <5> QED  BY <5>3, <5>4
        <4> QED  BY <4>1, <4>2
      <3> QED  BY <3>1, <3>3
    <2>2. U \in SUBSET (0 .. n) /\ 0 \in U
      BY <1>1
    <2> HIDE DEF U, n
    <2>3. U = 0 .. n
      BY <1>1, <2>1, <2>2, UpToInduction
    <2>4. n \in 0 .. n
      BY <1>1
    <2> QED  BY <2>3, <2>4 DEF U
  <1>9. Joins(joined, seqs)
    BY <1>5, <1>6, <1>7, <1>8 DEF Joins
  <1> QED  BY <1>9

-----------------------------------------------------------------------------
(* The split, a character at a time.                                       *)

Text == Seq(Characters)
SplitStates ==
    [done : Seq(Text), current : Text, depth : Nat, escaped : BOOLEAN, bracket : BOOLEAN]

LEMMA Tuples ==
    ASSUME NEW S, NEW a \in S, NEW b \in S
    PROVE  <<>> \in Seq(S) /\ <<a>> \in Seq(S) /\ <<a, b>> \in Seq(S)
PROOF
  OBVIOUS

LEMMA TupleOfOne ==
    ASSUME NEW S, NEW s \in Seq(S), Len(s) = 1
    PROVE  s = <<s[1]>> /\ s[1] \in S
PROOF
  <1>1. s = <<s[1]>>
    OBVIOUS
  <1>2. s[1] \in S
    OBVIOUS
  <1> QED  BY <1>1, <1>2

\* A sequence, an element at a time.
LEMMA OneMore ==
    ASSUME NEW S, NEW s \in Seq(S), NEW k \in 1 .. Len(s)
    PROVE  /\ SubSeq(s, 1, k - 1) \in Seq(S) /\ <<s[k]>> \in Seq(S)
           /\ SubSeq(s, 1, k) = SubSeq(s, 1, k - 1) \o <<s[k]>>
           /\ SubSeq(s, 1, 0) = <<>> /\ SubSeq(s, 1, Len(s)) = s
PROOF
  <1>1. Len(s) \in Nat /\ k \in Nat /\ k - 1 \in Nat /\ k \in 1 .. Len(s)
    OBVIOUS
  <1> DEFINE a == SubSeq(s, 1, k)
             b == SubSeq(s, 1, k - 1)
  <1>2. a \in Seq(S) /\ Len(a) = k /\ \A i \in 1 .. k : a[i] = s[i]
    OBVIOUS
  <1>3. b \in Seq(S) /\ Len(b) = k - 1 /\ \A i \in 1 .. k - 1 : b[i] = s[i]
    OBVIOUS
  <1>4. <<s[k]>> \in Seq(S) /\ Len(<<s[k]>>) = 1 /\ <<s[k]>>[1] = s[k]
    OBVIOUS
  <1> HIDE DEF a, b
  <1>5. a = b \o <<s[k]>>
    <2>1. b \o <<s[k]>> \in Seq(S) /\ Len(b \o <<s[k]>>) = k
      BY <1>1, <1>3, <1>4
    <2>2. ASSUME NEW i \in 1 .. k PROVE a[i] = (b \o <<s[k]>>)[i]
      <3>1. CASE i = k
        BY <1>1, <1>2, <1>3, <1>4, <3>1
      <3>2. CASE i # k
        <4>1. i \in 1 .. k - 1
          BY <1>1, <3>2
        <4> QED  BY <1>2, <1>3, <1>4, <4>1
      <3> QED  BY <3>1, <3>2
    <2> QED  BY <1>2, <2>1, <2>2, SeqEqual
  <1>6. SubSeq(s, 1, 0) = <<>> /\ SubSeq(s, 1, Len(s)) = s
    OBVIOUS
  <1> QED  BY <1>3, <1>4, <1>5, <1>6 DEF a, b

LEMMA SplitTypes ==
    ASSUME NEW s \in SplitStates, NEW ch \in Characters
    PROVE  SplitChar(s, ch) \in SplitStates
PROOF
  <1>1. /\ s.done \in Seq(Text) /\ s.current \in Text /\ s.depth \in Nat
        /\ s.escaped \in BOOLEAN /\ s.bracket \in BOOLEAN
    BY DEF SplitStates
  <1>2. <<ch>> \in Text /\ <<"\\", ch>> \in Text /\ <<>> \in Text
    <2>1. "\\" \in Characters
      BY DEF Characters
    <2> QED  BY <2>1, Tuples DEF Text
  <1>3. ASSUME NEW chars \in Text PROVE Put(s, chars) \in SplitStates
    <2>1. s.current \o chars \in Text
      BY <1>1 DEF Text
    <2> QED  BY <1>1, <2>1 DEF Put, SplitStates
  <1>4. s.depth + 1 \in Nat /\ (IF s.depth = 0 THEN 0 ELSE s.depth - 1) \in Nat
    BY <1>1
  <1>5. Append(s.done, s.current) \in Seq(Text)
    BY <1>1
  <1>6. CASE s.escaped
    BY <1>2, <1>3, <1>6 DEF SplitChar, SplitStates
  <1>7. CASE ~s.escaped
    <2>1. CASE ch = "\\"
      BY <1>1, <1>7, <2>1 DEF SplitChar, SplitStates
    <2>2. CASE ch # "\\"
      BY <1>1, <1>2, <1>3, <1>4, <1>5, <1>7, <2>2 DEF SplitChar, SplitStates, Put
    <2> QED  BY <2>1, <2>2
  <1> QED  BY <1>6, <1>7

IsSplitScan(state, pattern) ==
    /\ state \in [0 .. Len(pattern) -> SplitStates]
    /\ state[0] = Split0
    /\ \A n \in 1 .. Len(pattern) : state[n] = SplitChar(state[n - 1], pattern[n])

LEMMA SplitScan ==
    ASSUME NEW pattern \in Text
    PROVE  IsSplitScan(SplitUpTo(pattern), pattern)
PROOF
  <1> DEFINE N == Len(pattern)
             S == SplitStates
             base == Split0
             step == [x \in S \X Nat |->
                        IF x[2] \in 1 .. N THEN SplitChar(x[1], pattern[x[2]]) ELSE x[1]]
             IsScan(f) == f = [n \in 0 .. Len(pattern) |->
                                 IF n = 0 THEN Split0 ELSE SplitChar(f[n - 1], pattern[n])]
  <1>1. N \in Nat /\ \A n \in 1 .. N : pattern[n] \in Characters
    BY DEF Text
  <1>2. \A n \in 0 .. N : n = 0 \/ n \in 1 .. N
    <2> HIDE DEF N
    <2> QED  BY <1>1
  <1>3. step \in [S \X Nat -> S]
    <2> HIDE DEF S, N
    <2> QED  BY <1>1, SplitTypes DEF S
  <1>4. base \in S
    BY DEF Split0, SplitStates, Text
  <1>5. PICK g \in [0 .. N -> S] : Computes(g, base, step, N)
    <2> HIDE DEF step, S, N, base
    <2> QED  BY <1>1, <1>3, <1>4, RecursionUpTo
  <1>6. ASSUME NEW n \in 0 .. N
        PROVE  g[n] = IF n = 0 THEN Split0 ELSE SplitChar(g[n - 1], pattern[n])
    <2>1. CASE n = 0
      BY <1>5, <2>1 DEF Computes
    <2>2. CASE n # 0
      <3> HIDE DEF N, S
      <3>1. n \in 1 .. N /\ n - 1 \in 0 .. N /\ n \in Nat
        BY <1>1, <1>2, <2>2
      <3>2. g[n] = step[<<g[n - 1], n>>] /\ g[n - 1] \in S
        BY <1>5, <3>1 DEF Computes
      <3> QED  BY <2>2, <3>1, <3>2
    <2> QED  BY <2>1, <2>2
  <1>7. IsScan(g)
    <2> HIDE DEF S, step, base
    <2> QED  BY <1>5, <1>6
  <1> DEFINE f == CHOOSE f : IsScan(f)
  <1>8. IsScan(f)
    <2> HIDE DEF IsScan
    <2> QED  BY <1>7
  <1>9. SplitUpTo(pattern) = f
    BY DEF SplitUpTo
  <1> HIDE DEF f, S, step, base
  <1>10. /\ DOMAIN f = 0 .. N
         /\ \A n \in 0 .. N : f[n] = IF n = 0 THEN Split0 ELSE SplitChar(f[n - 1], pattern[n])
    BY <1>8
  <1> HIDE DEF IsScan, N
  <1> DEFINE U == {n \in 0 .. N : f[n] = g[n]}
  <1>11. U = 0 .. N
    <2>1. 0 \in U /\ U \in SUBSET (0 .. N)
      BY <1>1, <1>6, <1>10
    <2>2. ASSUME NEW k \in 1 .. N, k - 1 \in U PROVE k \in U
      <3>1. k \in 0 .. N /\ k # 0
        BY <1>1
      <3> QED  BY <1>6, <1>10, <2>2, <3>1
    <2> HIDE DEF U
    <2> QED  BY <1>1, <2>1, <2>2, UpToInduction
  <1>12. \A n \in 0 .. N : f[n] = g[n] /\ g[n] \in S
    BY <1>5, <1>11
  <1>13. f = [n \in 0 .. N |-> f[n]]
    BY <1>8, <1>10 DEF IsScan, N
  <1>14. f \in [0 .. N -> S]
    <2>1. \A n \in 0 .. N : f[n] \in S
      BY <1>12
    <2> QED  BY <1>13, <2>1
  <1>15. IsSplitScan(f, pattern)
    <2>1. 0 \in 0 .. N /\ \A n \in 1 .. N : n \in 0 .. N /\ n # 0
      BY <1>1
    <2> QED  BY <1>10, <1>14, <2>1 DEF IsSplitScan, N, S
  <1> QED  BY <1>9, <1>15

\* Between two atoms, or in a group, at some depth.
Outside(s, depth) ==
    s \in SplitStates /\ s.depth = depth /\ ~s.escaped /\ ~s.bracket

\* The scan takes part as a whole to the branch at hand, and goes from one
\* depth to another.
Takes(state, pattern, part, from, to) ==
    \A n \in Nat : Has(pattern, n, part) /\ Outside(state[n], from) =>
        /\ Outside(state[n + Len(part)], to)
        /\ state[n + Len(part)].done = state[n].done
        /\ state[n + Len(part)].current = state[n].current \o part

LEMMA NextSplit ==
    ASSUME NEW pattern \in Text, NEW state, IsSplitScan(state, pattern),
           NEW part \in Text, NEW n \in Nat, Has(pattern, n, part), NEW k \in 1 .. Len(part)
    PROVE  /\ state[n + k] = SplitChar(state[n + (k - 1)], part[k])
           /\ state[n + k] \in SplitStates /\ state[n + (k - 1)] \in SplitStates
           /\ part[k] \in Characters
PROOF
  <1>1. Len(part) \in Nat /\ Len(pattern) \in Nat /\ part[k] \in Characters
    BY DEF Text
  <1>2. /\ n + k \in 1 .. Len(pattern) /\ (n + k) - 1 = n + (k - 1) /\ pattern[n + k] = part[k]
        /\ n + k \in 0 .. Len(pattern) /\ n + (k - 1) \in 0 .. Len(pattern)
    BY <1>1 DEF Has
  <1> QED  BY <1>1, <1>2 DEF IsSplitScan

LEMMA SingleIsTaken ==
    ASSUME NEW pattern \in Text, NEW state, IsSplitScan(state, pattern),
           NEW token \in Text, NEW depth \in Nat,
           \/ IsSingle(token)
           \/ token = <<"|">> /\ depth > 0
    PROVE  Takes(state, pattern, token, depth, depth)
PROOF
  <1> SUFFICES ASSUME NEW n \in Nat, Has(pattern, n, token), Outside(state[n], depth)
               PROVE  /\ Outside(state[n + 1], depth)
                      /\ state[n + 1].done = state[n].done
                      /\ state[n + 1].current = state[n].current \o <<token[1]>>
    <2>1. Len(token) = 1
      BY DEF IsSingle
    <2>2. token = <<token[1]>>
      BY <2>1, TupleOfOne DEF Text
    <2> QED  BY <2>1, <2>2 DEF Takes
  <1> DEFINE ch == token[1]
  <1>1. Len(token) = 1 /\ ch \notin {"\\", "[", "(", ")"} /\ (ch = "|" => depth # 0)
    BY DEF IsSingle
  <1>2. /\ state[n + 1] = SplitChar(state[n], ch)
        /\ state[n + 1] \in SplitStates /\ state[n] \in SplitStates
    <2>1. 1 \in 1 .. Len(token) /\ n + (1 - 1) = n
      BY <1>1
    <2>2. /\ state[n + 1] = SplitChar(state[n + (1 - 1)], ch)
          /\ state[n + 1] \in SplitStates
      BY <2>1, NextSplit
    <2> QED  BY <2>1, <2>2 DEF Outside
  <1> HIDE DEF ch
  <1>3. SplitChar(state[n], ch) = Put(state[n], <<ch>>)
    BY <1>1 DEF Outside, SplitChar
  <1> DEFINE s == state[n]
             t == state[n + 1]
  <1>4. s \in SplitStates /\ s.depth = depth /\ ~s.escaped /\ ~s.bracket /\ t = Put(s, <<ch>>)
    BY <1>2, <1>3 DEF Outside
  <1> HIDE DEF s, t
  <1>5. /\ t.depth = depth /\ ~t.escaped /\ ~t.bracket
        /\ t.done = s.done /\ t.current = s.current \o <<ch>>
    BY <1>4 DEF Put, SplitStates
  <1> QED  BY <1>2, <1>5 DEF Outside, ch, s, t

LEMMA EscapeIsTaken ==
    ASSUME NEW pattern \in Text, NEW state, IsSplitScan(state, pattern),
           NEW token \in Text, IsEscape(token), NEW depth \in Nat
    PROVE  Takes(state, pattern, token, depth, depth)
PROOF
  <1> SUFFICES ASSUME NEW n \in Nat, Has(pattern, n, token), Outside(state[n], depth)
               PROVE  /\ Outside(state[n + 2], depth)
                      /\ state[n + 2].done = state[n].done
                      /\ state[n + 2].current = state[n].current \o <<"\\", token[2]>>
    <2>1. Len(token) = 2 /\ token = <<"\\", token[2]>>
      BY DEF IsEscape, Text
    <2> QED  BY <2>1 DEF Takes
  <1> DEFINE s == state[n]
             t == state[n + 1]
             u == state[n + 2]
             ch == token[2]
  <1>1. Len(token) = 2 /\ token[1] = "\\"
    BY DEF IsEscape
  <1>2. /\ t = SplitChar(s, "\\") /\ u = SplitChar(t, ch)
        /\ s \in SplitStates /\ t \in SplitStates /\ u \in SplitStates
    <2>1. /\ 1 \in 1 .. Len(token) /\ 2 \in 1 .. Len(token)
          /\ n + (1 - 1) = n /\ n + (2 - 1) = n + 1
      BY <1>1
    <2>2. t = SplitChar(state[n + (1 - 1)], token[1]) /\ t \in SplitStates
      BY <2>1, NextSplit
    <2>3. u = SplitChar(state[n + (2 - 1)], ch) /\ u \in SplitStates
      BY <2>1, NextSplit
    <2> QED  BY <1>1, <2>1, <2>2, <2>3 DEF Outside
  <1>3. ~s.escaped /\ ~s.bracket /\ s.depth = depth
    BY DEF Outside
  <1> HIDE DEF s, t, u, ch
  <1>4. /\ t.escaped /\ t.bracket = s.bracket /\ t.depth = s.depth
        /\ t.done = s.done /\ t.current = s.current
    BY <1>2, <1>3 DEF SplitChar, SplitStates
  <1>5. u = [Put(t, <<"\\", ch>>) EXCEPT !.escaped = FALSE]
    BY <1>2, <1>4 DEF SplitChar
  <1>6. /\ ~u.escaped /\ u.bracket = t.bracket /\ u.depth = t.depth
        /\ u.done = t.done /\ u.current = t.current \o <<"\\", ch>>
    BY <1>2, <1>5 DEF Put, SplitStates
  <1>7. ~u.bracket
    BY <1>3, <1>4, <1>6
  <1> QED  BY <1>2, <1>3, <1>4, <1>6, <1>7 DEF Outside, s, u, ch

\* Character by character, everything in the class goes to the branch.
LEMMA ClassIsTaken ==
    ASSUME NEW pattern \in Text, NEW state, IsSplitScan(state, pattern),
           NEW token \in Text, IsClass(token), NEW depth \in Nat
    PROVE  Takes(state, pattern, token, depth, depth)
PROOF
  <1> SUFFICES ASSUME NEW n \in Nat, Has(pattern, n, token), Outside(state[n], depth)
               PROVE  /\ Outside(state[n + Len(token)], depth)
                      /\ state[n + Len(token)].done = state[n].done
                      /\ state[n + Len(token)].current = state[n].current \o token
    BY DEF Takes
  <1> DEFINE L == Len(token)
             s == state[n]
             Upto(k) == s.current \o SubSeq(token, 1, k)
             Inside(t, k) ==
                /\ t \in SplitStates /\ ~t.escaped /\ t.bracket /\ t.depth = depth
                /\ t.done = s.done /\ t.current = Upto(k)
             U == {k \in 0 .. L - 2 : Inside(state[n + (k + 1)], k + 1)}
  <1>1. /\ L \in Nat /\ L >= 2 /\ token[1] = "[" /\ token[L] = "]"
        /\ \A k \in 2 .. L - 1 : token[k] \notin {"\\", "[", "]"}
        /\ s \in SplitStates /\ s.current \in Text
        /\ ~s.escaped /\ ~s.bracket /\ s.depth = depth
    BY DEF IsClass, Text, Outside, SplitStates
  <1>2. ASSUME NEW k \in 1 .. L
        PROVE  Upto(k) = Upto(k - 1) \o <<token[k]>>
    <2>1. /\ SubSeq(token, 1, k) = SubSeq(token, 1, k - 1) \o <<token[k]>>
          /\ SubSeq(token, 1, k - 1) \in Text /\ <<token[k]>> \in Text
      BY OneMore DEF Text
    <2> DEFINE c == s.current
               a == SubSeq(token, 1, k - 1)
               b == <<token[k]>>
    <2>2. c \in Seq(Characters) /\ a \in Seq(Characters) /\ b \in Seq(Characters)
      BY <1>1, <2>1 DEF Text
    <2> HIDE DEF a, b, c
    <2>3. (c \o a) \o b = c \o (a \o b)
      BY <2>2, ConcatLaws
    <2> QED  BY <2>1, <2>3 DEF a, b, c
  <1>3. Upto(0) = s.current /\ Upto(L) = s.current \o token
    <2>1. 1 \in 1 .. Len(token)
      BY <1>1
    <2>2. SubSeq(token, 1, 0) = <<>> /\ SubSeq(token, 1, L) = token
      BY <2>1, OneMore DEF Text
    <2>3. s.current \o <<>> = s.current
      BY <1>1, ConcatLaws DEF Text
    <2> QED  BY <2>2, <2>3
  <1>4. \A k \in 1 .. L : /\ state[n + k] = SplitChar(state[n + (k - 1)], token[k])
                          /\ state[n + k] \in SplitStates
    BY NextSplit
  <1> HIDE DEF L, s, Upto
  <1>5. 0 \in U
    <2>1. 1 \in 1 .. L /\ n + (1 - 1) = n /\ n + (0 + 1) = n + 1 /\ 0 \in 0 .. L - 2 /\ 0 + 1 = 1
      BY <1>1
    <2> DEFINE t == state[n + 1]
    <2>2. t = SplitChar(s, "[") /\ t \in SplitStates
      <3>1. state[n + 1] = SplitChar(state[n + (1 - 1)], token[1]) /\ state[n + 1] \in SplitStates
        BY <1>4, <2>1
      <3> QED  BY <1>1, <2>1, <3>1 DEF s
    <2> HIDE DEF t
    <2>3. t = [Put(s, <<"[">>) EXCEPT !.bracket = TRUE]
      BY <1>1, <2>2 DEF SplitChar
    <2>4. /\ ~t.escaped /\ t.bracket /\ t.depth = depth
          /\ t.done = s.done /\ t.current = s.current \o <<"[">>
      BY <1>1, <2>3 DEF Put, SplitStates
    <2>5. Upto(1) = s.current \o <<"[">>
      <3>1. Upto(1) = Upto(1 - 1) \o <<token[1]>> /\ 1 - 1 = 0
        BY <1>2, <2>1
      <3> QED  BY <1>1, <1>3, <3>1
    <2>6. Inside(t, 1)
      BY <2>2, <2>4, <2>5
    <2> QED  BY <2>1, <2>6 DEF t
  <1>6. ASSUME NEW k \in 1 .. L - 2, k - 1 \in U PROVE k \in U
    <2> DEFINE t == state[n + k]
               u == state[n + (k + 1)]
               ch == token[k + 1]
    <2>1. /\ k + 1 \in 2 .. L - 1 /\ k + 1 \in 1 .. L /\ k \in 0 .. L - 2
          /\ (k + 1) - 1 = k /\ (k - 1) + 1 = k
      BY <1>1
    <2>2. u = SplitChar(t, ch) /\ u \in SplitStates
      BY <1>4, <2>1
    <2>3. Inside(t, k)
      BY <1>6, <2>1
    <2>4. ch \notin {"\\", "[", "]"}
      BY <1>1, <2>1
    <2>5. Upto(k + 1) = Upto(k) \o <<ch>>
      BY <1>2, <2>1
    <2> HIDE DEF t, u, ch
    <2>6. u = Put(t, <<ch>>)
      BY <2>2, <2>3, <2>4 DEF SplitChar
    <2>7. /\ ~u.escaped /\ u.bracket /\ u.depth = depth
          /\ u.done = s.done /\ u.current = Upto(k) \o <<ch>>
      BY <2>3, <2>6 DEF Put, SplitStates
    <2>8. Inside(u, k + 1)
      BY <2>2, <2>5, <2>7
    <2> QED  BY <2>1, <2>8 DEF u
  <1>7. L - 2 \in U
    <2>1. L - 2 \in Nat /\ U \in SUBSET (0 .. L - 2)
      BY <1>1
    <2> HIDE DEF U
    <2>2. U = 0 .. L - 2
      BY <1>5, <1>6, <2>1, UpToInduction
    <2> QED  BY <2>1, <2>2
  <1> DEFINE t == state[n + (L - 1)]
             u == state[n + L]
  <1>8. Inside(t, L - 1)
    <2>1. (L - 2) + 1 = L - 1
      BY <1>1
    <2> QED  BY <1>7, <2>1
  <1>9. u = SplitChar(t, "]") /\ u \in SplitStates
    <2>1. L \in 1 .. L
      BY <1>1
    <2> QED  BY <1>1, <1>4, <2>1
  <1>10. Upto(L) = Upto(L - 1) \o <<"]">>
    <2>1. L \in 1 .. L
      BY <1>1
    <2> QED  BY <1>1, <1>2, <2>1
  <1> HIDE DEF t, u
  <1>11. u = [Put(t, <<"]">>) EXCEPT !.bracket = FALSE]
    BY <1>8, <1>9 DEF SplitChar
  <1>12. /\ ~u.escaped /\ ~u.bracket /\ u.depth = depth
         /\ u.done = s.done /\ u.current = Upto(L - 1) \o <<"]">>
    BY <1>8, <1>11 DEF Put, SplitStates
  <1> QED  BY <1>3, <1>9, <1>10, <1>12 DEF Outside, L, s, u

LEMMA NothingIsTaken ==
    ASSUME NEW pattern \in Text, NEW state, NEW depth
    PROVE  Takes(state, pattern, <<>>, depth, depth)
PROOF
  <1> SUFFICES ASSUME NEW n \in Nat, Outside(state[n], depth)
               PROVE  /\ Outside(state[n + 0], depth)
                      /\ state[n + 0].done = state[n].done
                      /\ state[n + 0].current = state[n].current \o <<>>
    BY DEF Takes
  <1> DEFINE c == state[n].current
  <1>1. n + 0 = n
    OBVIOUS
  <1>2. c \in Seq(Characters)
    BY DEF Outside, SplitStates, Text
  <1> HIDE DEF c
  <1>3. c \o <<>> = c
    BY <1>2, ConcatLaws
  <1> QED  BY <1>1, <1>3 DEF c

LEMMA BothAreTaken ==
    ASSUME NEW pattern \in Text, NEW state, NEW d1, NEW d2, NEW d3, NEW a \in Text, NEW b \in Text,
           Takes(state, pattern, a, d1, d2), Takes(state, pattern, b, d2, d3)
    PROVE  a \o b \in Text /\ Takes(state, pattern, a \o b, d1, d3)
PROOF
  <1> DEFINE ab == a \o b
  <1>1. ab \in Text /\ Len(ab) = Len(a) + Len(b) /\ Len(a) \in Nat /\ Len(b) \in Nat
    BY DEF Text
  <1> SUFFICES ASSUME NEW n \in Nat, Has(pattern, n, ab), Outside(state[n], d1)
               PROVE  /\ Outside(state[n + Len(ab)], d3)
                      /\ state[n + Len(ab)].done = state[n].done
                      /\ state[n + Len(ab)].current = state[n].current \o ab
    BY <1>1 DEF Takes
  <1> DEFINE c == state[n].current
             m == n + Len(a)
  <1>2. Has(pattern, n, a) /\ Has(pattern, m, b)
    BY HasBoth DEF Text
  <1>3. m \in Nat /\ n + Len(ab) = m + Len(b)
    BY <1>1
  <1>4. c \in Seq(Characters) /\ a \in Seq(Characters) /\ b \in Seq(Characters)
    BY DEF Outside, SplitStates, Text
  <1> HIDE DEF c, m, ab
  <1>5. Outside(state[m], d2) /\ state[m].done = state[n].done /\ state[m].current = c \o a
    BY <1>2 DEF Takes, c, m
  <1>6. /\ Outside(state[m + Len(b)], d3) /\ state[m + Len(b)].done = state[m].done
        /\ state[m + Len(b)].current = state[m].current \o b
    BY <1>2, <1>3, <1>5 DEF Takes
  <1>7. (c \o a) \o b = c \o (a \o b)
    BY <1>4, ConcatLaws
  <1> QED  BY <1>3, <1>5, <1>6, <1>7 DEF c, ab

LEMMA JoinedIsTaken ==
    ASSUME NEW pattern \in Text, NEW state, NEW depth, NEW seqs \in Seq(Text),
           \A k \in 1 .. Len(seqs) : Takes(state, pattern, seqs[k], depth, depth)
    PROVE  FlattenSeq(seqs) \in Text /\ Takes(state, pattern, FlattenSeq(seqs), depth, depth)
PROOF
  <1> DEFINE N == Len(seqs)
  <1>1. PICK joined \in [0 .. N -> Text] : Joins(joined, seqs)
    BY FlattenJoins DEF Text
  <1> DEFINE U == {m \in 0 .. N : Takes(state, pattern, joined[m], depth, depth)}
  <1>2. N \in Nat /\ \A k \in 1 .. N : seqs[k] \in Text
    OBVIOUS
  <1> HIDE DEF N
  <1>3. 0 \in U
    BY <1>1, <1>2, NothingIsTaken DEF Joins
  <1>4. ASSUME NEW k \in 1 .. N, k - 1 \in U PROVE k \in U
    <2>1. k \in 0 .. N /\ k - 1 \in 0 .. N
      BY <1>2
    <2>2. joined[k] = joined[k - 1] \o seqs[k] /\ joined[k - 1] \in Text /\ seqs[k] \in Text
      BY <1>1, <1>2, <2>1 DEF Joins, N
    <2>3. Takes(state, pattern, joined[k - 1] \o seqs[k], depth, depth)
      BY <1>4, <2>2, BothAreTaken DEF N
    <2> QED  BY <2>1, <2>2, <2>3
  <1>5. U = 0 .. N
    <2>1. U \in SUBSET (0 .. N)
      OBVIOUS
    <2> HIDE DEF U
    <2> QED  BY <1>2, <1>3, <1>4, <2>1, UpToInduction
  <1>6. N \in 0 .. N /\ joined[N] = FlattenSeq(seqs)
    BY <1>1, <1>2 DEF Joins, N
  <1> QED  BY <1>1, <1>5, <1>6

\* The written regex is a text.
LEMMA AtomTypes ==
    ASSUME NEW atom \in Atoms \cup Runs
    PROVE  /\ atom.tokens \in Seq(Text) /\ atom.group \in BOOLEAN /\ atom.texts \in SUBSET Text
           /\ \A k \in 1 .. Len(atom.tokens) :
                 LET token == atom.tokens[k]
                 IN  \/ IsSingle(token) \/ IsEscape(token) \/ IsClass(token)
                     \/ atom.group /\ token = <<"|">>
PROOF
  <1>1. /\ atom \in [tokens : Seq(Seq(STRING)), group : BOOLEAN, texts : SUBSET Seq(STRING)]
        /\ \A token \in ToSet(atom.tokens) :
              IsSingle(token) \/ IsEscape(token) \/ IsClass(token) \/ (atom.group /\ token = <<"|">>)
    BY AtomsAssumption
  <1>2. atom.tokens \in Seq(Seq(STRING)) /\ atom.group \in BOOLEAN /\ atom.texts \in SUBSET Seq(STRING)
    BY <1>1
  <1>3. ASSUME NEW text \in Seq(STRING), ToSet(text) \subseteq Characters PROVE text \in Text
    <2>1. Len(text) \in Nat /\ text \in [1 .. Len(text) -> STRING]
      BY <1>3
    <2>2. \A n \in 1 .. Len(text) : text[n] \in Characters
      BY <1>3, <2>1 DEF ToSet
    <2>3. text \in [1 .. Len(text) -> Characters]
      BY <2>1, <2>2
    <2> QED  BY <2>1, <2>3 DEF Text
  <1>4. DOMAIN atom.tokens = 1 .. Len(atom.tokens) /\ Len(atom.tokens) \in Nat
        /\ \A k \in 1 .. Len(atom.tokens) : atom.tokens[k] \in Seq(STRING)
    BY <1>2
  <1>5. \A k \in 1 .. Len(atom.tokens) : atom.tokens[k] \in ToSet(atom.tokens)
    BY <1>4 DEF ToSet
  <1>6. atom.tokens \in Seq(Text)
    <2>1. ASSUME NEW k \in 1 .. Len(atom.tokens) PROVE atom.tokens[k] \in Text
      <3>1. atom.tokens[k] \in Tokens
        BY <1>5 DEF Tokens
      <3>2. ToSet(atom.tokens[k]) \subseteq Characters
        BY <3>1 DEF Characters
      <3> QED  BY <1>3, <1>4, <3>2
    <2>2. atom.tokens \in [1 .. Len(atom.tokens) -> Text]
      BY <1>2, <1>4, <2>1
    <2> QED  BY <1>4, <2>2
  <1>7. atom.texts \in SUBSET Text
    <2> SUFFICES ASSUME NEW text \in atom.texts PROVE text \in Text
      OBVIOUS
    <2>1. text \in Matched
      BY DEF Matched
    <2>2. ToSet(text) \subseteq Characters
      BY <2>1 DEF Characters
    <2> QED  BY <1>2, <1>3, <2>2
  <1> QED  BY <1>1, <1>2, <1>5, <1>6, <1>7

LEMMA TokensAreTaken ==
    ASSUME NEW pattern \in Text, NEW state, IsSplitScan(state, pattern),
           NEW atom \in Atoms \cup Runs, NEW depth \in Nat, atom.group => depth > 0
    PROVE  /\ FlattenSeq(atom.tokens) \in Text
           /\ Takes(state, pattern, FlattenSeq(atom.tokens), depth, depth)
PROOF
  <1>1. atom.tokens \in Seq(Text)
    BY AtomTypes
  <1>2. ASSUME NEW k \in 1 .. Len(atom.tokens)
        PROVE  Takes(state, pattern, atom.tokens[k], depth, depth)
    <2> DEFINE token == atom.tokens[k]
    <2>1. token \in Text
      BY <1>1
    <2>2. IsSingle(token) \/ IsEscape(token) \/ IsClass(token) \/ (atom.group /\ token = <<"|">>)
      BY AtomTypes
    <2> HIDE DEF token
    <2>3. Takes(state, pattern, token, depth, depth)
      BY <2>1, <2>2, SingleIsTaken, EscapeIsTaken, ClassIsTaken
    <2> QED  BY <2>3 DEF token
  <1> QED  BY <1>1, <1>2, JoinedIsTaken

\* An opening parenthesis goes one level down, a closing one comes back.
LEMMA OpenIsTaken ==
    ASSUME NEW pattern \in Text, NEW state, IsSplitScan(state, pattern)
    PROVE  <<"(">> \in Text /\ Takes(state, pattern, <<"(">>, 0, 1)
PROOF
  <1> DEFINE open == <<"(">>
  <1>1. open \in Text /\ Len(open) = 1 /\ open[1] = "("
    <2>1. "(" \in Characters
      BY DEF Characters
    <2> QED  BY <2>1 DEF Text
  <1> HIDE DEF open
  <1>2. ASSUME NEW n \in Nat, Has(pattern, n, open), Outside(state[n], 0)
        PROVE  /\ Outside(state[n + 1], 1)
               /\ state[n + 1].done = state[n].done
               /\ state[n + 1].current = state[n].current \o <<"(">>
    <2> DEFINE s == state[n]
               t == state[n + 1]
    <2>1. t = SplitChar(s, "(") /\ t \in SplitStates
      <3>1. 1 \in 1 .. Len(open) /\ n + (1 - 1) = n
        BY <1>1
      <3>2. \A k \in 1 .. Len(open) :
               state[n + k] = SplitChar(state[n + (k - 1)], open[k]) /\ state[n + k] \in SplitStates
        BY <1>1, <1>2, NextSplit
      <3>3. state[n + 1] = SplitChar(state[n + (1 - 1)], open[1]) /\ state[n + 1] \in SplitStates
        BY <3>1, <3>2
      <3> QED  BY <1>1, <3>1, <3>3
    <2>2. s \in SplitStates /\ ~s.escaped /\ ~s.bracket /\ s.depth = 0
      BY <1>2 DEF Outside
    <2> HIDE DEF s, t
    <2>3. t = [Put(s, <<"(">>) EXCEPT !.depth = @ + 1]
      BY <2>1, <2>2 DEF SplitChar
    <2>4. ~t.escaped /\ ~t.bracket /\ t.depth = 1 /\ t.done = s.done /\ t.current = s.current \o <<"(">>
      BY <2>2, <2>3 DEF Put, SplitStates
    <2> QED  BY <2>1, <2>4 DEF Outside, s, t
  <1>3. Takes(state, pattern, open, 0, 1)
    BY <1>1, <1>2 DEF Takes, open
  <1> QED  BY <1>1, <1>3 DEF open

LEMMA CloseIsTaken ==
    ASSUME NEW pattern \in Text, NEW state, IsSplitScan(state, pattern)
    PROVE  <<")">> \in Text /\ Takes(state, pattern, <<")">>, 1, 0)
PROOF
  <1> DEFINE close == <<")">>
  <1>1. close \in Text /\ Len(close) = 1 /\ close[1] = ")"
    <2>1. ")" \in Characters
      BY DEF Characters
    <2> QED  BY <2>1 DEF Text
  <1> HIDE DEF close
  <1>2. ASSUME NEW n \in Nat, Has(pattern, n, close), Outside(state[n], 1)
        PROVE  /\ Outside(state[n + 1], 0)
               /\ state[n + 1].done = state[n].done
               /\ state[n + 1].current = state[n].current \o <<")">>
    <2> DEFINE s == state[n]
               t == state[n + 1]
    <2>1. t = SplitChar(s, ")") /\ t \in SplitStates
      <3>1. 1 \in 1 .. Len(close) /\ n + (1 - 1) = n
        BY <1>1
      <3>2. \A k \in 1 .. Len(close) :
               state[n + k] = SplitChar(state[n + (k - 1)], close[k]) /\ state[n + k] \in SplitStates
        BY <1>1, <1>2, NextSplit
      <3>3. state[n + 1] = SplitChar(state[n + (1 - 1)], close[1]) /\ state[n + 1] \in SplitStates
        BY <3>1, <3>2
      <3> QED  BY <1>1, <3>1, <3>3
    <2>2. s \in SplitStates /\ ~s.escaped /\ ~s.bracket /\ s.depth = 1
      BY <1>2 DEF Outside
    <2> HIDE DEF s, t
    <2>3. t = [Put(s, <<")">>) EXCEPT !.depth = IF @ = 0 THEN 0 ELSE @ - 1]
      BY <2>1, <2>2 DEF SplitChar
    <2>4. ~t.escaped /\ ~t.bracket /\ t.depth = 0 /\ t.done = s.done /\ t.current = s.current \o <<")">>
      BY <2>2, <2>3 DEF Put, SplitStates
    <2> QED  BY <2>1, <2>4 DEF Outside, s, t
  <1>3. Takes(state, pattern, close, 1, 0)
    BY <1>1, <1>2 DEF Takes, close
  <1> QED  BY <1>1, <1>3 DEF close

LEMMA AtomIsTaken ==
    ASSUME NEW pattern \in Text, NEW state, IsSplitScan(state, pattern), NEW atom \in Atoms \cup Runs
    PROVE  WrittenAtom(atom) \in Text /\ Takes(state, pattern, WrittenAtom(atom), 0, 0)
PROOF
  <1>1. CASE ~atom.group
    <2>1. FlattenSeq(atom.tokens) \in Text /\ Takes(state, pattern, FlattenSeq(atom.tokens), 0, 0)
      BY <1>1, TokensAreTaken
    <2> QED  BY <1>1, <2>1 DEF WrittenAtom
  <1>2. CASE atom.group
    <2> DEFINE inner == FlattenSeq(atom.tokens)
               open == <<"(">>
               close == <<")">>
               opened == open \o inner
    <2>1. inner \in Text /\ Takes(state, pattern, inner, 1, 1)
      BY TokensAreTaken
    <2>2. open \in Text /\ Takes(state, pattern, open, 0, 1)
      BY OpenIsTaken
    <2>3. close \in Text /\ Takes(state, pattern, close, 1, 0)
      BY CloseIsTaken
    <2>4. /\ open \in Seq(Characters) /\ inner \in Seq(Characters) /\ close \in Seq(Characters)
          /\ WrittenAtom(atom) = <<"(">> \o inner \o <<")">>
      BY <1>2, <2>1, <2>2, <2>3 DEF WrittenAtom, Text
    <2>5. WrittenAtom(atom) = opened \o close
      BY <2>4
    <2> HIDE DEF inner, open, close
    <2>6. opened \in Text /\ Takes(state, pattern, opened, 0, 1)
      BY <2>1, <2>2, BothAreTaken
    <2> HIDE DEF opened
    <2>7. opened \o close \in Text /\ Takes(state, pattern, opened \o close, 0, 0)
      BY <2>3, <2>6, BothAreTaken
    <2> QED  BY <2>5, <2>7
  <1>3. atom.group \in BOOLEAN
    BY AtomTypes
  <1> QED  BY <1>1, <1>2, <1>3
\* A quantifier is a sign like any letter.
LEMMA PieceIsTaken ==
    ASSUME NEW pattern \in Text, NEW state, IsSplitScan(state, pattern), NEW piece \in Pieces
    PROVE  WrittenPiece(piece) \in Text /\ Takes(state, pattern, WrittenPiece(piece), 0, 0)
PROOF
  <1> DEFINE written == WrittenAtom(piece.atom)
             q == piece.quantifier
             sign == <<q>>
  <1>1. piece.atom \in Atoms \cup Runs /\ q \in {"", "?", "*", "+"}
    BY DecomposeAssumption DEF Pieces
  <1>2. written \in Text /\ Takes(state, pattern, written, 0, 0)
    BY <1>1, AtomIsTaken
  <1>3. CASE q = ""
    <2>1. WrittenPiece(piece) = written \o <<>>
      BY <1>3 DEF WrittenPiece
    <2> HIDE DEF written
    <2>2. written \o <<>> = written
      BY <1>2, ConcatLaws DEF Text
    <2> QED  BY <1>2, <2>1, <2>2
  <1>4. CASE q # ""
    <2>1. WrittenPiece(piece) = written \o sign
      BY <1>4 DEF WrittenPiece
    <2>2. sign \in Text /\ IsSingle(sign)
      <3>1. q \in Characters /\ q \notin {"\\", "[", "(", ")", "|"}
        BY <1>1, <1>4 DEF Characters
      <3> HIDE DEF q
      <3> QED  BY <3>1 DEF Text, IsSingle
    <2> HIDE DEF sign, written
    <2>3. Takes(state, pattern, sign, 0, 0)
      BY <2>2, SingleIsTaken
    <2> QED  BY <1>2, <2>1, <2>2, <2>3, BothAreTaken
  <1> QED  BY <1>3, <1>4

LEMMA BranchIsTaken ==
    ASSUME NEW pattern \in Text, NEW state, IsSplitScan(state, pattern), NEW branch \in Seq(Pieces)
    PROVE  WrittenBranch(branch) \in Text /\ Takes(state, pattern, WrittenBranch(branch), 0, 0)
PROOF
  <1> DEFINE seqs == [k \in 1 .. Len(branch) |-> WrittenPiece(branch[k])]
  <1>1. Len(branch) \in Nat /\ DOMAIN branch = 1 .. Len(branch)
        /\ \A k \in 1 .. Len(branch) : branch[k] \in Pieces
    OBVIOUS
  <1>2. \A k \in 1 .. Len(branch) :
           WrittenPiece(branch[k]) \in Text /\ Takes(state, pattern, WrittenPiece(branch[k]), 0, 0)
    BY <1>1, PieceIsTaken
  <1>3. seqs \in Seq(Text) /\ Len(seqs) = Len(branch)
    BY <1>1, <1>2
  <1>4. \A k \in 1 .. Len(seqs) : Takes(state, pattern, seqs[k], 0, 0)
    BY <1>2, <1>3
  <1>5. WrittenBranch(branch) = FlattenSeq(seqs)
    BY <1>1 DEF WrittenBranch
  <1> HIDE DEF seqs
  <1> QED  BY <1>3, <1>4, <1>5, JoinedIsTaken

\* A bar between two branches cuts.
LEMMA BarCuts ==
    ASSUME NEW pattern \in Text, NEW state, IsSplitScan(state, pattern), NEW n \in Nat,
           Has(pattern, n, <<"|">>), Outside(state[n], 0)
    PROVE  /\ Outside(state[n + 1], 0) /\ state[n + 1].current = <<>>
           /\ state[n + 1].done = Append(state[n].done, state[n].current)
PROOF
  <1> DEFINE bar == <<"|">>
  <1>1. bar \in Text /\ Len(bar) = 1 /\ bar[1] = "|"
    <2>1. "|" \in Characters
      BY DEF Characters
    <2> QED  BY <2>1 DEF Text
  <1>2. Has(pattern, n, bar)
    OBVIOUS
  <1> HIDE DEF bar
  <1> DEFINE s == state[n]
             t == state[n + 1]
  <1>3. t = SplitChar(s, "|") /\ t \in SplitStates
    <2>1. 1 \in 1 .. Len(bar) /\ n + (1 - 1) = n
      BY <1>1
    <2>2. \A k \in 1 .. Len(bar) :
             state[n + k] = SplitChar(state[n + (k - 1)], bar[k]) /\ state[n + k] \in SplitStates
      BY <1>1, <1>2, NextSplit
    <2>3. state[n + 1] = SplitChar(state[n + (1 - 1)], bar[1]) /\ state[n + 1] \in SplitStates
      BY <2>1, <2>2
    <2> QED  BY <1>1, <2>1, <2>3
  <1>4. s \in SplitStates /\ ~s.escaped /\ ~s.bracket /\ s.depth = 0
    BY DEF Outside
  <1> HIDE DEF s, t
  <1>5. t = [s EXCEPT !.done = Append(@, s.current), !.current = <<>>]
    BY <1>3, <1>4 DEF SplitChar
  <1>6. /\ ~t.escaped /\ ~t.bracket /\ t.depth = 0
        /\ t.done = Append(s.done, s.current) /\ t.current = <<>>
    BY <1>4, <1>5 DEF SplitStates
  <1> QED  BY <1>3, <1>6 DEF Outside, s, t

LEMMA WrittenSplits ==
    ASSUME regex \in Seq(Seq(Pieces)), regex # <<>>
    PROVE  SplitTopLevel(Written) = [k \in DOMAIN regex |-> WrittenBranch(regex[k])]
PROOF
  <1> DEFINE N == Len(regex)
             B == [k \in 1 .. N |-> WrittenBranch(regex[k])]
             parts == [k \in 1 .. N |-> (IF k = 1 THEN <<>> ELSE <<"|">>) \o WrittenBranch(regex[k])]
             pattern == FlattenSeq(parts)
             state == SplitUpTo(pattern)
  <1>1. N \in Nat /\ N # 0 /\ DOMAIN regex = 1 .. N /\ \A k \in 1 .. N : regex[k] \in Seq(Pieces)
    BY EmptySeq
  <1>2. \A k \in 1 .. N : WrittenBranch(regex[k]) \in Text
    <2> DEFINE none == <<>>
    <2>1. none \in Text
      BY DEF Text
    <2>2. IsSplitScan(SplitUpTo(none), none)
      BY <2>1, SplitScan
    <2> HIDE DEF none
    <2> QED  BY <1>1, <2>1, <2>2, BranchIsTaken
  <1>3. B \in Seq(Text) /\ Len(B) = N /\ \A k \in 1 .. N : B[k] = WrittenBranch(regex[k]) /\ B[k] \in Text
    BY <1>1, <1>2
  <1>4. parts \in Seq(Text) /\ Len(parts) = N
    <2>1. ASSUME NEW k \in 1 .. N
          PROVE  ((IF k = 1 THEN <<>> ELSE <<"|">>) \o WrittenBranch(regex[k])) \in Text
      <3>1. "|" \in Characters
        BY DEF Characters
      <3>2. <<>> \in Seq(Characters) /\ <<"|">> \in Seq(Characters) /\ WrittenBranch(regex[k]) \in Seq(Characters)
        BY <1>2, <3>1 DEF Text
      <3> QED  BY <3>2 DEF Text
    <2> QED  BY <1>1, <2>1
  <1>5. Written = pattern
    BY <1>1 DEF Written
  <1>6. PICK joined \in [0 .. N -> Text] : Joins(joined, parts)
    BY <1>4, FlattenJoins DEF Text
  <1>7. parts[1] = <<>> \o B[1] /\ \A k \in 2 .. N : parts[k] = <<"|">> \o B[k]
    <2>1. 1 \in 1 .. N /\ \A k \in 2 .. N : k \in 1 .. N /\ k # 1
      BY <1>1
    <2> QED  BY <2>1, <1>3
  <1> HIDE DEF N, B, parts
  <1>8. \A m \in 1 .. N : /\ m \in 0 .. N /\ m - 1 \in 0 .. N
                          /\ joined[m] \in Text /\ joined[m - 1] \in Text /\ parts[m] \in Text
                          /\ joined[m] = joined[m - 1] \o parts[m]
                          /\ Has(pattern, Len(joined[m - 1]), parts[m])
    <2>1. \A m \in 1 .. N : m \in 0 .. N /\ m - 1 \in 0 .. N
      BY <1>1
    <2>2. \A m \in 1 .. N : joined[m] \in Text /\ joined[m - 1] \in Text
      BY <1>6, <2>1
    <2>3. \A m \in 1 .. N : parts[m] \in Text
      BY <1>4
    <2>4. \A m \in 1 .. N : joined[m] = joined[m - 1] \o parts[m]
                          /\ Has(pattern, Len(joined[m - 1]), parts[m])
      BY <1>4, <1>6 DEF Joins
    <2> QED  BY <2>1, <2>2, <2>3, <2>4
  <1>9. pattern = joined[N] /\ pattern \in Text /\ joined[0] = <<>>
    BY <1>1, <1>4, <1>6 DEF Joins
  <1> HIDE DEF pattern
  <1>10. IsSplitScan(state, pattern)
    BY <1>9, SplitScan
  <1> HIDE DEF state
  <1> DEFINE At(m) == state[Len(joined[m])]
             Right(m) == Outside(At(m), 0) /\ At(m).done = SubSeq(B, 1, m - 1) /\ At(m).current = B[m]
             U == {m \in 0 .. N : m = 0 \/ Right(m)}
  <1>11. ASSUME NEW m \in 1 .. N, NEW n \in Nat, Has(pattern, n, B[m]), Outside(state[n], 0),
                state[n].current = <<>>, state[n].done = SubSeq(B, 1, m - 1),
                n + Len(B[m]) = Len(joined[m])
         PROVE  Right(m)
    <2> DEFINE b == B[m]
               u == state[n + Len(b)]
    <2>1. b \in Text /\ Takes(state, pattern, b, 0, 0)
      <3>1. Takes(state, pattern, WrittenBranch(regex[m]), 0, 0)
        BY <1>1, <1>9, <1>10, BranchIsTaken
      <3> QED  BY <1>3, <3>1
    <2>2. Outside(u, 0) /\ u.done = state[n].done /\ u.current = state[n].current \o b
      <3> HIDE DEF b
      <3>1. Has(pattern, n, b)
        BY <1>11 DEF b
      <3> QED  BY <1>11, <2>1, <3>1 DEF Takes
    <2>3. <<>> \o b = b
      BY <2>1, ConcatLaws DEF Text
    <2>4. u = At(m)
      BY <1>11
    <2> HIDE DEF b, u
    <2>5. u.current = b
      BY <1>11, <2>2, <2>3
    <2>6. At(m).current = B[m] /\ Outside(At(m), 0) /\ At(m).done = SubSeq(B, 1, m - 1)
      <3> HIDE DEF At
      <3>1. b = B[m]
        BY DEF b
      <3> QED  BY <1>11, <2>2, <2>4, <2>5, <3>1
    <2> QED  BY <2>6
  <1>12. 1 \in U
    <2>1. 1 \in 1 .. N /\ 1 - 1 = 0 /\ 1 \in 0 .. N
      BY <1>1
    <2>2. Len(joined[0]) = 0 /\ 0 + Len(B[1]) = Len(B[1]) /\ Len(B[1]) \in Nat
      BY <1>3, <1>9, <2>1 DEF Text
    <2>3. <<>> \o B[1] = B[1]
      BY <1>3, <2>1, ConcatLaws DEF Text
    <2>4. parts[1] = B[1] /\ joined[1] = B[1]
      <3>1. joined[1] = <<>> \o parts[1]
        BY <1>8, <1>9, <2>1
      <3> QED  BY <1>7, <2>3, <3>1
    <2>5. Has(pattern, 0, B[1])
      <3>1. Has(pattern, Len(joined[1 - 1]), parts[1])
        BY <1>8, <2>1
      <3> QED  BY <2>1, <2>2, <2>4, <3>1
    <2>6. Outside(state[0], 0) /\ state[0].current = <<>> /\ state[0].done = <<>>
      <3>1. state[0] = Split0 /\ state[0] \in SplitStates
        <4>1. 0 \in 0 .. Len(pattern)
          BY <1>9 DEF Text
        <4> QED  BY <1>10, <4>1 DEF IsSplitScan
      <3> QED  BY <3>1 DEF Split0, Outside
    <2>7. SubSeq(B, 1, 1 - 1) = <<>>
      <3>1. 1 \in 1 .. Len(B)
        BY <1>3, <2>1
      <3>2. SubSeq(B, 1, 0) = <<>>
        BY <1>3, <3>1, OneMore
      <3> QED  BY <2>1, <3>2
    <2>8. Right(1)
      <3> HIDE DEF Right
      <3> QED  BY <1>11, <2>1, <2>2, <2>4, <2>5, <2>6, <2>7
    <2> QED  BY <2>1, <2>8
  <1>13. ASSUME NEW k \in 1 .. N, k - 1 \in U PROVE k \in U
    <2>1. CASE k = 1
      BY <1>12, <2>1
    <2>2. CASE k # 1
      <3> DEFINE l == k - 1
                 n == Len(joined[l])
                 b == B[k]
                 bar == <<"|">>
      <3>1. k \in 2 .. N /\ l \in 1 .. N /\ l # 0 /\ k \in 0 .. N
        BY <1>1, <2>2
      <3>2. bar \in Seq(Characters) /\ Len(bar) = 1
        <4>1. "|" \in Characters
          BY DEF Characters
        <4> QED  BY <4>1
      <3>3. parts[k] = bar \o b /\ b \in Seq(Characters) /\ joined[l] \in Seq(Characters) /\ pattern \in Seq(Characters)
        BY <1>3, <1>7, <1>8, <1>9, <3>1 DEF Text
      <3> HIDE DEF bar, b
      <3>4. n \in Nat /\ Len(b) \in Nat /\ Len(bar \o b) = 1 + Len(b) /\ n + 1 \in Nat
        <4>1. n \in Nat /\ Len(b) \in Nat
          BY <3>3
        <4>2. Len(bar \o b) = Len(bar) + Len(b)
          BY <3>2, <3>3, ConcatProperties
        <4> HIDE DEF n
        <4> QED  BY <3>2, <4>1, <4>2
      <3>5. Len(joined[k]) = n + Len(parts[k])
        <4>1. joined[k] = joined[l] \o parts[k] /\ joined[l] \in Seq(Characters) /\ parts[k] \in Seq(Characters)
          BY <1>8 DEF Text
        <4> HIDE DEF l
        <4> QED  BY <4>1, ConcatLaws
      <3>6. (n + 1) + Len(b) = Len(joined[k])
        <4>1. Len(joined[k]) = n + (1 + Len(b))
          BY <3>3, <3>4, <3>5
        <4> HIDE DEF n
        <4> QED  BY <3>4, <4>1
      <3>7. Has(pattern, n, bar) /\ Has(pattern, n + 1, b)
        <4>1. Has(pattern, n, bar \o b)
          BY <1>8, <3>3
        <4> HIDE DEF n
        <4> QED  BY <3>2, <3>3, <3>4, <4>1, HasBoth
      <3>8. Right(l)
        <4>1. l \in U
          BY <1>13
        <4> HIDE DEF Right, l
        <4> QED  BY <3>1, <4>1
      <3>9. /\ Outside(state[n + 1], 0) /\ state[n + 1].current = <<>>
            /\ state[n + 1].done = Append(state[n].done, state[n].current)
        <4>1. Has(pattern, n, <<"|">>) /\ Outside(state[n], 0)
          BY <3>7, <3>8 DEF bar
        <4> HIDE DEF n
        <4> QED  BY <1>9, <1>10, <3>4, <4>1, BarCuts
      <3>10. Append(SubSeq(B, 1, l - 1), B[l]) = SubSeq(B, 1, l)
        <4> HIDE DEF l
        <4>1. l \in 1 .. Len(B) /\ B[l] \in Text
          BY <1>3, <3>1
        <4>2. SubSeq(B, 1, l - 1) \in Seq(Text) /\ SubSeq(B, 1, l) = SubSeq(B, 1, l - 1) \o <<B[l]>>
          BY <1>3, <4>1, OneMore
        <4> QED  BY <4>1, <4>2, AppendIsConcat
      <3>11. state[n + 1].done = SubSeq(B, 1, k - 1)
        BY <3>8, <3>9, <3>10
      <3>12. Right(k)
        <4>1. Has(pattern, n + 1, B[k]) /\ (n + 1) + Len(B[k]) = Len(joined[k])
          BY <3>6, <3>7 DEF b
        <4> HIDE DEF n, Right
        <4> QED  BY <1>11, <3>4, <3>9, <3>11, <4>1
      <3> QED  BY <3>1, <3>12
    <2> QED  BY <2>1, <2>2
  <1>14. U = 0 .. N
    <2>1. U \in SUBSET (0 .. N) /\ 0 \in U
      BY <1>1
    <2> HIDE DEF U
    <2> QED  BY <1>1, <1>13, <2>1, UpToInduction
  <1>15. Right(N)
    <2>1. N \in U
      <3> HIDE DEF U
      <3> QED  BY <1>1, <1>14
    <2> HIDE DEF Right
    <2> QED  BY <1>1, <2>1
  <1> DEFINE end == state[Len(pattern)]
  <1>16. ~end.escaped /\ end.done = SubSeq(B, 1, N - 1) /\ end.current = B[N]
    BY <1>9, <1>15 DEF Outside
  <1>17. SplitTopLevel(pattern) = Append(end.done, end.current \o (IF end.escaped THEN <<"\\">> ELSE <<>>))
    BY DEF SplitTopLevel, state
  <1>18. Append(SubSeq(B, 1, N - 1), B[N] \o <<>>) = B
    <2>1. N \in 1 .. Len(B) /\ B[N] \in Text /\ N = Len(B)
      BY <1>1, <1>3
    <2>2. B[N] \o <<>> = B[N]
      BY <2>1, ConcatLaws DEF Text
    <2>3. /\ SubSeq(B, 1, N - 1) \in Seq(Text) /\ SubSeq(B, 1, N) = SubSeq(B, 1, N - 1) \o <<B[N]>>
          /\ SubSeq(B, 1, Len(B)) = B
      BY <1>3, <2>1, OneMore
    <2> QED  BY <2>1, <2>2, <2>3, AppendIsConcat
  <1>19. SplitTopLevel(pattern) = B
    <2> HIDE DEF end
    <2> QED  BY <1>16, <1>17, <1>18
  <1>20. B = [k \in DOMAIN regex |-> WrittenBranch(regex[k])]
    BY <1>1 DEF B
  <1> QED  BY <1>5, <1>19, <1>20

-----------------------------------------------------------------------------
(* The literals, a character at a time.                                    *)

Literal == {text \in Text : Len(text) >= 3}
ExtractStates ==
    [found : Seq(Literal), current : Text, escaped : BOOLEAN, bracket : BOOLEAN]

LEMMA FlushTypes ==
    ASSUME NEW s \in ExtractStates
    PROVE  /\ Flush(s) \in ExtractStates
           /\ Flush(s).current = <<>>
           /\ Flush(s).escaped = s.escaped /\ Flush(s).bracket = s.bracket
           /\ Flush(s).found \in {s.found, Append(s.found, s.current)}
PROOF
  <1>1. /\ s.found \in Seq(Literal) /\ s.current \in Text
        /\ s.escaped \in BOOLEAN /\ s.bracket \in BOOLEAN
    BY DEF ExtractStates
  <1>2. <<>> \in Text
    BY DEF Text
  <1> DEFINE more == IF Len(s.current) >= 3 THEN Append(s.found, s.current) ELSE s.found
  <1>3. more \in Seq(Literal) /\ more \in {s.found, Append(s.found, s.current)}
    <2>1. CASE Len(s.current) >= 3
      <3>1. s.current \in Literal
        BY <1>1, <2>1 DEF Literal
      <3> QED  BY <1>1, <2>1, <3>1, AppendProperties
    <2>2. CASE ~(Len(s.current) >= 3)
      BY <1>1, <2>2
    <2> QED  BY <2>1, <2>2
  <1>4. Flush(s) = [s EXCEPT !.found = more, !.current = <<>>]
    BY DEF Flush
  <1> HIDE DEF more
  <1>5. Flush(s) \in ExtractStates /\ Flush(s).current = <<>> /\ Flush(s).found = more
    BY <1>1, <1>2, <1>3, <1>4 DEF ExtractStates
  <1>6. Flush(s).escaped = s.escaped /\ Flush(s).bracket = s.bracket
    BY <1>1, <1>4 DEF ExtractStates
  <1> QED  BY <1>3, <1>5, <1>6

LEMMA ExtractTypes ==
    ASSUME NEW s \in ExtractStates, NEW ch \in Characters
    PROVE  ExtractChar(s, ch) \in ExtractStates
PROOF
  <1>1. <<ch>> \in Text
    BY DEF Text
  <1>2. ASSUME NEW t \in ExtractStates PROVE Put(t, <<ch>>) \in ExtractStates
    <2>1. t.current \o <<ch>> \in Text
      BY <1>1 DEF Text, ExtractStates
    <2> QED  BY <2>1 DEF Put, ExtractStates
  <1>3. ASSUME NEW t \in ExtractStates, NEW b \in BOOLEAN
        PROVE  [t EXCEPT !.bracket = b] \in ExtractStates /\ [t EXCEPT !.escaped = b] \in ExtractStates
    BY DEF ExtractStates
  <1>4. CASE s.escaped
    <2> DEFINE t == [s EXCEPT !.escaped = FALSE]
    <2>1. t \in ExtractStates
      BY <1>3
    <2>2. ExtractChar(s, ch) =
            IF s.bracket THEN t ELSE IF ch \in Shorthands THEN Flush(t) ELSE Put(t, <<ch>>)
      BY <1>4 DEF ExtractChar
    <2> HIDE DEF t
    <2> QED  BY <1>2, <2>1, <2>2, FlushTypes
  <1>5. CASE ~s.escaped
    <2>1. CASE ch = "\\"
      BY <1>3, <1>5, <2>1 DEF ExtractChar
    <2>2. CASE ch # "\\" /\ s.bracket
      <3>1. ExtractChar(s, ch) = [s EXCEPT !.bracket = (ch # "]")]
        BY <1>5, <2>2 DEF ExtractChar
      <3> QED  BY <1>3, <3>1
    <2>3. CASE ch # "\\" /\ ~s.bracket
      <3>1. Flush(s) \in ExtractStates /\ [Flush(s) EXCEPT !.bracket = TRUE] \in ExtractStates
        BY <1>3, FlushTypes
      <3>2. ExtractChar(s, ch) =
              IF ch = "[" THEN [Flush(s) EXCEPT !.bracket = TRUE]
              ELSE IF ch \in Metas THEN Flush(s) ELSE Put(s, <<ch>>)
        BY <1>5, <2>3 DEF ExtractChar
      <3> QED  BY <1>2, <3>1, <3>2
    <2> QED  BY <2>1, <2>2, <2>3
  <1> QED  BY <1>4, <1>5

IsExtractScan(state, branch) ==
    /\ state \in [0 .. Len(branch) -> ExtractStates]
    /\ state[0] = Extract0
    /\ \A n \in 1 .. Len(branch) : state[n] = ExtractChar(state[n - 1], branch[n])

LEMMA ExtractScan ==
    ASSUME NEW branch \in Text
    PROVE  IsExtractScan(ExtractUpTo(branch), branch)
PROOF
  <1> DEFINE N == Len(branch)
             S == ExtractStates
             base == Extract0
             step == [x \in S \X Nat |->
                        IF x[2] \in 1 .. N THEN ExtractChar(x[1], branch[x[2]]) ELSE x[1]]
             IsScan(f) == f = [n \in 0 .. Len(branch) |->
                                 IF n = 0 THEN Extract0 ELSE ExtractChar(f[n - 1], branch[n])]
  <1>1. N \in Nat /\ \A n \in 1 .. N : branch[n] \in Characters
    BY DEF Text
  <1>2. \A n \in 0 .. N : n = 0 \/ n \in 1 .. N
    <2> HIDE DEF N
    <2> QED  BY <1>1
  <1>3. step \in [S \X Nat -> S]
    <2> HIDE DEF S, N
    <2> QED  BY <1>1, ExtractTypes DEF S
  <1>4. base \in S
    BY DEF Extract0, ExtractStates, Text
  <1>5. PICK g \in [0 .. N -> S] : Computes(g, base, step, N)
    <2> HIDE DEF step, S, N, base
    <2> QED  BY <1>1, <1>3, <1>4, RecursionUpTo
  <1>6. ASSUME NEW n \in 0 .. N
        PROVE  g[n] = IF n = 0 THEN Extract0 ELSE ExtractChar(g[n - 1], branch[n])
    <2>1. CASE n = 0
      BY <1>5, <2>1 DEF Computes
    <2>2. CASE n # 0
      <3> HIDE DEF N, S
      <3>1. n \in 1 .. N /\ n - 1 \in 0 .. N /\ n \in Nat
        BY <1>1, <1>2, <2>2
      <3>2. g[n] = step[<<g[n - 1], n>>] /\ g[n - 1] \in S
        BY <1>5, <3>1 DEF Computes
      <3> QED  BY <2>2, <3>1, <3>2
    <2> QED  BY <2>1, <2>2
  <1>7. IsScan(g)
    <2> HIDE DEF S, step, base
    <2> QED  BY <1>5, <1>6
  <1> DEFINE f == CHOOSE f : IsScan(f)
  <1>8. IsScan(f)
    <2> HIDE DEF IsScan
    <2> QED  BY <1>7
  <1>9. ExtractUpTo(branch) = f
    BY DEF ExtractUpTo
  <1> HIDE DEF f, S, step, base
  <1>10. /\ DOMAIN f = 0 .. N
         /\ \A n \in 0 .. N : f[n] = IF n = 0 THEN Extract0 ELSE ExtractChar(f[n - 1], branch[n])
    BY <1>8
  <1> HIDE DEF IsScan, N
  <1> DEFINE U == {n \in 0 .. N : f[n] = g[n]}
  <1>11. U = 0 .. N
    <2>1. 0 \in U /\ U \in SUBSET (0 .. N)
      BY <1>1, <1>6, <1>10
    <2>2. ASSUME NEW k \in 1 .. N, k - 1 \in U PROVE k \in U
      <3>1. k \in 0 .. N /\ k # 0
        BY <1>1
      <3> QED  BY <1>6, <1>10, <2>2, <3>1
    <2> HIDE DEF U
    <2> QED  BY <1>1, <2>1, <2>2, UpToInduction
  <1>12. \A n \in 0 .. N : f[n] = g[n] /\ g[n] \in S
    BY <1>5, <1>11
  <1>13. f = [n \in 0 .. N |-> f[n]]
    BY <1>8, <1>10 DEF IsScan, N
  <1>14. f \in [0 .. N -> S]
    <2>1. \A n \in 0 .. N : f[n] \in S
      BY <1>12
    <2> QED  BY <1>13, <2>1
  <1>15. IsExtractScan(f, branch)
    <2>1. 0 \in 0 .. N /\ \A n \in 1 .. N : n \in 0 .. N /\ n # 0
      BY <1>1
    <2> QED  BY <1>10, <1>14, <2>1 DEF IsExtractScan, N, S
  <1> QED  BY <1>9, <1>15

LEMMA NextExtract ==
    ASSUME NEW branch \in Text, NEW state, IsExtractScan(state, branch),
           NEW part \in Text, NEW n \in Nat, Has(branch, n, part), NEW k \in 1 .. Len(part)
    PROVE  /\ state[n + k] = ExtractChar(state[n + (k - 1)], part[k])
           /\ state[n + k] \in ExtractStates /\ state[n + (k - 1)] \in ExtractStates
           /\ part[k] \in Characters
PROOF
  <1>1. Len(part) \in Nat /\ Len(branch) \in Nat /\ part[k] \in Characters
    BY DEF Text
  <1>2. /\ n + k \in 1 .. Len(branch) /\ (n + k) - 1 = n + (k - 1) /\ branch[n + k] = part[k]
        /\ n + k \in 0 .. Len(branch) /\ n + (k - 1) \in 0 .. Len(branch)
    BY <1>1 DEF Has
  <1> QED  BY <1>1, <1>2 DEF IsExtractScan

Within(text, part) == \E n \in Nat : Has(text, n, part)
Ends(text, part) == \E n \in Nat : n + Len(part) = Len(text) /\ Has(text, n, part)

\* Between two atoms: what is found is in the text matched so far, which ends
\* as the literal at hand.
Good(s, text) ==
    /\ s \in ExtractStates /\ ~s.escaped /\ ~s.bracket
    /\ text \in Text
    /\ \A k \in 1 .. Len(s.found) : Within(text, s.found[k])
    /\ Ends(text, s.current)

\* When the scan has read part, the text goes on with word, and the literal at
\* hand is among currents.
Reads(state, branch, part, word, currents) ==
    \A n \in Nat : \A text \in Text : Has(branch, n, part) /\ Good(state[n], text) =>
        Good(state[n + Len(part)], text \o word) /\ state[n + Len(part)].current \in currents

LEMMA StaysWithin ==
    ASSUME NEW text \in Text, NEW word \in Text, NEW part \in Text, Within(text, part)
    PROVE  text \o word \in Text /\ Within(text \o word, part)
PROOF
  <1> DEFINE longer == text \o word
  <1>1. PICK n \in Nat : Has(text, n, part)
    BY DEF Within
  <1>2. longer \in Text /\ Has(longer, 0, text)
    BY ConcatLaws DEF Text
  <1> HIDE DEF longer
  <1>3. Has(longer, 0 + n, part)
    BY <1>1, <1>2, HasWithin DEF Text
  <1>4. 0 + n = n
    OBVIOUS
  <1>5. Within(longer, part)
    BY <1>3, <1>4 DEF Within
  <1> QED  BY <1>2, <1>5 DEF longer

LEMMA FlushIsGood ==
    ASSUME NEW s, NEW text, Good(s, text)
    PROVE  Good(Flush(s), text) /\ Flush(s).current = <<>>
PROOF
  <1> DEFINE t == Flush(s)
  <1>1. /\ s \in ExtractStates /\ ~s.escaped /\ ~s.bracket /\ text \in Text
        /\ s.found \in Seq(Literal) /\ s.current \in Text
    BY DEF Good, ExtractStates
  <1>2. /\ t \in ExtractStates /\ t.current = <<>> /\ t.escaped = s.escaped
        /\ t.bracket = s.bracket /\ t.found \in {s.found, Append(s.found, s.current)}
    BY <1>1, FlushTypes
  <1> HIDE DEF t
  <1>3. Within(text, s.current)
    BY DEF Good, Ends, Within
  <1>4. ASSUME NEW k \in 1 .. Len(t.found) PROVE Within(text, t.found[k])
    <2>1. CASE t.found = s.found
      BY <2>1 DEF Good
    <2>2. CASE t.found = Append(s.found, s.current)
      <3>1. /\ Len(s.found) \in Nat /\ Len(t.found) = Len(s.found) + 1
            /\ \A m \in 1 .. Len(s.found) : t.found[m] = s.found[m]
            /\ t.found[Len(s.found) + 1] = s.current
        <4> DEFINE f == s.found
                   c == s.current
        <4>1. f \in Seq(Text)
          <5>1. Literal \subseteq Text
            BY DEF Literal
          <5> QED  BY <1>1, <5>1, SeqMonotonic
        <4>2. c \in Text
          BY <1>1
        <4> HIDE DEF f, c
        <4>3. /\ Len(f) \in Nat /\ Len(Append(f, c)) = Len(f) + 1
              /\ \A m \in 1 .. Len(f) : Append(f, c)[m] = f[m]
              /\ Append(f, c)[Len(f) + 1] = c
          BY <4>1, <4>2, AppendProperties
        <4> QED  BY <2>2, <4>3 DEF f, c
      <3>2. CASE k = Len(s.found) + 1
        BY <1>3, <3>1, <3>2
      <3>3. CASE k # Len(s.found) + 1
        <4>1. k \in 1 .. Len(s.found)
          BY <3>1, <3>3
        <4> QED  BY <3>1, <4>1 DEF Good
      <3> QED  BY <3>2, <3>3
    <2> QED  BY <1>2, <2>1, <2>2
  <1>5. Ends(text, t.current)
    <2>1. Len(text) \in Nat /\ Has(text, Len(text), <<>>) /\ Len(text) + Len(<<>>) = Len(text)
      BY <1>1 DEF Has, Text
    <2> QED  BY <1>2, <2>1 DEF Ends
  <1> QED  BY <1>1, <1>2, <1>4, <1>5 DEF Good, t

\* Behind the end of a run, the text may go on with anything.
LEMMA AnythingFollows ==
    ASSUME NEW s, NEW text, Good(s, text), s.current = <<>>, NEW word \in Text
    PROVE  Good(s, text \o word)
PROOF
  <1> DEFINE longer == text \o word
  <1>1. text \in Text /\ longer \in Text
    BY DEF Good, Text
  <1>2. ASSUME NEW k \in 1 .. Len(s.found) PROVE Within(longer, s.found[k])
    <2>1. s.found \in Seq(Literal)
      BY DEF Good, ExtractStates
    <2>2. s.found[k] \in Text /\ Within(text, s.found[k])
      BY <2>1 DEF Good, Literal
    <2> QED  BY <1>1, <2>2, StaysWithin
  <1>3. Ends(longer, s.current)
    <2> HIDE DEF longer
    <2>1. Len(longer) \in Nat /\ Has(longer, Len(longer), <<>>) /\ Len(longer) + Len(<<>>) = Len(longer)
      BY <1>1 DEF Has, Text
    <2> QED  BY <2>1 DEF Ends
  <1> HIDE DEF longer
  <1>4. Good(s, longer)
    BY <1>1, <1>2, <1>3 DEF Good
  <1> QED  BY <1>4 DEF longer

\* A letter is put to the literal at hand, and the text goes on with it.
LEMMA PutIsGood ==
    ASSUME NEW s, NEW text, Good(s, text), NEW chars \in Text, NEW t \in ExtractStates,
           ~t.escaped, ~t.bracket, t.found = s.found, t.current = s.current \o chars
    PROVE  Good(t, text \o chars)
PROOF
  <1> DEFINE longer == text \o chars
             c == s.current
             d == c \o chars
  <1>1. /\ text \in Seq(Characters) /\ c \in Seq(Characters) /\ chars \in Seq(Characters)
        /\ s.found \in Seq(Literal)
    BY DEF Good, ExtractStates, Text
  <1>2. PICK n \in Nat : n + Len(c) = Len(text) /\ Has(text, n, c)
    BY DEF Good, Ends
  <1>3. ASSUME NEW k \in 1 .. Len(t.found) PROVE Within(longer, t.found[k])
    <2>1. s.found[k] \in Text /\ Within(text, s.found[k])
      BY <1>1 DEF Good, Literal
    <2>2. text \in Text
      BY DEF Good
    <2> QED  BY <2>1, <2>2, StaysWithin
  <1> HIDE DEF c
  <1>4. /\ longer \in Seq(Characters) /\ Len(longer) = Len(text) + Len(chars)
        /\ d \in Seq(Characters) /\ Len(d) = Len(c) + Len(chars)
        /\ \A i \in 1 .. Len(text) + Len(chars) :
              longer[i] = IF i <= Len(text) THEN text[i] ELSE chars[i - Len(text)]
        /\ \A i \in 1 .. Len(c) + Len(chars) :
              d[i] = IF i <= Len(c) THEN c[i] ELSE chars[i - Len(c)]
        /\ Len(text) \in Nat /\ Len(c) \in Nat /\ Len(chars) \in Nat
    BY <1>1, ConcatProperties
  <1> HIDE DEF longer, d
  <1>5. n + Len(d) = Len(longer)
    BY <1>2, <1>4
  <1>6. ASSUME NEW k \in 1 .. Len(d) PROVE longer[n + k] = d[k]
    <2>1. n + k \in 1 .. Len(text) + Len(chars) /\ k \in 1 .. Len(c) + Len(chars)
      BY <1>2, <1>4
    <2>2. CASE k <= Len(c)
      <3>1. k \in 1 .. Len(c) /\ n + k <= Len(text)
        BY <1>2, <1>4, <2>2
      <3>2. text[n + k] = c[k]
        BY <1>2, <3>1 DEF Has
      <3> QED  BY <1>4, <2>1, <3>1, <3>2, <2>2
    <2>3. CASE ~(k <= Len(c))
      <3>1. ~(n + k <= Len(text)) /\ (n + k) - Len(text) = k - Len(c)
        <4>1. Len(c) \in Nat /\ Len(d) \in Nat /\ k \in Nat
          BY <1>4
        <4>2. Len(text) = n + Len(c)
          BY <1>2
        <4> QED  BY <2>3, <4>1, <4>2
      <3> QED  BY <1>4, <2>1, <2>3, <3>1
    <2> QED  BY <2>2, <2>3
  <1>7. Has(longer, n, d)
    <2>1. n + Len(d) <= Len(longer)
      BY <1>4, <1>5
    <2> QED  BY <1>6, <2>1 DEF Has
  <1>8. t.current = d
    BY DEF c, d
  <1>9. Ends(longer, t.current)
    BY <1>5, <1>7, <1>8 DEF Ends
  <1>10. Good(t, longer)
    BY <1>3, <1>4, <1>9 DEF Good, Text
  <1> QED  BY <1>10 DEF longer

-----------------------------------------------------------------------------
(* What the scan makes of the tokens.                                      *)

\* A meta character ends the literal at hand.
LEMMA MetaIsRead ==
    ASSUME NEW branch \in Text, NEW state, IsExtractScan(state, branch),
           NEW token \in Text, Len(token) = 1, token[1] \in Metas
    PROVE  Reads(state, branch, token, <<>>, {<<>>})
PROOF
  <1> SUFFICES ASSUME NEW n \in Nat, NEW text \in Text, Has(branch, n, token), Good(state[n], text)
               PROVE  Good(state[n + 1], text \o <<>>) /\ state[n + 1].current \in {<<>>}
    BY DEF Reads
  <1> DEFINE s == state[n]
             t == state[n + 1]
             ch == token[1]
  <1>1. t = ExtractChar(s, ch)
    <2>1. 1 \in 1 .. Len(token) /\ n + (1 - 1) = n
      OBVIOUS
    <2>2. t = ExtractChar(state[n + (1 - 1)], ch)
      BY <2>1, NextExtract
    <2> QED  BY <2>1, <2>2
  <1>2. Good(s, text) /\ ~s.escaped /\ ~s.bracket
    BY DEF Good
  <1> HIDE DEF s, t
  <1>3. ch # "\\" /\ ch # "["
    BY DEF Metas
  <1>4. t = Flush(s)
    BY <1>1, <1>2, <1>3 DEF ExtractChar
  <1>5. text \o <<>> = text
    BY ConcatLaws DEF Text
  <1>6. Good(t, text) /\ t.current = <<>>
    BY <1>2, <1>4, FlushIsGood
  <1> QED  BY <1>5, <1>6 DEF t

\* Any other character is a letter of the literal at hand.
LEMMA LetterIsRead ==
    ASSUME NEW branch \in Text, NEW state, IsExtractScan(state, branch),
           NEW token \in Text, IsSingle(token), token[1] \notin Metas
    PROVE  Reads(state, branch, token, <<token[1]>>, Text)
PROOF
  <1>1. Len(token) = 1 /\ token[1] \notin {"\\", "["}
    BY DEF IsSingle
  <1> SUFFICES ASSUME NEW n \in Nat, NEW text \in Text, Has(branch, n, token), Good(state[n], text)
               PROVE  Good(state[n + 1], text \o <<token[1]>>) /\ state[n + 1].current \in Text
    BY <1>1 DEF Reads
  <1> DEFINE s == state[n]
             t == state[n + 1]
             ch == token[1]
  <1>2. t = ExtractChar(s, ch) /\ t \in ExtractStates /\ ch \in Characters
    <2>1. 1 \in 1 .. Len(token) /\ n + (1 - 1) = n
      BY <1>1
    <2>2. t = ExtractChar(state[n + (1 - 1)], ch) /\ t \in ExtractStates /\ ch \in Characters
      BY <2>1, NextExtract
    <2> QED  BY <2>1, <2>2
  <1>3. Good(s, text) /\ s \in ExtractStates /\ ~s.escaped /\ ~s.bracket
    BY DEF Good
  <1> HIDE DEF s, t, ch
  <1>4. t = Put(s, <<ch>>)
    BY <1>1, <1>2, <1>3 DEF ExtractChar, ch
  <1>5. /\ <<ch>> \in Text /\ ~t.escaped /\ ~t.bracket
        /\ t.found = s.found /\ t.current = s.current \o <<ch>>
    <2>1. <<ch>> \in Text
      BY <1>2 DEF Text
    <2> QED  BY <1>3, <1>4, <2>1 DEF Put, ExtractStates
  <1>6. Good(t, text \o <<ch>>)
    BY <1>2, <1>3, <1>5, PutIsGood
  <1>7. t.current \in Text
    BY <1>2 DEF ExtractStates
  <1> QED  BY <1>6, <1>7 DEF t, ch

\* So is an escaped character, but for the shorthands.
LEMMA EscapeIsRead ==
    ASSUME NEW branch \in Text, NEW state, IsExtractScan(state, branch),
           NEW token \in Text, IsEscape(token)
    PROVE  /\ token[2] \notin Shorthands => Reads(state, branch, token, <<token[2]>>, Text)
           /\ token[2] \in Shorthands => Reads(state, branch, token, <<>>, {<<>>})
PROOF
  <1> DEFINE ch == token[2]
  <1>1. Len(token) = 2 /\ token[1] = "\\"
    BY DEF IsEscape
  <1>2. ASSUME NEW n \in Nat, NEW text \in Text, Has(branch, n, token), Good(state[n], text)
        PROVE  /\ state[n + 2] = IF ch \in Shorthands THEN Flush(state[n]) ELSE Put(state[n], <<ch>>)
               /\ state[n + 2] \in ExtractStates /\ ch \in Characters
    <2> DEFINE s == state[n]
               t == state[n + 1]
               u == state[n + 2]
    <2>1. /\ t = ExtractChar(s, "\\") /\ u = ExtractChar(t, ch)
          /\ u \in ExtractStates /\ ch \in Characters
      <3>1. /\ 1 \in 1 .. Len(token) /\ 2 \in 1 .. Len(token)
            /\ n + (1 - 1) = n /\ n + (2 - 1) = n + 1
        BY <1>1
      <3>2. \A k \in 1 .. Len(token) :
               /\ state[n + k] = ExtractChar(state[n + (k - 1)], token[k])
               /\ state[n + k] \in ExtractStates /\ token[k] \in Characters
        BY <1>2, NextExtract
      <3>3. /\ state[n + 1] = ExtractChar(state[n + (1 - 1)], token[1])
            /\ state[n + 2] = ExtractChar(state[n + (2 - 1)], token[2])
            /\ state[n + 2] \in ExtractStates /\ token[2] \in Characters
        BY <3>1, <3>2
      <3> QED  BY <1>1, <3>1, <3>3
    <2>2. s \in ExtractStates /\ ~s.escaped /\ ~s.bracket
      BY <1>2 DEF Good
    <2> HIDE DEF s, t, u, ch
    <2>3. t = [s EXCEPT !.escaped = TRUE]
      BY <2>1, <2>2 DEF ExtractChar
    <2>4. /\ t.escaped /\ t.bracket = s.bracket /\ t.found = s.found /\ t.current = s.current
          /\ t \in ExtractStates
      BY <2>2, <2>3 DEF ExtractStates
    <2> DEFINE v == [t EXCEPT !.escaped = FALSE]
    <2>5. v = s
      <3>1. /\ v \in ExtractStates /\ v.escaped = FALSE /\ v.bracket = s.bracket
            /\ v.found = s.found /\ v.current = s.current
        BY <2>4 DEF ExtractStates
      <3>2. s.escaped = FALSE
        BY <2>2 DEF ExtractStates
      <3> HIDE DEF v
      <3> QED  BY <2>2, <3>1, <3>2 DEF ExtractStates
    <2>6. u = IF v.bracket THEN v ELSE IF ch \in Shorthands THEN Flush(v) ELSE Put(v, <<ch>>)
      <3>1. u = IF t.bracket THEN v ELSE IF ch \in Shorthands THEN Flush(v) ELSE Put(v, <<ch>>)
        BY <2>1, <2>4 DEF ExtractChar
      <3>2. t.bracket = v.bracket
        BY <2>4, <2>5
      <3> QED  BY <3>1, <3>2
    <2> HIDE DEF v
    <2>7. u = IF ch \in Shorthands THEN Flush(s) ELSE Put(s, <<ch>>)
      BY <2>2, <2>5, <2>6
    <2> QED  BY <2>1, <2>7 DEF s, u
  <1>3. ASSUME ch \notin Shorthands PROVE Reads(state, branch, token, <<ch>>, Text)
    <2> SUFFICES ASSUME NEW n \in Nat, NEW text \in Text, Has(branch, n, token), Good(state[n], text)
                 PROVE  Good(state[n + 2], text \o <<ch>>) /\ state[n + 2].current \in Text
      BY <1>1 DEF Reads
    <2> DEFINE s == state[n]
               u == state[n + 2]
    <2>1. u = Put(s, <<ch>>) /\ u \in ExtractStates /\ ch \in Characters
      BY <1>2, <1>3
    <2>2. Good(s, text) /\ s \in ExtractStates /\ ~s.escaped /\ ~s.bracket
      BY DEF Good
    <2> HIDE DEF s, u, ch
    <2>3. /\ <<ch>> \in Text /\ ~u.escaped /\ ~u.bracket
          /\ u.found = s.found /\ u.current = s.current \o <<ch>>
      <3>1. <<ch>> \in Text
        BY <2>1 DEF Text
      <3> QED  BY <2>1, <2>2, <3>1 DEF Put, ExtractStates
    <2>4. Good(u, text \o <<ch>>)
      BY <2>1, <2>2, <2>3, PutIsGood
    <2>5. u.current \in Text
      BY <2>1 DEF ExtractStates
    <2> QED  BY <2>4, <2>5 DEF u
  <1>4. ASSUME ch \in Shorthands PROVE Reads(state, branch, token, <<>>, {<<>>})
    <2> SUFFICES ASSUME NEW n \in Nat, NEW text \in Text, Has(branch, n, token), Good(state[n], text)
                 PROVE  Good(state[n + 2], text \o <<>>) /\ state[n + 2].current \in {<<>>}
      BY <1>1 DEF Reads
    <2>1. state[n + 2] = Flush(state[n])
      BY <1>2, <1>4
    <2>2. text \o <<>> = text
      BY ConcatLaws DEF Text
    <2>3. Good(Flush(state[n]), text) /\ Flush(state[n]).current = <<>>
      BY FlushIsGood
    <2> QED  BY <2>1, <2>2, <2>3
  <1> QED  BY <1>3, <1>4

\* A class ends it, and leaves no trace.
LEMMA ClassIsRead ==
    ASSUME NEW branch \in Text, NEW state, IsExtractScan(state, branch),
           NEW token \in Text, IsClass(token)
    PROVE  Reads(state, branch, token, <<>>, {<<>>})
PROOF
  <1> SUFFICES ASSUME NEW n \in Nat, NEW text \in Text, Has(branch, n, token), Good(state[n], text)
               PROVE  /\ Good(state[n + Len(token)], text \o <<>>)
                      /\ state[n + Len(token)].current \in {<<>>}
    BY DEF Reads
  <1> DEFINE L == Len(token)
             s == state[n]
             flushed == Flush(s)
             Inside(t) ==
                /\ t \in ExtractStates /\ ~t.escaped /\ t.bracket
                /\ t.found = flushed.found /\ t.current = <<>>
             U == {k \in 0 .. L - 2 : Inside(state[n + (k + 1)])}
  <1>1. /\ L \in Nat /\ L >= 2 /\ token[1] = "[" /\ token[L] = "]"
        /\ \A k \in 2 .. L - 1 : token[k] \notin {"\\", "[", "]"}
    BY DEF IsClass, Text
  <1>2. Good(s, text) /\ s \in ExtractStates /\ ~s.escaped /\ ~s.bracket
    BY DEF Good
  <1>3. /\ Good(flushed, text) /\ flushed \in ExtractStates /\ flushed.current = <<>>
        /\ ~flushed.escaped /\ ~flushed.bracket
    BY <1>2, FlushIsGood DEF Good
  <1>4. \A k \in 1 .. L : /\ state[n + k] = ExtractChar(state[n + (k - 1)], token[k])
                          /\ state[n + k] \in ExtractStates
    BY NextExtract
  <1> HIDE DEF L, flushed
  <1>5. 0 \in U
    <2> DEFINE t == state[n + 1]
    <2>1. 1 \in 1 .. L /\ n + (1 - 1) = n /\ n + (0 + 1) = n + 1 /\ 0 \in 0 .. L - 2
      BY <1>1
    <2>2. t = ExtractChar(s, "[") /\ t \in ExtractStates
      <3>1. state[n + 1] = ExtractChar(state[n + (1 - 1)], token[1]) /\ state[n + 1] \in ExtractStates
        BY <1>4, <2>1
      <3> QED  BY <1>1, <2>1, <3>1
    <2> HIDE DEF s, t
    <2>3. t = [flushed EXCEPT !.bracket = TRUE]
      BY <1>2, <2>2 DEF ExtractChar, flushed
    <2>4. ~t.escaped /\ t.bracket /\ t.found = flushed.found /\ t.current = <<>>
      BY <1>3, <2>3 DEF ExtractStates
    <2> QED  BY <2>1, <2>2, <2>4 DEF t
  <1>6. ASSUME NEW k \in 1 .. L - 2, k - 1 \in U PROVE k \in U
    <2> DEFINE t == state[n + k]
               u == state[n + (k + 1)]
               ch == token[k + 1]
    <2>1. /\ k + 1 \in 2 .. L - 1 /\ k + 1 \in 1 .. L /\ k \in 0 .. L - 2
          /\ (k + 1) - 1 = k /\ (k - 1) + 1 = k
      BY <1>1
    <2>2. u = ExtractChar(t, ch) /\ u \in ExtractStates
      BY <1>4, <2>1
    <2>3. Inside(t)
      BY <1>6, <2>1
    <2>4. ch \notin {"\\", "[", "]"}
      BY <1>1, <2>1
    <2> HIDE DEF t, u, ch
    <2>5. u = [t EXCEPT !.bracket = (ch # "]")]
      BY <2>2, <2>3, <2>4 DEF ExtractChar
    <2>6. ~u.escaped /\ u.bracket /\ u.found = flushed.found /\ u.current = <<>>
      BY <2>3, <2>4, <2>5 DEF ExtractStates
    <2> QED  BY <2>1, <2>2, <2>6 DEF u
  <1>7. L - 2 \in U
    <2>1. L - 2 \in Nat /\ U \in SUBSET (0 .. L - 2)
      BY <1>1
    <2> HIDE DEF U
    <2>2. U = 0 .. L - 2
      BY <1>5, <1>6, <2>1, UpToInduction
    <2> QED  BY <2>1, <2>2
  <1> DEFINE t == state[n + (L - 1)]
             u == state[n + L]
  <1>8. Inside(t)
    <2>1. (L - 2) + 1 = L - 1
      BY <1>1
    <2> QED  BY <1>7, <2>1
  <1>9. u = ExtractChar(t, "]") /\ u \in ExtractStates
    <2>1. L \in 1 .. L
      BY <1>1
    <2> QED  BY <1>1, <1>4, <2>1
  <1> HIDE DEF t, u
  <1>10. u = [t EXCEPT !.bracket = FALSE]
    BY <1>8, <1>9 DEF ExtractChar
  <1>11. ~u.escaped /\ ~u.bracket /\ u.found = flushed.found /\ u.current = <<>>
    BY <1>8, <1>10 DEF ExtractStates
  <1>12. Good(u, text)
    BY <1>3, <1>9, <1>11 DEF Good
  <1>13. text \o <<>> = text
    BY ConcatLaws DEF Text
  <1> QED  BY <1>11, <1>12, <1>13 DEF L, u

LEMMA BothAreRead ==
    ASSUME NEW branch \in Text, NEW state, NEW a \in Text, NEW b \in Text,
           NEW u \in Text, NEW v \in Text, NEW C, NEW D,
           Reads(state, branch, a, u, C), Reads(state, branch, b, v, D)
    PROVE  /\ a \o b \in Text /\ u \o v \in Text
           /\ Reads(state, branch, a \o b, u \o v, D)
PROOF
  <1> DEFINE ab == a \o b
             uv == u \o v
  <1>1. /\ ab \in Text /\ Len(ab) = Len(a) + Len(b) /\ Len(a) \in Nat /\ Len(b) \in Nat
        /\ uv \in Text
    BY DEF Text
  <1> SUFFICES ASSUME NEW n \in Nat, NEW text \in Text, Has(branch, n, ab), Good(state[n], text)
               PROVE  Good(state[n + Len(ab)], text \o uv) /\ state[n + Len(ab)].current \in D
    BY <1>1 DEF Reads
  <1> DEFINE m == n + Len(a)
             so == text \o u
  <1>2. Has(branch, n, a) /\ Has(branch, m, b)
    BY HasBoth DEF Text
  <1>3. m \in Nat /\ n + Len(ab) = m + Len(b)
    BY <1>1
  <1>4. so \in Text
    BY DEF Text
  <1>5. so \o v = text \o uv
    <2>1. text \in Seq(Characters) /\ u \in Seq(Characters) /\ v \in Seq(Characters)
      BY DEF Text
    <2> QED  BY <2>1, ConcatLaws
  <1> HIDE DEF m, ab, uv, so
  <1>6. Good(state[m], so)
    BY <1>2 DEF Reads, m, so
  <1>7. Good(state[m + Len(b)], so \o v) /\ state[m + Len(b)].current \in D
    BY <1>2, <1>3, <1>4, <1>6 DEF Reads
  <1> QED  BY <1>3, <1>5, <1>7

\* Where the literal at hand ends, the text may go on with anything.
LEMMA AnythingIsRead ==
    ASSUME NEW branch \in Text, NEW state, NEW part \in Text, NEW u \in Text, NEW v \in Text,
           Reads(state, branch, part, u, {<<>>})
    PROVE  u \o v \in Text /\ Reads(state, branch, part, u \o v, {<<>>})
PROOF
  <1> DEFINE uv == u \o v
  <1>1. uv \in Text
    BY DEF Text
  <1> SUFFICES ASSUME NEW n \in Nat, NEW text \in Text, Has(branch, n, part), Good(state[n], text)
               PROVE  /\ Good(state[n + Len(part)], text \o uv)
                      /\ state[n + Len(part)].current \in {<<>>}
    BY <1>1 DEF Reads
  <1> DEFINE t == state[n + Len(part)]
             so == text \o u
  <1>2. Good(t, so) /\ t.current = <<>>
    BY DEF Reads
  <1>3. so \o v = text \o uv
    <2>1. text \in Seq(Characters) /\ u \in Seq(Characters) /\ v \in Seq(Characters)
      BY DEF Text
    <2> QED  BY <2>1, ConcatLaws
  <1> HIDE DEF t, so, uv
  <1>4. Good(t, so \o v)
    BY <1>2, AnythingFollows
  <1> QED  BY <1>2, <1>3, <1>4 DEF t

\* More currents may be allowed.
LEMMA ReadsMore ==
    ASSUME NEW branch, NEW state, NEW part, NEW word, NEW C, NEW D, C \subseteq D,
           Reads(state, branch, part, word, C)
    PROVE  Reads(state, branch, part, word, D)
PROOF
  BY DEF Reads

LEMMA NothingIsRead ==
    ASSUME NEW branch \in Text, NEW state
    PROVE  <<>> \in Text /\ Reads(state, branch, <<>>, <<>>, Text)
PROOF
  <1>1. <<>> \in Text
    BY DEF Text
  <1> SUFFICES ASSUME NEW n \in Nat, NEW text \in Text, Good(state[n], text)
               PROVE  Good(state[n + 0], text \o <<>>) /\ state[n + 0].current \in Text
    BY <1>1 DEF Reads
  <1>2. n + 0 = n /\ text \o <<>> = text
    <2>1. text \in Seq(Characters)
      BY DEF Text
    <2> QED  BY <2>1, ConcatLaws
  <1>3. state[n].current \in Text
    BY DEF Good, ExtractStates
  <1> QED  BY <1>2, <1>3

\* The scan puts the letters of an atom to the literal at hand, one by one.
LEMMA TokensAreRead ==
    ASSUME NEW branch \in Text, NEW state, IsExtractScan(state, branch),
           NEW atom \in Atoms \cup Runs, OfLetters(atom), NEW word \in atom.texts
    PROVE  /\ word \in Text /\ FlattenSeq(atom.tokens) \in Text
           /\ Reads(state, branch, FlattenSeq(atom.tokens), word, Text)
PROOF
  <1> DEFINE tokens == atom.tokens
             N == Len(tokens)
  <1>1. tokens \in Seq(Text) /\ word \in Text
    BY AtomTypes
  <1>2. word = [k \in DOMAIN tokens |-> Last(tokens[k])]
    BY DEF OfLetters
  <1>3. ASSUME NEW k \in 1 .. N
        PROVE  \/ IsSingle(tokens[k]) /\ tokens[k][1] \notin Metas
               \/ IsEscape(tokens[k]) /\ tokens[k][2] \notin Shorthands
    <2>1. tokens[k] \in ToSet(tokens)
      BY <1>1 DEF ToSet
    <2> QED  BY <2>1 DEF OfLetters
  <1> HIDE DEF tokens
  <1>4. /\ N \in Nat /\ DOMAIN tokens = 1 .. N /\ DOMAIN word = 1 .. N
        /\ \A k \in 1 .. N : tokens[k] \in Text /\ word[k] = tokens[k][Len(tokens[k])]
    BY <1>1, <1>2 DEF Last
  <1>5. Len(word) = N
    BY <1>1, <1>4 DEF Text
  <1>6. PICK joined \in [0 .. N -> Text] : Joins(joined, tokens)
    BY <1>1, FlattenJoins DEF Text
  <1>7. ASSUME NEW k \in 1 .. N
        PROVE  <<word[k]>> \in Text /\ Reads(state, branch, tokens[k], <<word[k]>>, Text)
    <2> DEFINE token == tokens[k]
    <2>1. token \in Text /\ word[k] = token[Len(token)]
      BY <1>4
    <2>2. word[k] \in Characters
      BY <1>1, <1>5 DEF Text
    <2>3. <<word[k]>> \in Text
      BY <2>2 DEF Text
    <2>4. \/ IsSingle(token) /\ token[1] \notin Metas
          \/ IsEscape(token) /\ token[2] \notin Shorthands
      BY <1>3
    <2> HIDE DEF token
    <2>5. CASE IsSingle(token) /\ token[1] \notin Metas
      <3>1. Len(token) = 1 /\ word[k] = token[1]
        BY <2>1, <2>5 DEF IsSingle
      <3>2. Reads(state, branch, token, <<token[1]>>, Text)
        BY <2>1, <2>5, LetterIsRead
      <3> QED  BY <2>3, <3>1, <3>2 DEF token
    <2>6. CASE IsEscape(token) /\ token[2] \notin Shorthands
      <3>1. Len(token) = 2 /\ word[k] = token[2]
        BY <2>1, <2>6 DEF IsEscape
      <3>2. Reads(state, branch, token, <<token[2]>>, Text)
        BY <2>1, <2>6, EscapeIsRead
      <3> QED  BY <2>3, <3>1, <3>2 DEF token
    <2> QED  BY <2>4, <2>5, <2>6
  <1> DEFINE U == {m \in 0 .. N : Reads(state, branch, joined[m], SubSeq(word, 1, m), Text)}
  <1>8. joined[0] = <<>> /\ joined[N] = FlattenSeq(tokens)
    BY <1>6 DEF Joins
  <1>9. SubSeq(word, 1, 0) = <<>> /\ SubSeq(word, 1, N) = word
    BY <1>1, <1>5 DEF Text
  <1>10. ASSUME NEW k \in 1 .. N, k - 1 \in U PROVE k \in U
    <2> DEFINE a == joined[k - 1]
               b == tokens[k]
               u == SubSeq(word, 1, k - 1)
               v == <<word[k]>>
    <2>1. k \in 0 .. N /\ k - 1 \in 0 .. N
      BY <1>4
    <2>2. a \in Text /\ b \in Text /\ joined[k] = a \o b
      BY <1>4, <1>6, <2>1 DEF Joins
    <2>3. u \in Text /\ v \in Text /\ SubSeq(word, 1, k) = u \o v
      <3>1. k \in 1 .. Len(word) /\ word \in Seq(Characters)
        BY <1>1, <1>5 DEF Text
      <3> QED  BY <3>1, OneMore DEF Text
    <2>4. Reads(state, branch, a, u, Text) /\ Reads(state, branch, b, v, Text)
      BY <1>7, <1>10
    <2> HIDE DEF a, b, u, v
    <2>5. Reads(state, branch, a \o b, u \o v, Text)
      BY <2>2, <2>3, <2>4, BothAreRead
    <2> QED  BY <2>1, <2>2, <2>3, <2>5
  <1>11. U = 0 .. N
    <2>1. 0 \in 0 .. N /\ Reads(state, branch, <<>>, <<>>, Text)
      BY <1>4, NothingIsRead
    <2>2. 0 \in U /\ U \in SUBSET (0 .. N)
      BY <1>8, <1>9, <2>1
    <2> HIDE DEF U, N
    <2> QED  BY <1>4, <1>10, <2>2, UpToInduction
  <1>12. N \in U /\ joined[N] \in Text
    <2> HIDE DEF U, N
    <2> QED  BY <1>4, <1>6, <1>11
  <1> QED  BY <1>1, <1>8, <1>9, <1>12 DEF tokens

LEMMA WordIsRead ==
    ASSUME NEW branch \in Text, NEW state, IsExtractScan(state, branch),
           NEW atom \in Atoms \cup Runs, OfLetters(atom), NEW word \in atom.texts
    PROVE  /\ word \in Text /\ WrittenAtom(atom) \in Text
           /\ Reads(state, branch, WrittenAtom(atom), word, Text)
PROOF
  <1> DEFINE inner == FlattenSeq(atom.tokens)
             open == <<"(">>
             close == <<")">>
             opened == open \o inner
             none == <<>>
  <1>1. word \in Text /\ inner \in Text /\ Reads(state, branch, inner, word, Text)
    BY TokensAreRead
  <1>2. atom.group \in BOOLEAN
    BY AtomTypes
  <1>3. CASE ~atom.group
    BY <1>1, <1>3 DEF WrittenAtom
  <1>4. CASE atom.group
    <2>1. /\ open \in Text /\ Len(open) = 1 /\ open[1] \in Metas
          /\ close \in Text /\ Len(close) = 1 /\ close[1] \in Metas
          /\ none \in Text
      <3>1. "(" \in Characters /\ ")" \in Characters
        BY DEF Characters
      <3> QED  BY <3>1 DEF Text, Metas
    <2>2. WrittenAtom(atom) = opened \o close
      <3>1. open \in Seq(Characters) /\ inner \in Seq(Characters) /\ close \in Seq(Characters)
            /\ WrittenAtom(atom) = <<"(">> \o inner \o <<")">>
        BY <1>1, <1>4, <2>1 DEF WrittenAtom, Text
      <3> QED  BY <3>1
    <2>3. none \o word = word /\ word \o none = word
      <3>1. word \in Seq(Characters)
        BY <1>1 DEF Text
      <3> QED  BY <3>1, ConcatLaws
    <2> HIDE DEF inner, open, close
    <2>4. Reads(state, branch, open, none, {none}) /\ Reads(state, branch, close, none, {none})
      BY <2>1, MetaIsRead
    <2> HIDE DEF none
    <2>5. opened \in Text /\ Reads(state, branch, opened, none \o word, Text)
      BY <1>1, <2>1, <2>4, BothAreRead
    <2> HIDE DEF opened
    <2>6. opened \o close \in Text /\ Reads(state, branch, opened \o close, word \o none, {none})
      BY <1>1, <2>1, <2>3, <2>4, <2>5, BothAreRead
    <2>7. {none} \subseteq Text
      BY <2>1
    <2>8. Reads(state, branch, opened \o close, word, Text)
      BY <2>3, <2>6, <2>7, ReadsMore
    <2> QED  BY <1>1, <2>2, <2>6, <2>8
  <1> QED  BY <1>2, <1>3, <1>4

-----------------------------------------------------------------------------
(* The texts that a regex matches.                                         *)

LEMMA JoinedTexts ==
    ASSUME NEW A, NEW B, NEW text \in Join(A, B)
    PROVE  \E a \in A, b \in B : text = a \o b
PROOF
  BY DEF Join

LEMMA JoinTypes ==
    ASSUME NEW A \in SUBSET Text, NEW B \in SUBSET Text
    PROVE  Join(A, B) \in SUBSET Text
PROOF
  <1>1. ASSUME NEW a \in A, NEW b \in B PROVE a \o b \in Text
    <2>1. a \in Text /\ b \in Text
      OBVIOUS
    <2> QED  BY <2>1, ConcatProperties DEF Text
  <1>2. ASSUME NEW text \in Join(A, B) PROVE text \in Text
    <2>1. PICK a \in A, b \in B : text = a \o b
      BY DEF Join
    <2> QED  BY <1>1, <2>1
  <1> QED  BY <1>2

IsPowers(power, A) ==
    /\ power \in [0 .. MaxRepeats -> SUBSET Text]
    /\ power[0] = {<<>>}
    /\ \A n \in 1 .. MaxRepeats : power[n] = Join(A, power[n - 1])

IsTexts(texts, branch) ==
    /\ texts \in [0 .. Len(branch) -> SUBSET Text]
    /\ texts[0] = {<<>>}
    /\ \A n \in 1 .. Len(branch) : texts[n] = Join(texts[n - 1], PieceTexts(branch[n]))

LEMMA PowersScan ==
    ASSUME NEW A \in SUBSET Text
    PROVE  IsPowers(Powers(A), A)
PROOF
  <1> DEFINE N == MaxRepeats
             S == SUBSET Text
             base == {<<>>}
             step == [x \in S \X Nat |-> Join(A, x[1])]
             IsScan(f) == f = [n \in 0 .. MaxRepeats |->
                                 IF n = 0 THEN {<<>>} ELSE Join(A, f[n - 1])]
  <1>1. N \in Nat
    BY DecomposeAssumption
  <1>2. \A n \in 0 .. N : n = 0 \/ n \in 1 .. N
    <2> HIDE DEF N
    <2> QED  BY <1>1
  <1>3. step \in [S \X Nat -> S]
    BY JoinTypes
  <1>4. base \in S
    BY DEF Text
  <1>5. PICK g \in [0 .. N -> S] : Computes(g, base, step, N)
    <2> HIDE DEF step, S, N, base
    <2> QED  BY <1>1, <1>3, <1>4, RecursionUpTo
  <1>6. ASSUME NEW n \in 0 .. N
        PROVE  g[n] = IF n = 0 THEN {<<>>} ELSE Join(A, g[n - 1])
    <2>1. CASE n = 0
      BY <1>5, <2>1 DEF Computes
    <2>2. CASE n # 0
      <3> HIDE DEF N, S
      <3>1. n \in 1 .. N /\ n - 1 \in 0 .. N /\ n \in Nat
        BY <1>1, <1>2, <2>2
      <3>2. g[n] = step[<<g[n - 1], n>>] /\ g[n - 1] \in S
        BY <1>5, <3>1 DEF Computes
      <3> QED  BY <2>2, <3>1, <3>2
    <2> QED  BY <2>1, <2>2
  <1>7. IsScan(g)
    <2> HIDE DEF S, step, base
    <2> QED  BY <1>5, <1>6
  <1> DEFINE f == CHOOSE f : IsScan(f)
  <1>8. IsScan(f)
    <2> HIDE DEF IsScan
    <2> QED  BY <1>7
  <1>9. Powers(A) = f
    BY DEF Powers
  <1> HIDE DEF f, S, step, base
  <1>10. /\ DOMAIN f = 0 .. N
         /\ \A n \in 0 .. N : f[n] = IF n = 0 THEN {<<>>} ELSE Join(A, f[n - 1])
    BY <1>8
  <1> HIDE DEF IsScan, N
  <1> DEFINE U == {n \in 0 .. N : f[n] = g[n]}
  <1>11. U = 0 .. N
    <2>1. 0 \in U /\ U \in SUBSET (0 .. N)
      <3>1. 0 \in 0 .. N
        BY <1>1
      <3>2. f[0] = {<<>>} /\ g[0] = {<<>>}
        BY <1>6, <1>10, <3>1
      <3> QED  BY <3>1, <3>2
    <2>2. ASSUME NEW k \in 1 .. N, k - 1 \in U PROVE k \in U
      <3>1. k \in 0 .. N /\ k # 0
        BY <1>1
      <3> QED  BY <1>6, <1>10, <2>2, <3>1
    <2> HIDE DEF U
    <2> QED  BY <1>1, <2>1, <2>2, UpToInduction
  <1>12. \A n \in 0 .. N : f[n] = g[n] /\ g[n] \in S
    BY <1>5, <1>11
  <1>13. f = [n \in 0 .. N |-> f[n]]
    BY <1>8, <1>10 DEF IsScan, N
  <1>14. f \in [0 .. N -> S]
    <2>1. \A n \in 0 .. N : f[n] \in S
      BY <1>12
    <2> QED  BY <1>13, <2>1
  <1>15. IsPowers(f, A)
    <2>1. 0 \in 0 .. N /\ \A n \in 1 .. N : n \in 0 .. N /\ n # 0
      BY <1>1
    <2> QED  BY <1>10, <1>14, <2>1 DEF IsPowers, N, S
  <1> QED  BY <1>9, <1>15

LEMMA PieceTypes ==
    ASSUME NEW piece \in Pieces
    PROVE  /\ piece.atom \in Atoms \cup Runs /\ piece.quantifier \in {"", "?", "*", "+"}
           /\ PieceTexts(piece) \in SUBSET Text
PROOF
  <1> DEFINE A == piece.atom.texts
             q == piece.quantifier
  <1>1. piece.atom \in Atoms \cup Runs /\ q \in {"", "?", "*", "+"}
    BY DecomposeAssumption DEF Pieces
  <1>2. A \in SUBSET Text
    BY <1>1, AtomTypes
  <1>3. PieceTexts(piece) =
          CASE q = ""  -> A
            [] q = "?" -> A \cup {<<>>}
            [] q = "*" -> Repeated(A, 0)
            [] q = "+" -> Repeated(A, 1)
    BY DEF PieceTexts
  <1> HIDE DEF A, q
  <1>4. IsPowers(Powers(A), A) /\ MaxRepeats \in Nat
    BY <1>2, PowersScan, DecomposeAssumption
  <1>5. \A least \in {0, 1} : Repeated(A, least) \in SUBSET Text
    BY <1>4 DEF Repeated, IsPowers
  <1>6. A \cup {<<>>} \in SUBSET Text
    <2>1. <<>> \in Text
      BY DEF Text
    <2> QED  BY <1>2, <2>1
  <1>7. PieceTexts(piece) \in SUBSET Text
    BY <1>1, <1>2, <1>3, <1>5, <1>6
  <1> QED  BY <1>1, <1>7 DEF q

LEMMA TextsScan ==
    ASSUME NEW branch \in Seq(Pieces)
    PROVE  IsTexts(TextsUpTo(branch), branch)
PROOF
  <1> DEFINE N == Len(branch)
             S == SUBSET Text
             base == {<<>>}
             step == [x \in S \X Nat |-> 
                        IF x[2] \in 1 .. N THEN Join(x[1], PieceTexts(branch[x[2]])) ELSE x[1]]
             IsScan(f) == f = [n \in 0 .. Len(branch) |->
                                 IF n = 0 THEN {<<>>} ELSE Join(f[n - 1], PieceTexts(branch[n]))]
  <1>1. N \in Nat /\ \A n \in 1 .. N : branch[n] \in Pieces
    OBVIOUS
  <1>2. \A n \in 0 .. N : n = 0 \/ n \in 1 .. N
    <2> HIDE DEF N
    <2> QED  BY <1>1
  <1>3. step \in [S \X Nat -> S]
    BY <1>1, PieceTypes, JoinTypes
  <1>4. base \in S
    BY DEF Text
  <1>5. PICK g \in [0 .. N -> S] : Computes(g, base, step, N)
    <2> HIDE DEF step, S, N, base
    <2> QED  BY <1>1, <1>3, <1>4, RecursionUpTo
  <1>6. ASSUME NEW n \in 0 .. N
        PROVE  g[n] = IF n = 0 THEN {<<>>} ELSE Join(g[n - 1], PieceTexts(branch[n]))
    <2>1. CASE n = 0
      BY <1>5, <2>1 DEF Computes
    <2>2. CASE n # 0
      <3> HIDE DEF N, S
      <3>1. n \in 1 .. N /\ n - 1 \in 0 .. N /\ n \in Nat
        BY <1>1, <1>2, <2>2
      <3>2. g[n] = step[<<g[n - 1], n>>] /\ g[n - 1] \in S
        BY <1>5, <3>1 DEF Computes
      <3> QED  BY <2>2, <3>1, <3>2
    <2> QED  BY <2>1, <2>2
  <1>7. IsScan(g)
    <2> HIDE DEF S, step, base
    <2> QED  BY <1>5, <1>6
  <1> DEFINE f == CHOOSE f : IsScan(f)
  <1>8. IsScan(f)
    <2> HIDE DEF IsScan
    <2> QED  BY <1>7
  <1>9. TextsUpTo(branch) = f
    BY DEF TextsUpTo
  <1> HIDE DEF f, S, step, base
  <1>10. /\ DOMAIN f = 0 .. N
         /\ \A n \in 0 .. N : f[n] = IF n = 0 THEN {<<>>} ELSE Join(f[n - 1], PieceTexts(branch[n]))
    BY <1>8
  <1> HIDE DEF IsScan, N
  <1> DEFINE U == {n \in 0 .. N : f[n] = g[n]}
  <1>11. U = 0 .. N
    <2>1. 0 \in U /\ U \in SUBSET (0 .. N)
      <3>1. 0 \in 0 .. N
        BY <1>1
      <3>2. f[0] = {<<>>} /\ g[0] = {<<>>}
        BY <1>6, <1>10, <3>1
      <3> QED  BY <3>1, <3>2
    <2>2. ASSUME NEW k \in 1 .. N, k - 1 \in U PROVE k \in U
      <3>1. k \in 0 .. N /\ k # 0
        BY <1>1
      <3> QED  BY <1>6, <1>10, <2>2, <3>1
    <2> HIDE DEF U
    <2> QED  BY <1>1, <2>1, <2>2, UpToInduction
  <1>12. \A n \in 0 .. N : f[n] = g[n] /\ g[n] \in S
    BY <1>5, <1>11
  <1>13. f = [n \in 0 .. N |-> f[n]]
    BY <1>8, <1>10 DEF IsScan, N
  <1>14. f \in [0 .. N -> S]
    <2>1. \A n \in 0 .. N : f[n] \in S
      BY <1>12
    <2> QED  BY <1>13, <2>1
  <1>15. IsTexts(f, branch)
    <2>1. 0 \in 0 .. N /\ \A n \in 1 .. N : n \in 0 .. N /\ n # 0
      BY <1>1
    <2> QED  BY <1>10, <1>14, <2>1 DEF IsTexts, N, S
  <1> QED  BY <1>9, <1>15

-----------------------------------------------------------------------------
(* The literals of a plain branch are in every text that it matches.       *)

\* As in Plain.
PlainPiece(piece) ==
    OfOneClass(piece.atom) \/ (OfLetters(piece.atom) /\ piece.quantifier \in {"", "+"})

LEMMA OneClassIsRead ==
    ASSUME NEW branch \in Text, NEW state, IsExtractScan(state, branch),
           NEW atom \in Atoms \cup Runs, OfOneClass(atom)
    PROVE  WrittenAtom(atom) \in Text /\ Reads(state, branch, WrittenAtom(atom), <<>>, {<<>>})
PROOF
  <1> DEFINE tokens == atom.tokens
             token == tokens[1]
  <1>1. tokens \in Seq(Text) /\ Len(tokens) = 1 /\ token \in Text
    <2>1. tokens \in Seq(Text) /\ Len(tokens) = 1
      BY AtomTypes DEF OfOneClass
    <2> QED  BY <2>1
  <1>2. ~atom.group
    BY DEF OfOneClass
  <1>3. token = <<".">> \/ IsClass(token) \/ (IsEscape(token) /\ token[2] \in Shorthands)
    BY DEF OfOneClass
  <1> HIDE DEF tokens
  <1>4. FlattenSeq(tokens) = token
    <2>1. PICK joined \in [0 .. Len(tokens) -> Text] : Joins(joined, tokens)
      BY <1>1, FlattenJoins DEF Text
    <2>2. 1 \in 1 .. Len(tokens) /\ 1 - 1 = 0
      BY <1>1
    <2>3. joined[1] = joined[0] \o token /\ joined[0] = <<>> /\ joined[1] = FlattenSeq(tokens)
      BY <1>1, <2>1, <2>2 DEF Joins
    <2>4. <<>> \o token = token
      <3>1. token \in Seq(Characters)
        BY <1>1 DEF Text
      <3> HIDE DEF token
      <3> QED  BY <3>1, ConcatLaws
    <2> QED  BY <2>3, <2>4
  <1>5. WrittenAtom(atom) = token
    BY <1>2, <1>4 DEF WrittenAtom, tokens
  <1> HIDE DEF token
  <1>6. CASE token = <<".">>
    <2>1. Len(token) = 1 /\ token[1] \in Metas
      BY <1>6 DEF Metas
    <2> QED  BY <1>1, <1>5, <2>1, MetaIsRead
  <1>7. CASE IsClass(token)
    BY <1>1, <1>5, <1>7, ClassIsRead
  <1>8. CASE IsEscape(token) /\ token[2] \in Shorthands
    BY <1>1, <1>5, <1>8, EscapeIsRead
  <1> QED  BY <1>3, <1>6, <1>7, <1>8

\* A quantifier ends the literal at hand.
LEMMA QuantifierIsRead ==
    ASSUME NEW branch \in Text, NEW state, IsExtractScan(state, branch),
           NEW q \in {"?", "*", "+"}
    PROVE  <<q>> \in Text /\ Reads(state, branch, <<q>>, <<>>, {<<>>})
PROOF
  <1> DEFINE sign == <<q>>
  <1>1. q \in Characters /\ q \in Metas
    BY DEF Characters, Metas
  <1>2. sign \in Text /\ Len(sign) = 1 /\ sign[1] \in Metas
    BY <1>1 DEF Text
  <1> HIDE DEF sign
  <1>3. Reads(state, branch, sign, <<>>, {<<>>})
    BY <1>2, MetaIsRead
  <1> QED  BY <1>2, <1>3 DEF sign

LEMMA PlainPieceIsRead ==
    ASSUME NEW branch \in Text, NEW state, IsExtractScan(state, branch),
           NEW piece \in Pieces, PlainPiece(piece), NEW text \in PieceTexts(piece)
    PROVE  Reads(state, branch, WrittenPiece(piece), text, Text)
PROOF
  <1> DEFINE atom == piece.atom
             q == piece.quantifier
             written == WrittenAtom(atom)
             sign == <<q>>
             none == <<>>
  <1>1. /\ atom \in Atoms \cup Runs /\ q \in {"", "?", "*", "+"} /\ text \in Text
        /\ none \in Text /\ {none} \subseteq Text
    <2>1. text \in Text
      BY PieceTypes
    <2>2. none \in Text
      BY DEF Text
    <2> QED  BY <2>1, <2>2, PieceTypes
  <1>2. \A t \in Text : t \o none = t /\ none \o t = t
    BY ConcatLaws DEF Text
  <1>3. CASE OfOneClass(atom)
    <2>1. written \in Text /\ Reads(state, branch, written, none, {none})
      BY <1>1, <1>3, OneClassIsRead
    <2>2. Reads(state, branch, WrittenPiece(piece), none, {none}) /\ WrittenPiece(piece) \in Text
      <3>1. CASE q = ""
        <4>1. WrittenPiece(piece) = written \o none
          BY <3>1 DEF WrittenPiece
        <4> QED  BY <1>2, <2>1, <4>1
      <3>2. CASE q # ""
        <4>1. WrittenPiece(piece) = written \o sign
          BY <3>2 DEF WrittenPiece
        <4>2. sign \in Text /\ Reads(state, branch, sign, none, {none})
          BY <1>1, <3>2, QuantifierIsRead
        <4> HIDE DEF written, sign, none
        <4>3. written \o sign \in Text /\ Reads(state, branch, written \o sign, none \o none, {none})
          BY <1>1, <2>1, <4>2, BothAreRead
        <4> QED  BY <1>1, <1>2, <4>1, <4>3
      <3> QED  BY <3>1, <3>2
    <2>3. Reads(state, branch, WrittenPiece(piece), none \o text, {none})
      BY <1>1, <2>2, AnythingIsRead
    <2> QED  BY <1>1, <1>2, <2>3, ReadsMore
  <1>4. CASE OfLetters(atom) /\ q = ""
    <2>1. text \in atom.texts
      BY <1>4 DEF PieceTexts
    <2>2. written \in Text /\ Reads(state, branch, written, text, Text)
      BY <1>1, <1>4, <2>1, WordIsRead
    <2>3. WrittenPiece(piece) = written \o none
      BY <1>4 DEF WrittenPiece
    <2> QED  BY <1>2, <2>2, <2>3
  <1>5. CASE OfLetters(atom) /\ q = "+"
    <2> DEFINE A == atom.texts
    <2>1. IsPowers(Powers(A), A) /\ MaxRepeats \in Nat
      <3>1. A \in SUBSET Text
        BY <1>1, AtomTypes
      <3> QED  BY <3>1, PowersScan, DecomposeAssumption
    <2>2. PICK n \in 1 .. MaxRepeats : text \in Powers(A)[n]
      <3>1. PieceTexts(piece) = Repeated(A, 1)
        BY <1>5 DEF PieceTexts
      <3> QED  BY <3>1 DEF Repeated
    <2>3. Powers(A)[n] = Join(A, Powers(A)[n - 1]) /\ Powers(A)[n - 1] \in SUBSET Text
      <3>1. n - 1 \in 0 .. MaxRepeats
        BY <2>1
      <3> QED  BY <2>1, <3>1 DEF IsPowers
    <2>4. PICK word \in A, rest \in Powers(A)[n - 1] : text = word \o rest
      <3> HIDE DEF A
      <3> QED  BY <2>2, <2>3, JoinedTexts
    <2>5. rest \in Text
      BY <2>3
    <2>6. word \in Text /\ written \in Text /\ Reads(state, branch, written, word, Text)
      BY <1>1, <1>5, <2>4, WordIsRead
    <2>7. WrittenPiece(piece) = written \o sign
      BY <1>5 DEF WrittenPiece
    <2>8. sign \in Text /\ Reads(state, branch, sign, none, {none})
      BY <1>5, QuantifierIsRead
    <2> HIDE DEF written, sign, none
    <2>9. /\ written \o sign \in Text
          /\ Reads(state, branch, written \o sign, word \o none, {none})
      BY <1>1, <2>6, <2>8, BothAreRead
    <2>10. Reads(state, branch, WrittenPiece(piece), word, {none}) /\ WrittenPiece(piece) \in Text
      BY <1>2, <2>6, <2>7, <2>9
    <2>11. Reads(state, branch, WrittenPiece(piece), word \o rest, {none})
      BY <2>5, <2>6, <2>10, AnythingIsRead DEF none
    <2> QED  BY <1>1, <2>4, <2>11, ReadsMore
  <1> QED  BY <1>1, <1>3, <1>4, <1>5 DEF PlainPiece

\* What extract_literals finds in a plain branch is in every text it matches.
LEMMA LiteralsAreMatched ==
    ASSUME NEW branch \in Seq(Pieces), \A k \in 1 .. Len(branch) : PlainPiece(branch[k]),
           NEW text \in BranchTexts(branch)
    PROVE  /\ text \in Text
           /\ ExtractLiterals(WrittenBranch(branch)) \in Seq(Literal)
           /\ \A k \in 1 .. Len(ExtractLiterals(WrittenBranch(branch))) :
                 Within(text, ExtractLiterals(WrittenBranch(branch))[k])
PROOF
  <1> DEFINE N == Len(branch)
             parts == [k \in 1 .. N |-> WrittenPiece(branch[k])]
             written == WrittenBranch(branch)
             state == ExtractUpTo(written)
             texts == TextsUpTo(branch)
  <1>1. N \in Nat /\ DOMAIN branch = 1 .. N /\ \A k \in 1 .. N : branch[k] \in Pieces
    OBVIOUS
  <1>2. \A k \in 1 .. N : WrittenPiece(branch[k]) \in Text
    <2> DEFINE none == <<>>
    <2>1. none \in Text
      BY DEF Text
    <2>2. IsSplitScan(SplitUpTo(none), none)
      BY <2>1, SplitScan
    <2> HIDE DEF none
    <2> QED  BY <1>1, <2>1, <2>2, PieceIsTaken
  <1>3. /\ parts \in Seq(Text) /\ Len(parts) = N
        /\ \A k \in 1 .. N : parts[k] = WrittenPiece(branch[k]) /\ parts[k] \in Text
    BY <1>1, <1>2
  <1>4. written = FlattenSeq(parts)
    BY <1>1 DEF WrittenBranch
  <1>5. IsTexts(texts, branch) /\ text \in texts[N]
    BY TextsScan DEF BranchTexts
  <1> HIDE DEF parts, N
  <1>6. PICK joined \in [0 .. N -> Text] : Joins(joined, parts)
    BY <1>3, FlattenJoins DEF Text
  <1>7. written = joined[N] /\ written \in Text /\ joined[0] = <<>>
    BY <1>1, <1>3, <1>4, <1>6 DEF Joins
  <1> HIDE DEF written
  <1>8. IsExtractScan(state, written)
    BY <1>7, ExtractScan
  <1> HIDE DEF state, texts
  <1> DEFINE U == {m \in 0 .. N : \A t \in texts[m] : Good(state[Len(joined[m])], t)}
  <1>9. 0 \in U
    <2>1. Len(joined[0]) = 0 /\ texts[0] = {<<>>} /\ 0 \in 0 .. N
      BY <1>1, <1>5, <1>7 DEF IsTexts
    <2>2. state[0] = Extract0 /\ state[0] \in ExtractStates
      <3>1. 0 \in 0 .. Len(written)
        BY <1>7 DEF Text
      <3> QED  BY <1>8, <3>1 DEF IsExtractScan
    <2>3. Good(state[0], <<>>)
      <3>1. <<>> \in Text
        BY DEF Text
      <3>2. Ends(<<>>, <<>>)
        <4>1. 0 + Len(<<>>) = Len(<<>>) /\ Has(<<>>, 0, <<>>)
          BY DEF Has
        <4> QED  BY <4>1 DEF Ends
      <3> QED  BY <2>2, <3>1, <3>2 DEF Good, Extract0
    <2> QED  BY <2>1, <2>3
  <1>10. ASSUME NEW k \in 1 .. N, k - 1 \in U PROVE k \in U
    <2>1. k \in 0 .. N /\ k - 1 \in 0 .. N
      BY <1>1
    <2>2. /\ joined[k] = joined[k - 1] \o parts[k] /\ Has(written, Len(joined[k - 1]), parts[k])
          /\ joined[k - 1] \in Text /\ parts[k] \in Text
      BY <1>3, <1>4, <1>6, <2>1 DEF Joins
    <2>3. texts[k] = Join(texts[k - 1], PieceTexts(branch[k])) /\ texts[k - 1] \in SUBSET Text
      BY <1>5, <2>1 DEF IsTexts, N
    <2> DEFINE n == Len(joined[k - 1])
               part == parts[k]
    <2>4. n \in Nat /\ Len(joined[k]) = n + Len(part)
      <3> DEFINE j == joined[k - 1]
      <3>1. j \in Seq(Characters) /\ part \in Seq(Characters) /\ joined[k] = j \o part
        BY <2>2 DEF Text
      <3> HIDE DEF j, part
      <3>2. Len(j \o part) = Len(j) + Len(part) /\ Len(j) \in Nat
        BY <3>1, ConcatProperties
      <3> QED  BY <3>1, <3>2 DEF j
    <2>5. ASSUME NEW a \in texts[k - 1], NEW b \in PieceTexts(branch[k])
          PROVE  Good(state[n + Len(part)], a \o b)
      <3>1. Reads(state, written, part, b, Text)
        <4>1. part = WrittenPiece(branch[k]) /\ branch[k] \in Pieces /\ PlainPiece(branch[k])
          BY <1>1, <1>3 DEF N
        <4> QED  BY <1>7, <1>8, <4>1, PlainPieceIsRead
      <3>2. a \in Text
        BY <2>3
      <3>3. Good(state[n], a)
        BY <1>10
      <3> HIDE DEF part, n
      <3> QED  BY <2>2, <2>4, <3>1, <3>2, <3>3 DEF Reads, part, n
    <2>6. ASSUME NEW t \in texts[k] PROVE Good(state[Len(joined[k])], t)
      <3> DEFINE A == texts[k - 1]
                 B == PieceTexts(branch[k])
      <3>1. t \in Join(A, B)
        BY <2>3
      <3> HIDE DEF A, B
      <3>2. PICK a \in A, b \in B : t = a \o b
        BY <3>1, JoinedTexts
      <3> USE DEF A, B
      <3> HIDE DEF n, part
      <3> QED  BY <2>4, <2>5, <3>2
    <2> QED  BY <2>1, <2>6
  <1>11. N \in U
    <2>1. U \in SUBSET (0 .. N)
      OBVIOUS
    <2> HIDE DEF U
    <2>2. U = 0 .. N
      BY <1>1, <1>9, <1>10, <2>1, UpToInduction
    <2> QED  BY <1>1, <2>2
  <1> DEFINE end == state[Len(written)]
  <1>12. Good(end, text)
    BY <1>5, <1>7, <1>11
  <1>13. ExtractLiterals(written) = Flush(end).found
    BY DEF ExtractLiterals, state
  <1> HIDE DEF end
  <1>14. Good(Flush(end), text)
    BY <1>12, FlushIsGood
  <1>15. /\ Flush(end).found \in Seq(Literal)
         /\ \A k \in 1 .. Len(Flush(end).found) : Within(text, Flush(end).found[k])
    BY <1>14 DEF Good, ExtractStates
  <1>16. text \in Text
    <2>1. N \in 0 .. N
      BY <1>1
    <2> QED  BY <1>5, <2>1 DEF IsTexts, N
  <1> QED  BY <1>13, <1>15, <1>16 DEF written

-----------------------------------------------------------------------------
(* The n-grams of a literal are among those of a text that it is in.       *)

\* A stretch of a literal is a stretch of the text.
LEMMA SameStretch ==
    ASSUME NEW S, NEW text \in Seq(S), NEW part \in Seq(S), NEW n \in Nat, Has(text, n, part),
           NEW k \in 1 .. Len(part), NEW j \in k .. Len(part)
    PROVE  SubSeq(part, k, j) = SubSeq(text, n + k, n + j)
PROOF
  <1> DEFINE a == SubSeq(part, k, j)
             b == SubSeq(text, n + k, n + j)
             l == (j - k) + 1
  <1>1. /\ Len(part) \in Nat /\ Len(text) \in Nat /\ k \in Nat /\ j \in Nat /\ k <= j
        /\ j <= Len(part) /\ 1 <= k /\ n + Len(part) <= Len(text)
    BY DEF Has
  <1>2. (n + j) - (n + k) + 1 = l /\ l \in Nat /\ n + k <= n + j
    BY <1>1
  <1>3. /\ \A i \in k .. j : i \in 1 .. Len(part)
        /\ \A i \in n + k .. n + j : i \in 1 .. Len(text)
    BY <1>1
  <1>4. a \in Seq(S) /\ Len(a) = l /\ \A i \in 1 .. l : a[i] = part[k + i - 1]
    <2>1. \A i \in k .. j : part[i] \in S
      BY <1>3
    <2> QED  BY <1>1, <2>1, SubSeqProperties
  <1>5. b \in Seq(S) /\ Len(b) = l /\ \A i \in 1 .. l : b[i] = text[(n + k) + i - 1]
    <2>1. \A i \in n + k .. n + j : text[i] \in S
      BY <1>3
    <2>2. n + k \in Int /\ n + j \in Int
      BY <1>1
    <2>3. /\ b \in Seq(S)
          /\ Len(b) = IF n + k <= n + j THEN (n + j) - (n + k) + 1 ELSE 0
          /\ \A i \in 1 .. (n + j) - (n + k) + 1 : b[i] = text[(n + k) + i - 1]
      BY <2>1, <2>2, SubSeqProperties
    <2> HIDE DEF b, l
    <2> QED  BY <1>2, <2>3
  <1> HIDE DEF a, b
  <1>6. ASSUME NEW i \in 1 .. l PROVE a[i] = b[i]
    <2> DEFINE m == k + i - 1
    <2>1. m \in 1 .. Len(part) /\ (n + k) + i - 1 = n + m
      BY <1>1
    <2>2. text[n + m] = part[m]
      BY <2>1 DEF Has
    <2> QED  BY <1>4, <1>5, <2>1, <2>2
  <1> HIDE DEF l
  <1>7. a = b
    BY <1>4, <1>5, <1>6, SeqEqual
  <1> QED  BY <1>7 DEF a, b

LEMMA TrigramsWithin ==
    ASSUME NEW S, NEW text \in Seq(S), NEW part \in Seq(S), Within(text, part)
    PROVE  Trigrams(part) \subseteq Trigrams(text)
PROOF
  <1>1. PICK n \in Nat : Has(text, n, part)
    BY DEF Within
  <1>2. Len(part) \in Nat /\ Len(text) \in Nat /\ n + Len(part) <= Len(text)
    BY <1>1 DEF Has
  <1>3. ASSUME NEW gram \in Trigrams(part) PROVE gram \in Trigrams(text)
    <2>1. PICK k \in 1 .. Len(part) - 2 : gram = SubSeq(part, k, k + 2)
      BY DEF Trigrams
    <2>2. k \in 1 .. Len(part) /\ k + 2 \in k .. Len(part) /\ n + k \in 1 .. Len(text) - 2
      BY <1>2
    <2>3. gram = SubSeq(text, n + k, n + (k + 2))
      BY <1>1, <2>1, <2>2, SameStretch
    <2>4. n + (k + 2) = (n + k) + 2
      BY <1>2
    <2> QED  BY <2>2, <2>3, <2>4 DEF Trigrams
  <1> QED  BY <1>3

\* What is left on the stack outweighs what lies before the next one.
LEMMA CoveringIsAmongAll ==
    ASSUME NEW L \in Nat, NEW w \in [1 .. L -> Nat], Len(w) = L,
           \A k \in 1 .. L : w[k] > 0 /\ \A m \in (1 .. L) \ {k} : w[k] # w[m]
    PROVE  Covering(w) \subseteq AllStretches(w)
PROOF
  <1>1. DOMAIN w = 1 .. L
    OBVIOUS
  <1>2. ASSUME NEW k \in 1 .. L, NEW j \in 1 .. L, k < j,
               \A m \in k + 1 .. j - 1 : w[m] < w[k] /\ w[m] < w[j]
        PROVE  <<k, j>> \in AllStretches(w)
    <2>1. \A m \in k + 1 .. j - 1 : m \in 1 .. L /\ w[m] \in Nat
      <3>1. \A m \in k + 1 .. j - 1 : m \in 1 .. L
        OBVIOUS
      <3> QED  BY <3>1
    <2>2. k \in Nat /\ j \in Nat /\ w[k] \in Nat /\ w[j] \in Nat /\ w[k] > 0 /\ w[j] > 0
      OBVIOUS
    <2>3. Interior(w, k, j) < w[k] /\ Interior(w, k, j) < w[j]
      BY <1>2, <2>1, <2>2, InteriorBelow
    <2> QED  BY <1>1, <1>2, <2>3 DEF AllStretches
  <1>3. ASSUME NEW k \in 1 .. L PROVE <<k, k>> \in AllStretches(w)
    BY <1>1 DEF AllStretches
  <1> DEFINE left == Left(w)
  <1>4. /\ left \subseteq 1 .. L
        /\ \A k \in 1 .. L : k \in left <=> \A m \in k + 1 .. L : w[m] < w[k]
    <2>1. (L + 1) - 1 = L
      OBVIOUS
    <2> QED  BY <1>1, <2>1 DEF Left, Waits
  <1> HIDE DEF left
  <1>5. ASSUME NEW s \in (1 .. L) \X (1 .. L), s[1] < s[2], w[s[1]] <= w[s[2]],
               Waits(w, s[1], s[2])
        PROVE  s \in AllStretches(w)
    <2>1. s = <<s[1], s[2]>> /\ s[1] \in 1 .. L /\ s[2] \in 1 .. L
      OBVIOUS
    <2>2. ASSUME NEW m \in s[1] + 1 .. s[2] - 1 PROVE w[m] < w[s[1]] /\ w[m] < w[s[2]]
      <3>1. m \in 1 .. L
        BY <2>1
      <3>2. w[m] < w[s[1]]
        BY <1>5 DEF Waits
      <3>3. w[m] \in Nat /\ w[s[1]] \in Nat /\ w[s[2]] \in Nat
        BY <2>1, <3>1
      <3> QED  BY <1>5, <3>2, <3>3
    <2> QED  BY <1>2, <1>5, <2>1, <2>2
  <1>6. ASSUME NEW s \in left \X left, s[1] < s[2], (s[1] + 1 .. s[2] - 1) \cap left = {}
        PROVE  s \in AllStretches(w)
    <2> DEFINE k == s[1]
               j == s[2]
               V == {w[m] : m \in k + 1 .. j - 1}
    <2>1. s = <<k, j>> /\ k \in left /\ j \in left /\ k \in 1 .. L /\ j \in 1 .. L /\ k < j
      <3>1. s = <<k, j>> /\ k \in left /\ j \in left
        OBVIOUS
      <3> QED  BY <1>4, <1>6, <3>1
    <2>2. \A m \in k + 1 .. j - 1 : m \notin left
      BY <1>6
    <2> HIDE DEF k, j
    <2>3. \A m \in k + 1 .. j - 1 : m \in 1 .. L /\ m \in k + 1 .. L /\ w[m] \in Nat
      <3>1. \A m \in k + 1 .. j - 1 : m \in 1 .. L /\ m \in k + 1 .. L
        BY <2>1
      <3> QED  BY <3>1
    <2>4. \A m \in k + 1 .. j - 1 : w[m] < w[k]
      BY <1>4, <2>1, <2>3
    <2>5. ASSUME NEW m \in k + 1 .. j - 1, ~(w[m] < w[j]) PROVE FALSE
      <3>1. V # {} /\ V \in SUBSET Int
        BY <2>3
      <3>2. IsFiniteSet(V)
        <4>1. k + 1 \in Int /\ j - 1 \in Int
          BY <2>1
        <4>2. IsFiniteSet(k + 1 .. j - 1)
          BY <4>1, FS_Interval
        <4> DEFINE D == k + 1 .. j - 1
        <4>3. V = {w[i] : i \in D} /\ IsFiniteSet(D)
          BY <4>2
        <4> HIDE DEF V, D
        <4>4. IsFiniteSet({w[i] : i \in D})
          BY <4>3, FiniteImage
        <4> QED  BY <4>3, <4>4
      <3>3. PICK greatest \in V : \A x \in V : greatest >= x
        <4> HIDE DEF V
        <4> QED  BY <3>1, <3>2, GreatestElement
      <3>4. PICK top \in k + 1 .. j - 1 : greatest = w[top]
        BY <3>3
      <3>5. \A i \in k + 1 .. j - 1 : w[top] >= w[i]
        BY <3>3, <3>4
      <3>6. top \in 1 .. L /\ top < j /\ w[top] \in Nat /\ w[j] \in Nat /\ w[m] \in Nat
        BY <2>1, <2>3
      <3>7. w[top] > w[j]
        <4>1. w[top] >= w[m] /\ w[m] >= w[j]
          BY <2>5, <3>5, <3>6
        <4>2. w[top] # w[j]
          BY <2>1, <3>6
        <4> QED  BY <3>6, <4>1, <4>2
      <3>8. ASSUME NEW i \in top + 1 .. L PROVE w[i] < w[top]
        <4>1. i \in 1 .. L /\ i # top /\ w[i] \in Nat /\ i \in Nat
          <5>1. i \in 1 .. L /\ i # top
            BY <3>6
          <5> QED  BY <5>1
        <4>2. CASE i < j
          <5>1. i \in k + 1 .. j - 1
            BY <2>1, <3>6, <4>1, <4>2
          <5>2. w[top] >= w[i] /\ w[top] # w[i]
            BY <3>5, <3>6, <4>1, <5>1
          <5> QED  BY <3>6, <4>1, <5>2
        <4>3. CASE i = j
          BY <3>7, <4>3
        <4>4. CASE i > j
          <5>1. i \in j + 1 .. L
            BY <2>1, <4>1, <4>4
          <5>2. w[i] < w[j]
            BY <1>4, <2>1, <5>1
          <5> QED  BY <3>6, <3>7, <4>1, <5>2
        <4>5. j \in Nat
          BY <2>1
        <4> QED  BY <4>1, <4>2, <4>3, <4>4, <4>5
      <3>9. top \in left
        BY <1>4, <3>6, <3>8
      <3> QED  BY <2>2, <3>4, <3>9
    <2> QED  BY <1>2, <2>1, <2>4, <2>5
  <1>7. ASSUME NEW s \in {<<k, k>> : k \in {b \in left : \A m \in left : b <= m}}
        PROVE  s \in AllStretches(w)
    BY <1>3, <1>4
  <1> QED  BY <1>1, <1>5, <1>6, <1>7 DEF Covering, left

LEMMA WeightsWithin ==
    ASSUME NEW text \in Text, NEW part \in Literal, NEW n \in Nat, Has(text, n, part),
           NEW f \in Weightings
    PROVE  LET w == PairWeights(part, f)
               v == PairWeights(text, f)
               L == Len(part) - 1
           IN  /\ L \in Nat /\ w \in [1 .. L -> Nat] /\ Len(w) = L
               /\ DOMAIN v = 1 .. Len(text) - 1 /\ n + L <= Len(text) - 1 /\ Len(text) \in Nat
               /\ \A k \in 1 .. L : w[k] = v[n + k]
PROOF
  <1> DEFINE w == PairWeights(part, f)
             v == PairWeights(text, f)
             L == Len(part) - 1
             M == Len(text) - 1
  <1>1. /\ part \in Text /\ Len(part) \in Nat /\ Len(part) >= 3 /\ Len(text) \in Nat
        /\ n + Len(part) <= Len(text)
    BY DEF Literal, Has, Text
  <1>2. /\ L \in Nat /\ n + L <= M /\ M \in Nat
        /\ \A k \in 1 .. L : k \in 1 .. Len(part) /\ k + 1 \in 1 .. Len(part)
        /\ \A k \in 1 .. L : n + k \in 1 .. M /\ n + (k + 1) = (n + k) + 1
        /\ \A k \in 1 .. M : k \in 1 .. Len(text) /\ k + 1 \in 1 .. Len(text)
    BY <1>1
  <1>3. w = [k \in 1 .. L |-> f[<<part[k], part[k + 1]>>]]
    BY DEF PairWeights
  <1>4. v = [k \in 1 .. M |-> f[<<text[k], text[k + 1]>>]]
    BY DEF PairWeights
  <1> HIDE DEF L, M, w, v
  <1>5. ASSUME NEW k \in 1 .. L PROVE w[k] = v[n + k] /\ w[k] \in Nat
    <2>1. text[n + k] = part[k] /\ text[(n + k) + 1] = part[k + 1]
      <3>1. text[n + k] = part[k] /\ text[n + (k + 1)] = part[k + 1]
        BY <1>2 DEF Has
      <3> QED  BY <1>2, <3>1
    <2>2. w[k] = f[<<part[k], part[k + 1]>>]
      BY <1>3
    <2>3. v[n + k] = f[<<text[n + k], text[(n + k) + 1]>>]
      BY <1>2, <1>4
    <2>4. text[n + k] \in Characters /\ text[(n + k) + 1] \in Characters
      BY <1>2 DEF Text
    <2>5. f[<<text[n + k], text[(n + k) + 1]>>] \in Nat
      BY <2>4, WeightsAssumption
    <2> QED  BY <2>1, <2>2, <2>3, <2>5
  <1>6. w \in [1 .. L -> Nat] /\ Len(w) = L /\ DOMAIN v = 1 .. M
    <2>1. DOMAIN w = 1 .. L /\ DOMAIN v = 1 .. M /\ w = [k \in 1 .. L |-> w[k]]
      BY <1>3, <1>4
    <2>2. [k \in 1 .. L |-> w[k]] \in [1 .. L -> Nat]
      BY <1>5
    <2>3. w \in [1 .. L -> Nat]
      BY <2>1, <2>2
    <2>4. Len(w) = L
      <3>1. w \in Seq(Nat)
        BY <1>2, <2>3
      <3>2. DOMAIN w = 1 .. Len(w) /\ Len(w) \in Nat
        BY <3>1
      <3> QED  BY <1>2, <2>1, <3>2
    <2> QED  BY <2>1, <2>3, <2>4
  <1> QED  BY <1>1, <1>2, <1>5, <1>6 DEF L, M, w, v

\* A stretch of n-grams may begin later in a longer text.
LEMMA StretchMoves ==
    ASSUME NEW L \in Nat, NEW w, DOMAIN w = 1 .. L, NEW M \in Nat, NEW v, DOMAIN v = 1 .. M,
           NEW n \in Nat, n + L <= M, \A k \in 1 .. L : w[k] = v[n + k],
           NEW s \in AllStretches(w)
    PROVE  /\ s[1] \in 1 .. L /\ s[2] \in s[1] .. L
           /\ <<n + s[1], n + s[2]>> \in AllStretches(v)
PROOF
  <1>1. ASSUME NEW k \in 1 .. L, s = <<k, k>>
        PROVE  /\ s[1] \in 1 .. L /\ s[2] \in s[1] .. L
               /\ <<n + s[1], n + s[2]>> \in AllStretches(v)
    <2>1. n + k \in 1 .. M
      OBVIOUS
    <2>2. <<n + k, n + k>> \in AllStretches(v)
      BY <2>1 DEF AllStretches
    <2>3. s[1] = k /\ s[2] = k /\ k \in k .. L
      BY <1>1
    <2> QED  BY <2>2, <2>3
  <1>2. ASSUME NEW k \in 1 .. L, NEW j \in 1 .. L, s = <<k, j>>, k < j,
               Interior(w, k, j) < w[k], Interior(w, k, j) < w[j]
        PROVE  /\ s[1] \in 1 .. L /\ s[2] \in s[1] .. L
               /\ <<n + s[1], n + s[2]>> \in AllStretches(v)
    <2> DEFINE A == {w[m] : m \in k + 1 .. j - 1}
               B == {v[m] : m \in (n + k) + 1 .. (n + j) - 1}
    <2>1. n + k \in 1 .. M /\ n + j \in 1 .. M /\ n + k < n + j /\ j \in k .. L
      BY <1>2
    <2>2. A \subseteq B
      <3> SUFFICES ASSUME NEW m \in k + 1 .. j - 1
                   PROVE  \E i \in (n + k) + 1 .. (n + j) - 1 : w[m] = v[i]
        OBVIOUS
      <3>1. m \in 1 .. L /\ n + m \in (n + k) + 1 .. (n + j) - 1
        OBVIOUS
      <3> QED  BY <3>1
    <2>3. B \subseteq A
      <3> SUFFICES ASSUME NEW i \in (n + k) + 1 .. (n + j) - 1
                   PROVE  \E m \in k + 1 .. j - 1 : w[m] = v[i]
        OBVIOUS
      <3>1. i - n \in k + 1 .. j - 1 /\ i - n \in 1 .. L /\ n + (i - n) = i
        OBVIOUS
      <3>2. w[i - n] = v[i]
        BY <3>1
      <3> QED  BY <3>1, <3>2
    <2>4. Interior(v, n + k, n + j) = Interior(w, k, j)
      <3>1. A = B
        BY <2>2, <2>3
      <3>2. {0} \cup A = {0} \cup B
        BY <3>1
      <3> QED  BY <3>2 DEF Interior
    <2>5. w[k] = v[n + k] /\ w[j] = v[n + j]
      OBVIOUS
    <2>6. <<n + k, n + j>> \in AllStretches(v)
      BY <1>2, <2>1, <2>4, <2>5 DEF AllStretches
    <2>7. s[1] = k /\ s[2] = j
      BY <1>2
    <2> QED  BY <2>1, <2>6, <2>7
  <1>3. \/ \E k \in 1 .. L : s = <<k, k>>
        \/ /\ s = <<s[1], s[2]>> /\ s[1] \in 1 .. L /\ s[2] \in 1 .. L /\ s[1] < s[2]
           /\ Interior(w, s[1], s[2]) < w[s[1]] /\ Interior(w, s[1], s[2]) < w[s[2]]
    BY DEF AllStretches
  <1> QED  BY <1>1, <1>2, <1>3

LEMMA CoveringWithin ==
    ASSUME NEW text \in Text, NEW part \in Literal, Within(text, part),
           NEW f \in Weightings, Untied(part, f)
    PROVE  CoveringGrams(part, f) \subseteq SparseGrams(text, f)
PROOF
  <1> DEFINE w == PairWeights(part, f)
             v == PairWeights(text, f)
             L == Len(part) - 1
             M == Len(text) - 1
  <1>1. PICK n \in Nat : Has(text, n, part)
    BY DEF Within
  <1>2. /\ L \in Nat /\ w \in [1 .. L -> Nat] /\ Len(w) = L /\ DOMAIN w = 1 .. L
        /\ DOMAIN v = 1 .. M /\ n + L <= M /\ M \in Nat
        /\ \A k \in 1 .. L : w[k] = v[n + k]
    <2>1. /\ L \in Nat /\ w \in [1 .. L -> Nat] /\ Len(w) = L
          /\ DOMAIN v = 1 .. M /\ n + L <= M /\ Len(text) \in Nat
          /\ \A k \in 1 .. L : w[k] = v[n + k]
      BY <1>1, WeightsWithin
    <2>2. M \in Nat
      BY <2>1
    <2> QED  BY <2>1, <2>2
  <1>3. \A k \in 1 .. L : w[k] > 0 /\ \A m \in (1 .. L) \ {k} : w[k] # w[m]
    BY <1>2 DEF Untied
  <1>4. part \in Seq(Characters) /\ text \in Seq(Characters) /\ Len(part) = L + 1
    <2>1. part \in Text
      BY DEF Literal
    <2> QED  BY <2>1 DEF Text
  <1>5. CoveringGrams(part, f) = TextOf(part, Covering(w)) /\ SparseGrams(text, f) = TextOf(text, AllStretches(v))
    BY DEF CoveringGrams, SparseGrams
  <1> HIDE DEF w, v, L, M
  <1>6. Covering(w) \subseteq AllStretches(w)
    BY <1>2, <1>3, CoveringIsAmongAll
  <1>7. ASSUME NEW s \in Covering(w) PROVE SubSeq(part, s[1], s[2] + 1) \in TextOf(text, AllStretches(v))
    <2>1. /\ s[1] \in 1 .. L /\ s[2] \in s[1] .. L
          /\ <<n + s[1], n + s[2]>> \in AllStretches(v)
      BY <1>2, <1>6, StretchMoves
    <2> DEFINE k == s[1]
               j == s[2]
               r == <<n + k, n + j>>
    <2>2. k \in 1 .. L /\ j \in k .. L
      BY <2>1
    <2>3. r[1] = n + k /\ r[2] = n + j /\ r \in AllStretches(v)
      BY <2>1
    <2> HIDE DEF k, j, r
    <2>4. k \in 1 .. Len(part) /\ j + 1 \in k .. Len(part) /\ n + (j + 1) = (n + j) + 1
      BY <1>2, <1>4, <2>2
    <2>5. SubSeq(part, k, j + 1) = SubSeq(text, n + k, n + (j + 1))
      BY <1>1, <1>4, <2>4, SameStretch
    <2>6. SubSeq(part, k, j + 1) = SubSeq(text, r[1], r[2] + 1)
      BY <2>3, <2>4, <2>5
    <2> QED  BY <2>3, <2>6 DEF TextOf, k, j
  <1> QED  BY <1>5, <1>7 DEF TextOf

-----------------------------------------------------------------------------
(* The n-grams of the branches, and their number.                          *)

LEMMA TrigramsOfLiteral ==
    ASSUME NEW text \in Literal
    PROVE  IsFiniteSet(Trigrams(text)) /\ Trigrams(text) # {}
PROOF
  <1> DEFINE D == 1 .. Len(text) - 2
             f == [k \in D |-> SubSeq(text, k, k + 2)]
  <1>1. Len(text) \in Nat /\ Len(text) >= 3
    BY DEF Literal, Text
  <1>2. IsFiniteSet(D) /\ 1 \in D
    <2>1. 1 \in Int /\ Len(text) - 2 \in Int
      BY <1>1
    <2> QED  BY <1>1, <2>1, FS_Interval
  <1>3. Trigrams(text) = {f[k] : k \in D}
    BY DEF Trigrams
  <1>4. Trigrams(text) # {}
    BY <1>2 DEF Trigrams
  <1> HIDE DEF D, f
  <1> QED  BY <1>2, <1>3, <1>4, FiniteImage

LEMMA CoveringOfLiteral ==
    ASSUME NEW text \in Literal, NEW f
    PROVE  IsFiniteSet(CoveringGrams(text, f)) /\ CoveringGrams(text, f) # {}
PROOF
  <1> DEFINE w == PairWeights(text, f)
             L == Len(text) - 1
             left == Left(w)
  <1>1. L \in Nat /\ L > 0 /\ DOMAIN w = 1 .. L /\ Len(w) = L
    <2>1. Len(text) \in Nat /\ Len(text) >= 3
      BY DEF Literal, Text
    <2>2. L \in Nat /\ L > 0
      BY <2>1
    <2>3. w = [k \in 1 .. L |-> f[<<text[k], text[k + 1]>>]]
      BY DEF PairWeights
    <2> HIDE DEF w, L
    <2> QED  BY <2>2, <2>3
  <1>2. CoveringGrams(text, f) = TextOf(text, Covering(w))
    BY DEF CoveringGrams
  <1> HIDE DEF w, L
  <1>3. left \subseteq 1 .. L /\ L \in left
    <2>1. (L + 1) - 1 = L /\ L + 1 .. L = {} /\ L \in 1 .. L
      BY <1>1
    <2> QED  BY <1>1, <2>1 DEF Left, Waits
  <1>4. Covering(w) \subseteq (1 .. L) \X (1 .. L)
    BY <1>1, <1>3 DEF Covering
  <1>5. PICK bottom \in left : \A k \in left : bottom <= k
    <2>1. left \in SUBSET Nat /\ left # {}
      BY <1>1, <1>3
    <2> HIDE DEF left
    <2> QED  BY <2>1, LeastElement
  <1>6. <<bottom, bottom>> \in Covering(w)
    BY <1>5 DEF Covering
  <1>7. IsFiniteSet(Covering(w))
    <2>1. 1 \in Int /\ L \in Int
      BY <1>1
    <2>2. IsFiniteSet(1 .. L)
      BY <2>1, FS_Interval
    <2>3. IsFiniteSet((1 .. L) \X (1 .. L))
      BY <2>2, FS_Product
    <2> QED  BY <1>4, <2>3, FS_Subset
  <1> DEFINE C == Covering(w)
             g == [s \in C |-> SubSeq(text, s[1], s[2] + 1)]
  <1>8. TextOf(text, C) = {g[s] : s \in C}
    BY DEF TextOf
  <1> HIDE DEF C, g
  <1>9. IsFiniteSet({g[s] : s \in C}) /\ C # {}
    BY <1>6, <1>7, FiniteImage DEF C
  <1> QED  BY <1>2, <1>8, <1>9 DEF C

\* The n-grams of some literals.
GramsOf(gram, seq) == UNION {gram[x] : x \in ToSet(seq)}

LEMMA UnionOfGrams ==
    ASSUME NEW S, NEW seq \in Seq(S), NEW gram,
           \A x \in S : IsFiniteSet(gram[x]) /\ gram[x] # {}
    PROVE  /\ IsFiniteSet(GramsOf(gram, seq))
           /\ GramsOf(gram, seq) = {} <=> seq = <<>>
PROOF
  <1> DEFINE D == 1 .. Len(seq)
             F == {gram[x] : x \in ToSet(seq)}
  <1>1. Len(seq) \in Nat /\ DOMAIN seq = D /\ \A k \in D : seq[k] \in S
    OBVIOUS
  <1>2. ToSet(seq) = {seq[k] : k \in D} /\ ToSet(seq) \subseteq S
    BY <1>1 DEF ToSet
  <1>3. IsFiniteSet(D)
    <2>1. 1 \in Int /\ Len(seq) \in Int
      BY <1>1
    <2> QED  BY <2>1, FS_Interval
  <1>4. IsFiniteSet(ToSet(seq))
    <2> HIDE DEF D
    <2> QED  BY <1>2, <1>3, FiniteImage
  <1>5. IsFiniteSet(F)
    BY <1>4, FiniteImage
  <1>6. \A T \in F : IsFiniteSet(T) /\ T # {}
    BY <1>2
  <1>7. IsFiniteSet(UNION F)
    <2> HIDE DEF F
    <2> QED  BY <1>5, <1>6, FS_UNION
  <1>8. UNION F = {} <=> F = {}
    BY <1>6
  <1>9. F = {} <=> ToSet(seq) = {}
    OBVIOUS
  <1>10. ToSet(seq) = {} <=> seq = <<>>
    <2>1. CASE seq = <<>>
      BY <1>1, <1>2, <2>1
    <2>2. CASE seq # <<>>
      <3>1. 1 \in D
        BY <1>1, <2>2, EmptySeq
      <3> QED  BY <1>2, <2>2, <3>1
    <2> QED  BY <2>1, <2>2
  <1> QED  BY <1>7, <1>8, <1>9, <1>10 DEF GramsOf

IsLookups(sum, grams) ==
    /\ sum \in [0 .. Len(grams) -> Nat]
    /\ sum[0] = 0
    /\ \A n \in 1 .. Len(grams) : sum[n] = sum[n - 1] + Cardinality(grams[n])

LEMMA LookupsScan ==
    ASSUME NEW grams, Len(grams) \in Nat, \A n \in 1 .. Len(grams) : IsFiniteSet(grams[n])
    PROVE  IsLookups(LookupsUpTo(grams), grams)
PROOF
  <1> DEFINE N == Len(grams)
             S == Nat
             base == 0
             step == [x \in S \X Nat |-> 
                        IF x[2] \in 1 .. N THEN x[1] + Cardinality(grams[x[2]]) ELSE x[1]]
             IsScan(f) == f = [n \in 0 .. Len(grams) |->
                                 IF n = 0 THEN 0 ELSE f[n - 1] + Cardinality(grams[n])]
  <1>1. N \in Nat /\ \A n \in 1 .. N : Cardinality(grams[n]) \in Nat
    BY FS_CardinalityType
  <1>2. \A n \in 0 .. N : n = 0 \/ n \in 1 .. N
    <2> HIDE DEF N
    <2> QED  BY <1>1
  <1>3. step \in [S \X Nat -> S]
    BY <1>1
  <1>4. base \in S
    OBVIOUS
  <1>5. PICK g \in [0 .. N -> S] : Computes(g, base, step, N)
    <2> HIDE DEF step, S, N, base
    <2> QED  BY <1>1, <1>3, <1>4, RecursionUpTo
  <1>6. ASSUME NEW n \in 0 .. N
        PROVE  g[n] = IF n = 0 THEN 0 ELSE g[n - 1] + Cardinality(grams[n])
    <2>1. CASE n = 0
      BY <1>5, <2>1 DEF Computes
    <2>2. CASE n # 0
      <3> HIDE DEF N, S
      <3>1. n \in 1 .. N /\ n - 1 \in 0 .. N /\ n \in Nat
        BY <1>1, <1>2, <2>2
      <3>2. g[n] = step[<<g[n - 1], n>>] /\ g[n - 1] \in S
        BY <1>5, <3>1 DEF Computes
      <3> QED  BY <2>2, <3>1, <3>2
    <2> QED  BY <2>1, <2>2
  <1>7. IsScan(g)
    <2> HIDE DEF S, step, base
    <2> QED  BY <1>5, <1>6
  <1> DEFINE f == CHOOSE f : IsScan(f)
  <1>8. IsScan(f)
    <2> HIDE DEF IsScan
    <2> QED  BY <1>7
  <1>9. LookupsUpTo(grams) = f
    BY DEF LookupsUpTo
  <1> HIDE DEF f, S, step, base
  <1>10. /\ DOMAIN f = 0 .. N
         /\ \A n \in 0 .. N : f[n] = IF n = 0 THEN 0 ELSE f[n - 1] + Cardinality(grams[n])
    BY <1>8
  <1> HIDE DEF IsScan, N
  <1> DEFINE U == {n \in 0 .. N : f[n] = g[n]}
  <1>11. U = 0 .. N
    <2>1. 0 \in U /\ U \in SUBSET (0 .. N)
      BY <1>1, <1>6, <1>10
    <2>2. ASSUME NEW k \in 1 .. N, k - 1 \in U PROVE k \in U
      <3>1. k \in 0 .. N /\ k # 0
        BY <1>1
      <3> QED  BY <1>6, <1>10, <2>2, <3>1
    <2> HIDE DEF U
    <2> QED  BY <1>1, <2>1, <2>2, UpToInduction
  <1>12. \A n \in 0 .. N : f[n] = g[n] /\ g[n] \in S
    BY <1>5, <1>11
  <1>13. f = [n \in 0 .. N |-> f[n]]
    BY <1>8, <1>10 DEF IsScan, N
  <1>14. f \in [0 .. N -> S]
    <2>1. \A n \in 0 .. N : f[n] \in S
      BY <1>12
    <2> QED  BY <1>13, <2>1
  <1>15. IsLookups(f, grams)
    <2>1. 0 \in 0 .. N /\ \A n \in 1 .. N : n \in 0 .. N /\ n # 0
      BY <1>1
    <2> QED  BY <1>10, <1>14, <2>1 DEF IsLookups, N, S
  <1> QED  BY <1>9, <1>15

\* As many lookups as there are n-grams, or more if branches share some.
LEMMA LookupsBound ==
    ASSUME NEW S, NEW grams \in Seq(S), \A n \in 1 .. Len(grams) : IsFiniteSet(grams[n])
    PROVE  LET lookups == LookupsUpTo(grams)[Len(grams)]
               all     == UNION ToSet(grams)
           IN  /\ lookups \in Nat /\ IsFiniteSet(all) /\ Cardinality(all) \in Nat
               /\ Cardinality(all) <= lookups
               /\ lookups <= Len(grams) * Cardinality(all)
               /\ lookups = 0 <=> \A n \in 1 .. Len(grams) : grams[n] = {}
PROOF
  <1> DEFINE N == Len(grams)
             sum == LookupsUpTo(grams)
             all == UNION ToSet(grams)
             some(m) == UNION {grams[k] : k \in 1 .. m}
             C == Cardinality(all)
  <1>1. N \in Nat /\ DOMAIN grams = 1 .. N /\ \A n \in 1 .. N : IsFiniteSet(grams[n])
    OBVIOUS
  <1>2. IsLookups(sum, grams)
    BY <1>1, LookupsScan
  <1>3. sum \in [0 .. N -> Nat] /\ sum[0] = 0
        /\ \A n \in 1 .. N : sum[n] = sum[n - 1] + Cardinality(grams[n])
    BY <1>2 DEF IsLookups
  <1>4. all = some(N)
    BY <1>1 DEF ToSet
  <1>5. \A n \in 1 .. N : Cardinality(grams[n]) \in Nat
    BY <1>1, FS_CardinalityType
  <1> HIDE DEF N, sum, all
  <1>6. \A n \in 1 .. N : n \in 0 .. N /\ n - 1 \in 0 .. N /\ sum[n] \in Nat /\ sum[n - 1] \in Nat
    <2>1. \A n \in 1 .. N : n \in 0 .. N /\ n - 1 \in 0 .. N
      BY <1>1
    <2> QED  BY <1>3, <2>1
  <1> DEFINE U == {m \in 0 .. N : IsFiniteSet(some(m)) /\ Cardinality(some(m)) <= sum[m]}
  <1>7. 0 \in U
    <2>1. some(0) = {} /\ 0 \in 0 .. N
      BY <1>1
    <2> HIDE DEF some
    <2>2. IsFiniteSet({}) /\ Cardinality({}) = 0
      BY FS_EmptySet
    <2>3. IsFiniteSet(some(0)) /\ Cardinality(some(0)) = 0
      BY <2>1, <2>2
    <2>4. 0 <= sum[0]
      BY <1>3
    <2> QED  BY <1>3, <2>1, <2>3, <2>4
  <1>8. ASSUME NEW k \in 1 .. N, k - 1 \in U PROVE k \in U
    <2> DEFINE A == some(k - 1)
               B == grams[k]
    <2>1. some(k) = A \cup B
      <3>1. k \in Nat /\ 1 .. k = (1 .. k - 1) \cup {k}
        BY <1>1
      <3> QED  BY <3>1
    <2>2. IsFiniteSet(A) /\ Cardinality(A) <= sum[k - 1] /\ IsFiniteSet(B)
      BY <1>1, <1>8
    <2> HIDE DEF A, B
    <2>3. IsFiniteSet(A \cup B) /\ Cardinality(A \cup B) = Cardinality(A) + Cardinality(B) - Cardinality(A \cap B)
      BY <2>2, FS_Union
    <2>4. Cardinality(A \cap B) \in Nat /\ Cardinality(A) \in Nat /\ Cardinality(B) \in Nat
      <3>1. IsFiniteSet(A \cap B)
        <4>1. A \cap B \in SUBSET A
          OBVIOUS
        <4> QED  BY <2>2, <4>1, FS_Subset
      <3> QED  BY <2>2, <3>1, FS_CardinalityType
    <2>5. sum[k] = sum[k - 1] + Cardinality(B) /\ sum[k - 1] \in Nat /\ k \in 0 .. N
      BY <1>3, <1>6 DEF B
    <2>6. Cardinality(A \cup B) <= sum[k]
      BY <2>2, <2>3, <2>4, <2>5
    <2> HIDE DEF some
    <2> QED  BY <2>1, <2>3, <2>5, <2>6
  <1>9. U = 0 .. N
    <2>1. U \in SUBSET (0 .. N)
      OBVIOUS
    <2> HIDE DEF U
    <2> QED  BY <1>1, <1>7, <1>8, <2>1, UpToInduction
  <1>10. IsFiniteSet(all) /\ C <= sum[N] /\ sum[N] \in Nat
    <2>1. N \in 0 .. N
      BY <1>1
    <2>2. N \in U
      <3> HIDE DEF U
      <3> QED  BY <1>9, <2>1
    <2> HIDE DEF some
    <2> QED  BY <1>3, <1>4, <2>1, <2>2
  <1>11. C \in Nat
    BY <1>10, FS_CardinalityType
  <1>12. \A n \in 1 .. N : grams[n] \subseteq all /\ Cardinality(grams[n]) <= C
    <2>1. ASSUME NEW n \in 1 .. N PROVE grams[n] \in SUBSET all
      BY <1>4
    <2> QED  BY <1>10, <2>1, FS_Subset
  <1> HIDE DEF C, U
  <1> DEFINE V == {m \in 0 .. N : sum[m] <= m * C}
  <1>13. 0 \in V
    BY <1>1, <1>3, <1>11
  <1>14. ASSUME NEW k \in 1 .. N, k - 1 \in V PROVE k \in V
    <2>1. sum[k] = sum[k - 1] + Cardinality(grams[k]) /\ Cardinality(grams[k]) <= C
          /\ k \in 0 .. N /\ sum[k] \in Nat /\ sum[k - 1] \in Nat /\ Cardinality(grams[k]) \in Nat
      BY <1>3, <1>5, <1>6, <1>12
    <2>2. sum[k - 1] <= (k - 1) * C
      BY <1>14
    <2>3. (k - 1) * C + C = k * C /\ (k - 1) * C \in Int /\ k * C \in Int
      <3>1. k \in Int /\ C \in Int
        BY <1>1, <1>11
      <3> QED  BY <3>1
    <2>4. sum[k] <= k * C
      <3> DEFINE x == (k - 1) * C
                 y == k * C
      <3>1. sum[k - 1] <= x /\ x + C = y /\ x \in Int /\ y \in Int
        BY <2>2, <2>3
      <3> HIDE DEF x, y
      <3>2. sum[k] <= y
        BY <1>11, <2>1, <3>1
      <3> QED  BY <3>2 DEF y
    <2> QED  BY <2>1, <2>4
  <1>15. sum[N] <= N * C
    <2>1. V \in SUBSET (0 .. N)
      OBVIOUS
    <2>2. N \in 0 .. N
      BY <1>1
    <2>3. N \in V
      <3> HIDE DEF V
      <3> QED  BY <1>1, <1>13, <1>14, <2>1, <2>2, UpToInduction
    <2> QED  BY <2>3
  <1>16. sum[N] = 0 <=> \A n \in 1 .. N : grams[n] = {}
    <2>1. ASSUME sum[N] = 0, NEW n \in 1 .. N PROVE grams[n] = {}
      <3>1. Cardinality(grams[n]) <= C /\ C <= 0 /\ Cardinality(grams[n]) \in Nat
        BY <1>5, <1>10, <1>12, <2>1
      <3>2. Cardinality(grams[n]) = 0
        BY <1>11, <3>1
      <3> QED  BY <1>1, <3>2, FS_EmptySet
    <2>2. ASSUME \A n \in 1 .. N : grams[n] = {} PROVE sum[N] = 0
      <3>1. all = {}
        BY <1>4, <2>2
      <3>2. C = 0
        BY <3>1, FS_EmptySet DEF C
      <3>3. N * C = 0
        BY <1>1, <3>2
      <3> QED  BY <1>10, <1>15, <3>3
    <2> QED  BY <2>1, <2>2
  <1> QED  BY <1>10, <1>11, <1>15, <1>16 DEF N, sum, all, C

-----------------------------------------------------------------------------
(* The inductive invariant.                                                *)

\* What the split and the extraction have made of the regex so far.
DecomposeInv ==
    /\ regex \in Seq(Seq(Pieces)) /\ regex # <<>>
    /\ stage = "split" => branches = <<>>
    /\ SplitsAtTopLevel
    /\ branches \in Seq(Text) /\ literals \in Seq(Seq(Literal))
    /\ Len(literals) <= Len(branches)
    /\ \A k \in 1 .. Len(literals) : literals[k] = ExtractLiterals(branches[k])

\* What the planner has made of the literals.
Planned == stage \in {"planned", "explained"}

PlannerInv ==
    /\ DecomposeInv
    /\ stage \in {"split", "extract", "planned", "explained"}
    /\ weight \in Weightings /\ strategy \in Strategies /\ told \in Overrides \cup {"Auto"}
    /\ ~Planned => plan = NoPlan /\ strategy = "Trigram" /\ score = NoScore
    /\ Planned =>
          /\ Len(literals) = Len(branches)
          /\ IF Unfiltered THEN plan = NoPlan /\ strategy = "Trigram" /\ score = NoScore
             ELSE IF UsesSparse(told)
             THEN /\ strategy = "Sparse" /\ plan = PlanOf(CoveringOfBranches)
                  /\ score = ScorePlan(CoveringOfBranches)
             ELSE /\ strategy = "Trigram" /\ plan = PlanOf(TrigramsOfBranches)
                  /\ score = ScorePlan(TrigramsOfBranches)
    /\ stage = "explained" => report = Explain

\* The types of what the decomposition works on.
LEMMA BranchTypes ==
    ASSUME DecomposeInv, stage # "split"
    PROVE  /\ Len(regex) \in Nat /\ Len(regex) > 0 /\ DOMAIN regex = 1 .. Len(regex)
           /\ \A k \in 1 .. Len(regex) : regex[k] \in Seq(Pieces)
           /\ Len(branches) = Len(regex)
           /\ \A k \in 1 .. Len(regex) : branches[k] = WrittenBranch(regex[k])
PROOF
  <1>1. /\ Len(regex) \in Nat /\ Len(regex) > 0 /\ DOMAIN regex = 1 .. Len(regex)
        /\ \A k \in 1 .. Len(regex) : regex[k] \in Seq(Pieces)
    BY EmptySeq DEF DecomposeInv
  <1>2. branches = [k \in 1 .. Len(regex) |-> WrittenBranch(regex[k])]
    BY <1>1 DEF DecomposeInv, SplitsAtTopLevel
  <1> QED  BY <1>1, <1>2

LEMMA ExtractedTypes ==
    ASSUME NEW branch \in Text
    PROVE  ExtractLiterals(branch) \in Seq(Literal)
PROOF
  <1> DEFINE end == ExtractUpTo(branch)[Len(branch)]
  <1>1. end \in ExtractStates
    <2>1. Len(branch) \in 0 .. Len(branch)
      BY DEF Text
    <2> QED  BY <2>1, ExtractScan DEF IsExtractScan
  <1>2. ExtractLiterals(branch) = Flush(end).found
    BY DEF ExtractLiterals
  <1> HIDE DEF end
  <1>3. Flush(end) \in ExtractStates
    BY <1>1, FlushTypes
  <1> QED  BY <1>2, <1>3 DEF ExtractStates

LEMMA SplitKeeps ==
    ASSUME DecomposeInv, Split
    PROVE  DecomposeInv'
PROOF
  <1>1. /\ regex' = regex /\ literals' = literals /\ stage = "split" /\ stage' = "extract"
        /\ branches' = SplitTopLevel(Written) /\ branches = <<>>
        /\ regex \in Seq(Seq(Pieces)) /\ regex # <<>> /\ literals \in Seq(Seq(Literal))
    BY DEF Split, DecomposeInv
  <1> DEFINE B == [k \in DOMAIN regex |-> WrittenBranch(regex[k])]
  <1>2. branches' = B
    BY <1>1, WrittenSplits
  <1>3. B \in Seq(Text)
    <2>1. Len(regex) \in Nat /\ DOMAIN regex = 1 .. Len(regex)
          /\ \A k \in 1 .. Len(regex) : regex[k] \in Seq(Pieces)
      BY <1>1
    <2>2. \A k \in 1 .. Len(regex) : WrittenBranch(regex[k]) \in Text
      <3> DEFINE none == <<>>
      <3>1. none \in Text
        BY DEF Text
      <3>2. IsSplitScan(SplitUpTo(none), none)
        BY <3>1, SplitScan
      <3> HIDE DEF none
      <3> QED  BY <2>1, <3>1, <3>2, BranchIsTaken
    <2> QED  BY <2>1, <2>2
  <1>4. Len(literals) = 0
    <2>1. Len(literals) <= Len(<<>>) /\ Len(literals) \in Nat
      BY <1>1 DEF DecomposeInv
    <2> QED  BY <2>1
  <1>5. SplitsAtTopLevel'
    BY <1>1, <1>2 DEF SplitsAtTopLevel
  <1>6. Len(B) \in Nat
    BY <1>3
  <1> HIDE DEF B
  <1> QED  BY <1>1, <1>2, <1>3, <1>4, <1>5, <1>6 DEF DecomposeInv

LEMMA ExtractKeeps ==
    ASSUME DecomposeInv, Extract
    PROVE  DecomposeInv'
PROOF
  <1> DEFINE N == Len(literals)
             next == ExtractLiterals(branches[N + 1])
  <1>1. /\ regex' = regex /\ branches' = branches /\ stage = "extract" /\ stage' = stage
        /\ N < Len(branches) /\ literals' = Append(literals, next)
        /\ literals \in Seq(Seq(Literal)) /\ branches \in Seq(Text)
        /\ \A k \in 1 .. N : literals[k] = ExtractLiterals(branches[k])
    BY DEF Extract, DecomposeInv
  <1>2. N \in Nat /\ Len(branches) \in Nat /\ N + 1 \in 1 .. Len(branches)
    BY <1>1
  <1>3. next \in Seq(Literal)
    BY <1>1, <1>2, ExtractedTypes
  <1> HIDE DEF next
  <1>4. /\ literals' \in Seq(Seq(Literal)) /\ Len(literals') = N + 1
        /\ \A k \in 1 .. N : literals'[k] = literals[k]
        /\ literals'[N + 1] = next
    BY <1>1, <1>3, AppendProperties
  <1>5. ASSUME NEW k \in 1 .. N + 1 PROVE literals'[k] = ExtractLiterals(branches[k])
    <2>1. CASE k = N + 1
      BY <1>4, <2>1 DEF next
    <2>2. CASE k # N + 1
      <3>1. k \in 1 .. N
        BY <1>2, <2>2
      <3> QED  BY <1>1, <1>4, <3>1
    <2> QED  BY <2>1, <2>2
  <1>6. SplitsAtTopLevel'
    BY <1>1 DEF SplitsAtTopLevel, DecomposeInv
  <1>7. Len(literals') <= Len(branches')
    BY <1>1, <1>2, <1>4
  <1>8. \A k \in 1 .. Len(literals') : literals'[k] = ExtractLiterals(branches'[k])
    BY <1>1, <1>4, <1>5
  <1>9. stage' # "split" /\ regex' \in Seq(Seq(Pieces)) /\ regex' # <<>>
    BY <1>1 DEF DecomposeInv
  <1> QED  BY <1>1, <1>4, <1>6, <1>7, <1>8, <1>9 DEF DecomposeInv

LEMMA DecomposeStays ==
    ASSUME DecomposeInv, UNCHANGED <<regex, branches, literals>>, stage # "split", stage' # "split"
    PROVE  DecomposeInv'
PROOF
  BY DEF DecomposeInv, SplitsAtTopLevel

LEMMA DecomposeInitially ==
    ASSUME DecomposeInit
    PROVE  DecomposeInv
PROOF
  <1>1. PICK n \in 1 .. MaxBranches : regex \in [1 .. n -> UpTo(Pieces, MaxPieces)]
    BY DEF DecomposeInit, UpTo
  <1>2. UpTo(Pieces, MaxPieces) \subseteq Seq(Pieces)
    <2> SUFFICES ASSUME NEW k \in 1 .. MaxPieces, NEW b \in [1 .. k -> Pieces] PROVE b \in Seq(Pieces)
      BY DEF UpTo
    <2>1. k \in Nat
      OBVIOUS
    <2> QED  BY <2>1
  <1>3. n \in Nat /\ n > 0
    OBVIOUS
  <1>4. regex \in [1 .. n -> Seq(Pieces)]
    BY <1>1, <1>2
  <1>5. regex \in Seq(Seq(Pieces)) /\ regex # <<>>
    <2>1. regex \in Seq(Seq(Pieces)) /\ Len(regex) = n
      BY <1>3, <1>4
    <2> QED  BY <1>3, <2>1
  <1>6. branches = <<>> /\ literals = <<>> /\ stage = "split"
    BY DEF DecomposeInit
  <1> QED  BY <1>5, <1>6 DEF DecomposeInv, SplitsAtTopLevel

\* A plan depends on literals and weights only.
LEMMA PlanningStays ==
    ASSUME UNCHANGED <<literals, weight>>
    PROVE  /\ TrigramsOfBranches' = TrigramsOfBranches /\ CoveringOfBranches' = CoveringOfBranches
           /\ Unfiltered' <=> Unfiltered
           /\ HasSparse' <=> HasSparse
           /\ UsesSparse(told)' <=> UsesSparse(told')
           /\ Explain' = Explain
PROOF
  <1>1. TrigramsOfBranches' = TrigramsOfBranches /\ CoveringOfBranches' = CoveringOfBranches
    BY DEF TrigramsOfBranches, CoveringOfBranches
  <1>2. (Unfiltered' <=> Unfiltered) /\ (HasSparse' <=> HasSparse)
    BY <1>1 DEF Unfiltered, HasSparse
  <1>3. UsesSparse(told)' <=> UsesSparse(told')
    BY <1>1, <1>2 DEF UsesSparse
  <1>4. Explain' = Explain
    BY <1>1, <1>2 DEF Explain
  <1> QED  BY <1>1, <1>2, <1>3, <1>4

LEMMA DecomposingKeeps ==
    ASSUME PlannerInv, Split \/ Extract, UNCHANGED planVars
    PROVE  PlannerInv'
PROOF
  <1>1. DecomposeInv'
    BY SplitKeeps, ExtractKeeps DEF PlannerInv
  <1>2. stage \in {"split", "extract"} /\ stage' = "extract"
    BY DEF Split, Extract
  <1>3. /\ weight' = weight /\ strategy' = strategy /\ told' = told /\ plan' = plan
        /\ score' = score
    BY DEF planVars
  <1>4. ~Planned /\ ~Planned'
    BY <1>2 DEF Planned
  <1> QED  BY <1>1, <1>2, <1>3, <1>4 DEF PlannerInv

LEMMA PlanQueryKeeps ==
    ASSUME PlannerInv, NEW override \in Overrides, PlanQuery(override)
    PROVE  PlannerInv'
PROOF
  <1>1. /\ stage = "extract" /\ stage' = "planned" /\ Len(literals) = Len(branches)
        /\ told' = override /\ UNCHANGED <<regex, branches, literals>>
        /\ UNCHANGED <<literals, weight>>
    BY DEF PlanQuery
  <1>2. DecomposeInv'
    BY <1>1, DecomposeStays DEF PlannerInv
  <1>3. ~Planned /\ Planned'
    BY <1>1 DEF Planned
  <1>4. plan = NoPlan /\ strategy = "Trigram" /\ score = NoScore
    BY <1>3 DEF PlannerInv
  <1>5. /\ Unfiltered' <=> Unfiltered
        /\ UsesSparse(told)' <=> UsesSparse(override)
        /\ TrigramsOfBranches' = TrigramsOfBranches /\ CoveringOfBranches' = CoveringOfBranches
    BY <1>1, PlanningStays
  <1> DEFINE Result ==
                IF Unfiltered THEN plan = NoPlan /\ strategy = "Trigram" /\ score = NoScore
                ELSE IF UsesSparse(told)
                THEN /\ strategy = "Sparse" /\ plan = PlanOf(CoveringOfBranches)
                     /\ score = ScorePlan(CoveringOfBranches)
                ELSE /\ strategy = "Trigram" /\ plan = PlanOf(TrigramsOfBranches)
                     /\ score = ScorePlan(TrigramsOfBranches)
  <1>6. Result' /\ strategy' \in Strategies
    <2>1. CASE Unfiltered /\ UNCHANGED <<plan, strategy, score>>
      BY <1>4, <1>5, <2>1 DEF Strategies
    <2>2. CASE ~Unfiltered /\ UsesSparse(override) /\ Adopt("Sparse", CoveringOfBranches)
      BY <1>5, <2>2 DEF Strategies, Adopt, PlanOf
    <2>3. CASE ~Unfiltered /\ ~UsesSparse(override) /\ Adopt("Trigram", TrigramsOfBranches)
      BY <1>5, <2>3 DEF Strategies, Adopt, PlanOf
    <2> QED  BY <2>1, <2>2, <2>3 DEF PlanQuery
  <1>7. weight' \in Weightings /\ told' \in Overrides \cup {"Auto"} /\ Len(literals') = Len(branches')
    BY <1>1 DEF PlannerInv
  <1> QED  BY <1>1, <1>2, <1>3, <1>6, <1>7 DEF PlannerInv

LEMMA DiagnoseKeeps ==
    ASSUME PlannerInv, Diagnose
    PROVE  PlannerInv'
PROOF
  <1>1. /\ stage = "planned" /\ stage' = "explained" /\ report' = Explain
        /\ UNCHANGED <<regex, branches, literals>> /\ UNCHANGED <<literals, weight>>
        /\ UNCHANGED <<plan, strategy, score, told>>
    BY DEF Diagnose
  <1>2. DecomposeInv'
    BY <1>1, DecomposeStays DEF PlannerInv
  <1>3. Planned /\ Planned'
    BY <1>1 DEF Planned
  <1>4. /\ Unfiltered' <=> Unfiltered
        /\ UsesSparse(told)' <=> UsesSparse(told)
        /\ TrigramsOfBranches' = TrigramsOfBranches /\ CoveringOfBranches' = CoveringOfBranches
        /\ report' = Explain'
    BY <1>1, PlanningStays
  <1>5. PlanOf(TrigramsOfBranches)' = PlanOf(TrigramsOfBranches)
        /\ PlanOf(CoveringOfBranches)' = PlanOf(CoveringOfBranches)
        /\ ScorePlan(TrigramsOfBranches)' = ScorePlan(TrigramsOfBranches)
        /\ ScorePlan(CoveringOfBranches)' = ScorePlan(CoveringOfBranches)
    BY <1>4 DEF PlanOf
  <1> QED  BY <1>1, <1>2, <1>3, <1>4, <1>5 DEF PlannerInv

LEMMA PlannerStutters ==
    ASSUME PlannerInv, UNCHANGED allVars
    PROVE  PlannerInv'
PROOF
  <1>1. /\ regex' = regex /\ branches' = branches /\ literals' = literals /\ stage' = stage
        /\ weight' = weight /\ plan' = plan /\ strategy' = strategy /\ score' = score
        /\ told' = told /\ report' = report
    BY DEF allVars, regexVars, planVars
  <1>2. DecomposeInv'
    BY <1>1 DEF PlannerInv, DecomposeInv, SplitsAtTopLevel
  <1>3. /\ Unfiltered' <=> Unfiltered
        /\ UsesSparse(told)' <=> UsesSparse(told)
        /\ TrigramsOfBranches' = TrigramsOfBranches /\ CoveringOfBranches' = CoveringOfBranches
        /\ Explain' = Explain
    BY <1>1, PlanningStays
  <1>4. PlanOf(TrigramsOfBranches)' = PlanOf(TrigramsOfBranches)
        /\ PlanOf(CoveringOfBranches)' = PlanOf(CoveringOfBranches)
        /\ ScorePlan(TrigramsOfBranches)' = ScorePlan(TrigramsOfBranches)
        /\ ScorePlan(CoveringOfBranches)' = ScorePlan(CoveringOfBranches)
    BY <1>3 DEF PlanOf
  <1>5. Planned' <=> Planned
    BY <1>1 DEF Planned
  <1> QED  BY <1>1, <1>2, <1>3, <1>4, <1>5 DEF PlannerInv

\* What split_top_level_alternation, extract_literals and plan_query_full have
\* computed, at every stage.
THEOREM PlannerInvariant == Spec => []PlannerInv
PROOF
  <1>1. Init => PlannerInv
    <2> SUFFICES ASSUME Init PROVE PlannerInv
      OBVIOUS
    <2>1. DecomposeInv /\ stage = "split"
      BY DecomposeInitially DEF Init, DecomposeInit
    <2>2. ~Planned
      BY <2>1 DEF Planned
    <2> QED  BY <2>1, <2>2 DEF Init, PlannerInv, Strategies
  <1>2. PlannerInv /\ [Next]_allVars => PlannerInv'
    <2> SUFFICES ASSUME PlannerInv, [Next]_allVars PROVE PlannerInv'
      OBVIOUS
    <2>1. CASE (Split \/ Extract) /\ UNCHANGED planVars
      BY <2>1, DecomposingKeeps
    <2>2. CASE \E override \in Overrides : PlanQuery(override)
      BY <2>2, PlanQueryKeeps
    <2>3. CASE Diagnose
      BY <2>3, DiagnoseKeeps
    <2>4. CASE UNCHANGED allVars
      BY <2>4, PlannerStutters
    <2> QED  BY <2>1, <2>2, <2>3, <2>4 DEF Next
  <1> QED  BY <1>1, <1>2, PTL DEF Spec


-----------------------------------------------------------------------------
(* What the invariant says of the plan.                                    *)

\* Literals are what extract_literals has flushed, three letters at least, and
\* no more branches have literals than there are.
THEOREM PlannerTypeCorrect == Spec => []TypeOK
PROOF
  <1>1. PlannerInv => TypeOK
    <2> SUFFICES ASSUME PlannerInv PROVE TypeOK
      OBVIOUS
    <2>1. literals \in Seq(Seq(Literal))
      BY DEF PlannerInv, DecomposeInv
    <2>2. ASSUME NEW k \in DOMAIN literals, NEW m \in DOMAIN literals[k]
          PROVE  Len(literals[k][m]) >= 3
      <3>1. literals[k] \in Seq(Literal)
        BY <2>1
      <3>2. literals[k][m] \in Literal
        BY <3>1
      <3> QED  BY <3>2 DEF Literal
    <2> QED  BY <2>2 DEF PlannerInv, DecomposeInv, TypeOK
  <1> QED  BY <1>1, PlannerInvariant, PTL

\* split_top_level_alternation cuts the pattern at the bars between branches,
\* never in a group, a bracket or behind a backslash, and loses no character.
THEOREM SplitIsExact == Spec => []SplitsAtTopLevel
PROOF
  <1>1. PlannerInv => SplitsAtTopLevel
    BY DEF PlannerInv, DecomposeInv
  <1> QED  BY <1>1, PlannerInvariant, PTL

\* The literals of the branches, and what is made of them.
LEMMA LiteralTypes ==
    ASSUME PlannerInv, Planned
    PROVE  /\ Len(literals) = Len(regex) /\ Len(branches) = Len(regex)
           /\ Len(regex) \in Nat /\ Len(regex) > 0
           /\ DOMAIN literals = 1 .. Len(regex) /\ DOMAIN regex = 1 .. Len(regex)
           /\ \A k \in 1 .. Len(regex) :
                 /\ regex[k] \in Seq(Pieces)
                 /\ literals[k] \in Seq(Literal)
                 /\ literals[k] = ExtractLiterals(WrittenBranch(regex[k]))
                 /\ TrigramsOfBranches[k] = UNION {Trigrams(x) : x \in ToSet(literals[k])}
                 /\ CoveringOfBranches[k] = UNION {CoveringGrams(x, weight) : x \in ToSet(literals[k])}
           /\ TrigramsOfBranches = [k \in 1 .. Len(regex) |-> TrigramsOfBranches[k]]
           /\ CoveringOfBranches = [k \in 1 .. Len(regex) |-> CoveringOfBranches[k]]
PROOF
  <1>1. DecomposeInv /\ stage # "split" /\ Len(literals) = Len(branches)
    BY DEF PlannerInv, Planned
  <1>2. /\ Len(regex) \in Nat /\ Len(regex) > 0 /\ DOMAIN regex = 1 .. Len(regex)
        /\ \A k \in 1 .. Len(regex) : regex[k] \in Seq(Pieces)
        /\ Len(branches) = Len(regex)
        /\ \A k \in 1 .. Len(regex) : branches[k] = WrittenBranch(regex[k])
    BY <1>1, BranchTypes
  <1>3. /\ literals \in Seq(Seq(Literal))
        /\ \A k \in 1 .. Len(literals) : literals[k] = ExtractLiterals(branches[k])
    BY <1>1 DEF DecomposeInv
  <1>4. DOMAIN literals = 1 .. Len(regex) /\ \A k \in 1 .. Len(regex) : literals[k] \in Seq(Literal)
    BY <1>1, <1>2, <1>3
  <1>5. \A k \in 1 .. Len(regex) : literals[k] = ExtractLiterals(WrittenBranch(regex[k]))
    BY <1>1, <1>2, <1>3
  <1>6. /\ TrigramsOfBranches = [k \in 1 .. Len(regex) |-> UNION {Trigrams(x) : x \in ToSet(literals[k])}]
        /\ CoveringOfBranches = [k \in 1 .. Len(regex) |->
                                    UNION {CoveringGrams(x, weight) : x \in ToSet(literals[k])}]
    BY <1>4 DEF TrigramsOfBranches, CoveringOfBranches
  <1> QED  BY <1>1, <1>2, <1>4, <1>5, <1>6

\* A branch passes a text it matches.
LEMMA BranchPasses ==
    ASSUME PlannerInv, Planned, Plain,
           \A k \in DOMAIN literals : \A m \in DOMAIN literals[k] : Untied(literals[k][m], weight),
           NEW k \in 1 .. Len(regex), NEW text \in BranchTexts(regex[k])
    PROVE  TrigramsOfBranches[k] \subseteq GramsInIndex(text)
           /\ CoveringOfBranches[k] \subseteq GramsInIndex(text)
PROOF
  <1> DEFINE found == literals[k]
  <1>1. /\ regex[k] \in Seq(Pieces) /\ DOMAIN regex = 1 .. Len(regex) /\ found \in Seq(Literal)
        /\ found = ExtractLiterals(WrittenBranch(regex[k])) /\ k \in DOMAIN literals
        /\ TrigramsOfBranches[k] = UNION {Trigrams(x) : x \in ToSet(found)}
        /\ CoveringOfBranches[k] = UNION {CoveringGrams(x, weight) : x \in ToSet(found)}
    BY LiteralTypes
  <1>2. \A m \in 1 .. Len(regex[k]) : PlainPiece(regex[k][m])
    <2>1. DOMAIN regex[k] = 1 .. Len(regex[k])
      BY <1>1
    <2> QED  BY <1>1, <2>1 DEF Plain, PlainPiece
  <1>3. text \in Text /\ \A m \in 1 .. Len(found) : Within(text, found[m])
    BY <1>1, <1>2, LiteralsAreMatched
  <1>4. weight \in Weightings
    BY DEF PlannerInv
  <1> HIDE DEF found
  <1>5. ASSUME NEW x \in ToSet(found)
        PROVE  Trigrams(x) \subseteq GramsInIndex(text) /\ CoveringGrams(x, weight) \subseteq GramsInIndex(text)
    <2>1. PICK m \in 1 .. Len(found) : x = found[m]
      BY <1>1 DEF ToSet
    <2>2. x \in Literal /\ Within(text, x) /\ Untied(x, weight)
      <3>1. m \in DOMAIN found
        BY <1>1
      <3>2. Untied(found[m], weight)
        BY <1>1, <3>1 DEF found
      <3> QED  BY <1>1, <1>3, <2>1, <3>1, <3>2
    <2>3. Trigrams(x) \subseteq Trigrams(text)
      <3>1. x \in Seq(Characters) /\ text \in Seq(Characters)
        BY <1>3, <2>2 DEF Literal, Text
      <3> QED  BY <2>2, <3>1, TrigramsWithin
    <2>4. CoveringGrams(x, weight) \subseteq SparseGrams(text, weight)
      BY <1>3, <1>4, <2>2, CoveringWithin
    <2> QED  BY <2>3, <2>4 DEF GramsInIndex
  <1> QED  BY <1>1, <1>5

\* A plan passes what one of its branches passes.
LEMMA PlanPasses ==
    ASSUME NEW grams, NEW N \in Nat, N > 0, DOMAIN grams = 1 .. N, Len(grams) = N,
           plan = PlanOf(grams), NEW all, NEW k \in 1 .. N, grams[k] \subseteq all
    PROVE  Passes(all)
PROOF
  <1>1. CASE N = 1
    <2>1. plan.required = grams[1] /\ plan.alternatives = {} /\ k = 1
      BY <1>1 DEF PlanOf, NoPlan
    <2> QED  BY <2>1 DEF Passes
  <1>2. CASE N # 1
    <2>1. plan.required = {} /\ plan.alternatives = ToSet(grams)
      BY <1>2 DEF PlanOf, NoPlan
    <2>2. grams[k] \in ToSet(grams)
      BY DEF ToSet
    <2> QED  BY <2>1, <2>2 DEF Passes
  <1> QED  BY <1>1, <1>2

\* No false negatives for a plain regex: resolve_candidates_from_plan keeps a
\* file with a matched text, whichever strategy the planner has taken, if no two
\* pairs of a literal weigh the same.
THEOREM PlainRegexesAreSound == Spec => []PlainIsSound
PROOF
  <1>1. PlannerInv => PlainIsSound
    <2> SUFFICES ASSUME PlannerInv PROVE PlainIsSound
      OBVIOUS
    <2> SUFFICES ASSUME Plain, stage = "planned",
                        \A k \in DOMAIN literals : \A m \in DOMAIN literals[k] :
                            Untied(literals[k][m], weight),
                        NEW text \in Texts
                 PROVE  Passes(GramsInIndex(text))
      BY DEF PlainIsSound, Sound
    <2> DEFINE N == Len(regex)
               all == GramsInIndex(text)
               trigrams == TrigramsOfBranches
               covering == CoveringOfBranches
    <2>1. Planned
      BY DEF Planned
    <2>2. /\ N \in Nat /\ N > 0 /\ DOMAIN regex = 1 .. N
          /\ trigrams = [k \in 1 .. N |-> trigrams[k]] /\ covering = [k \in 1 .. N |-> covering[k]]
      BY <2>1, LiteralTypes
    <2>3. PICK k \in 1 .. N : text \in BranchTexts(regex[k])
      BY <2>2 DEF Texts
    <2>4. trigrams[k] \subseteq all /\ covering[k] \subseteq all
      BY <2>1, <2>3, BranchPasses
    <2>5. DOMAIN trigrams = 1 .. N /\ Len(trigrams) = N /\ DOMAIN covering = 1 .. N /\ Len(covering) = N
      <3> HIDE DEF trigrams, covering, N
      <3> QED  BY <2>2
    <2>6. \/ plan = NoPlan
          \/ plan = PlanOf(covering)
          \/ plan = PlanOf(trigrams)
      BY <2>1 DEF PlannerInv
    <2> HIDE DEF N, all, trigrams, covering
    <2>7. CASE plan = NoPlan
      BY <2>7 DEF Passes, NoPlan
    <2>8. CASE plan = PlanOf(covering)
      <3>1. Passes(all)
        BY <2>2, <2>4, <2>5, <2>8, PlanPasses
      <3> QED  BY <3>1 DEF all
    <2>9. CASE plan = PlanOf(trigrams)
      <3>1. Passes(all)
        BY <2>2, <2>4, <2>5, <2>9, PlanPasses
      <3> QED  BY <3>1 DEF all
    <2> QED  BY <2>6, <2>7, <2>8, <2>9
  <1> QED  BY <1>1, PlannerInvariant, PTL

-----------------------------------------------------------------------------
(* The diagnostics.                                                        *)

\* Literals have n-grams unless there are none.
TrigramsOf(found) == UNION {Trigrams(x) : x \in ToSet(found)}
CoveringOf(found, f) == UNION {CoveringGrams(x, f) : x \in ToSet(found)}

LEMMA GramsOfLiterals ==
    ASSUME NEW found \in Seq(Literal), NEW f
    PROVE  /\ IsFiniteSet(TrigramsOf(found)) /\ IsFiniteSet(CoveringOf(found, f))
           /\ TrigramsOf(found) = {} <=> found = <<>>
           /\ CoveringOf(found, f) = {} <=> found = <<>>
PROOF
  <1> DEFINE tri == [x \in Literal |-> Trigrams(x)]
             cov == [x \in Literal |-> CoveringGrams(x, f)]
  <1>1. /\ \A x \in Literal : IsFiniteSet(tri[x]) /\ tri[x] # {}
        /\ \A x \in Literal : IsFiniteSet(cov[x]) /\ cov[x] # {}
    BY TrigramsOfLiteral, CoveringOfLiteral
  <1>2. ToSet(found) \subseteq Literal
    BY DEF ToSet
  <1>3. TrigramsOf(found) = GramsOf(tri, found)
    BY <1>2 DEF GramsOf, TrigramsOf
  <1>4. CoveringOf(found, f) = GramsOf(cov, found)
    BY <1>2 DEF GramsOf, CoveringOf
  <1> HIDE DEF tri, cov
  <1>5. IsFiniteSet(GramsOf(tri, found)) /\ (GramsOf(tri, found) = {} <=> found = <<>>)
    BY <1>1, UnionOfGrams
  <1>6. IsFiniteSet(GramsOf(cov, found)) /\ (GramsOf(cov, found) = {} <=> found = <<>>)
    BY <1>1, UnionOfGrams
  <1> QED  BY <1>3, <1>4, <1>5, <1>6

\* A branch without a literal has no n-grams of either kind.
LEMMA GramsOfBranches ==
    ASSUME PlannerInv, Planned, NEW k \in 1 .. Len(regex)
    PROVE  /\ IsFiniteSet(TrigramsOfBranches[k]) /\ IsFiniteSet(CoveringOfBranches[k])
           /\ TrigramsOfBranches[k] = {} <=> literals[k] = <<>>
           /\ CoveringOfBranches[k] = {} <=> literals[k] = <<>>
PROOF
  <1>1. /\ literals[k] \in Seq(Literal)
        /\ TrigramsOfBranches[k] = TrigramsOf(literals[k])
        /\ CoveringOfBranches[k] = CoveringOf(literals[k], weight)
    BY LiteralTypes DEF TrigramsOf, CoveringOf
  <1> QED  BY <1>1, GramsOfLiterals

\* A branch with a literal has more n-grams in its covering than trigrams.
LEMMA CoveringOfBranchIsLarger ==
    ASSUME PlannerInv, Planned, NEW k \in 1 .. Len(regex), literals[k] # <<>>
    PROVE  Cardinality(CoveringOfBranches[k]) > Cardinality(TrigramsOfBranches[k])
PROOF
  <1> DEFINE found == literals[k]
             G == CoveringOfBranches[k]
             T == TrigramsOfBranches[k]
  <1>1. /\ found \in Seq(Literal) /\ IsFiniteSet(G)
        /\ T = UNION {Trigrams(x) : x \in ToSet(found)}
        /\ G = UNION {CoveringGrams(x, weight) : x \in ToSet(found)}
        /\ weight \in Weightings
    BY LiteralTypes, GramsOfBranches DEF PlannerInv
  <1>2. ASSUME NEW x \in ToSet(found)
        PROVE  /\ \A t \in Trigrams(x) : \E g \in CoveringGrams(x, weight) :
                     Len(g) >= 3 /\ SubSeq(g, 1, 3) = t
               /\ \E g \in CoveringGrams(x, weight) : Len(g) = 2
    <2> DEFINE L == Len(x) - 1
    <2>1. x \in Literal
      BY <1>1 DEF ToSet
    <2>2. x \in Text /\ x \in Seq(Characters) /\ L \in Nat /\ L > 0 /\ Len(x) = L + 1
      BY <2>1 DEF Literal, Text
    <2>3. Has(x, 0, x)
      BY <2>2, HasItself
    <2>4. PairWeights(x, weight) \in [1 .. L -> Nat]
      BY <1>1, <2>1, <2>2, <2>3, WeightsWithin
    <2> HIDE DEF L
    <2> QED  BY <2>2, <2>4, TrigramsBeginGrams
  <1>3. \E x : x \in ToSet(found)
    <2>1. Len(found) > 0 /\ found[1] \in ToSet(found)
      BY <1>1, EmptySeq DEF ToSet
    <2> QED  BY <2>1
  <1> HIDE DEF found, G, T
  <1>4. \A t \in T : \E g \in G : Len(g) >= 3 /\ SubSeq(g, 1, 3) = t
    <2> SUFFICES ASSUME NEW t \in T PROVE \E g \in G : Len(g) >= 3 /\ SubSeq(g, 1, 3) = t
      OBVIOUS
    <2>1. PICK x \in ToSet(found) : t \in Trigrams(x)
      BY <1>1
    <2>2. PICK g \in CoveringGrams(x, weight) : Len(g) >= 3 /\ SubSeq(g, 1, 3) = t
      BY <1>2, <2>1
    <2>3. g \in G
      BY <1>1, <2>1, <2>2
    <2> QED  BY <2>2, <2>3
  <1>5. \E g \in G : Len(g) = 2
    <2>1. PICK x : x \in ToSet(found)
      BY <1>3
    <2>2. PICK g \in CoveringGrams(x, weight) : Len(g) = 2
      BY <1>2, <2>1
    <2>3. g \in G
      BY <1>1, <2>1, <2>2
    <2> QED  BY <2>2, <2>3
  <1>6. Cardinality(G) > Cardinality(T)
    BY <1>1, <1>4, <1>5, FewerTrigrams
  <1> QED  BY <1>6 DEF G, T

\* What is more in every branch is more in all of them.
LEMMA MoreLookups ==
    ASSUME NEW N \in Nat, N > 0, NEW few, NEW many,
           few = [k \in 1 .. N |-> few[k]], many = [k \in 1 .. N |-> many[k]],
           \A k \in 1 .. N : IsFiniteSet(few[k]) /\ IsFiniteSet(many[k]),
           \A k \in 1 .. N : Cardinality(many[k]) > Cardinality(few[k])
    PROVE  ScorePlan(many).lookups > ScorePlan(few).lookups
PROOF
  <1> DEFINE a == LookupsUpTo(few)
             b == LookupsUpTo(many)
  <1>1. Len(few) = N /\ Len(many) = N
    OBVIOUS
  <1>2. IsLookups(a, few) /\ IsLookups(b, many)
    BY <1>1, LookupsScan
  <1>3. \A k \in 1 .. N : Cardinality(few[k]) \in Nat /\ Cardinality(many[k]) \in Nat
    BY FS_CardinalityType
  <1>4. ScorePlan(few).lookups = a[N] /\ ScorePlan(many).lookups = b[N]
    BY <1>1 DEF ScorePlan
  <1> HIDE DEF a, b
  <1>5. /\ a \in [0 .. N -> Nat] /\ a[0] = 0 /\ b \in [0 .. N -> Nat] /\ b[0] = 0
        /\ \A k \in 1 .. N : a[k] = a[k - 1] + Cardinality(few[k])
        /\ \A k \in 1 .. N : b[k] = b[k - 1] + Cardinality(many[k])
    BY <1>1, <1>2 DEF IsLookups
  <1> DEFINE U == {m \in 0 .. N : m = 0 \/ b[m] > a[m]}
  <1>6. 0 \in U /\ U \in SUBSET (0 .. N)
    OBVIOUS
  <1>7. ASSUME NEW k \in 1 .. N, k - 1 \in U PROVE k \in U
    <2>1. k \in 0 .. N /\ k - 1 \in 0 .. N
      OBVIOUS
    <2>2. b[k - 1] >= a[k - 1] /\ a[k - 1] \in Nat /\ b[k - 1] \in Nat
      BY <1>5, <1>7, <2>1
    <2>3. b[k] > a[k]
      BY <1>3, <1>5, <2>2
    <2> QED  BY <2>1, <2>3
  <1>8. U = 0 .. N
    <2> HIDE DEF U
    <2> QED  BY <1>6, <1>7, UpToInduction
  <1>9. b[N] > a[N]
    <2>1. N \in U
      <3>1. N \in 0 .. N
        OBVIOUS
      <3> HIDE DEF U
      <3> QED  BY <1>8, <3>1
    <2> QED  BY <2>1
  <1> QED  BY <1>4, <1>9

\* The lookups of a plan are those of its n-grams, shared ones more than once.
LEMMA PlanLookups ==
    ASSUME NEW grams, NEW N \in Nat, N > 0, grams = [k \in 1 .. N |-> grams[k]],
           \A k \in 1 .. N : IsFiniteSet(grams[k])
    PROVE  LET p == PlanOf(grams)
               lookups == ScorePlan(grams).lookups
           IN  /\ Cardinality(p.required \cup UNION p.alternatives) <= lookups
               /\ lookups <= Cardinality(p.required) + N * Cardinality(UNION p.alternatives)
               /\ lookups = 0 <=> \A k \in 1 .. N : grams[k] = {}
PROOF
  <1> DEFINE S == {grams[k] : k \in 1 .. N}
             lookups == LookupsUpTo(grams)[Len(grams)]
             all == UNION ToSet(grams)
             C == Cardinality(all)
             p == PlanOf(grams)
  <1>1. grams \in Seq(S) /\ Len(grams) = N /\ DOMAIN grams = 1 .. N
    OBVIOUS
  <1> HIDE DEF S
  <1>2. /\ lookups \in Nat /\ C \in Nat
        /\ C <= lookups /\ lookups <= N * C
        /\ lookups = 0 <=> \A k \in 1 .. N : grams[k] = {}
    BY <1>1, LookupsBound
  <1>3. ScorePlan(grams).lookups = lookups
    BY DEF ScorePlan
  <1> HIDE DEF lookups
  <1>4. CASE N = 1
    <2>1. p.required = grams[1] /\ p.alternatives = {}
      BY <1>1, <1>4 DEF PlanOf, NoPlan
    <2>2. all = grams[1]
      BY <1>1, <1>4 DEF ToSet
    <2> HIDE DEF all, p
    <2>3. p.required \cup UNION p.alternatives = all /\ p.required = all /\ UNION p.alternatives = {}
      BY <2>1, <2>2
    <2>4. lookups <= C + N * Cardinality(UNION p.alternatives)
      <3>1. Cardinality(UNION p.alternatives) = 0
        BY <2>3, FS_EmptySet
      <3>2. lookups <= C
        BY <1>2, <1>4
      <3> HIDE DEF C
      <3> QED  BY <1>2, <1>4, <3>1, <3>2
    <2> QED  BY <1>2, <1>3, <2>3, <2>4 DEF p
  <1>5. CASE N # 1
    <2>1. p.required = {} /\ p.alternatives = ToSet(grams)
      BY <1>1, <1>5 DEF PlanOf, NoPlan
    <2> HIDE DEF p
    <2>2. p.required \cup UNION p.alternatives = all /\ UNION p.alternatives = all
      BY <2>1
    <2>3. Cardinality(p.required) = 0
      BY <2>1, FS_EmptySet
    <2> HIDE DEF all
    <2>4. lookups <= Cardinality(p.required) + N * Cardinality(UNION p.alternatives)
      <3>1. lookups <= N * C
        BY <1>2
      <3>2. N * C \in Int
        BY <1>2
      <3>3. UNION p.alternatives = all
        BY <2>2
      <3>4. Cardinality(p.required) + N * Cardinality(UNION p.alternatives) = N * C
        <4> HIDE DEF C
        <4>1. Cardinality(UNION p.alternatives) = C
          BY <3>3 DEF C
        <4> QED  BY <2>3, <3>2, <4>1
      <3> QED  BY <3>1, <3>4
    <2> QED  BY <1>2, <1>3, <2>2, <2>4 DEF p
  <1> QED  BY <1>4, <1>5

\* The literals shown are none exactly if no branch has one.
LEMMA NoLiterals ==
    ASSUME NEW S, NEW seqs \in Seq(Seq(S))
    PROVE  FlattenSeq(seqs) = <<>> <=> \A k \in 1 .. Len(seqs) : seqs[k] = <<>>
PROOF
  <1> DEFINE N == Len(seqs)
             flat == FlattenSeq(seqs)
  <1>1. PICK joined \in [0 .. N -> Seq(S)] : Joins(joined, seqs)
    BY FlattenJoins
  <1>2. N \in Nat /\ \A k \in 1 .. N : seqs[k] \in Seq(S)
    OBVIOUS
  <1>3. /\ joined[0] = <<>> /\ joined[N] = flat
        /\ \A m \in 1 .. N : joined[m] = joined[m - 1] \o seqs[m]
        /\ \A m \in 1 .. N : Has(flat, Len(joined[m - 1]), seqs[m])
    BY <1>1 DEF Joins
  <1> HIDE DEF N, flat
  <1>4. ASSUME flat = <<>>, NEW k \in 1 .. N PROVE seqs[k] = <<>>
    <2>1. k - 1 \in 0 .. N
      BY <1>2
    <2>2. Len(joined[k - 1]) \in Nat /\ Len(seqs[k]) \in Nat
      BY <1>1, <1>2, <2>1
    <2>3. Len(joined[k - 1]) + Len(seqs[k]) <= 0
      BY <1>3, <1>4 DEF Has
    <2>4. Len(seqs[k]) = 0
      <3> DEFINE x == Len(joined[k - 1])
                 y == Len(seqs[k])
      <3>1. x \in Nat /\ y \in Nat /\ x + y <= 0
        BY <2>2, <2>3
      <3> HIDE DEF x, y
      <3>2. y = 0
        BY <3>1
      <3> QED  BY <3>2 DEF y
    <2> QED  BY <1>2, <2>4, EmptySeq
  <1>5. ASSUME \A k \in 1 .. N : seqs[k] = <<>> PROVE flat = <<>>
    <2> DEFINE U == {m \in 0 .. N : joined[m] = <<>>}
    <2>1. 0 \in U /\ U \in SUBSET (0 .. N)
      BY <1>2, <1>3
    <2>2. ASSUME NEW k \in 1 .. N, k - 1 \in U PROVE k \in U
      <3>1. k \in 0 .. N /\ joined[k - 1] = <<>> /\ seqs[k] = <<>>
        BY <1>2, <1>5, <2>2
      <3>2. joined[k] = <<>> \o <<>>
        BY <1>3, <3>1
      <3> QED  BY <3>1, <3>2
    <2> HIDE DEF U
    <2>3. U = 0 .. N
      BY <1>2, <2>1, <2>2, UpToInduction
    <2>6. N \in U
      <3>1. N \in 0 .. N
        BY <1>2
      <3> QED  BY <2>3, <3>1
    <2>4. joined[N] = <<>>
      BY <2>6 DEF U
    <2> QED  BY <1>3, <2>4
  <1> QED  BY <1>4, <1>5 DEF N, flat

\* The lookups of the plan that was adopted, as its diagnostics count them.
LEMMA DiagnosedPlan ==
    ASSUME NEW grams, NEW N \in Nat, N = Len(branches), N > 0,
           grams = [k \in 1 .. N |-> grams[k]], \A k \in 1 .. N : IsFiniteSet(grams[k]),
           plan = PlanOf(grams), score = ScorePlan(grams)
    PROVE  /\ Cardinality(plan.required \cup UNION plan.alternatives) <= score.lookups
           /\ score.lookups <= Cardinality(plan.required)
                 + Len(branches) * Cardinality(UNION plan.alternatives)
PROOF
  BY PlanLookups

\* DiagnosticsMatchPlan: for every regex the rows of plan_diagnostics are those
\* that plan_query_full chose from, no n-gram of the plan is left uncounted, and
\* a sparse row always has the more lookups, so none is missing for that.
THEOREM DiagnosticsAlwaysMatch == Spec => []DiagnosticsMatchPlan
PROOF
  <1>1. PlannerInv => DiagnosticsMatchPlan
    <2> SUFFICES ASSUME PlannerInv, stage = "explained" PROVE DiagnosticsMatchPlan
      BY DEF DiagnosticsMatchPlan
    <2> DEFINE N == Len(regex)
               trigrams == TrigramsOfBranches
               covering == CoveringOfBranches
               Explained ==
                   /\ IF strategy = "Sparse" THEN report.sparse = {score} ELSE report.trigram = score
                   /\ strategy = "Sparse" <=>
                         /\ told # "ForceTrigram" /\ report.sparse # {}
                         /\ told = "Auto" => \A row \in report.sparse : row.total < report.trigram.total
               NoRow == report.sparse = {} <=> \E k \in DOMAIN literals : literals[k] = <<>>
               MoreSparse == \A row \in report.sparse : row.lookups > report.trigram.lookups
               NoLookup == report.literals = <<>> <=> report.trigram.lookups = 0
               Counted ==
                   /\ Cardinality(plan.required \cup UNION plan.alternatives) <= score.lookups
                   /\ score.lookups <= Cardinality(plan.required)
                         + Len(branches) * Cardinality(UNION plan.alternatives)
    <2>1. Planned /\ report = Explain
      BY DEF Planned, PlannerInv
    <2>2. /\ N \in Nat /\ N > 0 /\ Len(branches) = N /\ Len(literals) = N /\ DOMAIN literals = 1 .. N
          /\ trigrams = [k \in 1 .. N |-> trigrams[k]] /\ covering = [k \in 1 .. N |-> covering[k]]
      BY <2>1, LiteralTypes
    <2>3. \A k \in 1 .. N :
             /\ IsFiniteSet(trigrams[k]) /\ IsFiniteSet(covering[k])
             /\ trigrams[k] = {} <=> literals[k] = <<>>
             /\ covering[k] = {} <=> literals[k] = <<>>
      BY <2>1, GramsOfBranches
    <2>4. /\ Unfiltered <=> \A k \in 1 .. N : literals[k] = <<>>
          /\ HasSparse <=> \A k \in 1 .. N : literals[k] # <<>>
      BY <2>2, <2>3 DEF Unfiltered, HasSparse
    <2>5. FlattenSeq(literals) = <<>> <=> \A k \in 1 .. N : literals[k] = <<>>
      <3>1. literals \in Seq(Seq(Literal))
        BY DEF PlannerInv, DecomposeInv
      <3> QED  BY <2>2, <3>1, NoLiterals
    <2>6. report.literals = FlattenSeq(literals)
      BY <2>1 DEF Explain, NoReport
    <2>7. CASE Unfiltered
      <3>1. plan = NoPlan /\ strategy = "Trigram" /\ score = NoScore
        BY <2>1, <2>7 DEF PlannerInv
      <3>2. report.trigram = NoScore /\ report.sparse = {}
        BY <2>1, <2>7 DEF Explain, NoReport
      <3>3. Explained
        BY <3>1, <3>2
      <3>4. NoRow
        <4>1. 1 \in 1 .. N
          BY <2>2
        <4> QED  BY <2>2, <2>4, <2>7, <3>2, <4>1
      <3>5. NoLookup
        BY <2>4, <2>5, <2>6, <2>7, <3>2 DEF NoScore
      <3>6. Counted
        <4> DEFINE none == {}
        <4>1. plan.required \cup UNION plan.alternatives = none /\ plan.required = none
              /\ UNION plan.alternatives = none /\ score.lookups = 0
          BY <3>1 DEF NoPlan, NoScore
        <4>2. Cardinality(none) = 0
          BY FS_EmptySet
        <4> HIDE DEF N, none
        <4>3. /\ Cardinality(plan.required \cup UNION plan.alternatives) = 0
              /\ Cardinality(plan.required) = 0 /\ Cardinality(UNION plan.alternatives) = 0
          BY <4>1, <4>2
        <4>4. 0 + Len(branches) * 0 = 0
          BY <2>2
        <4> QED  BY <4>1, <4>3, <4>4
      <3>7. MoreSparse
        BY <3>2
      <3> QED  BY <3>3, <3>4, <3>5, <3>6, <3>7 DEF DiagnosticsMatchPlan
    <2>8. CASE ~Unfiltered
      <3>1. /\ report.trigram = ScorePlan(trigrams)
            /\ report.sparse = IF HasSparse THEN {ScorePlan(covering)} ELSE {}
        BY <2>1, <2>8 DEF Explain
      <3>2. IF UsesSparse(told)
            THEN strategy = "Sparse" /\ plan = PlanOf(covering) /\ score = ScorePlan(covering)
            ELSE strategy = "Trigram" /\ plan = PlanOf(trigrams) /\ score = ScorePlan(trigrams)
        BY <2>1, <2>8 DEF PlannerInv
      <3>3. UsesSparse(told) <=>
               /\ told # "ForceTrigram" /\ HasSparse
               /\ told = "Auto" => ScorePlan(covering).total < ScorePlan(trigrams).total
        BY DEF UsesSparse
      <3>4. Explained
        <4> DEFINE a == ScorePlan(trigrams)
                   b == ScorePlan(covering)
        <4>1. CASE UsesSparse(told)
          <5>1. report.sparse = {b} /\ report.trigram = a /\ score = b /\ strategy = "Sparse"
            BY <3>1, <3>2, <3>3, <4>1
          <5>2. told # "ForceTrigram" /\ (told = "Auto" => b.total < a.total)
            BY <3>3, <4>1
          <5> HIDE DEF a, b
          <5> QED  BY <5>1, <5>2
        <4>2. CASE ~UsesSparse(told)
          <5>1. report.trigram = a /\ score = a /\ strategy = "Trigram"
            BY <3>1, <3>2, <4>2
          <5>2. told = "ForceTrigram" \/ report.sparse = {}
                \/ (told = "Auto" /\ report.sparse = {b} /\ ~(b.total < a.total))
            BY <3>1, <3>3, <4>2
          <5> HIDE DEF a, b
          <5> QED  BY <5>1, <5>2
        <4> QED  BY <4>1, <4>2
      <3>5. NoRow
        BY <2>2, <2>4, <3>1
      <3>6. NoLookup
        <4>1. ScorePlan(trigrams).lookups = 0 <=> \A k \in 1 .. N : trigrams[k] = {}
          <5> HIDE DEF N, trigrams, covering
          <5> QED  BY <2>2, <2>3, PlanLookups
        <4> QED  BY <2>3, <2>5, <2>6, <3>1, <4>1
      <3>7. Counted
        <4>1. \/ plan = PlanOf(trigrams) /\ score = ScorePlan(trigrams)
              \/ plan = PlanOf(covering) /\ score = ScorePlan(covering)
          BY <3>2
        <4> HIDE DEF trigrams, covering
        <4>2. ASSUME plan = PlanOf(trigrams), score = ScorePlan(trigrams) PROVE Counted
          BY <2>2, <2>3, <4>2, DiagnosedPlan
        <4>3. ASSUME plan = PlanOf(covering), score = ScorePlan(covering) PROVE Counted
          BY <2>2, <2>3, <4>3, DiagnosedPlan
        <4> QED  BY <4>1, <4>2, <4>3
      <3>8. MoreSparse
        <4>1. ASSUME HasSparse PROVE ScorePlan(covering).lookups > ScorePlan(trigrams).lookups
          <5>1. \A k \in 1 .. N : literals[k] # <<>>
            BY <2>4, <4>1
          <5>2. \A k \in 1 .. N : Cardinality(covering[k]) > Cardinality(trigrams[k])
            BY <2>1, <5>1, CoveringOfBranchIsLarger
          <5> HIDE DEF N, trigrams, covering
          <5> QED  BY <2>2, <2>3, <5>2, MoreLookups
        <4>2. \A row \in report.sparse : HasSparse /\ row = ScorePlan(covering)
          BY <3>1
        <4> QED  BY <3>1, <4>1, <4>2
      <3> QED  BY <3>4, <3>5, <3>6, <3>7, <3>8 DEF DiagnosticsMatchPlan
    <2> QED  BY <2>7, <2>8
  <1> QED  BY <1>1, PlannerInvariant, PTL
=============================================================================
