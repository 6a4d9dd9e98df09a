------------------------- MODULE IndexLookupProofs -------------------------
(***************************************************************************)
(* Proofs about the way from the inverted index to the bytes and back to   *)
(* the candidates, for all indexes, plans, thresholds and widths.  The     *)
(* bytes: a varint and a word decode to the number that was encoded,       *)
(* whatever follows them, and not at all if they are cut; so a block       *)
(* decodes to its list, and a block that breaks off anywhere to the first  *)
(* ids of it.  The way: a lookup reads the lists that were written, and    *)
(* the binary search, the merge loops and the branches come to the         *)
(* candidates of the plan.                                                 *)
(***************************************************************************)
EXTENDS IndexLookup, SequenceTheorems, FiniteSetTheorems, CommonLemmas, TLAPS

-----------------------------------------------------------------------------
(* Powers of two.                                                          *)

LEMMA Powers ==
    /\ TwoTo \in [Nat -> Nat]
    /\ TwoTo[0] = 1
    /\ \A n \in Nat : TwoTo[n + 1] = 2 * TwoTo[n]
PROOF
  <1> DEFINE step == [x \in Nat \X Nat |-> 2 * x[1]]
             Fits(f) == f = [n \in Nat |-> IF n = 0 THEN 1 ELSE 2 * f[n - 1]]
  <1>1. step \in [Nat \X Nat -> Nat]
    OBVIOUS
  <1>2. PICK f \in [Nat -> Nat] : f[0] = 1 /\ \A k \in Nat : f[k + 1] = step[<<f[k], k + 1>>]
    <2> DEFINE S == Nat
               base == 1
    <2>1. base \in S /\ step \in [S \X Nat -> S]
      BY <1>1
    <2> HIDE DEF step, S, base
    <2>2. \E f \in [Nat -> S] : ComputesAll(f, base, step)
      BY <2>1, Recursion
    <2> QED  BY <2>2 DEF S, base, ComputesAll
  <1>3. ASSUME NEW n \in Nat PROVE f[n] = IF n = 0 THEN 1 ELSE 2 * f[n - 1]
    <2>1. CASE n = 0
      BY <1>2, <2>1
    <2>2. CASE n # 0
      <3>1. n - 1 \in Nat /\ (n - 1) + 1 = n
        BY <2>2
      <3>2. f[n] = step[<<f[n - 1], n>>]
        BY <1>2, <3>1
      <3>3. f[n - 1] \in Nat
        BY <3>1
      <3> QED  BY <2>2, <3>2, <3>3
    <2> QED  BY <2>1, <2>2
  <1>4. Fits(f)
    BY <1>3
  <1>5. TwoTo = CHOOSE g : Fits(g)
    BY DEF TwoTo
  <1>6. Fits(TwoTo)
    <2> HIDE DEF Fits
    <2> QED  BY <1>4, <1>5
  <1>7. /\ DOMAIN TwoTo = Nat
        /\ \A n \in Nat : TwoTo[n] = IF n = 0 THEN 1 ELSE 2 * TwoTo[n - 1]
    BY <1>6
  <1>8. \A k \in 0 .. 0 : k = 0
    OBVIOUS
  <1>9. {n \in Nat : TwoTo[n] \in Nat} = Nat
    <2> DEFINE T == {n \in Nat : TwoTo[n] \in Nat}
    <2>1. T \in SUBSET Nat /\ 0 \in T
      BY <1>7
    <2>2. ASSUME NEW n \in T PROVE n + 1 \in T
      <3>1. n \in Nat /\ n + 1 # 0 /\ (n + 1) - 1 = n /\ n + 1 \in Nat
        OBVIOUS
      <3> QED  BY <1>7, <3>1
    <2> HIDE DEF T
    <2>3. T = Nat
      BY <2>1, <2>2, SetInduction
    <2> QED  BY <2>3 DEF T
  <1>10. TwoTo \in [Nat -> Nat]
    <2>1. TwoTo = [n \in Nat |-> IF n = 0 THEN 1 ELSE 2 * TwoTo[n - 1]]
      BY <1>6
    <2>2. TwoTo = [n \in Nat |-> TwoTo[n]]
      BY <1>7, <2>1
    <2> QED  BY <1>9, <2>2
  <1>11. ASSUME NEW n \in Nat PROVE TwoTo[n + 1] = 2 * TwoTo[n]
    <2>1. n + 1 # 0 /\ (n + 1) - 1 = n /\ n + 1 \in Nat
      OBVIOUS
    <2> QED  BY <1>7, <2>1
  <1> QED  BY <1>7, <1>10, <1>11

LEMMA PowersPositive ==
    ASSUME NEW n \in Nat
    PROVE  TwoTo[n] \in Nat /\ TwoTo[n] > 0
PROOF
  <1> DEFINE T == {m \in Nat : TwoTo[m] \in Nat /\ TwoTo[m] > 0}
  <1>1. T \in SUBSET Nat /\ 0 \in T
    BY Powers
  <1>2. ASSUME NEW m \in T PROVE m + 1 \in T
    BY Powers
  <1> HIDE DEF T
  <1>3. T = Nat
    BY <1>1, <1>2, SetInduction
  <1> QED  BY <1>3 DEF T

LEMMA PowerOfSum ==
    ASSUME NEW a \in Nat, NEW b \in Nat
    PROVE  TwoTo[a + b] = TwoTo[a] * TwoTo[b]
PROOF
  <1> DEFINE T == {m \in Nat : TwoTo[a + m] = TwoTo[a] * TwoTo[m]}
  <1>1. T \in SUBSET Nat /\ 0 \in T
    BY Powers, PowersPositive
  <1>2. ASSUME NEW m \in T PROVE m + 1 \in T
    <2>1. m \in Nat /\ a + m \in Nat /\ m + 1 \in Nat /\ a + (m + 1) = (a + m) + 1
      OBVIOUS
    <2>2. TwoTo[a] \in Nat /\ TwoTo[m] \in Nat
      BY <2>1, PowersPositive
    <2>3. TwoTo[a + (m + 1)] = 2 * (TwoTo[a] * TwoTo[m]) /\ TwoTo[m + 1] = 2 * TwoTo[m]
      BY <2>1, Powers
    <2>4. \A x, y \in Nat : 2 * (x * y) = x * (2 * y)
      OBVIOUS
    <2> QED  BY <2>1, <2>2, <2>3, <2>4
  <1> HIDE DEF T
  <1>3. T = Nat
    BY <1>1, <1>2, SetInduction
  <1> QED  BY <1>3 DEF T

LEMMA PowersOrder ==
    ASSUME NEW a \in Nat, NEW b \in Nat
    PROVE  a <= b <=> TwoTo[a] <= TwoTo[b]
PROOF
  <1>1. ASSUME NEW x \in Nat, NEW y \in Nat, x <= y PROVE TwoTo[x] <= TwoTo[y]
    <2>1. y - x \in Nat /\ x + (y - x) = y
      BY <1>1
    <2>2. TwoTo[y] = TwoTo[x] * TwoTo[y - x]
      BY <2>1, PowerOfSum
    <2>3. TwoTo[x] \in Nat /\ TwoTo[y - x] \in Nat /\ TwoTo[y - x] > 0
      BY <2>1, PowersPositive
    <2>4. \A p, q \in Nat : q > 0 => p <= p * q
      OBVIOUS
    <2> QED  BY <2>2, <2>3, <2>4
  <1>2. ASSUME b < a PROVE ~(TwoTo[a] <= TwoTo[b])
    <2>1. b + 1 \in Nat /\ b + 1 <= a
      BY <1>2
    <2>2. TwoTo[b + 1] <= TwoTo[a] /\ TwoTo[b + 1] = 2 * TwoTo[b]
      BY <1>1, <2>1, Powers
    <2>3. TwoTo[a] \in Nat /\ TwoTo[b] \in Nat /\ TwoTo[b] > 0
      BY PowersPositive
    <2> QED  BY <2>2, <2>3
  <1> QED  BY <1>1, <1>2

\* The constants.
LEMMA Widths ==
    /\ GroupBits \in Nat /\ GroupBits > 0 /\ WordBytes \in Nat /\ WordBytes > 0
    /\ ByteBits \in Nat /\ ByteBits = GroupBits + 1 /\ WordBits \in Nat
    /\ WordBits >= ByteBits /\ WordBits = ByteBits * WordBytes
    /\ MaxShift \in Nat /\ WordBits <= MaxShift
    /\ Threshold \in Nat /\ Word \subseteq Nat
    /\ Byte = 0 .. 2 * Base - 1 /\ Base \in Nat /\ Base >= 2
    /\ \A v \in Word : v < TwoTo[WordBits]
PROOF
  <1>1. /\ GroupBits \in Nat /\ GroupBits > 0 /\ WordBytes \in Nat /\ WordBytes > 0
        /\ MaxShift \in Nat /\ WordBits <= MaxShift /\ Threshold \in Nat
        /\ ByteBits \in Nat /\ ByteBits = GroupBits + 1
    BY WidthsAssumption DEF WordBits, ByteBits
  <1>2. WordBits \in Nat /\ WordBits >= ByteBits /\ WordBits = ByteBits * WordBytes
    <2>1. \A p, q \in Nat : q > 0 => p * q \in Nat /\ p * q = q * p /\ q * p >= p
      OBVIOUS
    <2> QED  BY <1>1, <2>1 DEF WordBits
  <1>3. TwoTo[ByteBits] = 2 * TwoTo[GroupBits]
    BY <1>1, Powers
  <1>4. Base \in Nat /\ Base >= 2
    <2>1. TwoTo[0 + 1] = 2 * TwoTo[0] /\ TwoTo[0] = 1 /\ 0 + 1 = 1
      BY Powers
    <2>2. TwoTo[1] <= TwoTo[GroupBits]
      BY <1>1, PowersOrder
    <2> QED  BY <1>1, <2>1, <2>2, PowersPositive DEF Base
  <1>5. TwoTo[WordBits] \in Nat
    BY <1>2, PowersPositive
  <1>6. Word \subseteq Nat /\ \A v \in Word : v < TwoTo[WordBits]
    BY <1>5 DEF Word
  <1> QED  BY <1>1, <1>2, <1>3, <1>4, <1>6 DEF Byte, Base

-----------------------------------------------------------------------------
(* Groups of bits.                                                         *)

\* The low part of v, up to the power Q, is s.
Splits(v, s, Q) == s + (v \div Q) * Q = v

\* Taking the next group off.
LEMMA NextGroup ==
    ASSUME NEW s \in Nat, NEW v \in Nat, NEW P \in Nat, NEW Q \in Nat, P > 0, Q > 0,
           Splits(v, s, Q)
    PROVE  Splits(v, s + ((v \div Q) % P) * Q, Q * P)
PROOF
  <1> DEFINE q == v \div Q
             r == q % P
             d == q \div P
  <1>1. /\ \A a, b \in Nat : b > 0 => a = b * (a \div b) + (a % b)
        /\ \A a, b \in Nat : b > 0 => a \div b \in Nat
        /\ \A a, b \in Nat : b > 0 => a % b \in Nat
    <2>1. \A a, b \in Nat : b > 0 => a = b * (a \div b) + (a % b)
      OBVIOUS
    <2>2. \A a, b \in Nat : b > 0 => a \div b \in Nat
      OBVIOUS
    <2>3. \A a, b \in Nat : b > 0 => a % b \in Nat
      OBVIOUS
    <2> QED  BY <2>1, <2>2, <2>3
  <1>2. \A a, b, c \in Nat : b > 0 /\ c > 0 => (a \div b) \div c = a \div (b * c)
    OBVIOUS
  <1>3. q \in Nat
    BY <1>1
  <1>4. d \in Nat /\ r \in Nat /\ q = P * d + r /\ v \div (Q * P) = d
    BY <1>1, <1>2, <1>3
  <1>5. \A x, y, z, p, w \in Nat : x + (p * z + y) * w = (x + y * w) + z * (w * p)
    OBVIOUS
  <1>6. s + (P * d + r) * Q = v
    BY <1>4 DEF Splits
  <1> HIDE DEF q, r, d
  <1>7. (s + r * Q) + d * (Q * P) = v
    BY <1>3, <1>4, <1>5, <1>6
  <1> QED  BY <1>4, <1>7 DEF q, r, Splits

\* The groups of a number stand for it.
LEMMA GroupsSumUp ==
    ASSUME NEW v \in Word, NEW width \in Nat, NEW last \in Nat, NEW input,
           \A k \in 1 .. last : input[k] % TwoTo[width] = Group(v, k, width),
           v < TwoTo[width * last]
    PROVE  Assemble(input, last, width) = v
PROOF
  <1> DEFINE Shifted(k) == Group(v, k, width) * TwoTo[width * (k - 1)]
             step == [x \in Nat \X Nat |-> IF x[2] \in 1 .. last THEN x[1] + Shifted(x[2]) ELSE 0]
             IsSum(f) == f = [n \in 0 .. last |->
                                IF n = 0 THEN 0
                                ELSE f[n - 1] + (input[n] % TwoTo[width]) * TwoTo[width * (n - 1)]]
  <1>1. v \in Nat /\ v < TwoTo[WordBits]
    BY Widths
  <1>2. \A p, q \in Nat : p * q \in Nat
    OBVIOUS
  <1>3. ASSUME NEW k \in 1 .. last
        PROVE  /\ width * (k - 1) \in Nat /\ width * k \in Nat
               /\ width * (k - 1) + width = width * k
               /\ TwoTo[width] \in Nat /\ TwoTo[width] > 0
               /\ TwoTo[width * (k - 1)] \in Nat /\ TwoTo[width * (k - 1)] > 0
               /\ TwoTo[width * k] = TwoTo[width * (k - 1)] * TwoTo[width]
               /\ Group(v, k, width) \in Nat /\ Shifted(k) \in Nat
    <2>1. k \in Nat /\ k - 1 \in Nat
      OBVIOUS
    <2>2. width * (k - 1) \in Nat /\ width * k \in Nat
      BY <1>2, <2>1
    <2>3. width * (k - 1) + width = width * k
      <3>1. \A p, q \in Nat : p * q + p = p * (q + 1)
        OBVIOUS
      <3> QED  BY <2>1, <3>1
    <2>4. /\ TwoTo[width] \in Nat /\ TwoTo[width] > 0
          /\ TwoTo[width * (k - 1)] \in Nat /\ TwoTo[width * (k - 1)] > 0
          /\ TwoTo[width * k] = TwoTo[width * (k - 1)] * TwoTo[width]
      BY <2>2, <2>3, PowersPositive, PowerOfSum
    <2>5. \A a, b, c \in Nat : b > 0 /\ c > 0 => (a \div b) % c \in Nat
      OBVIOUS
    <2>6. Group(v, k, width) \in Nat
      BY <1>1, <2>4, <2>5 DEF Group
    <2> QED  BY <1>2, <2>2, <2>3, <2>4, <2>6
  <1> HIDE DEF Shifted
  <1>4. step \in [Nat \X Nat -> Nat]
    BY <1>3
  <1>5. PICK f \in [0 .. last -> Nat] : Computes(f, 0, step, last)
    <2>1. 0 \in Nat
      OBVIOUS
    <2> HIDE DEF step
    <2> QED  BY <1>4, <2>1, RecursionUpTo
  <1>6. IsSum(f)
    <2>1. f[0] = 0
      BY <1>5 DEF Computes
    <2>2. ASSUME NEW n \in 1 .. last
          PROVE  f[n] = f[n - 1] + (input[n] % TwoTo[width]) * TwoTo[width * (n - 1)]
      <3>1. n - 1 \in 0 .. last /\ n \in Nat
        OBVIOUS
      <3>2. f[n] = step[<<f[n - 1], n>>] /\ f[n - 1] \in Nat
        <4> HIDE DEF step
        <4> QED  BY <1>5, <3>1 DEF Computes
      <3> QED  BY <3>1, <3>2 DEF Shifted
    <2>3. \A n \in 0 .. last : n = 0 \/ n \in 1 .. last
      OBVIOUS
    <2> QED  BY <2>1, <2>2, <2>3
  <1> DEFINE sum == Sums(input, last, width)
  <1>7. IsSum(sum)
    <2>1. sum = CHOOSE g : IsSum(g)
      BY DEF Sums
    <2> HIDE DEF IsSum, sum
    <2> QED  BY <1>6, <2>1
  <1>8. /\ 0 \in 0 .. last /\ sum[0] = 0
        /\ \A n \in 1 .. last : n \in 0 .. last /\ sum[n] = sum[n - 1] + Shifted(n)
    <2>1. \A n \in 0 .. last :
             sum[n] = IF n = 0 THEN 0
                      ELSE sum[n - 1] + (input[n] % TwoTo[width]) * TwoTo[width * (n - 1)]
      BY <1>7
    <2>2. \A n \in 1 .. last : n \in 0 .. last /\ n # 0
      OBVIOUS
    <2> HIDE DEF sum
    <2> QED  BY <2>1, <2>2 DEF Shifted
  <1> HIDE DEF sum, step, IsSum
  <1> DEFINE T == {n \in 0 .. last :
                     sum[n] \in Nat /\ sum[n] + (v \div TwoTo[width * n]) * TwoTo[width * n] = v}
  <1>9. 0 \in T
    <2>1. width * 0 = 0 /\ TwoTo[0] = 1 /\ (v \div 1) * 1 = v
      BY <1>1, Powers
    <2> QED  BY <1>1, <1>8, <2>1
  <1>10. ASSUME NEW n \in 1 .. last, n - 1 \in T PROVE n \in T
    <2> DEFINE P == TwoTo[width]
               Q == TwoTo[width * (n - 1)]
               s == sum[n - 1]
    <2>1. s \in Nat /\ Splits(v, s, Q)
      BY <1>10 DEF Splits
    <2>2. P \in Nat /\ Q \in Nat /\ P > 0 /\ Q > 0 /\ TwoTo[width * n] = Q * P
      BY <1>3
    <2>3. sum[n] = s + ((v \div Q) % P) * Q /\ Shifted(n) \in Nat
      BY <1>3, <1>8 DEF Shifted, Group
    <2>4. sum[n] \in Nat
      BY <1>8, <2>1, <2>3
    <2> HIDE DEF P, Q, s
    <2>5. Splits(v, s + ((v \div Q) % P) * Q, Q * P)
      BY <1>1, <2>1, <2>2, NextGroup
    <2> QED  BY <1>8, <2>2, <2>3, <2>4, <2>5 DEF Splits
  <1>11. last \in T
    <2>1. T \in SUBSET (0 .. last)
      OBVIOUS
    <2> HIDE DEF T
    <2>2. T = 0 .. last
      BY <1>9, <1>10, <2>1, UpToInduction
    <2> QED  BY <2>2
  <1>12. sum[last] = v
    <2>1. width * last \in Nat
      BY <1>2
    <2>2. TwoTo[width * last] \in Nat /\ TwoTo[width * last] > 0
      BY <2>1, PowersPositive
    <2>3. v \div TwoTo[width * last] = 0
      <3>1. \A a, b \in Nat : a < b => a \div b = 0
        OBVIOUS
      <3> QED  BY <1>1, <2>2, <3>1
    <2>4. 0 * TwoTo[width * last] = 0
      BY <2>2
    <2> QED  BY <1>11, <2>3, <2>4
  <1>13. v % TwoTo[WordBits] = v
    <2>1. TwoTo[WordBits] \in Nat
      BY Widths, PowersPositive
    <2>2. \A a, b \in Nat : a < b => a % b = a
      OBVIOUS
    <2> QED  BY <1>1, <2>1, <2>2
  <1> QED  BY <1>12, <1>13 DEF Assemble, sum

-----------------------------------------------------------------------------
(* One number: its bytes, and what they decode to.                         *)

\* The groups of a number are enough, and the last one is before MaxShift.
LEMMA GroupsOf ==
    ASSUME NEW v \in Word
    PROVE  /\ Groups(v) \in Nat /\ Groups(v) >= 1
           /\ v < TwoTo[GroupBits * Groups(v)]
           /\ GroupBits * (Groups(v) - 1) < MaxShift
PROOF
  <1> DEFINE Enough(n) == /\ v < TwoTo[GroupBits * n]
                          /\ n > 1 => v >= TwoTo[GroupBits * (n - 1)]
             S == {n \in Nat : n >= 1 /\ v < TwoTo[GroupBits * n]}
  <1>1. v \in Nat /\ v < TwoTo[WordBits] /\ \A p, q \in Nat : p * q \in Nat
    <2>1. \A p, q \in Nat : p * q \in Nat
      OBVIOUS
    <2> QED  BY <2>1, Widths
  <1>2. \A n \in Nat : GroupBits * n \in Nat /\ TwoTo[GroupBits * n] \in Nat
    BY <1>1, Widths, PowersPositive
  <1>3. WordBits \in S
    <2>1. WordBits \in Nat /\ WordBits >= 1
      BY Widths
    <2>2. WordBits <= GroupBits * WordBits
      <3>1. \A p, q \in Nat : p > 0 => q <= p * q
        OBVIOUS
      <3> QED  BY <2>1, <3>1, Widths
    <2>3. TwoTo[WordBits] <= TwoTo[GroupBits * WordBits] /\ TwoTo[WordBits] \in Nat
      BY <1>2, <2>1, <2>2, PowersOrder, PowersPositive
    <2> QED  BY <1>1, <1>2, <2>1, <2>3
  <1>4. PICK n \in S : \A m \in S : n <= m
    <2>1. S \in SUBSET Nat /\ S # {}
      BY <1>3
    <2> HIDE DEF S
    <2> QED  BY <2>1, LeastElement
  <1>5. n \in 1 .. WordBits /\ Enough(n)
    <2>1. n \in Nat /\ n >= 1 /\ v < TwoTo[GroupBits * n] /\ n <= WordBits
      BY <1>3, <1>4
    <2>2. ASSUME n > 1 PROVE v >= TwoTo[GroupBits * (n - 1)]
      <3>1. n - 1 \in Nat /\ n - 1 >= 1 /\ ~(n <= n - 1)
        BY <2>1, <2>2
      <3>2. ~(v < TwoTo[GroupBits * (n - 1)])
        BY <1>4, <3>1
      <3> QED  BY <1>1, <1>2, <3>1, <3>2
    <2> QED  BY <2>1, <2>2, Widths
  <1>6. Groups(v) \in 1 .. WordBits /\ Enough(Groups(v))
    <2>1. Groups(v) = CHOOSE m \in 1 .. WordBits : Enough(m)
      BY DEF Groups
    <2> HIDE DEF Enough
    <2> QED  BY <1>5, <2>1
  <1>7. Groups(v) \in Nat /\ Groups(v) >= 1
    BY <1>6, Widths
  <1>8. GroupBits * (Groups(v) - 1) < MaxShift
    <2>1. CASE Groups(v) = 1
      <3>1. GroupBits * 0 = 0 /\ 1 - 1 = 0
        BY Widths
      <3> QED  BY <2>1, <3>1, Widths
    <2>2. CASE Groups(v) # 1
      <3>1. Groups(v) - 1 \in Nat /\ Groups(v) > 1
        BY <1>7, <2>2
      <3>2. TwoTo[GroupBits * (Groups(v) - 1)] <= v
        BY <1>1, <1>2, <1>6, <3>1
      <3> DEFINE shift == GroupBits * (Groups(v) - 1)
      <3>3. shift \in Nat /\ TwoTo[shift] \in Nat /\ TwoTo[WordBits] \in Nat
        BY <1>2, <3>1, Widths, PowersPositive
      <3>4. ~(TwoTo[WordBits] <= TwoTo[shift])
        BY <1>1, <3>2, <3>3
      <3> HIDE DEF shift
      <3>5. ~(WordBits <= shift)
        BY <3>3, <3>4, Widths, PowersOrder
      <3>6. shift < MaxShift
        BY <3>3, <3>5, Widths
      <3> QED  BY <3>6 DEF shift
    <2> QED  BY <2>1, <2>2
  <1> QED  BY <1>6, <1>7, <1>8

LEMMA GroupRange ==
    ASSUME NEW v \in Nat, NEW width \in Nat, NEW k \in Nat, k >= 1
    PROVE  Group(v, k, width) \in 0 .. TwoTo[width] - 1
PROOF
  <1>1. width * (k - 1) \in Nat
    <2>1. \A p, q \in Nat : p * q \in Nat
      OBVIOUS
    <2> QED  BY <2>1
  <1>2. /\ TwoTo[width] \in Nat /\ TwoTo[width] > 0
        /\ TwoTo[width * (k - 1)] \in Nat /\ TwoTo[width * (k - 1)] > 0
    BY <1>1, PowersPositive
  <1>3. \A a, b \in Nat : b > 0 => a \div b \in Nat
    OBVIOUS
  <1>4. \A a, c \in Nat : c > 0 => a % c \in 0 .. c - 1
    OBVIOUS
  <1> QED  BY <1>2, <1>3, <1>4 DEF Group

\* All bytes of a varint but the last have the high bit.
LEMMA VarintBytes ==
    ASSUME NEW v \in Word
    PROVE  /\ EncodeVarint(v) \in Seq(Byte) /\ Len(EncodeVarint(v)) = Groups(v)
           /\ \A k \in 1 .. Groups(v) : /\ EncodeVarint(v)[k] < Base <=> k = Groups(v)
                                        /\ EncodeVarint(v)[k] % Base = Group(v, k, GroupBits)
PROOF
  <1> DEFINE n == Groups(v)
  <1>1. n \in Nat
    BY GroupsOf
  <1>2. Base \in Nat /\ Base >= 2 /\ Byte = 0 .. 2 * Base - 1 /\ v \in Nat /\ GroupBits \in Nat
    BY Widths
  <1>3. ASSUME NEW k \in 1 .. n PROVE Group(v, k, GroupBits) \in 0 .. Base - 1
    BY <1>1, <1>2, <1>3, GroupRange DEF Base
  <1>4. \A b \in Nat : \A g \in 0 .. b - 1 : (g + b) % b = g /\ g % b = g /\ ~(g + b < b)
    OBVIOUS
  <1>5. ASSUME NEW k \in 1 .. n
        PROVE  /\ EncodeVarint(v)[k] = Group(v, k, GroupBits) + (IF k < n THEN Base ELSE 0)
               /\ EncodeVarint(v)[k] \in Byte
               /\ EncodeVarint(v)[k] < Base <=> k = n
               /\ EncodeVarint(v)[k] % Base = Group(v, k, GroupBits)
    <2> DEFINE g == Group(v, k, GroupBits)
    <2>1. EncodeVarint(v)[k] = g + (IF k < n THEN Base ELSE 0)
      BY DEF EncodeVarint
    <2>2. g \in 0 .. Base - 1 /\ k \in Nat /\ k <= n
      BY <1>1, <1>3
    <2> HIDE DEF g, n
    <2>3. CASE k < n
      <3>1. EncodeVarint(v)[k] = g + Base
        BY <2>1, <2>3
      <3>2. (g + Base) % Base = g /\ ~(g + Base < Base)
        BY <1>2, <1>4, <2>2
      <3>3. g + Base \in Byte /\ k # n
        BY <1>1, <1>2, <2>2, <2>3
      <3>4. /\ EncodeVarint(v)[k] \in Byte
            /\ EncodeVarint(v)[k] < Base <=> k = n
            /\ EncodeVarint(v)[k] % Base = g
        BY <3>1, <3>2, <3>3
      <3> QED  BY <2>1, <3>4 DEF g
    <2>4. CASE ~(k < n)
      <3>1. EncodeVarint(v)[k] = g /\ k = n
        BY <1>1, <1>2, <2>1, <2>2, <2>4
      <3>2. g % Base = g
        BY <1>2, <1>4, <2>2
      <3>3. g \in Byte /\ g < Base
        BY <1>2, <2>2
      <3>4. /\ EncodeVarint(v)[k] \in Byte
            /\ EncodeVarint(v)[k] < Base <=> k = n
            /\ EncodeVarint(v)[k] % Base = g
        BY <3>1, <3>2, <3>3
      <3> QED  BY <2>1, <3>4 DEF g
    <2> QED  BY <2>3, <2>4
  <1>6. EncodeVarint(v) = [k \in 1 .. n |-> EncodeVarint(v)[k]]
    BY DEF EncodeVarint
  <1> HIDE DEF n
  <1>7. EncodeVarint(v) \in [1 .. n -> Byte]
    BY <1>5, <1>6
  <1> QED  BY <1>1, <1>5, <1>7 DEF n

\* input begins like bytes, or breaks off before it has all of them.
Begins(input, bytes) == \A k \in 1 .. Len(input) : k <= Len(bytes) => input[k] = bytes[k]

\* Whatever follows, and not at all if the last byte is missing.
LEMMA VarintDecodes ==
    ASSUME NEW v \in Word, NEW input \in Seq(Byte), Begins(input, EncodeVarint(v))
    PROVE  DecodeVarint(input) =
             IF Len(input) < Groups(v) THEN NoWord
             ELSE [value |-> v, rest |-> SubSeq(input, Groups(v) + 1, Len(input))]
PROOF
  <1> DEFINE n == Groups(v)
             last == {k \in DOMAIN input :
                         input[k] < Base /\ \A m \in 1 .. k - 1 : input[m] >= Base}
  <1>1. /\ n \in Nat /\ n >= 1 /\ v < TwoTo[GroupBits * n]
        /\ GroupBits * (n - 1) < MaxShift
    BY GroupsOf
  <1>2. /\ Len(input) \in Nat /\ DOMAIN input = 1 .. Len(input)
        /\ Base \in Nat /\ \A k \in 1 .. Len(input) : input[k] \in Nat
    BY Widths
  <1>3. ASSUME NEW k \in 1 .. Len(input), k <= n
        PROVE  (input[k] < Base <=> k = n) /\ input[k] % Base = Group(v, k, GroupBits)
    <2>1. k \in 1 .. n /\ input[k] = EncodeVarint(v)[k]
      BY <1>1, <1>2, <1>3, VarintBytes DEF Begins
    <2> QED  BY <2>1, VarintBytes
  <1> HIDE DEF n
  <1>4. CASE Len(input) < n
    <2>1. last = {}
      BY <1>1, <1>2, <1>3, <1>4
    <2> QED  BY <1>4, <2>1 DEF DecodeVarint, n
  <1>5. CASE ~(Len(input) < n)
    <2>1. n \in 1 .. Len(input) /\ \A k \in 1 .. n : k \in 1 .. Len(input) /\ k <= n
      BY <1>1, <1>2, <1>5
    <2>2. n \in last
      <3>1. input[n] < Base
        BY <1>3, <2>1
      <3>2. ASSUME NEW m \in 1 .. n - 1 PROVE input[m] >= Base
        <4>1. m \in 1 .. n /\ m # n
          BY <1>1
        <4>2. ~(input[m] < Base)
          BY <1>3, <2>1, <4>1
        <4> QED  BY <1>2, <2>1, <4>1, <4>2
      <3> QED  BY <1>2, <2>1, <3>1, <3>2
    <2>3. ASSUME NEW k \in last PROVE k = n
      <3>1. k \in 1 .. Len(input) /\ input[k] < Base /\ \A m \in 1 .. k - 1 : input[m] >= Base
        BY <1>2
      <3>2. CASE k < n
        BY <1>1, <1>2, <1>3, <3>1, <3>2
      <3>3. CASE k > n
        <4>1. n \in 1 .. k - 1
          BY <1>1, <1>2, <3>1, <3>3
        <4>2. input[n] >= Base /\ input[n] < Base
          BY <1>3, <2>1, <3>1, <4>1
        <4> QED  BY <1>2, <2>1, <4>2
      <3> QED  BY <1>1, <1>2, <3>1, <3>2, <3>3
    <2>4. last = {n}
      <3> HIDE DEF last
      <3> QED  BY <2>2, <2>3
    <2>5. Assemble(input, n, GroupBits) = v
      <3>1. \A k \in 1 .. n : input[k] % TwoTo[GroupBits] = Group(v, k, GroupBits)
        BY <1>3, <2>1 DEF Base
      <3> QED  BY <1>1, <3>1, Widths, GroupsSumUp
    <2>6. ~(\A k \in last : GroupBits * (k - 1) >= MaxShift) /\ (CHOOSE k \in last : TRUE) = n
      <3> HIDE DEF last
      <3>1. GroupBits * (n - 1) \in Nat
        <4>1. \A p, q \in Nat : p * q \in Nat
          OBVIOUS
        <4> QED  BY <1>1, <4>1, Widths
      <3> QED  BY <1>1, <2>4, <3>1, Widths
    <2>7. DecodeVarint(input) =
            IF \A k \in last : GroupBits * (k - 1) >= MaxShift THEN NoWord
            ELSE [value |-> Assemble(input, (CHOOSE k \in last : TRUE), GroupBits),
                  rest  |-> SubSeq(input, (CHOOSE k \in last : TRUE) + 1, Len(input))]
      BY DEF DecodeVarint
    <2> HIDE DEF last
    <2>8. DecodeVarint(input) = [value |-> v, rest |-> SubSeq(input, n + 1, Len(input))]
      BY <2>5, <2>6, <2>7
    <2> QED  BY <1>5, <2>8 DEF n
  <1> QED  BY <1>4, <1>5

LEMMA WordBytesOf ==
    ASSUME NEW v \in Word
    PROVE  EncodeWord(v) \in Seq(Byte) /\ Len(EncodeWord(v)) = WordBytes
PROOF
  <1>1. \A k \in 1 .. WordBytes : Group(v, k, ByteBits) \in Byte
    <2>1. v \in Nat /\ ByteBits \in Nat /\ WordBytes \in Nat
      BY Widths
    <2> QED  BY <2>1, GroupRange DEF Byte
  <1>2. EncodeWord(v) \in [1 .. WordBytes -> Byte]
    BY <1>1 DEF EncodeWord
  <1> QED  BY <1>2, Widths

LEMMA FixedDecodes ==
    ASSUME NEW v \in Word, NEW input \in Seq(Byte), Begins(input, EncodeWord(v))
    PROVE  DecodeWord(input) =
             IF Len(input) < WordBytes THEN NoWord
             ELSE [value |-> v, rest |-> SubSeq(input, WordBytes + 1, Len(input))]
PROOF
  <1>1. CASE Len(input) < WordBytes
    BY <1>1 DEF DecodeWord
  <1>2. CASE ~(Len(input) < WordBytes)
    <2>1. \A k \in 1 .. WordBytes : input[k] % TwoTo[ByteBits] = Group(v, k, ByteBits)
      <3> SUFFICES ASSUME NEW k \in 1 .. WordBytes
                   PROVE  input[k] % TwoTo[ByteBits] = Group(v, k, ByteBits)
        OBVIOUS
      <3>1. k \in 1 .. Len(input) /\ k <= WordBytes /\ k \in Nat /\ k >= 1
        BY <1>2, Widths
      <3>2. input[k] = Group(v, k, ByteBits)
        BY <3>1, WordBytesOf DEF Begins, EncodeWord
      <3>3. Group(v, k, ByteBits) \in 0 .. TwoTo[ByteBits] - 1 /\ TwoTo[ByteBits] \in Nat
        BY <3>1, Widths, GroupRange, PowersPositive
      <3>4. \A b \in Nat : \A g \in 0 .. b - 1 : g % b = g
        OBVIOUS
      <3> QED  BY <3>2, <3>3, <3>4
    <2>2. v < TwoTo[ByteBits * WordBytes]
      BY Widths
    <2>3. Assemble(input, WordBytes, ByteBits) = v
      BY <2>1, <2>2, Widths, GroupsSumUp
    <2> QED  BY <1>2, <2>3 DEF DecodeWord
  <1> QED  BY <1>1, <1>2

\* In either encoding.
LEMMA NumberBytes ==
    ASSUME NEW tag, NEW v \in Word
    PROVE  Encode(tag, v) \in Seq(Byte) /\ Len(Encode(tag, v)) \in Nat
PROOF
  BY VarintBytes, WordBytesOf DEF Encode

\* A number decodes to itself whatever bytes follow it, and not at all if its
\* last byte is missing, as a varint and as a fixed word (decode_varint and
\* decode_postings of format.rs).
THEOREM NumberDecodes ==
    ASSUME NEW tag, NEW v \in Word, NEW input \in Seq(Byte), Begins(input, Encode(tag, v))
    PROVE  Decode(tag, input) =
             IF Len(input) < Len(Encode(tag, v)) THEN NoWord
             ELSE [value |-> v, rest |-> SubSeq(input, Len(Encode(tag, v)) + 1, Len(input))]
PROOF
  <1>1. CASE tag = TagFixed
    BY <1>1, FixedDecodes, WordBytesOf DEF Encode, Decode
  <1>2. CASE tag # TagFixed
    BY <1>2, VarintDecodes, VarintBytes DEF Encode, Decode
  <1> QED  BY <1>1, <1>2

-----------------------------------------------------------------------------
(* Stretches of sequences.                                                 *)

LEMMA Stretch ==
    ASSUME NEW S, NEW u, NEW a \in Nat, NEW n \in Nat, \A k \in 1 .. n : u[a + k] \in S
    PROVE  /\ SubSeq(u, a + 1, a + n) \in Seq(S)
           /\ Len(SubSeq(u, a + 1, a + n)) = n
           /\ \A k \in 1 .. n : SubSeq(u, a + 1, a + n)[k] = u[a + k]
PROOF
  <1>1. \A k \in a + 1 .. a + n : u[k] \in S
    <2> SUFFICES ASSUME NEW k \in a + 1 .. a + n PROVE u[k] \in S
      OBVIOUS
    <2>1. k - a \in 1 .. n /\ a + (k - a) = k
      OBVIOUS
    <2> QED  BY <2>1
  <1>2. /\ SubSeq(u, a + 1, a + n) \in Seq(S)
        /\ Len(SubSeq(u, a + 1, a + n)) = IF a + 1 <= a + n THEN a + n - (a + 1) + 1 ELSE 0
        /\ \A k \in 1 .. a + n - (a + 1) + 1 : SubSeq(u, a + 1, a + n)[k] = u[a + 1 + k - 1]
    BY <1>1, SubSeqProperties
  <1> QED  BY <1>2

\* What is left of a sequence after its first a elements.
Rest(s, a) == SubSeq(s, a + 1, Len(s))

IsRest(S, s, a, r) ==
    /\ r \in Seq(S) /\ Len(r) = Len(s) - a
    /\ \A k \in 1 .. Len(s) - a : r[k] = s[a + k]

LEMMA RestOf ==
    ASSUME NEW S, NEW s \in Seq(S), NEW a \in Nat, a <= Len(s)
    PROVE  IsRest(S, s, a, Rest(s, a))
PROOF
  <1>1. Len(s) \in Nat /\ a + 1 \in Int /\ Len(s) \in Int /\ \A k \in a + 1 .. Len(s) : s[k] \in S
    OBVIOUS
  <1>2. /\ SubSeq(s, a + 1, Len(s)) \in Seq(S)
        /\ Len(SubSeq(s, a + 1, Len(s))) =
             IF a + 1 <= Len(s) THEN Len(s) - (a + 1) + 1 ELSE 0
        /\ \A k \in 1 .. Len(s) - (a + 1) + 1 : SubSeq(s, a + 1, Len(s))[k] = s[a + 1 + k - 1]
    BY <1>1, SubSeqProperties
  <1> DEFINE r == SubSeq(s, a + 1, Len(s))
  <1>3. r \in Seq(S) /\ Len(r) = Len(s) - a
    BY <1>1, <1>2
  <1>4. ASSUME NEW k \in 1 .. Len(s) - a PROVE r[k] = s[a + k]
    <2>1. k \in 1 .. Len(s) - (a + 1) + 1 /\ a + 1 + k - 1 = a + k
      BY <1>1
    <2> QED  BY <1>2, <2>1
  <1> QED  BY <1>3, <1>4 DEF IsRest, Rest

LEMMA RestOfRest ==
    ASSUME NEW S, NEW s \in Seq(S), NEW a \in Nat, NEW b \in Nat, a + b <= Len(s)
    PROVE  Rest(Rest(s, a), b) = Rest(s, a + b)
PROOF
  <1> DEFINE r == Rest(s, a)
             p == Rest(r, b)
             q == Rest(s, a + b)
  <1>1. Len(s) \in Nat /\ a <= Len(s) /\ a + b \in Nat
    OBVIOUS
  <1>2. /\ r \in Seq(S) /\ Len(r) = Len(s) - a
        /\ \A k \in 1 .. Len(s) - a : r[k] = s[a + k]
    BY <1>1, RestOf DEF IsRest
  <1>3. /\ q \in Seq(S) /\ Len(q) = Len(s) - (a + b)
        /\ \A k \in 1 .. Len(s) - (a + b) : q[k] = s[(a + b) + k]
    BY <1>1, RestOf DEF IsRest
  <1> HIDE DEF r, q
  <1>4. /\ p \in Seq(S) /\ Len(p) = Len(r) - b
        /\ \A k \in 1 .. Len(r) - b : p[k] = r[b + k]
    <2>1. b <= Len(r)
      BY <1>1, <1>2
    <2>2. IsRest(S, r, b, p)
      BY <1>2, <2>1, RestOf
    <2> QED  BY <2>2 DEF IsRest
  <1> HIDE DEF p
  <1>5. Len(p) = Len(q)
    BY <1>1, <1>2, <1>3, <1>4
  <1>6. ASSUME NEW k \in 1 .. Len(p) PROVE p[k] = q[k]
    <2>1. b + k \in 1 .. Len(s) - a /\ k \in 1 .. Len(r) - b /\ k \in 1 .. Len(s) - (a + b)
      BY <1>1, <1>2, <1>4
    <2>2. p[k] = s[a + (b + k)] /\ q[k] = s[(a + b) + k]
      BY <1>2, <1>3, <1>4, <2>1
    <2>3. a + (b + k) = (a + b) + k
      OBVIOUS
    <2> QED  BY <2>2, <2>3
  <1>7. p = q
    BY <1>3, <1>4, <1>5, <1>6, SeqEqual
  <1> QED  BY <1>7 DEF p, q, r

\* The first n elements.
LEMMA FirstElements ==
    ASSUME NEW S, NEW s \in Seq(S), NEW n \in 0 .. Len(s)
    PROVE  /\ SubSeq(s, 1, n) \in Seq(S) /\ Len(SubSeq(s, 1, n)) = n
           /\ \A k \in 1 .. n : SubSeq(s, 1, n)[k] = s[k]
PROOF
  <1>1. 0 \in Nat /\ n \in Nat /\ 0 + 1 = 1 /\ 0 + n = n /\ \A k \in 1 .. n : 0 + k = k /\ s[k] \in S
    OBVIOUS
  <1>2. \A k \in 1 .. n : s[0 + k] \in S
    BY <1>1
  <1>3. /\ SubSeq(s, 0 + 1, 0 + n) \in Seq(S) /\ Len(SubSeq(s, 0 + 1, 0 + n)) = n
        /\ \A k \in 1 .. n : SubSeq(s, 0 + 1, 0 + n)[k] = s[0 + k]
    BY <1>1, <1>2, Stretch
  <1> QED  BY <1>1, <1>3

LEMMA OneMoreElement ==
    ASSUME NEW S, NEW s \in Seq(S), NEW n \in Nat, n + 1 <= Len(s)
    PROVE  Append(SubSeq(s, 1, n), s[n + 1]) = SubSeq(s, 1, n + 1)
PROOF
  <1> DEFINE p == SubSeq(s, 1, n)
             q == SubSeq(s, 1, n + 1)
             a == Append(p, s[n + 1])
  <1>1. n \in 0 .. Len(s) /\ n + 1 \in 0 .. Len(s) /\ n + 1 \in 1 .. Len(s) /\ s[n + 1] \in S
    OBVIOUS
  <1>2. p \in Seq(S) /\ Len(p) = n /\ \A k \in 1 .. n : p[k] = s[k]
    BY <1>1, FirstElements
  <1>3. q \in Seq(S) /\ Len(q) = n + 1 /\ \A k \in 1 .. n + 1 : q[k] = s[k]
    BY <1>1, FirstElements
  <1> HIDE DEF p, q
  <1>4. a \in Seq(S) /\ Len(a) = n + 1 /\ \A k \in 1 .. n + 1 : a[k] = s[k]
    BY <1>1, <1>2
  <1> HIDE DEF a
  <1>5. a = q
    BY <1>3, <1>4, SeqEqual
  <1> QED  BY <1>5 DEF a, p, q

\* s begins with p.
StartsWith(s, p) == Len(p) <= Len(s) /\ \A k \in 1 .. Len(p) : s[k] = p[k]

-----------------------------------------------------------------------------
(* A list: the bytes of its first k ids, and what a cut of them decodes to. *)

Ended(tag, ids, k) == Len(EncodedUpTo(tag, ids)[k])

LEMMA Deltas ==
    ASSUME NEW ids \in Seq(Word), Ascends(ids), NEW k \in 1 .. Len(ids)
    PROVE  /\ Delta(ids, k) \in Word /\ ids[k] \in Word
           /\ ((IF k = 1 THEN 0 ELSE ids[k - 1]) + Delta(ids, k)) % TwoTo[WordBits] = ids[k]
PROOF
  <1>1. /\ ids[k] \in Word /\ ids[k] \in Nat /\ ids[k] < TwoTo[WordBits]
        /\ TwoTo[WordBits] \in Nat
    <2>1. ids[k] \in Word
      OBVIOUS
    <2> QED  BY <2>1, Widths, PowersPositive
  <1>2. \A a, b \in Nat : a < b => a % b = a
    OBVIOUS
  <1>3. CASE k = 1
    BY <1>1, <1>2, <1>3 DEF Delta
  <1>4. CASE k # 1
    <2>1. k - 1 \in 1 .. Len(ids) /\ k - 1 < k
      BY <1>4
    <2>2. ids[k - 1] \in Nat /\ ids[k - 1] < ids[k]
      <3>1. ids[k - 1] \in Word
        BY <2>1
      <3>2. DOMAIN ids = 1 .. Len(ids)
        OBVIOUS
      <3>3. ids[k - 1] < ids[k]
        BY <2>1, <3>2 DEF Ascends
      <3> QED  BY <3>1, <3>3, Widths
    <2>3. Delta(ids, k) \in Word /\ ids[k - 1] + Delta(ids, k) = ids[k]
      BY <1>1, <1>4, <2>2 DEF Delta, Word
    <2> QED  BY <1>1, <1>2, <1>4, <2>3
  <1> QED  BY <1>3, <1>4

LEMMA BytesUpTo ==
    ASSUME NEW tag, NEW ids \in Seq(Word), Ascends(ids), Len(ids) \in Word
    PROVE  LET bytes == EncodedUpTo(tag, ids)
           IN  /\ bytes[0] = Encode(tag, Len(ids))
               /\ \A k \in 0 .. Len(ids) : bytes[k] \in Seq(Byte)
               /\ \A k \in 1 .. Len(ids) : bytes[k] = bytes[k - 1] \o Encode(tag, Delta(ids, k))
PROOF
  <1> DEFINE n == Len(ids)
             S == Seq(Byte)
             base == Encode(tag, n)
             chunk(k) == Encode(tag, Delta(ids, k))
             step == [x \in S \X Nat |-> IF x[2] \in 1 .. n THEN x[1] \o chunk(x[2]) ELSE x[1]]
             Fits(f) == f = [k \in 0 .. n |-> IF k = 0 THEN base ELSE f[k - 1] \o chunk(k)]
             bytes == EncodedUpTo(tag, ids)
  <1>1. n \in Nat /\ base \in S
    BY NumberBytes
  <1>2. \A k \in 1 .. n : chunk(k) \in S
    BY Deltas, NumberBytes
  <1> HIDE DEF chunk, base, n
  <1>3. step \in [S \X Nat -> S]
    <2>1. \A s, t \in S : s \o t \in S
      BY ConcatProperties
    <2> HIDE DEF S
    <2> QED  BY <1>2, <2>1
  <1>4. PICK f \in [0 .. n -> S] : Computes(f, base, step, n)
    <2> HIDE DEF step, S
    <2> QED  BY <1>1, <1>3, RecursionUpTo
  <1>5. Fits(f)
    <2>1. f[0] = base
      BY <1>4 DEF Computes
    <2>2. ASSUME NEW k \in 1 .. n PROVE f[k] = f[k - 1] \o chunk(k)
      <3>1. k - 1 \in 0 .. n /\ k \in Nat
        BY <1>1
      <3>2. f[k] = step[<<f[k - 1], k>>] /\ f[k - 1] \in S
        <4> HIDE DEF step, S
        <4> QED  BY <1>4, <3>1 DEF Computes
      <3> HIDE DEF S
      <3> QED  BY <3>1, <3>2
    <2>3. \A k \in 0 .. n : k = 0 \/ k \in 1 .. n
      BY <1>1
    <2>4. f = [k \in 0 .. n |-> f[k]]
      BY <1>4
    <2> HIDE DEF S, step
    <2> QED  BY <2>1, <2>2, <2>3, <2>4
  <1>6. Fits(bytes)
    <2>1. bytes = CHOOSE g : Fits(g)
      BY DEF EncodedUpTo, base, chunk, n
    <2> HIDE DEF Fits, bytes
    <2> QED  BY <1>5, <2>1
  <1>7. /\ bytes[0] = base
        /\ \A k \in 1 .. n : bytes[k] = bytes[k - 1] \o chunk(k)
    <2>1. \A k \in 0 .. n : bytes[k] = IF k = 0 THEN base ELSE bytes[k - 1] \o chunk(k)
      BY <1>6
    <2>2. 0 \in 0 .. n /\ \A k \in 1 .. n : k \in 0 .. n /\ k # 0
      BY <1>1
    <2> HIDE DEF bytes
    <2> QED  BY <2>1, <2>2
  <1> HIDE DEF bytes, Fits, step
  <1> DEFINE T == {k \in 0 .. n : bytes[k] \in S}
  <1>8. T = 0 .. n
    <2>1. 0 \in T
      BY <1>1, <1>7
    <2>2. ASSUME NEW k \in 1 .. n, k - 1 \in T PROVE k \in T
      <3>1. bytes[k - 1] \in S /\ chunk(k) \in S /\ k \in 0 .. n
        BY <1>1, <1>2, <2>2
      <3>2. bytes[k - 1] \o chunk(k) \in S
        BY <3>1, ConcatProperties
      <3> QED  BY <1>7, <3>1, <3>2
    <2>3. T \in SUBSET (0 .. n)
      OBVIOUS
    <2> HIDE DEF T
    <2> QED  BY <1>1, <2>1, <2>2, <2>3, UpToInduction
  <1> QED  BY <1>7, <1>8 DEF bytes, base, chunk, n

\* The bytes of all ids begin with those of the first ones.
LEMMA BytesGrow ==
    ASSUME NEW tag, NEW ids \in Seq(Word), Ascends(ids), Len(ids) \in Word,
           NEW k \in 0 .. Len(ids)
    PROVE  StartsWith(EncodePostings(tag, ids), EncodedUpTo(tag, ids)[k])
PROOF
  <1> DEFINE n == Len(ids)
             bytes == EncodedUpTo(tag, ids)
             T == {m \in 0 .. n : m >= k => StartsWith(bytes[m], bytes[k])}
  <1>1. /\ n \in Nat /\ \A m \in 0 .. n : bytes[m] \in Seq(Byte)
        /\ \A m \in 1 .. n : bytes[m] = bytes[m - 1] \o Encode(tag, Delta(ids, m))
    BY BytesUpTo
  <1>2. \A m \in 1 .. n : Encode(tag, Delta(ids, m)) \in Seq(Byte)
    BY Deltas, NumberBytes
  <1> HIDE DEF bytes, n
  <1>3. StartsWith(bytes[k], bytes[k])
    <2>1. bytes[k] \in Seq(Byte)
      BY <1>1 DEF n
    <2> QED  BY <2>1 DEF StartsWith
  <1>4. 0 \in T
    BY <1>1, <1>3 DEF n
  <1>5. ASSUME NEW m \in 1 .. n, m - 1 \in T PROVE m \in T
    <2>1. CASE m - 1 >= k
      <3> DEFINE s == bytes[m - 1]
                 t == Encode(tag, Delta(ids, m))
                 u == bytes[m]
      <3>1. m - 1 \in 0 .. n /\ m \in 0 .. n
        BY <1>1
      <3>2. s \in Seq(Byte) /\ t \in Seq(Byte) /\ u = s \o t /\ StartsWith(s, bytes[k])
        BY <1>1, <1>2, <1>5, <2>1, <3>1
      <3> HIDE DEF s, t, u
      <3>3. /\ Len(u) = Len(s) + Len(t) /\ Len(s) \in Nat /\ Len(t) \in Nat
            /\ \A at \in 1 .. Len(s) + Len(t) : u[at] = IF at <= Len(s) THEN s[at] ELSE t[at - Len(s)]
        BY <3>2, ConcatProperties
      <3>4. bytes[k] \in Seq(Byte) /\ Len(bytes[k]) \in Nat
        BY <1>1 DEF n
      <3>5. StartsWith(u, bytes[k])
        BY <3>2, <3>3, <3>4 DEF StartsWith
      <3> QED  BY <3>1, <3>5 DEF u
    <2>2. CASE ~(m - 1 >= k)
      <3>1. m >= k => m = k
        BY <1>1, <2>2 DEF n
      <3>2. m \in 0 .. n
        BY <1>1
      <3> QED  BY <1>3, <3>1, <3>2
    <2> QED  BY <2>1, <2>2
  <1>6. T = 0 .. n
    <2>1. T \in SUBSET (0 .. n)
      OBVIOUS
    <2> HIDE DEF T
    <2> QED  BY <1>1, <1>4, <1>5, <2>1, UpToInduction
  <1>7. n \in T /\ n >= k
    BY <1>1, <1>6 DEF n
  <1> QED  BY <1>7 DEF EncodePostings, bytes, n

\* Where the bytes of the k-th distance are.
LEMMA Chunks ==
    ASSUME NEW tag, NEW ids \in Seq(Word), Ascends(ids), Len(ids) \in Word,
           NEW k \in 1 .. Len(ids)
    PROVE  LET bytes == EncodePostings(tag, ids)
               chunk == Encode(tag, Delta(ids, k))
               before == Ended(tag, ids, k - 1)
           IN  /\ before \in Nat /\ Ended(tag, ids, k) = before + Len(chunk)
               /\ Ended(tag, ids, k) <= Len(bytes)
               /\ \A at \in 1 .. Len(chunk) : bytes[before + at] = chunk[at]
PROOF
  <1> DEFINE s == EncodedUpTo(tag, ids)[k - 1]
             t == Encode(tag, Delta(ids, k))
             u == EncodedUpTo(tag, ids)[k]
             bytes == EncodePostings(tag, ids)
  <1>1. k - 1 \in 0 .. Len(ids) /\ k \in 0 .. Len(ids)
    OBVIOUS
  <1>2. s \in Seq(Byte) /\ t \in Seq(Byte) /\ u = s \o t
    BY <1>1, BytesUpTo, Deltas, NumberBytes
  <1>3. StartsWith(bytes, u)
    BY <1>1, BytesGrow
  <1> HIDE DEF s, t, u, bytes
  <1>4. /\ Len(u) = Len(s) + Len(t) /\ Len(s) \in Nat /\ Len(t) \in Nat
        /\ \A at \in 1 .. Len(s) + Len(t) : u[at] = IF at <= Len(s) THEN s[at] ELSE t[at - Len(s)]
    BY <1>2, ConcatProperties
  <1>5. ASSUME NEW at \in 1 .. Len(t) PROVE bytes[Len(s) + at] = t[at]
    <2>1. Len(s) + at \in 1 .. Len(u) /\ ~(Len(s) + at <= Len(s)) /\ (Len(s) + at) - Len(s) = at
      BY <1>4
    <2> QED  BY <1>3, <1>4, <2>1 DEF StartsWith
  <1>6. Ended(tag, ids, k - 1) = Len(s) /\ Ended(tag, ids, k) = Len(u)
    BY DEF Ended, s, u
  <1>7. Len(u) <= Len(bytes)
    BY <1>3 DEF StartsWith
  <1> QED  BY <1>4, <1>5, <1>6, <1>7 DEF t, bytes

\* Decoding one number where a list, cut anywhere, has the k-th distance.
State(tag, ids, input, m) ==
    [ids  |-> SubSeq(ids, 1, m),
     prev |-> IF m = 0 THEN 0 ELSE ids[m],
     rest |-> Rest(input, Ended(tag, ids, m))]

\* input is the first bytes of the list.
IsCut(tag, ids, input) == input \in Seq(Byte) /\ StartsWith(EncodePostings(tag, ids), input)

LEMMA OneStep ==
    ASSUME NEW tag, NEW ids \in Seq(Word), Ascends(ids), Len(ids) \in Word,
           NEW input, IsCut(tag, ids, input), NEW m \in 0 .. Len(ids) - 1,
           Ended(tag, ids, m) <= Len(input)
    PROVE  DecodeNext(tag, State(tag, ids, input, m)) =
             IF Len(input) < Ended(tag, ids, m + 1) THEN State(tag, ids, input, m)
             ELSE State(tag, ids, input, m + 1)
PROOF
  <1> DEFINE bytes == EncodePostings(tag, ids)
             chunk == Encode(tag, Delta(ids, m + 1))
             before == Ended(tag, ids, m)
             rest == Rest(input, before)
             value == Delta(ids, m + 1)
             state == State(tag, ids, input, m)
             prev == IF m = 0 THEN 0 ELSE ids[m]
  <1>1. /\ m \in Nat /\ m + 1 \in 1 .. Len(ids) /\ (m + 1) - 1 = m /\ Len(ids) \in Nat
        /\ input \in Seq(Byte) /\ Len(input) \in Nat
    BY DEF IsCut
  <1>2. /\ before \in Nat /\ Ended(tag, ids, m + 1) = before + Len(chunk)
        /\ \A at \in 1 .. Len(chunk) : bytes[before + at] = chunk[at]
    <2> DEFINE k == m + 1
    <2>1. k \in 1 .. Len(ids) /\ k - 1 = m
      BY <1>1
    <2> HIDE DEF k
    <2>2. /\ Ended(tag, ids, k - 1) \in Nat
          /\ Ended(tag, ids, k) = Ended(tag, ids, k - 1) + Len(Encode(tag, Delta(ids, k)))
          /\ \A at \in 1 .. Len(Encode(tag, Delta(ids, k))) :
                bytes[Ended(tag, ids, k - 1) + at] = Encode(tag, Delta(ids, k))[at]
      BY <2>1, Chunks
    <2> QED  BY <2>1, <2>2 DEF k
  <1>3. value \in Word /\ (prev + value) % TwoTo[WordBits] = ids[m + 1]
    <2>1. m + 1 = 1 <=> m = 0
      BY <1>1
    <2> QED  BY <1>1, <2>1, Deltas
  <1>4. chunk \in Seq(Byte) /\ Len(chunk) \in Nat
    BY <1>3, NumberBytes
  <1>5. StartsWith(bytes, input)
    BY DEF IsCut
  <1>6. state.ids = SubSeq(ids, 1, m) /\ state.prev = prev /\ state.rest = rest
    BY DEF State
  <1> HIDE DEF bytes, value, state, prev, before
  <1>7. /\ rest \in Seq(Byte) /\ Len(rest) = Len(input) - before
        /\ \A at \in 1 .. Len(input) - before : rest[at] = input[before + at]
    <2>1. IsRest(Byte, input, before, rest)
      BY <1>1, <1>2, RestOf DEF before
    <2> QED  BY <2>1 DEF IsRest
  <1> HIDE DEF rest
  <1>8. Begins(rest, chunk)
    <2> SUFFICES ASSUME NEW at \in 1 .. Len(rest), at <= Len(chunk) PROVE rest[at] = chunk[at]
      BY DEF Begins
    <2>1. at \in 1 .. Len(chunk) /\ at \in 1 .. Len(input) - before /\ before + at \in 1 .. Len(input)
      BY <1>1, <1>2, <1>4, <1>7
    <2>2. rest[at] = input[before + at] /\ input[before + at] = bytes[before + at]
      BY <1>5, <1>7, <2>1 DEF StartsWith
    <2> QED  BY <1>2, <2>1, <2>2
  <1>9. Decode(tag, rest) =
          IF Len(rest) < Len(chunk) THEN NoWord
          ELSE [value |-> value, rest |-> Rest(rest, Len(chunk))]
    BY <1>3, <1>7, <1>8, NumberDecodes DEF value, Rest
  <1> DEFINE next == Decode(tag, rest)
  <1>10. DecodeNext(tag, state) =
           IF next = NoWord THEN state
           ELSE [ids  |-> Append(state.ids, (state.prev + next.value) % TwoTo[WordBits]),
                 prev |-> (state.prev + next.value) % TwoTo[WordBits],
                 rest |-> next.rest]
    BY <1>6 DEF DecodeNext
  <1>11. Len(rest) < Len(chunk) <=> Len(input) < Ended(tag, ids, m + 1)
    <2> HIDE DEF chunk
    <2> QED  BY <1>1, <1>2, <1>4, <1>7
  <1> HIDE DEF chunk
  <1>12. CASE Len(rest) < Len(chunk)
    BY <1>9, <1>10, <1>11, <1>12 DEF state
  <1>13. CASE ~(Len(rest) < Len(chunk))
    <2>1. next = [value |-> value, rest |-> Rest(rest, Len(chunk))]
      BY <1>9, <1>13
    <2>2. next.value = value /\ next.rest = Rest(rest, Len(chunk)) /\ value # -1
      BY <1>3, <2>1, Widths
    <2>3. next # NoWord
      BY <2>2 DEF NoWord
    <2>4. Rest(rest, Len(chunk)) = Rest(input, Ended(tag, ids, m + 1))
      <3>1. before + Len(chunk) <= Len(input)
        BY <1>1, <1>2, <1>4, <1>7, <1>13
      <3>2. Rest(Rest(input, before), Len(chunk)) = Rest(input, before + Len(chunk))
        BY <1>1, <1>2, <1>4, <3>1, RestOfRest
      <3> QED  BY <1>2, <3>2 DEF rest, before
    <2>5. Append(SubSeq(ids, 1, m), ids[m + 1]) = SubSeq(ids, 1, m + 1)
      BY <1>1, OneMoreElement
    <2>6. m + 1 # 0
      BY <1>1
    <2> HIDE DEF next
    <2>7. DecodeNext(tag, state) = [ids  |-> SubSeq(ids, 1, m + 1), prev |-> ids[m + 1],
                                    rest |-> Rest(input, Ended(tag, ids, m + 1))]
      BY <1>3, <1>6, <1>10, <2>2, <2>3, <2>4, <2>5
    <2>8. DecodeNext(tag, state) = State(tag, ids, input, m + 1)
      BY <2>6, <2>7 DEF State
    <2> QED  BY <1>11, <1>13, <2>8 DEF state
  <1> QED  BY <1>12, <1>13

\* The ids that a cut still has.
LEMMA WholeIds ==
    ASSUME NEW tag, NEW ids \in Seq(Word), Ascends(ids), Len(ids) \in Word,
           NEW input, IsCut(tag, ids, input), Ended(tag, ids, 0) <= Len(input)
    PROVE  \E whole \in 0 .. Len(ids) :
              /\ \A m \in 0 .. whole : Ended(tag, ids, m) <= Len(input)
              /\ whole < Len(ids) => Len(input) < Ended(tag, ids, whole + 1)
PROOF
  <1> DEFINE n == Len(ids)
             S == {m \in 0 .. n : m < n => Len(input) < Ended(tag, ids, m + 1)}
  <1>1. n \in Nat /\ Len(input) \in Nat
    BY DEF IsCut
  <1>2. ASSUME NEW m \in 0 .. n PROVE Ended(tag, ids, m) \in Nat
    BY BytesUpTo DEF Ended
  <1> HIDE DEF n
  <1>3. PICK whole \in S : \A m \in S : whole <= m
    <2>1. S \in SUBSET Nat /\ n \in S
      BY <1>1
    <2> HIDE DEF S
    <2> QED  BY <2>1, LeastElement
  <1>4. ASSUME NEW m \in 0 .. whole PROVE Ended(tag, ids, m) <= Len(input)
    <2>1. CASE m = 0
      BY <2>1
    <2>2. CASE m # 0
      <3>1. m - 1 \in 0 .. n /\ m - 1 < n /\ m \in 0 .. n /\ (m - 1) + 1 = m /\ ~(whole <= m - 1)
        BY <1>1, <2>2
      <3>2. m - 1 \notin S
        BY <1>3, <3>1
      <3>3. ~(Len(input) < Ended(tag, ids, m))
        BY <3>1, <3>2
      <3> QED  BY <1>1, <1>2, <3>1, <3>3
    <2> QED  BY <2>1, <2>2
  <1> QED  BY <1>3, <1>4 DEF n

\* The scan of a cut: id by id as long as they are whole, then no more.
LEMMA ScanOfCut ==
    ASSUME NEW tag, NEW ids \in Seq(Word), Ascends(ids), Len(ids) \in Word,
           NEW input, IsCut(tag, ids, input), NEW whole \in 0 .. Len(ids),
           \A m \in 0 .. whole : Ended(tag, ids, m) <= Len(input),
           whole < Len(ids) => Len(input) < Ended(tag, ids, whole + 1),
           NEW header, header = [value |-> Len(ids), rest |-> Rest(input, Ended(tag, ids, 0))]
    PROVE  DecodedUpTo(tag, header)[Len(ids)].ids = SubSeq(ids, 1, whole)
PROOF
  <1> DEFINE n == Len(ids)
             state(k) == State(tag, ids, input, IF k <= whole THEN k ELSE whole)
             f == [k \in 0 .. n |-> state(k)]
             Fits(g) == g = [k \in 0 .. n |->
                               IF k = 0 THEN [ids |-> <<>>, prev |-> 0, rest |-> header.rest]
                               ELSE DecodeNext(tag, g[k - 1])]
             scan == DecodedUpTo(tag, header)
  <1>1. n \in Nat /\ whole \in Nat /\ whole <= n
    OBVIOUS
  <1>2. state(0) = [ids |-> <<>>, prev |-> 0, rest |-> header.rest]
    <2>1. SubSeq(ids, 1, 0) = <<>>
      BY SubSeqEmpty
    <2> QED  BY <1>1, <2>1 DEF State
  <1>3. ASSUME NEW k \in 1 .. n PROVE state(k) = DecodeNext(tag, state(k - 1))
    <2>1. CASE k <= whole
      <3>1. k - 1 \in 0 .. n - 1 /\ k - 1 \in 0 .. whole /\ k \in 0 .. whole /\ (k - 1) + 1 = k
        BY <1>1, <2>1
      <3>2. /\ Ended(tag, ids, k - 1) <= Len(input) /\ Ended(tag, ids, k) <= Len(input)
            /\ Ended(tag, ids, k) \in Nat /\ Len(input) \in Nat
        BY <3>1, BytesUpTo DEF Ended, IsCut
      <3>3. DecodeNext(tag, State(tag, ids, input, k - 1)) = State(tag, ids, input, k)
        BY <3>1, <3>2, OneStep
      <3> QED  BY <1>1, <2>1, <3>1, <3>3
    <2>2. CASE ~(k <= whole)
      <3>1. whole \in 0 .. n - 1 /\ whole \in 0 .. whole /\ whole < n
        BY <1>1, <2>2
      <3>2. DecodeNext(tag, State(tag, ids, input, whole)) = State(tag, ids, input, whole)
        BY <3>1, OneStep
      <3>3. state(k) = State(tag, ids, input, whole)
        BY <2>2
      <3>4. state(k - 1) = State(tag, ids, input, whole)
        <4>1. k - 1 <= whole => k - 1 = whole
          BY <1>1, <2>2
        <4> QED  BY <4>1
      <3> QED  BY <3>2, <3>3, <3>4
    <2> QED  BY <2>1, <2>2
  <1> HIDE DEF state
  <1>4. Fits(f)
    <2>1. \A k \in 0 .. n : k = 0 \/ (k \in 1 .. n /\ k - 1 \in 0 .. n)
      BY <1>1
    <2> QED  BY <1>2, <1>3, <2>1
  <1>5. Fits(scan)
    <2>1. header.value = n
      OBVIOUS
    <2>2. scan = CHOOSE g : Fits(g)
      BY <2>1 DEF DecodedUpTo
    <2> HIDE DEF Fits, scan, f
    <2> QED  BY <1>4, <2>2
  <1>6. /\ scan[0] = state(0)
        /\ \A k \in 1 .. n : scan[k] = DecodeNext(tag, scan[k - 1])
    <2>1. \A k \in 0 .. n : scan[k] = IF k = 0 THEN [ids |-> <<>>, prev |-> 0, rest |-> header.rest]
                                      ELSE DecodeNext(tag, scan[k - 1])
      BY <1>5
    <2>2. 0 \in 0 .. n /\ \A k \in 1 .. n : k \in 0 .. n /\ k # 0
      BY <1>1
    <2> HIDE DEF scan
    <2> QED  BY <1>2, <2>1, <2>2
  <1> HIDE DEF scan, f, Fits
  <1> DEFINE T == {k \in 0 .. n : scan[k] = state(k)}
  <1>7. n \in T
    <2>1. 0 \in T
      BY <1>1, <1>6
    <2>2. ASSUME NEW k \in 1 .. n, k - 1 \in T PROVE k \in T
      BY <1>3, <1>6, <2>2
    <2>3. T \in SUBSET (0 .. n)
      OBVIOUS
    <2> HIDE DEF T, n
    <2>4. T = 0 .. n
      BY <1>1, <2>1, <2>2, <2>3, UpToInduction
    <2> QED  BY <1>1, <2>4
  <1>8. state(n).ids = SubSeq(ids, 1, whole)
    <2>1. (IF n <= whole THEN n ELSE whole) = whole
      BY <1>1
    <2>2. state(n) = State(tag, ids, input, whole)
      BY <2>1 DEF state
    <2> QED  BY <2>2 DEF State
  <1> QED  BY <1>7, <1>8 DEF scan

\* A list that is cut anywhere decodes to its first ids, a whole one to all.
FirstIds(got, ids) == \E m \in 0 .. Len(ids) : got = SubSeq(ids, 1, m)

LEMMA CutDecodes ==
    ASSUME NEW tag, NEW ids \in Seq(Word), Ascends(ids), Len(ids) \in Word,
           NEW input, IsCut(tag, ids, input)
    PROVE  /\ FirstIds(DecodePostings(tag, input), ids)
           /\ input = EncodePostings(tag, ids) => DecodePostings(tag, input) = ids
PROOF
  <1> DEFINE n == Len(ids)
             bytes == EncodePostings(tag, ids)
             count == Encode(tag, n)
             header == Decode(tag, input)
  <1>1. n \in Nat /\ n \in Word /\ input \in Seq(Byte) /\ Len(input) \in Nat /\ StartsWith(bytes, input)
    BY DEF IsCut
  <1>2. /\ EncodedUpTo(tag, ids)[0] = count /\ count \in Seq(Byte) /\ Len(count) \in Nat
        /\ Ended(tag, ids, 0) = Len(count)
    BY <1>1, BytesUpTo, NumberBytes DEF Ended
  <1>3. StartsWith(bytes, count)
    <2>1. 0 \in 0 .. n
      BY <1>1
    <2> QED  BY <1>2, <2>1, BytesGrow
  <1>4. Begins(input, count)
    <2> HIDE DEF bytes, count
    <2> SUFFICES ASSUME NEW k \in 1 .. Len(input), k <= Len(count) PROVE input[k] = count[k]
      BY DEF Begins
    <2>1. k \in 1 .. Len(count)
      BY <1>2
    <2> QED  BY <1>1, <1>3, <2>1 DEF StartsWith
  <1>5. header = IF Len(input) < Len(count) THEN NoWord
                 ELSE [value |-> n, rest |-> Rest(input, Len(count))]
    BY <1>1, <1>4, NumberDecodes DEF Rest
  <1> HIDE DEF count
  <1>6. CASE Len(input) < Len(count)
    <2>1. DecodePostings(tag, input) = <<>>
      BY <1>5, <1>6 DEF DecodePostings
    <2>2. SubSeq(ids, 1, 0) = <<>> /\ 0 \in 0 .. n
      BY <1>1, SubSeqEmpty
    <2>3. input # bytes
      BY <1>1, <1>2, <1>3, <1>6 DEF StartsWith
    <2> QED  BY <2>1, <2>2, <2>3 DEF FirstIds
  <1>7. CASE ~(Len(input) < Len(count))
    <2>1. header = [value |-> n, rest |-> Rest(input, Ended(tag, ids, 0))]
      BY <1>2, <1>5, <1>7
    <2>2. header.value = n /\ header # NoWord
      <3>1. header.value = n /\ NoWord.value = -1 /\ n # -1
        BY <1>1, <2>1 DEF NoWord
      <3> QED  BY <3>1
    <2>3. DecodePostings(tag, input) = DecodedUpTo(tag, header)[n].ids
      BY <2>2 DEF DecodePostings
    <2>4. Ended(tag, ids, 0) <= Len(input)
      BY <1>1, <1>2, <1>7
    <2>5. PICK whole \in 0 .. n :
              /\ \A m \in 0 .. whole : Ended(tag, ids, m) <= Len(input)
              /\ whole < n => Len(input) < Ended(tag, ids, whole + 1)
      BY <2>4, WholeIds
    <2> HIDE DEF header
    <2>6. DecodePostings(tag, input) = SubSeq(ids, 1, whole)
      BY <2>1, <2>3, <2>5, ScanOfCut
    <2>7. ASSUME input = bytes PROVE whole = n
      <3> SUFFICES ASSUME whole < n PROVE FALSE
        BY <1>1
      <3>1. whole + 1 \in 1 .. n
        BY <1>1
      <3>2. Ended(tag, ids, whole + 1) <= Len(bytes) /\ Ended(tag, ids, whole + 1) \in Nat
        <4> DEFINE k == whole + 1
        <4>1. k \in 1 .. n /\ k \in 0 .. n
          BY <3>1
        <4> HIDE DEF k
        <4>2. Ended(tag, ids, k) <= Len(bytes)
          BY <4>1, Chunks
        <4>3. Ended(tag, ids, k) \in Nat
          BY <4>1, BytesUpTo DEF Ended
        <4> QED  BY <4>2, <4>3 DEF k
      <3>3. Len(input) < Ended(tag, ids, whole + 1)
        BY <2>5
      <3> HIDE DEF bytes
      <3> QED  BY <1>1, <2>7, <3>2, <3>3
    <2>8. SubSeq(ids, 1, n) = ids
      BY SubSeqFull
    <2> QED  BY <2>6, <2>7, <2>8 DEF FirstIds
  <1> QED  BY <1>6, <1>7

-----------------------------------------------------------------------------
(* Blocks.                                                                 *)

LEMMA PostingBytes ==
    ASSUME NEW tag, NEW ids \in Seq(Word), Ascends(ids), Len(ids) \in Word
    PROVE  EncodePostings(tag, ids) \in Seq(Byte)
PROOF
  <1>1. Len(ids) \in 0 .. Len(ids)
    OBVIOUS
  <1> QED  BY <1>1, BytesUpTo DEF EncodePostings

\* The block of an ascending list decodes to the list, and cut anywhere to the
\* first ids of it (encode_auto, encode_fixed and decode_tagged of postings.rs).
THEOREM BlockDecodes ==
    ASSUME NEW tag \in {TagFixed, TagVarint},
           NEW ids \in Seq(Word), Ascends(ids), Len(ids) \in Word
    PROVE  LET block == <<tag>> \o EncodePostings(tag, ids)
           IN  /\ block \in Seq(Byte)
               /\ DecodeTagged(block) = Vec(ids)
               /\ \A cut \in 0 .. Len(block) :
                     \E got : DecodeTagged(SubSeq(block, 1, cut)) = Vec(got) /\ FirstIds(got, ids)
PROOF
  <1> DEFINE bytes == EncodePostings(tag, ids)
             block == <<tag>> \o bytes
  <1>1. bytes \in Seq(Byte) /\ tag \in Byte /\ Len(bytes) \in Nat
    BY PostingBytes, Widths DEF TagFixed, TagVarint
  <1> HIDE DEF bytes
  <1>2. /\ block \in Seq(Byte) /\ Len(block) = 1 + Len(bytes) /\ block[1] = tag
        /\ \A k \in 1 .. Len(bytes) : block[k + 1] = bytes[k]
    <2>1. <<tag>> \in Seq(Byte) /\ Len(<<tag>>) = 1 /\ <<tag>>[1] = tag
      BY <1>1
    <2>2. /\ block \in Seq(Byte) /\ Len(block) = Len(<<tag>>) + Len(bytes)
          /\ \A at \in 1 .. Len(<<tag>>) + Len(bytes) :
                block[at] = IF at <= Len(<<tag>>) THEN <<tag>>[at] ELSE bytes[at - Len(<<tag>>)]
      BY <1>1, <2>1, ConcatProperties
    <2> HIDE DEF block
    <2>3. ASSUME NEW k \in 1 .. Len(bytes) PROVE block[k + 1] = bytes[k]
      <3>1. k + 1 \in 1 .. 1 + Len(bytes) /\ ~(k + 1 <= 1) /\ (k + 1) - 1 = k
        BY <1>1
      <3> QED  BY <2>1, <2>2, <3>1
    <2>4. block[1] = tag
      <3>1. 1 \in 1 .. 1 + Len(bytes)
        BY <1>1
      <3> QED  BY <2>1, <2>2, <3>1
    <2> QED  BY <2>1, <2>2, <2>3, <2>4
  <1> HIDE DEF block
  <1>3. ASSUME NEW cut \in 0 .. Len(block)
        PROVE  /\ \E got : DecodeTagged(SubSeq(block, 1, cut)) = Vec(got) /\ FirstIds(got, ids)
               /\ cut = Len(block) => DecodeTagged(SubSeq(block, 1, cut)) = Vec(ids)
    <2> DEFINE part == SubSeq(block, 1, cut)
               input == Tail(part)
    <2>1. part \in Seq(Byte) /\ Len(part) = cut /\ \A k \in 1 .. cut : part[k] = block[k]
      BY <1>2, FirstElements
    <2> HIDE DEF part
    <2>2. CASE cut = 0
      <3>1. part = <<>>
        BY <2>1, <2>2
      <3>2. DecodeTagged(part) = Vec(<<>>) /\ cut # Len(block)
        BY <1>1, <1>2, <2>2, <3>1 DEF DecodeTagged
      <3>3. FirstIds(<<>>, ids)
        <4>1. SubSeq(ids, 1, 0) = <<>> /\ 0 \in 0 .. Len(ids)
          BY SubSeqEmpty
        <4> QED  BY <4>1 DEF FirstIds
      <3> QED  BY <3>2, <3>3 DEF part
    <2>3. CASE cut # 0
      <3>1. part # <<>> /\ part[1] = tag /\ cut \in Nat /\ cut - 1 \in Nat
        BY <1>2, <2>1, <2>3
      <3>2. /\ input \in Seq(Byte) /\ Len(input) = cut - 1
            /\ \A k \in 1 .. cut - 1 : input[k] = part[k + 1]
        BY <2>1, <3>1, HeadTailProperties
      <3> HIDE DEF input
      <3>3. DecodeTagged(part) = Vec(DecodePostings(tag, input))
        BY <3>1 DEF DecodeTagged, input
      <3>4. \A k \in 1 .. Len(input) : input[k] = bytes[k]
        <4> SUFFICES ASSUME NEW k \in 1 .. Len(input) PROVE input[k] = bytes[k]
          OBVIOUS
        <4>1. k \in 1 .. cut - 1 /\ k + 1 \in 1 .. cut /\ k \in 1 .. Len(bytes)
          BY <1>1, <1>2, <3>1, <3>2
        <4> QED  BY <1>2, <2>1, <3>2, <4>1
      <3>5. IsCut(tag, ids, input)
        <4>1. Len(input) <= Len(bytes)
          BY <1>1, <1>2, <3>1, <3>2
        <4> QED  BY <3>2, <3>4, <4>1 DEF IsCut, StartsWith, bytes
      <3>6. FirstIds(DecodePostings(tag, input), ids)
        BY <3>5, CutDecodes
      <3>7. ASSUME cut = Len(block) PROVE DecodePostings(tag, input) = ids
        <4>1. Len(input) = Len(bytes)
          BY <1>1, <1>2, <3>2, <3>7
        <4>2. input = bytes
          BY <1>1, <3>2, <3>4, <4>1, SeqEqual
        <4> QED  BY <3>5, <4>2, CutDecodes DEF bytes
      <3> QED  BY <3>3, <3>6, <3>7 DEF part
    <2> QED  BY <2>2, <2>3
  <1>4. DecodeTagged(block) = Vec(ids)
    <2>1. Len(block) \in 0 .. Len(block) /\ SubSeq(block, 1, Len(block)) = block
      BY <1>1, <1>2, SubSeqFull
    <2> QED  BY <1>3, <2>1
  <1> QED  BY <1>2, <1>3, <1>4 DEF block, bytes

\* The block of a list, of whatever size, decodes to the list.
LEMMA AutoDecodes ==
    ASSUME NEW ids \in Seq(Word), Ascends(ids), Len(ids) \in Word
    PROVE  LET written == FromVec(ids)
           IN  /\ written.kind = "vec" => EncodeAuto(written) \in Seq(Byte)
               /\ DecodeTagged(EncodeAuto(written)) = written
PROOF
  <1>1. CASE Len(ids) > Threshold
    <2> DEFINE S == Elems(ids)
               block == <<TagRoaring, S>>
    <2>1. FromVec(ids) = Roaring(S) /\ EncodeAuto(Roaring(S)) = block
      BY <1>1 DEF FromVec, Sized, Roaring, EncodeAuto
    <2> HIDE DEF S
    <2>2. block # <<>> /\ block[1] = TagRoaring /\ Len(block) = 2 /\ block[2] = S
      OBVIOUS
    <2> HIDE DEF block
    <2>3. DecodeTagged(block) = Roaring(S)
      BY <2>2 DEF DecodeTagged, TagFixed, TagVarint, TagRoaring
    <2>4. Roaring(S).kind = "roaring"
      BY DEF Roaring
    <2> QED  BY <2>1, <2>3, <2>4
  <1>2. CASE ~(Len(ids) > Threshold)
    <2>1. FromVec(ids) = Vec(ids)
      BY <1>2 DEF FromVec, Sized
    <2>2. EncodeAuto(Vec(ids)) = <<TagVarint>> \o EncodePostings(TagVarint, ids)
      BY DEF EncodeAuto, Vec
    <2>3. /\ <<TagVarint>> \o EncodePostings(TagVarint, ids) \in Seq(Byte)
          /\ DecodeTagged(<<TagVarint>> \o EncodePostings(TagVarint, ids)) = Vec(ids)
      BY BlockDecodes
    <2> QED  BY <2>1, <2>2, <2>3
  <1> QED  BY <1>1, <1>2

-----------------------------------------------------------------------------
(* Lists of ids.                                                           *)

IsList(l) ==
    /\ l \in PostingLists
    /\ l.kind = "vec" => Ascends(l.ids) /\ Len(l.ids) <= Threshold

LEMMA Words ==
    /\ Word \subseteq Int
    /\ AllIds(FileCount) \subseteq Word
    /\ FileCount \in Nat
    /\ Threshold \in Nat
PROOF
  <1>1. FileCount \in Word /\ FileCount \in Nat /\ Word \subseteq Nat /\ Threshold \in Nat
    BY FileCountAssumption, Widths
  <1>2. AllIds(FileCount) \subseteq Word
    <2>1. TwoTo[WordBits] \in Nat
      BY Widths, PowersPositive
    <2> QED  BY <1>1, <2>1 DEF AllIds, Word
  <1> QED  BY <1>1, <1>2

\* There are no more ascending ids than ids.
LEMMA AscendingLength ==
    ASSUME NEW s \in Seq(AllIds(FileCount)), Ascends(s)
    PROVE  Len(s) \in Word
PROOF
  <1> DEFINE T == {k \in 0 .. Len(s) : k > 0 => s[k] >= k - 1}
  <1>1. Len(s) \in Nat /\ DOMAIN s = 1 .. Len(s) /\ FileCount \in Nat
    BY Words
  <1>2. \A k \in 1 .. Len(s) : s[k] \in 0 .. FileCount - 1
    <2>1. \A k \in 1 .. Len(s) : s[k] \in AllIds(FileCount)
      OBVIOUS
    <2> QED  BY <2>1 DEF AllIds
  <1>3. 0 \in T
    BY <1>1
  <1>4. ASSUME NEW k \in 1 .. Len(s), k - 1 \in T PROVE k \in T
    <2>1. CASE k = 1
      BY <1>1, <1>2, <2>1
    <2>2. CASE k # 1
      <3>1. k - 1 \in 1 .. Len(s) /\ k - 1 > 0 /\ k - 1 < k /\ k \in 0 .. Len(s)
        BY <1>1, <2>2
      <3>2. s[k - 1] < s[k] /\ s[k - 1] >= (k - 1) - 1
        BY <1>1, <1>4, <3>1 DEF Ascends
      <3>3. s[k] >= k - 1
        BY <1>1, <1>2, <3>1, <3>2
      <3> QED  BY <3>1, <3>3
    <2> QED  BY <2>1, <2>2
  <1>5. Len(s) \in T
    <2>1. T \in SUBSET (0 .. Len(s))
      OBVIOUS
    <2> HIDE DEF T
    <2>2. T = 0 .. Len(s)
      BY <1>1, <1>3, <1>4, <2>1, UpToInduction
    <2> QED  BY <1>1, <2>2
  <1>6. Len(s) <= FileCount
    <2>1. CASE Len(s) = 0
      BY <1>1, <2>1
    <2>2. CASE Len(s) # 0
      <3>1. Len(s) \in 1 .. Len(s)
        BY <1>1, <2>2
      <3>2. s[Len(s)] >= Len(s) - 1 /\ s[Len(s)] \in 0 .. FileCount - 1
        BY <1>1, <1>2, <1>5, <3>1
      <3> QED  BY <1>1, <3>2
    <2> QED  BY <2>1, <2>2
  <1>7. TwoTo[WordBits] \in Nat
    BY Widths, PowersPositive
  <1> QED  BY <1>1, <1>6, <1>7, FileCountAssumption DEF Word

\* The lists of an index can be written.
LEMMA IndexLists ==
    ASSUME NEW index \in Indexes, NEW h \in DOMAIN index
    PROVE  /\ index[h] \in Seq(Word) /\ Ascends(index[h]) /\ Len(index[h]) \in Word
           /\ h \in Nat
PROOF
  <1>1. index[h] \in Seq(AllIds(FileCount)) /\ Ascends(index[h]) /\ h \in Nat
    BY IndexesAssumption
  <1>2. index[h] \in Seq(Word)
    BY <1>1, Words
  <1>3. Len(index[h]) \in Word
    BY <1>1, AscendingLength
  <1> QED  BY <1>1, <1>2, <1>3

\* What is written for a list decodes to the list, for every index and all
\* widths (serialize_auto and deserialize of postings.rs).
THEOREM CodecHolds == CodecRoundTrips
PROOF
  <1> SUFFICES ASSUME NEW index \in Indexes, NEW h \in DOMAIN index
               PROVE  LET written == FromVec(index[h])
                      IN  /\ written.kind = "vec" => EncodeAuto(written) \in Seq(Byte)
                          /\ DecodeTagged(EncodeAuto(written)) = written
    BY DEF CodecRoundTrips
  <1> QED  BY IndexLists, AutoDecodes

LEMMA ElemsInSet ==
    ASSUME NEW S, NEW s \in Seq(S)
    PROVE  /\ Elems(s) \subseteq S
           /\ Elems(s) = {s[k] : k \in 1 .. Len(s)}
PROOF  BY DEF Elems

\* A list made of ascending ids has these ids, as a vec or as a bitmap.
LEMMA FromVecLists ==
    ASSUME NEW s \in Seq(Word), Ascends(s)
    PROVE  IsList(FromVec(s)) /\ Ids(FromVec(s)) = Elems(s)
PROOF
  <1>1. Elems(s) \subseteq Word
    BY ElemsInSet
  <1>2. CASE Len(s) > Threshold
    BY <1>1, <1>2 DEF FromVec, Sized, IsList, PostingLists, Roaring, Ids
  <1>3. CASE ~(Len(s) > Threshold)
    BY <1>3, Words DEF FromVec, Sized, IsList, PostingLists, Vec, Ids
  <1> QED  BY <1>2, <1>3

LEMMA EmptyLists ==
    /\ IsList(Empty) /\ Ids(Empty) = {}
    /\ IsList(Vec(<<>>)) /\ Ids(Vec(<<>>)) = {}
PROOF
  <1>1. <<>> \in Seq(Word) /\ Ascends(<<>>) /\ Elems(<<>>) = {} /\ Len(<<>>) = 0
    BY DEF Ascends, Elems
  <1>2. IsList(Empty) /\ Ids(Empty) = {}
    BY <1>1, FromVecLists DEF Empty
  <1>3. IsList(Vec(<<>>)) /\ Ids(Vec(<<>>)) = {}
    BY <1>1, Words DEF IsList, PostingLists, Vec, Ids
  <1> QED  BY <1>2, <1>3

LEMMA AllFilesList ==
    IsList(AllFiles) /\ Ids(AllFiles) = AllIds(FileCount)
PROOF
  <1> DEFINE s == [n \in 1 .. FileCount |-> n - 1]
  <1>1. FileCount \in Nat /\ Len(s) = FileCount /\ DOMAIN s = 1 .. FileCount
    BY Words
  <1>2. \A n \in 1 .. FileCount : s[n] \in AllIds(FileCount)
    BY <1>1 DEF AllIds
  <1>3. s \in Seq(Word)
    BY <1>1, <1>2, Words
  <1>4. Ascends(s)
    BY <1>1 DEF Ascends
  <1>5. Elems(s) = AllIds(FileCount)
    <2>1. \A id \in AllIds(FileCount) : id + 1 \in DOMAIN s /\ s[id + 1] = id
      BY <1>1 DEF AllIds
    <2> QED  BY <1>1, <1>2, <2>1 DEF Elems
  <1> QED  BY <1>3, <1>4, <1>5, FromVecLists DEF AllFiles

LEMMA IdsAreWords ==
    ASSUME NEW l, IsList(l)
    PROVE  /\ Ids(l) \subseteq Word
           /\ l.kind \in {"vec", "roaring"}
           /\ l.kind = "vec" => l.ids \in Seq(Word) /\ Ids(l) = Elems(l.ids)
           /\ l.kind = "roaring" => l.ids \subseteq Word /\ Ids(l) = l.ids
           /\ l # NoList
PROOF  BY ElemsInSet DEF IsList, PostingLists, Ids, NoList

LEMMA RoaringLists ==
    ASSUME NEW ids \in SUBSET Word
    PROVE  IsList(Roaring(ids)) /\ Ids(Roaring(ids)) = ids
PROOF  BY DEF IsList, PostingLists, Roaring, Ids

\* An id larger than all others extends an ascending list.
LEMMA AppendAscends ==
    ASSUME NEW s \in Seq(Word), Ascends(s), NEW x \in Word,
           \A y \in Elems(s) : y < x
    PROVE  /\ Append(s, x) \in Seq(Word) /\ Ascends(Append(s, x))
           /\ Elems(Append(s, x)) = Elems(s) \cup {x}
           /\ Len(Append(s, x)) = Len(s) + 1
PROOF
  <1> DEFINE t == Append(s, x)
  <1>1. /\ t \in Seq(Word) /\ Len(t) = Len(s) + 1 /\ Len(s) \in Nat
        /\ DOMAIN t = 1 .. Len(s) + 1 /\ DOMAIN s = 1 .. Len(s)
        /\ \A k \in 1 .. Len(s) : t[k] = s[k]
        /\ t[Len(s) + 1] = x
    OBVIOUS
  <1> HIDE DEF t
  <1>2. \A k \in 1 .. Len(s) : s[k] < x
    BY <1>1 DEF Elems
  <1>3. Ascends(t)
    BY <1>1, <1>2 DEF Ascends
  <1>4. Elems(t) = Elems(s) \cup {x}
    <2>1. ASSUME NEW y \in Elems(t) PROVE y \in Elems(s) \cup {x}
      BY <1>1, <2>1 DEF Elems
    <2>2. ASSUME NEW y \in Elems(s) \cup {x} PROVE y \in Elems(t)
      <3>1. CASE y = x
        BY <1>1, <3>1 DEF Elems
      <3>2. CASE y \in Elems(s)
        <4>1. PICK k \in 1 .. Len(s) : y = s[k]
          BY <1>1, <3>2 DEF Elems
        <4>2. k \in DOMAIN t /\ y = t[k]
          BY <1>1, <4>1
        <4> QED  BY <4>2 DEF Elems
      <3> QED  BY <2>2, <3>1, <3>2
    <2> QED  BY <2>1, <2>2
  <1> QED  BY <1>1, <1>3, <1>4 DEF t

\* The rest of an ascending list, after ids that are all smaller.
LEMMA RestAscends ==
    ASSUME NEW s \in Seq(Word), Ascends(s), NEW t \in Seq(Word), Ascends(t),
           NEW n \in 1 .. Len(t) + 1,
           \A y \in Elems(s) : \A k \in n .. Len(t) : y < t[k]
    PROVE  LET u == s \o SubSeq(t, n, Len(t))
           IN  /\ u \in Seq(Word) /\ Ascends(u)
               /\ Elems(u) = Elems(s) \cup {t[k] : k \in n .. Len(t)}
PROOF
  <1> DEFINE r == SubSeq(t, n, Len(t))
  <1> DEFINE u == s \o r
  <1>0. Len(s) \in Nat /\ Len(t) \in Nat /\ DOMAIN s = 1 .. Len(s) /\ DOMAIN t = 1 .. Len(t)
    OBVIOUS
  <1>1. /\ r \in Seq(Word) /\ Len(r) = Len(t) + 1 - n
        /\ \A k \in 1 .. Len(r) : r[k] = t[n + k - 1]
    <2>1. \A k \in n .. Len(t) : t[k] \in Word
      OBVIOUS
    <2>2. /\ r \in Seq(Word)
          /\ Len(r) = IF n <= Len(t) THEN Len(t) - n + 1 ELSE 0
          /\ \A k \in 1 .. Len(t) - n + 1 : r[k] = t[n + k - 1]
      BY <1>0, <2>1, SubSeqProperties
    <2> QED  BY <1>0, <2>2
  <1> HIDE DEF r
  <1>2. /\ u \in Seq(Word) /\ Len(u) = Len(s) + Len(r) /\ DOMAIN u = 1 .. Len(u)
        /\ \A k \in 1 .. Len(u) : u[k] = IF k <= Len(s) THEN s[k] ELSE t[n + k - Len(s) - 1]
    <2>1. /\ u \in Seq(Word) /\ Len(u) = Len(s) + Len(r)
          /\ \A k \in 1 .. Len(s) + Len(r) : u[k] = IF k <= Len(s) THEN s[k] ELSE r[k - Len(s)]
      BY <1>1, ConcatProperties
    <2> QED  BY <1>0, <1>1, <2>1
  <1> HIDE DEF u
  <1>3. \A k \in DOMAIN s : s[k] \in Elems(s)
    BY DEF Elems
  <1>4. Ascends(u)
    <2> SUFFICES ASSUME NEW k \in 1 .. Len(u), NEW m \in 1 .. Len(u), k < m
                 PROVE  u[k] < u[m]
      BY <1>2 DEF Ascends
    <2>1. CASE m <= Len(s)
      BY <1>0, <1>2, <2>1 DEF Ascends
    <2>2. CASE k <= Len(s) /\ m > Len(s)
      <3>1. k \in DOMAIN s /\ u[k] = s[k]
        BY <1>0, <1>2, <2>2
      <3>2. n + m - Len(s) - 1 \in n .. Len(t) /\ u[m] = t[n + m - Len(s) - 1]
        BY <1>0, <1>1, <1>2, <2>2
      <3> QED  BY <1>3, <3>1, <3>2
    <2>3. CASE k > Len(s)
      <3> DEFINE p == n + k - Len(s) - 1
      <3> DEFINE q == n + m - Len(s) - 1
      <3>1. p \in DOMAIN t /\ q \in DOMAIN t /\ p < q
        BY <1>0, <1>1, <1>2, <2>3
      <3>2. u[k] = t[p] /\ u[m] = t[q]
        BY <1>0, <1>2, <2>3
      <3> QED  BY <3>1, <3>2 DEF Ascends
    <2> QED  BY <1>0, <2>1, <2>2, <2>3
  <1>5. Elems(u) = Elems(s) \cup {t[k] : k \in n .. Len(t)}
    <2>1. ASSUME NEW y \in Elems(u) PROVE y \in Elems(s) \cup {t[k] : k \in n .. Len(t)}
      <3>1. PICK k \in 1 .. Len(u) : y = u[k]
        BY <1>2, <2>1 DEF Elems
      <3>2. CASE k <= Len(s)
        BY <1>0, <1>2, <1>3, <3>1, <3>2
      <3>3. CASE k > Len(s)
        <4>1. n + k - Len(s) - 1 \in n .. Len(t) /\ y = t[n + k - Len(s) - 1]
          BY <1>0, <1>1, <1>2, <3>1, <3>3
        <4> QED  BY <4>1
      <3> QED  BY <1>0, <3>2, <3>3
    <2>2. ASSUME NEW y \in Elems(s) PROVE y \in Elems(u)
      <3>1. PICK k \in 1 .. Len(s) : y = s[k]
        BY <1>0, <2>2 DEF Elems
      <3>2. k \in DOMAIN u /\ u[k] = y
        BY <1>0, <1>1, <1>2, <3>1
      <3> QED  BY <3>2 DEF Elems
    <2>3. ASSUME NEW k \in n .. Len(t) PROVE t[k] \in Elems(u)
      <3>1. Len(s) + k - n + 1 \in DOMAIN u /\ u[Len(s) + k - n + 1] = t[k]
        BY <1>0, <1>1, <1>2
      <3> QED  BY <3>1 DEF Elems
    <2> QED  BY <2>1, <2>2, <2>3
  <1> QED  BY <1>2, <1>4, <1>5 DEF u, r

-----------------------------------------------------------------------------
(* Files.                                                                  *)

LEMMA StretchOfConcat ==
    ASSUME NEW S, NEW s \in Seq(S), NEW t \in Seq(S),
           NEW a \in Nat, NEW n \in Nat, a + n <= Len(s)
    PROVE  SubSeq(s \o t, a + 1, a + n) = SubSeq(s, a + 1, a + n)
PROOF
  <1> DEFINE u == s \o t
  <1>1. /\ Len(s) \in Nat /\ \A k \in 1 .. Len(s) : u[k] = s[k] /\ s[k] \in S
    <2>1. /\ Len(s) \in Nat /\ Len(t) \in Nat
          /\ \A k \in 1 .. Len(s) + Len(t) : u[k] = IF k <= Len(s) THEN s[k] ELSE t[k - Len(s)]
      BY ConcatProperties
    <2> QED  BY <2>1
  <1> HIDE DEF u
  <1>2. \A k \in 1 .. n : u[a + k] = s[a + k] /\ s[a + k] \in S
    BY <1>1
  <1>3. /\ SubSeq(u, a + 1, a + n) \in Seq(S)
        /\ Len(SubSeq(u, a + 1, a + n)) = n
        /\ \A k \in 1 .. n : SubSeq(u, a + 1, a + n)[k] = u[a + k]
    <2>1. \A k \in 1 .. n : u[a + k] \in S
      BY <1>2
    <2> QED  BY <2>1, Stretch
  <1>4. /\ SubSeq(s, a + 1, a + n) \in Seq(S)
        /\ Len(SubSeq(s, a + 1, a + n)) = n
        /\ \A k \in 1 .. n : SubSeq(s, a + 1, a + n)[k] = s[a + k]
    BY <1>2, Stretch
  <1>5. \A k \in 1 .. n : SubSeq(u, a + 1, a + n)[k] = SubSeq(s, a + 1, a + n)[k]
    BY <1>2, <1>3, <1>4
  <1> QED  BY <1>3, <1>4, <1>5, SeqEqual DEF u

LEMMA EndOfConcat ==
    ASSUME NEW S, NEW s \in Seq(S), NEW t \in Seq(S)
    PROVE  /\ SubSeq(s \o t, Len(s) + 1, Len(s) + Len(t)) = t
           /\ SubSeq(s \o t, Len(s) + 1, Len(s \o t)) = t
PROOF
  <1> DEFINE u == s \o t
  <1>1. /\ Len(s) \in Nat /\ Len(t) \in Nat /\ Len(u) = Len(s) + Len(t)
        /\ \A k \in 1 .. Len(s) + Len(t) : u[k] = IF k <= Len(s) THEN s[k] ELSE t[k - Len(s)]
        /\ \A k \in 1 .. Len(t) : t[k] \in S
    BY ConcatProperties
  <1> HIDE DEF u
  <1>2. \A k \in 1 .. Len(t) : u[Len(s) + k] = t[k] /\ t[k] \in S
    <2> SUFFICES ASSUME NEW k \in 1 .. Len(t) PROVE u[Len(s) + k] = t[k]
      BY <1>1
    <2>1. Len(s) + k \in 1 .. Len(s) + Len(t) /\ ~(Len(s) + k <= Len(s)) /\ Len(s) + k - Len(s) = k
      BY <1>1
    <2> QED  BY <1>1, <2>1
  <1>3. /\ SubSeq(u, Len(s) + 1, Len(s) + Len(t)) \in Seq(S)
        /\ Len(SubSeq(u, Len(s) + 1, Len(s) + Len(t))) = Len(t)
        /\ \A k \in 1 .. Len(t) : SubSeq(u, Len(s) + 1, Len(s) + Len(t))[k] = u[Len(s) + k]
    <2>1. u \in Seq(S) /\ Len(s) <= Len(u) /\ Len(u) - Len(s) = Len(t)
      <3>1. u \in Seq(S)
        BY ConcatProperties DEF u
      <3> QED  BY <1>1, <3>1
    <2>2. IsRest(S, u, Len(s), Rest(u, Len(s)))
      BY <1>1, <2>1, RestOf
    <2> QED  BY <1>1, <2>1, <2>2 DEF IsRest, Rest
  <1>4. SubSeq(u, Len(s) + 1, Len(s) + Len(t)) = t
    BY <1>2, <1>3, SeqEqual
  <1> QED  BY <1>1, <1>4 DEF u

\* A file as it is written passes both validations.
LEMMA WholeFiles ==
    ASSUME NEW S, NEW payload \in Seq(S), NEW magic
    PROVE  LET file == WriteWithHeader(magic, payload)
           IN  /\ Len(file) = Len(payload) + 4 /\ Len(payload) \in Nat
               /\ DOMAIN file = 1 .. Len(file)
               /\ file[1] = magic /\ file[2] = 2 /\ file[3] = Len(payload) /\ file[4] = payload
               /\ \A k \in 1 .. Len(payload) : file[k + 4] = payload[k]
               /\ PayloadFromSlice(file) = payload
               /\ \E U : file \in Seq(U)
PROOF
  <1> DEFINE head == <<magic, 2, Len(payload), payload>>
  <1> DEFINE U == S \cup {magic, 2, Len(payload), payload}
  <1> DEFINE file == WriteWithHeader(magic, payload)
  <1>1. head \in Seq(U) /\ Len(head) = 4 /\ payload \in Seq(U) /\ Len(payload) \in Nat
    OBVIOUS
  <1>2. head[1] = magic /\ head[2] = 2 /\ head[3] = Len(payload) /\ head[4] = payload
    OBVIOUS
  <1>3. file = head \o payload
    BY DEF WriteWithHeader, FormatVersion, Checksum
  <1> HIDE DEF head, U, file
  <1>4. /\ file \in Seq(U)
        /\ Len(file) = 4 + Len(payload)
        /\ \A k \in 1 .. 4 + Len(payload) : file[k] = IF k <= 4 THEN head[k] ELSE payload[k - 4]
    <2>1. /\ file \in Seq(U)
          /\ Len(file) = Len(head) + Len(payload)
          /\ \A k \in 1 .. Len(head) + Len(payload) :
                file[k] = IF k <= Len(head) THEN head[k] ELSE payload[k - Len(head)]
      BY <1>1, <1>3, ConcatProperties
    <2> QED  BY <1>1, <2>1
  <1>5. PayloadFromSlice(file) = payload
    <2>1. SubSeq(file, Len(head) + 1, Len(file)) = payload
      BY <1>1, <1>3, EndOfConcat
    <2> QED  BY <1>1, <2>1 DEF PayloadFromSlice, HeaderSize
  <1>6. /\ file[1] = magic /\ file[2] = 2 /\ file[3] = Len(payload) /\ file[4] = payload
        /\ \A k \in 1 .. Len(payload) : file[k + 4] = payload[k]
    <2>1. 1 \in 1 .. 4 + Len(payload) /\ 2 \in 1 .. 4 + Len(payload)
          /\ 3 \in 1 .. 4 + Len(payload) /\ 4 \in 1 .. 4 + Len(payload)
      BY <1>1
    <2>2. \A k \in 1 .. Len(payload) : k + 4 \in 1 .. 4 + Len(payload) /\ ~(k + 4 <= 4) /\ k + 4 - 4 = k
      BY <1>1
    <2> QED  BY <1>1, <1>2, <1>4, <2>1, <2>2
  <1>7. Len(file) = Len(payload) + 4 /\ DOMAIN file = 1 .. Len(file)
    BY <1>1, <1>4
  <1> QED  BY <1>1, <1>4, <1>5, <1>6, <1>7 DEF file

LEMMA WholeFilesAreValid ==
    ASSUME NEW S, NEW payload \in Seq(S), NEW magic
    PROVE  /\ ValidSlice(WriteWithHeader(magic, payload), magic)
           /\ ValidStream(WriteWithHeader(magic, payload), magic)
PROOF
  <1> DEFINE file == WriteWithHeader(magic, payload)
  <1>1. /\ Len(file) = Len(payload) + 4 /\ Len(payload) \in Nat
        /\ file[1] = magic /\ file[2] = 2 /\ file[3] = Len(payload) /\ file[4] = payload
        /\ PayloadFromSlice(file) = payload
    BY WholeFiles
  <1> HIDE DEF file
  <1>2. Number(file[2]) = 2 /\ Number(file[3]) = Len(payload)
    BY <1>1, HoleAssumption DEF Number
  <1>3. HeaderFits(file, magic)
    BY <1>1, <1>2 DEF HeaderFits, HeaderSize, FormatVersion
  <1>4. ValidSlice(file, magic)
    BY <1>1, <1>2, <1>3 DEF ValidSlice, HeaderSize, Checksum
  <1>5. Streamed(file) = payload
    BY <1>1, <1>2 DEF Streamed, PayloadFromSlice, HeaderSize
  <1>6. ValidStream(file, magic)
    BY <1>1, <1>2, <1>3, <1>5 DEF ValidStream, HeaderSize, Checksum
  <1> QED  BY <1>4, <1>6 DEF file

\* What is left of a file passes a validation only if it is the whole file.
LEMMA DamagedFiles ==
    ASSUME NEW S, NEW payload \in Seq(S), NEW f \in DOMAIN Magic,
           NEW remains \in Damaged(WriteWithHeader(Magic[f], payload)),
           ValidSlice(remains, Magic[f]) \/ ValidStream(remains, Magic[f])
    PROVE  remains = WriteWithHeader(Magic[f], payload)
PROOF
  <1> DEFINE file == WriteWithHeader(Magic[f], payload)
  <1>1. /\ Len(file) = Len(payload) + 4 /\ Len(payload) \in Nat
        /\ DOMAIN file = 1 .. Len(file)
        /\ file[1] = Magic[f] /\ file[3] = Len(payload) /\ file[4] = payload
        /\ \A k \in 1 .. Len(payload) : file[k + 4] = payload[k]
        /\ \E U : file \in Seq(U)
    BY WholeFiles
  <1>2. HeaderFits(remains, Magic[f])
    BY DEF ValidSlice, ValidStream
  <1>3. remains \in Damaged(file)
    OBVIOUS
  <1> HIDE DEF file
  <1>4. PICK U : file \in Seq(U)
    BY <1>1
  <1>5. Number(file[3]) = Len(payload)
    BY <1>1, HoleAssumption DEF Number
  <1>6. ASSUME NEW n \in 0 .. Len(file), remains = FirstOf(file, n)
        PROVE  remains = file
    <2>1. /\ Len(remains) = n /\ \A k \in 1 .. n : remains[k] = file[k]
      <3>1. \A k \in 1 .. n : file[0 + k] \in U
        BY <1>1, <1>4
      <3>2. /\ Len(SubSeq(file, 0 + 1, 0 + n)) = n
            /\ \A k \in 1 .. n : SubSeq(file, 0 + 1, 0 + n)[k] = file[0 + k]
        BY <1>1, <3>1, Stretch
      <3>3. SubSeq(file, 0 + 1, 0 + n) = remains
        BY <1>1, <1>6 DEF FirstOf
      <3> QED  BY <1>1, <3>2, <3>3
    <2>2. n >= 4
      BY <1>2, <2>1 DEF HeaderFits, HeaderSize
    <2>3. Number(remains[3]) = Len(payload)
      BY <1>1, <1>5, <2>1, <2>2
    <2>4. n = Len(file)
      <3>1. CASE ValidSlice(remains, Magic[f])
        BY <1>1, <2>1, <2>2, <2>3, <3>1 DEF ValidSlice, HeaderSize
      <3>2. CASE ValidStream(remains, Magic[f])
        BY <1>1, <2>1, <2>2, <2>3, <3>2 DEF ValidStream, HeaderSize
      <3> QED  BY <3>1, <3>2
    <2> QED  BY <1>4, <1>6, <2>4, SubSeqFull DEF FirstOf
  <1>7. ASSUME NEW n \in {0} \cup 4 .. Len(file), remains = HollowAfter(file, n)
        PROVE  remains = file
    <2>1. /\ remains \in Seq(U \cup {Hole}) /\ Len(remains) = Len(file)
          /\ \A k \in 1 .. Len(file) : remains[k] = IF k <= n THEN file[k] ELSE Hole
      BY <1>1, <1>4, <1>7 DEF HollowAfter
    <2>2. n # 0
      <3>1. Magic[f] # Hole
        BY HoleAssumption
      <3> QED  BY <1>1, <1>2, <2>1, <3>1 DEF HeaderFits
    <2>3. /\ remains[1] = file[1] /\ remains[2] = file[2]
          /\ remains[3] = file[3] /\ remains[4] = payload
      BY <1>1, <2>1, <2>2
    <2>4. SubSeq(remains, 5, Len(file)) = payload
      <3>1. CASE ValidSlice(remains, Magic[f])
        BY <2>1, <2>3, <3>1 DEF ValidSlice, PayloadFromSlice, HeaderSize, Checksum
      <3>2. CASE ValidStream(remains, Magic[f])
        BY <1>1, <1>5, <2>1, <2>3, <3>2 DEF ValidStream, Streamed, HeaderSize, Checksum
      <3> QED  BY <3>1, <3>2
    <2>5. \A k \in 1 .. Len(payload) : payload[k] = remains[4 + k]
      <3>1. \A k \in 1 .. Len(payload) : remains[4 + k] \in U \cup {Hole}
        BY <1>1, <2>1
      <3>2. \A k \in 1 .. Len(payload) : SubSeq(remains, 4 + 1, 4 + Len(payload))[k] = remains[4 + k]
        BY <1>1, <3>1, Stretch
      <3>3. 4 + 1 = 5 /\ 4 + Len(payload) = Len(file)
        BY <1>1
      <3> QED  BY <2>4, <3>2, <3>3
    <2>6. \A k \in 1 .. Len(file) : remains[k] = file[k]
      <3> SUFFICES ASSUME NEW k \in 1 .. Len(file) PROVE remains[k] = file[k]
        OBVIOUS
      <3>1. CASE k > 4
        <4>1. k - 4 \in 1 .. Len(payload) /\ 4 + (k - 4) = k /\ (k - 4) + 4 = k
          BY <1>1, <3>1
        <4> QED  BY <1>1, <2>5, <4>1
      <3>2. CASE ~(k > 4)
        BY <2>1, <2>2, <3>2
      <3> QED  BY <3>1, <3>2
    <2> QED
      <3>1. file \in Seq(U \cup {Hole})
        BY <1>4
      <3> QED  BY <2>1, <2>6, <3>1, SeqEqual
  <1>8. \/ \E n \in 0 .. Len(file) : remains = FirstOf(file, n)
        \/ \E n \in {0} \cup 4 .. Len(file) : remains = HollowAfter(file, n)
    BY <1>3 DEF Damaged, HeaderSize
  <1> QED  BY <1>6, <1>7, <1>8 DEF file

-----------------------------------------------------------------------------
(* The index: while it is written, the table has the hashes so far in      *)
(* ascending order, each with its stretch of the data, and what is opened  *)
(* later is what was written.                                              *)

Units   == Int \cup SUBSET Int
Entries == [hash : Nat, offset : Nat, len : Nat]

BlockOf(h) == EncodeAuto(FromVec(posting[h]))

IndexTypes ==
    /\ posting \in Indexes /\ unwritten \subseteq DOMAIN posting
    /\ table \in Seq(Entries) /\ data \in Seq(Units)

TableIsSorted ==
    /\ \A n, m \in DOMAIN table : n < m => table[n].hash < table[m].hash
    /\ \A n \in DOMAIN table : \A h \in unwritten : table[n].hash < h

TableIsComplete ==
    /\ \A n \in DOMAIN table : table[n].hash \in DOMAIN posting \ unwritten
    /\ \A h \in DOMAIN posting \ unwritten : \E n \in DOMAIN table : table[n].hash = h

EntriesPoint ==
    /\ \A n \in DOMAIN table :
          /\ table[n].offset + table[n].len <= Len(data)
          /\ SubSeq(data, table[n].offset + 1, table[n].offset + table[n].len) = BlockOf(table[n].hash)
          /\ table[n].offset = IF n = 1 THEN 0 ELSE table[n - 1].offset + table[n - 1].len
    /\ Len(data) = IF Len(table) = 0 THEN 0 ELSE table[Len(table)].offset + table[Len(table)].len

FilesInv ==
    /\ pc # "write" => unwritten = {}
    /\ pc = "open" => \E f \in DOMAIN Magic : \E remains \in Damaged(Written[f]) :
                         files = [Written EXCEPT ![f] = remains]
    /\ OnlyWholeIndexesOpen

IndexInv == IndexTypes /\ TableIsSorted /\ TableIsComplete /\ EntriesPoint /\ FilesInv

\* What the codec owes, for the list of a hash.
LEMMA Blocks ==
    ASSUME posting \in Indexes, NEW h \in DOMAIN posting
    PROVE  /\ BlockOf(h) \in Seq(Units) /\ Len(BlockOf(h)) \in Nat
           /\ DecodeTagged(BlockOf(h)) = FromVec(posting[h])
           /\ IsList(FromVec(posting[h])) /\ Ids(FromVec(posting[h])) = Elems(posting[h])
           /\ h \in Nat
PROOF
  <1>1. posting[h] \in Seq(Word) /\ Ascends(posting[h]) /\ h \in Nat
    BY IndexLists
  <1> DEFINE l == FromVec(posting[h])
  <1>2. IsList(l) /\ Ids(l) = Elems(posting[h])
    BY <1>1, FromVecLists
  <1>3. /\ l.kind = "vec" => EncodeAuto(l) \in Seq(Byte)
        /\ DecodeTagged(EncodeAuto(l)) = l
    BY CodecHolds DEF CodecRoundTrips
  <1> HIDE DEF l
  <1>4. EncodeAuto(l) \in Seq(Units)
    <2>1. CASE l.kind = "vec"
      <3>1. Byte \subseteq Units
        BY DEF Byte, Units
      <3> QED  BY <1>3, <2>1, <3>1
    <2>2. CASE l.kind = "roaring"
      <3>1. l.ids \in SUBSET Int
        BY <1>2, <2>2, IdsAreWords, Words
      <3> QED  BY <2>2, <3>1 DEF EncodeAuto, TagRoaring, Units
    <2> QED  BY <1>2, <2>1, <2>2, IdsAreWords
  <1> QED  BY <1>1, <1>2, <1>3, <1>4 DEF l, BlockOf

LEMMA WriteBlockStep ==
    ASSUME IndexInv, NEW h \in unwritten, WriteBlock(h)
    PROVE  IndexInv'
PROOF
  <1> DEFINE block == BlockOf(h)
  <1> DEFINE entry == [hash |-> h, offset |-> Len(data), len |-> Len(block)]
  <1>1. /\ data' = data \o block /\ table' = Append(table, entry)
        /\ unwritten' = unwritten \ {h} /\ posting' = posting /\ pc = "write" /\ pc' = pc
    BY DEF WriteBlock, BlockOf
  <1>2. h \in DOMAIN posting /\ \A g \in unwritten : h <= g
    BY DEF IndexInv, IndexTypes, WriteBlock
  <1>3. \A g \in DOMAIN posting : BlockOf(g) \in Seq(Units) /\ Len(BlockOf(g)) \in Nat /\ g \in Nat
    BY Blocks DEF IndexInv, IndexTypes
  <1> HIDE DEF block
  <1>4. /\ block \in Seq(Units) /\ Len(block) \in Nat /\ h \in Nat
        /\ data \in Seq(Units) /\ Len(data) \in Nat /\ table \in Seq(Entries) /\ Len(table) \in Nat
    BY <1>2, <1>3 DEF block, IndexInv, IndexTypes
  <1>5. entry \in Entries
    BY <1>4 DEF Entries
  <1>6. /\ table' \in Seq(Entries) /\ Len(table') = Len(table) + 1
        /\ DOMAIN table' = 1 .. Len(table) + 1 /\ DOMAIN table = 1 .. Len(table)
        /\ \A n \in 1 .. Len(table) : table'[n] = table[n] /\ table[n] \in Entries
        /\ table'[Len(table) + 1] = entry
    BY <1>1, <1>4, <1>5
  <1>7. data' \in Seq(Units) /\ Len(data') = Len(data) + Len(block)
    BY <1>1, <1>4, ConcatProperties
  <1>8. \A g : BlockOf(g)' = BlockOf(g)
    BY <1>1 DEF BlockOf
  <1>9. IndexTypes'
    BY <1>1, <1>6, <1>7 DEF IndexInv, IndexTypes
  <1>10. TableIsSorted'
    <2>1. \A n \in 1 .. Len(table) : table[n].hash < h
      BY <1>6 DEF IndexInv, TableIsSorted
    <2>2. \A n, m \in DOMAIN table' : n < m => table'[n].hash < table'[m].hash
      BY <1>4, <1>6, <2>1 DEF IndexInv, TableIsSorted
    <2>3. \A g \in unwritten' : g \in unwritten /\ h < g
      BY <1>1, <1>2, <1>3, <1>4 DEF IndexInv, IndexTypes
    <2>4. ASSUME NEW n \in DOMAIN table', NEW g \in unwritten' PROVE table'[n].hash < g
      <3>1. g \in unwritten /\ h < g
        BY <2>3
      <3>2. CASE n \in DOMAIN table
        BY <1>6, <3>1, <3>2 DEF IndexInv, TableIsSorted
      <3>3. CASE n = Len(table) + 1
        BY <1>6, <3>1, <3>3
      <3> QED  BY <1>4, <1>6, <3>2, <3>3
    <2> QED  BY <2>2, <2>4 DEF TableIsSorted
  <1>11. TableIsComplete'
    <2>1. \A n \in DOMAIN table' : table'[n].hash \in DOMAIN posting \ unwritten'
      BY <1>1, <1>2, <1>4, <1>6 DEF IndexInv, TableIsComplete
    <2>2. ASSUME NEW g \in DOMAIN posting \ unwritten'
          PROVE  \E n \in DOMAIN table' : table'[n].hash = g
      <3>1. CASE g = h
        <4>1. Len(table) + 1 \in DOMAIN table' /\ table'[Len(table) + 1].hash = h
          BY <1>4, <1>6
        <4> QED  BY <3>1, <4>1
      <3>2. CASE g # h
        <4>1. PICK n \in DOMAIN table : table[n].hash = g
          BY <1>1, <3>2 DEF IndexInv, TableIsComplete
        <4>2. n \in DOMAIN table' /\ table'[n].hash = g
          BY <1>4, <1>6, <4>1
        <4> QED  BY <4>2
      <3> QED  BY <3>1, <3>2
    <2> QED  BY <1>1, <2>1, <2>2 DEF TableIsComplete
  <1>12. EntriesPoint'
    <2>1. ASSUME NEW n \in 1 .. Len(table)
          PROVE  /\ table'[n].offset + table'[n].len <= Len(data')
                 /\ SubSeq(data', table'[n].offset + 1, table'[n].offset + table'[n].len)
                       = BlockOf(table'[n].hash)
                 /\ table'[n].offset = IF n = 1 THEN 0 ELSE table'[n - 1].offset + table'[n - 1].len
      <3> DEFINE a == table[n].offset
      <3> DEFINE m == table[n].len
      <3>1. /\ table'[n] = table[n] /\ a \in Nat /\ m \in Nat /\ a + m <= Len(data)
            /\ SubSeq(data, a + 1, a + m) = BlockOf(table[n].hash)
            /\ a = IF n = 1 THEN 0 ELSE table[n - 1].offset + table[n - 1].len
        BY <1>6 DEF IndexInv, EntriesPoint, Entries
      <3>2. table'[n].offset = a /\ table'[n].len = m /\ table'[n].hash = table[n].hash
        BY <3>1
      <3>3. n # 1 => n - 1 \in 1 .. Len(table) /\ table'[n - 1] = table[n - 1]
        BY <1>4, <1>6
      <3> HIDE DEF a, m
      <3>4. SubSeq(data', a + 1, a + m) = SubSeq(data, a + 1, a + m)
        <4>1. data \in Seq(Units) /\ block \in Seq(Units) /\ a \in Nat /\ m \in Nat /\ a + m <= Len(data)
          BY <1>4, <3>1
        <4>2. SubSeq(data \o block, a + 1, a + m) = SubSeq(data, a + 1, a + m)
          BY <4>1, StretchOfConcat
        <4> QED  BY <1>1, <4>2
      <3>5. a + m <= Len(data')
        BY <1>4, <1>7, <3>1
      <3>6. SubSeq(data', table'[n].offset + 1, table'[n].offset + table'[n].len)
              = BlockOf(table'[n].hash)
        BY <3>1, <3>2, <3>4
      <3>7. table'[n].offset = IF n = 1 THEN 0 ELSE table'[n - 1].offset + table'[n - 1].len
        BY <3>1, <3>2, <3>3
      <3> QED  BY <3>2, <3>5, <3>6, <3>7
    <2>2. LET n == Len(table) + 1
          IN  /\ table'[n].offset + table'[n].len <= Len(data')
              /\ SubSeq(data', table'[n].offset + 1, table'[n].offset + table'[n].len)
                    = BlockOf(table'[n].hash)
              /\ table'[n].offset = IF n = 1 THEN 0 ELSE table'[n - 1].offset + table'[n - 1].len
      <3> DEFINE n == Len(table) + 1
      <3>1. table'[n].hash = h /\ table'[n].offset = Len(data) /\ table'[n].len = Len(block)
        BY <1>6
      <3>2. SubSeq(data', Len(data) + 1, Len(data) + Len(block)) = block
        BY <1>1, <1>4, EndOfConcat
      <3>3. n # 1 => n - 1 = Len(table) /\ table'[n - 1] = table[n - 1]
        BY <1>4, <1>6
      <3>4. Len(data) = IF n = 1 THEN 0 ELSE table[n - 1].offset + table[n - 1].len
        BY <1>4, <3>3 DEF IndexInv, EntriesPoint
      <3>5. table'[n].offset + table'[n].len <= Len(data')
        BY <1>4, <1>7, <3>1
      <3>6. SubSeq(data', table'[n].offset + 1, table'[n].offset + table'[n].len)
              = BlockOf(table'[n].hash)
        BY <3>1, <3>2 DEF block
      <3>7. table'[n].offset = IF n = 1 THEN 0 ELSE table'[n - 1].offset + table'[n - 1].len
        BY <3>1, <3>3, <3>4
      <3> QED  BY <3>5, <3>6, <3>7
    <2>3. Len(data') = IF Len(table') = 0 THEN 0
                       ELSE table'[Len(table')].offset + table'[Len(table')].len
      BY <1>4, <1>6, <1>7
    <2>4. \A n \in DOMAIN table' : n \in 1 .. Len(table) \/ n = Len(table) + 1
      BY <1>4, <1>6
    <2> QED  BY <1>8, <2>1, <2>2, <2>3, <2>4 DEF EntriesPoint
  <1>13. FilesInv'
    BY <1>1 DEF FilesInv, OnlyWholeIndexesOpen
  <1> QED  BY <1>9, <1>10, <1>11, <1>12, <1>13 DEF IndexInv

LEMMA WrittenFiles ==
    ASSUME IndexTypes
    PROVE  /\ DOMAIN Written = DOMAIN Magic
           /\ \A f \in DOMAIN Magic :
                 /\ ValidSlice(Written[f], Magic[f]) /\ ValidStream(Written[f], Magic[f])
                 /\ \A remains \in Damaged(Written[f]) :
                       ValidSlice(remains, Magic[f]) \/ ValidStream(remains, Magic[f])
                           => remains = Written[f]
           /\ PayloadFromSlice(Written["ngrams"]) = table
           /\ PayloadFromSlice(Written["postings"]) = data
PROOF
  <1>1. table \in Seq(Entries) /\ data \in Seq(Units) /\ <<FileCount>> \in Seq({FileCount})
    BY DEF IndexTypes
  <1>2. /\ Written["ngrams"] = WriteWithHeader(Magic["ngrams"], table)
        /\ Written["postings"] = WriteWithHeader(Magic["postings"], data)
        /\ Written["manifest"] = WriteWithHeader(Magic["manifest"], <<FileCount>>)
        /\ DOMAIN Written = DOMAIN Magic /\ DOMAIN Magic = {"ngrams", "postings", "manifest"}
    BY DEF Written, Magic
  <1>3. PayloadFromSlice(Written["ngrams"]) = table /\ PayloadFromSlice(Written["postings"]) = data
    BY <1>1, <1>2, WholeFiles
  <1>4. ASSUME NEW f \in DOMAIN Magic
        PROVE  /\ ValidSlice(Written[f], Magic[f]) /\ ValidStream(Written[f], Magic[f])
               /\ \A remains \in Damaged(Written[f]) :
                     ValidSlice(remains, Magic[f]) \/ ValidStream(remains, Magic[f])
                         => remains = Written[f]
    <2>1. PICK payload \in {table, data, <<FileCount>>} : Written[f] = WriteWithHeader(Magic[f], payload)
      BY <1>2
    <2>2. PICK S : payload \in Seq(S)
      BY <1>1
    <2> QED  BY <2>1, <2>2, WholeFilesAreValid, DamagedFiles
  <1> QED  BY <1>2, <1>3, <1>4

LEMMA StoreStep ==
    ASSUME IndexInv, NEW f \in DOMAIN Magic, Store(f)
    PROVE  IndexInv'
PROOF
  <1>1. /\ UNCHANGED <<posting, unwritten, table, data>> /\ pc' = "open" /\ unwritten = {}
        /\ \E remains \in Damaged(Written[f]) : files' = [Written EXCEPT ![f] = remains]
    BY DEF Store
  <1>2. Written' = Written
    BY <1>1 DEF Written
  <1>3. IndexTypes' /\ TableIsSorted' /\ TableIsComplete' /\ EntriesPoint'
    BY <1>1 DEF IndexInv, IndexTypes, TableIsSorted, TableIsComplete, EntriesPoint, BlockOf
  <1>4. FilesInv'
    BY <1>1, <1>2 DEF FilesInv, OnlyWholeIndexesOpen
  <1> QED  BY <1>3, <1>4 DEF IndexInv

\* Validation lets pass what was written and nothing else.
LEMMA ValidFiles ==
    ASSUME IndexInv, pc = "open"
    PROVE  Valid(files) <=> files = Written
PROOF
  <1>1. PICK f \in DOMAIN Magic :
           \E remains \in Damaged(Written[f]) : files = [Written EXCEPT ![f] = remains]
    BY DEF IndexInv, FilesInv
  <1>2. PICK remains \in Damaged(Written[f]) : files = [Written EXCEPT ![f] = remains]
    BY <1>1
  <1>3. /\ DOMAIN Written = DOMAIN Magic
        /\ \A g \in DOMAIN Magic : ValidSlice(Written[g], Magic[g]) /\ ValidStream(Written[g], Magic[g])
        /\ ValidSlice(remains, Magic[f]) \/ ValidStream(remains, Magic[f]) => remains = Written[f]
    BY <1>2, WrittenFiles DEF IndexInv
  <1>4. DOMAIN Magic = {"ngrams", "postings", "manifest"}
    BY DEF Magic
  <1>5. ASSUME Valid(files) PROVE files = Written
    <2>1. files[f] = remains
      BY <1>2, <1>3
    <2>2. ValidSlice(remains, Magic[f]) \/ ValidStream(remains, Magic[f])
      BY <1>4, <1>5, <2>1 DEF Valid
    <2>3. Written[f] = remains
      BY <1>3, <2>2
    <2>4. Written = [g \in DOMAIN Magic |-> Written[g]]
      BY DEF Written, Magic
    <2> HIDE DEF Written
    <2> QED  BY <1>2, <1>3, <2>3, <2>4
  <1>6. ASSUME files = Written PROVE Valid(files)
    BY <1>3, <1>4, <1>6 DEF Valid
  <1> QED  BY <1>5, <1>6

LEMMA OpenIndexStep ==
    ASSUME IndexInv, OpenIndex
    PROVE  IndexInv' /\ UNCHANGED <<table, data>>
PROOF
  <1>1. files = Written
    BY ValidFiles DEF OpenIndex
  <1>2. /\ table' = table /\ data' = data /\ UNCHANGED <<posting, unwritten, files>> /\ pc' = "ask"
        /\ pc = "open"
    BY <1>1, WrittenFiles DEF OpenIndex, IndexInv
  <1>3. Written' = Written
    BY <1>2 DEF Written
  <1>4. IndexTypes' /\ TableIsSorted' /\ TableIsComplete' /\ EntriesPoint'
    BY <1>2 DEF IndexInv, IndexTypes, TableIsSorted, TableIsComplete, EntriesPoint, BlockOf
  <1>5. FilesInv'
    BY <1>1, <1>2, <1>3 DEF IndexInv, FilesInv, OnlyWholeIndexesOpen
  <1> QED  BY <1>2, <1>4, <1>5 DEF IndexInv

LEMMA RefuseIndexStep ==
    ASSUME IndexInv, RefuseIndex
    PROVE  IndexInv'
PROOF
  <1>1. files # Written
    BY ValidFiles DEF RefuseIndex
  <1>2. UNCHANGED <<posting, unwritten, table, data, files>> /\ pc' = "refused" /\ pc = "open"
    BY DEF RefuseIndex, indexVars
  <1>3. Written' = Written
    BY <1>2 DEF Written
  <1>4. IndexTypes' /\ TableIsSorted' /\ TableIsComplete' /\ EntriesPoint'
    BY <1>2 DEF IndexInv, IndexTypes, TableIsSorted, TableIsComplete, EntriesPoint, BlockOf
  <1>5. FilesInv'
    BY <1>1, <1>2, <1>3 DEF IndexInv, FilesInv, OnlyWholeIndexesOpen
  <1> QED  BY <1>4, <1>5 DEF IndexInv

Opened == pc \notin {"write", "open", "refused"}

\* Whatever a lookup does, it leaves the index alone.
LEMMA IndexKept ==
    ASSUME IndexInv, Opened, Opened', UNCHANGED indexVars
    PROVE  IndexInv'
PROOF
  <1>1. UNCHANGED <<posting, unwritten, table, data, files>>
    BY DEF indexVars
  <1>2. Written' = Written
    BY <1>1 DEF Written
  <1>3. IndexTypes' /\ TableIsSorted' /\ TableIsComplete' /\ EntriesPoint'
    BY <1>1 DEF IndexInv, IndexTypes, TableIsSorted, TableIsComplete, EntriesPoint, BlockOf
  <1>4. FilesInv'
    BY <1>1, <1>2 DEF IndexInv, FilesInv, OnlyWholeIndexesOpen, Opened
  <1> QED  BY <1>3, <1>4 DEF IndexInv

-----------------------------------------------------------------------------
(* The lookup: what its variables stand for at each stage.                 *)

\* The files that have the first n of the hashes, or one of the first n branches.
HasAll(hashes, n) == {id \in AllIds(FileCount) : \A k \in 1 .. n : id \in Lists[hashes[k]]}

BranchIds(b) == HasAll(plan.alternatives[b], Len(plan.alternatives[b]))
Branches(n)  == UNION {BranchIds(b) : b \in 1 .. n}

Answer ==
    HasAll(plan.required, Len(plan.required))
        \cap (IF plan.alternatives = <<>> THEN AllIds(FileCount)
              ELSE Branches(Len(plan.alternatives)))

Types ==
    /\ pc \in Stages /\ then \in {"list", "union", "answer"}
    /\ plan \in [required : Seq(Nat), alternatives : Seq(Seq(Nat))]
    /\ branch \in 0 .. Len(plan.alternatives) + 1 /\ nth \in Nat \ {0}
    /\ lo \in 0 .. Len(table) /\ hi \in 0 .. Len(table)
    /\ i \in Nat \ {0} /\ j \in Nat \ {0} /\ merged \in Seq(Word)
    /\ IsList(union) /\ IsList(left) /\ IsList(right)
    /\ list = NoList \/ IsList(list)

InHashes == pc \in {"next", "search", "combine"}

\* The union so far, and the intersection so far.
BranchesInv ==
    /\ ~(InHashes \/ pc \in {"branch", "done"}) => union = Empty
    /\ pc = "branch" => branch > 0 /\ plan.alternatives # <<>>
    /\ InHashes => branch <= Len(plan.alternatives) /\ Len(HashList) > 0
    /\ (InHashes \/ pc = "branch") /\ branch > 0 => Ids(union) = Branches(branch - 1)
    /\ InHashes /\ branch = 0 /\ plan.alternatives # <<>> =>
          Ids(union) = Branches(Len(plan.alternatives))

HashesInv ==
    /\ pc \in {"next", "search"} =>
          /\ nth <= Len(HashList) + 1
          /\ IF list = NoList THEN nth = 1 ELSE nth > 1 /\ Ids(list) = HasAll(HashList, nth - 1)
    /\ pc = "done" => list # NoList /\ Ids(list) = Answer

\* The hash at hand can only be in the window.
SearchInv ==
    pc = "search" =>
        /\ nth <= Len(HashList) /\ lo <= hi
        /\ \A n \in 1 .. lo : table[n].hash < Hash
        /\ \A n \in hi + 1 .. Len(table) : table[n].hash > Hash

\* What is being combined, and why.
PartsInv ==
    pc = "combine" =>
        \/ /\ then = "list" /\ nth > 1 /\ nth <= Len(HashList)
           /\ Ids(left) = HasAll(HashList, nth - 1) /\ Ids(right) = Lists[Hash]
        \/ /\ then = "union" /\ branch > 0
           /\ Ids(left) = Branches(branch - 1) /\ Ids(right) = HasAll(HashList, Len(HashList))
        \/ /\ then = "answer" /\ branch = 0 /\ plan.alternatives # <<>>
           /\ Ids(left) = HasAll(HashList, Len(HashList))
           /\ Ids(right) = Branches(Len(plan.alternatives))

Before(ids, n) == {ids[k] : k \in 1 .. n - 1}

\* What has been merged, and that it is smaller than all that is still to come.
MergeInv ==
    /\ pc = "combine" /\ AreVecs =>
          /\ i <= Len(left.ids) + 1 /\ j <= Len(right.ids) + 1
          /\ \A m \in j .. Len(right.ids) : \A x \in Before(left.ids, i) : x < right.ids[m]
          /\ \A m \in i .. Len(left.ids) : \A x \in Before(right.ids, j) : x < left.ids[m]
          /\ Ascends(merged)
          /\ IF Uniting THEN Elems(merged) = Before(left.ids, i) \cup Before(right.ids, j)
             ELSE /\ Elems(merged) = Before(left.ids, i) \cap Before(right.ids, j)
                  /\ Len(merged) < i
    /\ Sieving =>
          /\ i <= Len(Sieved) + 1
          /\ Ascends(merged) /\ Elems(merged) = Before(Sieved, i) \cap Sieve

LookupInv ==
    Types /\ BranchesInv /\ HashesInv /\ SearchInv /\ PartsInv /\ MergeInv

IInv == IndexInv /\ LookupInv /\ steps \in Nat

-----------------------------------------------------------------------------
(* What the index says of a hash.                                          *)

LEMMA ListsOfHashes ==
    ASSUME IndexInv
    PROVE  /\ \A h \in Nat : Lists[h] \subseteq AllIds(FileCount)
           /\ \A h \in DOMAIN posting : h \in Nat /\ Lists[h] = Elems(posting[h])
           /\ \A h \in Nat \ DOMAIN posting : Lists[h] = {}
PROOF
  <1>1. \A h \in DOMAIN posting : h \in Nat /\ posting[h] \in Seq(AllIds(FileCount))
    BY IndexesAssumption DEF IndexInv, IndexTypes
  <1>2. \A h \in DOMAIN posting : Elems(posting[h]) \subseteq AllIds(FileCount)
    BY <1>1, ElemsInSet
  <1> QED  BY <1>1, <1>2 DEF Lists

LEMMA FoundLists ==
    ASSUME IndexInv, Opened, NEW n \in DOMAIN table
    PROVE  /\ DecodeTagged(Block(table[n])) = FromVec(posting[table[n].hash])
           /\ IsList(DecodeTagged(Block(table[n])))
           /\ Ids(DecodeTagged(Block(table[n]))) = Lists[table[n].hash]
PROOF
  <1>1. /\ table[n].hash \in DOMAIN posting
        /\ table[n].offset + table[n].len <= Len(data)
        /\ SubSeq(data, table[n].offset + 1, table[n].offset + table[n].len) = BlockOf(table[n].hash)
    BY DEF IndexInv, TableIsComplete, EntriesPoint
  <1>2. Block(table[n]) = BlockOf(table[n].hash)
    BY <1>1 DEF Block
  <1> QED  BY <1>1, <1>2, Blocks, ListsOfHashes DEF IndexInv, IndexTypes

LEMMA MissingLists ==
    ASSUME IndexInv, Opened, NEW h \in Nat, \A n \in DOMAIN table : table[n].hash # h
    PROVE  Lists[h] = {}
PROOF
  <1>1. unwritten = {}
    BY DEF IndexInv, FilesInv, Opened
  <1>2. h \notin DOMAIN posting
    BY <1>1 DEF IndexInv, TableIsComplete
  <1> QED  BY <1>2, ListsOfHashes

LEMMA HasAllFacts ==
    ASSUME IndexInv, NEW hashes \in Seq(Nat)
    PROVE  /\ HasAll(hashes, 0) = AllIds(FileCount)
           /\ \A n \in 0 .. Len(hashes) : HasAll(hashes, n) \subseteq AllIds(FileCount)
           /\ \A n \in 1 .. Len(hashes) :
                 HasAll(hashes, n) = HasAll(hashes, n - 1) \cap Lists[hashes[n]]
           /\ \A n \in 0 .. Len(hashes) : HasAll(hashes, Len(hashes)) \subseteq HasAll(hashes, n)
PROOF
  <1>1. \A n \in 1 .. Len(hashes) : \A k \in 1 .. n : k \in 1 .. n - 1 \/ k = n
    OBVIOUS
  <1>2. \A n \in 1 .. Len(hashes) : \A k \in 1 .. n - 1 : k \in 1 .. n
    OBVIOUS
  <1>3. \A n \in 1 .. Len(hashes) : n \in 1 .. n
    OBVIOUS
  <1>4. \A n \in 1 .. Len(hashes) : HasAll(hashes, n) = HasAll(hashes, n - 1) \cap Lists[hashes[n]]
    BY <1>1, <1>2, <1>3 DEF HasAll
  <1>5. \A n \in 0 .. Len(hashes) : HasAll(hashes, Len(hashes)) \subseteq HasAll(hashes, n)
    BY DEF HasAll
  <1> QED  BY <1>4, <1>5 DEF HasAll

LEMMA BranchesFacts ==
    ASSUME IndexInv, plan.alternatives \in Seq(Seq(Nat))
    PROVE  /\ Branches(0) = {}
           /\ \A b \in 1 .. Len(plan.alternatives) : Branches(b) = Branches(b - 1) \cup BranchIds(b)
           /\ \A b \in 0 .. Len(plan.alternatives) : Branches(b) \subseteq AllIds(FileCount)
           /\ \A b \in 1 .. Len(plan.alternatives) :
                 BranchIds(b) \subseteq Branches(Len(plan.alternatives))
PROOF
  <1>1. \A b \in 1 .. Len(plan.alternatives) : BranchIds(b) \subseteq AllIds(FileCount)
    BY DEF BranchIds, HasAll
  <1>2. \A b \in 1 .. Len(plan.alternatives) :
           \A c : c \in 1 .. b <=> c \in 1 .. b - 1 \/ c = b
    OBVIOUS
  <1>3. \A b \in 1 .. Len(plan.alternatives) : Branches(b) = Branches(b - 1) \cup BranchIds(b)
    BY <1>2 DEF Branches
  <1>4. Branches(0) = {}
    BY DEF Branches
  <1>5. ASSUME NEW b \in 0 .. Len(plan.alternatives)
        PROVE  Branches(b) \subseteq AllIds(FileCount)
    <2>1. \A c \in 1 .. b : c \in 1 .. Len(plan.alternatives)
      OBVIOUS
    <2> QED  BY <1>1, <2>1 DEF Branches
  <1>6. \A b \in 1 .. Len(plan.alternatives) : BranchIds(b) \subseteq Branches(Len(plan.alternatives))
    BY DEF Branches
  <1> QED  BY <1>3, <1>4, <1>5, <1>6

-----------------------------------------------------------------------------
(* The steps before the lookup.                                            *)

LEMMA InitLookup ==
    Init => IInv
PROOF
  <1> SUFFICES ASSUME Init PROVE IInv
    OBVIOUS
  <1>1. IndexTypes
    BY DEF Init, IndexTypes
  <1>2. TableIsSorted /\ TableIsComplete /\ EntriesPoint
    BY DEF Init, TableIsSorted, TableIsComplete, EntriesPoint
  <1>3. FilesInv
    BY DEF Init, FilesInv, OnlyWholeIndexesOpen
  <1>4. Types
    <2>1. plan \in [required : Seq(Nat), alternatives : Seq(Seq(Nat))] /\ Len(plan.alternatives) = 0
      BY DEF Init
    <2>2. IsList(union) /\ IsList(left) /\ IsList(right)
      BY EmptyLists DEF Init
    <2>3. table = <<>> /\ Len(table) = 0
      BY DEF Init
    <2> QED  BY <2>1, <2>2, <2>3 DEF Init, Types, Stages
  <1>5. BranchesInv /\ HashesInv /\ SearchInv /\ PartsInv /\ MergeInv
    BY DEF Init, BranchesInv, HashesInv, SearchInv, PartsInv, MergeInv, InHashes, Sieving
  <1> QED  BY <1>1, <1>2, <1>3, <1>4, <1>5 DEF Init, IInv, IndexInv, LookupInv

\* Before a plan is asked for, nothing is looked up.
LEMMA IndexSteps ==
    ASSUME IInv,
           \/ \E h \in unwritten : WriteBlock(h)
           \/ \E f \in DOMAIN Magic : Store(f)
           \/ OpenIndex
           \/ RefuseIndex
    PROVE  IInv'
PROOF
  <1>1. /\ UNCHANGED <<plan, searchVars, mergeVars, resultVars, steps>>
        /\ pc \in {"write", "open"} /\ pc' \in {"write", "open", "refused", "ask"}
    BY DEF WriteBlock, Store, OpenIndex, RefuseIndex
  <1>2. IndexInv' /\ Len(table) <= Len(table') /\ Len(table) \in Nat /\ Len(table') \in Nat
    <2>1. IndexInv /\ Len(table) \in Nat
      BY DEF IInv, IndexInv, IndexTypes
    <2>2. ASSUME NEW h \in unwritten, WriteBlock(h)
          PROVE  IndexInv' /\ Len(table) <= Len(table')
      <3>1. IndexInv'
        BY <2>1, <2>2, WriteBlockStep
      <3>2. table' = Append(table, [hash |-> h, offset |-> Len(data), len |-> Len(BlockOf(h))])
        BY <2>2 DEF WriteBlock, BlockOf
      <3>3. Len(table') = Len(table) + 1
        BY <2>1, <3>2 DEF IndexInv, IndexTypes
      <3> QED  BY <2>1, <3>1, <3>3
    <2>3. ASSUME NEW f \in DOMAIN Magic, Store(f)
          PROVE  IndexInv' /\ Len(table) <= Len(table')
      <3>1. table' = table
        BY <2>3 DEF Store
      <3> QED  BY <2>1, <2>3, <3>1, StoreStep
    <2>4. CASE OpenIndex
      BY <2>1, <2>4, OpenIndexStep
    <2>5. CASE RefuseIndex
      <3>1. table' = table
        BY <2>5 DEF RefuseIndex, indexVars
      <3> QED  BY <2>1, <2>5, <3>1, RefuseIndexStep
    <2>6. IndexInv' /\ Len(table) <= Len(table')
      BY <2>2, <2>3, <2>4, <2>5
    <2>7. Len(table') \in Nat
      BY <2>6 DEF IndexInv, IndexTypes
    <2> QED  BY <2>1, <2>6, <2>7
  <1>3. Types'
    <2>1. plan' = plan /\ then' = then /\ branch' = branch /\ nth' = nth /\ lo' = lo /\ hi' = hi
          /\ i' = i /\ j' = j /\ merged' = merged /\ union' = union /\ left' = left /\ right' = right
          /\ list' = list
      BY <1>1 DEF searchVars, mergeVars, resultVars
    <2>2. lo' \in 0 .. Len(table') /\ hi' \in 0 .. Len(table')
      BY <1>2, <2>1 DEF IInv, LookupInv, Types
    <2>3. pc' \in Stages
      BY <1>1 DEF Stages
    <2> QED  BY <2>1, <2>2, <2>3 DEF IInv, LookupInv, Types, IsList
  <1>4. BranchesInv'
    BY <1>1 DEF IInv, LookupInv, BranchesInv, InHashes, resultVars, Empty
  <1>5. HashesInv' /\ SearchInv' /\ PartsInv' /\ MergeInv'
    BY <1>1 DEF HashesInv, SearchInv, PartsInv, MergeInv, Sieving
  <1> QED  BY <1>1, <1>2, <1>3, <1>4, <1>5 DEF IInv, LookupInv

LEMMA SameLists ==
    ASSUME UNCHANGED posting
    PROVE  /\ Lists' = Lists
           /\ \A hashes, n : HasAll(hashes, n)' = HasAll(hashes, n)
PROOF  BY DEF Lists, HasAll

LEMMA AskStep ==
    ASSUME IInv, NEW p \in Plans, Ask(p)
    PROVE  IInv'
PROOF
  <1>1. /\ pc = "ask" /\ plan' = p /\ nth' = 1
        /\ UNCHANGED <<indexVars, searchVars, mergeVars, union, steps>>
    BY DEF Ask
  <1>2. p \in [required : Seq(Nat), alternatives : Seq(Seq(Nat))]
    BY PlansAssumption
  <1>3. \/ /\ p.required = <<>> /\ p.alternatives = <<>>
           /\ pc' = "done" /\ branch' = 0 /\ list' = AllFiles
        \/ /\ p.required # <<>> /\ p.alternatives = <<>>
           /\ pc' = "next" /\ branch' = 0 /\ list' = NoList
        \/ /\ p.alternatives # <<>>
           /\ pc' = "branch" /\ branch' = 1 /\ list' = NoList
    BY DEF Ask
  <1>4. IndexInv'
    BY <1>1, <1>3, IndexKept DEF IInv, Opened
  <1>5. union = Empty /\ union' = Empty
    BY <1>1 DEF IInv, LookupInv, BranchesInv, InHashes, Empty
  <1>6. Types'
    <2>1. lo' = lo /\ hi' = hi /\ then' = then /\ left' = left /\ right' = right /\ i' = i /\ j' = j
          /\ merged' = merged /\ union' = union /\ table' = table
      BY <1>1 DEF searchVars, mergeVars, indexVars
    <2>2. pc' \in Stages /\ (list' = NoList \/ IsList(list'))
      BY <1>3, AllFilesList DEF Stages
    <2>3. branch' \in 0 .. Len(p.alternatives) + 1
      BY <1>2, <1>3
    <2> QED  BY <1>1, <1>2, <2>1, <2>2, <2>3 DEF IInv, LookupInv, Types, IsList
  <1>7. plan'.alternatives = p.alternatives /\ plan'.required = p.required
    BY <1>1
  <1>8. CASE pc' = "done"
    <2>1. p.required = <<>> /\ p.alternatives = <<>> /\ list' = AllFiles
      BY <1>3, <1>8
    <2>2. Answer' = AllIds(FileCount)
      BY <1>7, <2>1 DEF Answer, HasAll
    <2>3. list' # NoList /\ Ids(list') = AllIds(FileCount)
      BY <2>1, AllFilesList, IdsAreWords
    <2>4. BranchesInv' /\ SearchInv' /\ PartsInv' /\ MergeInv'
      BY <1>8 DEF BranchesInv, InHashes, SearchInv, PartsInv, MergeInv, Sieving
    <2>5. HashesInv'
      BY <1>8, <2>2, <2>3 DEF HashesInv
    <2> QED  BY <1>1, <1>4, <1>6, <2>4, <2>5 DEF IInv, LookupInv
  <1>9. CASE pc' = "next"
    <2>1. p.required # <<>> /\ p.alternatives = <<>> /\ branch' = 0 /\ list' = NoList
      BY <1>3, <1>9
    <2>2. HashList' = p.required /\ Len(p.required) > 0 /\ Len(p.required) \in Nat
      BY <1>2, <1>7, <2>1, EmptySeq DEF HashList
    <2>3. BranchesInv'
      BY <1>2, <1>7, <1>9, <2>1, <2>2 DEF BranchesInv, InHashes
    <2>4. HashesInv'
      BY <1>1, <1>9, <2>1, <2>2 DEF HashesInv
    <2>5. SearchInv' /\ PartsInv' /\ MergeInv'
      BY <1>9 DEF SearchInv, PartsInv, MergeInv, Sieving
    <2> QED  BY <1>1, <1>4, <1>6, <2>3, <2>4, <2>5 DEF IInv, LookupInv
  <1>10. CASE pc' = "branch"
    <2>1. branch' = 1 /\ plan'.alternatives # <<>>
      BY <1>3, <1>7, <1>10
    <2>2. Ids(union') = {} /\ Branches(0)' = {}
      BY <1>5, EmptyLists DEF Branches
    <2>3. BranchesInv'
      BY <1>10, <2>1, <2>2 DEF BranchesInv, InHashes
    <2>4. HashesInv' /\ SearchInv' /\ PartsInv' /\ MergeInv'
      BY <1>10 DEF HashesInv, SearchInv, PartsInv, MergeInv, Sieving
    <2> QED  BY <1>1, <1>4, <1>6, <2>3, <2>4 DEF IInv, LookupInv
  <1> QED  BY <1>3, <1>8, <1>9, <1>10

-----------------------------------------------------------------------------
(* The branches.  Steps of the lookup keep the index; `Lookup` stands for  *)
(* everything else that has to be shown of them.                           *)

Lookup == IndexInv /\ LookupInv

LEMMA KeptTypes ==
    ASSUME Lookup, UNCHANGED <<indexVars, plan>>, pc' \in Stages, then' = then,
           branch' \in 0 .. Len(plan.alternatives) + 1, nth' \in Nat \ {0},
           lo' \in 0 .. Len(table), hi' \in 0 .. Len(table),
           i' \in Nat \ {0}, j' \in Nat \ {0}, merged' \in Seq(Word),
           left' = left, right' = right,
           IsList(union'), list' = NoList \/ IsList(list')
    PROVE  Types'
PROOF
  <1>1. table' = table
    BY DEF indexVars
  <1> QED  BY <1>1 DEF Lookup, LookupInv, Types, IsList

LEMMA TakeBranchStep ==
    ASSUME Lookup, TakeBranch
    PROVE  Lookup'
PROOF
  <1>1. /\ pc = "branch" /\ branch <= Len(plan.alternatives) /\ plan.alternatives[branch] # <<>>
        /\ pc' = "next" /\ nth' = 1 /\ list' = NoList
        /\ UNCHANGED <<indexVars, plan, searchVars, mergeVars, branch, union>>
    BY DEF TakeBranch
  <1>2. IndexInv'
    BY <1>1, IndexKept DEF Lookup, Opened
  <1>3. /\ branch > 0 /\ Ids(union) = Branches(branch - 1) /\ Types
    BY <1>1 DEF Lookup, LookupInv, BranchesInv
  <1>4. Types'
    BY <1>1, <1>3, KeptTypes DEF Types, searchVars, mergeVars, Stages
  <1>5. /\ plan.alternatives \in Seq(Seq(Nat)) /\ branch \in 1 .. Len(plan.alternatives)
        /\ branch' = branch /\ plan' = plan /\ union' = union /\ posting' = posting
    BY <1>1, <1>3 DEF Types, indexVars
  <1>6. plan.alternatives[branch] \in Seq(Nat)
    BY <1>5
  <1>7. HashList' = plan.alternatives[branch] /\ Len(plan.alternatives[branch]) > 0
        /\ Len(plan.alternatives[branch]) \in Nat
    BY <1>1, <1>3, <1>5, <1>6, EmptySeq DEF HashList
  <1>8. Branches(branch - 1)' = Branches(branch - 1)
    BY <1>5, SameLists DEF Branches, BranchIds
  <1>9. BranchesInv'
    BY <1>1, <1>3, <1>5, <1>7, <1>8 DEF BranchesInv, InHashes
  <1>10. HashesInv'
    BY <1>1, <1>7 DEF HashesInv
  <1>11. SearchInv' /\ PartsInv' /\ MergeInv'
    BY <1>1 DEF SearchInv, PartsInv, MergeInv, Sieving
  <1> QED  BY <1>2, <1>4, <1>9, <1>10, <1>11 DEF Lookup, LookupInv

\* A branch without hashes has all files, and no other branch has more.
LEMMA TakeOpenBranchStep ==
    ASSUME Lookup, TakeOpenBranch
    PROVE  Lookup'
PROOF
  <1> DEFINE N == Len(plan.alternatives)
  <1>1. /\ pc = "branch" /\ branch <= N /\ plan.alternatives[branch] = <<>>
        /\ union' = AllFiles /\ branch' = N + 1
        /\ UNCHANGED <<indexVars, pc, plan, searchVars, mergeVars, nth, list>>
    BY DEF TakeOpenBranch
  <1>2. IndexInv'
    BY <1>1, IndexKept DEF Lookup, Opened
  <1>3. branch > 0 /\ Types
    BY <1>1 DEF Lookup, LookupInv, BranchesInv
  <1>4. /\ plan.alternatives \in Seq(Seq(Nat)) /\ branch \in 1 .. N /\ N \in Nat
        /\ plan' = plan /\ posting' = posting
    BY <1>1, <1>3 DEF Types, indexVars
  <1>5. IsList(union') /\ Ids(union') = AllIds(FileCount)
    BY <1>1, AllFilesList
  <1>6. Types'
    BY <1>1, <1>3, <1>4, <1>5, KeptTypes DEF Types, searchVars, mergeVars
  <1>7. Branches(N) = AllIds(FileCount)
    <2>1. BranchIds(branch) = AllIds(FileCount)
      BY <1>1 DEF BranchIds, HasAll
    <2>2. BranchIds(branch) \subseteq Branches(N)
      BY <1>4, BranchesFacts DEF Lookup
    <2>3. Branches(N) \subseteq AllIds(FileCount)
      <3>1. N \in 0 .. N
        BY <1>4
      <3>2. \A b \in 0 .. N : Branches(b) \subseteq AllIds(FileCount)
        BY <1>4, BranchesFacts DEF Lookup
      <3> QED  BY <3>1, <3>2
    <2> QED  BY <2>1, <2>2, <2>3
  <1>8. Branches(N)' = Branches(N)
    BY <1>4, SameLists DEF Branches, BranchIds
  <1>9. BranchesInv'
    <2>1. branch' - 1 = N
      BY <1>1, <1>4
    <2>2. Branches(branch - 1)' = AllIds(FileCount)
      BY <1>7, <1>8, <2>1, <1>4
    <2> QED  BY <1>1, <1>4, <1>5, <2>2 DEF BranchesInv, InHashes
  <1>10. HashesInv' /\ SearchInv' /\ PartsInv' /\ MergeInv'
    BY <1>1 DEF HashesInv, SearchInv, PartsInv, MergeInv, Sieving
  <1> QED  BY <1>2, <1>6, <1>9, <1>10 DEF Lookup, LookupInv

LEMMA EndBranchesStep ==
    ASSUME Lookup, EndBranches
    PROVE  Lookup'
PROOF
  <1> DEFINE N == Len(plan.alternatives)
  <1>1. /\ pc = "branch" /\ branch > N /\ branch' = 0 /\ nth' = 1
        /\ IF plan.required = <<>> THEN pc' = "done" /\ list' = union
           ELSE pc' = "next" /\ list' = NoList
        /\ UNCHANGED <<indexVars, plan, searchVars, mergeVars, union>>
    BY DEF EndBranches
  <1>2. IndexInv'
    BY <1>1, IndexKept DEF Lookup, Opened
  <1>3. branch > 0 /\ Ids(union) = Branches(branch - 1) /\ Types
    BY <1>1 DEF Lookup, LookupInv, BranchesInv
  <1>4. /\ plan.alternatives \in Seq(Seq(Nat)) /\ plan.required \in Seq(Nat) /\ N \in Nat
        /\ branch = N + 1 /\ plan' = plan /\ posting' = posting /\ union' = union
    BY <1>1, <1>3 DEF Types, indexVars
  <1>5. Types'
    <2>1. 0 \in 0 .. Len(plan.alternatives) + 1
      BY <1>4
    <2> QED  BY <1>1, <1>3, <2>1, KeptTypes DEF Types, searchVars, mergeVars, Stages
  <1>6. Ids(union) = Branches(N) /\ Branches(N)' = Branches(N)
    BY <1>3, <1>4, SameLists DEF Branches, BranchIds
  <1>7. SearchInv' /\ PartsInv' /\ MergeInv'
    BY <1>1 DEF SearchInv, PartsInv, MergeInv, Sieving
  <1>8. CASE plan.required = <<>>
    <2>1. pc' = "done" /\ list' = union
      BY <1>1, <1>8
    <2>2. list' # NoList
      BY <1>3, <2>1, IdsAreWords DEF Types
    <2>3. HasAll(plan.required, Len(plan.required)) = AllIds(FileCount)
      BY <1>8 DEF HasAll
    <2>4. Branches(N) \subseteq AllIds(FileCount)
      <3>1. N \in 0 .. N
        BY <1>4
      <3>2. \A b \in 0 .. N : Branches(b) \subseteq AllIds(FileCount)
        BY <1>4, BranchesFacts DEF Lookup
      <3> QED  BY <3>1, <3>2
    <2>5. Answer = Branches(N)
      <3>1. plan.alternatives # <<>>
        BY <1>1 DEF Lookup, LookupInv, BranchesInv
      <3> QED  BY <2>3, <2>4, <3>1 DEF Answer
    <2>6. Answer' = Answer
      BY <1>4, SameLists DEF Answer, Branches, BranchIds
    <2>7. HashesInv'
      BY <1>6, <2>1, <2>2, <2>5, <2>6 DEF HashesInv
    <2>8. BranchesInv'
      BY <2>1 DEF BranchesInv, InHashes
    <2> QED  BY <1>2, <1>5, <1>7, <2>7, <2>8 DEF Lookup, LookupInv
  <1>9. CASE plan.required # <<>>
    <2>1. pc' = "next" /\ list' = NoList
      BY <1>1, <1>9
    <2>2. HashList' = plan.required /\ Len(plan.required) > 0 /\ Len(plan.required) \in Nat
      BY <1>1, <1>4, <1>9, EmptySeq DEF HashList
    <2>3. BranchesInv'
      BY <1>1, <1>4, <1>6, <2>1, <2>2 DEF BranchesInv, InHashes
    <2>4. HashesInv'
      BY <1>1, <2>1, <2>2 DEF HashesInv
    <2> QED  BY <1>2, <1>5, <1>7, <2>3, <2>4 DEF Lookup, LookupInv
  <1> QED  BY <1>8, <1>9

-----------------------------------------------------------------------------
(* The hashes, and the binary search for one of them.                      *)

LEMMA HashLists ==
    ASSUME Lookup, InHashes
    PROVE  /\ HashList \in Seq(Nat) /\ Len(HashList) \in Nat /\ Len(HashList) > 0
           /\ plan.alternatives \in Seq(Seq(Nat)) /\ Len(plan.alternatives) \in Nat
           /\ branch \in 0 .. Len(plan.alternatives)
           /\ HashList = IF branch = 0 THEN plan.required ELSE plan.alternatives[branch]
           /\ branch > 0 => BranchIds(branch) = HasAll(HashList, Len(HashList))
PROOF
  <1>1. /\ plan.required \in Seq(Nat) /\ plan.alternatives \in Seq(Seq(Nat))
        /\ branch \in 0 .. Len(plan.alternatives) + 1 /\ branch <= Len(plan.alternatives)
        /\ Len(HashList) > 0
    BY DEF Lookup, LookupInv, Types, BranchesInv
  <1>2. branch > 0 => plan.alternatives[branch] \in Seq(Nat)
    BY <1>1
  <1>3. HashList = IF branch = 0 THEN plan.required ELSE plan.alternatives[branch]
    BY DEF HashList
  <1>4. HashList \in Seq(Nat)
    BY <1>1, <1>2, <1>3
  <1> QED  BY <1>1, <1>3, <1>4 DEF BranchIds

LEMMA KeptBranches ==
    ASSUME Lookup, InHashes, InHashes', UNCHANGED <<indexVars, plan, branch, union>>
    PROVE  BranchesInv' /\ HashList' = HashList
PROOF
  <1>1. posting' = posting /\ plan' = plan /\ branch' = branch /\ union' = union
    BY DEF indexVars
  <1>2. HashList' = HashList
    BY <1>1 DEF HashList
  <1>3. \A n : Branches(n)' = Branches(n)
    BY <1>1, SameLists DEF Branches, BranchIds
  <1>4. BranchesInv
    BY DEF Lookup, LookupInv
  <1>5. pc' # "branch" /\ pc' # "done"
    BY DEF InHashes
  <1> QED  BY <1>1, <1>2, <1>3, <1>4, <1>5 DEF BranchesInv

LEMMA NextHashStep ==
    ASSUME Lookup, NextHash
    PROVE  Lookup'
PROOF
  <1>1. /\ pc = "next" /\ ~Exhausted /\ lo' = 0 /\ hi' = Len(table) /\ pc' = "search"
        /\ UNCHANGED <<indexVars, plan, mergeVars, resultVars>>
    BY DEF NextHash
  <1>2. IndexInv' /\ Types
    BY <1>1, IndexKept DEF Lookup, LookupInv, Opened
  <1>3. Len(table) \in Nat /\ table' = table /\ posting' = posting
    BY <1>1 DEF Lookup, IndexInv, IndexTypes, indexVars
  <1>4. Types'
    <2>1. lo' \in 0 .. Len(table) /\ hi' \in 0 .. Len(table)
      BY <1>1, <1>3
    <2> QED  BY <1>1, <1>2, <2>1, KeptTypes DEF Types, mergeVars, resultVars, Stages
  <1>5. BranchesInv' /\ HashList' = HashList
    BY <1>1, KeptBranches DEF InHashes, resultVars
  <1>6. nth <= Len(HashList) /\ nth' = nth /\ list' = list
    <2>1. HashList \in Seq(Nat) /\ nth \in Nat
      BY <1>1, <1>2, HashLists DEF InHashes, Types
    <2> QED  BY <1>1, <2>1 DEF Exhausted, resultVars
  <1>7. HashesInv'
    BY <1>1, <1>3, <1>5, <1>6, SameLists DEF Lookup, LookupInv, HashesInv
  <1>8. SearchInv'
    <2>1. nth' <= Len(HashList') /\ lo' <= hi'
      BY <1>1, <1>3, <1>5, <1>6
    <2>2. (\A n \in 1 .. lo' : FALSE) /\ (\A n \in hi' + 1 .. Len(table') : FALSE)
      BY <1>1, <1>3
    <2> QED  BY <2>1, <2>2 DEF SearchInv
  <1>9. PartsInv' /\ MergeInv'
    BY <1>1 DEF PartsInv, MergeInv, Sieving
  <1> QED  BY <1>2, <1>4, <1>5, <1>7, <1>8, <1>9 DEF Lookup, LookupInv

\* Where a probe is, and what the order of the table says of the rest.
LEMMA Probes ==
    ASSUME Lookup, Probing
    PROVE  /\ Mid \in lo .. hi - 1 /\ Mid + 1 \in DOMAIN table /\ Mid \in Nat
           /\ lo \in Nat /\ hi \in 0 .. Len(table) /\ Len(table) \in Nat
           /\ Hash \in Nat /\ nth \in 1 .. Len(HashList)
           /\ \A n \in DOMAIN table : table[n].hash \in Nat
           /\ \A n \in 1 .. Mid : table[n].hash < Entry.hash
           /\ \A n \in Mid + 2 .. Len(table) : table[n].hash > Entry.hash
PROOF
  <1>1. /\ lo \in 0 .. Len(table) /\ hi \in 0 .. Len(table) /\ lo < hi /\ nth \in Nat \ {0}
        /\ nth <= Len(HashList)
    BY DEF Lookup, LookupInv, Types, Probing, SearchInv
  <1>2. /\ table \in Seq(Entries) /\ \A n, m \in DOMAIN table : n < m => table[n].hash < table[m].hash
    BY DEF Lookup, IndexInv, IndexTypes, TableIsSorted
  <1>3. Len(table) \in Nat /\ DOMAIN table = 1 .. Len(table)
    BY <1>2
  <1>4. Mid \in lo .. hi - 1
    BY <1>1, <1>3 DEF Mid
  <1>5. HashList \in Seq(Nat)
    BY HashLists DEF Probing, InHashes
  <1>6. \A n \in DOMAIN table : table[n].hash \in Nat
    <2>1. \A n \in DOMAIN table : table[n] \in Entries
      BY <1>2, <1>3
    <2> QED  BY <2>1 DEF Entries
  <1>7. /\ lo \in Nat /\ hi \in Nat /\ Mid \in Nat /\ lo <= Mid /\ Mid < hi /\ hi <= Len(table)
    BY <1>1, <1>3, <1>4
  <1> HIDE DEF Mid
  <1>8. Mid + 1 \in DOMAIN table
    BY <1>3, <1>7
  <1>9. \A n \in 1 .. Mid : table[n].hash < Entry.hash
    BY <1>2, <1>3, <1>7, <1>8 DEF Entry
  <1>10. \A n \in Mid + 2 .. Len(table) : table[n].hash > Entry.hash
    <2> SUFFICES ASSUME NEW n \in Mid + 2 .. Len(table) PROVE table[n].hash > Entry.hash
      OBVIOUS
    <2>1. n \in DOMAIN table /\ Mid + 1 < n
      BY <1>3, <1>7
    <2>2. Entry.hash < table[n].hash
      BY <1>2, <1>8, <2>1 DEF Entry
    <2> QED  BY <1>6, <1>8, <2>1, <2>2 DEF Entry
  <1>11. Hash \in Nat /\ nth \in 1 .. Len(HashList)
    BY <1>1, <1>5 DEF Hash
  <1> QED  BY <1>1, <1>3, <1>4, <1>6, <1>7, <1>8, <1>9, <1>10, <1>11

LEMMA SearchSteps ==
    ASSUME Lookup, SearchLess \/ SearchGreater
    PROVE  Lookup'
PROOF
  <1>1. /\ Probing /\ pc' = pc /\ UNCHANGED <<indexVars, plan, mergeVars, resultVars>>
        /\ \/ Entry.hash < Hash /\ lo' = Mid + 1 /\ hi' = hi
           \/ Entry.hash > Hash /\ hi' = Mid /\ lo' = lo
    BY DEF SearchLess, SearchGreater
  <1>2. pc = "search" /\ lo < hi
    BY <1>1 DEF Probing
  <1>3. IndexInv' /\ Types
    BY <1>1, <1>2, IndexKept DEF Lookup, LookupInv, Opened
  <1>4. /\ Mid \in lo .. hi - 1 /\ Mid + 1 \in DOMAIN table /\ Mid \in Nat
        /\ lo \in Nat /\ hi \in 0 .. Len(table) /\ Len(table) \in Nat /\ Hash \in Nat
        /\ \A n \in DOMAIN table : table[n].hash \in Nat
        /\ \A n \in 1 .. Mid : table[n].hash < Entry.hash
        /\ \A n \in Mid + 2 .. Len(table) : table[n].hash > Entry.hash
    BY <1>1, Probes
  <1> HIDE DEF Mid
  <1>5. /\ posting' = posting /\ table' = table /\ nth' = nth /\ list' = list
    BY <1>1 DEF indexVars, resultVars
  <1>6. Types'
    <2>1. lo' \in 0 .. Len(table) /\ hi' \in 0 .. Len(table)
      BY <1>1, <1>4
    <2> QED  BY <1>1, <1>3, <2>1, KeptTypes DEF Types, mergeVars, resultVars
  <1>7. BranchesInv' /\ HashList' = HashList
    BY <1>1, <1>2, KeptBranches DEF InHashes, resultVars
  <1>8. Hash' = Hash
    BY <1>5, <1>7 DEF Hash
  <1>9. HashesInv'
    BY <1>1, <1>2, <1>5, <1>7, SameLists DEF Lookup, LookupInv, HashesInv
  <1>10. /\ nth <= Len(HashList)
         /\ \A n \in 1 .. lo : table[n].hash < Hash
         /\ \A n \in hi + 1 .. Len(table) : table[n].hash > Hash
    BY <1>2 DEF Lookup, LookupInv, SearchInv
  <1>11. Entry = table[Mid + 1] /\ Entry.hash \in Nat
    BY <1>4 DEF Entry
  <1> HIDE DEF Entry, Hash
  <1>12. SearchInv'
    <2>1. CASE Entry.hash < Hash /\ lo' = Mid + 1 /\ hi' = hi
      <3>1. \A n \in 1 .. lo' : table[n].hash < Hash
        <4> SUFFICES ASSUME NEW n \in 1 .. Mid + 1 PROVE table[n].hash < Hash
          BY <2>1
        <4>1. CASE n = Mid + 1
          BY <1>11, <2>1, <4>1
        <4>2. CASE n # Mid + 1
          <5>1. n \in 1 .. Mid /\ n \in DOMAIN table
            BY <1>4, <4>2
          <5> QED  BY <1>4, <1>11, <2>1, <5>1
        <4> QED  BY <4>1, <4>2
      <3>2. lo' <= hi'
        BY <1>4, <2>1
      <3> QED  BY <1>5, <1>7, <1>8, <1>10, <2>1, <3>1, <3>2 DEF SearchInv
    <2>2. CASE Entry.hash > Hash /\ hi' = Mid /\ lo' = lo
      <3>1. \A n \in hi' + 1 .. Len(table) : table[n].hash > Hash
        <4> SUFFICES ASSUME NEW n \in Mid + 1 .. Len(table) PROVE table[n].hash > Hash
          BY <2>2
        <4>1. CASE n = Mid + 1
          BY <1>11, <2>2, <4>1
        <4>2. CASE n # Mid + 1
          <5>1. n \in Mid + 2 .. Len(table) /\ n \in DOMAIN table
            BY <1>4, <4>2
          <5> QED  BY <1>4, <1>11, <2>2, <5>1
        <4> QED  BY <4>1, <4>2
      <3>2. lo' <= hi'
        BY <1>4, <2>2
      <3> QED  BY <1>5, <1>7, <1>8, <1>10, <2>2, <3>1, <3>2 DEF SearchInv
    <2> QED  BY <1>1, <2>1, <2>2
  <1>13. PartsInv' /\ MergeInv'
    BY <1>1, <1>2 DEF PartsInv, MergeInv, Sieving
  <1> QED  BY <1>3, <1>6, <1>7, <1>9, <1>12, <1>13 DEF Lookup, LookupInv

\* A merge begins with nothing merged.
LEMMA MergeStart ==
    ASSUME NEW l, NEW r, IsList(l), IsList(r), left' = l, right' = r,
           i' = 1, j' = 1, merged' = <<>>
    PROVE  MergeInv'
PROOF
  <1>1. Ascends(<<>>) /\ Elems(<<>>) = {} /\ Len(<<>>) = 0
    BY DEF Ascends, Elems
  <1>2. /\ AreVecs' => Len(left'.ids) \in Nat /\ Len(right'.ids) \in Nat
        /\ Sieving' => Len(Sieved') \in Nat
    BY IdsAreWords DEF AreVecs, Sieving, Sieved
  <1>3. \A ids : Before(ids, 1) = {}
    BY DEF Before
  <1> QED  BY <1>1, <1>2, <1>3 DEF MergeInv

\* The list of the hash at hand is the first one, or is intersected.
LEMMA ReceiveStep ==
    ASSUME Lookup, pc = "search", NEW p, IsList(p), Ids(p) = Lists[Hash], Receive(p),
           UNCHANGED <<indexVars, plan, searchVars>>
    PROVE  Lookup'
PROOF
  <1>1. pc' \in {"next", "combine"}
    BY DEF Receive, Combine
  <1>2. IndexInv' /\ Types
    BY <1>1, IndexKept DEF Lookup, LookupInv, Opened
  <1>3. /\ nth \in Nat \ {0} /\ nth <= Len(HashList)
        /\ HashList \in Seq(Nat) /\ Len(HashList) \in Nat
        /\ IF list = NoList THEN nth = 1 ELSE nth > 1 /\ Ids(list) = HasAll(HashList, nth - 1)
    BY HashLists DEF Lookup, LookupInv, Types, SearchInv, HashesInv, InHashes
  <1>4. posting' = posting /\ branch' = branch /\ union' = union
    BY DEF Receive, indexVars, resultVars
  <1>5. BranchesInv' /\ HashList' = HashList
    BY <1>1, <1>4, KeptBranches DEF InHashes
  <1>6. CASE list = NoList
    <2>1. list' = p /\ nth' = nth + 1 /\ pc' = "next" /\ UNCHANGED mergeVars
      BY <1>6 DEF Receive
    <2>2. Types'
      BY <1>2, <1>4, <2>1, KeptTypes DEF Types, mergeVars, searchVars, Stages
    <2>3. list' # NoList
      BY <2>1, IdsAreWords
    <2>4. Ids(list') = HasAll(HashList, 1)
      <3>1. HasAll(HashList, 1) = HasAll(HashList, 0) \cap Lists[HashList[1]]
        BY <1>3, HasAllFacts DEF Lookup
      <3>2. Lists[HashList[1]] \subseteq AllIds(FileCount)
        BY <1>3, ListsOfHashes DEF Lookup
      <3>3. HasAll(HashList, 0) = AllIds(FileCount)
        BY <1>3, HasAllFacts DEF Lookup
      <3> QED  BY <1>3, <1>6, <2>1, <3>1, <3>2, <3>3 DEF Hash
    <2>5. HashesInv'
      <3>1. nth' = 2 /\ 2 <= Len(HashList) + 1
        BY <1>3, <1>6, <2>1
      <3> QED  BY <1>4, <1>5, <2>1, <2>3, <2>4, <3>1, SameLists DEF HashesInv
    <2>6. SearchInv' /\ PartsInv' /\ MergeInv'
      BY <2>1 DEF SearchInv, PartsInv, MergeInv, Sieving
    <2> QED  BY <1>2, <1>5, <2>2, <2>5, <2>6 DEF Lookup, LookupInv
  <1>7. CASE list # NoList
    <2>1. Combine(list, p, "list") /\ UNCHANGED resultVars
      BY <1>7 DEF Receive
    <2>2. /\ left' = list /\ right' = p /\ then' = "list" /\ i' = 1 /\ j' = 1 /\ merged' = <<>>
          /\ pc' = "combine" /\ nth' = nth /\ list' = list
      BY <2>1 DEF Combine, resultVars
    <2>3. IsList(list)
      BY <1>2, <1>7 DEF Types
    <2>4. Types'
      <3>1. table' = table /\ <<>> \in Seq(Word)
        BY DEF indexVars
      <3> QED  BY <1>2, <1>4, <2>2, <2>3, <3>1 DEF Types, searchVars, Stages, IsList
    <2>5. HashesInv' /\ SearchInv'
      BY <2>2 DEF HashesInv, SearchInv
    <2>6. PartsInv'
      <3>1. Hash' = Hash /\ Lists' = Lists
        BY <1>4, <1>5, <2>2, SameLists DEF Hash
      <3> QED  BY <1>3, <1>4, <1>5, <1>7, <2>2, <3>1, SameLists DEF PartsInv
    <2>7. MergeInv'
      BY <2>2, <2>3, MergeStart
    <2> QED  BY <1>2, <1>5, <2>4, <2>5, <2>6, <2>7 DEF Lookup, LookupInv
  <1> QED  BY <1>6, <1>7

LEMMA FoundStep ==
    ASSUME Lookup, Found
    PROVE  Lookup'
PROOF
  <1>1. /\ Probing /\ pc = "search" /\ Entry.hash = Hash
        /\ Receive(DecodeTagged(Block(Entry))) /\ UNCHANGED <<indexVars, plan, searchVars>>
    BY DEF Found, Probing
  <1>2. Mid + 1 \in DOMAIN table
    BY <1>1, Probes
  <1> DEFINE p == DecodeTagged(Block(Entry))
  <1>3. IsList(p) /\ Ids(p) = Lists[Hash]
    <2>1. IndexInv /\ Opened
      BY <1>1 DEF Lookup, Opened
    <2> QED  BY <1>1, <1>2, <2>1, FoundLists DEF Entry
  <1> HIDE DEF p
  <1>4. Receive(p)
    BY <1>1 DEF p
  <1> QED  BY <1>1, <1>3, <1>4, ReceiveStep

\* The window is empty, so the hash is not in the table.
LEMMA MissingStep ==
    ASSUME Lookup, Missing
    PROVE  Lookup'
PROOF
  <1>1. /\ pc = "search" /\ lo >= hi
        /\ Receive(Vec(<<>>)) /\ UNCHANGED <<indexVars, plan, searchVars>>
    BY DEF Missing
  <1>2. /\ lo \in 0 .. Len(table) /\ hi \in 0 .. Len(table) /\ lo <= hi
        /\ nth \in Nat \ {0} /\ nth <= Len(HashList)
        /\ \A n \in 1 .. lo : table[n].hash < Hash
        /\ \A n \in hi + 1 .. Len(table) : table[n].hash > Hash
    BY <1>1 DEF Lookup, LookupInv, Types, SearchInv
  <1>3. /\ HashList \in Seq(Nat) /\ table \in Seq(Entries) /\ IndexInv /\ Opened
    BY <1>1, HashLists DEF Lookup, IndexInv, IndexTypes, InHashes, Opened
  <1>4. Hash \in Nat
    BY <1>2, <1>3 DEF Hash
  <1>5. \A n \in DOMAIN table : table[n].hash # Hash
    <2> SUFFICES ASSUME NEW n \in DOMAIN table PROVE table[n].hash # Hash
      OBVIOUS
    <2>1. table[n] \in Entries /\ n \in 1 .. Len(table) /\ Len(table) \in Nat
      BY <1>3
    <2>2. table[n].hash \in Nat
      BY <2>1 DEF Entries
    <2>3. n \in 1 .. lo \/ n \in hi + 1 .. Len(table)
      BY <1>1, <1>2, <2>1
    <2>4. table[n].hash < Hash \/ table[n].hash > Hash
      BY <1>2, <2>3
    <2> QED  BY <1>4, <2>2, <2>4
  <1>6. Lists[Hash] = {}
    BY <1>3, <1>4, <1>5, MissingLists
  <1>7. IsList(Vec(<<>>)) /\ Ids(Vec(<<>>)) = Lists[Hash]
    BY <1>6, EmptyLists
  <1> QED  BY <1>1, <1>7, ReceiveStep

\* The loop over the hashes ends with all of them, or early with no file left.
LEMMA EndIntersectStep ==
    ASSUME Lookup, EndIntersect
    PROVE  Lookup'
PROOF
  <1> DEFINE N == Len(plan.alternatives)
  <1>1. /\ pc = "next" /\ Exhausted /\ UNCHANGED <<indexVars, plan, searchVars, resultVars>>
        /\ pc' \in {"combine", "done"}
    BY DEF EndIntersect, Combine
  <1>2. IndexInv' /\ Types
    BY <1>1, IndexKept DEF Lookup, LookupInv, Opened
  <1>3. /\ HashList \in Seq(Nat) /\ Len(HashList) \in Nat /\ Len(HashList) > 0
        /\ plan.alternatives \in Seq(Seq(Nat)) /\ N \in Nat /\ branch \in 0 .. N
        /\ HashList = IF branch = 0 THEN plan.required ELSE plan.alternatives[branch]
    BY <1>1, HashLists DEF InHashes
  <1>4. /\ nth \in Nat \ {0} /\ nth <= Len(HashList) + 1
        /\ IF list = NoList THEN nth = 1 ELSE nth > 1 /\ Ids(list) = HasAll(HashList, nth - 1)
    BY <1>1, <1>2 DEF Lookup, LookupInv, HashesInv, Types
  <1>5. list # NoList /\ IsList(list)
    BY <1>1, <1>2, <1>3, <1>4 DEF Exhausted, Types
  <1>6. Ids(list) = HasAll(HashList, Len(HashList))
    <2>1. CASE nth > Len(HashList)
      <3>1. nth - 1 = Len(HashList)
        BY <1>3, <1>4, <2>1
      <3> QED  BY <1>4, <1>5, <3>1
    <2>2. CASE ~(nth > Len(HashList))
      <3>1. HasAll(HashList, nth - 1) = {}
        BY <1>1, <1>4, <1>5, <2>2 DEF Exhausted, NoIds
      <3>2. nth - 1 \in 0 .. Len(HashList)
        BY <1>3, <1>4, <1>5
      <3>3. HasAll(HashList, Len(HashList)) \subseteq HasAll(HashList, nth - 1)
        BY <1>3, <3>2, HasAllFacts DEF Lookup
      <3> QED  BY <1>4, <1>5, <3>1, <3>3
    <2> QED  BY <2>1, <2>2
  <1>7. /\ posting' = posting /\ table' = table /\ plan' = plan /\ branch' = branch /\ nth' = nth
        /\ list' = list /\ union' = union /\ lo' = lo /\ hi' = hi /\ IsList(union)
    BY <1>1, <1>2 DEF indexVars, resultVars, searchVars, Types
  <1>8. /\ Lists' = Lists /\ \A hashes, n : HasAll(hashes, n)' = HasAll(hashes, n)
        /\ \A n : Branches(n)' = Branches(n)
    BY <1>7, SameLists DEF Branches, BranchIds
  <1>9. /\ branch > 0 => Ids(union) = Branches(branch - 1)
        /\ branch = 0 /\ plan.alternatives # <<>> => Ids(union) = Branches(N)
    BY <1>1 DEF Lookup, LookupInv, BranchesInv, InHashes
  <1>10. ASSUME NEW l \in {list, union}, NEW r \in {list, union}, NEW dest \in {"union", "answer"},
                Combine(l, r, dest)
         PROVE  Types' /\ BranchesInv' /\ HashList' = HashList /\ HashesInv' /\ SearchInv' /\ MergeInv'
    <2>1. /\ left' = l /\ right' = r /\ then' = dest /\ i' = 1 /\ j' = 1 /\ merged' = <<>>
          /\ pc' = "combine"
      BY <1>10 DEF Combine
    <2>2. IsList(l) /\ IsList(r)
      BY <1>5, <1>7
    <2>3. Types'
      <3>1. <<>> \in Seq(Word)
        OBVIOUS
      <3> QED  BY <1>2, <1>5, <1>7, <2>1, <2>2, <3>1 DEF Types, Stages, IsList
    <2>4. BranchesInv' /\ HashList' = HashList
      BY <1>1, <1>7, <2>1, KeptBranches DEF InHashes
    <2>5. HashesInv' /\ SearchInv'
      BY <2>1 DEF HashesInv, SearchInv
    <2>6. MergeInv'
      BY <2>1, <2>2, MergeStart
    <2> QED  BY <2>3, <2>4, <2>5, <2>6
  <1>11. CASE branch > 0
    <2>1. Combine(union, list, "union")
      BY <1>11 DEF EndIntersect
    <2>2. Types' /\ BranchesInv' /\ HashList' = HashList /\ HashesInv' /\ SearchInv' /\ MergeInv'
      BY <1>10, <2>1
    <2>3. left' = union /\ right' = list /\ then' = "union"
      BY <2>1 DEF Combine
    <2>4. PartsInv'
      BY <1>6, <1>7, <1>8, <1>9, <1>11, <2>2, <2>3 DEF PartsInv
    <2> QED  BY <1>2, <2>2, <2>4 DEF Lookup, LookupInv
  <1>12. CASE branch = 0 /\ plan.alternatives # <<>>
    <2>1. Combine(list, union, "answer")
      BY <1>12 DEF EndIntersect
    <2>2. Types' /\ BranchesInv' /\ HashList' = HashList /\ HashesInv' /\ SearchInv' /\ MergeInv'
      BY <1>10, <2>1
    <2>3. left' = list /\ right' = union /\ then' = "answer"
      BY <2>1 DEF Combine
    <2>4. PartsInv'
      BY <1>6, <1>7, <1>8, <1>9, <1>12, <2>2, <2>3 DEF PartsInv
    <2> QED  BY <1>2, <2>2, <2>4 DEF Lookup, LookupInv
  <1>13. CASE branch = 0 /\ plan.alternatives = <<>>
    <2>1. pc' = "done" /\ UNCHANGED mergeVars
      BY <1>13 DEF EndIntersect
    <2>2. Types'
      BY <1>2, <1>5, <1>7, <2>1 DEF Types, mergeVars, Stages, IsList
    <2>3. Ids(list') = Answer'
      <3>1. Answer = HasAll(HashList, Len(HashList)) \cap AllIds(FileCount)
        BY <1>3, <1>13 DEF Answer
      <3>2. Answer' = Answer
        BY <1>7, <1>8 DEF Answer
      <3> QED  BY <1>6, <1>7, <3>1, <3>2 DEF HasAll
    <2>4. HashesInv'
      BY <1>5, <1>7, <2>1, <2>3 DEF HashesInv
    <2>5. BranchesInv' /\ SearchInv' /\ PartsInv' /\ MergeInv'
      BY <2>1 DEF BranchesInv, InHashes, SearchInv, PartsInv, MergeInv, Sieving
    <2> QED  BY <1>2, <2>2, <2>4, <2>5 DEF Lookup, LookupInv
  <1>14. branch > 0 \/ branch = 0
    BY <1>3
  <1> QED  BY <1>11, <1>12, <1>13, <1>14

-----------------------------------------------------------------------------
(* The merge loops.                                                        *)

\* A result goes where it was wanted.
LEMMA DeliverStep ==
    ASSUME Lookup, pc = "combine", NEW result, IsList(result), Deliver(result),
           Ids(result) = IF Uniting THEN Ids(left) \cup Ids(right) ELSE Ids(left) \cap Ids(right)
    PROVE  Lookup'
PROOF
  <1> DEFINE N == Len(plan.alternatives)
  <1>1. /\ UNCHANGED <<indexVars, plan, searchVars, mergeVars>>
        /\ \/ then = "list" /\ list' = result /\ nth' = nth + 1 /\ pc' = "next"
              /\ UNCHANGED <<branch, union>>
           \/ then = "union" /\ union' = result /\ branch' = branch + 1 /\ pc' = "branch"
              /\ UNCHANGED <<nth, list>>
           \/ then = "answer" /\ list' = result /\ pc' = "done"
              /\ UNCHANGED <<branch, nth, union>>
    BY DEF Deliver
  <1>2. IndexInv' /\ Types
    BY <1>1, IndexKept DEF Lookup, LookupInv, Opened
  <1>3. /\ HashList \in Seq(Nat) /\ Len(HashList) \in Nat /\ Len(HashList) > 0
        /\ plan.alternatives \in Seq(Seq(Nat)) /\ N \in Nat /\ branch \in 0 .. N
        /\ HashList = IF branch = 0 THEN plan.required ELSE plan.alternatives[branch]
        /\ branch > 0 => BranchIds(branch) = HasAll(HashList, Len(HashList))
    BY HashLists DEF InHashes
  <1>4. /\ posting' = posting /\ table' = table /\ plan' = plan
        /\ Lists' = Lists /\ \A hashes, n : HasAll(hashes, n)' = HasAll(hashes, n)
        /\ \A n : Branches(n)' = Branches(n)
    <2>1. posting' = posting /\ table' = table /\ plan' = plan
      BY <1>1 DEF indexVars
    <2> QED  BY <2>1, SameLists DEF Branches, BranchIds
  <1>5. SearchInv' /\ PartsInv' /\ MergeInv'
    BY <1>1 DEF SearchInv, PartsInv, MergeInv, Sieving
  <1>6. nth \in Nat \ {0}
    BY <1>2 DEF Types
  <1>7. CASE then = "list"
    <2>1. /\ nth > 1 /\ nth <= Len(HashList)
          /\ Ids(left) = HasAll(HashList, nth - 1) /\ Ids(right) = Lists[Hash]
      BY <1>7 DEF Lookup, LookupInv, PartsInv
    <2>2. list' = result /\ nth' = nth + 1 /\ pc' = "next" /\ branch' = branch /\ union' = union
      BY <1>1, <1>7
    <2>3. Types'
      BY <1>1, <1>2, <1>6, <2>2, KeptTypes DEF Types, searchVars, mergeVars, Stages
    <2>4. BranchesInv' /\ HashList' = HashList
      BY <1>1, <2>2, KeptBranches DEF InHashes
    <2>5. Ids(result) = HasAll(HashList, nth)
      <3>1. HasAll(HashList, nth) = HasAll(HashList, nth - 1) \cap Lists[HashList[nth]]
        <4>1. nth \in 1 .. Len(HashList)
          BY <1>3, <1>6, <2>1
        <4> QED  BY <1>3, <4>1, HasAllFacts DEF Lookup
      <3> QED  BY <1>7, <2>1, <3>1 DEF Uniting, Hash
    <2>6. HashesInv'
      <3>1. nth' - 1 = nth /\ nth' <= Len(HashList) + 1 /\ nth' > 1
        <4>1. nth \in Nat /\ nth' = nth + 1 /\ nth <= Len(HashList) /\ Len(HashList) \in Nat /\ nth > 1
          BY <1>3, <1>6, <2>1, <2>2
        <4> HIDE DEF HashList
        <4> QED  BY <4>1
      <3>2. list' # NoList
        BY <2>2, IdsAreWords
      <3> QED  BY <1>4, <2>2, <2>4, <2>5, <3>1, <3>2 DEF HashesInv
    <2> QED  BY <1>2, <1>5, <2>3, <2>4, <2>6 DEF Lookup, LookupInv
  <1>8. CASE then = "union"
    <2>1. /\ branch > 0
          /\ Ids(left) = Branches(branch - 1) /\ Ids(right) = HasAll(HashList, Len(HashList))
      BY <1>8 DEF Lookup, LookupInv, PartsInv
    <2>2. union' = result /\ branch' = branch + 1 /\ pc' = "branch" /\ nth' = nth /\ list' = list
      BY <1>1, <1>8
    <2>3. Types'
      <3>1. branch' \in 0 .. N + 1
        BY <1>3, <2>1, <2>2
      <3> QED  BY <1>1, <1>2, <1>6, <2>2, <3>1, KeptTypes DEF Types, searchVars, mergeVars, Stages
    <2>4. Ids(result) = Branches(branch)
      <3>1. branch \in 1 .. N
        BY <1>3, <2>1
      <3>2. Branches(branch) = Branches(branch - 1) \cup BranchIds(branch)
        BY <1>3, <3>1, BranchesFacts DEF Lookup
      <3> QED  BY <1>3, <1>8, <2>1, <3>2 DEF Uniting
    <2>5. BranchesInv'
      <3>1. branch' - 1 = branch /\ branch' > 0 /\ plan.alternatives # <<>>
        BY <1>3, <2>1, <2>2
      <3>2. Branches(branch - 1)' = Branches(branch)
        BY <1>4, <3>1
      <3> QED  BY <1>4, <2>2, <2>4, <3>1, <3>2 DEF BranchesInv, InHashes
    <2>6. HashesInv'
      BY <2>2 DEF HashesInv
    <2> QED  BY <1>2, <1>5, <2>3, <2>5, <2>6 DEF Lookup, LookupInv
  <1>9. CASE then = "answer"
    <2>1. /\ branch = 0 /\ plan.alternatives # <<>>
          /\ Ids(left) = HasAll(HashList, Len(HashList)) /\ Ids(right) = Branches(N)
      BY <1>9 DEF Lookup, LookupInv, PartsInv
    <2>2. list' = result /\ pc' = "done" /\ branch' = branch /\ nth' = nth /\ union' = union
      BY <1>1, <1>9
    <2>3. Types'
      BY <1>1, <1>2, <2>2, KeptTypes DEF Types, searchVars, mergeVars, Stages
    <2>4. Ids(result) = Answer /\ Answer' = Answer
      BY <1>3, <1>4, <1>9, <2>1 DEF Uniting, Answer
    <2>5. HashesInv'
      <3>1. list' # NoList
        BY <2>2, IdsAreWords
      <3> QED  BY <2>2, <2>4, <3>1 DEF HashesInv
    <2>6. BranchesInv'
      BY <2>2 DEF BranchesInv, InHashes
    <2> QED  BY <1>2, <1>5, <2>3, <2>5, <2>6 DEF Lookup, LookupInv
  <1> QED  BY <1>1, <1>7, <1>8, <1>9

\* With a bitmap on both sides, or on one side of a union, there is no loop.
LEMMA BitmapSteps ==
    ASSUME Lookup, UniteBitmaps \/ IntersectBitmaps
    PROVE  Lookup'
PROOF
  <1>1. pc = "combine" /\ IsList(left) /\ IsList(right)
    BY DEF UniteBitmaps, IntersectBitmaps, Lookup, LookupInv, Types
  <1>2. Ids(left) \subseteq Word /\ Ids(right) \subseteq Word
    BY <1>1, IdsAreWords
  <1>3. CASE UniteBitmaps
    <2> DEFINE ids == Ids(left) \cup Ids(right)
    <2>1. IsList(Roaring(ids)) /\ Ids(Roaring(ids)) = ids
      BY <1>2, RoaringLists
    <2>2. Uniting /\ Deliver(Roaring(ids))
      BY <1>3 DEF UniteBitmaps
    <2> QED  BY <1>1, <2>1, <2>2, DeliverStep
  <1>4. CASE IntersectBitmaps
    <2> DEFINE ids == left.ids \cap right.ids
    <2>1. left.kind = "roaring" /\ right.kind = "roaring" /\ ~Uniting /\ Deliver(Roaring(ids))
      BY <1>4 DEF IntersectBitmaps
    <2>2. ids = Ids(left) \cap Ids(right)
      BY <1>1, <2>1, IdsAreWords
    <2>3. IsList(Roaring(ids)) /\ Ids(Roaring(ids)) = ids
      BY <1>2, <2>2, RoaringLists
    <2> HIDE DEF ids
    <2> QED  BY <1>1, <2>1, <2>2, <2>3, DeliverStep
  <1> QED  BY <1>3, <1>4

LEMMA BeforeFacts ==
    ASSUME NEW ids \in Seq(Word), Ascends(ids), NEW n \in 1 .. Len(ids) + 1
    PROVE  /\ n \in 1 .. Len(ids) =>
                /\ ids[n] \in Word
                /\ Before(ids, n + 1) = Before(ids, n) \cup {ids[n]}
           /\ n = Len(ids) + 1 => Before(ids, n) = Elems(ids)
           /\ Elems(ids) = Before(ids, n) \cup {ids[k] : k \in n .. Len(ids)}
           /\ Before(ids, n) \subseteq Word
           /\ \A k \in n .. Len(ids) : ids[k] \in Word /\ \A x \in Before(ids, n) : x < ids[k]
           /\ \A k \in n + 1 .. Len(ids) : ids[n] < ids[k]
PROOF
  <1>1. Len(ids) \in Nat /\ DOMAIN ids = 1 .. Len(ids) /\ \A k \in 1 .. Len(ids) : ids[k] \in Word
    OBVIOUS
  <1>2. ASSUME n \in 1 .. Len(ids)
        PROVE  ids[n] \in Word /\ Before(ids, n + 1) = Before(ids, n) \cup {ids[n]}
    <2>1. \A k : k \in 1 .. n + 1 - 1 <=> k \in 1 .. n - 1 \/ k = n
      BY <1>1, <1>2
    <2> QED  BY <1>1, <1>2, <2>1 DEF Before
  <1>3. ASSUME n = Len(ids) + 1 PROVE Before(ids, n) = Elems(ids)
    <2>1. 1 .. n - 1 = DOMAIN ids
      BY <1>1, <1>3
    <2> QED  BY <2>1 DEF Before, Elems
  <1>4. Elems(ids) = Before(ids, n) \cup {ids[k] : k \in n .. Len(ids)}
    <2>1. \A k : k \in DOMAIN ids <=> k \in 1 .. n - 1 \/ k \in n .. Len(ids)
      BY <1>1
    <2> QED  BY <2>1 DEF Before, Elems
  <1>5. Before(ids, n) \subseteq Word
    <2>1. \A k \in 1 .. n - 1 : ids[k] \in Word
      BY <1>1
    <2> QED  BY <2>1 DEF Before
  <1>6. ASSUME NEW k \in n .. Len(ids)
        PROVE  ids[k] \in Word /\ \A x \in Before(ids, n) : x < ids[k]
    <2>1. k \in DOMAIN ids /\ \A m \in 1 .. n - 1 : m \in DOMAIN ids /\ m < k
      BY <1>1
    <2>2. \A m \in 1 .. n - 1 : ids[m] < ids[k]
      BY <2>1 DEF Ascends
    <2> QED  BY <1>1, <2>1, <2>2 DEF Before
  <1>7. \A k \in n + 1 .. Len(ids) : ids[n] < ids[k]
    <2>1. \A k \in n + 1 .. Len(ids) : k \in DOMAIN ids /\ n \in DOMAIN ids /\ n < k
      BY <1>1
    <2> QED  BY <2>1 DEF Ascends
  <1> QED  BY <1>2, <1>3, <1>4, <1>5, <1>6, <1>7

\* An iteration of a merge loop keeps everything but its own variables.
LEMMA IterationKeeps ==
    ASSUME Lookup, pc = "combine", UNCHANGED KeptVars,
           i' \in Nat \ {0}, j' \in Nat \ {0}, merged' \in Seq(Word), MergeInv'
    PROVE  Lookup'
PROOF
  <1>1. /\ UNCHANGED <<indexVars, plan, searchVars, resultVars>> /\ pc' = "combine"
        /\ left' = left /\ right' = right /\ then' = then
    BY DEF KeptVars
  <1>2. IndexInv' /\ Types
    BY <1>1, IndexKept DEF Lookup, LookupInv, Opened
  <1>3. /\ posting' = posting /\ table' = table /\ plan' = plan /\ branch' = branch /\ nth' = nth
        /\ list' = list /\ union' = union /\ lo' = lo /\ hi' = hi
    BY <1>1 DEF indexVars, searchVars, resultVars
  <1>4. Types'
    BY <1>1, <1>2, <1>3 DEF Types, IsList
  <1>5. BranchesInv' /\ HashList' = HashList
    BY <1>1, <1>3, KeptBranches DEF InHashes
  <1>6. HashesInv' /\ SearchInv'
    BY <1>1 DEF HashesInv, SearchInv
  <1>7. PartsInv'
    <2>1. /\ Hash' = Hash /\ Lists' = Lists /\ \A hashes, n : HasAll(hashes, n)' = HasAll(hashes, n)
          /\ \A n : Branches(n)' = Branches(n)
      BY <1>3, <1>5, SameLists DEF Hash, Branches, BranchIds
    <2>2. PartsInv
      BY DEF Lookup, LookupInv
    <2> QED  BY <1>1, <1>3, <1>5, <2>1, <2>2 DEF PartsInv
  <1> QED  BY <1>2, <1>4, <1>5, <1>6, <1>7 DEF Lookup, LookupInv

LEMMA SiftStep ==
    ASSUME Lookup, Sift
    PROVE  Lookup'
PROOF
  <1> DEFINE ids == Sieved
  <1>1. /\ pc = "combine" /\ ~Uniting /\ left.kind # right.kind /\ Sieving
        /\ i <= Len(ids) /\ i' = i + 1 /\ j' = j
        /\ merged' = IF ids[i] \in Sieve THEN Append(merged, ids[i]) ELSE merged
        /\ UNCHANGED KeptVars
    BY DEF Sift, Sieving, KeptVars
  <1>2. /\ IsList(left) /\ IsList(right) /\ i \in Nat \ {0} /\ j \in Nat \ {0} /\ merged \in Seq(Word)
        /\ Ascends(merged) /\ Elems(merged) = Before(ids, i) \cap Sieve
    BY <1>1 DEF Lookup, LookupInv, Types, MergeInv
  <1>3. ids \in Seq(Word) /\ Ascends(ids)
    <2>1. left.kind = "vec" => left.ids \in Seq(Word) /\ Ascends(left.ids)
      BY <1>2, IdsAreWords DEF IsList
    <2>2. left.kind # "vec" => right.kind = "vec" /\ right.ids \in Seq(Word) /\ Ascends(right.ids)
      BY <1>1, <1>2, IdsAreWords DEF IsList
    <2> QED  BY <2>1, <2>2 DEF Sieved
  <1>4. Sieved' = ids /\ Sieve' = Sieve /\ left' = left /\ right' = right
    BY <1>1 DEF KeptVars, Sieved, Sieve
  <1>5. ~AreVecs'
    BY <1>1, <1>4 DEF AreVecs
  <1> HIDE DEF ids
  <1>6. /\ Len(ids) \in Nat /\ i \in 1 .. Len(ids) + 1 /\ i \in 1 .. Len(ids) /\ ids[i] \in Word
        /\ Before(ids, i + 1) = Before(ids, i) \cup {ids[i]}
        /\ \A x \in Before(ids, i) : x < ids[i]
    <2>1. Len(ids) \in Nat
      BY <1>3
    <2>2. i \in 1 .. Len(ids) + 1 /\ i \in 1 .. Len(ids) /\ i \in i .. Len(ids)
      BY <1>1, <1>2, <2>1
    <2> QED  BY <1>3, <2>1, <2>2, BeforeFacts
  <1>7. /\ merged' \in Seq(Word) /\ Ascends(merged')
        /\ Elems(merged') = Before(ids, i + 1) \cap Sieve
    <2>1. CASE ids[i] \in Sieve
      <3>1. \A y \in Elems(merged) : y < ids[i]
        BY <1>2, <1>6
      <3>2. /\ Append(merged, ids[i]) \in Seq(Word) /\ Ascends(Append(merged, ids[i]))
            /\ Elems(Append(merged, ids[i])) = Elems(merged) \cup {ids[i]}
        BY <1>2, <1>6, <3>1, AppendAscends
      <3> QED  BY <1>1, <1>2, <1>6, <2>1, <3>2
    <2>2. CASE ids[i] \notin Sieve
      BY <1>1, <1>2, <1>6, <2>2
    <2> QED  BY <2>1, <2>2
  <1>8. MergeInv'
    <2>1. i' <= Len(ids) + 1
      BY <1>1, <1>2, <1>6
    <2> QED  BY <1>1, <1>4, <1>5, <1>7, <2>1 DEF MergeInv
  <1>9. i' \in Nat \ {0} /\ j' \in Nat \ {0}
    BY <1>1, <1>2
  <1> QED  BY <1>1, <1>7, <1>8, <1>9, IterationKeeps

LEMMA EndSiftStep ==
    ASSUME Lookup, EndSift
    PROVE  Lookup'
PROOF
  <1>1. /\ pc = "combine" /\ ~Uniting /\ left.kind # right.kind /\ Sieving
        /\ i > Len(Sieved) /\ Deliver(FromVec(merged))
    BY DEF EndSift, Sieving
  <1>2. /\ IsList(left) /\ IsList(right) /\ i \in Nat \ {0} /\ merged \in Seq(Word)
        /\ i <= Len(Sieved) + 1
        /\ Ascends(merged) /\ Elems(merged) = Before(Sieved, i) \cap Sieve
    BY <1>1 DEF Lookup, LookupInv, Types, MergeInv
  <1>3. /\ Sieved \in Seq(Word) /\ Ascends(Sieved)
        /\ Elems(Sieved) \cap Sieve = Ids(left) \cap Ids(right)
    <2>1. CASE left.kind = "vec"
      <3>1. right.kind = "roaring"
        BY <1>1, <1>2, <2>1, IdsAreWords
      <3> QED  BY <1>2, <2>1, <3>1, IdsAreWords DEF IsList, Sieved, Sieve
    <2>2. CASE left.kind # "vec"
      <3>1. left.kind = "roaring" /\ right.kind = "vec"
        BY <1>1, <1>2, <2>2, IdsAreWords
      <3> QED  BY <1>2, <2>2, <3>1, IdsAreWords DEF IsList, Sieved, Sieve
    <2> QED  BY <2>1, <2>2
  <1>4. i = Len(Sieved) + 1 /\ i \in 1 .. Len(Sieved) + 1
    <2>1. Len(Sieved) \in Nat
      BY <1>3
    <2> HIDE DEF Sieved
    <2> QED  BY <1>1, <1>2, <2>1
  <1>5. Before(Sieved, i) = Elems(Sieved)
    BY <1>3, <1>4, BeforeFacts
  <1>6. IsList(FromVec(merged)) /\ Ids(FromVec(merged)) = Ids(left) \cap Ids(right)
    BY <1>2, <1>3, <1>5, FromVecLists
  <1> QED  BY <1>1, <1>6, DeliverStep

\* Where a merge is, with names for the two lists of ids.
LEMMA Merges ==
    ASSUME Lookup, pc = "combine", AreVecs
    PROVE  /\ IsList(left) /\ IsList(right)
           /\ left.ids \in Seq(Word) /\ Ascends(left.ids) /\ Ids(left) = Elems(left.ids)
           /\ right.ids \in Seq(Word) /\ Ascends(right.ids) /\ Ids(right) = Elems(right.ids)
           /\ Len(left.ids) \in Nat /\ Len(right.ids) \in Nat /\ Len(left.ids) <= Threshold
           /\ i \in 1 .. Len(left.ids) + 1 /\ j \in 1 .. Len(right.ids) + 1
           /\ merged \in Seq(Word)
           /\ \A m \in j .. Len(right.ids) : \A x \in Before(left.ids, i) : x < right.ids[m]
           /\ \A m \in i .. Len(left.ids) : \A x \in Before(right.ids, j) : x < left.ids[m]
           /\ Ascends(merged)
           /\ Uniting => Elems(merged) = Before(left.ids, i) \cup Before(right.ids, j)
           /\ ~Uniting => /\ Elems(merged) = Before(left.ids, i) \cap Before(right.ids, j)
                          /\ Len(merged) < i
PROOF
  <1>1. /\ IsList(left) /\ IsList(right) /\ left.kind = "vec" /\ right.kind = "vec"
        /\ i \in Nat \ {0} /\ j \in Nat \ {0} /\ merged \in Seq(Word)
    BY DEF Lookup, LookupInv, Types, AreVecs
  <1>2. /\ left.ids \in Seq(Word) /\ Ascends(left.ids) /\ Ids(left) = Elems(left.ids)
        /\ right.ids \in Seq(Word) /\ Ascends(right.ids) /\ Ids(right) = Elems(right.ids)
        /\ Len(left.ids) <= Threshold
    BY <1>1, IdsAreWords DEF IsList
  <1>3. Len(left.ids) \in Nat /\ Len(right.ids) \in Nat
    BY <1>2
  <1>4. /\ i <= Len(left.ids) + 1 /\ j <= Len(right.ids) + 1
        /\ \A m \in j .. Len(right.ids) : \A x \in Before(left.ids, i) : x < right.ids[m]
        /\ \A m \in i .. Len(left.ids) : \A x \in Before(right.ids, j) : x < left.ids[m]
        /\ Ascends(merged)
        /\ Uniting => Elems(merged) = Before(left.ids, i) \cup Before(right.ids, j)
        /\ ~Uniting => /\ Elems(merged) = Before(left.ids, i) \cap Before(right.ids, j)
                       /\ Len(merged) < i
    BY DEF Lookup, LookupInv, MergeInv
  <1>5. i \in 1 .. Len(left.ids) + 1 /\ j \in 1 .. Len(right.ids) + 1
    BY <1>1, <1>3, <1>4
  <1> QED  BY <1>1, <1>2, <1>3, <1>4, <1>5

\* After an iteration the invariant of the loop holds for what it has changed.
LEMMA MergeInvNext ==
    ASSUME Lookup, pc = "combine", AreVecs, UNCHANGED KeptVars,
           i' \in 1 .. Len(left.ids) + 1, j' \in 1 .. Len(right.ids) + 1, merged' \in Seq(Word),
           \A m \in j' .. Len(right.ids) : \A x \in Before(left.ids, i') : x < right.ids[m],
           \A m \in i' .. Len(left.ids) : \A x \in Before(right.ids, j') : x < left.ids[m],
           Ascends(merged'),
           Uniting => Elems(merged') = Before(left.ids, i') \cup Before(right.ids, j'),
           ~Uniting => /\ Elems(merged') = Before(left.ids, i') \cap Before(right.ids, j')
                       /\ Len(merged') < i'
    PROVE  Lookup'
PROOF
  <1>1. pc' = pc /\ left' = left /\ right' = right /\ then' = then
    BY DEF KeptVars
  <1>2. AreVecs' /\ Uniting' = Uniting /\ ~Sieving'
    BY <1>1 DEF AreVecs, Uniting, Sieving
  <1>3. Len(left.ids) \in Nat /\ Len(right.ids) \in Nat
    BY Merges
  <1>4. MergeInv'
    BY <1>1, <1>2, <1>3 DEF MergeInv
  <1>5. i' \in Nat \ {0} /\ j' \in Nat \ {0}
    BY <1>3
  <1> QED  BY <1>4, <1>5, IterationKeeps

LEMMA MergeLessStep ==
    ASSUME Lookup, MergeLess
    PROVE  Lookup'
PROOF
  <1> DEFINE a == left.ids
  <1> DEFINE b == right.ids
  <1>1. /\ pc = "combine" /\ AreVecs /\ i <= Len(a) /\ j <= Len(b) /\ a[i] < b[j]
        /\ merged' = (IF Uniting THEN Append(merged, a[i]) ELSE merged)
        /\ i' = i + 1 /\ j' = j /\ UNCHANGED KeptVars
    BY DEF MergeLess, Merging
  <1>2. /\ a \in Seq(Word) /\ Ascends(a) /\ b \in Seq(Word) /\ Ascends(b)
        /\ Len(a) \in Nat /\ Len(b) \in Nat
        /\ i \in 1 .. Len(a) + 1 /\ j \in 1 .. Len(b) + 1 /\ merged \in Seq(Word)
        /\ \A m \in j .. Len(b) : \A x \in Before(a, i) : x < b[m]
        /\ \A m \in i .. Len(a) : \A x \in Before(b, j) : x < a[m]
        /\ Ascends(merged)
        /\ Uniting => Elems(merged) = Before(a, i) \cup Before(b, j)
        /\ ~Uniting => Elems(merged) = Before(a, i) \cap Before(b, j) /\ Len(merged) < i
    BY <1>1, Merges
  <1>3. i \in 1 .. Len(a) /\ i \in i .. Len(a) /\ j \in 1 .. Len(b)
    BY <1>1, <1>2
  <1>4. /\ a[i] \in Word /\ Before(a, i + 1) = Before(a, i) \cup {a[i]}
        /\ \A x \in Before(a, i) : x < a[i]
        /\ \A m \in j .. Len(b) : b[m] \in Word
        /\ \A m \in j + 1 .. Len(b) : b[j] < b[m]
    BY <1>2, <1>3, BeforeFacts
  <1>5. \A x \in Before(b, j) : x < a[i]
    BY <1>2, <1>3
  <1> HIDE DEF a, b
  <1>6. \A m \in j .. Len(b) : \A x \in Before(a, i + 1) : x < b[m]
    <2> SUFFICES ASSUME NEW m \in j .. Len(b) PROVE a[i] < b[m]
      BY <1>2, <1>4
    <2>1. CASE m = j
      BY <1>1, <2>1
    <2>2. CASE m # j
      <3>1. m \in j + 1 .. Len(b) /\ j \in j .. Len(b)
        BY <1>2, <1>3, <2>2
      <3>2. b[j] < b[m] /\ b[j] \in Int /\ b[m] \in Int /\ a[i] \in Int
        BY <1>4, <3>1, Words
      <3> QED  BY <1>1, <3>2
    <2> QED  BY <2>1, <2>2
  <1>7. \A m \in i + 1 .. Len(a) : \A x \in Before(b, j) : x < a[m]
    <2>1. \A m \in i + 1 .. Len(a) : m \in i .. Len(a)
      BY <1>2
    <2> QED  BY <1>2, <2>1
  <1>8. i + 1 \in 1 .. Len(a) + 1
    BY <1>2, <1>3
  <1>9. CASE Uniting
    <2>1. \A x \in Elems(merged) : x < a[i]
      BY <1>2, <1>4, <1>5, <1>9
    <2>2. /\ Append(merged, a[i]) \in Seq(Word) /\ Ascends(Append(merged, a[i]))
          /\ Elems(Append(merged, a[i])) = Elems(merged) \cup {a[i]}
      BY <1>2, <1>4, <2>1, AppendAscends
    <2>3. Elems(merged') = Before(a, i + 1) \cup Before(b, j)
      BY <1>1, <1>2, <1>4, <1>9, <2>2
    <2> QED  BY <1>1, <1>2, <1>6, <1>7, <1>8, <1>9, <2>2, <2>3, MergeInvNext DEF a, b
  <1>10. CASE ~Uniting
    <2>1. a[i] \notin Before(b, j)
      <3>1. a[i] \in Int
        BY <1>4, Words
      <3> QED  BY <1>5, <3>1
    <2>2. Elems(merged') = Before(a, i + 1) \cap Before(b, j)
      BY <1>1, <1>2, <1>4, <1>10, <2>1
    <2>3. Len(merged') < i + 1 /\ merged' = merged
      <3>1. Len(merged) \in Nat /\ Len(merged) < i /\ i \in Int
        BY <1>2, <1>10
      <3> QED  BY <1>1, <1>10, <3>1
    <2> QED  BY <1>1, <1>2, <1>6, <1>7, <1>8, <1>10, <2>2, <2>3, MergeInvNext DEF a, b
  <1> QED  BY <1>9, <1>10

LEMMA MergeGreaterStep ==
    ASSUME Lookup, MergeGreater
    PROVE  Lookup'
PROOF
  <1> DEFINE a == left.ids
  <1> DEFINE b == right.ids
  <1>1. /\ pc = "combine" /\ AreVecs /\ i <= Len(a) /\ j <= Len(b) /\ a[i] > b[j]
        /\ merged' = (IF Uniting THEN Append(merged, b[j]) ELSE merged)
        /\ i' = i /\ j' = j + 1 /\ UNCHANGED KeptVars
    BY DEF MergeGreater, Merging
  <1>2. /\ a \in Seq(Word) /\ Ascends(a) /\ b \in Seq(Word) /\ Ascends(b)
        /\ Len(a) \in Nat /\ Len(b) \in Nat
        /\ i \in 1 .. Len(a) + 1 /\ j \in 1 .. Len(b) + 1 /\ merged \in Seq(Word)
        /\ \A m \in j .. Len(b) : \A x \in Before(a, i) : x < b[m]
        /\ \A m \in i .. Len(a) : \A x \in Before(b, j) : x < a[m]
        /\ Ascends(merged)
        /\ Uniting => Elems(merged) = Before(a, i) \cup Before(b, j)
        /\ ~Uniting => Elems(merged) = Before(a, i) \cap Before(b, j) /\ Len(merged) < i
    BY <1>1, Merges
  <1>3. j \in 1 .. Len(b) /\ j \in j .. Len(b) /\ i \in 1 .. Len(a)
    BY <1>1, <1>2
  <1>4. /\ b[j] \in Word /\ Before(b, j + 1) = Before(b, j) \cup {b[j]}
        /\ \A x \in Before(b, j) : x < b[j]
        /\ \A m \in i .. Len(a) : a[m] \in Word
        /\ \A m \in i + 1 .. Len(a) : a[i] < a[m]
    BY <1>2, <1>3, BeforeFacts
  <1>5. \A x \in Before(a, i) : x < b[j]
    BY <1>2, <1>3
  <1> HIDE DEF a, b
  <1>6. \A m \in i .. Len(a) : \A x \in Before(b, j + 1) : x < a[m]
    <2> SUFFICES ASSUME NEW m \in i .. Len(a) PROVE b[j] < a[m]
      BY <1>2, <1>4
    <2>1. i \in i .. Len(a) /\ a[i] \in Int /\ b[j] \in Int /\ a[m] \in Int
      <3>1. i \in i .. Len(a)
        BY <1>2, <1>3
      <3> QED  BY <1>4, <3>1, Words
    <2>2. CASE m = i
      BY <1>1, <2>1, <2>2
    <2>3. CASE m # i
      <3>1. m \in i + 1 .. Len(a)
        BY <1>2, <1>3, <2>3
      <3>2. a[i] < a[m]
        BY <1>4, <3>1
      <3> QED  BY <1>1, <2>1, <3>2
    <2> QED  BY <2>2, <2>3
  <1>7. \A m \in j + 1 .. Len(b) : \A x \in Before(a, i) : x < b[m]
    <2>1. \A m \in j + 1 .. Len(b) : m \in j .. Len(b)
      BY <1>2
    <2> QED  BY <1>2, <2>1
  <1>8. j + 1 \in 1 .. Len(b) + 1
    BY <1>2, <1>3
  <1>9. CASE Uniting
    <2>1. \A x \in Elems(merged) : x < b[j]
      BY <1>2, <1>4, <1>5, <1>9
    <2>2. /\ Append(merged, b[j]) \in Seq(Word) /\ Ascends(Append(merged, b[j]))
          /\ Elems(Append(merged, b[j])) = Elems(merged) \cup {b[j]}
      BY <1>2, <1>4, <2>1, AppendAscends
    <2>3. Elems(merged') = Before(a, i) \cup Before(b, j + 1)
      BY <1>1, <1>2, <1>4, <1>9, <2>2
    <2> QED  BY <1>1, <1>2, <1>6, <1>7, <1>8, <1>9, <2>2, <2>3, MergeInvNext DEF a, b
  <1>10. CASE ~Uniting
    <2>1. b[j] \notin Before(a, i)
      <3>1. b[j] \in Int
        BY <1>4, Words
      <3> QED  BY <1>5, <3>1
    <2>2. Elems(merged') = Before(a, i) \cap Before(b, j + 1)
      BY <1>1, <1>2, <1>4, <1>10, <2>1
    <2> QED  BY <1>1, <1>2, <1>6, <1>7, <1>8, <1>10, <2>2, MergeInvNext DEF a, b
  <1> QED  BY <1>9, <1>10

LEMMA MergeEqualStep ==
    ASSUME Lookup, MergeEqual
    PROVE  Lookup'
PROOF
  <1> DEFINE a == left.ids
  <1> DEFINE b == right.ids
  <1>1. /\ pc = "combine" /\ AreVecs /\ i <= Len(a) /\ j <= Len(b) /\ a[i] = b[j]
        /\ merged' = Append(merged, a[i])
        /\ i' = i + 1 /\ j' = j + 1 /\ UNCHANGED KeptVars
    BY DEF MergeEqual, Merging
  <1>2. /\ a \in Seq(Word) /\ Ascends(a) /\ b \in Seq(Word) /\ Ascends(b)
        /\ Len(a) \in Nat /\ Len(b) \in Nat
        /\ i \in 1 .. Len(a) + 1 /\ j \in 1 .. Len(b) + 1 /\ merged \in Seq(Word)
        /\ \A m \in j .. Len(b) : \A x \in Before(a, i) : x < b[m]
        /\ \A m \in i .. Len(a) : \A x \in Before(b, j) : x < a[m]
        /\ Ascends(merged)
        /\ Uniting => Elems(merged) = Before(a, i) \cup Before(b, j)
        /\ ~Uniting => Elems(merged) = Before(a, i) \cap Before(b, j) /\ Len(merged) < i
    BY <1>1, Merges
  <1>3. /\ i \in 1 .. Len(a) /\ i \in i .. Len(a) /\ j \in 1 .. Len(b) /\ j \in j .. Len(b)
    BY <1>1, <1>2
  <1>4. /\ a[i] \in Word /\ Before(a, i + 1) = Before(a, i) \cup {a[i]}
        /\ \A x \in Before(a, i) : x < a[i]
        /\ \A m \in i + 1 .. Len(a) : a[i] < a[m]
    BY <1>2, <1>3, BeforeFacts
  <1>5. /\ Before(b, j + 1) = Before(b, j) \cup {b[j]}
        /\ \A m \in j + 1 .. Len(b) : b[j] < b[m]
    BY <1>2, <1>3, BeforeFacts
  <1>6. \A x \in Before(b, j) : x < a[i]
    BY <1>2, <1>3
  <1> HIDE DEF a, b
  <1>7. \A m \in j + 1 .. Len(b) : \A x \in Before(a, i + 1) : x < b[m]
    <2>1. \A m \in j + 1 .. Len(b) : m \in j .. Len(b)
      BY <1>2
    <2> QED  BY <1>1, <1>2, <1>4, <1>5, <2>1
  <1>8. \A m \in i + 1 .. Len(a) : \A x \in Before(b, j + 1) : x < a[m]
    <2>1. \A m \in i + 1 .. Len(a) : m \in i .. Len(a)
      BY <1>2
    <2> QED  BY <1>1, <1>2, <1>4, <1>5, <2>1
  <1>9. i + 1 \in 1 .. Len(a) + 1 /\ j + 1 \in 1 .. Len(b) + 1
    BY <1>2, <1>3
  <1>10. \A x \in Elems(merged) : x < a[i]
    BY <1>2, <1>4, <1>6
  <1>11. /\ merged' \in Seq(Word) /\ Ascends(merged')
         /\ Elems(merged') = Elems(merged) \cup {a[i]} /\ Len(merged') = Len(merged) + 1
    BY <1>1, <1>2, <1>4, <1>10, AppendAscends
  <1>12. Uniting => Elems(merged') = Before(a, i + 1) \cup Before(b, j + 1)
    BY <1>1, <1>2, <1>4, <1>5, <1>11
  <1>13. ~Uniting => Elems(merged') = Before(a, i + 1) \cap Before(b, j + 1) /\ Len(merged') < i + 1
    <2>1. Len(merged) \in Nat /\ i \in Int
      BY <1>2
    <2>2. ~Uniting => Len(merged') < i + 1
      BY <1>2, <1>11, <2>1
    <2> QED  BY <1>1, <1>2, <1>4, <1>5, <1>11, <2>2
  <1> QED  BY <1>1, <1>2, <1>7, <1>8, <1>9, <1>11, <1>12, <1>13, MergeInvNext DEF a, b

\* When one list is used up, the other has only larger ids left: all of them
\* belong to the union, none of them to the intersection.
LEMMA EndMergeStep ==
    ASSUME Lookup, EndMerge
    PROVE  Lookup'
PROOF
  <1> DEFINE a == left.ids
  <1> DEFINE b == right.ids
  <1>1. /\ pc = "combine" /\ AreVecs /\ ~(i <= Len(a) /\ j <= Len(b))
        /\ Deliver(IF Uniting THEN FromVec(merged \o SubSeq(a, i, Len(a)) \o SubSeq(b, j, Len(b)))
                   ELSE Vec(merged))
    BY DEF EndMerge, Merging
  <1>2. /\ a \in Seq(Word) /\ Ascends(a) /\ b \in Seq(Word) /\ Ascends(b)
        /\ Ids(left) = Elems(a) /\ Ids(right) = Elems(b)
        /\ Len(a) \in Nat /\ Len(b) \in Nat /\ Len(a) <= Threshold
        /\ i \in 1 .. Len(a) + 1 /\ j \in 1 .. Len(b) + 1 /\ merged \in Seq(Word)
        /\ \A m \in j .. Len(b) : \A x \in Before(a, i) : x < b[m]
        /\ \A m \in i .. Len(a) : \A x \in Before(b, j) : x < a[m]
        /\ Ascends(merged)
        /\ Uniting => Elems(merged) = Before(a, i) \cup Before(b, j)
        /\ ~Uniting => Elems(merged) = Before(a, i) \cap Before(b, j) /\ Len(merged) < i
    BY <1>1, Merges
  <1>3. /\ Elems(a) = Before(a, i) \cup {a[k] : k \in i .. Len(a)}
        /\ \A k \in i .. Len(a) : a[k] \in Word /\ \A x \in Before(a, i) : x < a[k]
        /\ Before(a, i) \subseteq Word
    BY <1>2, BeforeFacts
  <1>4. /\ Elems(b) = Before(b, j) \cup {b[k] : k \in j .. Len(b)}
        /\ \A k \in j .. Len(b) : b[k] \in Word /\ \A x \in Before(b, j) : x < b[k]
        /\ Before(b, j) \subseteq Word
    BY <1>2, BeforeFacts
  <1>5. (\A k \in i .. Len(a) : FALSE) \/ (\A k \in j .. Len(b) : FALSE)
    BY <1>1, <1>2
  <1> HIDE DEF a, b
  <1>6. CASE Uniting
    <2> DEFINE u == merged \o SubSeq(a, i, Len(a))
    <2> DEFINE v == u \o SubSeq(b, j, Len(b))
    <2>1. \A y \in Elems(merged) : \A k \in i .. Len(a) : y < a[k]
      BY <1>2, <1>3, <1>6
    <2>2. /\ u \in Seq(Word) /\ Ascends(u)
          /\ Elems(u) = Elems(merged) \cup {a[k] : k \in i .. Len(a)}
      BY <1>2, <2>1, RestAscends
    <2> HIDE DEF u
    <2>3. \A y \in Elems(u) : \A k \in j .. Len(b) : y < b[k]
      BY <1>2, <1>4, <1>5, <1>6, <2>2
    <2>4. /\ v \in Seq(Word) /\ Ascends(v)
          /\ Elems(v) = Elems(u) \cup {b[k] : k \in j .. Len(b)}
      BY <1>2, <2>2, <2>3, RestAscends
    <2>5. Elems(v) = Elems(a) \cup Elems(b)
      BY <1>2, <1>3, <1>4, <1>6, <2>2, <2>4
    <2>6. Deliver(FromVec(v))
      BY <1>1, <1>6 DEF u
    <2> HIDE DEF v
    <2>7. IsList(FromVec(v)) /\ Ids(FromVec(v)) = Ids(left) \cup Ids(right)
      BY <1>2, <2>4, <2>5, FromVecLists
    <2> QED  BY <1>1, <1>6, <2>6, <2>7, DeliverStep
  <1>7. CASE ~Uniting
    <2>1. Elems(merged) = Elems(a) \cap Elems(b)
      <3>1. ASSUME NEW x \in Elems(a) \cap Elems(b) PROVE x \in Before(a, i) \cap Before(b, j)
        <4>1. x \in Word /\ x \in Int
          BY <1>2, ElemsInSet, Words
        <4>2. CASE \A k \in i .. Len(a) : FALSE
          BY <1>2, <1>3, <1>4, <4>1, <4>2
        <4>3. CASE \A k \in j .. Len(b) : FALSE
          BY <1>2, <1>3, <1>4, <4>1, <4>3
        <4> QED  BY <1>5, <4>2, <4>3
      <3> QED  BY <1>2, <1>3, <1>4, <1>7, <3>1
    <2>2. Len(merged) <= Threshold
      <3>1. Len(merged) \in Nat /\ i <= Len(a) + 1 /\ i \in Int
        BY <1>2
      <3> QED  BY <1>2, <1>7, <3>1, Words
    <2>3. IsList(Vec(merged)) /\ Ids(Vec(merged)) = Ids(left) \cap Ids(right)
      BY <1>2, <2>1, <2>2 DEF IsList, PostingLists, Vec, Ids
    <2> QED  BY <1>1, <1>7, <2>3, DeliverStep
  <1> QED  BY <1>6, <1>7

-----------------------------------------------------------------------------
(* The theorems.                                                           *)

LEMMA LookupSteps ==
    ASSUME Lookup, LookupStep
    PROVE  Lookup'
PROOF
  BY TakeBranchStep, TakeOpenBranchStep, EndBranchesStep, NextHashStep, EndIntersectStep,
     SearchSteps, FoundStep, MissingStep, BitmapSteps, SiftStep, EndSiftStep,
     MergeLessStep, MergeGreaterStep, MergeEqualStep, EndMergeStep DEF LookupStep

\* Writing, opening and every step of a lookup keep the invariant.
THEOREM Invariance ==
    Spec => []IInv
PROOF
  <1>1. ASSUME IInv, [Next]_vars
        PROVE  IInv'
    <2>1. CASE \/ \E h \in unwritten : WriteBlock(h)
               \/ \E f \in DOMAIN Magic : Store(f)
               \/ OpenIndex
               \/ RefuseIndex
      BY <1>1, <2>1, IndexSteps
    <2>2. ASSUME NEW p \in Plans, Ask(p) PROVE IInv'
      BY <1>1, <2>2, AskStep
    <2>3. CASE LookupStep /\ steps' = steps + 1
      <3>1. Lookup'
        BY <1>1, <2>3, LookupSteps DEF IInv, Lookup
      <3> QED  BY <1>1, <2>3, <3>1 DEF IInv, Lookup
    <2>4. CASE UNCHANGED vars
      <3>1. /\ UNCHANGED <<posting, unwritten, table, data, files, pc, plan, branch, nth, list, union>>
            /\ UNCHANGED <<lo, hi, left, right, then, i, j, merged, steps>>
        BY <2>4 DEF vars, indexVars, searchVars, mergeVars, resultVars
      <3>2. IndexInv'
        BY <1>1, <3>1 DEF IInv, IndexInv, IndexTypes, TableIsSorted, TableIsComplete, EntriesPoint,
                          BlockOf, FilesInv, OnlyWholeIndexesOpen, Written
      <3>3. HashList' = HashList /\ Hash' = Hash /\ Lists' = Lists
            /\ (\A hashes, n : HasAll(hashes, n)' = HasAll(hashes, n))
            /\ (\A n : Branches(n)' = Branches(n)) /\ Answer' = Answer
        BY <3>1, SameLists DEF HashList, Hash, Branches, BranchIds, Answer
      <3>4. Types' /\ BranchesInv'
        BY <1>1, <3>1, <3>3 DEF IInv, LookupInv, Types, IsList, BranchesInv, InHashes, Empty
      <3>5. HashesInv' /\ SearchInv' /\ PartsInv'
        BY <1>1, <3>1, <3>3 DEF IInv, LookupInv, HashesInv, SearchInv, PartsInv
      <3>6. MergeInv'
        BY <1>1, <3>1 DEF IInv, LookupInv, MergeInv, AreVecs, Uniting, Sieving, Sieved, Sieve
      <3> QED  BY <1>1, <3>1, <3>2, <3>4, <3>5, <3>6 DEF IInv, LookupInv
    <2>5. CASE Stop
      BY <2>4, <2>5 DEF Stop
    <2> QED  BY <1>1, <2>1, <2>2, <2>3, <2>4, <2>5 DEF Next
  <1> QED  BY InitLookup, <1>1, PTL DEF Spec

\* The variables of the lookup keep their types.
THEOREM TypeCorrect ==
    Spec => []TypeOK
PROOF
  <1>1. IInv => TypeOK
    <2> SUFFICES ASSUME IInv PROVE TypeOK
      OBVIOUS
    <2>1. posting \in Indexes /\ unwritten \subseteq DOMAIN posting
          /\ table \in Seq([hash : Nat, offset : Nat, len : Nat])
      BY DEF IInv, IndexInv, IndexTypes, Entries
    <2>2. Types /\ steps \in Nat
      BY DEF IInv, LookupInv
    <2> QED  BY <2>1, <2>2 DEF TypeOK, Types, IsList
  <1> QED  BY <1>1, Invariance, PTL

\* The lists of a lookup ascend, and a long one is a bitmap.
THEOREM ListsStayCanonical ==
    Spec => []ListsAreCanonical
PROOF
  <1>1. IInv => ListsAreCanonical
    <2> SUFFICES ASSUME IInv, NEW l \in {list, union, left, right}, l.kind = "vec"
                 PROVE  Ascends(l.ids) /\ Len(l.ids) <= Threshold
      BY DEF ListsAreCanonical
    <2>1. l # NoList
      BY DEF NoList
    <2>2. IsList(l)
      BY <2>1 DEF IInv, LookupInv, Types
    <2> QED  BY <2>2 DEF IsList
  <1> QED  BY <1>1, Invariance, PTL

\* An index is refused exactly when one of its files is not whole.
THEOREM OnlyWholeIndexesAreOpened ==
    Spec => []OnlyWholeIndexesOpen
PROOF
  <1>1. IInv => OnlyWholeIndexesOpen
    BY DEF IInv, IndexInv, FilesInv
  <1> QED  BY <1>1, Invariance, PTL

\* An entry of the table has the stretch of the data that its list was written
\* to, the stretches lie next to each other, and a lookup reads the list back.
LEMMA EntriesHold ==
    IInv => EntriesDecode
PROOF
  <1> SUFFICES ASSUME IInv, NEW n \in DOMAIN table
                 PROVE  /\ DecodeTagged(Block(table[n])) = FromVec(posting[table[n].hash])
                        /\ table[n].offset = IF n = 1 THEN 0 ELSE table[n - 1].offset + table[n - 1].len
    BY DEF EntriesDecode
  <1>1. /\ table[n].hash \in DOMAIN posting
          /\ table[n].offset + table[n].len <= Len(data)
          /\ SubSeq(data, table[n].offset + 1, table[n].offset + table[n].len)
                = BlockOf(table[n].hash)
          /\ table[n].offset = IF n = 1 THEN 0 ELSE table[n - 1].offset + table[n - 1].len
    BY DEF IInv, IndexInv, TableIsComplete, EntriesPoint
  <1>2. Block(table[n]) = BlockOf(table[n].hash)
    BY <1>1 DEF Block
  <1> QED  BY <1>1, <1>2, Blocks DEF IInv, IndexInv, IndexTypes

\* No cut of a block has an id that its list has not.
CutsAreFirstIds(block, ids) ==
    \A cut \in 0 .. Len(block) :
        LET got == DecodeTagged(SubSeq(block, 1, cut)).ids
        IN  Len(got) <= Len(ids) /\ \A k \in DOMAIN got : got[k] = ids[k]

LEMMA CutBlocks ==
    ASSUME NEW tag \in {TagFixed, TagVarint},
           NEW ids \in Seq(Word), Ascends(ids), Len(ids) \in Word
    PROVE  CutsAreFirstIds(<<tag>> \o EncodePostings(tag, ids), ids)
PROOF
  <1> DEFINE block == <<tag>> \o EncodePostings(tag, ids)
  <1> SUFFICES ASSUME NEW cut \in 0 .. Len(block)
               PROVE  LET got == DecodeTagged(SubSeq(block, 1, cut)).ids
                      IN  Len(got) <= Len(ids) /\ \A k \in DOMAIN got : got[k] = ids[k]
    BY DEF CutsAreFirstIds
  <1>1. PICK got : DecodeTagged(SubSeq(block, 1, cut)) = Vec(got) /\ FirstIds(got, ids)
    BY BlockDecodes
  <1>2. PICK m \in 0 .. Len(ids) : got = SubSeq(ids, 1, m)
    BY <1>1 DEF FirstIds
  <1>3. got \in Seq(Word) /\ Len(got) = m /\ \A k \in 1 .. m : got[k] = ids[k]
    BY <1>2, FirstElements
  <1>4. Vec(got).ids = got
    BY DEF Vec
  <1> QED  BY <1>1, <1>3, <1>4

\* Both encodings of a short list decode to it, and a block that breaks off
\* anywhere to the first ids of its list: no lookup reads an id that was not
\* written.
THEOREM BlocksAreDecoded ==
    Spec => []BlocksDecode
PROOF
  <1>1. IInv => EntriesDecode /\ CutsDecodeToPrefixes
    <2> SUFFICES ASSUME IInv PROVE EntriesDecode /\ CutsDecodeToPrefixes
      OBVIOUS
    <2>1. EntriesDecode
      BY EntriesHold
    <2>2. ASSUME NEW n \in DOMAIN table, Len(posting[table[n].hash]) <= Threshold
          PROVE  LET ids == posting[table[n].hash]
                 IN  \A block \in {Block(table[n]), EncodeFixed(Vec(ids))} :
                        DecodeTagged(block).ids = ids /\ CutsAreFirstIds(block, ids)
      <3> DEFINE ids == posting[table[n].hash]
      <3>1. /\ table[n].hash \in DOMAIN posting /\ posting \in Indexes
            /\ Block(table[n]) = EncodeAuto(FromVec(ids))
        <4>1. /\ table[n].hash \in DOMAIN posting /\ posting \in Indexes
              /\ table[n].offset + table[n].len <= Len(data)
              /\ SubSeq(data, table[n].offset + 1, table[n].offset + table[n].len)
                    = BlockOf(table[n].hash)
          BY DEF IInv, IndexInv, IndexTypes, TableIsComplete, EntriesPoint
        <4> QED  BY <4>1 DEF Block, BlockOf
      <3>2. ids \in Seq(Word) /\ Ascends(ids) /\ Len(ids) \in Word /\ ~(Len(ids) > Threshold)
        <4>1. ids \in Seq(Word) /\ Ascends(ids) /\ Len(ids) \in Word
          BY <3>1, IndexLists
        <4> QED  BY <2>2, <4>1, Words
      <3> HIDE DEF ids
      <3>3. Block(table[n]) = <<TagVarint>> \o EncodePostings(TagVarint, ids)
        <4>1. FromVec(ids) = Vec(ids)
          BY <3>2 DEF FromVec, Sized
        <4> QED  BY <3>1, <4>1 DEF EncodeAuto, Vec
      <3>4. EncodeFixed(Vec(ids)) = <<TagFixed>> \o EncodePostings(TagFixed, ids)
        BY DEF EncodeFixed, Vec
      <3>5. ASSUME NEW tag \in {TagFixed, TagVarint},
                   NEW block, block = <<tag>> \o EncodePostings(tag, ids)
            PROVE  DecodeTagged(block).ids = ids /\ CutsAreFirstIds(block, ids)
        <4>1. DecodeTagged(block) = Vec(ids)
          BY <3>2, <3>5, BlockDecodes
        <4>2. DecodeTagged(block).ids = ids
          BY <4>1 DEF Vec
        <4> QED  BY <3>2, <3>5, <4>2, CutBlocks
      <3> QED  BY <3>3, <3>4, <3>5 DEF ids
    <2> QED  BY <2>1, <2>2 DEF CutsDecodeToPrefixes, CutsAreFirstIds
  <1> QED  BY <1>1, Invariance, PTL DEF BlocksDecode

-----------------------------------------------------------------------------
(* The answer of the steps is what CandidateSets says in one expression.   *)

LEMMA IntersectionsAgree ==
    ASSUME IndexInv, NEW hashes \in Seq(Nat)
    PROVE  LookupIntersect(Lists, FileCount, Elems(hashes)) = HasAll(hashes, Len(hashes))
PROOF
  <1>1. /\ Len(hashes) \in Nat /\ DOMAIN hashes = 1 .. Len(hashes)
        /\ \A k \in DOMAIN hashes : hashes[k] \in Nat /\ hashes[k] \in Elems(hashes)
    BY DEF Elems
  <1>2. \A k \in DOMAIN hashes : Lists[hashes[k]] \subseteq AllIds(FileCount)
    BY <1>1, ListsOfHashes
  <1>3. \A id : (\A h \in Elems(hashes) : id \in Lists[h])
                 <=> (\A k \in 1 .. Len(hashes) : id \in Lists[hashes[k]])
    BY <1>1 DEF Elems
  <1>4. CASE Elems(hashes) = {}
    BY <1>1, <1>4 DEF LookupIntersect, HasAll
  <1>5. CASE Elems(hashes) # {}
    <2> DEFINE some == UNION {Lists[h] : h \in Elems(hashes)}
    <2>1. PICK k \in DOMAIN hashes : TRUE
      BY <1>5 DEF Elems
    <2>2. LookupIntersect(Lists, FileCount, Elems(hashes))
            = {id \in some : \A h \in Elems(hashes) : id \in Lists[h]}
      BY <1>5 DEF LookupIntersect
    <2>3. \A id : (\A h \in Elems(hashes) : id \in Lists[h]) =>
                     id \in some /\ id \in AllIds(FileCount)
      BY <1>1, <1>2, <2>1
    <2> HIDE DEF some
    <2> QED  BY <1>3, <2>2, <2>3 DEF HasAll
  <1> QED  BY <1>4, <1>5

LEMMA AlternativesAgree ==
    ASSUME IndexInv, plan.alternatives \in Seq(Seq(Nat))
    PROVE  LookupAlternatives(Lists, FileCount, {Elems(alt) : alt \in Elems(plan.alternatives)})
             = Branches(Len(plan.alternatives))
PROOF
  <1> DEFINE alts == plan.alternatives
  <1> DEFINE sets == {Elems(alt) : alt \in Elems(alts)}
  <1>1. /\ DOMAIN alts = 1 .. Len(alts) /\ Len(alts) \in Nat
        /\ \A b \in 1 .. Len(alts) : alts[b] \in Seq(Nat) /\ Elems(alts[b]) \in sets
    <2>1. DOMAIN alts = 1 .. Len(alts) /\ Len(alts) \in Nat
      OBVIOUS
    <2>2. \A b \in 1 .. Len(alts) : alts[b] \in Seq(Nat)
      OBVIOUS
    <2>3. \A b \in 1 .. Len(alts) : alts[b] \in Elems(alts)
      BY <2>1 DEF Elems
    <2> QED  BY <2>1, <2>2, <2>3
  <1>2. \A b \in 1 .. Len(alts) :
           LookupIntersect(Lists, FileCount, Elems(alts[b])) = BranchIds(b)
    BY <1>1, IntersectionsAgree DEF BranchIds
  <1>3. \A set \in sets : \E b \in 1 .. Len(alts) : set = Elems(alts[b])
    <2> SUFFICES ASSUME NEW set \in sets PROVE \E b \in 1 .. Len(alts) : set = Elems(alts[b])
      OBVIOUS
    <2>1. PICK alt \in Elems(alts) : set = Elems(alt)
      OBVIOUS
    <2>2. PICK b \in 1 .. Len(alts) : alt = alts[b]
      BY <1>1 DEF Elems
    <2> QED  BY <2>1, <2>2
  <1>4. \A b \in 1 .. Len(alts) : BranchIds(b) \subseteq Branches(Len(alts))
    BY BranchesFacts
  <1>5. Branches(Len(alts)) \subseteq AllIds(FileCount)
    <2>1. Len(alts) \in 0 .. Len(alts)
      BY <1>1
    <2>2. \A b \in 0 .. Len(alts) : Branches(b) \subseteq AllIds(FileCount)
      BY BranchesFacts
    <2> QED  BY <2>1, <2>2
  <1>6. Branches(Len(alts)) = UNION {BranchIds(b) : b \in 1 .. Len(alts)}
    BY DEF Branches
  <1> HIDE DEF sets
  <1>7. CASE {} \in sets
    <2>1. PICK b \in 1 .. Len(alts) : Elems(alts[b]) = {}
      BY <1>3, <1>7
    <2>2. BranchIds(b) = AllIds(FileCount)
      BY <1>2, <2>1 DEF LookupIntersect
    <2>3. Branches(Len(alts)) = AllIds(FileCount)
      BY <1>4, <1>5, <2>2
    <2> QED  BY <1>7, <2>3 DEF LookupAlternatives, sets
  <1>8. CASE {} \notin sets
    <2>1. UNION {LookupIntersect(Lists, FileCount, set) : set \in sets} = Branches(Len(alts))
      BY <1>1, <1>2, <1>3, <1>6
    <2>2. LookupAlternatives(Lists, FileCount, sets)
            = UNION {LookupIntersect(Lists, FileCount, set) : set \in sets}
      BY <1>8 DEF LookupAlternatives
    <2> QED  BY <2>1, <2>2 DEF sets
  <1> QED  BY <1>7, <1>8

\* When a lookup is done it has the candidates of its plan, whatever the lists,
\* the plan, the threshold of the bitmaps and the order of the steps.
THEOREM CandidatesAreAlwaysExact ==
    Spec => []CandidatesAreExact
PROOF
  <1>1. IInv => CandidatesAreExact
    <2> SUFFICES ASSUME IInv, pc = "done" PROVE Ids(list) = Candidates(Lists, FileCount, Wanted)
      BY DEF CandidatesAreExact
    <2>1. /\ IndexInv /\ plan.required \in Seq(Nat) /\ plan.alternatives \in Seq(Seq(Nat))
          /\ Ids(list) = Answer
      BY DEF IInv, LookupInv, Types, HashesInv
    <2> DEFINE required == LookupIntersect(Lists, FileCount, Elems(plan.required))
    <2> DEFINE sets == {Elems(alt) : alt \in Elems(plan.alternatives)}
    <2>2. required = HasAll(plan.required, Len(plan.required))
      BY <2>1, IntersectionsAgree
    <2>3. LookupAlternatives(Lists, FileCount, sets) = Branches(Len(plan.alternatives))
      BY <2>1, AlternativesAgree
    <2>4. Wanted.required = Elems(plan.required) /\ Wanted.alternatives = sets
      BY DEF Wanted
    <2>5. /\ HasAll(plan.required, Len(plan.required)) \subseteq AllIds(FileCount)
          /\ Branches(Len(plan.alternatives)) \subseteq AllIds(FileCount)
      <3>1. Len(plan.alternatives) \in 0 .. Len(plan.alternatives)
        BY <2>1
      <3>2. \A b \in 0 .. Len(plan.alternatives) : Branches(b) \subseteq AllIds(FileCount)
        BY <2>1, BranchesFacts
      <3> QED  BY <3>1, <3>2 DEF HasAll
    <2>6. sets = {} <=> plan.alternatives = <<>>
      <3>1. DOMAIN plan.alternatives = 1 .. Len(plan.alternatives) /\ Len(plan.alternatives) \in Nat
        BY <2>1
      <3>2. ASSUME plan.alternatives # <<>>
            PROVE  plan.alternatives[1] \in Elems(plan.alternatives)
        <4>1. Len(plan.alternatives) # 0
          BY <2>1, <3>2, EmptySeq
        <4>2. 1 \in DOMAIN plan.alternatives
          BY <3>1, <4>1
        <4> QED  BY <4>2 DEF Elems
      <3>3. plan.alternatives = <<>> => Elems(plan.alternatives) = {}
        BY DEF Elems
      <3> QED  BY <3>2, <3>3
    <2>7. Elems(plan.required) = {} => required = AllIds(FileCount)
      BY DEF LookupIntersect
    <2> HIDE DEF required, sets
    <2>8. CASE plan.alternatives = <<>>
      BY <2>1, <2>2, <2>4, <2>5, <2>6, <2>8 DEF Candidates, Answer, required
    <2>9. CASE plan.alternatives # <<>> /\ Elems(plan.required) = {}
      <3>1. Candidates(Lists, FileCount, Wanted) = Branches(Len(plan.alternatives))
        BY <2>3, <2>4, <2>6, <2>9 DEF Candidates
      <3>2. Answer = Branches(Len(plan.alternatives))
        BY <2>2, <2>5, <2>7, <2>9 DEF Answer
      <3> QED  BY <2>1, <3>1, <3>2
    <2>10. CASE plan.alternatives # <<>> /\ Elems(plan.required) # {}
      BY <2>1, <2>2, <2>3, <2>4, <2>6, <2>10 DEF Candidates, Answer, required
    <2> QED  BY <2>8, <2>9, <2>10
  <1> QED  BY <1>1, Invariance, PTL

-----------------------------------------------------------------------------
(* Every step of a lookup leaves less to do.                               *)

\* At a merge the hashes are not yet used up, and counters without a loop rest.
ProgressInv ==
    pc = "combine" =>
        /\ nth <= Len(HashList) + 1
        /\ ~AreVecs => j = 1 /\ (~Sieving => i = 1)

Decreases ==
    \E k \in 1 .. 4 : Rank'[k] < Rank[k] /\ \A m \in 1 .. k - 1 : Rank'[m] = Rank[m]

LEMMA Ranks ==
    /\ Rank[1] = IF pc = "done" \/ branch = 0 THEN 0 ELSE Len(plan.alternatives) + 2 - branch
    /\ pc = "branch" /\ branch <= Len(plan.alternatives) => Rank[2] = Len(HashList) + 2
    /\ pc = "branch" /\ ~(branch <= Len(plan.alternatives)) => Rank[2] = 0
    /\ InHashes => Rank[2] = Len(HashList) + 2 - nth
    /\ pc = "done" => Rank[2] = 0
    /\ pc = "next" => Rank[3] = 2
    /\ pc = "search" => Rank[3] = 1 /\ Rank[4] = hi - lo
    /\ pc \notin {"next", "search"} => Rank[3] = 0
    /\ pc = "combine" => Rank[4] = Size(left) + Size(right) + 2 - i - j
    /\ pc \notin {"search", "combine"} => Rank[4] = 0
PROOF  BY DEF Rank, InHashes

LEMMA NextRanks ==
    /\ Rank'[1] = IF pc' = "done" \/ branch' = 0 THEN 0 ELSE Len(plan'.alternatives) + 2 - branch'
    /\ InHashes' => Rank'[2] = Len(HashList') + 2 - nth'
    /\ pc' = "done" => Rank'[2] = 0
    /\ pc' = "search" => Rank'[3] = 1 /\ Rank'[4] = hi' - lo'
    /\ pc' \notin {"next", "search"} => Rank'[3] = 0
    /\ pc' = "combine" => Rank'[4] = Size(left)' + Size(right)' + 2 - i' - j'
PROOF  BY DEF Rank, InHashes

LEMMA Lexicographic ==
    ASSUME \/ Rank'[1] < Rank[1]
           \/ Rank'[1] = Rank[1] /\ Rank'[2] < Rank[2]
           \/ Rank'[1] = Rank[1] /\ Rank'[2] = Rank[2] /\ Rank'[3] < Rank[3]
           \/ Rank'[1] = Rank[1] /\ Rank'[2] = Rank[2] /\ Rank'[3] = Rank[3] /\ Rank'[4] < Rank[4]
    PROVE  Decreases
PROOF
  <1>1. /\ 1 \in 1 .. 4 /\ \A m \in 1 .. 1 - 1 : FALSE
        /\ 2 \in 1 .. 4 /\ \A m \in 1 .. 2 - 1 : m = 1
        /\ 3 \in 1 .. 4 /\ \A m \in 1 .. 3 - 1 : m \in {1, 2}
        /\ 4 \in 1 .. 4 /\ \A m \in 1 .. 4 - 1 : m \in {1, 2, 3}
    OBVIOUS
  <1> QED  BY <1>1 DEF Decreases

\* No component of the rank is negative.
LEMMA RanksAreNatural ==
    ASSUME Lookup, ProgressInv, InHashes \/ pc = "branch"
    PROVE  \A k \in 1 .. 4 : Rank[k] \in Nat
PROOF
  <1> DEFINE N == Len(plan.alternatives)
  <1>1. /\ plan.alternatives \in Seq(Seq(Nat)) /\ N \in Nat /\ branch \in 0 .. N + 1 /\ nth \in Nat \ {0}
        /\ IsList(left) /\ IsList(right) /\ i \in Nat \ {0} /\ j \in Nat \ {0}
        /\ lo \in 0 .. Len(table) /\ hi \in 0 .. Len(table)
    BY DEF Lookup, LookupInv, Types
  <1>2. Rank[1] \in Nat
    BY <1>1, Ranks
  <1>3. Rank[2] \in Nat
    <2>1. CASE pc = "branch"
      <3>1. CASE branch <= N
        <4>1. branch \in 1 .. N
          BY <1>1, <2>1, <3>1 DEF Lookup, LookupInv, BranchesInv
        <4>2. HashList = plan.alternatives[branch] /\ plan.alternatives[branch] \in Seq(Nat)
          BY <1>1, <4>1 DEF HashList
        <4>3. Len(HashList) \in Nat
          BY <4>2
        <4> QED  BY <2>1, <3>1, <4>3, Ranks
      <3>2. CASE ~(branch <= N)
        BY <2>1, <3>2, Ranks
      <3> QED  BY <3>1, <3>2
    <2>2. CASE InHashes
      <3>1. Len(HashList) \in Nat /\ nth <= Len(HashList) + 1
        BY <2>2, HashLists DEF Lookup, LookupInv, HashesInv, ProgressInv, InHashes
      <3>2. Rank[2] = Len(HashList) + 2 - nth
        BY <2>2, Ranks
      <3> HIDE DEF HashList
      <3> QED  BY <1>1, <3>1, <3>2
    <2> QED  BY <2>1, <2>2
  <1>4. Rank[3] \in Nat
    BY Ranks
  <1>5. Rank[4] \in Nat
    <2>1. CASE pc = "search"
      <3>1. Len(table) \in Nat /\ lo <= hi
        BY <2>1 DEF Lookup, LookupInv, SearchInv, IndexInv, IndexTypes
      <3> QED  BY <1>1, <2>1, <3>1, Ranks
    <2>2. CASE pc = "combine"
      <3>1. CASE AreVecs
        <4>1. /\ Len(left.ids) \in Nat /\ Len(right.ids) \in Nat
              /\ i \in 1 .. Len(left.ids) + 1 /\ j \in 1 .. Len(right.ids) + 1
          BY <2>2, <3>1, Merges
        <4>2. Size(left) = Len(left.ids) /\ Size(right) = Len(right.ids)
          BY <3>1 DEF Size, AreVecs
        <4>3. Rank[4] = Len(left.ids) + Len(right.ids) + 2 - i - j
          BY <2>2, <4>2, Ranks
        <4>4. \A x, y \in Nat : \A a \in 1 .. x + 1, b \in 1 .. y + 1 : x + y + 2 - a - b \in Nat
          OBVIOUS
        <4>5. Len(left.ids) + Len(right.ids) + 2 - i - j \in Nat
          BY <4>1, <4>4
        <4> QED  BY <4>3, <4>5
      <3>2. CASE ~AreVecs
        <4>1. j = 1 /\ (~Sieving => i = 1)
          BY <2>2, <3>2 DEF ProgressInv
        <4>2. Size(left) \in Nat /\ Size(right) \in Nat
          BY <1>1, IdsAreWords DEF Size
        <4>3. Sieving => i <= Size(left) + Size(right) + 1
          <5> SUFFICES ASSUME Sieving PROVE i <= Size(left) + Size(right) + 1
            OBVIOUS
          <5>1. i <= Len(Sieved) + 1 /\ left.kind # right.kind
            BY DEF Lookup, LookupInv, MergeInv, Sieving
          <5>2. CASE left.kind = "vec"
            <6>1. Size(left) = Len(Sieved) /\ Size(right) = 0
              BY <5>1, <5>2 DEF Size, Sieved
            <6> QED  BY <4>2, <5>1, <6>1
          <5>3. CASE left.kind # "vec"
            <6>1. right.kind = "vec"
              BY <1>1, <5>1, <5>3, IdsAreWords
            <6>2. Size(right) = Len(Sieved) /\ Size(left) = 0
              BY <5>3, <6>1 DEF Size, Sieved
            <6> QED  BY <4>2, <5>1, <6>2
          <5> QED  BY <5>2, <5>3
        <4>4. Rank[4] = Size(left) + Size(right) + 2 - i - j
          BY <2>2, Ranks
        <4>5. i <= Size(left) + Size(right) + 1
          BY <4>1, <4>2, <4>3
        <4> QED  BY <1>1, <4>1, <4>2, <4>4, <4>5
      <3> QED  BY <3>1, <3>2
    <2>3. CASE pc \notin {"search", "combine"}
      BY <2>3, Ranks
    <2> QED  BY <2>1, <2>2, <2>3
  <1>6. \A k \in 1 .. 4 : k \in {1, 2, 3, 4}
    OBVIOUS
  <1> QED  BY <1>2, <1>3, <1>4, <1>5, <1>6

\* The steps that leave the place in the plan alone.
LEMMA SamePlace ==
    ASSUME Lookup, InHashes, InHashes', UNCHANGED <<plan, branch, nth>>
    PROVE  HashList' = HashList /\ Rank'[1] = Rank[1] /\ Rank'[2] = Rank[2]
PROOF
  <1>1. HashList' = HashList
    BY DEF HashList
  <1>2. pc # "done" /\ pc' # "done"
    BY DEF InHashes
  <1>3. Rank'[1] = Rank[1]
    BY <1>2, Ranks, NextRanks
  <1>4. Rank[2] = Len(HashList) + 2 - nth /\ Rank'[2] = Len(HashList') + 2 - nth'
    BY Ranks, NextRanks
  <1> HIDE DEF HashList
  <1> QED  BY <1>1, <1>3, <1>4

\* The next hash of the same list.
LEMMA NextPlace ==
    ASSUME Lookup, InHashes, pc' = "next", UNCHANGED <<plan, branch>>, nth' = nth + 1
    PROVE  ProgressInv' /\ Decreases
PROOF
  <1>1. HashList' = HashList /\ Len(HashList) \in Nat /\ nth \in Nat
    BY HashLists DEF HashList, Lookup, LookupInv, Types
  <1>2. Rank'[1] = Rank[1]
    BY Ranks, NextRanks DEF InHashes
  <1>3. Rank[2] = Len(HashList) + 2 - nth /\ Rank'[2] = Len(HashList') + 2 - nth'
    BY Ranks, NextRanks DEF InHashes
  <1> HIDE DEF HashList
  <1>4. Rank'[2] < Rank[2]
    BY <1>1, <1>3
  <1> QED  BY <1>2, <1>4, Lexicographic DEF ProgressInv

\* A merge is begun after the last hash or after a search.
LEMMA CombineProgress ==
    ASSUME Lookup, pc \in {"next", "search"}, UNCHANGED <<plan, branch, nth>>,
           NEW l, NEW r, NEW dest, Combine(l, r, dest)
    PROVE  ProgressInv' /\ Decreases
PROOF
  <1>1. InHashes /\ pc' = "combine" /\ InHashes' /\ i' = 1 /\ j' = 1
    BY DEF InHashes, Combine
  <1>2. HashList' = HashList /\ Rank'[1] = Rank[1] /\ Rank'[2] = Rank[2]
    BY <1>1, SamePlace
  <1>3. nth <= Len(HashList) + 1
    BY DEF Lookup, LookupInv, HashesInv
  <1>4. ProgressInv'
    BY <1>1, <1>2, <1>3 DEF ProgressInv
  <1>5. Rank'[3] < Rank[3]
    BY <1>1, Ranks, NextRanks
  <1> QED  BY <1>2, <1>4, <1>5, Lexicographic

LEMMA BranchProgress ==
    ASSUME Lookup, TakeBranch \/ TakeOpenBranch \/ EndBranches
    PROVE  ProgressInv' /\ Decreases
PROOF
  <1> DEFINE N == Len(plan.alternatives)
  <1>1. /\ pc = "branch" /\ plan' = plan /\ N \in Nat /\ branch \in 1 .. N + 1
        /\ Rank[1] = N + 2 - branch
    <2>1. pc = "branch" /\ plan' = plan
      BY DEF TakeBranch, TakeOpenBranch, EndBranches
    <2>2. branch \in 0 .. N + 1 /\ branch > 0 /\ N \in Nat
      BY <2>1 DEF Lookup, LookupInv, Types, BranchesInv
    <2> QED  BY <2>1, <2>2, Ranks
  <1>2. pc' # "combine"
    BY <1>1 DEF TakeBranch, TakeOpenBranch, EndBranches
  <1>3. CASE TakeBranch
    <2>1. pc' = "next" /\ branch' = branch /\ nth' = 1 /\ branch <= N
      BY <1>3 DEF TakeBranch
    <2>2. HashList' = HashList /\ HashList = plan.alternatives[branch]
      BY <1>1, <2>1 DEF HashList
    <2>3. Len(HashList) \in Nat
      <3>1. plan.alternatives[branch] \in Seq(Nat)
        BY <1>1, <2>1 DEF Lookup, LookupInv, Types
      <3> QED  BY <2>2, <3>1
    <2>4. Rank'[1] = Rank[1]
      BY <1>1, <2>1, NextRanks
    <2>5. Rank[2] = Len(HashList) + 2 /\ Rank'[2] = Len(HashList') + 2 - nth'
      BY <1>1, <2>1, Ranks, NextRanks DEF InHashes
    <2> HIDE DEF HashList
    <2>6. Rank'[2] < Rank[2]
      BY <2>1, <2>2, <2>3, <2>5
    <2> QED  BY <1>2, <2>4, <2>6, Lexicographic DEF ProgressInv
  <1>4. CASE TakeOpenBranch
    <2>1. pc' = pc /\ branch' = N + 1 /\ branch <= N
      BY <1>4 DEF TakeOpenBranch
    <2>2. Rank'[1] = 1
      BY <1>1, <2>1, NextRanks
    <2>3. Rank'[1] < Rank[1]
      BY <1>1, <2>1, <2>2
    <2> QED  BY <1>2, <2>3, Lexicographic DEF ProgressInv
  <1>5. CASE EndBranches
    <2>1. branch' = 0
      BY <1>5 DEF EndBranches
    <2>2. Rank'[1] = 0
      BY <2>1, NextRanks
    <2>3. Rank'[1] < Rank[1]
      BY <1>1, <2>2
    <2> QED  BY <1>2, <2>3, Lexicographic DEF ProgressInv
  <1> QED  BY <1>3, <1>4, <1>5

LEMMA HashProgress ==
    ASSUME Lookup, NextHash \/ EndIntersect
    PROVE  ProgressInv' /\ Decreases
PROOF
  <1>1. pc = "next" /\ InHashes /\ UNCHANGED <<plan, branch, nth>>
    BY DEF NextHash, EndIntersect, InHashes, resultVars
  <1>2. CASE NextHash
    <2>1. pc' = "search" /\ InHashes'
      BY <1>2 DEF NextHash, InHashes
    <2>2. Rank'[3] < Rank[3]
      BY <1>1, <2>1, Ranks, NextRanks
    <2> QED  BY <1>1, <2>1, <2>2, SamePlace, Lexicographic DEF ProgressInv
  <1>3. CASE EndIntersect
    <2>1. CASE branch > 0
      <3>1. Combine(union, list, "union")
        BY <1>3, <2>1 DEF EndIntersect
      <3> QED  BY <1>1, <3>1, CombineProgress
    <2>2. CASE ~(branch > 0) /\ plan.alternatives # <<>>
      <3>1. Combine(list, union, "answer")
        BY <1>3, <2>2 DEF EndIntersect
      <3> QED  BY <1>1, <3>1, CombineProgress
    <2>3. CASE ~(branch > 0) /\ plan.alternatives = <<>>
      <3>1. pc' = "done"
        BY <1>3, <2>3 DEF EndIntersect
      <3>2. branch = 0
        <4>1. branch \in 0 .. Len(plan.alternatives) /\ Len(plan.alternatives) \in Nat
          BY <1>1, HashLists
        <4> QED  BY <2>3, <4>1
      <3>3. Rank[1] = 0 /\ Rank'[1] = 0 /\ Rank'[2] = 0
        BY <3>1, <3>2, Ranks, NextRanks
      <3>4. Rank[2] = Len(HashList) + 2 - nth
        BY <1>1, Ranks
      <3>5. Len(HashList) \in Nat /\ nth \in Nat /\ nth <= Len(HashList) + 1
        BY <1>1, HashLists DEF Lookup, LookupInv, Types, HashesInv
      <3> HIDE DEF HashList
      <3>6. Rank'[2] < Rank[2]
        BY <3>3, <3>4, <3>5
      <3> QED  BY <3>1, <3>3, <3>6, Lexicographic DEF ProgressInv
    <2> QED  BY <2>1, <2>2, <2>3
  <1> QED  BY <1>2, <1>3

LEMMA SearchProgress ==
    ASSUME Lookup, SearchLess \/ SearchGreater
    PROVE  ProgressInv' /\ Decreases
PROOF
  <1>1. /\ Probing /\ pc = "search" /\ pc' = "search" /\ UNCHANGED <<plan, branch, nth>>
        /\ \/ lo' = Mid + 1 /\ hi' = hi
           \/ lo' = lo /\ hi' = Mid
    BY DEF SearchLess, SearchGreater, Probing, resultVars
  <1>2. InHashes /\ InHashes'
    BY <1>1 DEF InHashes
  <1>3. Mid \in lo .. hi - 1 /\ Mid \in Nat /\ lo \in Nat /\ hi \in Int
    <2>1. Mid \in lo .. hi - 1 /\ Mid \in Nat /\ lo \in Nat /\ hi \in 0 .. Len(table)
      BY <1>1, Probes
    <2> QED  BY <2>1
  <1>4. Rank'[3] = Rank[3] /\ Rank[4] = hi - lo /\ Rank'[4] = hi' - lo'
    BY <1>1, Ranks, NextRanks
  <1> HIDE DEF Mid
  <1>5. Rank'[4] < Rank[4]
    BY <1>1, <1>3, <1>4
  <1> QED  BY <1>1, <1>2, <1>4, <1>5, SamePlace, Lexicographic DEF ProgressInv

LEMMA ReceiveProgress ==
    ASSUME Lookup, Found \/ Missing
    PROVE  ProgressInv' /\ Decreases
PROOF
  <1>1. pc = "search" /\ InHashes /\ plan' = plan
    BY DEF Found, Missing, Probing, InHashes
  <1>2. PICK p : Receive(p)
    BY DEF Found, Missing
  <1>3. CASE list = NoList
    BY <1>1, <1>2, <1>3, NextPlace DEF Receive
  <1>4. CASE list # NoList
    <2>1. Combine(list, p, "list") /\ UNCHANGED <<branch, nth>>
      BY <1>2, <1>4 DEF Receive, resultVars
    <2> QED  BY <1>1, <2>1, CombineProgress
  <1> QED  BY <1>3, <1>4

\* A result goes to the next hash, to the next branch or to the answer.
LEMMA DeliverProgress ==
    ASSUME Lookup, ProgressInv, pc = "combine", NEW result, Deliver(result)
    PROVE  ProgressInv' /\ Decreases
PROOF
  <1>1. InHashes /\ plan' = plan
    BY DEF InHashes, Deliver
  <1>2. CASE then = "list"
    BY <1>1, <1>2, NextPlace DEF Deliver
  <1>3. CASE then = "union"
    <2>1. pc' = "branch" /\ branch' = branch + 1
      BY <1>3 DEF Deliver
    <2>2. branch > 0 /\ branch \in Nat
      BY <1>3, <1>1, HashLists DEF Lookup, LookupInv, PartsInv
    <2>3. Len(plan.alternatives) \in Nat
      BY <1>1, HashLists
    <2>4. /\ Rank[1] = Len(plan.alternatives) + 2 - branch
          /\ Rank'[1] = Len(plan.alternatives) + 2 - branch'
      BY <1>1, <2>1, <2>2, Ranks, NextRanks
    <2>5. Rank'[1] < Rank[1]
      BY <2>1, <2>2, <2>3, <2>4
    <2> QED  BY <2>1, <2>5, Lexicographic DEF ProgressInv
  <1>4. CASE then = "answer"
    <2>1. pc' = "done" /\ branch = 0
      BY <1>4 DEF Deliver, Lookup, LookupInv, PartsInv
    <2>2. Rank[1] = 0 /\ Rank'[1] = 0 /\ Rank'[2] = 0 /\ Rank[2] = Len(HashList) + 2 - nth
      BY <1>1, <2>1, Ranks, NextRanks
    <2>3. Len(HashList) \in Nat /\ nth \in Nat /\ nth <= Len(HashList) + 1
      BY <1>1, HashLists DEF Lookup, LookupInv, Types, ProgressInv
    <2> HIDE DEF HashList
    <2>4. Rank'[2] < Rank[2]
      BY <2>2, <2>3
    <2> QED  BY <2>1, <2>2, <2>4, Lexicographic DEF ProgressInv
  <1> QED  BY <1>2, <1>3, <1>4 DEF Deliver

\* An iteration of a loop leaves fewer ids.
LEMMA IterationProgress ==
    ASSUME Lookup, ProgressInv, Sift \/ MergeLess \/ MergeGreater \/ MergeEqual
    PROVE  ProgressInv' /\ Decreases
PROOF
  <1>1. /\ pc = "combine" /\ pc' = pc /\ UNCHANGED <<plan, branch, nth, left, right, then>>
        /\ \/ i' = i + 1 /\ j' = j
           \/ AreVecs /\ i' = i /\ j' = j + 1
           \/ AreVecs /\ i' = i + 1 /\ j' = j + 1
        /\ AreVecs \/ Sieving
    BY DEF Sift, MergeLess, MergeGreater, MergeEqual, Sieving, Merging, KeptVars, resultVars
  <1>2. InHashes /\ InHashes'
    BY <1>1 DEF InHashes
  <1>3. /\ HashList' = HashList /\ Rank'[1] = Rank[1] /\ Rank'[2] = Rank[2]
        /\ Rank'[3] = Rank[3]
    BY <1>1, <1>2, SamePlace, Ranks, NextRanks
  <1>4. AreVecs' = AreVecs /\ Sieving' = Sieving /\ Size(left)' = Size(left) /\ Size(right)' = Size(right)
    BY <1>1 DEF AreVecs, Sieving, Uniting, Size
  <1>5. ProgressInv'
    BY <1>1, <1>3, <1>4 DEF ProgressInv
  <1>6. /\ Size(left) \in Nat /\ Size(right) \in Nat /\ i \in Nat /\ j \in Nat
    BY IdsAreWords DEF Size, Lookup, LookupInv, Types
  <1>7. /\ Rank[4] = Size(left) + Size(right) + 2 - i - j
        /\ Rank'[4] = Size(left) + Size(right) + 2 - i' - j'
    BY <1>1, <1>4, Ranks, NextRanks
  <1>8. Rank'[4] < Rank[4]
    BY <1>1, <1>6, <1>7
  <1> QED  BY <1>3, <1>5, <1>8, Lexicographic

LEMMA LookupProgress ==
    ASSUME Lookup, ProgressInv, LookupStep
    PROVE  ProgressInv' /\ Decreases /\ \A k \in 1 .. 4 : Rank[k] >= 0
PROOF
  <1>1. ProgressInv' /\ Decreases
    <2>1. CASE UniteBitmaps \/ IntersectBitmaps \/ EndSift \/ EndMerge
      <3>1. pc = "combine" /\ \E result : Deliver(result)
        BY <2>1 DEF UniteBitmaps, IntersectBitmaps, EndSift, EndMerge, Sieving
      <3> QED  BY <3>1, DeliverProgress
    <2> QED  BY <2>1, BranchProgress, HashProgress, SearchProgress, ReceiveProgress,
                IterationProgress DEF LookupStep
  <1>2. InHashes \/ pc = "branch"
    BY DEF LookupStep, TakeBranch, TakeOpenBranch, EndBranches, NextHash, EndIntersect,
           SearchLess, SearchGreater, Found, Missing, Probing, UniteBitmaps, IntersectBitmaps,
           Sift, EndSift, Sieving, MergeLess, MergeGreater, MergeEqual, Merging, EndMerge, InHashes
  <1>3. \A k \in 1 .. 4 : Rank[k] \in Nat
    BY <1>2, RanksAreNatural
  <1> HIDE DEF Rank
  <1> QED  BY <1>1, <1>3

\* No lookup goes on forever: each of its steps lowers a rank of four naturals
\* in their lexicographic order, in every index, for every plan.
THEOREM LookupAlwaysAdvances ==
    Spec => LookupAdvances
PROOF
  <1> DEFINE Advances ==
        steps' # steps =>
            /\ \A k \in 1 .. 4 : Rank[k] >= 0
            /\ \E k \in 1 .. 4 : Rank'[k] < Rank[k] /\ \A m \in 1 .. k - 1 : Rank'[m] = Rank[m]
  <1>1. Init => ProgressInv
    BY DEF Init, ProgressInv
  <1>2. ASSUME IInv, ProgressInv, [Next]_vars
        PROVE  ProgressInv' /\ Advances
    <2>1. CASE \/ \E h \in unwritten : WriteBlock(h)
               \/ \E f \in DOMAIN Magic : Store(f)
               \/ OpenIndex
               \/ RefuseIndex
      <3>1. pc' # "combine" /\ steps' = steps
        BY <2>1 DEF WriteBlock, Store, OpenIndex, RefuseIndex
      <3> QED  BY <3>1 DEF ProgressInv
    <2>2. ASSUME NEW p \in Plans, Ask(p) PROVE ProgressInv' /\ Advances
      <3>1. pc' # "combine" /\ steps' = steps
        BY <2>2 DEF Ask
      <3> QED  BY <3>1 DEF ProgressInv
    <2>3. CASE LookupStep /\ steps' = steps + 1
      <3>1. ProgressInv' /\ Decreases /\ \A k \in 1 .. 4 : Rank[k] >= 0
        BY <1>2, <2>3, LookupProgress DEF IInv, Lookup
      <3> HIDE DEF Rank
      <3> QED  BY <3>1 DEF Decreases
    <2>4. CASE UNCHANGED vars
      <3>1. /\ UNCHANGED <<pc, plan, branch, nth, left, right, then, i, j, steps>>
        BY <2>4 DEF vars, resultVars, mergeVars
      <3> QED  BY <1>2, <3>1 DEF ProgressInv, HashList, AreVecs, Sieving, Uniting
    <2>5. CASE Stop
      BY <2>4, <2>5 DEF Stop
    <2> HIDE DEF Advances
    <2> QED  BY <1>2, <2>1, <2>2, <2>3, <2>4, <2>5 DEF Next
  <1>3. Spec /\ []IInv => [][Advances]_vars
    <2>1. IInv /\ ProgressInv /\ [Next]_vars => ProgressInv' /\ [Advances]_vars
      BY <1>2
    <2> QED  BY <1>1, <2>1, PTL DEF Spec
  <1> QED  BY <1>3, Invariance, PTL DEF LookupAdvances

=============================================================================
