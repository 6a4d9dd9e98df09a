--------------------------- MODULE PostingCodec ---------------------------
(***************************************************************************)
(* Posting lists and their bytes: the hybrid representation of             *)
(* qndx-index/src/postings.rs and the delta encodings of                   *)
(* qndx-core/src/format.rs.                                                *)
(*                                                                         *)
(* The widths are constants.  The program has 7 payload bits to a byte,    *)
(* words of 4 bytes, a shift guard at 35 and a threshold of 64; a small    *)
(* instance keeps the relations between them: a byte is one bit wider than *)
(* its payload, a word is a whole number of bytes, and the guard is the    *)
(* first multiple of the payload width that a word does not exceed.        *)
(***************************************************************************)
EXTENDS Integers, Sequences, FiniteSets

CONSTANTS
    GroupBits,  \* payload bits of a varint byte
    WordBytes,  \* bytes of a FileId or a count in the fixed encoding
    MaxShift,   \* decode_varint gives up at this shift
    Threshold   \* a list of more ids is a bitmap

ByteBits == GroupBits + 1
WordBits == WordBytes * ByteBits

ASSUME WidthsAssumption ==
    /\ {GroupBits, WordBytes, MaxShift, Threshold} \subseteq Nat
    /\ GroupBits > 0 /\ WordBytes > 0
    /\ MaxShift % GroupBits = 0
    /\ MaxShift >= WordBits /\ MaxShift < WordBits + GroupBits

\* 1 << n, as a function that a proof can unfold.
TwoTo[n \in Nat] == IF n = 0 THEN 1 ELSE 2 * TwoTo[n - 1]

Byte == 0 .. TwoTo[ByteBits] - 1
Word == 0 .. TwoTo[WordBits] - 1

ASSUME ThresholdAssumption == Threshold \in Word

-----------------------------------------------------------------------------
(* The two representations.                                                *)

Elems(s) == {s[i] : i \in DOMAIN s}

Ascends(s) == \A i, j \in DOMAIN s : i < j => s[i] < s[j]

\* The ids of a set in ascending order.
Ascending(S) ==
    [i \in 1 .. Cardinality(S) |-> CHOOSE x \in S : Cardinality({y \in S : y < x}) = i - 1]

Vec(ids)     == [kind |-> "vec", ids |-> ids]
Roaring(ids) == [kind |-> "roaring", ids |-> ids]

\* PostingList::len and to_vec, as far as the callers care: the ids.
Ids(list) == IF list.kind = "vec" THEN Elems(list.ids) ELSE list.ids
NoIds(list) == Ids(list) = {}

\* A list of at most Threshold ids stays a vec.
Sized(ids) == IF Len(ids) > Threshold THEN Roaring(Elems(ids)) ELSE Vec(ids)

\* from_vec: sort, deduplicate, choose.  Sorting leaves a sorted list alone.
FromVec(ids) == IF Ascends(ids) THEN Sized(ids) ELSE Sized(Ascending(Elems(ids)))

-----------------------------------------------------------------------------
(* Varints: groups of payload bits, the low ones first; the high bit of a  *)
(* byte says that more follow.                                             *)

Base == TwoTo[GroupBits]

\* The k-th group of so many bits.
Group(v, k, width) == (v \div TwoTo[width * (k - 1)]) % TwoTo[width]

Groups(v) == CHOOSE n \in 1 .. WordBits :
                /\ v < TwoTo[GroupBits * n]
                /\ n > 1 => v >= TwoTo[GroupBits * (n - 1)]

EncodeVarint(v) ==
    [k \in 1 .. Groups(v) |-> Group(v, k, GroupBits) + (IF k < Groups(v) THEN Base ELSE 0)]

\* What the first n groups stand for, n up to the last one: each is shifted
\* into a word, and the bits past its end are gone.
Sums(data, last, width) ==
    LET sum[n \in 0 .. last] ==
            IF n = 0 THEN 0
            ELSE sum[n - 1] + (data[n] % TwoTo[width]) * TwoTo[width * (n - 1)]
    IN  sum
Assemble(data, n, width) == Sums(data, n, width)[n] % TwoTo[WordBits]

NoWord == [value |-> -1, rest |-> <<>>]

\* Fault: the guard is one group too early.
DecodeVarintShort(data) ==
    LET last == {i \in DOMAIN data :
                    data[i] < Base /\ \A k \in 1 .. i - 1 : data[k] >= Base}
    IN  IF \A i \in last : GroupBits * i >= MaxShift THEN NoWord
        ELSE LET n == CHOOSE i \in last : TRUE
             IN  [value |-> Assemble(data, n, GroupBits),
                  rest  |-> SubSeq(data, n + 1, Len(data))]

\* Fault: input that ends inside a varint is taken for its end.
DecodeVarintUnterminated(data) ==
    LET n == CHOOSE i \in 0 .. Len(data) :
                /\ \A k \in 1 .. i - 1 : data[k] >= Base
                /\ i = Len(data) \/ (i > 0 /\ data[i] < Base)
    IN  IF n = 0 \/ GroupBits * (n - 1) >= MaxShift THEN NoWord
        ELSE [value |-> Assemble(data, n, GroupBits),
              rest  |-> SubSeq(data, n + 1, Len(data))]

\* No byte ends the varint, or the one that does is at a shift of MaxShift.
DecodeVarint(data) ==
    LET last == {i \in DOMAIN data :
                    data[i] < Base /\ \A k \in 1 .. i - 1 : data[k] >= Base}
    IN  IF \A i \in last : GroupBits * (i - 1) >= MaxShift THEN NoWord
        ELSE LET n == CHOOSE i \in last : TRUE
             IN  [value |-> Assemble(data, n, GroupBits),
                  rest  |-> SubSeq(data, n + 1, Len(data))]

(* Fixed width: the bytes of a word, the low one first.                    *)

EncodeWord(v) == [k \in 1 .. WordBytes |-> Group(v, k, ByteBits)]

DecodeWord(data) ==
    IF Len(data) < WordBytes THEN NoWord
    ELSE [value |-> Assemble(data, WordBytes, ByteBits),
          rest  |-> SubSeq(data, WordBytes + 1, Len(data))]

-----------------------------------------------------------------------------
(* Blocks of the postings file: a tag, then the payload.                   *)

TagFixed   == 1
TagVarint  == 2
TagRoaring == 3

Encode(tag, v)    == IF tag = TagFixed THEN EncodeWord(v) ELSE EncodeVarint(v)
Decode(tag, data) == IF tag = TagFixed THEN DecodeWord(data) ELSE DecodeVarint(data)

\* The count, then the distance of each id to the one before it.
Delta(ids, k) == IF k = 1 THEN ids[1] ELSE ids[k] - ids[k - 1]
EncodedUpTo(tag, ids) ==
    LET bytes[k \in 0 .. Len(ids)] ==
            IF k = 0 THEN Encode(tag, Len(ids)) ELSE bytes[k - 1] \o Encode(tag, Delta(ids, k))
    IN  bytes
EncodePostings(tag, ids) == EncodedUpTo(tag, ids)[Len(ids)]

\* Where a word is missing or malformed the list ends without an error.  The
\* sum of the distances is a word too.
DecodeNext(tag, state) ==
    LET next == Decode(tag, state.rest)
        id   == (state.prev + next.value) % TwoTo[WordBits]
    IN  IF next = NoWord THEN state
        ELSE [ids |-> Append(state.ids, id), prev |-> id, rest |-> next.rest]
DecodedUpTo(tag, header) ==
    LET scan[k \in 0 .. header.value] ==
            IF k = 0 THEN [ids |-> <<>>, prev |-> 0, rest |-> header.rest]
            ELSE DecodeNext(tag, scan[k - 1])
    IN  scan
DecodePostings(tag, data) ==
    LET header == Decode(tag, data)
    IN  IF header = NoWord THEN <<>> ELSE DecodedUpTo(tag, header)[header.value].ids

\* The serialisation of a bitmap is a library's: one opaque unit.
EncodeAuto(list) ==
    IF list.kind = "vec" THEN <<TagVarint>> \o EncodePostings(TagVarint, list.ids)
    ELSE <<TagRoaring, list.ids>>

EncodeFixed(list) ==
    <<TagFixed>> \o EncodePostings(TagFixed,
                        IF list.kind = "vec" THEN list.ids ELSE Ascending(list.ids))

\* lookup takes a block it cannot decode for an empty list.
DecodeTagged(block) ==
    IF block = <<>> THEN Vec(<<>>)
    ELSE IF block[1] \in {TagFixed, TagVarint}
         THEN Vec(DecodePostings(block[1], Tail(block)))
    ELSE IF block[1] = TagRoaring /\ Len(block) = 2 THEN Roaring(block[2])
    ELSE Vec(<<>>)
=============================================================================
