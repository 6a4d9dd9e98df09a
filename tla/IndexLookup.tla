---------------------------- MODULE IndexLookup ----------------------------
(***************************************************************************)
(* From the inverted index to the bytes of a complete index and back to    *)
(* the candidates of a query plan: the serialisation loop of               *)
(* qndx-index/src/builder.rs, the binary search and the intersections of   *)
(* qndx-index/src/reader.rs, the merge loops of qndx-index/src/postings.rs *)
(* and resolve_candidates_from_plan of qndx-query/src/search.rs, one step  *)
(* of a loop to an action.  CandidateSets says in one expression what all  *)
(* of this has to amount to.                                               *)
(***************************************************************************)
EXTENDS PostingCodec, CandidateSets, FileFormat

CONSTANTS
    Indexes,    \* inverted indexes: hash -> ids in ascending order
    Plans,      \* query plans, with sequences of hashes
    FileCount   \* the files of the manifest

Hashes == UNION {DOMAIN index : index \in Indexes}

ASSUME FileCountAssumption == FileCount \in Word
ASSUME IndexesAssumption ==
    \A index \in Indexes :
        /\ IsFiniteSet(DOMAIN index) /\ DOMAIN index \subseteq Nat
        /\ \A h \in DOMAIN index :
              index[h] \in Seq(AllIds(FileCount)) /\ Ascends(index[h])
ASSUME PlansAssumption ==
    Plans \subseteq [required : Seq(Nat), alternatives : Seq(Seq(Nat))]

VARIABLES
    posting,    \* the inverted index, after the merge
    unwritten,  \* the hashes of it that are still to be written
    table,      \* ngrams.tbl
    data,       \* postings.dat
    files,      \* the three files with their headers
    pc,
    plan,
    branch,     \* the alternative at hand, 0 when it is the required hashes
    nth,        \* the place of the hash at hand in its list of hashes
    list,       \* the intersection so far, or NoList before the first lookup
    union,      \* the union of the branches so far
    lo, hi,     \* the window of the binary search
    left, right, then,  \* two lists to combine, and where the result goes
    i, j, merged,       \* the merge loop
    steps       \* history: the steps of the lookup, so that an iteration that
                \* changes nothing else is a step all the same

indexVars  == <<posting, unwritten, table, data, files>>
searchVars == <<lo, hi>>
mergeVars  == <<left, right, then, i, j, merged>>
resultVars == <<branch, nth, list, union>>
vars == <<indexVars, pc, plan, searchVars, mergeVars, resultVars, steps>>

Stages == {"write", "open", "refused", "ask", "branch", "next", "search", "combine", "done"}
NoList == [kind |-> "none"]
Empty  == FromVec(<<>>)

Init ==
    /\ posting \in Indexes
    /\ unwritten = DOMAIN posting /\ table = <<>> /\ data = <<>>
    /\ files = [ngrams |-> <<>>, postings |-> <<>>, manifest |-> <<>>]
    /\ pc = "write"
    /\ plan = [required |-> <<>>, alternatives |-> <<>>]
    /\ branch = 0 /\ nth = 1 /\ list = NoList /\ union = Empty
    /\ lo = 0 /\ hi = 0
    /\ left = Empty /\ right = Empty /\ then = "list" /\ i = 1 /\ j = 1 /\ merged = <<>>
    /\ steps = 0

-----------------------------------------------------------------------------
(* Serialisation: the hashes in the order of the map, which is ascending.  *)

WriteBlock(h) ==
    /\ pc = "write"
    /\ h \in unwritten /\ \A g \in unwritten : h <= g
    /\ LET block == EncodeAuto(FromVec(posting[h]))
       IN  /\ data' = data \o block
           /\ table' = Append(table, [hash |-> h, offset |-> Len(data), len |-> Len(block)])
    /\ unwritten' = unwritten \ {h}
    /\ UNCHANGED <<posting, files, pc, plan, searchVars, mergeVars, resultVars, steps>>

Written ==
    [ngrams   |-> WriteWithHeader(Magic["ngrams"], table),
     postings |-> WriteWithHeader(Magic["postings"], data),
     manifest |-> WriteWithHeader(Magic["manifest"], <<FileCount>>)]

\* The files are written, and one of them may not be on the disk as a whole.
Store(f) ==
    /\ pc = "write" /\ unwritten = {}
    /\ \E remains \in Damaged(Written[f]) : files' = [Written EXCEPT ![f] = remains]
    /\ pc' = "open"
    /\ UNCHANGED <<posting, unwritten, table, data, plan, searchVars, mergeVars, resultVars, steps>>

-----------------------------------------------------------------------------
(* IndexReader::open.                                                      *)

Valid(stored) ==
    /\ ValidSlice(stored["ngrams"], Magic["ngrams"])
    /\ ValidSlice(stored["postings"], Magic["postings"])
    /\ ValidStream(stored["manifest"], Magic["manifest"])

OpenIndex ==
    /\ pc = "open" /\ Valid(files)
    /\ table' = PayloadFromSlice(files["ngrams"])
    /\ data' = PayloadFromSlice(files["postings"])
    /\ pc' = "ask"
    /\ UNCHANGED <<posting, unwritten, files, plan, searchVars, mergeVars, resultVars, steps>>

RefuseIndex ==
    /\ pc = "open" /\ ~Valid(files)
    /\ pc' = "refused"
    /\ UNCHANGED <<indexVars, plan, searchVars, mergeVars, resultVars, steps>>

-----------------------------------------------------------------------------
(* The plan.                                                               *)

AllFiles == FromVec([n \in 1 .. FileCount |-> n - 1])

Ask(p) ==
    /\ pc = "ask"
    /\ plan' = p
    /\ nth' = 1
    /\ IF p.required = <<>> /\ p.alternatives = <<>>
       THEN pc' = "done" /\ branch' = 0 /\ list' = AllFiles
       ELSE IF p.alternatives = <<>>
       THEN pc' = "next" /\ branch' = 0 /\ list' = NoList
       ELSE pc' = "branch" /\ branch' = 1 /\ list' = NoList
    /\ UNCHANGED <<indexVars, searchVars, mergeVars, union, steps>>

HashList == IF branch = 0 THEN plan.required ELSE plan.alternatives[branch]

\* A branch with hashes: lookup_intersect.
TakeBranch ==
    /\ pc = "branch" /\ branch <= Len(plan.alternatives)
    /\ plan.alternatives[branch] # <<>>
    /\ pc' = "next" /\ nth' = 1 /\ list' = NoList
    /\ UNCHANGED <<indexVars, plan, searchVars, mergeVars, branch, union>>

\* Fault: a branch without hashes is passed over.
TakeOpenBranchIgnored ==
    /\ pc = "branch" /\ branch <= Len(plan.alternatives)
    /\ plan.alternatives[branch] = <<>>
    /\ branch' = branch + 1
    /\ UNCHANGED <<indexVars, pc, plan, searchVars, mergeVars, nth, list, union>>

\* A branch without hashes: all files, and the loop is left.
TakeOpenBranch ==
    /\ pc = "branch" /\ branch <= Len(plan.alternatives)
    /\ plan.alternatives[branch] = <<>>
    /\ union' = AllFiles
    /\ branch' = Len(plan.alternatives) + 1
    /\ UNCHANGED <<indexVars, pc, plan, searchVars, mergeVars, nth, list>>

\* After the branches: the required hashes, if there are any.
EndBranches ==
    /\ pc = "branch" /\ branch > Len(plan.alternatives)
    /\ branch' = 0 /\ nth' = 1
    /\ IF plan.required = <<>>
       THEN pc' = "done" /\ list' = union
       ELSE pc' = "next" /\ list' = NoList
    /\ UNCHANGED <<indexVars, plan, searchVars, mergeVars, union>>

-----------------------------------------------------------------------------
(* lookup_intersect.                                                       *)

Combine(l, r, dest) ==
    /\ left' = l /\ right' = r /\ then' = dest
    /\ i' = 1 /\ j' = 1 /\ merged' = <<>>
    /\ pc' = "combine"

Exhausted == nth > Len(HashList) \/ (list # NoList /\ NoIds(list))

NextHash ==
    /\ pc = "next" /\ ~Exhausted
    /\ lo' = 0 /\ hi' = Len(table)
    /\ pc' = "search"
    /\ UNCHANGED <<indexVars, plan, mergeVars, resultVars>>

EndIntersect ==
    /\ pc = "next" /\ Exhausted
    /\ IF branch > 0 THEN Combine(union, list, "union")
       ELSE IF plan.alternatives # <<>> THEN Combine(list, union, "answer")
       ELSE pc' = "done" /\ UNCHANGED mergeVars
    /\ UNCHANGED <<indexVars, plan, searchVars, resultVars>>

-----------------------------------------------------------------------------
(* lookup: the binary search, and the block it finds.                      *)

Mid     == lo + (hi - lo) \div 2
Entry   == table[Mid + 1]
Hash    == HashList[nth]
Probing == pc = "search" /\ lo < hi

\* Fault: the upper half starts one entry too high.
SearchLessSkipping ==
    /\ Probing /\ Entry.hash < Hash
    /\ lo' = Mid + 2
    /\ UNCHANGED <<indexVars, pc, plan, hi, mergeVars, resultVars>>

\* Fault: the upper half starts with the entry just probed.
SearchLessStaying ==
    /\ Probing /\ Entry.hash < Hash
    /\ lo' = Mid
    /\ UNCHANGED <<indexVars, pc, plan, hi, mergeVars, resultVars>>

SearchLess ==
    /\ Probing /\ Entry.hash < Hash
    /\ lo' = Mid + 1
    /\ UNCHANGED <<indexVars, pc, plan, hi, mergeVars, resultVars>>

SearchGreater ==
    /\ Probing /\ Entry.hash > Hash
    /\ hi' = Mid
    /\ UNCHANGED <<indexVars, pc, plan, lo, mergeVars, resultVars>>

\* The bytes an entry points at; past the end of the postings there are none.
Block(entry) ==
    IF entry.offset + entry.len <= Len(data)
    THEN SubSeq(data, entry.offset + 1, entry.offset + entry.len)
    ELSE <<>>

\* The first list is kept, the others are intersected with it.
Receive(p) ==
    IF list = NoList
    THEN /\ list' = p /\ nth' = nth + 1 /\ pc' = "next"
         /\ UNCHANGED <<mergeVars, branch, union>>
    ELSE Combine(list, p, "list") /\ UNCHANGED resultVars

Found ==
    /\ Probing /\ Entry.hash = Hash
    /\ Receive(DecodeTagged(Block(Entry)))
    /\ UNCHANGED <<indexVars, plan, searchVars>>

Missing ==
    /\ pc = "search" /\ lo >= hi
    /\ Receive(Vec(<<>>))
    /\ UNCHANGED <<indexVars, plan, searchVars>>

-----------------------------------------------------------------------------
(* intersect and union of two posting lists.                               *)

Uniting == then = "union"
AreVecs == left.kind = "vec" /\ right.kind = "vec"

Deliver(result) ==
    /\ \/ then = "list" /\ list' = result /\ nth' = nth + 1 /\ pc' = "next"
          /\ UNCHANGED <<branch, union>>
       \/ then = "union" /\ union' = result /\ branch' = branch + 1 /\ pc' = "branch"
          /\ UNCHANGED <<nth, list>>
       \/ then = "answer" /\ list' = result /\ pc' = "done"
          /\ UNCHANGED <<branch, nth, union>>
    /\ UNCHANGED <<indexVars, plan, searchVars, mergeVars>>

\* A bitmap with a bitmap; the ids of a vec are inserted into a bitmap.
UniteBitmaps ==
    /\ pc = "combine" /\ Uniting /\ ~AreVecs
    /\ Deliver(Roaring(Ids(left) \cup Ids(right)))

IntersectBitmaps ==
    /\ pc = "combine" /\ ~Uniting
    /\ left.kind = "roaring" /\ right.kind = "roaring"
    /\ Deliver(Roaring(left.ids \cap right.ids))

(* A vec with a bitmap: the ids of the vec are filtered.                   *)

Sieved  == IF left.kind = "vec" THEN left.ids ELSE right.ids
Sieve   == IF left.kind = "vec" THEN right.ids ELSE left.ids
Sieving == pc = "combine" /\ ~Uniting /\ left.kind # right.kind

Sift ==
    /\ Sieving /\ i <= Len(Sieved)
    /\ merged' = IF Sieved[i] \in Sieve THEN Append(merged, Sieved[i]) ELSE merged
    /\ i' = i + 1
    /\ UNCHANGED <<indexVars, pc, plan, searchVars, left, right, then, j, resultVars>>

EndSift == Sieving /\ i > Len(Sieved) /\ Deliver(FromVec(merged))

(* vec_intersect and vec_union.                                            *)

Merging == pc = "combine" /\ AreVecs /\ i <= Len(left.ids) /\ j <= Len(right.ids)
KeptVars == <<indexVars, pc, plan, searchVars, left, right, then, resultVars>>

MergeLess ==
    /\ Merging /\ left.ids[i] < right.ids[j]
    /\ merged' = IF Uniting THEN Append(merged, left.ids[i]) ELSE merged
    /\ i' = i + 1
    /\ UNCHANGED <<KeptVars, j>>

MergeGreater ==
    /\ Merging /\ left.ids[i] > right.ids[j]
    /\ merged' = IF Uniting THEN Append(merged, right.ids[j]) ELSE merged
    /\ j' = j + 1
    /\ UNCHANGED <<KeptVars, i>>

MergeEqual ==
    /\ Merging /\ left.ids[i] = right.ids[j]
    /\ merged' = Append(merged, left.ids[i])
    /\ i' = i + 1 /\ j' = j + 1
    /\ UNCHANGED KeptVars

\* Fault: the union of two vecs stays a vec.
EndMergeVec ==
    /\ pc = "combine" /\ AreVecs /\ ~Merging
    /\ Deliver(IF Uniting
               THEN Vec(merged \o SubSeq(left.ids, i, Len(left.ids))
                                   \o SubSeq(right.ids, j, Len(right.ids)))
               ELSE Vec(merged))

EndMerge ==
    /\ pc = "combine" /\ AreVecs /\ ~Merging
    /\ Deliver(IF Uniting
               THEN FromVec(merged \o SubSeq(left.ids, i, Len(left.ids))
                                   \o SubSeq(right.ids, j, Len(right.ids)))
               ELSE Vec(merged))

-----------------------------------------------------------------------------
LookupStep ==
    \/ TakeBranch \/ TakeOpenBranch \/ EndBranches
    \/ NextHash \/ EndIntersect
    \/ SearchLess \/ SearchGreater \/ Found \/ Missing
    \/ UniteBitmaps \/ IntersectBitmaps \/ Sift \/ EndSift
    \/ MergeLess \/ MergeGreater \/ MergeEqual \/ EndMerge

Stop == pc \in {"refused", "done"} /\ UNCHANGED vars

Next ==
    \/ \E h \in unwritten : WriteBlock(h)
    \/ \E f \in DOMAIN Magic : Store(f)
    \/ OpenIndex \/ RefuseIndex
    \/ \E p \in Plans : Ask(p)
    \/ LookupStep /\ steps' = steps + 1
    \/ Stop

Spec == Init /\ [][Next]_vars

-----------------------------------------------------------------------------
(* Properties.                                                             *)

PostingLists ==
    [kind : {"vec"}, ids : Seq(Word)] \cup [kind : {"roaring"}, ids : SUBSET Word]

TypeOK ==
    /\ posting \in Indexes /\ unwritten \subseteq DOMAIN posting
    /\ table \in Seq([hash : Nat, offset : Nat, len : Nat])
    /\ pc \in Stages /\ then \in {"list", "union", "answer"}
    /\ branch \in 0 .. Len(plan.alternatives) + 1 /\ nth \in Nat \ {0}
    /\ list \in {NoList} \cup PostingLists
    /\ {union, left, right} \subseteq PostingLists
    /\ {lo, hi} \subseteq 0 .. Len(table) /\ {i, j} \subseteq Nat /\ merged \in Seq(Word)
    /\ steps \in Nat

\* What the index says of a hash, and the plan with its sequences as sets.
Lists == [h \in Nat |-> IF h \in DOMAIN posting THEN Elems(posting[h]) ELSE {}]
Wanted == [required |-> Elems(plan.required),
           alternatives |-> {Elems(alt) : alt \in Elems(plan.alternatives)}]

\* Whatever the lists, the plan and the mixture of representations, the steps
\* come to exactly the candidates: no id is lost in a search or a merge, and
\* none is invented (resolve_candidates_from_plan).
CandidatesAreExact ==
    pc = "done" => Ids(list) = Candidates(Lists, FileCount, Wanted)

\* The lists in use ascend, which the merge loops rely on, and one of more
\* than Threshold ids is a bitmap (postings.rs, module comment).
ListsAreCanonical ==
    \A l \in {list, union, left, right} :
        l.kind = "vec" => Ascends(l.ids) /\ Len(l.ids) <= Threshold

\* What the codec owes the index: the block of a list decodes to the list.
CodecRoundTrips ==
    \A index \in Indexes : \A h \in DOMAIN index :
        LET written == FromVec(index[h])
        IN  /\ written.kind = "vec" => EncodeAuto(written) \in Seq(Byte)
            /\ DecodeTagged(EncodeAuto(written)) = written

\* An index is opened if its files are whole and refused if they are not,
\* wherever the writing of one of them broke off (file-format.md: "Any
\* mismatch results in an error").
OnlyWholeIndexesOpen ==
    /\ pc = "refused" => files # Written
    /\ pc \notin {"write", "open", "refused"} => files = Written

\* Every entry of the table points at the bytes of its own list and at no
\* others, and they decode to the list.
EntriesDecode ==
    \A n \in DOMAIN table :
        /\ DecodeTagged(Block(table[n])) = FromVec(posting[table[n].hash])
        /\ table[n].offset = IF n = 1 THEN 0 ELSE table[n - 1].offset + table[n - 1].len

\* Both vec encodings of a list decode to it, and if only the first bytes are
\* there, to its first ids, never to an id that was not written.
CutsDecodeToPrefixes ==
    \A n \in DOMAIN table :
        LET ids == posting[table[n].hash]
        IN  Len(ids) <= Threshold =>
                \A block \in {Block(table[n]), EncodeFixed(Vec(ids))} :
                    /\ DecodeTagged(block).ids = ids
                    /\ \A cut \in 0 .. Len(block) :
                          LET got == DecodeTagged(SubSeq(block, 1, cut)).ids
                          IN  Len(got) <= Len(ids) /\ \A k \in DOMAIN got : got[k] = ids[k]

\* What a lookup reads of the mapped file is the list that was written, at the
\* limits of a varint and of a word too, and a block that breaks off yields no
\* id of its own (decode_postings: "break", decode_varint: None).
BlocksDecode == EntriesDecode /\ CutsDecodeToPrefixes

\* What is left to do: branches, hashes, the stage of a hash, and the window
\* of the search or the ids to be merged.
Size(l) == IF l.kind = "vec" THEN Len(l.ids) ELSE 0

Rank ==
    << IF pc = "done" \/ branch = 0 THEN 0 ELSE Len(plan.alternatives) + 2 - branch,
       CASE pc = "branch" /\ branch <= Len(plan.alternatives) -> Len(HashList) + 2
         [] pc \in {"next", "search", "combine"} -> Len(HashList) + 2 - nth
         [] OTHER -> 0,
       CASE pc = "next" -> 2 [] pc = "search" -> 1 [] OTHER -> 0,
       CASE pc = "search" -> hi - lo
         [] pc = "combine" -> Size(left) + Size(right) + 2 - i - j
         [] OTHER -> 0 >>

\* Every step of a lookup leaves less to do, so that no window, no merge and
\* no branch is gone through forever; and no lookup is stuck before it is done
\* (the run looks for deadlocks).
LookupAdvances ==
    [][steps' # steps =>
          /\ \A k \in 1 .. 4 : Rank[k] >= 0
          /\ \E k \in 1 .. 4 : Rank'[k] < Rank[k] /\ \A m \in 1 .. k - 1 : Rank'[m] = Rank[m]]_vars
=============================================================================
