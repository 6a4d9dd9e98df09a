--------------------------- MODULE SparseNgrams ---------------------------
(***************************************************************************)
(* Sparse n-grams (qndx-index/src/ngram.rs): the covering set that a query *)
(* looks up, computed by the monotone stack of                             *)
(* extract_sparse_ngrams_covering, against the set of all n-grams that     *)
(* extract_sparse_ngrams_all puts into the index.                          *)
(*                                                                         *)
(* Positions are those of adjacent pairs of bytes, from 1.  The n-gram     *)
(* <<k, j>> runs from the first byte of pair k to the last of pair j.  Its *)
(* hash is taken to identify its text.                                     *)
(***************************************************************************)
EXTENDS Ngrams

CONSTANTS
    Bytes,      \* the alphabet
    MaxLength,  \* bound on the length of a literal
    MinWeight,  \* bounds on the weight of a pair
    MaxWeight

ASSUME LengthAssumption == MaxLength \in Nat /\ MaxLength >= 2 /\ MinWeight \in Nat /\ MaxWeight \in Nat

Literals == UNION {[1 .. n -> Bytes] : n \in 2 .. MaxLength}

VARIABLES
    data,       \* the literal
    weight,     \* pair_weight, a hash: any number for any pair
    i,          \* the next pair
    stack,      \* positions of pairs, the top last
    grams,      \* the n-grams emitted
    phase       \* "scan", or "done" when the stack is drained

vars == <<data, weight, i, stack, grams, phase>>

Init ==
    /\ data \in Literals
    /\ weight \in [Bytes \X Bytes -> MinWeight .. MaxWeight]
    /\ i = 1 /\ stack = <<>> /\ grams = {} /\ phase = "scan"

Pairs == 1 .. Len(data) - 1
W(k)  == weight[<<data[k], data[k + 1]>>]
Top   == stack[Len(stack)]
Below == SubSeq(stack, 1, Len(stack) - 1)

-----------------------------------------------------------------------------
(* extract_sparse_ngrams_covering: one action per turn of its loops.       *)

Scanning == phase = "scan" /\ i \in Pairs
TopLighter == stack # <<>> /\ W(Top) < W(i)
TopEqual   == stack # <<>> /\ W(Top) = W(i)

\* Fault: only one lighter pair is popped.
PopLighterOnce ==
    /\ Scanning /\ TopLighter
    /\ grams' = grams \cup {<<Top, i>>}
    /\ stack' = Append(Below, i) /\ i' = i + 1
    /\ UNCHANGED <<data, weight, phase>>

PopLighter ==
    /\ Scanning /\ TopLighter
    /\ grams' = grams \cup {<<Top, i>>}
    /\ stack' = Below
    /\ UNCHANGED <<data, weight, i, phase>>

\* Fault: the equal pair stays on the stack.
PopEqualKept ==
    /\ Scanning /\ TopEqual
    /\ grams' = grams \cup {<<Top, i>>}
    /\ stack' = Append(stack, i) /\ i' = i + 1
    /\ UNCHANGED <<data, weight, phase>>

\* Fault: the loop does not go on to the next pair.
PopEqualAgain ==
    /\ Scanning /\ TopEqual
    /\ grams' = grams \cup {<<Top, i>>}
    /\ stack' = Append(Below, i)
    /\ UNCHANGED <<data, weight, i, phase>>

PopEqual ==
    /\ Scanning /\ TopEqual
    /\ grams' = grams \cup {<<Top, i>>}
    /\ stack' = Append(Below, i) /\ i' = i + 1
    /\ UNCHANGED <<data, weight, phase>>

Push ==
    /\ Scanning /\ ~TopLighter /\ ~TopEqual
    /\ stack' = Append(stack, i) /\ i' = i + 1
    /\ UNCHANGED <<data, weight, grams, phase>>

\* Fault: what is left on the stack is dropped.
DrainNothing ==
    /\ phase = "scan" /\ i \notin Pairs /\ Len(stack) > 1
    /\ stack' = Below
    /\ UNCHANGED <<data, weight, i, grams, phase>>

\* Fault: the end of the last byte is taken for a pair.
DrainTooFar ==
    /\ phase = "scan" /\ i \notin Pairs /\ Len(stack) > 1
    /\ grams' = grams \cup {<<stack[Len(stack) - 1], Top + 1>>}
    /\ stack' = Below
    /\ UNCHANGED <<data, weight, i, phase>>

\* The rest of the stack: n-grams between neighbours.
Drain ==
    /\ phase = "scan" /\ i \notin Pairs /\ Len(stack) > 1
    /\ grams' = grams \cup {<<stack[Len(stack) - 1], Top>>}
    /\ stack' = Below
    /\ UNCHANGED <<data, weight, i, phase>>

\* Fault: the last pair is left out.
BottomSilent ==
    /\ phase = "scan" /\ i \notin Pairs /\ Len(stack) = 1
    /\ phase' = "done"
    /\ UNCHANGED <<data, weight, i, stack, grams>>

\* The last pair stands for itself.
Bottom ==
    /\ phase = "scan" /\ i \notin Pairs /\ Len(stack) = 1
    /\ grams' = grams \cup {<<Top, Top>>}
    /\ phase' = "done"
    /\ UNCHANGED <<data, weight, i, stack>>

Next == PopLighter \/ PopEqual \/ Push \/ Drain \/ Bottom

Spec == Init /\ [][Next]_vars /\ WF_vars(Next)

-----------------------------------------------------------------------------
(* Properties.                                                             *)

TypeOK ==
    /\ data \in Seq(Bytes) /\ weight \in [Bytes \X Bytes -> Nat]
    /\ i \in 1 .. Len(data)
    /\ stack \in Seq(Pairs) /\ grams \subseteq Pairs \X Pairs
    /\ phase \in {"scan", "done"}

\* The stack falls, and what lies between two neighbours is lighter than the
\* left and no heavier than the right one; so every n-gram emitted is a stretch
\* whose left end outweighs, and whose right end is not outweighed by, what is
\* inside (the loops of extract_sparse_ngrams_covering rest on it).
StackShapesGrams ==
    /\ \A k \in 1 .. Len(stack) - 1 :
          /\ stack[k] < stack[k + 1] /\ W(stack[k]) > W(stack[k + 1])
          /\ \A m \in stack[k] + 1 .. stack[k + 1] - 1 : W(m) <= W(stack[k + 1])
    /\ stack # <<>> => \A m \in Top + 1 .. i - 1 : W(m) < W(Top)
    /\ \A g \in grams : \A m \in g[1] + 1 .. g[2] - 1 : W(m) < W(g[1]) /\ W(m) <= W(g[2])

\* The covering covers: every byte is in some n-gram (ngram.rs).
CoversEveryByte ==
    phase = "done" => \A b \in DOMAIN data : \E g \in grams : g[1] <= b /\ b <= g[2] + 1

\* The covering is never the smaller set: from every pair but the last starts
\* an n-gram that begins with the trigram there, and the bigram of the last
\* turn comes on top.  So a query by sparse n-grams looks up more n-grams than
\* one by trigrams, for every literal of any length and all weights, although
\* ngram.rs:104 promises "*fewer* n-grams than trigram extraction for long
\* literals, reducing the number of posting-list lookups required".  What
\* can be cheaper are the longer n-grams, each of which selects more.
CoveringSavesNoLookup ==
    phase = "done" => Cardinality(TextOf(data, grams)) > Cardinality(Trigrams(data))

Indexed == SparseGrams(data, weight)

\* The loops compute Covering, the definition that the planner uses.
ComputesCovering == phase = "done" => grams = Covering(PairWeights(data, weight))

\* Where no two pairs of the literal weigh the same (and none weighs 0), all
\* n-grams a query asks for are in the index of every file with the literal.
DistinctWeightsAreCovered ==
    phase = "done" /\ Untied(data, weight) => TextOf(data, grams) \subseteq Indexed

\* ngram.rs, of every literal: "covering(L) is a subset of all(F)".
CoveringIsIndexed == phase = "done" => TextOf(data, grams) \subseteq Indexed

\* The loops end.
Terminates == <>(phase = "done")
=============================================================================
