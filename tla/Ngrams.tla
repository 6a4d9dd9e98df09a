------------------------------- MODULE Ngrams -------------------------------
(***************************************************************************)
(* The n-grams of qndx-index/src/ngram.rs as sets.  A text is a sequence   *)
(* of bytes; pair k of it is the bytes k and k + 1, with a weight given by *)
(* the hash pair_weight.  A stretch <<k, j>> runs from pair k to pair j.   *)
(* N-grams are kept as texts: the code looks up their hashes, and two with *)
(* one hash only add candidates.                                           *)
(***************************************************************************)
EXTENDS Integers, Sequences, FiniteSets, SequencesExt, FiniteSetsExt

\* extract_trigrams
Trigrams(text) == {SubSeq(text, k, k + 2) : k \in 1 .. Len(text) - 2}

\* The weights of the pairs of a text.
PairWeights(text, weight) == [k \in 1 .. Len(text) - 1 |-> weight[<<text[k], text[k + 1]>>]]

\* The largest weight strictly between two pairs.
Interior(w, k, j) == Max({0} \cup {w[m] : m \in k + 1 .. j - 1})

\* Fault: the right end belongs to the interior.
AllStretchesShort(w) ==
    {<<k, k>> : k \in DOMAIN w}
        \cup {s \in (DOMAIN w) \X (DOMAIN w) :
                s[1] < s[2] /\ Interior(w, s[1], s[2] + 1) < w[s[1]]}

\* extract_sparse_ngrams_all: every pair, and every stretch whose two end
\* pairs outweigh all pairs inside.
AllStretches(w) ==
    {<<k, k>> : k \in DOMAIN w}
        \cup {s \in (DOMAIN w) \X (DOMAIN w) :
                /\ s[1] < s[2]
                /\ Interior(w, s[1], s[2]) < w[s[1]] /\ Interior(w, s[1], s[2]) < w[s[2]]}

\* Pair k is still on the stack of extract_sparse_ngrams_covering when pair j
\* comes: everything between them is lighter.
Waits(w, k, j) == \A m \in k + 1 .. j - 1 : w[m] < w[k]

\* What no later pair takes from the stack.
Left(w) == {k \in DOMAIN w : Waits(w, k, Len(w) + 1)}

\* What extract_sparse_ngrams_covering computes: the stretches from a pair to
\* the first that is not lighter, the stretches between neighbours of what is
\* left on the stack, and its bottom.  SparseNgrams has the loops themselves.
Covering(w) ==
    LET left == Left(w)
    IN  {s \in (DOMAIN w) \X (DOMAIN w) :
            s[1] < s[2] /\ w[s[1]] <= w[s[2]] /\ Waits(w, s[1], s[2])}
            \cup {s \in left \X left : s[1] < s[2] /\ (s[1] + 1 .. s[2] - 1) \cap left = {}}
            \cup {<<k, k>> : k \in {b \in left : \A m \in left : b <= m}}

TextOf(text, stretches) == {SubSeq(text, s[1], s[2] + 1) : s \in stretches}

\* No two pairs of the text weigh the same, and none weighs nothing.
Untied(text, weight) ==
    LET w == PairWeights(text, weight)
    IN  \A k \in DOMAIN w : w[k] > 0 /\ \A m \in (DOMAIN w) \ {k} : w[k] # w[m]

SparseGrams(text, weight) == TextOf(text, AllStretches(PairWeights(text, weight)))
CoveringGrams(text, weight) == TextOf(text, Covering(PairWeights(text, weight)))
=============================================================================
