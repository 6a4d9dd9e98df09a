--------------------------- MODULE CandidateSets ---------------------------
(***************************************************************************)
(* What candidate resolution computes, as sets of FileIds: the AND of the  *)
(* posting lists of the required n-grams, and the OR of the ANDs of the    *)
(* alternatives (resolve_candidates_from_plan of qndx-query/src/search.rs  *)
(* over lookup_intersect of qndx-index/src/reader.rs).  `lookup` gives the *)
(* list of an n-gram, n is the number of files.                            *)
(***************************************************************************)
EXTENDS Integers

AllIds(n) == 0 .. n - 1

\* AND of the posting lists of `hashes`; no hash means no filter.
LookupIntersect(lookup, n, hashes) ==
    IF hashes = {} THEN AllIds(n)
    ELSE {id \in UNION {lookup[h] : h \in hashes} : \A h \in hashes : id \in lookup[h]}

\* Fault: the branches of an alternation are ANDed.
LookupAlternativesAnded(lookup, n, alternatives) ==
    {id \in AllIds(n) : \A alt \in alternatives : id \in LookupIntersect(lookup, n, alt)}

\* OR over the branches; a branch without n-grams makes it "all files".
LookupAlternatives(lookup, n, alternatives) ==
    IF {} \in alternatives THEN AllIds(n)
    ELSE UNION {LookupIntersect(lookup, n, alt) : alt \in alternatives}

Candidates(lookup, n, plan) ==
    IF plan.alternatives = {} THEN LookupIntersect(lookup, n, plan.required)
    ELSE IF plan.required = {} THEN LookupAlternatives(lookup, n, plan.alternatives)
    ELSE LookupIntersect(lookup, n, plan.required)
            \cap LookupAlternatives(lookup, n, plan.alternatives)
=============================================================================
