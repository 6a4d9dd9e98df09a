------------------------------ MODULE Corpus ------------------------------
(***************************************************************************)
(* The data every part of qndx shares: the files of a directory, the       *)
(* n-grams of a file, the files a regex matches, and the query plan the    *)
(* planner makes of a regex, together with the two computations that turn  *)
(* them into an index and, in CandidateSets, into candidates.              *)
(*                                                                         *)
(* A path is the number of its place in the byte order of relative paths   *)
(* (qndx-core/src/walk.rs sorts the walk by it), so "sorted by path" is    *)
(* the order of the numbers.  Contents, n-grams and queries are opaque.    *)
(***************************************************************************)
EXTENDS Integers, FiniteSets, CandidateSets

CONSTANTS
    Paths,      \* the paths a walk may discover, numbered in walk order
    Contents,   \* the contents a file may have
    Absent,     \* "there is no file at this path"
    Grams,      \* n-gram hashes, trigrams and sparse n-grams alike
    GramsOf,    \* content -> the n-grams the builder extracts from it
    Queries,    \* the regexes searched for
    Hits,       \* query -> the contents its regex matches
    Plan        \* query -> the plan the planner selects for it

\* A content passes the filter of a plan when it has every required n-gram
\* and, if there are alternatives, every n-gram of one of them.
Passes(plan, grams) ==
    /\ plan.required \subseteq grams
    /\ plan.alternatives # {} => \E alt \in plan.alternatives : alt \subseteq grams

ASSUME PathsAssumption   == Paths \subseteq Nat /\ IsFiniteSet(Paths)
ASSUME AbsentAssumption  == Absent \notin Contents
ASSUME GramsAssumption   == GramsOf \in [Contents -> SUBSET Grams]
ASSUME QueriesAssumption == Hits \in [Queries -> SUBSET Contents]
ASSUME PlanAssumption    ==
    Plan \in [Queries -> [required : SUBSET Grams, alternatives : SUBSET SUBSET Grams]]
\* What the planner owes the index: a content that matches passes the filter.
\* The modules on n-grams and decomposition ask which regexes it holds for.
ASSUME PlanSound ==
    \A q \in Queries : \A c \in Hits[q] : Passes(Plan[q], GramsOf[c])

\* A working tree: what is at every path.
Trees == [Paths -> Contents \cup {Absent}]
Present(tree) == {p \in Paths : tree[p] # Absent}

-----------------------------------------------------------------------------
(* The inverted index.                                                     *)

\* The FileId of p among the paths of D: its index in the sorted list of D.
Fid(D, p) == Cardinality({r \in D : r < p})

\* Posting lists of the files of `source`, identified by their place in D.
Inverted(D, source) ==
    [g \in Grams |-> {Fid(D, p) : p \in {r \in Present(source) : g \in GramsOf[source[r]]}}]

-----------------------------------------------------------------------------
\* The paths a set of ids stands for in the file list of a manifest.  An id
\* past its end has no path and is passed over.
FilePaths(files, ids) == {p \in files : Fid(files, p) \in ids}
=============================================================================
