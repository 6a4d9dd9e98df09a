--------------------------- MODULE PublishedIndex ---------------------------
(***************************************************************************)
(* What the index of a directory is to somebody who opens it, without      *)
(* files on disk, stages of a build or history: the answers that lookups   *)
(* may give, as a set.  No answer means that the index is refused, one     *)
(* answer that lookups are determined, several that they may return        *)
(* anything.                                                               *)
(*                                                                         *)
(* A build walks, reads one file after the other into a draft, and gives   *)
(* out new answers in several steps.  The index does not pass from one     *)
(* draft to the next at once: in between it may answer with the posting    *)
(* lists of the new draft over the list of files of an older one, or with  *)
(* anything.  What is promised is that there are no other states, that     *)
(* the index is refused before it answers differently, and that a new list *)
(* of files brings the answers of the draft it lists, or none.             *)
(***************************************************************************)
EXTENDS Corpus

VARIABLES
    worktree,   \* the files of the directory
    walked,     \* the paths the build at hand has discovered
    draft,      \* what it has read of them
    listing,    \* the list of files that ids resolve against: {}, or the only element
    answers     \* the functions from n-grams to paths that lookups may compute

vars == <<worktree, walked, draft, listing, answers>>

Blank   == [p \in Paths |-> Absent]
Refused == {}

\* The paths with the n-gram when the draft was read.
AnswersOf(tree) == [g \in Grams |-> {p \in Present(tree) : g \in GramsOf[tree[p]]}]

\* The paths that posting lists stand for in a list of files.
Resolved(files, lists) == [g \in Grams |-> FilePaths(files, lists[g])]

Init ==
    /\ worktree \in Trees
    /\ walked = {} /\ draft = Blank
    /\ listing = {} /\ answers = Refused

Edit == worktree' \in Trees /\ UNCHANGED <<walked, draft, listing, answers>>

Start ==
    /\ walked' = Present(worktree) /\ draft' = Blank
    /\ UNCHANGED <<worktree, listing, answers>>

Read(p) ==
    /\ p \in walked /\ worktree[p] # Absent
    /\ draft' = [draft EXCEPT ![p] = worktree[p]]
    /\ UNCHANGED <<worktree, walked, listing, answers>>

-----------------------------------------------------------------------------
\* The index is being written, perhaps its list of files too.
Withdraw ==
    /\ answers' = Refused /\ listing' \in {listing, {}}
    /\ UNCHANGED <<worktree, walked, draft>>

\* Only an index that is refused gets new answers.
Give(given) ==
    /\ answers = Refused /\ answers' = given
    /\ UNCHANGED <<worktree, walked, draft>>

\* A new n-gram table over old postings: anything, over the old list of files.
Garble == \E files \in listing : Give([Grams -> SUBSET files]) /\ UNCHANGED listing

\* The posting lists of the draft over the old list of files.
Mix ==
    \E files \in listing :
        Give({Resolved(files, Inverted(walked, draft))}) /\ UNCHANGED listing

\* The index of the whole draft.
Commit ==
    /\ walked = Present(draft)
    /\ Give({AnswersOf(draft)}) /\ listing' = {Present(draft)}

\* A discovered file could not be read: the ids count it, the list of files
\* leaves it out.
CommitShifted ==
    /\ walked # Present(draft)
    /\ Give({Resolved(Present(draft), Inverted(walked, draft))})
    /\ listing' = {Present(draft)}

\* A list of files without an index that opens beside it.
List == Give(Refused) /\ listing' = {Present(draft)}

Next ==
    \/ Edit \/ Start \/ \E p \in Paths : Read(p)
    \/ Withdraw \/ Garble \/ Mix \/ Commit \/ CommitShifted \/ List

Spec == Init /\ [][Next]_vars
=============================================================================
