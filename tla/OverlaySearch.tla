--------------------------- MODULE OverlaySearch ---------------------------
(***************************************************************************)
(* Search with the freshness overlay (index_search_with_overlay of         *)
(* qndx-query/src/search.rs): git status, the overlay built from it one    *)
(* dirty file at a time, the candidates of the baseline index and of the   *)
(* overlay, and their verification, while people work on the repository.   *)
(***************************************************************************)
EXTENDS GitWorktree, Overlay

CONSTANTS
    Conflicting,    \* paths that a merge may have left in conflict
    Quotable        \* paths that git may have to quote: blanks, non-ASCII characters

ASSUME OverlaySearchAssumption ==
    Conflicting \subseteq Paths /\ Quotable \subseteq Paths /\ Queries # {}

VARIABLES
    baseline,   \* the tree the index was built from
    quoted,     \* paths whose names git status quotes ("my file.txt")
    stage,      \* the stage of the search
    query,
    entries,    \* path -> its lines of git status not yet in the overlay
    overlay,
    jobs,       \* candidates still to be verified
    reports,    \* candidates with matches
    content,    \* history: what the overlay has to hold (see Mirrors)
    listed,     \* history: the paths git status reported
    touched     \* history: paths that moved since git status was read

searchVars == <<baseline, quoted, stage, query, entries, overlay, jobs, reports, content, listed>>
allVars    == <<gitVars, searchVars, touched>>

Nothing   == [p \in Paths |-> Absent]
NoEntries == [p \in Paths |-> <<>>]

\* A candidate: a path of the baseline, by the order of its ids, or an id of
\* the overlay.  The baseline's (FALSE in the code's pairs) come first.
Job == [overlaid : BOOLEAN, at : Nat]
PathOf(job) == IF job.overlaid THEN overlay.files[job.at + 1] ELSE job.at
Before(i, j) == IF i.overlaid = j.overlaid THEN i.at < j.at ELSE j.overlaid

Init ==
    /\ head \in Trees /\ staged \in Trees /\ worktree \in Trees /\ moves = 0
    /\ baseline \in Trees /\ quoted \in SUBSET Quotable
    /\ conflicts \in SUBSET Conflicting
    /\ \A p \in conflicts : staged[p] = head[p] /\ worktree[p] # Absent
    /\ query \in Queries
    /\ stage = "status" /\ entries = NoEntries /\ overlay = NoneOverlaid
    /\ jobs = {} /\ reports = {}
    /\ content = Nothing /\ listed = {} /\ touched = {}

-----------------------------------------------------------------------------
\* detect_dirty_files: the report is sorted by path, and the lines of one
\* path keep the order in which git prints them.
ReadStatus ==
    /\ stage = "status"
    /\ entries' = [p \in Paths |-> StatusOf(p)]
    /\ listed' = {p \in Paths : StatusOf(p) # <<>>}
    /\ stage' = "overlay"
    /\ UNCHANGED <<gitVars, baseline, quoted, query, overlay, jobs, reports, content, touched>>

(* from_dirty_files.  A name that git has quoted is no file of this tree.  *)

EntryOf(p) ==
    /\ stage = "overlay"
    /\ entries[p] # <<>> /\ \A r \in Paths : r < p => entries[r] = <<>>
    /\ entries' = [entries EXCEPT ![p] = Tail(@)]
    /\ UNCHANGED <<gitVars, baseline, quoted, stage, query, jobs, reports, listed, touched>>

DeletedEntry(p) ==
    /\ EntryOf(p)
    /\ Head(entries[p]) = "Deleted" /\ p \notin quoted
    /\ overlay' = MarkDeleted(overlay, p)
    /\ content' = [content EXCEPT ![p] = Absent]

ReadEntry(p) ==
    /\ EntryOf(p)
    /\ Head(entries[p]) # "Deleted" /\ p \notin quoted /\ worktree[p] # Absent
    /\ overlay' = AddFile(overlay, p, worktree[p])
    /\ content' = [content EXCEPT ![p] = worktree[p]]

UnreadEntry(p) ==
    /\ EntryOf(p)
    /\ p \in quoted \/ (Head(entries[p]) # "Deleted" /\ worktree[p] = Absent)
    /\ UNCHANGED <<overlay, content>>

-----------------------------------------------------------------------------
BaselineCandidates ==
    LET files == Present(baseline)
    IN  FilePaths(files, Candidates(Inverted(files, baseline), Cardinality(files), Plan[query]))

\* Baseline candidates that are not marked deleted, and the overlay's.
Jobs ==
    {[overlaid |-> FALSE, at |-> p] : p \in BaselineCandidates \ overlay.deleted}
        \cup {[overlaid |-> TRUE, at |-> id] : id \in OverlayCandidates(overlay, Plan[query])}

Resolve ==
    /\ stage = "overlay" /\ entries = NoEntries
    /\ jobs' = Jobs
    /\ stage' = "verify"
    /\ UNCHANGED <<gitVars, baseline, quoted, query, entries, overlay, reports, content, listed, touched>>

\* Fault: a candidate of the index counts as a match.
VerifyOverlaidOnly(job) ==
    /\ stage = "verify"
    /\ job \in jobs /\ \A other \in jobs \ {job} : Before(job, other)
    /\ jobs' = jobs \ {job}
    /\ reports' = IF ~job.overlaid \/ worktree[PathOf(job)] \in Hits[query]
                  THEN reports \cup {job} ELSE reports
    /\ UNCHANGED <<gitVars, baseline, quoted, stage, query, entries, overlay, content, listed, touched>>

\* Fault: a file that cannot be read is tried again.
VerifyRetrying(job) ==
    /\ stage = "verify"
    /\ job \in jobs /\ \A other \in jobs \ {job} : Before(job, other)
    /\ jobs' = IF worktree[PathOf(job)] = Absent THEN jobs ELSE jobs \ {job}
    /\ reports' = IF worktree[PathOf(job)] \in Hits[query]
                  THEN reports \cup {job} ELSE reports
    /\ UNCHANGED <<gitVars, baseline, quoted, stage, query, entries, overlay, content, listed, touched>>

\* The file is read again and the regex run over it.
Verify(job) ==
    /\ stage = "verify"
    /\ job \in jobs /\ \A other \in jobs \ {job} : Before(job, other)
    /\ jobs' = jobs \ {job}
    /\ reports' = IF worktree[PathOf(job)] \in Hits[query]
                  THEN reports \cup {job} ELSE reports
    /\ UNCHANGED <<gitVars, baseline, quoted, stage, query, entries, overlay, content, listed, touched>>

Finish ==
    /\ stage = "verify" /\ jobs = {}
    /\ stage' = "done"
    /\ UNCHANGED <<gitVars, baseline, quoted, query, entries, overlay, jobs, reports, content, listed, touched>>

SearchStep ==
    \/ ReadStatus
    \/ \E p \in Paths : DeletedEntry(p) \/ ReadEntry(p) \/ UnreadEntry(p)
    \/ Resolve
    \/ \E job \in jobs : Verify(job)
    \/ Finish

Git(p)   == <<head[p], staged[p], worktree[p], p \in conflicts>>
Moved(p) == Git(p)' # Git(p)

Next ==
    \/ /\ stage # "done" /\ Repository
       /\ touched' = IF stage = "status" THEN {} ELSE touched \cup {p \in Paths : Moved(p)}
       /\ UNCHANGED searchVars
    \/ SearchStep

Spec == Init /\ [][Next]_allVars /\ WF_allVars(SearchStep)

-----------------------------------------------------------------------------
(* Properties.                                                             *)

TypeOK ==
    /\ GitTypeOK /\ baseline \in Trees /\ quoted \subseteq Paths /\ query \in Queries
    /\ stage \in {"status", "overlay", "verify", "done"}
    /\ entries \in [Paths -> Seq({"Added", "Modified", "Deleted"})]
    /\ IsOverlay(overlay)
    /\ jobs \subseteq Job /\ reports \subseteq Job
    /\ content \in Trees /\ listed \subseteq Paths /\ touched \subseteq Paths

\* The overlay holds the n-grams of the contents that were read and nothing
\* else, also for a path that git reports twice (removed from its index and
\* untracked), and no such path is hidden as deleted.
OverlayMirrorsReads == Mirrors(overlay, content)

Found == {PathOf(job) : job \in reports}
Reported(p) == worktree[p] \in Hits[query] => p \in Found

\* Read your writes: a file is searched as it is now if git status reports it
\* or if it is still what the index holds, unless it moved during the search
\* or git reports it as deleted though it is there.  A write to a file whose
\* name git quotes is not read, but the file is not lost for that.
ReadYourWrites ==
    stage = "done" =>
        \A p \in Paths \ (touched \cup conflicts) :
            p \in listed \ quoted \/ baseline[p] = worktree[p] => Reported(p)

\* Only matches are reported, whichever side proposed the file: nothing that
\* the baseline alone remembers survives.
OnlyMatches ==
    \A p \in Found \ touched : worktree[p] \in Hits[query]

\* Every search comes to an end.
SearchEnds == <>(stage = "done")
=============================================================================
