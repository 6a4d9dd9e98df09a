---------------------------- MODULE IndexSearch ----------------------------
(***************************************************************************)
(* `qndx search` over the index that IndexBuild writes: the reader of      *)
(* qndx-index/src/reader.rs and the candidate and verification steps of    *)
(* qndx-query/src/search.rs, or the full scan of qndx-core/src/scan.rs     *)
(* when there is no index.  The search runs in another process than the    *)
(* build and shares the directory and the index files with it.             *)
(***************************************************************************)
EXTENDS IndexBuild

CONSTANTS
    MaxSearches \* bound on the searches started

ASSUME SearchAssumption ==
    MaxSearches \in Nat /\ Queries # {}

VARIABLES
    spc,        \* the stage of the search
    query,
    view,       \* what the reader has opened: two mappings and the manifest
    todo,       \* files still to be read and verified
    found,      \* files with a verified match
    searches,
    touched,    \* history: files edited since the search began
    remapped,   \* history: a mapped file was rewritten before the lookups
    exclusive   \* never changes: TRUE when nobody indexes while a search runs

searchVars == <<spc, query, view, todo, found, searches>>
history    == <<touched, remapped, exclusive>>
allVars    == <<vars, searchVars, history>>

SearchStages == {"idle", "openNgrams", "openPostings", "openManifest",
                 "lookup", "verify", "scan", "done", "failed"}
Mapping == {"openPostings", "openManifest", "lookup"}   \* a file is mapped

NoView == [f \in Targets |-> Missing]

SearchInit ==
    /\ Init
    /\ spc = "idle" /\ query = (CHOOSE q \in Queries : TRUE) /\ view = NoView
    /\ todo = {} /\ found = {} /\ searches = 0
    /\ touched = {} /\ remapped = FALSE /\ exclusive \in BOOLEAN

Searching == spc \notin {"idle", "done", "failed"}

-----------------------------------------------------------------------------
(* Starting: an index is used if its n-gram table exists, unless --scan is *)
(* given.                                                                  *)

\* scan_search: the files of a walk, to be read one after the other.
Scanned == Present(worktree)

StartSearch(q, scan) ==
    /\ ~Searching
    /\ searches < MaxSearches
    /\ exclusive => pc = "idle"
    /\ searches' = searches + 1
    /\ query' = q
    /\ view' = NoView /\ found' = {}
    /\ IF ~scan /\ disk["ngrams"] # Missing
       THEN spc' = "openNgrams" /\ todo' = {}
       ELSE spc' = "scan" /\ todo' = Scanned
    /\ touched' = {} /\ remapped' = FALSE
    /\ UNCHANGED <<vars, exclusive>>

(* IndexReader::open: one file after the other, each with its header and   *)
(* checksum.  The first failure ends the search with an error.             *)

\* Fault: neither header nor checksum is looked at.
OpenUnchecked(stage, f, next) ==
    /\ spc = stage
    /\ view' = [view EXCEPT ![f] = disk[f]] /\ spc' = next
    /\ UNCHANGED <<vars, query, todo, found, searches, history>>

Open(stage, f, next) ==
    /\ spc = stage
    /\ IF Complete(disk[f])
       THEN view' = [view EXCEPT ![f] = disk[f]] /\ spc' = next
       ELSE spc' = "failed" /\ UNCHANGED view
    /\ UNCHANGED <<vars, query, todo, found, searches, history>>

OpenNgrams   == Open("openNgrams", "ngrams", "openPostings")
OpenPostings == Open("openPostings", "postings", "openManifest")
OpenManifest == Open("openManifest", "manifest", "lookup")

-----------------------------------------------------------------------------
(* Candidates.                                                             *)

\* The n-gram table holds an offset and a length into the postings.  With
\* the postings it was written with, a lookup returns the list of the n-gram.
\* With others it decodes whatever is at that place: any list, or none.
\* The mappings see the files as they are now, not as they were validated.
Intact ==
    /\ view["ngrams"].lists = view["postings"].lists
    /\ disk["ngrams"] = view["ngrams"]
    /\ disk["postings"] = view["postings"]

SomeIds == 0 .. Cardinality(Paths)
Lookups == IF Intact THEN {view["postings"].lists}
           ELSE [Grams -> SUBSET SomeIds]

\* resolve_candidates_from_plan, and file_path on every id of the result.
ResolveCandidates ==
    /\ spc = "lookup"
    /\ LET files == Present(view["manifest"].source)
       IN  \E lookup \in Lookups :
              todo' = FilePaths(files, Candidates(lookup, Cardinality(files), Plan[query]))
    /\ spc' = "verify"
    /\ UNCHANGED <<vars, query, view, found, searches, history>>

\* Foreign bytes may also end the process: the pages of a mapped file that
\* shrank are gone (SIGBUS), a list length decoded from them may be absurd.
LookupDies ==
    /\ spc = "lookup" /\ ~Intact
    /\ spc' = "failed"
    /\ UNCHANGED <<vars, query, view, todo, found, searches, history>>

-----------------------------------------------------------------------------
(* Verification: read the file as it is now and run the regex over it.     *)

\* Fault: a candidate counts as a match.
VerifyNothing(p) ==
    /\ spc \in {"verify", "scan"}
    /\ p \in todo /\ \A r \in todo : p <= r
    /\ todo' = todo \ {p} /\ found' = found \cup {p}
    /\ UNCHANGED <<vars, spc, query, view, searches, history>>

\* Fault: the first file that cannot be read ends the loop.
VerifyUntilUnreadable(p) ==
    /\ spc \in {"verify", "scan"}
    /\ p \in todo /\ \A r \in todo : p <= r
    /\ todo' = IF worktree[p] = Absent THEN {} ELSE todo \ {p}
    /\ found' = IF worktree[p] \in Hits[query] /\ p \notin Unreadable
                THEN found \cup {p} ELSE found
    /\ UNCHANGED <<vars, spc, query, view, searches, history>>

\* Fault: a file that cannot be read is tried again.
VerifyRetrying(p) ==
    /\ spc \in {"verify", "scan"}
    /\ p \in todo /\ \A r \in todo : p <= r
    /\ todo' = IF worktree[p] = Absent THEN todo ELSE todo \ {p}
    /\ found' = IF worktree[p] \in Hits[query] THEN found \cup {p} ELSE found
    /\ UNCHANGED <<vars, spc, query, view, searches, history>>

Verify(p) ==
    /\ spc \in {"verify", "scan"}
    /\ p \in todo /\ \A r \in todo : p <= r
    /\ todo' = todo \ {p}
    /\ found' = IF worktree[p] \in Hits[query] /\ p \notin Unreadable
                THEN found \cup {p} ELSE found
    /\ UNCHANGED <<vars, spc, query, view, searches, history>>

Finish ==
    /\ spc \in {"verify", "scan"} /\ todo = {}
    /\ spc' = "done"
    /\ UNCHANGED <<vars, query, view, todo, found, searches, history>>

SearchStep ==
    \/ OpenNgrams \/ OpenPostings \/ OpenManifest
    \/ ResolveCandidates \/ LookupDies
    \/ \E p \in Paths : Verify(p)
    \/ Finish

-----------------------------------------------------------------------------
\* A step of the environment or the builder, and its trace in the history.
Beside ==
    /\ Next
    /\ exclusive /\ Searching => pc' = pc
    /\ touched' = touched \cup {p \in Paths : worktree'[p] # worktree[p]}
    /\ remapped' = (remapped \/ (spc \in Mapping
                                   /\ \E f \in {"ngrams", "postings"} : disk'[f] # disk[f]))
    /\ UNCHANGED <<searchVars, exclusive>>

SearchNext ==
    \/ Beside
    \/ \E q \in Queries, scan \in BOOLEAN : StartSearch(q, scan)
    \/ SearchStep

SearchSpec == SearchInit /\ [][SearchNext]_allVars /\ WF_allVars(SearchStep)

-----------------------------------------------------------------------------
(* Properties.                                                             *)

SearchTypeOK ==
    /\ TypeOK
    /\ spc \in SearchStages /\ query \in Queries
    /\ view \in [Targets -> Broken \cup Postings \cup Manifests]
    /\ view["ngrams"] \in {Missing} \cup Postings
    /\ view["postings"] \in {Missing} \cup Postings
    /\ view["manifest"] \in {Missing} \cup Manifests
    /\ todo \subseteq Paths /\ found \subseteq Paths /\ searches \in Nat
    /\ touched \subseteq Paths /\ remapped \in BOOLEAN /\ exclusive \in BOOLEAN

\* The files a completed search must report: they match, they can be read,
\* nobody touched them during the search, and they are as they were indexed.
MustFind ==
    {p \in Paths \ (touched \cup Unreadable) :
        /\ worktree[p] \in Hits[query]
        /\ worktree[p] = view["manifest"].source[p]}

\* No false negatives: a search that read the index of one build, of which no
\* discovered file had been lost, and whose mappings nobody rewrote before the
\* lookups, reports every file that is unchanged since it was indexed and
\* matches (search.rs: "Returns only verified matches (no false negatives)").
NoFalseNegatives ==
    (spc = "done" /\ OneBuild(view) /\ view["manifest"].lost = {} /\ ~remapped)
        => MustFind \subseteq found

\* No false positives, whatever index was read: a reported file that nobody
\* touched during the search does match.
FoundIsVerified ==
    \A p \in found \ touched : worktree[p] \in Hits[query] /\ p \notin Unreadable

\* Without an index the search is the scan: exactly the matching files.
ScanIsExact ==
    (spc = "done" /\ view = NoView) =>
        found \ touched = {p \in Paths \ (touched \cup Unreadable) : worktree[p] \in Hits[query]}

\* If searches and builds keep apart and no build was cut short, every index
\* a reader accepts is the index of one build, and stays so under its mappings.
ViewOfOneBuild ==
    exclusive /\ faults = 0 /\ spc \in {"lookup", "verify"} => OneBuild(view) /\ ~remapped

\* file-format.md: "the reader never returns silently incorrect results from
\* a corrupted index".  All three files passed their checks, the n-gram table
\* even belongs to the postings, no file was lost, nothing was remapped.
NoSilentLoss ==
    (/\ spc = "done" /\ \A f \in Targets : Complete(view[f])
     /\ view["ngrams"].gen = view["postings"].gen
     /\ view["manifest"].lost = {} /\ ~remapped)
        => MustFind \subseteq found

\* README: the index guarantees no false negatives, whether or not a file
\* went away between the walk and its reading.
GuaranteesNoFalseNegatives ==
    (spc = "done" /\ OneBuild(view) /\ ~remapped) => MustFind \subseteq found

\* Every search comes to an end.
SearchEnds == Searching ~> ~Searching
=============================================================================
