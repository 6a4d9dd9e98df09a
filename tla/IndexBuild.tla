---------------------------- MODULE IndexBuild ----------------------------
(***************************************************************************)
(* `qndx index`: the build pipeline of qndx-index/src/builder.rs and the   *)
(* three files it leaves in the index directory, while the files it reads  *)
(* are edited and while the process may die.                               *)
(*                                                                         *)
(* A build walks the directory, reads the discovered files in parallel,    *)
(* merges the results and writes ngrams.tbl, postings.dat, manifest.bin,   *)
(* in that order.  Each file is created in place (which empties it) and    *)
(* then filled; there is no temporary file, no rename and no lock.         *)
(***************************************************************************)
EXTENDS Corpus

CONSTANTS
    Unreadable, \* paths that can be discovered but not read
    MaxEdits,   \* bound on the edits of the working tree
    MaxBuilds,  \* bound on the builds started
    MaxFaults   \* bound on crashes, write errors and lost flushes

ASSUME UnreadableAssumption == Unreadable \subseteq Paths
ASSUME BoundsAssumption == {MaxEdits, MaxBuilds, MaxFaults} \subseteq Nat

VARIABLES
    worktree,   \* the files of the indexed directory
    disk,       \* the index directory
    pc,         \* the stage of the builder
    target,     \* the index file being written
    pending,    \* discovered files no worker has read yet
    discovered, \* the result of the walk
    got,        \* what the workers read, Absent where nothing was extracted
    inverted,   \* the merged index
    edits, builds, faults

treeVars  == <<worktree, edits>>
buildVars == <<disk, pc, target, pending, discovered, got, inverted, builds, faults>>
vars      == <<treeVars, buildVars>>

Targets == {"ngrams", "postings", "manifest"}
Stages  == {"idle", "read", "create", "fill"}

(* An index file.  `gen` is the number of the build that wrote it and      *)
(* `lost` the files this build discovered and dropped: history that the    *)
(* properties use and no reader sees.                                      *)
Missing == [state |-> "missing"]
Legacy  == [state |-> "legacy"]     \* of an earlier format, which readers reject
Torn    == [state |-> "torn"]       \* empty or partial: header or checksum do not fit
Broken  == {Missing, Legacy, Torn}

Lists     == [Grams -> SUBSET Nat]
Postings  == [state : {"complete"}, gen : Nat, lists : Lists]
Manifests == [state : {"complete"}, gen : Nat, source : Trees, lost : SUBSET Paths]
Complete(file) == file.state = "complete"

NoTree  == [p \in Paths |-> Absent]
NoLists == [g \in Grams |-> {}]

Init ==
    /\ worktree \in Trees
    /\ \E old \in {Missing, Legacy} : disk = [f \in Targets |-> old]
    /\ pc = "idle" /\ target = "ngrams"
    /\ pending = {} /\ discovered = {} /\ got = NoTree /\ inverted = NoLists
    /\ edits = 0 /\ builds = 0 /\ faults = 0

-----------------------------------------------------------------------------
(* The environment.                                                        *)

\* Somebody writes, creates or deletes a file.
Edit(p, c) ==
    /\ edits < MaxEdits
    /\ worktree[p] # c
    /\ worktree' = [worktree EXCEPT ![p] = c]
    /\ edits' = edits + 1
    /\ UNCHANGED buildVars

-----------------------------------------------------------------------------
(* The command.                                                            *)

IndexExists == \A f \in Targets : disk[f] # Missing
IndexOpens  == \A f \in Targets : Complete(disk[f])

\* A build runs when --full is given or a file of the index is missing, and
\* otherwise when the existing index opens (with an index that does not, the
\* command ends with an error and changes nothing).
MayBuild(full) == full \/ ~IndexExists \/ IndexOpens

\* Fault: the results of the previous build are not cleared.
StartBuildUncleared(full) ==
    /\ pc = "idle" /\ builds < MaxBuilds /\ MayBuild(full)
    /\ discovered' = Present(worktree) /\ pending' = Present(worktree)
    /\ builds' = builds + 1 /\ pc' = "read"
    /\ UNCHANGED <<treeVars, disk, target, got, inverted, faults>>

\* create_dir_all, then the walk.
StartBuild(full) ==
    /\ pc = "idle"
    /\ builds < MaxBuilds
    /\ MayBuild(full)
    /\ discovered' = Present(worktree)
    /\ pending' = Present(worktree)
    /\ got' = NoTree
    /\ builds' = builds + 1
    /\ pc' = "read"
    /\ UNCHANGED <<treeVars, disk, target, inverted, faults>>

-----------------------------------------------------------------------------
(* extract_ngrams_parallel: the workers take the files in any order.       *)

\* std::fs::read succeeds and the n-grams are extracted.
ReadFile(p) ==
    /\ pc = "read" /\ p \in pending
    /\ worktree[p] # Absent /\ p \notin Unreadable
    /\ got' = [got EXCEPT ![p] = worktree[p]]
    /\ pending' = pending \ {p}
    /\ UNCHANGED <<treeVars, disk, pc, target, discovered, inverted, builds, faults>>

\* std::fs::read fails: the file drops out of the results without an error.
SkipFile(p) ==
    /\ pc = "read" /\ p \in pending
    /\ worktree[p] = Absent \/ p \in Unreadable
    /\ pending' = pending \ {p}
    /\ UNCHANGED <<treeVars, disk, pc, target, discovered, got, inverted, builds, faults>>

\* The sequential merge.  A posting carries the place of its file in the
\* walk; the manifest will list the files that were read.
Merge ==
    /\ pc = "read" /\ pending = {}
    /\ inverted' = Inverted(discovered, got)
    /\ pc' = "create" /\ target' = "ngrams"
    /\ UNCHANGED <<treeVars, disk, pending, discovered, got, builds, faults>>

-----------------------------------------------------------------------------
(* Serialisation, one file after the other.                                *)

\* Fault: every file gets the posting lists.
PayloadMisrouted == [state |-> "complete", gen |-> builds, lists |-> inverted]

Payload ==
    IF target = "manifest"
    THEN [state |-> "complete", gen |-> builds, source |-> got,
          lost |-> discovered \ Present(got)]
    ELSE [state |-> "complete", gen |-> builds, lists |-> inverted]

\* The order of the writes.
Following == [ngrams |-> "postings", postings |-> "manifest", manifest |-> "ngrams"][target]

\* Fault: the manifest is written before the postings.
AdvanceManifestEarly ==
    /\ pc' = IF target = "postings" THEN "idle" ELSE "create"
    /\ target' = [ngrams |-> "manifest", manifest |-> "postings", postings |-> "ngrams"][target]
    /\ UNCHANGED <<treeVars, pending, discovered, got, inverted, builds>>

Advance ==
    /\ pc' = IF target = "manifest" THEN "idle" ELSE "create"
    /\ target' = Following
    /\ UNCHANGED <<treeVars, pending, discovered, got, inverted, builds>>

\* Fault: a manifest that is already complete is kept.
CreateFileKeepingManifest ==
    /\ pc = "create"
    /\ IF target = "manifest" /\ Complete(disk[target])
       THEN pc' = "idle" /\ UNCHANGED disk
       ELSE pc' = "fill" /\ disk' = [disk EXCEPT ![target] = Torn]
    /\ UNCHANGED <<treeVars, target, pending, discovered, got, inverted, builds, faults>>

\* File::create: the file exists and is empty.
CreateFile ==
    /\ pc = "create"
    /\ disk' = [disk EXCEPT ![target] = Torn]
    /\ pc' = "fill"
    /\ UNCHANGED <<treeVars, target, pending, discovered, got, inverted, builds, faults>>

\* write_with_header, and the flush when the BufWriter goes out of scope.
FillFile ==
    /\ pc = "fill"
    /\ disk' = [disk EXCEPT ![target] = Payload]
    /\ Advance
    /\ UNCHANGED faults

\* That flush fails: a BufWriter that is dropped reports no error, so the
\* build goes on with a partial file behind it.
LoseFlush ==
    /\ pc = "fill"
    /\ faults < MaxFaults
    /\ faults' = faults + 1
    /\ Advance
    /\ UNCHANGED disk

\* The process dies, or a write returns an error and the build ends early.
\* What it has put into the index directory stays there.
Abort ==
    /\ pc # "idle"
    /\ faults < MaxFaults
    /\ faults' = faults + 1
    /\ pc' = "idle" /\ target' = "ngrams" /\ pending' = {}
    /\ UNCHANGED <<treeVars, disk, discovered, got, inverted, builds>>

-----------------------------------------------------------------------------
BuildStep ==
    \/ \E p \in Paths : ReadFile(p) \/ SkipFile(p)
    \/ Merge
    \/ CreateFile
    \/ FillFile

Next ==
    \/ \E p \in Paths, c \in Contents \cup {Absent} : Edit(p, c)
    \/ \E full \in BOOLEAN : StartBuild(full)
    \/ BuildStep
    \/ LoseFlush
    \/ Abort

Spec == Init /\ [][Next]_vars /\ WF_vars(BuildStep)

-----------------------------------------------------------------------------
(* Properties.                                                             *)

TypeOK ==
    /\ worktree \in Trees
    /\ disk \in [Targets -> Broken \cup Postings \cup Manifests]
    /\ disk["ngrams"] \in Broken \cup Postings
    /\ disk["postings"] \in Broken \cup Postings
    /\ disk["manifest"] \in Broken \cup Manifests
    /\ pc \in Stages /\ target \in Targets
    /\ pending \subseteq discovered /\ discovered \subseteq Paths
    /\ got \in Trees /\ inverted \in Lists
    /\ {edits, builds, faults} \subseteq Nat

\* The files of an index directory, or the parts a reader opened, come from
\* one build.
OneBuild(parts) ==
    /\ \A f \in Targets : Complete(parts[f])
    /\ \A f \in Targets : parts[f].gen = parts["manifest"].gen

\* Ids resolve to the files their n-grams were extracted from.
IdsResolve(parts) ==
    LET source == parts["manifest"].source
    IN  \A g \in Grams :
            FilePaths(Present(source), parts["postings"].lists[g])
                = {p \in Present(source) : g \in GramsOf[source[p]]}

\* The three files of one build agree: the n-gram table is the table of these
\* postings, and, if the build could read every file it had discovered, the
\* posting lists are those of the files the manifest lists.
BuildsAgree ==
    OneBuild(disk) =>
        /\ disk["ngrams"].lists = disk["postings"].lists
        /\ disk["manifest"].lost = {} => IdsResolve(disk)

\* The manifest is written last: no complete file is older than a complete
\* file written after it, whatever crashes there were.  A mixed index is
\* therefore always a new n-gram table or new postings with an old manifest.
ManifestIsLast ==
    /\ Complete(disk["ngrams"]) /\ Complete(disk["postings"]) =>
          disk["ngrams"].gen >= disk["postings"].gen
    /\ Complete(disk["postings"]) /\ Complete(disk["manifest"]) =>
          disk["postings"].gen >= disk["manifest"].gen

\* file-format.md: "the `files` vector maps FileId to relative file paths".
\* Read without the proviso that every discovered file could be read.
FileIdsMapToPaths == OneBuild(disk) => IdsResolve(disk)

\* A build that meets no fault ends with an index that opens and is wholly
\* its own, in whatever state an earlier crash had left the directory.
BuildRepairs ==
    \A n \in 0 .. MaxFaults :
        (pc = "read" /\ faults = n)
            ~> (faults > n \/ (pc = "idle" /\ OneBuild(disk) /\ disk["manifest"].gen = builds))

-----------------------------------------------------------------------------
(* What all of this implements.                                            *)

\* What a reader gets that opens the three files as they are: an error unless
\* all pass their checks, the posting lists over the manifest's list of files
\* if the n-gram table is that of these postings, and anything otherwise,
\* since offsets then point anywhere.  Nothing else is compared by anybody.
Answers ==
    LET files == Present(disk["manifest"].source)
    IN  IF ~IndexOpens THEN {}
        ELSE IF disk["ngrams"].lists = disk["postings"].lists
        THEN {[g \in Grams |-> FilePaths(files, disk["postings"].lists[g])]}
        ELSE [Grams -> SUBSET files]

Listing ==
    IF Complete(disk["manifest"]) THEN {Present(disk["manifest"].source)} ELSE {}

Published == INSTANCE PublishedIndex
    WITH walked <- discovered, draft <- got, listing <- Listing, answers <- Answers

\* Three files written in place, one after the other, by a builder that may
\* die anywhere: what readers get are the states of PublishedIndex, the mixed
\* and the shifted ones included, and no others (builder.rs, reader.rs).
ImplementsPublishedIndex == Published!Spec
=============================================================================
