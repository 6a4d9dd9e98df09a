---------------------------- MODULE UpdateIndex ----------------------------
(***************************************************************************)
(* `qndx index` on a git repository: when does it skip the build?          *)
(*                                                                         *)
(* The command (qndx-cli/src/main.rs) takes HEAD for the new manifest and, *)
(* if there is an index and --full is not given, compares the repository   *)
(* with the base commit of the old manifest (update_index_from_dir): with  *)
(* no change it reports "up to date", else it rebuilds.  The build itself  *)
(* is one step here; IndexBuild opens it up.                               *)
(***************************************************************************)
EXTENDS GitWorktree

CONSTANTS
    NoCommit,    \* the base commit of an index built outside git
    NoIndex,     \* there is no index
    MaxCommands  \* bound on the runs of the command

ASSUME UpdateAssumption ==
    NoCommit \notin Trees /\ MaxCommands \in Nat

Indexes == [source : Trees, base : Trees \cup {NoCommit}]
ASSUME NoIndexAssumption == NoIndex \notin Indexes

VARIABLES
    index,      \* the index: the tree it was built from and its base commit
    ipc,        \* the stage of the command
    newBase,    \* HEAD as the command found it
    changes,    \* the changes found so far
    commands,
    moved,      \* history: the repository moved since the command began
    disciplined \* never changes: TRUE when the command is run only on a clean
                \* tree that nobody moves meanwhile

commandVars == <<index, ipc, newBase, changes, commands>>
history     == <<moved, disciplined>>
updateVars  == <<gitVars, commandVars, history>>

Running == ipc \in {"diff", "untracked", "build"}
Clean   == head = staged /\ staged = worktree

Init ==
    /\ head \in Trees /\ staged = head /\ worktree = head /\ conflicts = {} /\ moves = 0
    /\ index = NoIndex /\ ipc = "idle" /\ newBase = NoCommit
    /\ changes = {} /\ commands = 0 /\ moved = FALSE /\ disciplined \in BOOLEAN

-----------------------------------------------------------------------------
\* Fault: the files of the index are not looked for.
BeginUnchecked(full) ==
    /\ ~Running /\ commands < MaxCommands
    /\ disciplined => Clean
    /\ commands' = commands + 1
    /\ newBase' \in {head, NoCommit}
    /\ ipc' = IF full THEN "build" ELSE "diff"
    /\ changes' = {} /\ moved' = FALSE
    /\ UNCHANGED <<gitVars, index, disciplined>>

\* head_commit(..).ok() is None outside a repository or without a commit.
Begin(full) ==
    /\ ~Running
    /\ commands < MaxCommands
    /\ disciplined => Clean
    /\ commands' = commands + 1
    /\ newBase' \in {head, NoCommit}
    /\ ipc' = IF full \/ index = NoIndex THEN "build" ELSE "diff"
    /\ changes' = {} /\ moved' = FALSE
    /\ UNCHANGED <<gitVars, index, disciplined>>

\* There is no base commit, no repository, or the commit is gone; or one of
\* the two git commands fails.
CannotCompare ==
    /\ ipc \in {"diff", "untracked"}
    /\ ipc' = "build"
    /\ UNCHANGED <<gitVars, index, newBase, changes, commands, history>>

CompareTracked ==
    /\ ipc = "diff" /\ index.base # NoCommit
    /\ changes' = DiffNames(index.base)
    /\ ipc' = "untracked"
    /\ UNCHANGED <<gitVars, index, newBase, commands, history>>

\* Fault: untracked files are no changes.
ListNothing ==
    /\ ipc = "untracked"
    /\ ipc' = IF changes = {} THEN "uptodate" ELSE "build"
    /\ UNCHANGED <<gitVars, index, newBase, changes, commands, history>>

ListUntracked ==
    /\ ipc = "untracked"
    /\ changes' = changes \cup Untracked
    /\ ipc' = IF changes' = {} THEN "uptodate" ELSE "build"
    /\ UNCHANGED <<gitVars, index, newBase, commands, history>>

\* Fault: the manifest keeps the base commit of the index it replaces.
BuildOnOldBase ==
    /\ ipc = "build"
    /\ index' = [source |-> worktree, base |-> IF index = NoIndex THEN newBase ELSE index.base]
    /\ ipc' = "built"
    /\ UNCHANGED <<gitVars, newBase, changes, commands, history>>

Build ==
    /\ ipc = "build"
    /\ index' = [source |-> worktree, base |-> newBase]
    /\ ipc' = "built"
    /\ UNCHANGED <<gitVars, newBase, changes, commands, history>>

CommandStep == CannotCompare \/ CompareTracked \/ ListUntracked \/ Build

Next ==
    \/ /\ Repository /\ (disciplined => ~Running)
       /\ moved' = TRUE
       /\ UNCHANGED <<commandVars, disciplined>>
    \/ \E full \in BOOLEAN : Begin(full)
    \/ CommandStep

Spec == Init /\ [][Next]_updateVars /\ WF_updateVars(CommandStep)

-----------------------------------------------------------------------------
(* Properties.                                                             *)

TypeOK ==
    /\ GitTypeOK
    /\ index \in Indexes \cup {NoIndex}
    /\ ipc \in {"idle", "diff", "untracked", "build", "uptodate", "built"}
    /\ newBase \in Trees \cup {NoCommit}
    /\ changes \subseteq Paths /\ commands \in Nat
    /\ moved \in BOOLEAN /\ disciplined \in BOOLEAN
    /\ ipc \in {"diff", "untracked"} => index # NoIndex

\* The index was built from the very tree its base commit stands for.
Honest == index # NoIndex /\ index.base # NoCommit => index.source = index.base

Ended == ipc \in {"uptodate", "built"}

\* When a command ends and nobody touched the repository meanwhile, the index
\* is that of the working tree, provided the index it found was honest: what
\* the two git commands leave out of their lists is nothing.
HonestIndexEndsFresh == Ended /\ ~moved /\ Honest => index.source = worktree

\* When commands run on a clean and quiet repository only, every index is the
\* one of its base commit, whatever was edited and committed in between.
AlwaysHonest == disciplined => Honest

\* No sequence of commands, edits, commits and checkouts ends with a stale
\* index then, whether the last command has built it or skipped the build.
EndsFresh == disciplined /\ Ended /\ ~moved => index.source = worktree
=============================================================================
