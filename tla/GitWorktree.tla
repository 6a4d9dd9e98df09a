---------------------------- MODULE GitWorktree ----------------------------
(***************************************************************************)
(* A git repository as qndx-git sees it: three trees (HEAD, the git index, *)
(* the working tree), what people do to them, and what the git commands    *)
(* that qndx-git runs print about them, as its parsers read it.            *)
(*                                                                         *)
(* A commit is identified with its tree: qndx only ever compares trees.    *)
(* git itself is outside the repository and modelled from how it is used.  *)
(***************************************************************************)
EXTENDS Corpus, Sequences

CONSTANTS
    MaxMoves    \* bound on what people do to the repository

ASSUME GitAssumption == MaxMoves \in Nat

VARIABLES
    head, staged, worktree,
    conflicts,  \* paths that a merge left changed on one side, deleted on the other
    moves

gitVars == <<head, staged, worktree, conflicts, moves>>

GitTypeOK == {head, staged, worktree} \subseteq Trees /\ conflicts \subseteq Paths /\ moves \in Nat

-----------------------------------------------------------------------------
(* The people.                                                             *)

Move == moves < MaxMoves /\ moves' = moves + 1

\* A file is written, created, deleted or put back.
Edit(p, c) ==
    /\ Move
    /\ worktree[p] # c
    /\ worktree' = [worktree EXCEPT ![p] = c]
    /\ UNCHANGED <<head, staged, conflicts>>

\* git add, git rm --cached: they also resolve a conflict.
Stage(p, c) ==
    /\ Move
    /\ c \in {worktree[p], Absent} /\ (staged[p] # c \/ p \in conflicts)
    /\ staged' = [staged EXCEPT ![p] = c]
    /\ conflicts' = conflicts \ {p}
    /\ UNCHANGED <<head, worktree>>

\* git commit
Commit ==
    /\ Move
    /\ head # staged /\ conflicts = {}
    /\ head' = staged
    /\ UNCHANGED <<staged, worktree, conflicts>>

\* git checkout of another commit, nothing being modified or untracked.
Checkout(tree) ==
    /\ Move
    /\ head = staged /\ staged = worktree /\ conflicts = {} /\ tree # head
    /\ head' = tree /\ staged' = tree /\ worktree' = tree
    /\ UNCHANGED conflicts

Repository ==
    \/ \E p \in Paths, c \in Contents \cup {Absent} : Edit(p, c) \/ Stage(p, c)
    \/ Commit
    \/ \E tree \in Trees : Checkout(tree)

-----------------------------------------------------------------------------
(* git diff --name-status <base>, git ls-files --others.                   *)

Tracked   == Present(staged)
Untracked == Present(worktree) \ Tracked

\* Fault: only the files of the base are compared.
DiffNamesOfBase(base) == {p \in Present(base) : worktree[p] # base[p]}

\* git_diff_name_status: a tracked file that differs from the base, or a file
\* of the base that is no longer tracked, whether or not it is still there.
DiffNames(base) ==
    {p \in Tracked : worktree[p] # base[p]} \cup (Present(base) \ Tracked)

-----------------------------------------------------------------------------
(* git status --porcelain: HEAD against the git index, the git index       *)
(* against the working tree, and untracked files.                          *)

\* Fault: untracked files are left out.
StatusOfIgnoringUntracked(p) ==
    IF staged[p] = Absent THEN (IF head[p] # Absent THEN <<"Deleted">> ELSE <<>>)
    ELSE IF worktree[p] = Absent THEN <<"Deleted">>
    ELSE IF staged[p] # head[p] \/ worktree[p] # staged[p] THEN <<"Modified">>
    ELSE <<>>

\* What the lines of p become in parse_status_porcelain.  A two-letter code
\* with a D is a deletion: also "UD" and "DU", where the file is there.  A
\* file dropped from the git index alone has two lines, "D " and "??".
StatusOf(p) ==
    IF p \in conflicts THEN <<"Deleted">>
    ELSE IF staged[p] = Absent
    THEN (IF head[p] # Absent THEN <<"Deleted">> ELSE <<>>)
            \o (IF worktree[p] # Absent THEN <<"Added">> ELSE <<>>)
    ELSE IF worktree[p] = Absent THEN <<"Deleted">>
    ELSE IF head[p] = Absent THEN <<"Added">>
    ELSE IF staged[p] # head[p] \/ worktree[p] # staged[p] THEN <<"Modified">>
    ELSE <<>>
=============================================================================
