------------------------- MODULE UpdateIndexProofs -------------------------
(***************************************************************************)
(* Proofs about UpdateIndex: whatever people do to the repository and      *)
(* however often the command is run, a command that nobody disturbs ends   *)
(* with a fresh index if the index it found was honest, and used on clean  *)
(* and quiet trees only it always is.                                      *)
(***************************************************************************)
EXTENDS UpdateIndex, TLAPS

\* People keep trees trees.
LEMMA RepositoryType ==
    ASSUME GitTypeOK, Repository
    PROVE  GitTypeOK'
PROOF
  <1> USE DEF GitTypeOK, Move
  <1>0. MaxMoves \in Nat
    BY GitAssumption
  <1>1. ASSUME NEW p \in Paths, NEW c \in Contents \cup {Absent}, Edit(p, c) PROVE GitTypeOK'
    BY <1>0, <1>1 DEF Edit, Trees
  <1>2. ASSUME NEW p \in Paths, NEW c \in Contents \cup {Absent}, Stage(p, c) PROVE GitTypeOK'
    BY <1>0, <1>2 DEF Stage, Trees
  <1>3. ASSUME Commit PROVE GitTypeOK'
    BY <1>0, <1>3 DEF Commit
  <1>4. ASSUME NEW tree \in Trees, Checkout(tree) PROVE GitTypeOK'
    BY <1>0, <1>4 DEF Checkout
  <1> QED  BY <1>1, <1>2, <1>3, <1>4 DEF Repository

\* The two lists together miss nothing: if both are empty, the working tree
\* is the tree of the base commit.
LEMMA EmptyListsMeanEqual ==
    ASSUME staged \in Trees, worktree \in Trees, NEW base \in Trees,
           DiffNames(base) = {}, Untracked = {}
    PROVE  worktree = base
PROOF
  <1>1. ASSUME NEW p \in Paths PROVE worktree[p] = base[p]
    <2>1. CASE p \in Tracked
      BY <2>1 DEF DiffNames
    <2>2. CASE p \notin Tracked
      <3>1. p \notin Present(base) /\ p \notin Present(worktree)
        BY <2>2 DEF DiffNames, Untracked
      <3> QED  BY <3>1 DEF Present
    <2> QED  BY <2>1, <2>2
  <1> QED  BY <1>1 DEF Trees

\* What the command knows at each stage, while nobody moves the repository.
UpdateInv ==
    /\ TypeOK
    /\ Running /\ ~moved => newBase \in {head, NoCommit}
    /\ ipc \in {"untracked", "uptodate"} => index # NoIndex /\ index.base # NoCommit
    /\ ipc = "untracked" /\ ~moved => changes = DiffNames(index.base)
    /\ ipc = "uptodate" /\ ~moved => DiffNames(index.base) = {} /\ Untracked = {}
    /\ ipc = "built" => index # NoIndex
    /\ ipc = "built" /\ ~moved => index.source = worktree
    /\ disciplined /\ Running => Clean /\ ~moved
    /\ disciplined => Honest

-----------------------------------------------------------------------------
LEMMA UpdateInvInit == Init => UpdateInv
PROOF
  <1> SUFFICES ASSUME Init PROVE UpdateInv
    OBVIOUS
  <1>1. TypeOK
    BY DEF Init, TypeOK, GitTypeOK
  <1> QED
    BY <1>1 DEF Init, UpdateInv, Running, Honest

-----------------------------------------------------------------------------
\* The command.
LEMMA CommandPreserves ==
    ASSUME UpdateInv, CommandStep \/ \E full \in BOOLEAN : Begin(full)
    PROVE  UpdateInv'
PROOF
  <1>a. TypeOK /\ GitTypeOK
    BY DEF UpdateInv, TypeOK
  <1>b. UNCHANGED <<head, staged, worktree, conflicts, moves, disciplined>>
    BY DEF CommandStep, Begin, CannotCompare, CompareTracked, ListUntracked, Build, gitVars, history
  <1>c. GitTypeOK' /\ (Clean' <=> Clean) /\ Untracked' = Untracked
    BY <1>a, <1>b DEF GitTypeOK, Clean, Untracked, Tracked, Present
  <1>d. \A base : DiffNames(base)' = DiffNames(base)
    BY <1>b DEF DiffNames, Tracked, Present
  <1>e. index # NoIndex => index.base \in Trees \cup {NoCommit} /\ index.source \in Trees
    BY <1>a DEF TypeOK, Indexes
  <1>1. ASSUME NEW full \in BOOLEAN, Begin(full) PROVE UpdateInv'
    <2>1. /\ ipc' \in {"build", "diff"} /\ (ipc' = "diff" => index # NoIndex)
          /\ moved' = FALSE /\ newBase' \in {head, NoCommit} /\ changes' = {}
          /\ index' = index /\ (disciplined => Clean) /\ commands' = commands + 1
      BY <1>1 DEF Begin
    <2>2. /\ index' \in Indexes \cup {NoIndex} /\ newBase' \in Trees \cup {NoCommit}
          /\ commands' \in Nat /\ changes' \subseteq Paths
      BY <1>a, <2>1 DEF TypeOK, GitTypeOK
    <2>3. disciplined' \in BOOLEAN /\ moved' \in BOOLEAN
      BY <1>a, <1>b, <2>1 DEF TypeOK
    <2>4. TypeOK'
      BY <1>c, <2>1, <2>2, <2>3 DEF TypeOK
    <2> QED  BY <1>b, <1>c, <2>4, <2>1 DEF UpdateInv, Honest
  <1>2. ASSUME CannotCompare PROVE UpdateInv'
    <2>1. TypeOK'
      BY <1>2, <1>a, <1>b, <1>c DEF CannotCompare, TypeOK, history
    <2>2. /\ Running /\ ipc' = "build" /\ UNCHANGED <<index, newBase, moved>>
      BY <1>2 DEF CannotCompare, Running, history
    <2> QED  BY <1>b, <1>c, <2>1, <2>2 DEF UpdateInv, Honest, Running
  <1>3. ASSUME CompareTracked PROVE UpdateInv'
    <2>1. /\ Running /\ ipc = "diff" /\ ipc' = "untracked" /\ index.base # NoCommit
          /\ changes' = DiffNames(index.base)
          /\ UNCHANGED <<index, newBase, moved, commands>>
      BY <1>3 DEF CompareTracked, Running, history
    <2>2. index # NoIndex
      BY <1>a, <2>1 DEF TypeOK
    <2>3. changes' \subseteq Paths
      BY <1>a, <1>e, <2>1, <2>2 DEF DiffNames, Tracked, Present
    <2>4. TypeOK'
      BY <1>a, <1>b, <1>c, <2>1, <2>2, <2>3 DEF TypeOK
    <2>5. changes' = DiffNames(index.base)'
      BY <1>d, <2>1 DEF DiffNames, Tracked, Present
    <2> QED  BY <1>b, <1>c, <2>1, <2>2, <2>4, <2>5 DEF UpdateInv, Honest, Running
  <1>4. ASSUME ListUntracked PROVE UpdateInv'
    <2>1. /\ Running /\ ipc = "untracked" /\ ipc' \in {"uptodate", "build"}
          /\ changes' = changes \cup Untracked
          /\ ipc' = "uptodate" => changes' = {}
          /\ UNCHANGED <<index, newBase, moved, commands>>
      BY <1>4 DEF ListUntracked, Running, history
    <2>2. index # NoIndex /\ index.base # NoCommit
      BY <2>1 DEF UpdateInv
    <2>3. changes' \subseteq Paths
      BY <1>a, <2>1 DEF TypeOK, Untracked, Tracked, Present
    <2>4. TypeOK'
      BY <1>a, <1>b, <1>c, <2>1, <2>2, <2>3 DEF TypeOK
    <2>5. ipc' = "uptodate" /\ ~moved => DiffNames(index.base) = {} /\ Untracked = {}
      BY <2>1 DEF UpdateInv
    <2>6. (ipc = "uptodate" /\ ~moved => DiffNames(index.base) = {} /\ Untracked = {})'
      BY <1>b, <1>c, <2>1, <2>5 DEF DiffNames, Tracked, Present
    <2> QED  BY <1>b, <1>c, <2>1, <2>2, <2>4, <2>6 DEF UpdateInv, Honest, Running
  <1>5. ASSUME Build PROVE UpdateInv'
    <2>1. /\ Running /\ ipc = "build" /\ ipc' = "built"
          /\ index' = [source |-> worktree, base |-> newBase]
          /\ UNCHANGED <<newBase, moved, changes, commands>>
      BY <1>5 DEF Build, Running, history
    <2>2. index' \in Indexes
      BY <1>a, <2>1 DEF TypeOK, GitTypeOK, Indexes
    <2>3. index' # NoIndex
      BY <2>2, NoIndexAssumption
    <2>4. TypeOK'
      BY <1>a, <1>b, <1>c, <2>1, <2>2 DEF TypeOK
    <2>5. disciplined => Honest'
      BY <2>1 DEF UpdateInv, Honest, Clean
    <2> QED  BY <1>b, <1>c, <2>1, <2>3, <2>4, <2>5 DEF UpdateInv, Running
  <1> QED
    BY <1>1, <1>2, <1>3, <1>4, <1>5 DEF CommandStep

\* The people: what the command knows holds only while they leave the
\* repository alone, and disciplined people do.
LEMMA PeoplePreserve ==
    ASSUME UpdateInv, Repository, disciplined => ~Running, moved' = TRUE,
           UNCHANGED <<commandVars, disciplined>>
    PROVE  UpdateInv'
PROOF
  <1>1. GitTypeOK'
    BY RepositoryType DEF UpdateInv, TypeOK
  <1>2. TypeOK'
    BY <1>1 DEF UpdateInv, TypeOK, commandVars
  <1> QED  BY <1>2 DEF UpdateInv, Running, Honest, commandVars

\* The inductive invariant of the index command beside what people do to the
\* repository (update_index_from_dir of builder.rs, main.rs).
THEOREM UpdateInvariant == Spec => []UpdateInv
PROOF
  <1>1. ASSUME UpdateInv, [Next]_updateVars PROVE UpdateInv'
    <2>1. CASE CommandStep \/ \E full \in BOOLEAN : Begin(full)
      BY <1>1, <2>1, CommandPreserves
    <2>2. CASE /\ Repository /\ (disciplined => ~Running)
               /\ moved' = TRUE
               /\ UNCHANGED <<commandVars, disciplined>>
      BY <1>1, <2>2, PeoplePreserve
    <2>3. CASE UNCHANGED updateVars
      BY <1>1, <2>3 DEF updateVars, gitVars, commandVars, history, UpdateInv, TypeOK,
         GitTypeOK, Running, Clean, Honest, DiffNames, Untracked, Tracked, Present
    <2> QED  BY <1>1, <2>1, <2>2, <2>3 DEF Next
  <1> QED  BY <1>1, UpdateInvInit, PTL DEF Spec

-----------------------------------------------------------------------------
\* Types.
THEOREM UpdateTypeCorrect == Spec => []TypeOK
PROOF
  <1>1. UpdateInv => TypeOK
    BY DEF UpdateInv
  <1> QED  BY <1>1, UpdateInvariant, PTL

\* An undisturbed command that found an honest index ends with a fresh one,
\* also if it has skipped the build (builder.rs: "up_to_date").
THEOREM HonestIndexAlwaysEndsFresh == Spec => []HonestIndexEndsFresh
PROOF
  <1>1. ASSUME UpdateInv PROVE HonestIndexEndsFresh
    <2> SUFFICES ASSUME Ended, ~moved, Honest PROVE index.source = worktree
      BY DEF HonestIndexEndsFresh
    <2>1. CASE ipc = "built"
      BY <1>1, <2>1 DEF UpdateInv
    <2>2. CASE ipc = "uptodate"
      <3>1. /\ index # NoIndex /\ index.base # NoCommit
            /\ DiffNames(index.base) = {} /\ Untracked = {}
        BY <1>1, <2>2 DEF UpdateInv
      <3>2. index.base \in Trees /\ staged \in Trees /\ worktree \in Trees
        BY <1>1, <3>1 DEF UpdateInv, TypeOK, GitTypeOK, Indexes
      <3>3. worktree = index.base
        BY <3>1, <3>2, EmptyListsMeanEqual
      <3> QED  BY <3>1, <3>3 DEF Honest
    <2> QED  BY <2>1, <2>2 DEF Ended
  <1> QED  BY <1>1, UpdateInvariant, PTL

\* On clean and quiet trees every index is the one of its base commit.
THEOREM DisciplineKeepsHonest == Spec => []AlwaysHonest
PROOF
  <1>1. UpdateInv => AlwaysHonest
    BY DEF UpdateInv, AlwaysHonest
  <1> QED  BY <1>1, UpdateInvariant, PTL

\* And every command ends with a fresh index.
THEOREM DisciplineEndsFresh == Spec => []EndsFresh
PROOF
  <1>1. HonestIndexEndsFresh /\ AlwaysHonest => EndsFresh
    BY DEF HonestIndexEndsFresh, AlwaysHonest, EndsFresh
  <1> QED  BY <1>1, HonestIndexAlwaysEndsFresh, DisciplineKeepsHonest, PTL
=============================================================================
