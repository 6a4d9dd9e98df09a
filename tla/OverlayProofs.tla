--------------------------- MODULE OverlayProofs ---------------------------
(***************************************************************************)
(* Proofs about the overlay: adding and marking keep it well-formed and a  *)
(* mirror of what was read, for every overlay and every file, and so it is *)
(* one in every search, whatever git reports in whatever order and however *)
(* the tree moves meanwhile.                                               *)
(***************************************************************************)
EXTENDS OverlaySearch, FiniteSetTheorems, TLAPS

-----------------------------------------------------------------------------
(* Of Corpus: FileIds and candidates.                                      *)

\* A FileId is a natural number smaller than the number of files.
LEMMA FidBound ==
    ASSUME NEW D \in SUBSET Paths, NEW p \in D
    PROVE  /\ Cardinality(D) \in Nat
           /\ Fid(D, p) \in AllIds(Cardinality(D))
PROOF
  <1> DEFINE below == {r \in D : r < p}
  <1>1. IsFiniteSet(D)
    BY PathsAssumption, FS_Subset
  <1>2. below \in SUBSET D /\ below # D
    <2>1. p \in Nat
      BY PathsAssumption
    <2>2. p \notin below
      BY <2>1
    <2> QED  BY <2>2
  <1>3. /\ IsFiniteSet(below)
        /\ Cardinality(below) <= Cardinality(D)
        /\ Cardinality(D) = Cardinality(below) => D = below
    BY <1>1, <1>2, FS_Subset
  <1>4. Cardinality(D) \in Nat /\ Cardinality(below) \in Nat
    BY <1>1, <1>3, FS_CardinalityType
  <1> HIDE DEF below
  <1>5. Cardinality(below) \in 0 .. Cardinality(D) - 1
    BY <1>2, <1>3, <1>4
  <1> QED  BY <1>4, <1>5 DEF Fid, AllIds, below

\* Candidate resolution drops no file that passes the plan: if the id is in
\* the posting list of every n-gram of the file, it is a candidate.
LEMMA CandidatesComplete ==
    ASSUME NEW lookup, NEW n \in Nat, NEW id \in AllIds(n), NEW grams,
           NEW plan \in [required : SUBSET Grams, alternatives : SUBSET SUBSET Grams],
           \A g \in Grams : g \in grams => id \in lookup[g],
           Passes(plan, grams)
    PROVE  id \in Candidates(lookup, n, plan)
PROOF
  <1>1. ASSUME NEW hashes \in SUBSET Grams, hashes \subseteq grams
        PROVE  id \in LookupIntersect(lookup, n, hashes)
    <2>1. \A h \in hashes : id \in lookup[h]
      BY <1>1
    <2>2. CASE hashes = {}
      BY <2>2 DEF LookupIntersect
    <2>3. CASE hashes # {}
      <3>1. id \in UNION {lookup[h] : h \in hashes}
        BY <2>1, <2>3
      <3> QED  BY <2>1, <2>3, <3>1 DEF LookupIntersect
    <2> QED  BY <2>2, <2>3
  <1>2. plan.required \in SUBSET Grams /\ plan.alternatives \in SUBSET SUBSET Grams
    OBVIOUS
  <1>3. id \in LookupIntersect(lookup, n, plan.required)
    BY <1>1, <1>2 DEF Passes
  <1>4. ASSUME plan.alternatives # {}
        PROVE  id \in LookupAlternatives(lookup, n, plan.alternatives)
    <2>1. PICK alt \in plan.alternatives : alt \subseteq grams
      BY <1>4 DEF Passes
    <2>2. id \in LookupIntersect(lookup, n, alt)
      BY <1>1, <1>2, <2>1
    <2>3. id \in UNION {LookupIntersect(lookup, n, a) : a \in plan.alternatives}
      BY <2>2
    <2> QED  BY <2>3 DEF LookupAlternatives
  <1> QED  BY <1>3, <1>4 DEF Candidates

\* Candidate resolution invents no id: candidates are ids of files.
LEMMA CandidatesBound ==
    ASSUME NEW n, NEW lookup \in [Grams -> SUBSET AllIds(n)],
           NEW plan \in [required : SUBSET Grams, alternatives : SUBSET SUBSET Grams]
    PROVE  Candidates(lookup, n, plan) \subseteq AllIds(n)
PROOF
  <1>1. plan.required \in SUBSET Grams /\ plan.alternatives \in SUBSET SUBSET Grams
    OBVIOUS
  <1>2. ASSUME NEW hashes \in SUBSET Grams
        PROVE  LookupIntersect(lookup, n, hashes) \subseteq AllIds(n)
    BY DEF LookupIntersect
  <1>3. LookupAlternatives(lookup, n, plan.alternatives) \subseteq AllIds(n)
    BY <1>1, <1>2 DEF LookupAlternatives
  <1> QED  BY <1>1, <1>2, <1>3 DEF Candidates

-----------------------------------------------------------------------------
(* The overlay.                                                            *)

\* People keep trees trees.
LEMMA RepositoryType ==
    ASSUME GitTypeOK, Repository
    PROVE  GitTypeOK'
PROOF
  <1> USE DEF GitTypeOK, Move
  <1>0. MaxMoves \in Nat
    BY GitAssumption
  <1>1. ASSUME NEW p \in Paths, NEW c \in Contents \cup {Absent}, Edit(p, c) PROVE GitTypeOK'
    BY <1>0, <1>1 DEF Edit, Trees
  <1>2. ASSUME NEW p \in Paths, NEW c \in Contents \cup {Absent}, Stage(p, c) PROVE GitTypeOK'
    BY <1>0, <1>2 DEF Stage, Trees
  <1>3. ASSUME Commit PROVE GitTypeOK'
    BY <1>0, <1>3 DEF Commit
  <1>4. ASSUME NEW tree \in Trees, Checkout(tree) PROVE GitTypeOK'
    BY <1>0, <1>4 DEF Checkout
  <1> QED  BY <1>1, <1>2, <1>3, <1>4 DEF Repository

\* The ids of an overlay that mirrors something are those of its paths.
LEMMA IdsInjective ==
    ASSUME NEW o, NEW c \in Trees, Mirrors(o, c),
           NEW p \in DOMAIN o.ids, NEW r \in DOMAIN o.ids, o.ids[p] = o.ids[r]
    PROVE  p = r
  BY DEF Mirrors

LEMMA NoneIsOverlay == IsOverlay(NoneOverlaid) /\ Mirrors(NoneOverlaid, Nothing)
PROOF
  <1>1. NoneOverlaid = [grams |-> [g \in Grams |-> {}], files |-> <<>>,
                        ids |-> [p \in {} |-> 0], deleted |-> {}]
    BY DEF NoneOverlaid
  <1>2. Present(Nothing) = {}
    BY DEF Present, Nothing
  <1>3. IsOverlay(NoneOverlaid)
    BY <1>1 DEF IsOverlay, AllIds
  <1>4. Mirrors(NoneOverlaid, Nothing)
    BY <1>1, <1>2 DEF Mirrors
  <1> QED  BY <1>3, <1>4

\* mark_deleted: only the n-grams of p go, and p is hidden.
LEMMA MarkDeletedMirrors ==
    ASSUME NEW o, NEW c \in Trees, IsOverlay(o), Mirrors(o, c), NEW p \in Paths
    PROVE  /\ IsOverlay(MarkDeleted(o, p))
           /\ Mirrors(MarkDeleted(o, p), [c EXCEPT ![p] = Absent])
PROOF
  <1> DEFINE d == [c EXCEPT ![p] = Absent]
             m == MarkDeleted(o, p)
             G == IF p \in DOMAIN o.ids THEN WithoutId(o.grams, o.ids[p]) ELSE o.grams
  <1>1. /\ m.deleted = o.deleted \cup {p}
        /\ m.grams = G
        /\ m.files = o.files
        /\ m.ids = [r \in DOMAIN o.ids \ {p} |-> o.ids[r]]
        /\ m = [grams |-> m.grams, files |-> m.files, ids |-> m.ids, deleted |-> m.deleted]
    BY DEF MarkDeleted
  <1>2. \A g \in Grams : G[g] = (IF p \in DOMAIN o.ids THEN o.grams[g] \ {o.ids[p]} ELSE o.grams[g])
    BY DEF WithoutId
  <1>3. G \in [Grams -> SUBSET AllIds(Len(o.files))]
    BY DEF WithoutId, IsOverlay
  <1>4. DOMAIN m.ids = DOMAIN o.ids \ {p} /\ \A r \in DOMAIN m.ids : m.ids[r] = o.ids[r]
    BY <1>1
  <1> HIDE DEF m, G
  <1>5. IsOverlay(m)
    BY <1>1, <1>3, <1>4 DEF IsOverlay
  <1>6. Present(d) = Present(c) \ {p} /\ \A r \in Paths \ {p} : d[r] = c[r]
    BY DEF Present, Trees
  <1>7. DOMAIN m.ids = Present(d) /\ m.deleted \cap DOMAIN m.ids = {}
    BY <1>1, <1>4, <1>6 DEF Mirrors
  <1>8. ASSUME NEW r \in DOMAIN m.ids
        PROVE  /\ m.files[m.ids[r] + 1] = r
               /\ {g \in Grams : m.ids[r] \in m.grams[g]} = GramsOf[d[r]]
    <2>1. r \in DOMAIN o.ids /\ r # p /\ r \in Paths /\ m.ids[r] = o.ids[r]
      BY <1>4, <1>8 DEF IsOverlay
    <2>2. p \in DOMAIN o.ids => o.ids[r] # o.ids[p]
      BY <2>1, IdsInjective
    <2>3. \A g \in Grams : m.ids[r] \in m.grams[g] <=> o.ids[r] \in o.grams[g]
      BY <1>1, <1>2, <2>1, <2>2
    <2>4. {g \in Grams : o.ids[r] \in o.grams[g]} = GramsOf[c[r]] /\ o.files[o.ids[r] + 1] = r
      BY <2>1 DEF Mirrors
    <2> QED  BY <1>1, <1>6, <2>1, <2>3, <2>4
  <1>9. ASSUME NEW g \in Grams PROVE m.grams[g] \subseteq {m.ids[r] : r \in DOMAIN m.ids}
    <2>1. ASSUME NEW k \in m.grams[g] PROVE \E r \in DOMAIN m.ids : k = m.ids[r]
      <3>1. k \in o.grams[g] /\ (p \in DOMAIN o.ids => k # o.ids[p])
        BY <1>1, <1>2, <2>1
      <3>2. PICK r \in DOMAIN o.ids : k = o.ids[r]
        BY <3>1 DEF Mirrors
      <3> QED  BY <1>4, <3>1, <3>2
    <2> QED  BY <2>1
  <1> QED  BY <1>5, <1>7, <1>8, <1>9 DEF Mirrors, m

\* add_file: p has exactly the n-grams of what was read, under an id that no
\* other path has.
LEMMA AddFileMirrors ==
    ASSUME NEW o, NEW c \in Trees, IsOverlay(o), Mirrors(o, c),
           NEW p \in Paths, NEW x \in Contents
    PROVE  /\ IsOverlay(AddFile(o, p, x))
           /\ Mirrors(AddFile(o, p, x), [c EXCEPT ![p] = x])
PROOF
  <1> DEFINE d == [c EXCEPT ![p] = x]
             a == AddFile(o, p, x)
             id == IdFor(o, p)
             n == Len(o.files)
  <1>1. /\ a.files = IF p \notin DOMAIN o.ids THEN Append(o.files, p) ELSE o.files
        /\ a.ids = [r \in DOMAIN o.ids \cup {p} |-> IF r = p THEN id ELSE o.ids[r]]
        /\ a.deleted = o.deleted \ {p}
        /\ a.grams = [g \in Grams |-> (o.grams[g] \ {id}) \cup
                        (IF g \in GramsOf[x] THEN {id} ELSE {})]
        /\ a = [files |-> a.files, ids |-> a.ids, deleted |-> a.deleted, grams |-> a.grams]
    BY DEF AddFile
  <1>2. /\ n \in Nat /\ o.files \in Seq(Paths)
        /\ \A r \in DOMAIN o.ids : r \in Paths /\ o.ids[r] \in 0 .. n - 1
        /\ \A g \in Grams : o.grams[g] \subseteq 0 .. n - 1
    BY DEF IsOverlay, AllIds
  <1>3. id = (IF p \in DOMAIN o.ids THEN o.ids[p] ELSE n)
    BY DEF IdFor
  <1>4. /\ DOMAIN a.ids = DOMAIN o.ids \cup {p}
        /\ a.ids[p] = id
        /\ \A r \in DOMAIN o.ids \ {p} : a.ids[r] = o.ids[r]
        /\ \A g \in Grams : a.grams[g] = (o.grams[g] \ {id}) \cup
                                (IF g \in GramsOf[x] THEN {id} ELSE {})
    BY <1>1
  <1> HIDE DEF a, id
  <1>5. /\ a.files \in Seq(Paths)
        /\ Len(a.files) = (IF p \in DOMAIN o.ids THEN n ELSE n + 1)
        /\ \A k \in 1 .. n : a.files[k] = o.files[k]
        /\ p \notin DOMAIN o.ids => a.files[n + 1] = p
    BY <1>1, <1>2
  <1>6. id \in AllIds(Len(a.files)) /\ 0 .. n - 1 \subseteq AllIds(Len(a.files))
    BY <1>2, <1>3, <1>5 DEF AllIds
  <1>7. IsOverlay(a)
    <2>1. \A r \in DOMAIN a.ids : r \in Paths /\ a.ids[r] \in AllIds(Len(a.files))
      BY <1>2, <1>4, <1>6
    <2>2. a.grams \in [Grams -> SUBSET AllIds(Len(a.files))]
      BY <1>1, <1>2, <1>6
    <2>3. a.deleted \subseteq Paths /\ a.ids = [r \in DOMAIN a.ids |-> a.ids[r]]
      BY <1>1 DEF IsOverlay
    <2> QED  BY <1>1, <1>5, <2>1, <2>2, <2>3 DEF IsOverlay
  <1>8. d[p] = x /\ \A r \in Paths \ {p} : d[r] = c[r]
    BY DEF Trees
  <1>9. Present(d) = Present(c) \cup {p}
    BY <1>8, AbsentAssumption DEF Present
  <1>10. DOMAIN a.ids = Present(d) /\ a.deleted \cap DOMAIN a.ids = {}
    BY <1>1, <1>4, <1>9 DEF Mirrors
  <1>11. \A r \in DOMAIN o.ids \ {p} : o.ids[r] # id
    BY <1>2, <1>3, IdsInjective
  <1>12. ASSUME NEW r \in DOMAIN a.ids
         PROVE  /\ a.files[a.ids[r] + 1] = r
                /\ {g \in Grams : a.ids[r] \in a.grams[g]} = GramsOf[d[r]]
    <2>1. CASE r = p
      <3>1. a.files[id + 1] = p
        BY <1>2, <1>3, <1>5 DEF Mirrors
      <3>2. GramsOf[x] \subseteq Grams
        BY GramsAssumption
      <3>3. {g \in Grams : id \in a.grams[g]} = GramsOf[x]
        BY <1>4, <3>2
      <3> QED  BY <1>4, <1>8, <2>1, <3>1, <3>3
    <2>2. CASE r # p
      <3>1. r \in DOMAIN o.ids /\ r \in Paths /\ a.ids[r] = o.ids[r] /\ o.ids[r] # id
        BY <1>2, <1>4, <1>11, <1>12, <2>2
      <3>2. o.files[o.ids[r] + 1] = r /\ {g \in Grams : o.ids[r] \in o.grams[g]} = GramsOf[c[r]]
        BY <3>1 DEF Mirrors
      <3>3. o.ids[r] + 1 \in 1 .. n
        BY <1>2, <3>1
      <3>4. \A g \in Grams : o.ids[r] \in a.grams[g] <=> o.ids[r] \in o.grams[g]
        BY <1>4, <3>1
      <3> QED  BY <1>5, <1>8, <2>2, <3>1, <3>2, <3>3, <3>4
    <2> QED  BY <2>1, <2>2
  <1>13. ASSUME NEW g \in Grams PROVE a.grams[g] \subseteq {a.ids[r] : r \in DOMAIN a.ids}
    <2>1. ASSUME NEW k \in a.grams[g] PROVE \E r \in DOMAIN a.ids : k = a.ids[r]
      <3>1. CASE k = id
        BY <1>4, <3>1
      <3>2. CASE k # id
        <4>1. k \in o.grams[g]
          BY <1>4, <2>1, <3>2
        <4>2. PICK r \in DOMAIN o.ids : k = o.ids[r]
          BY <4>1 DEF Mirrors
        <4>3. r # p
          BY <1>3, <3>2, <4>2
        <4> QED  BY <1>4, <4>2, <4>3
      <3> QED  BY <3>1, <3>2
    <2> QED  BY <2>1
  <1> QED  BY <1>7, <1>10, <1>12, <1>13 DEF Mirrors, a
-----------------------------------------------------------------------------
(* The search.                                                             *)

\* What is inductive: the overlay is one, and mirrors what was read so far;
\* that the trees are trees says that what is read can be added.
OverlayInv ==
    /\ GitTypeOK
    /\ content \in Trees
    /\ IsOverlay(overlay)
    /\ Mirrors(overlay, content)

LEMMA SearchStepKeepsMirror ==
    ASSUME OverlayInv, SearchStep
    PROVE  content' \in Trees /\ IsOverlay(overlay') /\ Mirrors(overlay', content')
PROOF
  <1> USE DEF OverlayInv
  <1>1. CASE UNCHANGED <<overlay, content>>
    BY <1>1
  <1>2. ASSUME NEW p \in Paths, DeletedEntry(p)
        PROVE  content' \in Trees /\ IsOverlay(overlay') /\ Mirrors(overlay', content')
    <2>1. overlay' = MarkDeleted(overlay, p) /\ content' = [content EXCEPT ![p] = Absent]
      BY <1>2 DEF DeletedEntry
    <2>2. [content EXCEPT ![p] = Absent] \in Trees
      BY DEF Trees
    <2> QED  BY <2>1, <2>2, MarkDeletedMirrors
  <1>3. ASSUME NEW p \in Paths, ReadEntry(p)
        PROVE  content' \in Trees /\ IsOverlay(overlay') /\ Mirrors(overlay', content')
    <2>1. /\ overlay' = AddFile(overlay, p, worktree[p])
          /\ content' = [content EXCEPT ![p] = worktree[p]]
      BY <1>3 DEF ReadEntry
    <2>2. worktree[p] \in Contents
      BY <1>3 DEF ReadEntry, GitTypeOK, Trees
    <2>3. [content EXCEPT ![p] = worktree[p]] \in Trees
      BY <2>2 DEF Trees
    <2> QED  BY <2>1, <2>2, <2>3, AddFileMirrors
  <1>4. CASE ReadStatus \/ Resolve \/ Finish
    BY <1>1, <1>4 DEF ReadStatus, Resolve, Finish
  <1>5. CASE \E p \in Paths : UnreadEntry(p)
    BY <1>1, <1>5 DEF UnreadEntry
  <1>6. CASE \E job \in jobs : Verify(job)
    BY <1>1, <1>6 DEF Verify
  <1> QED  BY <1>2, <1>3, <1>4, <1>5, <1>6 DEF SearchStep

LEMMA SearchStepKeepsRepository == SearchStep => UNCHANGED gitVars
  BY DEF SearchStep, ReadStatus, DeletedEntry, ReadEntry, UnreadEntry, EntryOf,
         Resolve, Verify, Finish

\* The overlay of a search (overlay.rs) is at every step of its construction
\* well-formed and exact for the contents read until then.
THEOREM OverlayInvariant == Spec => []OverlayInv
PROOF
  <1>1. Init => OverlayInv
    <2>1. Nothing \in Trees
      BY DEF Nothing, Trees
    <2>2. Init => GitTypeOK
      BY OverlaySearchAssumption DEF Init, GitTypeOK
    <2> QED  BY <2>1, <2>2, NoneIsOverlay DEF Init, OverlayInv
  <1>2. OverlayInv /\ [Next]_allVars => OverlayInv'
    <2> SUFFICES ASSUME OverlayInv, [Next]_allVars PROVE OverlayInv'
      OBVIOUS
    <2>1. CASE SearchStep
      <3>1. GitTypeOK'
        BY <2>1, SearchStepKeepsRepository DEF OverlayInv, GitTypeOK, gitVars
      <3> QED  BY <2>1, <3>1, SearchStepKeepsMirror DEF OverlayInv
    <2>2. CASE Repository /\ UNCHANGED searchVars
      <3>1. GitTypeOK'
        BY <2>2, RepositoryType DEF OverlayInv
      <3> QED  BY <2>2, <3>1 DEF OverlayInv, searchVars
    <2>3. CASE UNCHANGED allVars
      BY <2>3 DEF OverlayInv, GitTypeOK, allVars, gitVars, searchVars
    <2> QED  BY <2>1, <2>2, <2>3 DEF Next
  <1> QED  BY <1>1, <1>2, PTL DEF Spec

\* The overlay holds exactly the n-grams of what was read, under ids that lead
\* back to the paths (add_file and mark_deleted of overlay.rs).
THEOREM OverlayAlwaysMirrors == Spec => []OverlayMirrorsReads
PROOF
  <1>1. OverlayInv => OverlayMirrorsReads
    BY DEF OverlayInv, OverlayMirrorsReads
  <1> QED  BY <1>1, OverlayInvariant, PTL
-----------------------------------------------------------------------------
(* What the search finds.                                                  *)

\* What the stages leave behind them.
StageShape ==
    /\ stage = "status" => overlay = NoneOverlaid /\ listed = {} /\ touched = {}
    /\ stage # "overlay" => entries = NoEntries
    /\ stage \in {"status", "overlay"} => jobs = {} /\ reports = {}
    /\ stage = "done" => jobs = {}

\* Every candidate stands for a path.
JobsLead == \A job \in jobs \cup reports : PathOf(job) \in Paths

\* A path on which ReadYourWrites has something to say.
Settled(p) == p \notin touched \cup conflicts

\* What git reported of a settled path and the overlay has not read yet ends
\* with what is there; once all is read, the overlay was given what is there.
\* Only reported paths are hidden, and those that git quotes never.
ReadingEndsUpToDate ==
    \A p \in Paths :
        /\ entries[p] # <<>> => p \in listed
        /\ p \in overlay.deleted => p \in listed \ quoted
        /\ Settled(p) =>
              IF entries[p] # <<>>
              THEN entries[p][Len(entries[p])] = "Deleted" <=> worktree[p] = Absent
              ELSE p \in listed \ quoted => content[p] = worktree[p]

ReportsMatch ==
    \A job \in reports : PathOf(job) \notin touched => worktree[PathOf(job)] \in Hits[query]

\* What has to be reported is reported or still to be verified.
Owed(p) ==
    /\ Settled(p) /\ worktree[p] \in Hits[query]
    /\ p \in listed \ quoted \/ baseline[p] = worktree[p]

OwedIsUnderway ==
    stage \in {"verify", "done"} =>
        \A p \in Paths : Owed(p) => \E job \in jobs \cup reports : PathOf(job) = p

SearchInv ==
    /\ TypeOK /\ StageShape /\ JobsLead
    /\ ReadingEndsUpToDate /\ ReportsMatch /\ OwedIsUnderway

\* parse_status_porcelain, of a path without a conflict: the last of its lines
\* is a deletion if and only if no file is there.
LEMMA StatusEndsWithWhatIsThere ==
    ASSUME GitTypeOK, NEW p \in Paths
    PROVE  /\ StatusOf(p) \in Seq({"Added", "Modified", "Deleted"})
           /\ p \notin conflicts /\ StatusOf(p) # <<>> =>
                (StatusOf(p)[Len(StatusOf(p))] = "Deleted" <=> worktree[p] = Absent)
PROOF
  <1> DEFINE K == {"Added", "Modified", "Deleted"}
             dropped == IF head[p] # Absent THEN <<"Deleted">> ELSE <<>>
             untracked == IF worktree[p] # Absent THEN <<"Added">> ELSE <<>>
  <1>1. /\ <<>> \in Seq(K) /\ <<"Deleted">> \in Seq(K)
        /\ <<"Added">> \in Seq(K) /\ <<"Modified">> \in Seq(K)
    OBVIOUS
  <1>2. dropped \in Seq(K) /\ untracked \in Seq(K)
    BY <1>1
  <1>3. dropped \o untracked \in Seq(K)
    <2> HIDE DEF dropped, untracked, K
    <2> QED  BY <1>2
  <1>4. /\ (dropped \o untracked) # <<>> /\ worktree[p] = Absent =>
              (dropped \o untracked)[Len(dropped \o untracked)] = "Deleted"
        /\ worktree[p] # Absent =>
              (dropped \o untracked)[Len(dropped \o untracked)] = "Added"
    OBVIOUS
  <1>5. CASE p \in conflicts
    BY <1>1, <1>5 DEF StatusOf
  <1>6. CASE p \notin conflicts /\ staged[p] = Absent
    <2>1. StatusOf(p) = dropped \o untracked
      BY <1>6 DEF StatusOf
    <2> HIDE DEF dropped, untracked
    <2> QED  BY <1>4, <1>3, <2>1
  <1>7. CASE p \notin conflicts /\ staged[p] # Absent
    BY <1>1, <1>7 DEF StatusOf
  <1> QED  BY <1>5, <1>6, <1>7
\* A path that is settled after people did something was not touched by it.
LEMMA SettledWas ==
    ASSUME touched' = touched \cup {p \in Paths : Moved(p)},
           NEW p \in Paths, Settled(p)'
    PROVE  Settled(p) /\ worktree'[p] = worktree[p]
PROOF
  <1>1. p \notin touched /\ ~Moved(p) /\ p \notin conflicts'
    BY DEF Settled
  <1>2. Git(p)' = Git(p)
    BY <1>1 DEF Moved
  <1>3. worktree'[p] = worktree[p] /\ (p \in conflicts' <=> p \in conflicts)
    BY <1>2 DEF Git
  <1> QED  BY <1>1, <1>3 DEF Settled

LEMMA RepositoryKeepsSearch ==
    ASSUME SearchInv, GitTypeOK', Repository,
           touched' = IF stage = "status" THEN {} ELSE touched \cup {p \in Paths : Moved(p)},
           UNCHANGED searchVars
    PROVE  SearchInv'
PROOF
  <1> USE DEF SearchInv, searchVars
  <1>1. TypeOK'
    BY DEF TypeOK, Job
  <1>2. StageShape'
    BY DEF StageShape
  <1>3. JobsLead' /\ \A job \in jobs \cup reports : PathOf(job)' = PathOf(job)
    BY DEF JobsLead, PathOf
  <1>4. CASE stage = "status"
    <2>1. /\ entries' = NoEntries /\ listed' = {} /\ overlay'.deleted = {}
          /\ jobs' = {} /\ reports' = {}
      BY <1>4 DEF StageShape, NoneOverlaid
    <2>2. ReadingEndsUpToDate'
      BY <2>1 DEF ReadingEndsUpToDate, NoEntries
    <2>3. ReportsMatch' /\ OwedIsUnderway'
      BY <1>4, <2>1 DEF ReportsMatch, OwedIsUnderway
    <2> QED  BY <1>1, <1>2, <1>3, <2>2, <2>3
  <1>5. CASE stage # "status"
    <2>1. touched' = touched \cup {p \in Paths : Moved(p)}
      BY <1>5
    <2>2. \A p \in Paths : Settled(p)' => Settled(p) /\ worktree'[p] = worktree[p]
      BY <2>1, SettledWas
    <2>3. ReadingEndsUpToDate'
      BY <2>2 DEF ReadingEndsUpToDate
    <2>4. ReportsMatch'
      <3> SUFFICES ASSUME NEW job \in reports, PathOf(job) \notin touched'
                   PROVE  worktree'[PathOf(job)] \in Hits[query]
        BY <1>3 DEF ReportsMatch
      <3>1. PathOf(job) \in Paths
        BY DEF JobsLead
      <3>2. worktree'[PathOf(job)] = worktree[PathOf(job)]
        BY <2>1, <3>1 DEF Moved, Git
      <3> QED  BY <2>1, <3>2 DEF ReportsMatch
    <2>5. OwedIsUnderway'
      BY <1>3, <2>2 DEF OwedIsUnderway, Owed
    <2> QED  BY <1>1, <1>2, <1>3, <2>3, <2>4, <2>5
  <1> QED  BY <1>4, <1>5

LEMMA ReadStatusKeepsSearch ==
    ASSUME SearchInv, ReadStatus
    PROVE  SearchInv'
PROOF
  <1> USE DEF SearchInv, ReadStatus
  <1>1. /\ entries' = [p \in Paths |-> StatusOf(p)]
        /\ listed' = {p \in Paths : StatusOf(p) # <<>>}
        /\ stage' = "overlay"
        /\ UNCHANGED <<head, staged, worktree, conflicts, moves>>
        /\ UNCHANGED <<baseline, quoted, query, overlay, jobs, reports, content, touched>>
    BY DEF gitVars
  <1>2. GitTypeOK /\ entries' \in [Paths -> Seq({"Added", "Modified", "Deleted"})]
    BY <1>1, StatusEndsWithWhatIsThere DEF TypeOK
  <1>3. TypeOK'
    BY <1>1, <1>2 DEF TypeOK, GitTypeOK
  <1>4. jobs = {} /\ reports = {} /\ overlay.deleted = {}
    BY DEF StageShape, NoneOverlaid
  <1>5. StageShape' /\ JobsLead' /\ ReportsMatch' /\ OwedIsUnderway'
    BY <1>1, <1>4 DEF StageShape, JobsLead, ReportsMatch, OwedIsUnderway
  <1>6. ReadingEndsUpToDate'
    <2> SUFFICES ASSUME NEW p \in Paths
                 PROVE  /\ entries'[p] # <<>> => p \in listed'
                        /\ Settled(p)' =>
                             IF entries'[p] # <<>>
                             THEN entries'[p][Len(entries'[p])] = "Deleted" <=> worktree'[p] = Absent
                             ELSE p \notin listed'
      BY <1>1, <1>4 DEF ReadingEndsUpToDate
    <2>1. Settled(p)' => p \notin conflicts
      BY <1>1 DEF Settled
    <2>2. entries'[p] = StatusOf(p)
      BY <1>1
    <2> QED  BY <1>1, <1>2, <2>1, <2>2, StatusEndsWithWhatIsThere
  <1> QED  BY <1>3, <1>5, <1>6

LEMMA VerifyKeepsSearch ==
    ASSUME SearchInv, NEW job \in jobs, Verify(job)
    PROVE  SearchInv'
PROOF
  <1> USE DEF SearchInv, Verify
  <1>1. /\ jobs' = jobs \ {job}
        /\ reports' = IF worktree[PathOf(job)] \in Hits[query] THEN reports \cup {job} ELSE reports
        /\ stage = "verify"
        /\ UNCHANGED <<head, staged, worktree, conflicts, moves>>
        /\ UNCHANGED <<baseline, quoted, stage, query, entries, overlay, content, listed, touched>>
    BY DEF gitVars
  <1>2. \A j : PathOf(j)' = PathOf(j)
    BY <1>1 DEF PathOf
  <1>3. TypeOK'
    BY <1>1 DEF TypeOK, GitTypeOK, Job
  <1>4. StageShape' /\ JobsLead'
    BY <1>1, <1>2 DEF StageShape, JobsLead
  <1>5. ReadingEndsUpToDate'
    BY <1>1 DEF ReadingEndsUpToDate, Settled
  <1>6. ReportsMatch'
    BY <1>1, <1>2 DEF ReportsMatch
  <1>7. OwedIsUnderway'
    <2> SUFFICES ASSUME NEW p \in Paths, Owed(p)
                 PROVE  \E j \in jobs' \cup reports' : PathOf(j) = p
      BY <1>1, <1>2 DEF OwedIsUnderway, Owed, Settled
    <2>1. PICK j \in jobs \cup reports : PathOf(j) = p
      BY <1>1 DEF OwedIsUnderway
    <2>2. worktree[p] \in Hits[query]
      BY DEF Owed
    <2> QED  BY <1>1, <2>1, <2>2
  <1> QED  BY <1>3, <1>4, <1>5, <1>6, <1>7

LEMMA FinishKeepsSearch ==
    ASSUME SearchInv, Finish
    PROVE  SearchInv'
PROOF
  <1> USE DEF SearchInv, Finish
  <1>1. /\ stage = "verify" /\ jobs = {} /\ stage' = "done"
        /\ UNCHANGED <<head, staged, worktree, conflicts, moves>>
        /\ UNCHANGED <<baseline, quoted, query, entries, overlay, jobs, reports, content, listed, touched>>
    BY DEF gitVars
  <1>2. TypeOK' /\ StageShape'
    BY <1>1 DEF TypeOK, GitTypeOK, StageShape, Job
  <1>3. JobsLead' /\ ReportsMatch'
    BY <1>1 DEF JobsLead, ReportsMatch, PathOf
  <1>4. ReadingEndsUpToDate'
    BY <1>1 DEF ReadingEndsUpToDate, Settled
  <1>5. OwedIsUnderway'
    BY <1>1 DEF OwedIsUnderway, Owed, Settled, PathOf
  <1> QED  BY <1>2, <1>3, <1>4, <1>5
\* What a line of git's report does to its path, and to no other: when it was
\* the last one, the overlay has what is there.
LEMMA EntryBringsUpToDate ==
    ASSUME SearchInv, NEW p \in Paths, DeletedEntry(p) \/ ReadEntry(p) \/ UnreadEntry(p)
    PROVE  /\ p \in listed
           /\ \A r \in Paths \ {p} : content'[r] = content[r]
           /\ p \notin conflicts /\ Settled(p) /\ Tail(entries[p]) = <<>> /\ p \notin quoted
                => content'[p] = worktree[p]
           /\ overlay'.deleted \subseteq overlay.deleted \cup ({p} \ quoted)
PROOF
  <1> USE DEF SearchInv
  <1>1. EntryOf(p)
    BY DEF DeletedEntry, ReadEntry, UnreadEntry
  <1>2. entries[p] # <<>> /\ p \in listed
    BY <1>1 DEF EntryOf, ReadingEndsUpToDate
  <1>3. entries[p] \in Seq({"Added", "Modified", "Deleted"}) /\ content \in Trees
    BY DEF TypeOK
  <1>4. Settled(p) /\ Tail(entries[p]) = <<>>
            => (Head(entries[p]) = "Deleted" <=> worktree[p] = Absent)
    <2>1. Tail(entries[p]) = <<>> => Len(entries[p]) = 1
      <3>1. Len(Tail(entries[p])) = Len(entries[p]) - 1 /\ Len(entries[p]) \in Nat
        BY <1>2, <1>3
      <3>2. \A n \in Nat : n - 1 = 0 => n = 1
        OBVIOUS
      <3>3. \A s : s = <<>> => Len(s) = 0
        OBVIOUS
      <3> QED  BY <3>1, <3>2, <3>3
    <2>2. Settled(p) => (entries[p][Len(entries[p])] = "Deleted" <=> worktree[p] = Absent)
      BY <1>2 DEF ReadingEndsUpToDate
    <2> QED  BY <1>2, <1>3, <2>1, <2>2
  <1>5. CASE DeletedEntry(p)
    <2>1. /\ content' = [content EXCEPT ![p] = Absent]
          /\ overlay'.deleted = overlay.deleted \cup {p}
          /\ Head(entries[p]) = "Deleted" /\ p \notin quoted
      BY <1>5 DEF DeletedEntry, MarkDeleted
    <2> QED  BY <1>2, <1>3, <1>4, <2>1 DEF Trees
  <1>6. CASE ReadEntry(p)
    <2>1. /\ content' = [content EXCEPT ![p] = worktree[p]]
          /\ overlay'.deleted = overlay.deleted \ {p}
      BY <1>6 DEF ReadEntry, AddFile
    <2> QED  BY <1>2, <1>3, <2>1 DEF Trees
  <1>7. CASE UnreadEntry(p)
    <2>1. /\ content' = content /\ overlay' = overlay
          /\ p \in quoted \/ (Head(entries[p]) # "Deleted" /\ worktree[p] = Absent)
      BY <1>7 DEF UnreadEntry
    <2> QED  BY <1>2, <1>4, <2>1
  <1> QED  BY <1>5, <1>6, <1>7

LEMMA EntryKeepsSearch ==
    ASSUME SearchInv, IsOverlay(overlay'), content' \in Trees,
           NEW p \in Paths, DeletedEntry(p) \/ ReadEntry(p) \/ UnreadEntry(p)
    PROVE  SearchInv'
PROOF
  <1> USE DEF SearchInv
  <1>1. EntryOf(p)
    BY DEF DeletedEntry, ReadEntry, UnreadEntry
  <1>2. /\ stage = "overlay" /\ entries[p] # <<>>
        /\ entries' = [entries EXCEPT ![p] = Tail(@)]
        /\ UNCHANGED <<head, staged, worktree, conflicts, moves>>
        /\ UNCHANGED <<baseline, quoted, stage, query, jobs, reports, listed, touched>>
    BY <1>1 DEF EntryOf, gitVars
  <1>3. /\ entries \in [Paths -> Seq({"Added", "Modified", "Deleted"})]
        /\ entries[p] \in Seq({"Added", "Modified", "Deleted"})
    BY DEF TypeOK
  <1>4. /\ entries'[p] = Tail(entries[p])
        /\ \A r \in Paths \ {p} : entries'[r] = entries[r]
        /\ entries' \in [Paths -> Seq({"Added", "Modified", "Deleted"})]
    BY <1>2, <1>3
  <1>5. TypeOK'
    BY <1>2, <1>4 DEF TypeOK, GitTypeOK, Job
  <1>6. jobs = {} /\ reports = {}
    BY <1>2 DEF StageShape
  <1>7. StageShape' /\ JobsLead' /\ ReportsMatch' /\ OwedIsUnderway'
    BY <1>2, <1>6 DEF StageShape, JobsLead, ReportsMatch, OwedIsUnderway
  <1>8. ReadingEndsUpToDate'
    <2> SUFFICES ASSUME NEW r \in Paths
                 PROVE  /\ entries'[r] # <<>> => r \in listed
                        /\ r \in overlay'.deleted => r \in listed \ quoted
                        /\ Settled(r) =>
                             IF entries'[r] # <<>>
                             THEN entries'[r][Len(entries'[r])] = "Deleted" <=> worktree[r] = Absent
                             ELSE r \in listed \ quoted => content'[r] = worktree[r]
      BY <1>2 DEF ReadingEndsUpToDate, Settled
    <2>1. r \in overlay'.deleted => r \in listed \ quoted
      BY EntryBringsUpToDate DEF ReadingEndsUpToDate
    <2>2. CASE r # p
      BY <1>4, <2>1, <2>2, EntryBringsUpToDate DEF ReadingEndsUpToDate
    <2>3. CASE r = p
      <3>1. p \in listed
        BY EntryBringsUpToDate
      <3>2. Settled(p) => p \notin conflicts
        BY DEF Settled
      <3>3. CASE Tail(entries[p]) = <<>>
        BY <1>4, <2>1, <2>3, <3>1, <3>2, <3>3, EntryBringsUpToDate
      <3>4. CASE Tail(entries[p]) # <<>>
        <4>1. Tail(entries[p])[Len(Tail(entries[p]))] = entries[p][Len(entries[p])]
          BY <1>2, <1>3, <3>4
        <4> QED  BY <1>2, <1>4, <2>1, <2>3, <3>1, <3>4, <4>1 DEF ReadingEndsUpToDate
      <3> QED  BY <3>3, <3>4
    <2> QED  BY <2>2, <2>3
  <1> QED  BY <1>5, <1>7, <1>8

\* resolve_candidates_from_plan_overlay: a file that was read and matches is a
\* candidate of the overlay, under an id that leads back to it.
LEMMA OverlayProposes ==
    ASSUME NEW o, NEW c \in Trees, IsOverlay(o), Mirrors(o, c),
           NEW q \in Queries, NEW p \in Paths, c[p] \in Hits[q]
    PROVE  /\ p \in DOMAIN o.ids
           /\ o.ids[p] \in OverlayCandidates(o, Plan[q])
           /\ o.files[o.ids[p] + 1] = p
PROOF
  <1>1. c[p] \in Contents
    BY QueriesAssumption
  <1>2. p \in DOMAIN o.ids
    BY <1>1, AbsentAssumption DEF Mirrors, Present
  <1>3. /\ o.files[o.ids[p] + 1] = p
        /\ {g \in Grams : o.ids[p] \in o.grams[g]} = GramsOf[c[p]]
    BY <1>2 DEF Mirrors
  <1>4. Passes(Plan[q], GramsOf[c[p]])
    BY PlanSound
  <1>5. Len(o.files) \in Nat /\ o.ids[p] \in AllIds(Len(o.files))
    BY <1>2 DEF IsOverlay
  <1>6. Plan[q] \in [required : SUBSET Grams, alternatives : SUBSET SUBSET Grams]
    BY PlanAssumption
  <1>7. \A g \in Grams : g \in GramsOf[c[p]] => o.ids[p] \in o.grams[g]
    BY <1>3
  <1>8. o.ids[p] \in OverlayIds(o, Plan[q])
    BY <1>4, <1>5, <1>6, <1>7, CandidatesComplete DEF OverlayIds
  <1> QED  BY <1>2, <1>3, <1>8 DEF OverlayCandidates

\* resolve_candidates_from_plan: a file that is what the index holds and
\* matches is a candidate of the baseline.
LEMMA BaselineProposes ==
    ASSUME baseline \in Trees, query \in Queries, NEW p \in Paths, baseline[p] \in Hits[query]
    PROVE  p \in BaselineCandidates
PROOF
  <1> DEFINE files == Present(baseline)
             lookup == Inverted(files, baseline)
  <1>1. baseline[p] \in Contents /\ p \in files
    BY QueriesAssumption, AbsentAssumption DEF Present
  <1>2. files \in SUBSET Paths
    BY DEF Present
  <1>3. Cardinality(files) \in Nat /\ Fid(files, p) \in AllIds(Cardinality(files))
    BY <1>1, <1>2, FidBound
  <1>4. \A g \in Grams : g \in GramsOf[baseline[p]] => Fid(files, p) \in lookup[g]
    BY <1>1 DEF Inverted
  <1>5. Plan[query] \in [required : SUBSET Grams, alternatives : SUBSET SUBSET Grams]
    BY PlanAssumption
  <1>6. Passes(Plan[query], GramsOf[baseline[p]])
    BY PlanSound
  <1> HIDE DEF files, lookup
  <1>7. Fid(files, p) \in Candidates(lookup, Cardinality(files), Plan[query])
    BY <1>3, <1>4, <1>5, <1>6, CandidatesComplete
  <1> QED  BY <1>1, <1>7 DEF BaselineCandidates, FilePaths, files, lookup

\* Every candidate is one: a path of the baseline, or an id of the overlay
\* with a path in its list.
LEMMA JobsAreCandidates ==
    ASSUME TypeOK, NEW job \in Jobs
    PROVE  job \in Job /\ PathOf(job) \in Paths
PROOF
  <1>1. CASE \E p \in BaselineCandidates : job = [overlaid |-> FALSE, at |-> p]
    <2>1. PICK p \in BaselineCandidates : job = [overlaid |-> FALSE, at |-> p]
      BY <1>1
    <2>2. p \in Paths /\ p \in Nat
      BY PathsAssumption DEF BaselineCandidates, FilePaths, Present
    <2> QED  BY <2>1, <2>2 DEF Job, PathOf
  <1>2. CASE \E id \in OverlayCandidates(overlay, Plan[query]) : job = [overlaid |-> TRUE, at |-> id]
    <2>1. PICK id \in OverlayCandidates(overlay, Plan[query]) : job = [overlaid |-> TRUE, at |-> id]
      BY <1>2
    <2>2. IsOverlay(overlay) /\ query \in Queries
      BY DEF TypeOK
    <2>3. id \in AllIds(Len(overlay.files))
      <3>1. Plan[query] \in [required : SUBSET Grams, alternatives : SUBSET SUBSET Grams]
        BY <2>2, PlanAssumption
      <3>2. overlay.grams \in [Grams -> SUBSET AllIds(Len(overlay.files))]
        BY <2>2 DEF IsOverlay
      <3>3. OverlayIds(overlay, Plan[query]) \subseteq AllIds(Len(overlay.files))
        BY <3>1, <3>2, CandidatesBound DEF OverlayIds
      <3> QED  BY <2>1, <3>3 DEF OverlayCandidates
    <2>4. Len(overlay.files) \in Nat /\ overlay.files \in Seq(Paths)
      BY <2>2 DEF IsOverlay
    <2>5. id \in Nat /\ id + 1 \in 1 .. Len(overlay.files)
      BY <2>3, <2>4 DEF AllIds
    <2>6. overlay.files[id + 1] \in Paths
      BY <2>4, <2>5
    <2> QED  BY <2>1, <2>5, <2>6 DEF Job, PathOf
  <1> QED  BY <1>1, <1>2 DEF Jobs
LEMMA ResolveKeepsSearch ==
    ASSUME SearchInv, Mirrors(overlay, content), Resolve
    PROVE  SearchInv'
PROOF
  <1> USE DEF SearchInv, Resolve
  <1>1. /\ jobs' = Jobs /\ stage = "overlay" /\ stage' = "verify" /\ entries = NoEntries
        /\ UNCHANGED <<head, staged, worktree, conflicts, moves>>
        /\ UNCHANGED <<baseline, quoted, query, entries, overlay, reports, content, listed, touched>>
    BY DEF gitVars
  <1>2. reports = {} /\ \A job \in Jobs : job \in Job /\ PathOf(job) \in Paths
    BY <1>1, JobsAreCandidates DEF StageShape
  <1>3. \A job : PathOf(job)' = PathOf(job)
    BY <1>1 DEF PathOf
  <1>4. TypeOK'
    <2>1. jobs' \subseteq Job /\ reports' \subseteq Job
      BY <1>1, <1>2
    <2> QED  BY <1>1, <2>1 DEF TypeOK, GitTypeOK
  <1>5. StageShape' /\ JobsLead' /\ ReportsMatch'
    BY <1>1, <1>2, <1>3 DEF StageShape, JobsLead, ReportsMatch
  <1>6. ReadingEndsUpToDate'
    BY <1>1 DEF ReadingEndsUpToDate, Settled
  <1>7. OwedIsUnderway'
    <2> SUFFICES ASSUME NEW p \in Paths, Owed(p)
                 PROVE  \E job \in Jobs : PathOf(job) = p
      BY <1>1, <1>2, <1>3 DEF OwedIsUnderway, Owed, Settled
    <2>1. baseline \in Trees /\ content \in Trees /\ query \in Queries /\ IsOverlay(overlay)
      BY DEF TypeOK
    <2>2. CASE p \in listed \ quoted
      <3>1. content[p] = worktree[p]
        BY <1>1, <2>2 DEF ReadingEndsUpToDate, Owed, NoEntries
      <3>2. /\ overlay.ids[p] \in OverlayCandidates(overlay, Plan[query])
            /\ overlay.files[overlay.ids[p] + 1] = p
        BY <2>1, <3>1, OverlayProposes DEF Owed
      <3> DEFINE job == [overlaid |-> TRUE, at |-> overlay.ids[p]]
      <3>3. job \in Jobs
        BY <3>2 DEF Jobs
      <3>4. PathOf(job) = p
        BY <3>2 DEF PathOf
      <3> QED  BY <3>3, <3>4
    <2>3. CASE p \notin listed \ quoted
      <3>1. baseline[p] \in Hits[query]
        BY <2>3 DEF Owed
      <3>2. p \in BaselineCandidates
        BY <2>1, <3>1, BaselineProposes
      <3>3. p \notin overlay.deleted
        BY <2>3 DEF ReadingEndsUpToDate
      <3> DEFINE job == [overlaid |-> FALSE, at |-> p]
      <3>4. job \in Jobs
        BY <3>2, <3>3 DEF Jobs
      <3>5. PathOf(job) = p
        BY DEF PathOf
      <3> QED  BY <3>4, <3>5
    <2> QED  BY <2>2, <2>3
  <1> QED  BY <1>4, <1>5, <1>6, <1>7

LEMMA SearchInitially == Init => SearchInv
PROOF
  <1> SUFFICES ASSUME Init PROVE SearchInv
    OBVIOUS
  <1>1. /\ stage = "status" /\ entries = NoEntries /\ overlay = NoneOverlaid
        /\ jobs = {} /\ reports = {} /\ content = Nothing /\ listed = {} /\ touched = {}
    BY DEF Init
  <1>2. TypeOK
    <2>1. NoEntries \in [Paths -> Seq({"Added", "Modified", "Deleted"})] /\ Nothing \in Trees
      BY DEF NoEntries, Nothing, Trees
    <2>2. GitTypeOK
      BY OverlaySearchAssumption DEF Init, GitTypeOK
    <2>3. baseline \in Trees /\ quoted \subseteq Paths /\ query \in Queries
      BY OverlaySearchAssumption DEF Init
    <2> QED  BY <1>1, <2>1, <2>2, <2>3, NoneIsOverlay DEF TypeOK
  <1>3. StageShape /\ JobsLead /\ ReportsMatch /\ OwedIsUnderway
    BY <1>1 DEF StageShape, JobsLead, ReportsMatch, OwedIsUnderway
  <1>4. ReadingEndsUpToDate
    BY <1>1 DEF ReadingEndsUpToDate, NoEntries, NoneOverlaid
  <1> QED  BY <1>2, <1>3, <1>4 DEF SearchInv

\* index_search_with_overlay keeps its promises at every stage, whatever is
\* done to the repository between its steps.
THEOREM SearchInvariant == Spec => []SearchInv
PROOF
  <1>1. SearchInv /\ OverlayInv /\ OverlayInv' /\ [Next]_allVars => SearchInv'
    <2> SUFFICES ASSUME SearchInv, OverlayInv, OverlayInv', [Next]_allVars PROVE SearchInv'
      OBVIOUS
    <2>1. Mirrors(overlay, content) /\ GitTypeOK' /\ IsOverlay(overlay') /\ content' \in Trees
      BY DEF OverlayInv
    <2>2. CASE SearchStep
      <3>1. CASE ReadStatus
        BY <3>1, ReadStatusKeepsSearch
      <3>2. CASE \E p \in Paths : DeletedEntry(p) \/ ReadEntry(p) \/ UnreadEntry(p)
        BY <2>1, <3>2, EntryKeepsSearch
      <3>3. CASE Resolve
        BY <2>1, <3>3, ResolveKeepsSearch
      <3>4. CASE \E job \in jobs : Verify(job)
        BY <3>4, VerifyKeepsSearch
      <3>5. CASE Finish
        BY <3>5, FinishKeepsSearch
      <3> QED  BY <2>2, <3>1, <3>2, <3>3, <3>4, <3>5 DEF SearchStep
    <2>3. CASE /\ stage # "done" /\ Repository
               /\ touched' = IF stage = "status" THEN {} ELSE touched \cup {p \in Paths : Moved(p)}
               /\ UNCHANGED searchVars
      BY <2>1, <2>3, RepositoryKeepsSearch
    <2>4. CASE UNCHANGED allVars
      <3>1. /\ UNCHANGED <<head, staged, worktree, conflicts, moves>>
            /\ UNCHANGED <<baseline, quoted, stage, query, entries, overlay, jobs, reports>>
            /\ UNCHANGED <<content, listed, touched>>
        BY <2>4 DEF allVars, gitVars, searchVars
      <3>2. TypeOK' /\ StageShape' /\ JobsLead'
        BY <3>1 DEF SearchInv, TypeOK, GitTypeOK, StageShape, JobsLead, PathOf, Job
      <3>3. ReadingEndsUpToDate' /\ ReportsMatch'
        BY <3>1 DEF SearchInv, ReadingEndsUpToDate, Settled, ReportsMatch, PathOf
      <3>4. OwedIsUnderway'
        BY <3>1 DEF SearchInv, OwedIsUnderway, Owed, Settled, PathOf
      <3> QED  BY <3>2, <3>3, <3>4 DEF SearchInv
    <2> QED  BY <2>2, <2>3, <2>4 DEF Next
  <1> QED  BY <1>1, SearchInitially, OverlayInvariant, PTL DEF Spec

\* Every variable of the search keeps its type (search.rs, overlay.rs).
THEOREM SearchTypeCorrect == Spec => []TypeOK
PROOF
  <1>1. SearchInv => TypeOK
    BY DEF SearchInv
  <1> QED  BY <1>1, SearchInvariant, PTL

\* Nothing is reported that does not match what the file holds, unless the
\* file moved during the search (the verification of search.rs).
THEOREM OnlyMatchesAreReported == Spec => []OnlyMatches
PROOF
  <1>1. SearchInv => OnlyMatches
    BY DEF SearchInv, ReportsMatch, OnlyMatches, Found
  <1> QED  BY <1>1, SearchInvariant, PTL

\* A search sees every write that git reports, and everything that is as the
\* index holds it (index_search_with_overlay of search.rs).
THEOREM ReadsYourWrites == Spec => []ReadYourWrites
PROOF
  <1>1. SearchInv => ReadYourWrites
    <2> SUFFICES ASSUME SearchInv, stage = "done",
                        NEW p \in Paths \ (touched \cup conflicts),
                        p \in listed \ quoted \/ baseline[p] = worktree[p],
                        worktree[p] \in Hits[query]
                 PROVE  p \in Found
      BY DEF ReadYourWrites, Reported
    <2>1. Owed(p) /\ jobs = {}
      BY DEF Owed, Settled, SearchInv, StageShape
    <2>2. \E job \in jobs \cup reports : PathOf(job) = p
      BY <2>1 DEF SearchInv, OwedIsUnderway
    <2> QED  BY <2>1, <2>2 DEF Found
  <1> QED  BY <1>1, SearchInvariant, PTL
=============================================================================
