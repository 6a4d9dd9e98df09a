------------------------- MODULE IndexSearchProofs -------------------------
(***************************************************************************)
(* Proofs about IndexBuild and IndexSearch, for every corpus and every     *)
(* bound.  Of the builder: whatever is edited and wherever it dies, the    *)
(* complete files of one build agree with each other, and the manifest is  *)
(* never newer than the files written before it.  Of a search: over the    *)
(* index of one build it misses no file that is as it was indexed, for     *)
(* every query with a sound plan and every interleaving with edits, builds *)
(* and crashes; and what any search reports does match.                    *)
(*                                                                         *)
(* The invariants speak of copies of an index file: the one on disk and    *)
(* the one that a reader has opened.  A copy of a build that is still      *)
(* writing holds the index that this build has merged, and a file the      *)
(* build has not reached yet has no copy of this build.                    *)
(***************************************************************************)
EXTENDS IndexSearch, FiniteSetTheorems, TLAPS

-----------------------------------------------------------------------------
(* Of Corpus: FileIds and candidates.                                      *)

\* A FileId is a natural number smaller than the number of files.
LEMMA FidBound ==
    ASSUME NEW D \in SUBSET Paths, NEW p \in D
    PROVE  /\ Cardinality(D) \in Nat
           /\ Fid(D, p) \in AllIds(Cardinality(D))
PROOF
  <1> DEFINE below == {r \in D : r < p}
  <1>1. IsFiniteSet(D)
    BY PathsAssumption, FS_Subset
  <1>2. below \in SUBSET D /\ below # D
    <2>1. p \in Nat
      BY PathsAssumption
    <2>2. p \notin below
      BY <2>1
    <2> QED  BY <2>2
  <1>3. /\ IsFiniteSet(below)
        /\ Cardinality(below) <= Cardinality(D)
        /\ Cardinality(D) = Cardinality(below) => D = below
    BY <1>1, <1>2, FS_Subset
  <1>4. Cardinality(D) \in Nat /\ Cardinality(below) \in Nat
    BY <1>1, <1>3, FS_CardinalityType
  <1> HIDE DEF below
  <1>5. Cardinality(below) \in 0 .. Cardinality(D) - 1
    BY <1>2, <1>3, <1>4
  <1> QED  BY <1>4, <1>5 DEF Fid, AllIds, below

\* The file before another one has a smaller FileId.
LEMMA FidMonotone ==
    ASSUME NEW D \in SUBSET Paths, NEW p \in D, NEW r \in D, p < r
    PROVE  Fid(D, p) # Fid(D, r)
PROOF
  <1> DEFINE belowP == {s \in D : s < p}
             belowR == {s \in D : s < r}
  <1>1. D \subseteq Nat /\ IsFiniteSet(D)
    BY PathsAssumption, FS_Subset
  <1>2. belowP \subseteq belowR
    <2> SUFFICES ASSUME NEW s \in D, s < p  PROVE s < r
      OBVIOUS
    <2> s \in Nat /\ p \in Nat /\ r \in Nat
      BY <1>1
    <2> QED  OBVIOUS
  <1>3. p \in belowR /\ p \notin belowP
    BY <1>1
  <1>4. IsFiniteSet(belowR)
    BY <1>1, FS_Subset
  <1>5. Cardinality(belowP) = Cardinality(belowR) => belowR = belowP
    BY <1>2, <1>4, FS_Subset
  <1> HIDE DEF belowP, belowR
  <1>6. Cardinality(belowP) # Cardinality(belowR)
    BY <1>3, <1>5
  <1> QED  BY <1>6 DEF Fid, belowP, belowR

\* Different files have different FileIds.
LEMMA FidInjective ==
    ASSUME NEW D \in SUBSET Paths, NEW p \in D, NEW r \in D, Fid(D, p) = Fid(D, r)
    PROVE  p = r
PROOF
  <1>1. p \in Nat /\ r \in Nat
    BY PathsAssumption
  <1>2. ~(p < r) /\ ~(r < p)
    BY FidMonotone
  <1> QED  BY <1>1, <1>2

\* In an index whose ids number the very files it was built from, a posting
\* list resolves to the files that have the n-gram.
LEMMA InvertedResolves ==
    ASSUME NEW source \in Trees, NEW g \in Grams
    PROVE  FilePaths(Present(source), Inverted(Present(source), source)[g])
              = {p \in Present(source) : g \in GramsOf[source[p]]}
PROOF
  <1> DEFINE files == Present(source)
             having == {r \in files : g \in GramsOf[source[r]]}
  <1>1. files \in SUBSET Paths
    BY DEF Present
  <1>2. Inverted(files, source)[g] = {Fid(files, p) : p \in having}
    BY DEF Inverted
  <1>3. ASSUME NEW p \in files
        PROVE  Fid(files, p) \in {Fid(files, r) : r \in having} <=> p \in having
    <2>1. ASSUME NEW r \in having, Fid(files, p) = Fid(files, r)
          PROVE  p \in having
      <3>1. r \in files
        OBVIOUS
      <3>2. p = r
        BY <1>1, <1>3, <2>1, <3>1, FidInjective
      <3> QED  BY <3>2
    <2> QED  BY <2>1
  <1> QED  BY <1>2, <1>3 DEF FilePaths

\* Candidate resolution drops no file that passes the plan: if the id is in
\* the posting list of every n-gram of the file, it is a candidate.
LEMMA CandidatesComplete ==
    ASSUME NEW lookup, NEW n \in Nat, NEW id \in AllIds(n), NEW grams,
           NEW plan \in [required : SUBSET Grams, alternatives : SUBSET SUBSET Grams],
           \A g \in Grams : g \in grams => id \in lookup[g],
           Passes(plan, grams)
    PROVE  id \in Candidates(lookup, n, plan)
PROOF
  <1>1. ASSUME NEW hashes \in SUBSET Grams, hashes \subseteq grams
        PROVE  id \in LookupIntersect(lookup, n, hashes)
    <2>1. \A h \in hashes : id \in lookup[h]
      BY <1>1
    <2>2. CASE hashes = {}
      BY <2>2 DEF LookupIntersect
    <2>3. CASE hashes # {}
      <3>1. id \in UNION {lookup[h] : h \in hashes}
        BY <2>1, <2>3
      <3> QED  BY <2>1, <2>3, <3>1 DEF LookupIntersect
    <2> QED  BY <2>2, <2>3
  <1>2. plan.required \in SUBSET Grams /\ plan.alternatives \in SUBSET SUBSET Grams
    OBVIOUS
  <1>3. id \in LookupIntersect(lookup, n, plan.required)
    BY <1>1, <1>2 DEF Passes
  <1>4. ASSUME plan.alternatives # {}
        PROVE  id \in LookupAlternatives(lookup, n, plan.alternatives)
    <2>1. PICK alt \in plan.alternatives : alt \subseteq grams
      BY <1>4 DEF Passes
    <2>2. id \in LookupIntersect(lookup, n, alt)
      BY <1>1, <1>2, <2>1
    <2>3. id \in UNION {LookupIntersect(lookup, n, a) : a \in plan.alternatives}
      BY <2>2
    <2> QED  BY <2>3 DEF LookupAlternatives
  <1> QED  BY <1>3, <1>4 DEF Candidates

-----------------------------------------------------------------------------
(* The builder.                                                            *)

Writing == pc \in {"create", "fill"}

\* The running build has written the file f, or has not come to it yet.
Behind(f) == \/ f = "ngrams" /\ target # "ngrams"
             \/ f = "postings" /\ target = "manifest"
Ahead(f) == pc = "read" \/ (Writing /\ ~Behind(f))

\* A copy `a` of the n-gram table or of the postings.
ListsCopy(f, a) ==
    Complete(a) => /\ a.gen <= builds
                   /\ Ahead(f) => a.gen < builds
                   /\ Writing /\ a.gen = builds => a.lists = inverted

\* A copy of the manifest.
ManifestCopy(m) ==
    Complete(m) => m.gen <= builds /\ (pc # "idle" => m.gen < builds)

SameLists(a, b) ==
    Complete(a) /\ Complete(b) /\ a.gen = b.gen => a.lists = b.lists

\* Postings b and a manifest m of one build: the lists number the files of
\* the walk, which are those the manifest lists and those it lost.
ListsOf(b, m) ==
    Complete(b) /\ Complete(m) /\ b.gen = m.gen
        => b.lists = Inverted(Present(m.source) \cup m.lost, m.source)

BuildInv ==
    /\ TypeOK
    /\ Present(got) \subseteq discovered
    /\ Writing => inverted = Inverted(discovered, got)
    /\ ListsCopy("ngrams", disk["ngrams"])
    /\ ListsCopy("postings", disk["postings"])
    /\ ManifestCopy(disk["manifest"])
    /\ SameLists(disk["ngrams"], disk["postings"])
    /\ ListsOf(disk["postings"], disk["manifest"])
    /\ ManifestIsLast
    /\ Writing /\ target # "ngrams" /\ Complete(disk["ngrams"]) =>
          disk["ngrams"].gen = builds
    /\ Writing /\ target = "manifest" /\ Complete(disk["postings"]) =>
          disk["postings"].gen = builds
    /\ pc = "fill" => ~Complete(disk[target])

-----------------------------------------------------------------------------
(* Types.                                                                  *)

LEMMA StrongTypeInit == Init => TypeOK
PROOF
  <1> SUFFICES ASSUME Init PROVE TypeOK
    OBVIOUS
  <1>1. NoTree \in Trees /\ NoLists \in Lists
    BY DEF NoTree, NoLists, Trees, Lists
  <1> QED
    BY <1>1 DEF Init, TypeOK, Broken, Targets, Stages

LEMMA PayloadType ==
    ASSUME TypeOK
    PROVE  /\ target = "manifest" => Payload \in Manifests
           /\ target # "manifest" => Payload \in Postings
PROOF
  BY DEF TypeOK, Payload, Manifests, Postings

LEMMA InvertedType ==
    ASSUME NEW D \in SUBSET Paths, NEW source \in Trees, Present(source) \subseteq D
    PROVE  Inverted(D, source) \in Lists
PROOF
  <1>1. ASSUME NEW p \in Present(source)
        PROVE  Fid(D, p) \in Nat
    BY <1>1, FidBound DEF AllIds
  <1> QED
    BY <1>1 DEF Inverted, Lists

LEMMA TypePreserved ==
    ASSUME TypeOK, Present(got) \subseteq discovered, [Next]_vars
    PROVE  TypeOK' /\ (Present(got) \subseteq discovered)'
PROOF
  <1> USE DEF TypeOK
  <1>1. ASSUME NEW p \in Paths, NEW c \in Contents \cup {Absent}, Edit(p, c)
        PROVE  TypeOK' /\ (Present(got) \subseteq discovered)'
    BY <1>1 DEF Edit, buildVars, Trees
  <1>2. ASSUME NEW full \in BOOLEAN, StartBuild(full)
        PROVE  TypeOK' /\ (Present(got) \subseteq discovered)'
    BY <1>2 DEF StartBuild, treeVars, Stages, NoTree, Trees, Present
  <1>3. ASSUME NEW p \in Paths, ReadFile(p) \/ SkipFile(p)
        PROVE  TypeOK' /\ (Present(got) \subseteq discovered)'
    BY <1>3 DEF ReadFile, SkipFile, treeVars, Trees, Present
  <1>4. ASSUME Merge
        PROVE  TypeOK' /\ (Present(got) \subseteq discovered)'
    <2>1. Inverted(discovered, got) \in Lists
      BY InvertedType
    <2> QED  BY <1>4, <2>1 DEF Merge, treeVars, Stages, Targets
  <1>5. ASSUME CreateFile
        PROVE  TypeOK' /\ (Present(got) \subseteq discovered)'
    BY <1>5 DEF CreateFile, treeVars, Stages, Targets, Broken
  <1>6. ASSUME FillFile
        PROVE  TypeOK' /\ (Present(got) \subseteq discovered)'
    BY <1>6, PayloadType DEF FillFile, Advance, Following, treeVars, Stages, Targets
  <1>7. ASSUME LoseFlush \/ Abort
        PROVE  TypeOK' /\ (Present(got) \subseteq discovered)'
    BY <1>7 DEF LoseFlush, Abort, Advance, Following, treeVars, Stages, Targets
  <1>8. CASE UNCHANGED vars
    BY <1>8 DEF vars, treeVars, buildVars
  <1> QED
    BY <1>1, <1>2, <1>3, <1>4, <1>5, <1>6, <1>7, <1>8 DEF Next, BuildStep

-----------------------------------------------------------------------------
(* Copies, wherever they are, through a step of the builder.               *)

\* A copy that does not change stays what it is to the builder.
LEMMA CopiesStable ==
    ASSUME TypeOK, [Next]_vars
    PROVE  /\ \A f \in {"ngrams", "postings"} : \A a \in Broken \cup Postings :
                 ListsCopy(f, a) => ListsCopy(f, a)'
           /\ \A m \in Broken \cup Manifests : ManifestCopy(m) => ManifestCopy(m)'
PROOF
  <1> USE DEF ListsCopy, ManifestCopy, Ahead, Behind, Writing, Complete, TypeOK, Targets, Stages
  <1> SUFFICES ASSUME NEW f \in {"ngrams", "postings"},
                      NEW a \in Broken \cup Postings, NEW m \in Broken \cup Manifests
               PROVE  /\ ListsCopy(f, a) => ListsCopy(f, a)'
                      /\ ManifestCopy(m) => ManifestCopy(m)'
    OBVIOUS
  <1>0. /\ a.state = "complete" => a.gen \in Nat
        /\ m.state = "complete" => m.gen \in Nat
        /\ builds \in Nat
    BY DEF Broken, Missing, Legacy, Torn, Postings, Manifests
  <1>1. CASE \E p \in Paths, c \in Contents \cup {Absent} : Edit(p, c)
    BY <1>1 DEF Edit, buildVars
  <1>2. CASE \E full \in BOOLEAN : StartBuild(full)
    BY <1>0, <1>2 DEF StartBuild, treeVars
  <1>3. CASE \E p \in Paths : ReadFile(p) \/ SkipFile(p)
    BY <1>3 DEF ReadFile, SkipFile, treeVars
  <1>4. CASE Merge
    BY <1>0, <1>4 DEF Merge, treeVars
  <1>5. CASE CreateFile
    BY <1>5 DEF CreateFile, treeVars
  <1>6. CASE FillFile \/ LoseFlush
    BY <1>6 DEF FillFile, LoseFlush, Advance, Following, treeVars
  <1>7. CASE Abort
    BY <1>7 DEF Abort, treeVars
  <1>8. CASE UNCHANGED vars
    BY <1>8 DEF vars, treeVars, buildVars
  <1> QED
    BY <1>1, <1>2, <1>3, <1>4, <1>5, <1>6, <1>7, <1>8 DEF Next, BuildStep

\* What FillFile writes agrees with every copy of the other files.
LEMMA PayloadAgrees ==
    ASSUME BuildInv, pc = "fill"
    PROVE  /\ \A b \in Broken \cup Postings :
                 target = "ngrams" /\ ListsCopy("postings", b) => SameLists(Payload, b)
           /\ \A a \in Broken \cup Postings :
                 target = "postings" /\ ListsCopy("ngrams", a) => SameLists(a, Payload)
           /\ \A m \in Broken \cup Manifests :
                 target = "postings" /\ ManifestCopy(m) => ListsOf(Payload, m)
           /\ \A b \in Broken \cup Postings :
                 target = "manifest" /\ ListsCopy("postings", b) => ListsOf(b, Payload)
PROOF
  <1> USE DEF ListsCopy, ManifestCopy, SameLists, ListsOf, Ahead, Behind, Writing, Complete
  <1>0. builds \in Nat
    BY DEF BuildInv, TypeOK
  <1>1. ASSUME NEW b \in Broken \cup Postings, target = "ngrams", ListsCopy("postings", b)
        PROVE  SameLists(Payload, b)
    <2>1. b.state = "complete" => b.gen \in Nat
      BY DEF Broken, Missing, Legacy, Torn, Postings
    <2>2. b.state = "complete" => b.gen < builds
      BY <1>1
    <2> QED  BY <1>0, <1>1, <2>1, <2>2 DEF Payload
  <1>2. ASSUME NEW a \in Broken \cup Postings, target = "postings", ListsCopy("ngrams", a)
        PROVE  SameLists(a, Payload)
    BY <1>2 DEF Payload
  <1>3. ASSUME NEW m \in Broken \cup Manifests, target = "postings", ManifestCopy(m)
        PROVE  ListsOf(Payload, m)
    <2>1. m.state = "complete" => m.gen \in Nat /\ m.gen < builds
      BY <1>3 DEF Broken, Missing, Legacy, Torn, Manifests
    <2> QED  BY <1>0, <1>3, <2>1 DEF Payload
  <1>4. ASSUME NEW b \in Broken \cup Postings, target = "manifest", ListsCopy("postings", b)
        PROVE  ListsOf(b, Payload)
    <2>1. inverted = Inverted(discovered, got) /\ Present(got) \subseteq discovered
      BY DEF BuildInv
    <2>2. Present(got) \cup (discovered \ Present(got)) = discovered
      BY <2>1
    <2>3. /\ Payload.source = got /\ Payload.gen = builds
          /\ Payload.lost = discovered \ Present(got)
      BY <1>4 DEF Payload
    <2>4. Complete(b) /\ b.gen = builds => b.lists = inverted
      BY <1>4
    <2> QED  BY <2>1, <2>2, <2>3, <2>4
  <1> QED  BY <1>1, <1>2, <1>3, <1>4

LEMMA BuildInvInit == Init => BuildInv
PROOF
  <1> SUFFICES ASSUME Init PROVE BuildInv
    OBVIOUS
  <1>1. TypeOK
    BY StrongTypeInit
  <1>2. \A f \in Targets : ~Complete(disk[f])
    BY DEF Init, Missing, Legacy, Complete
  <1>3. Present(got) = {}
    BY DEF Init, NoTree, Present
  <1>4. ~Writing /\ pc # "fill"
    BY DEF Init, Writing
  <1> QED
    BY <1>1, <1>2, <1>3, <1>4
    DEF BuildInv, ListsCopy, ManifestCopy, SameLists, ListsOf, ManifestIsLast, Targets

LEMMA BuildInvPreserved ==
    ASSUME BuildInv, [Next]_vars
    PROVE  BuildInv'
PROOF
  <1> DEFINE N == disk["ngrams"]
             P == disk["postings"]
             M == disk["manifest"]
  <1>a. TypeOK /\ Present(got) \subseteq discovered
    BY DEF BuildInv
  <1>b. TypeOK' /\ (Present(got) \subseteq discovered)'
    BY <1>a, TypePreserved
  <1>c. N \in Broken \cup Postings /\ P \in Broken \cup Postings /\ M \in Broken \cup Manifests
    BY <1>a DEF TypeOK
  <1>d. \A f \in {"ngrams", "postings"} : \A a \in Broken \cup Postings :
            ListsCopy(f, a) => ListsCopy(f, a)'
    BY <1>a, CopiesStable
  <1>e. \A m \in Broken \cup Manifests : ManifestCopy(m) => ManifestCopy(m)'
    BY <1>a, CopiesStable
  <1>f. /\ builds \in Nat
        /\ Complete(N) => N.gen \in Nat
        /\ Complete(P) => P.gen \in Nat
        /\ Complete(M) => M.gen \in Nat
    BY <1>a, <1>c DEF TypeOK, Complete, Broken, Missing, Legacy, Torn, Postings, Manifests
  \* A step that leaves the three files alone.
  <1>1. ASSUME disk' = disk,
               Writing' => (inverted = Inverted(discovered, got))',
               (Writing /\ target # "ngrams")' =>
                   \/ builds' = builds /\ Writing /\ target # "ngrams"
                   \/ builds' = builds /\ Writing /\ ~Complete(N),
               (Writing /\ target = "manifest")' =>
                   \/ builds' = builds /\ Writing /\ target = "manifest"
                   \/ builds' = builds /\ Writing /\ ~Complete(P),
               (pc = "fill")' => pc = "fill" /\ target' = target
        PROVE  BuildInv'
    <2>1. ListsCopy("ngrams", disk["ngrams"])' /\ ListsCopy("postings", disk["postings"])'
      <3> PICK a, b : a = N /\ b = P
        OBVIOUS
      <3>1. ListsCopy("ngrams", a)' /\ ListsCopy("postings", b)'
        BY <1>c, <1>d DEF BuildInv
      <3> QED  BY <1>1, <3>1
    <2>2. ManifestCopy(disk["manifest"])'
      <3> PICK m : m = M
        OBVIOUS
      <3>1. ManifestCopy(m)'
        BY <1>c, <1>e DEF BuildInv
      <3> QED  BY <1>1, <3>1
    <2>3. /\ SameLists(disk["ngrams"], disk["postings"])'
          /\ ListsOf(disk["postings"], disk["manifest"])'
          /\ ManifestIsLast'
      BY <1>1 DEF BuildInv, SameLists, ListsOf, ManifestIsLast, Complete
    <2>4. /\ (Writing /\ target # "ngrams" /\ Complete(disk["ngrams"]))' =>
                (disk["ngrams"].gen = builds)'
          /\ (Writing /\ target = "manifest" /\ Complete(disk["postings"]))' =>
                (disk["postings"].gen = builds)'
          /\ (pc = "fill")' => (~Complete(disk[target]))'
      BY <1>1 DEF BuildInv, Complete
    <2> QED  BY <1>1, <1>b, <2>1, <2>2, <2>3, <2>4 DEF BuildInv
  <1>2. ASSUME NEW p \in Paths, NEW c \in Contents \cup {Absent}, Edit(p, c)
        PROVE  BuildInv'
    BY <1>1, <1>2 DEF Edit, buildVars, Writing, BuildInv
  <1>3. ASSUME NEW full \in BOOLEAN, StartBuild(full)
        PROVE  BuildInv'
    BY <1>1, <1>3 DEF StartBuild, Writing
  <1>4. ASSUME NEW p \in Paths, ReadFile(p) \/ SkipFile(p)
        PROVE  BuildInv'
    BY <1>1, <1>4 DEF ReadFile, SkipFile, Writing
  <1>5. ASSUME Merge
        PROVE  BuildInv'
    BY <1>1, <1>5 DEF Merge, Writing
  <1>6. ASSUME LoseFlush
        PROVE  BuildInv'
    <2>1. pc = "fill" /\ ~Complete(disk[target]) /\ target \in Targets
      BY <1>6, <1>a DEF LoseFlush, BuildInv, TypeOK
    <2>2. target' # "ngrams" => target # "manifest"
      BY <1>6, <2>1 DEF LoseFlush, Advance, Following, Targets
    <2>3. target' = "manifest" => target = "postings"
      BY <1>6, <2>1 DEF LoseFlush, Advance, Following, Targets
    <2>4. disk' = disk /\ pc' # "fill" /\ UNCHANGED <<builds, inverted, discovered, got>>
      BY <1>6 DEF LoseFlush, Advance
    <2>5. inverted = Inverted(discovered, got) /\ Writing
      BY <2>1 DEF BuildInv, Writing
    <2>6. target = "ngrams" => ~Complete(N)
      BY <2>1
    <2>7. target = "postings" => ~Complete(P)
      BY <2>1
    <2> QED  BY <1>1, <2>1, <2>2, <2>3, <2>4, <2>5, <2>6, <2>7 DEF Targets
  <1>7. ASSUME Abort
        PROVE  BuildInv'
    BY <1>1, <1>7 DEF Abort, Writing
  <1>8. CASE UNCHANGED vars
    BY <1>1, <1>8 DEF vars, treeVars, buildVars, Writing, BuildInv
  <1>9. ASSUME CreateFile
        PROVE  BuildInv'
    <2>1. /\ \A f \in Targets : disk'[f] = disk[f] \/ ~Complete(disk'[f])
          /\ ~Complete(disk'[target])
      BY <1>9, <1>a DEF CreateFile, TypeOK, Complete, Torn
    <2>2. /\ UNCHANGED <<target, builds, inverted, discovered, got>>
          /\ Writing /\ Writing' /\ pc' = "fill"
      BY <1>9 DEF CreateFile, Writing
    <2>3. ListsCopy("ngrams", disk["ngrams"])' /\ ListsCopy("postings", disk["postings"])'
      <3> PICK a, b : a = N /\ b = P
        OBVIOUS
      <3>1. ListsCopy("ngrams", a)' /\ ListsCopy("postings", b)'
        BY <1>c, <1>d DEF BuildInv
      <3> QED  BY <2>1, <3>1 DEF Targets, ListsCopy
    <2>4. ManifestCopy(disk["manifest"])'
      <3> PICK m : m = M
        OBVIOUS
      <3>1. ManifestCopy(m)'
        BY <1>c, <1>e DEF BuildInv
      <3> QED  BY <2>1, <3>1 DEF Targets, ManifestCopy
    <2>5. /\ SameLists(disk["ngrams"], disk["postings"])'
          /\ ListsOf(disk["postings"], disk["manifest"])'
          /\ ManifestIsLast'
      BY <2>1 DEF BuildInv, SameLists, ListsOf, ManifestIsLast, Targets
    <2>6. /\ (Writing /\ target # "ngrams" /\ Complete(disk["ngrams"]))' =>
                (disk["ngrams"].gen = builds)'
          /\ (Writing /\ target = "manifest" /\ Complete(disk["postings"]))' =>
                (disk["postings"].gen = builds)'
          /\ (pc = "fill")' => (~Complete(disk[target]))'
      BY <2>1, <2>2 DEF BuildInv, Targets
    <2>7. Writing' => (inverted = Inverted(discovered, got))'
      BY <2>2 DEF BuildInv
    <2> QED  BY <1>b, <2>3, <2>4, <2>5, <2>6, <2>7 DEF BuildInv
  <1>10. ASSUME FillFile
        PROVE  BuildInv'
    <2> PICK x : x = Payload
      OBVIOUS
    <2> PICK a, b, m : a = N /\ b = P /\ m = M
      OBVIOUS
    <2>1. /\ pc = "fill" /\ target \in Targets /\ Writing
          /\ x.gen = builds /\ Complete(x)
          /\ target # "manifest" => x.lists = inverted
      BY <1>10, <1>a DEF FillFile, TypeOK, Writing, Payload, Complete
    <2>2. /\ UNCHANGED <<builds, inverted, discovered, got>>
          /\ pc' = IF target = "manifest" THEN "idle" ELSE "create"
          /\ target = "ngrams" => target' = "postings"
          /\ target = "postings" => target' = "manifest"
          /\ target = "manifest" => target' = "ngrams"
      BY <1>10, <2>1 DEF FillFile, Advance, Following, Targets
    <2>3. /\ disk'["ngrams"] = IF target = "ngrams" THEN x ELSE a
          /\ disk'["postings"] = IF target = "postings" THEN x ELSE b
          /\ disk'["manifest"] = IF target = "manifest" THEN x ELSE m
      BY <1>10, <1>a, <2>1 DEF FillFile, TypeOK, Targets
    <2>4. ListsCopy("ngrams", a)' /\ ListsCopy("postings", b)' /\ ManifestCopy(m)'
      BY <1>c, <1>d, <1>e DEF BuildInv
    <2>5. ListsCopy("ngrams", a) /\ ListsCopy("postings", b) /\ ManifestCopy(m)
      BY DEF BuildInv
    <2>6. ListsCopy("ngrams", disk["ngrams"])' /\ ListsCopy("postings", disk["postings"])'
      BY <1>f, <2>1, <2>2, <2>3, <2>4 DEF ListsCopy, Ahead, Behind, Writing
    <2>7. ManifestCopy(disk["manifest"])'
      BY <1>f, <2>1, <2>2, <2>3, <2>4 DEF ManifestCopy
    <2>8. SameLists(disk["ngrams"], disk["postings"])'
      <3>1. target = "ngrams" => SameLists(x, b)
        BY <1>c, <2>1, <2>5, PayloadAgrees
      <3>2. target = "postings" => SameLists(a, x)
        BY <1>c, <2>1, <2>5, PayloadAgrees
      <3>3. SameLists(a, b)
        BY DEF BuildInv
      <3> QED  BY <2>3, <3>1, <3>2, <3>3 DEF SameLists
    <2>9. ListsOf(disk["postings"], disk["manifest"])'
      <3>1. target = "postings" => ListsOf(x, m)
        BY <1>c, <2>1, <2>5, PayloadAgrees
      <3>2. target = "manifest" => ListsOf(b, x)
        BY <1>c, <2>1, <2>5, PayloadAgrees
      <3>3. ListsOf(b, m)
        BY DEF BuildInv
      <3> QED  BY <2>3, <3>1, <3>2, <3>3 DEF ListsOf
    <2>10. /\ (Writing /\ target # "ngrams" /\ Complete(disk["ngrams"]))' =>
                (disk["ngrams"].gen = builds)'
           /\ (Writing /\ target = "manifest" /\ Complete(disk["postings"]))' =>
                (disk["postings"].gen = builds)'
           /\ (pc = "fill")' => (~Complete(disk[target]))'
      BY <2>1, <2>2, <2>3 DEF BuildInv, Writing, Targets
    <2>11. ManifestIsLast'
      <3>1. Complete(a) => a.gen <= builds
        BY <2>5 DEF ListsCopy
      <3>2. Complete(b) => b.gen <= builds
        BY <2>5 DEF ListsCopy
      <3>3. Complete(m) => m.gen <= builds
        BY <2>5 DEF ManifestCopy
      <3>4. /\ target # "ngrams" /\ Complete(a) => a.gen = builds
            /\ target = "manifest" /\ Complete(b) => b.gen = builds
        BY <2>1 DEF BuildInv
      <3>5. /\ Complete(a) /\ Complete(b) => a.gen >= b.gen
            /\ Complete(b) /\ Complete(m) => b.gen >= m.gen
        BY DEF BuildInv, ManifestIsLast
      <3> QED  BY <1>f, <2>1, <2>3, <3>1, <3>2, <3>3, <3>4, <3>5 DEF ManifestIsLast, Targets
    <2>12. Writing' => (inverted = Inverted(discovered, got))'
      BY <2>1, <2>2 DEF BuildInv
    <2> QED  BY <1>b, <2>6, <2>7, <2>8, <2>9, <2>10, <2>11, <2>12 DEF BuildInv
  <1> QED
    BY <1>2, <1>3, <1>4, <1>5, <1>6, <1>7, <1>8, <1>9, <1>10 DEF Next, BuildStep

\* The inductive invariant of the build, whatever crashes and write errors
\* there are (builder.rs).
THEOREM BuildInvariant == Spec => []BuildInv
PROOF
  <1>1. Init => BuildInv
    BY BuildInvInit
  <1>2. BuildInv /\ [Next]_vars => BuildInv'
    BY BuildInvPreserved
  <1> QED  BY <1>1, <1>2, PTL DEF Spec

-----------------------------------------------------------------------------
(* The theorems.                                                           *)

\* Type correctness.
THEOREM TypeCorrect == Spec => []TypeOK
PROOF
  <1>1. BuildInv => TypeOK
    BY DEF BuildInv
  <1> QED  BY <1>1, BuildInvariant, PTL

\* The complete files of one build agree, and if the build lost no file, its
\* ids resolve to the files the n-grams come from (builder.rs, reader.rs).
THEOREM BuildsAlwaysAgree == Spec => []BuildsAgree
PROOF
  <1>1. ASSUME BuildInv PROVE BuildsAgree
    <2> SUFFICES ASSUME OneBuild(disk)
                 PROVE  /\ disk["ngrams"].lists = disk["postings"].lists
                        /\ disk["manifest"].lost = {} => IdsResolve(disk)
      BY DEF BuildsAgree
    <2>1. /\ Complete(disk["ngrams"]) /\ Complete(disk["postings"]) /\ Complete(disk["manifest"])
          /\ disk["ngrams"].gen = disk["postings"].gen
          /\ disk["postings"].gen = disk["manifest"].gen
      BY DEF OneBuild, Targets
    <2>2. disk["ngrams"].lists = disk["postings"].lists
      BY <1>1, <2>1 DEF BuildInv, SameLists
    <2>3. ASSUME disk["manifest"].lost = {} PROVE IdsResolve(disk)
      <3> PICK source : source = disk["manifest"].source
        OBVIOUS
      <3>1. source \in Trees
        BY <1>1, <2>1 DEF BuildInv, TypeOK, Complete, Broken, Missing, Legacy, Torn, Manifests
      <3>2. disk["postings"].lists = Inverted(Present(source), source)
        BY <1>1, <2>1, <2>3 DEF BuildInv, ListsOf
      <3>3. \A g \in Grams : FilePaths(Present(source), disk["postings"].lists[g])
                                = {p \in Present(source) : g \in GramsOf[source[p]]}
        BY <3>1, <3>2, InvertedResolves
      <3> QED  BY <3>3 DEF IdsResolve
    <2> QED  BY <2>2, <2>3
  <1> QED  BY <1>1, BuildInvariant, PTL

\* No complete file on disk is older than a complete file written after it.
THEOREM ManifestIsAlwaysLast == Spec => []ManifestIsLast
PROOF
  <1>1. BuildInv => ManifestIsLast
    BY DEF BuildInv
  <1> QED  BY <1>1, BuildInvariant, PTL

-----------------------------------------------------------------------------
(* The refinement.                                                         *)

\* The abstract specification numbers and resolves files as the builder and
\* the reader do.
LEMMA SameCorpus ==
    /\ \A tree : Published!Present(tree) = Present(tree)
    /\ \A files, ids : Published!FilePaths(files, ids) = FilePaths(files, ids)
    /\ \A D, source : Published!Inverted(D, source) = Inverted(D, source)
PROOF
  <1>1. ASSUME NEW S PROVE Published!Cardinality(S) = Cardinality(S)
    BY DEF Published!Cardinality, Cardinality
  <1>2. ASSUME NEW D, NEW p PROVE Published!Fid(D, p) = Fid(D, p)
    BY <1>1 DEF Published!Fid, Fid
  <1>3. ASSUME NEW tree PROVE Published!Present(tree) = Present(tree)
    BY DEF Published!Present, Present
  <1>4. ASSUME NEW files, NEW ids PROVE Published!FilePaths(files, ids) = FilePaths(files, ids)
    BY <1>2 DEF Published!FilePaths, FilePaths
  <1>5. ASSUME NEW D, NEW source PROVE Published!Inverted(D, source) = Inverted(D, source)
    BY <1>2, <1>3 DEF Published!Inverted, Inverted
  <1> QED  BY <1>3, <1>4, <1>5

\* The step that fills the n-gram table or the postings brings the answers of
\* the draft's lists over the old list of files, or any; or none.
LEMMA FillMixes ==
    ASSUME BuildInv, BuildInv', FillFile, target # "manifest"
    PROVE  Published!Garble \/ Published!Mix \/ (Answers' = Answers /\ Listing' = Listing)
PROOF
  <1>1. /\ pc = "fill" /\ target \in {"ngrams", "postings"} /\ ~Complete(disk[target])
        /\ UNCHANGED <<worktree, got, builds, discovered, inverted>>
        /\ Writing /\ inverted = Inverted(discovered, got)
    BY DEF FillFile, Advance, treeVars, BuildInv, TypeOK, Targets, Writing
  <1>2. /\ disk'["manifest"] = disk["manifest"]
        /\ disk'[target] = Payload
        /\ Payload.lists = inverted /\ Payload.gen = builds
        /\ \A f \in Targets : f # target => disk'[f] = disk[f]
    BY <1>1 DEF FillFile, BuildInv, TypeOK, Targets, Payload
  <1>3. Listing' = Listing
    BY <1>2 DEF Listing, Complete
  <1>4. Answers = {}
    BY <1>1 DEF Answers, IndexOpens, Targets
  <1>5. CASE ~IndexOpens'
    <2>1. Answers' = {}
      BY <1>5 DEF Answers
    <2> QED  BY <1>3, <1>4, <2>1
  <1>6. CASE IndexOpens'
    <2> PICK files : files = Present(disk["manifest"].source)
      OBVIOUS
    <2>1. Complete(disk["manifest"]) /\ Listing = {files}
      BY <1>2, <1>6 DEF IndexOpens, Targets, Complete, Listing
    <2>2. CASE (disk["ngrams"].lists = disk["postings"].lists)'
      <3>1. Answers' = {Published!Resolved(files, disk'["postings"].lists)}
        BY <1>2, <1>6, <2>2, SameCorpus DEF Answers, IndexOpens, Published!Resolved
      <3>2. disk'["postings"].lists = inverted
        BY <1>1, <1>2, <2>2, target \in Targets DEF Targets
      <3>3. Published!Inverted(discovered, got) = Inverted(discovered, got)
        BY SameCorpus
      <3> QED
        BY <1>1, <1>3, <1>4, <2>1, <3>1, <3>2, <3>3
        DEF Published!Mix, Published!Give, Published!Refused
    <2>3. CASE ~(disk["ngrams"].lists = disk["postings"].lists)'
      <3>1. Answers' = [Grams -> SUBSET files]
        BY <1>2, <1>6, <2>3 DEF Answers, IndexOpens
      <3> QED
        BY <1>1, <1>3, <1>4, <2>1, <3>1 DEF Published!Garble, Published!Give, Published!Refused
    <2> QED  BY <2>2, <2>3
  <1> QED  BY <1>5, <1>6

\* The step that fills the manifest commits the draft, if the other two files
\* are complete: they are then of the same build.
LEMMA FillCommits ==
    ASSUME BuildInv, BuildInv', FillFile, target = "manifest"
    PROVE  Published!Commit \/ Published!CommitShifted \/ Published!List
PROOF
  <1>1. /\ pc = "fill" /\ ~Complete(disk["manifest"])
        /\ UNCHANGED <<worktree, got, builds, discovered, inverted>>
        /\ Writing /\ inverted = Inverted(discovered, got)
        /\ got \in Trees
    BY DEF FillFile, Advance, treeVars, BuildInv, TypeOK, Writing
  <1>2. /\ disk'["manifest"] = Payload
        /\ Payload.source = got /\ Complete(Payload)
        /\ disk'["ngrams"] = disk["ngrams"] /\ disk'["postings"] = disk["postings"]
    BY DEF FillFile, BuildInv, TypeOK, Targets, Payload, Complete
  <1>3. Present(got) = Published!Present(got)
    BY SameCorpus
  <1>4. Listing' = {Published!Present(got)}
    BY <1>2, <1>3 DEF Listing
  <1>5. Answers = {}
    BY <1>1 DEF Answers, IndexOpens, Targets
  <1>6. CASE ~IndexOpens'
    <2>1. Answers' = {}
      BY <1>6 DEF Answers
    <2> QED  BY <1>1, <1>4, <1>5, <2>1 DEF Published!List, Published!Give, Published!Refused
  <1>7. CASE IndexOpens'
    <2>1. Complete(disk["ngrams"]) /\ Complete(disk["postings"])
      BY <1>2, <1>7 DEF IndexOpens, Targets, Complete
    <2>2. disk["ngrams"].gen = builds /\ disk["postings"].gen = builds
      BY <1>1, <2>1 DEF BuildInv
    <2>3. disk["ngrams"].lists = inverted /\ disk["postings"].lists = inverted
      BY <1>1, <2>1, <2>2 DEF BuildInv, ListsCopy
    <2>4. Answers' = {Published!Resolved(Present(got), Inverted(discovered, got))}
      BY <1>1, <1>2, <1>7, <2>3, SameCorpus DEF Answers, IndexOpens, Published!Resolved
    <2>5. CASE discovered = Present(got)
      <3>1. Published!Resolved(Present(got), Inverted(discovered, got))
               = Published!AnswersOf(got)
        BY <1>1, <2>5, SameCorpus, InvertedResolves
        DEF Published!Resolved, Published!AnswersOf
      <3> QED
        BY <1>1, <1>3, <1>4, <1>5, <2>4, <2>5, <3>1
        DEF Published!Commit, Published!Give, Published!Refused
    <2>6. CASE discovered # Present(got)
      <3>1. Published!Inverted(discovered, got) = Inverted(discovered, got)
        BY SameCorpus
      <3> QED
        BY <1>1, <1>3, <1>4, <1>5, <2>4, <2>6, <3>1
        DEF Published!CommitShifted, Published!Give, Published!Refused
    <2> QED  BY <2>5, <2>6
  <1> QED  BY <1>6, <1>7

LEMMA StepsRefine ==
    ASSUME BuildInv, BuildInv', [Next]_vars
    PROVE  [Published!Next]_(Published!vars)
PROOF
  <1> USE DEF Published!Next, Published!vars
  <1>1. ASSUME disk' = disk PROVE Answers' = Answers /\ Listing' = Listing
    BY <1>1 DEF Answers, Listing, IndexOpens, Complete
  <1>2. ASSUME NEW p \in Paths, NEW c \in Contents \cup {Absent}, Edit(p, c)
        PROVE  Published!Next
    <2>1. worktree' \in Trees
      BY DEF BuildInv, TypeOK
    <2> QED
      BY <1>1, <1>2, <2>1 DEF Edit, buildVars, Published!Edit, Trees, Published!Trees
  <1>3. ASSUME NEW full \in BOOLEAN, StartBuild(full)
        PROVE  Published!Next
    BY <1>1, <1>3
    DEF StartBuild, treeVars, Published!Start, NoTree, Published!Blank, Present, Published!Present
  <1>4. ASSUME NEW p \in Paths, ReadFile(p)
        PROVE  Published!Next
    BY <1>1, <1>4 DEF ReadFile, treeVars, Published!Read, BuildInv, TypeOK
  <1>5. CASE (\E p \in Paths : SkipFile(p)) \/ Merge \/ LoseFlush \/ Abort \/ UNCHANGED vars
    <2>1. UNCHANGED <<worktree, discovered, got, disk>>
      BY <1>5 DEF SkipFile, Merge, LoseFlush, Advance, Abort, vars, treeVars, buildVars
    <2> QED  BY <1>1, <2>1
  <1>6. CASE CreateFile
    <2>1. /\ target \in Targets /\ ~Complete(disk'[target])
          /\ \A f \in Targets : f # target => disk'[f] = disk[f]
          /\ UNCHANGED <<worktree, discovered, got>>
      BY <1>6 DEF CreateFile, treeVars, BuildInv, TypeOK, Complete, Torn
    <2>2. Answers' = {}
      BY <2>1 DEF Answers, IndexOpens
    <2>3. Listing' \in {Listing, {}}
      BY <2>1 DEF Listing, Targets
    <2> QED  BY <2>1, <2>2, <2>3 DEF Published!Withdraw, Published!Refused
  <1>7. CASE FillFile
    <2>1. UNCHANGED <<worktree, discovered, got>>
      BY <1>7 DEF FillFile, Advance, treeVars
    <2> QED  BY <1>7, <2>1, FillMixes, FillCommits
  <1> QED
    BY <1>2, <1>3, <1>4, <1>5, <1>6, <1>7 DEF Next, BuildStep

\* Whatever is edited and wherever builds die, the three files of the index
\* directory give readers the answers that PublishedIndex allows: those of the
\* draft whose files are listed, the lists of a newer draft over an older list
\* of files, anything, or none, and none between any two (builder.rs).
THEOREM IndexImplementsPublished == Spec => ImplementsPublishedIndex
PROOF
  <1>1. Init => Published!Init
    <2> SUFFICES ASSUME Init PROVE Published!Init
      OBVIOUS
    <2>1. \A f \in Targets : ~Complete(disk[f])
      BY DEF Init, Missing, Legacy, Complete
    <2>2. Answers = {} /\ Listing = {}
      BY <2>1 DEF Answers, Listing, IndexOpens, Targets
    <2> QED
      BY <2>2 DEF Init, Published!Init, Trees, Published!Trees, NoTree, Published!Blank,
                  Published!Refused
  <1>2. BuildInv /\ BuildInv' /\ [Next]_vars => [Published!Next]_(Published!vars)
    BY StepsRefine
  <1> QED
    BY <1>1, <1>2, BuildInvariant, PTL DEF Spec, ImplementsPublishedIndex, Published!Spec

-----------------------------------------------------------------------------
(* The search.  The files a reader has opened may be of an earlier build   *)
(* than those on disk, and the builder may be writing while the reader     *)
(* opens them.  The invariant therefore relates all copies of the three    *)
(* files: those of one build agree, however far apart in time they were    *)
(* read.                                                                   *)

Tables     == {disk["ngrams"], view["ngrams"]}
PostingsOf == {disk["postings"], view["postings"]}
ManifestsOf == {disk["manifest"], view["manifest"]}

CopiesAgree ==
    /\ \A a \in Tables : ListsCopy("ngrams", a)
    /\ \A b \in PostingsOf : ListsCopy("postings", b)
    /\ \A m \in ManifestsOf : ManifestCopy(m)
    /\ \A a \in Tables, b \in PostingsOf : SameLists(a, b)
    /\ \A b \in PostingsOf, m \in ManifestsOf : ListsOf(b, m)

\* What is mapped is what is on disk, until it is rewritten.
MappingIsDisk ==
    ~remapped => /\ spc \in Mapping => view["ngrams"] = disk["ngrams"]
                 /\ spc \in {"openManifest", "lookup"} => view["postings"] = disk["postings"]

\* What a search must still find is in reach: found, or yet to be verified.
InReach ==
    /\ (spc \in {"verify", "done"} /\ OneBuild(view) /\ view["manifest"].lost = {} /\ ~remapped)
          => MustFind \subseteq found \cup (IF spc = "verify" THEN todo ELSE {})
    /\ (spc \in {"scan", "done"} /\ view = NoView)
          => \A p \in Paths \ (touched \cup Unreadable) :
                worktree[p] \in Hits[query] =>
                    p \in found \cup (IF spc = "scan" THEN todo ELSE {})

SearchInv ==
    /\ BuildInv
    /\ SearchTypeOK
    /\ CopiesAgree
    /\ spc \in {"openPostings", "openManifest", "lookup", "verify"} =>
          Complete(view["ngrams"])
    /\ spc = "scan" => view = NoView
    /\ MappingIsDisk
    /\ InReach
    /\ FoundIsVerified

-----------------------------------------------------------------------------
(* Candidates.                                                             *)

\* A file that is in a full index and matches the query is a candidate.
LEMMA IndexedIsCandidate ==
    ASSUME NEW source \in Trees, NEW q \in Queries, NEW p \in Paths,
           source[p] \in Hits[q]
    PROVE  p \in FilePaths(Present(source),
                    Candidates(Inverted(Present(source), source),
                               Cardinality(Present(source)), Plan[q]))
PROOF
  <1> DEFINE files == Present(source)
             lists == Inverted(files, source)
             grams == GramsOf[source[p]]
  <1>1. source[p] \in Contents /\ source[p] # Absent
    BY QueriesAssumption, AbsentAssumption
  <1>2. p \in files /\ files \in SUBSET Paths
    BY <1>1 DEF Present
  <1>3. Cardinality(files) \in Nat /\ Fid(files, p) \in AllIds(Cardinality(files))
    BY <1>2, FidBound
  <1>4. \A g \in Grams : g \in grams => Fid(files, p) \in lists[g]
    BY <1>2 DEF Inverted
  <1>5. Passes(Plan[q], grams)
    BY PlanSound
  <1>6. Plan[q] \in [required : SUBSET Grams, alternatives : SUBSET SUBSET Grams]
    BY PlanAssumption
  <1> HIDE DEF files, lists, grams
  <1>7. Fid(files, p) \in Candidates(lists, Cardinality(files), Plan[q])
    BY <1>3, <1>4, <1>5, <1>6, CandidatesComplete
  <1> QED  BY <1>2, <1>7 DEF FilePaths, files, lists

-----------------------------------------------------------------------------
(* The invariant: initial states.                                          *)

LEMMA SearchInvInit == SearchInit => SearchInv
PROOF
  <1> SUFFICES ASSUME SearchInit PROVE SearchInv
    OBVIOUS
  <1>1. BuildInv
    BY BuildInvInit DEF SearchInit
  <1>2. \A f \in Targets : view[f] = Missing /\ ~Complete(view[f]) /\ ~Complete(disk[f])
    BY DEF SearchInit, Init, NoView, Missing, Legacy, Complete
  <1>3. CopiesAgree
    BY <1>2 DEF CopiesAgree, Tables, PostingsOf, ManifestsOf, ListsCopy, ManifestCopy,
                SameLists, ListsOf, Targets
  <1>4. SearchTypeOK
    BY <1>1, <1>2, SearchAssumption
    DEF SearchInit, SearchTypeOK, BuildInv, SearchStages, NoView, Targets, Broken
  <1>5. MappingIsDisk /\ InReach /\ FoundIsVerified
    BY DEF SearchInit, MappingIsDisk, Mapping, InReach, FoundIsVerified
  <1> QED
    BY <1>1, <1>3, <1>4, <1>5 DEF SearchInit, SearchInv

-----------------------------------------------------------------------------
(* The invariant: types.                                                   *)

LEMMA SearchTypePreserved ==
    ASSUME SearchTypeOK, BuildInv, [SearchNext]_allVars
    PROVE  SearchTypeOK'
PROOF
  <1> USE DEF SearchTypeOK
  <1>1. ASSUME Beside PROVE SearchTypeOK'
    <2>1. TypeOK'
      BY <1>1, TypePreserved DEF Beside, BuildInv
    <2> QED  BY <1>1, <2>1 DEF Beside, searchVars
  <1>2. ASSUME UNCHANGED vars PROVE TypeOK'
    BY <1>2, TypePreserved DEF BuildInv
  <1>3. ASSUME NEW q \in Queries, NEW scan \in BOOLEAN, StartSearch(q, scan) PROVE SearchTypeOK'
    <2>1. TypeOK'
      BY <1>2, <1>3 DEF StartSearch, Scanned
    <2>2. spc' \in SearchStages /\ todo' \subseteq Paths
      BY <1>3 DEF StartSearch, Scanned, SearchStages, Present
    <2>3. /\ NoView \in [Targets -> Broken \cup Postings \cup Manifests]
          /\ \A f \in Targets : NoView[f] = Missing
      BY DEF NoView, Broken
    <2>4. /\ query' \in Queries /\ view' = NoView /\ found' = {} /\ searches' \in Nat
          /\ touched' = {} /\ remapped' = FALSE /\ exclusive' = exclusive
      BY <1>3 DEF StartSearch, Scanned
    <2> QED
      BY <2>1, <2>2, <2>3, <2>4 DEF Targets
  <1>4. ASSUME NEW stage, NEW f \in Targets, NEW next \in SearchStages, Open(stage, f, next)
        PROVE  SearchTypeOK'
    <2>1. TypeOK'
      BY <1>2, <1>4 DEF Open
    <2>2. /\ disk["ngrams"] \in Broken \cup Postings
          /\ disk["postings"] \in Broken \cup Postings
          /\ disk["manifest"] \in Broken \cup Manifests
      BY DEF TypeOK
    <2>3. \A x \in Broken : ~Complete(x)
      BY DEF Broken, Missing, Legacy, Torn, Complete
    <2> QED
      BY <1>4, <2>1, <2>2, <2>3 DEF Open, SearchStages, Targets, history
  <1>5. ASSUME ResolveCandidates \/ LookupDies \/ Finish PROVE SearchTypeOK'
    <2>1. TypeOK'
      BY <1>2, <1>5 DEF ResolveCandidates, LookupDies, Finish
    <2> QED
      BY <1>5, <2>1
      DEF ResolveCandidates, LookupDies, Finish, SearchStages, history, FilePaths, Present
  <1>6. ASSUME NEW p \in Paths, Verify(p) PROVE SearchTypeOK'
    <2>1. TypeOK'
      BY <1>2, <1>6 DEF Verify
    <2> QED  BY <1>6, <2>1 DEF Verify, history
  <1>7. ASSUME UNCHANGED allVars PROVE SearchTypeOK'
    <2>1. TypeOK'
      BY <1>2, <1>7 DEF allVars
    <2> QED  BY <1>7, <2>1 DEF allVars, searchVars, history
  <1>8. ASSUME OpenNgrams \/ OpenPostings \/ OpenManifest PROVE SearchTypeOK'
    BY <1>4, <1>8 DEF OpenNgrams, OpenPostings, OpenManifest, Targets, SearchStages
  <1> QED
    BY <1>1, <1>3, <1>5, <1>6, <1>7, <1>8 DEF SearchNext, SearchStep

-----------------------------------------------------------------------------
(* The invariant: copies.                                                  *)

\* A step of the builder leaves a file alone, breaks it, or fills it.
LEMMA DiskStep ==
    ASSUME BuildInv, [Next]_vars, NEW f \in Targets
    PROVE  \/ disk'[f] = disk[f]
           \/ ~Complete(disk'[f])
           \/ pc = "fill" /\ f = target /\ disk'[f] = Payload
PROOF
  <1>1. CASE FillFile
    BY <1>1 DEF FillFile, BuildInv, TypeOK
  <1>2. CASE CreateFile
    BY <1>2 DEF CreateFile, BuildInv, TypeOK, Torn, Complete
  <1>3. CASE ~FillFile /\ ~CreateFile
    <2>1. disk' = disk
      BY <1>3 DEF Next, BuildStep, Edit, StartBuild, ReadFile, SkipFile, Merge, LoseFlush,
                  Abort, Advance, vars, buildVars, treeVars
    <2> QED  BY <2>1
  <1> QED  BY <1>1, <1>2, <1>3

\* The copies after a step are copies there were, broken ones, or Payload.
LEMMA CopiesThroughBuild ==
    ASSUME SearchTypeOK, BuildInv, CopiesAgree, [Next]_vars, view' = view
    PROVE  CopiesAgree'
PROOF
  <1>1. BuildInv'
    BY BuildInvPreserved
  <1> PICK a1, b1, m1 : a1 = view["ngrams"] /\ b1 = view["postings"] /\ m1 = view["manifest"]
    OBVIOUS
  <1> PICK a2, b2, m2 : a2 = disk["ngrams"] /\ b2 = disk["postings"] /\ m2 = disk["manifest"]
    OBVIOUS
  <1>2. /\ {a1, a2} \subseteq Broken \cup Postings
        /\ {b1, b2} \subseteq Broken \cup Postings
        /\ {m1, m2} \subseteq Broken \cup Manifests
    BY DEF SearchTypeOK, TypeOK, Broken
  <1>3. /\ ListsCopy("ngrams", a1) /\ ListsCopy("ngrams", a2)
        /\ ListsCopy("postings", b1) /\ ListsCopy("postings", b2)
        /\ ManifestCopy(m1) /\ ManifestCopy(m2)
        /\ \A a \in {a1, a2}, b \in {b1, b2} : SameLists(a, b)
        /\ \A b \in {b1, b2}, m \in {m1, m2} : ListsOf(b, m)
    BY DEF CopiesAgree, Tables, PostingsOf, ManifestsOf
  <1>4. ListsCopy("ngrams", a1)' /\ ListsCopy("postings", b1)' /\ ManifestCopy(m1)'
    BY <1>2, <1>3, CopiesStable DEF SearchTypeOK
  <1>5. /\ ListsCopy("ngrams", disk["ngrams"])'
        /\ ListsCopy("postings", disk["postings"])'
        /\ ManifestCopy(disk["manifest"])'
        /\ SameLists(disk["ngrams"], disk["postings"])'
        /\ ListsOf(disk["postings"], disk["manifest"])'
    BY <1>1 DEF BuildInv
  <1>6. /\ Tables' = {disk'["ngrams"], a1}
        /\ PostingsOf' = {disk'["postings"], b1}
        /\ ManifestsOf' = {disk'["manifest"], m1}
    BY DEF Tables, PostingsOf, ManifestsOf
  <1>7. SameLists(disk'["ngrams"], b1)
    <2>1. \/ disk'["ngrams"] = a2 \/ ~Complete(disk'["ngrams"])
          \/ pc = "fill" /\ target = "ngrams" /\ disk'["ngrams"] = Payload
      BY DiskStep DEF Targets
    <2>2. pc = "fill" /\ target = "ngrams" => SameLists(Payload, b1)
      BY <1>2, <1>3, PayloadAgrees
    <2> QED  BY <1>3, <2>1, <2>2 DEF SameLists
  <1>8. SameLists(a1, disk'["postings"]) /\ ListsOf(disk'["postings"], m1)
    <2>1. \/ disk'["postings"] = b2 \/ ~Complete(disk'["postings"])
          \/ pc = "fill" /\ target = "postings" /\ disk'["postings"] = Payload
      BY DiskStep DEF Targets
    <2>2. pc = "fill" /\ target = "postings" => SameLists(a1, Payload) /\ ListsOf(Payload, m1)
      BY <1>2, <1>3, PayloadAgrees
    <2> QED  BY <1>3, <2>1, <2>2 DEF SameLists, ListsOf
  <1>9. ListsOf(b1, disk'["manifest"])
    <2>1. \/ disk'["manifest"] = m2 \/ ~Complete(disk'["manifest"])
          \/ pc = "fill" /\ target = "manifest" /\ disk'["manifest"] = Payload
      BY DiskStep DEF Targets
    <2>2. pc = "fill" /\ target = "manifest" => ListsOf(b1, Payload)
      BY <1>2, <1>3, PayloadAgrees
    <2> QED  BY <1>3, <2>1, <2>2 DEF ListsOf
  <1>10. SameLists(a1, b1) /\ ListsOf(b1, m1)
    BY <1>3
  <1>11. /\ \A a \in Tables' : ListsCopy("ngrams", a)'
         /\ \A b \in PostingsOf' : ListsCopy("postings", b)'
         /\ \A m \in ManifestsOf' : ManifestCopy(m)'
    BY <1>4, <1>5, <1>6
  <1>12. /\ \A a \in Tables', b \in PostingsOf' : SameLists(a, b)'
         /\ \A b \in PostingsOf', m \in ManifestsOf' : ListsOf(b, m)'
    BY <1>5, <1>6, <1>7, <1>8, <1>9, <1>10 DEF SameLists, ListsOf, Complete
  <1> QED  BY <1>11, <1>12 DEF CopiesAgree

\* A step of the search changes no file, and opens files that are on disk.
LEMMA CopiesThroughSearch ==
    ASSUME CopiesAgree, UNCHANGED vars,
           \A f \in Targets : view'[f] \in {view[f], disk[f], Missing}
    PROVE  CopiesAgree'
PROOF
  <1>1. UNCHANGED <<disk, pc, target, builds, inverted>>
    BY DEF vars, buildVars
  <1>2. ~Complete(Missing)
    BY DEF Missing, Complete
  <1>3. /\ Tables' \subseteq Tables \cup {Missing}
        /\ PostingsOf' \subseteq PostingsOf \cup {Missing}
        /\ ManifestsOf' \subseteq ManifestsOf \cup {Missing}
    BY <1>1 DEF Tables, PostingsOf, ManifestsOf, Targets
  <1>4. /\ \A a \in Tables' : ListsCopy("ngrams", a)'
        /\ \A b \in PostingsOf' : ListsCopy("postings", b)'
        /\ \A m \in ManifestsOf' : ManifestCopy(m)'
    BY <1>1, <1>2, <1>3
    DEF CopiesAgree, ListsCopy, ManifestCopy, Ahead, Behind, Writing, Complete
  <1>5. /\ \A a \in Tables', b \in PostingsOf' : SameLists(a, b)'
        /\ \A b \in PostingsOf', m \in ManifestsOf' : ListsOf(b, m)'
    BY <1>2, <1>3 DEF CopiesAgree, SameLists, ListsOf, Complete
  <1> QED  BY <1>4, <1>5 DEF CopiesAgree

-----------------------------------------------------------------------------
(* The invariant: every step.                                              *)

LEMMA BesidePreserves ==
    ASSUME SearchInv, Beside
    PROVE  SearchInv'
PROOF
  <1> USE DEF SearchInv
  <1>1. /\ [Next]_vars
        /\ UNCHANGED <<spc, query, view, todo, found, searches>>
        /\ touched' = touched \cup {p \in Paths : worktree'[p] # worktree[p]}
        /\ remapped' = (remapped \/ (spc \in Mapping
                          /\ \E f \in {"ngrams", "postings"} : disk'[f] # disk[f]))
    BY DEF Beside, searchVars
  <1>2. BuildInv' /\ SearchTypeOK'
    BY <1>1, BuildInvPreserved, SearchTypePreserved DEF SearchNext
  <1>3. CopiesAgree'
    BY <1>1, CopiesThroughBuild
  <1>4. MappingIsDisk'
    BY <1>1 DEF MappingIsDisk, Mapping
  <1>5. \A p \in Paths \ touched' : p \notin touched /\ worktree'[p] = worktree[p]
    BY <1>1
  <1>6. InReach'
    <2>1. MustFind' \subseteq MustFind
      BY <1>1, <1>5 DEF MustFind
    <2>2. (~remapped)' => ~remapped
      BY <1>1
    <2>3. ASSUME (spc \in {"verify", "done"} /\ OneBuild(view) /\ view["manifest"].lost = {} /\ ~remapped)'
          PROVE  MustFind' \subseteq found \cup (IF spc = "verify" THEN todo ELSE {})
      <3>1. spc \in {"verify", "done"} /\ OneBuild(view) /\ view["manifest"].lost = {} /\ ~remapped
        BY <1>1, <2>2, <2>3 DEF OneBuild
      <3> QED  BY <2>1, <3>1 DEF InReach
    <2>4. ASSUME (spc \in {"scan", "done"} /\ view = NoView)',
                 NEW p \in Paths \ (touched' \cup Unreadable), worktree'[p] \in Hits[query]
          PROVE  p \in found \cup (IF spc = "scan" THEN todo ELSE {})
      <3>1. p \in Paths \ (touched \cup Unreadable) /\ worktree[p] \in Hits[query]
        BY <1>5, <2>4
      <3>2. spc \in {"scan", "done"} /\ view = NoView
        BY <1>1, <2>4 DEF NoView
      <3> QED  BY <3>1, <3>2 DEF InReach
    <2> QED  BY <1>1, <2>3, <2>4 DEF InReach
  <1>7. FoundIsVerified'
    BY <1>1, <1>2, <1>5 DEF FoundIsVerified, SearchTypeOK
  <1>8. /\ (spc \in {"openPostings", "openManifest", "lookup", "verify"})' => Complete(view["ngrams"])'
        /\ (spc = "scan")' => (view = NoView)'
    BY <1>1 DEF Complete, NoView
  <1> QED  BY <1>2, <1>3, <1>4, <1>6, <1>7, <1>8

LEMMA StartPreserves ==
    ASSUME SearchInv, NEW q \in Queries, NEW scan \in BOOLEAN, StartSearch(q, scan)
    PROVE  SearchInv'
PROOF
  <1> USE DEF SearchInv
  <1>1. /\ UNCHANGED vars /\ UNCHANGED <<worktree, disk>>
        /\ query' = q /\ view' = NoView /\ found' = {}
        /\ \/ spc' = "openNgrams" /\ todo' = {}
           \/ spc' = "scan" /\ todo' = Present(worktree)
        /\ touched' = {}
    BY DEF StartSearch, Scanned, vars, treeVars, buildVars
  <1>2. BuildInv' /\ SearchTypeOK'
    BY <1>1, BuildInvPreserved, SearchTypePreserved DEF SearchNext
  <1>3. CopiesAgree'
    BY <1>1, CopiesThroughSearch DEF NoView
  <1>4. MappingIsDisk'
    BY <1>1 DEF MappingIsDisk, Mapping
  <1>5. InReach'
    <2>1. \A p \in Paths : worktree[p] \in Hits[q] => p \in Present(worktree)
      BY QueriesAssumption, AbsentAssumption DEF Present
    <2> QED  BY <1>1, <2>1 DEF InReach
  <1>6. FoundIsVerified'
    BY <1>1 DEF FoundIsVerified
  <1> QED  BY <1>1, <1>2, <1>3, <1>4, <1>5, <1>6

LEMMA OpenPreserves ==
    ASSUME SearchInv, OpenNgrams \/ OpenPostings \/ OpenManifest
    PROVE  SearchInv'
PROOF
  <1> USE DEF SearchInv
  <1>1. /\ UNCHANGED vars /\ UNCHANGED <<worktree, disk>>
        /\ UNCHANGED <<query, todo, found, touched, remapped>>
        /\ spc' \in {"openPostings", "openManifest", "lookup", "failed"}
    BY DEF OpenNgrams, OpenPostings, OpenManifest, Open, history, vars, treeVars, buildVars
  <1>2. BuildInv' /\ SearchTypeOK'
    <2>1. SearchNext
      BY DEF SearchNext, SearchStep
    <2> QED  BY <1>1, <2>1, BuildInvPreserved, SearchTypePreserved
  <1>3. \A f \in Targets : view'[f] \in {view[f], disk[f]}
    BY DEF OpenNgrams, OpenPostings, OpenManifest, Open, SearchTypeOK, Targets
  <1>4. CopiesAgree'
    BY <1>1, <1>3, CopiesThroughSearch
  <1>5. MappingIsDisk'
    BY <1>1
    DEF MappingIsDisk, Mapping, OpenNgrams, OpenPostings, OpenManifest, Open, SearchTypeOK, Targets
  <1>6. InReach'
    BY <1>1 DEF InReach
  <1>7. FoundIsVerified'
    BY <1>1 DEF FoundIsVerified
  <1>8. (spc \in {"openPostings", "openManifest", "lookup", "verify"})' => Complete(view["ngrams"])'
    BY DEF OpenNgrams, OpenPostings, OpenManifest, Open, SearchTypeOK, Targets, Complete
  <1> QED  BY <1>1, <1>2, <1>4, <1>5, <1>6, <1>7, <1>8

\* The step the theorem turns on: what is looked up in the index of one build.
LEMMA ResolvePreserves ==
    ASSUME SearchInv, ResolveCandidates
    PROVE  SearchInv'
PROOF
  <1> USE DEF SearchInv
  <1>1. /\ UNCHANGED vars /\ UNCHANGED <<worktree, disk>>
        /\ UNCHANGED <<query, view, found, touched, remapped>>
        /\ spc = "lookup" /\ spc' = "verify"
    BY DEF ResolveCandidates, history, vars, treeVars, buildVars
  <1>2. BuildInv' /\ SearchTypeOK'
    BY <1>1, BuildInvPreserved, SearchTypePreserved DEF SearchNext, SearchStep
  <1>3. CopiesAgree'
    BY <1>1, CopiesThroughSearch
  <1>4. MappingIsDisk' /\ FoundIsVerified'
    BY <1>1 DEF MappingIsDisk, Mapping, FoundIsVerified
  <1>5. ASSUME OneBuild(view), view["manifest"].lost = {}, ~remapped
        PROVE  MustFind \subseteq todo'
    <2> DEFINE lists == view["postings"].lists
    <2> PICK source : source = view["manifest"].source
      OBVIOUS
    <2>1. /\ Complete(view["ngrams"]) /\ Complete(view["postings"]) /\ Complete(view["manifest"])
          /\ view["ngrams"].gen = view["postings"].gen
          /\ view["postings"].gen = view["manifest"].gen
      BY <1>5 DEF OneBuild, Targets
    <2>2. source \in Trees
      BY <2>1 DEF SearchTypeOK, Complete, Missing, Manifests
    <2>3. SameLists(view["ngrams"], view["postings"]) /\ ListsOf(view["postings"], view["manifest"])
      BY DEF CopiesAgree, Tables, PostingsOf, ManifestsOf
    <2>4. view["ngrams"].lists = lists
      BY <2>1, <2>3 DEF SameLists
    <2>5. lists = Inverted(Present(source), source)
      BY <1>5, <2>1, <2>3 DEF ListsOf
    <2>6. Intact
      BY <1>1, <1>5, <2>4 DEF Intact, MappingIsDisk, Mapping
    <2>7. todo' = FilePaths(Present(source),
                            Candidates(lists, Cardinality(Present(source)), Plan[query]))
      BY <2>6 DEF ResolveCandidates, Lookups
    <2>8. query \in Queries
      BY DEF SearchTypeOK
    <2>9. ASSUME NEW p \in MustFind PROVE p \in todo'
      <3>1. p \in Paths /\ source[p] \in Hits[query]
        BY DEF MustFind
      <3> QED  BY <2>2, <2>5, <2>7, <2>8, <3>1, IndexedIsCandidate
    <2> QED  BY <2>9
  <1>6. MustFind' = MustFind
    BY <1>1 DEF MustFind
  <1>7. InReach'
    BY <1>1, <1>5, <1>6 DEF InReach
  <1>8. Complete(view["ngrams"])'
    BY <1>1 DEF Complete
  <1> QED  BY <1>1, <1>2, <1>3, <1>4, <1>7, <1>8

LEMMA VerifyPreserves ==
    ASSUME SearchInv, NEW p \in Paths, Verify(p)
    PROVE  SearchInv'
PROOF
  <1> USE DEF SearchInv
  <1>1. /\ UNCHANGED vars /\ UNCHANGED <<worktree, disk>>
        /\ UNCHANGED <<spc, query, view, touched, remapped>>
        /\ spc \in {"verify", "scan"}
        /\ todo' = todo \ {p}
        /\ found' = IF worktree[p] \in Hits[query] /\ p \notin Unreadable
                    THEN found \cup {p} ELSE found
    BY DEF Verify, history, vars, treeVars, buildVars
  <1>2. BuildInv' /\ SearchTypeOK'
    BY <1>1, BuildInvPreserved, SearchTypePreserved DEF SearchNext, SearchStep
  <1>3. CopiesAgree'
    BY <1>1, CopiesThroughSearch
  <1>4. MappingIsDisk' /\ FoundIsVerified'
    BY <1>1 DEF MappingIsDisk, Mapping, FoundIsVerified
  <1>5. MustFind' = MustFind /\ \A r \in MustFind : worktree[r] \in Hits[query] /\ r \notin Unreadable
    BY <1>1 DEF MustFind
  <1>6. InReach'
    BY <1>1, <1>5 DEF InReach, OneBuild
  <1>7. /\ (spc \in {"openPostings", "openManifest", "lookup", "verify"})' => Complete(view["ngrams"])'
        /\ (spc = "scan")' => (view = NoView)'
    BY <1>1 DEF Complete, NoView
  <1> QED  BY <1>2, <1>3, <1>4, <1>6, <1>7

LEMMA EndPreserves ==
    ASSUME SearchInv, LookupDies \/ Finish
    PROVE  SearchInv'
PROOF
  <1> USE DEF SearchInv
  <1>1. /\ UNCHANGED vars /\ UNCHANGED <<worktree, disk>>
        /\ UNCHANGED <<query, view, todo, found, touched, remapped>>
        /\ \/ spc' = "failed"
           \/ spc \in {"verify", "scan"} /\ todo = {} /\ spc' = "done"
    BY DEF LookupDies, Finish, history, vars, treeVars, buildVars
  <1>2. BuildInv' /\ SearchTypeOK'
    BY <1>1, BuildInvPreserved, SearchTypePreserved DEF SearchNext, SearchStep
  <1>3. CopiesAgree'
    BY <1>1, CopiesThroughSearch
  <1>4. MappingIsDisk' /\ FoundIsVerified'
    BY <1>1 DEF MappingIsDisk, Mapping, FoundIsVerified
  <1>5. spc = "scan" => ~OneBuild(view)
    BY DEF OneBuild, NoView, Targets, Complete, Missing
  <1>6. spc = "verify" => view # NoView
    BY DEF NoView, Targets, Complete, Missing
  <1>7. InReach'
    <2>1. MustFind' = MustFind
      BY <1>1 DEF MustFind
    <2> QED  BY <1>1, <1>5, <1>6, <2>1 DEF InReach, OneBuild, NoView
  <1> QED  BY <1>1, <1>2, <1>3, <1>4, <1>7

LEMMA SearchInvPreserved == SearchInv /\ [SearchNext]_allVars => SearchInv'
PROOF
  <1> SUFFICES ASSUME SearchInv, [SearchNext]_allVars PROVE SearchInv'
    OBVIOUS
  <1>1. CASE UNCHANGED allVars
    <2>1. UNCHANGED vars
      BY <1>1 DEF allVars
    <2>2. BuildInv' /\ SearchTypeOK'
      BY <2>1, BuildInvPreserved, SearchTypePreserved DEF SearchInv
    <2>3. CopiesAgree'
      BY <1>1, <2>1, CopiesThroughSearch DEF SearchInv, allVars, searchVars
    <2> QED
      BY <1>1, <2>2, <2>3
      DEF SearchInv, allVars, vars, treeVars, buildVars, searchVars, history, MappingIsDisk,
          InReach, FoundIsVerified, MustFind, OneBuild, NoView, Complete
  <1> QED
    BY <1>1, BesidePreserves, StartPreserves, OpenPreserves, ResolvePreserves,
       VerifyPreserves, EndPreserves
    DEF SearchNext, SearchStep

\* The inductive invariant of a search beside builds, edits and faults
\* (search.rs, reader.rs).
THEOREM SearchInvariant == SearchSpec => []SearchInv
PROOF
  <1> QED  BY SearchInvInit, SearchInvPreserved, PTL DEF SearchSpec

-----------------------------------------------------------------------------
(* The theorems.                                                           *)

\* Type correctness.
THEOREM SearchTypeCorrect == SearchSpec => []SearchTypeOK
PROOF
  <1>1. SearchInv => SearchTypeOK
    BY DEF SearchInv
  <1> QED  BY <1>1, SearchInvariant, PTL

\* A search over the index of one build has no false negatives (search.rs,
\* "Returns only verified matches (no false negatives)").
THEOREM SearchHasNoFalseNegatives == SearchSpec => []NoFalseNegatives
PROOF
  <1>1. SearchInv => NoFalseNegatives
    BY DEF SearchInv, InReach, NoFalseNegatives
  <1> QED  BY <1>1, SearchInvariant, PTL

\* No search has a false positive, whatever index it found (README.md:
\* "Every match returned by the index path is verified").
THEOREM SearchHasNoFalsePositives == SearchSpec => []FoundIsVerified
PROOF
  <1>1. SearchInv => FoundIsVerified
    BY DEF SearchInv
  <1> QED  BY <1>1, SearchInvariant, PTL

\* Without an index, the search reports what a scan reports.
THEOREM SearchScanIsExact == SearchSpec => []ScanIsExact
PROOF
  <1>1. ASSUME SearchInv PROVE ScanIsExact
    BY <1>1 DEF SearchInv, InReach, FoundIsVerified, ScanIsExact, SearchTypeOK
  <1> QED  BY <1>1, SearchInvariant, PTL
-----------------------------------------------------------------------------
(* Searches and builds that keep apart: as long as no write fails and no   *)
(* process dies, they open the three files of one build, in any history of *)
(* edits, builds and searches.                                             *)

\* The files that the running build has already written are complete, and
\* before it writes the first the directory is whole or holds no index.
Whole ==
    faults = 0 =>
        /\ pc \in {"idle", "read"} \/ (pc = "create" /\ target = "ngrams") =>
              OneBuild(disk) \/ \A f \in Targets : ~Complete(disk[f])
        /\ Writing /\ target # "ngrams" => Complete(disk["ngrams"])
        /\ Writing /\ target = "manifest" => Complete(disk["postings"])

\* What an exclusive search has opened is what is on disk.
Undisturbed ==
    exclusive /\ Searching =>
        /\ pc = "idle" /\ ~remapped
        /\ spc \in {"openPostings", "openManifest", "lookup", "verify"} =>
              view["ngrams"] = disk["ngrams"]
        /\ spc \in {"openManifest", "lookup", "verify"} => view["postings"] = disk["postings"]
        /\ spc \in {"lookup", "verify"} => view["manifest"] = disk["manifest"]

ExclusiveInv == SearchInv /\ Whole /\ Undisturbed

-----------------------------------------------------------------------------
LEMMA ExclusiveInvInit == SearchInit => ExclusiveInv
PROOF
  <1> SUFFICES ASSUME SearchInit PROVE ExclusiveInv
    OBVIOUS
  <1>1. SearchInv
    BY SearchInvInit
  <1>2. \A f \in Targets : ~Complete(disk[f])
    BY DEF SearchInit, Init, Missing, Legacy, Complete
  <1>3. Whole
    BY <1>2 DEF SearchInit, Init, Whole, Writing
  <1>4. Undisturbed
    BY DEF SearchInit, Undisturbed, Searching
  <1> QED  BY <1>1, <1>3, <1>4 DEF ExclusiveInv

\* A build step keeps the directory whole, or counts as a fault.
LEMMA WholePreserved ==
    ASSUME BuildInv, Whole, [Next]_vars
    PROVE  Whole'
PROOF
  <1>a. TypeOK
    BY DEF BuildInv
  <1>1. ASSUME NEW p \in Paths, NEW c \in Contents \cup {Absent}, Edit(p, c) PROVE Whole'
    BY <1>1 DEF Edit, buildVars, Whole, Writing, OneBuild
  <1>2. ASSUME NEW full \in BOOLEAN, StartBuild(full) PROVE Whole'
    BY <1>2 DEF StartBuild, Whole, Writing, OneBuild
  <1>3. ASSUME NEW p \in Paths, ReadFile(p) \/ SkipFile(p) PROVE Whole'
    BY <1>3 DEF ReadFile, SkipFile, Whole, Writing, OneBuild
  <1>4. ASSUME Merge PROVE Whole'
    BY <1>4 DEF Merge, Whole, Writing, OneBuild
  <1>5. ASSUME CreateFile PROVE Whole'
    <2>1. /\ pc = "create" /\ pc' = "fill" /\ target' = target /\ faults' = faults
          /\ \A f \in Targets : f # target => disk'[f] = disk[f]
      BY <1>5, <1>a DEF CreateFile, TypeOK
    <2> QED  BY <2>1 DEF Whole, Writing, Targets
  <1>6. ASSUME FillFile PROVE Whole'
    <2>1. /\ pc = "fill" /\ target \in Targets /\ faults' = faults /\ builds' = builds
          /\ disk'[target] = Payload
          /\ \A f \in Targets : f # target => disk'[f] = disk[f]
      BY <1>6, <1>a DEF FillFile, Advance, TypeOK
    <2>2. Complete(Payload) /\ Payload.gen = builds
      BY DEF Payload, Complete
    <2>3. /\ target = "ngrams" => target' = "postings" /\ pc' = "create"
          /\ target = "postings" => target' = "manifest" /\ pc' = "create"
          /\ target = "manifest" => target' = "ngrams" /\ pc' = "idle"
      BY <1>6 DEF FillFile, Advance, Following
    <2>4. CASE target = "ngrams"
      BY <2>1, <2>2, <2>3, <2>4 DEF Whole, Writing, Targets
    <2>5. CASE target = "postings"
      BY <2>1, <2>2, <2>3, <2>5 DEF Whole, Writing, Targets
    <2>6. CASE target = "manifest"
      <3>1. SUFFICES ASSUME faults = 0 PROVE OneBuild(disk')
        BY <2>1, <2>3, <2>6 DEF Whole, Writing
      <3>2. /\ Complete(disk["ngrams"]) /\ disk["ngrams"].gen = builds
            /\ Complete(disk["postings"]) /\ disk["postings"].gen = builds
        BY <2>1, <2>6, <3>1 DEF Whole, Writing, BuildInv
      <3> QED  BY <2>1, <2>2, <2>6, <3>2 DEF OneBuild, Targets
    <2> QED  BY <2>1, <2>4, <2>5, <2>6 DEF Targets
  <1>7. ASSUME LoseFlush \/ Abort PROVE Whole'
    BY <1>7, <1>a DEF LoseFlush, Abort, Whole, TypeOK
  <1>8. ASSUME UNCHANGED vars PROVE Whole'
    BY <1>8 DEF vars, buildVars, Whole, Writing, OneBuild
  <1> QED
    BY <1>1, <1>2, <1>3, <1>4, <1>5, <1>6, <1>7, <1>8 DEF Next, BuildStep

\* Beside an exclusive search nobody writes the directory.
LEMMA NobodyWrites ==
    ASSUME Next, pc = "idle", pc' = pc
    PROVE  disk' = disk
  BY DEF Next, BuildStep, Edit, buildVars, StartBuild, ReadFile, SkipFile, Merge,
         CreateFile, FillFile, LoseFlush, Abort

LEMMA UndisturbedPreserved ==
    ASSUME SearchTypeOK, Undisturbed, [SearchNext]_allVars
    PROVE  Undisturbed'
PROOF
  <1>1. ASSUME Beside PROVE Undisturbed'
    <2>1. UNCHANGED <<spc, view, exclusive>>
      BY <1>1 DEF Beside, searchVars
    <2>2. SUFFICES ASSUME exclusive, Searching PROVE Undisturbed'
      BY <2>1 DEF Undisturbed, Searching
    <2>3. pc' = pc /\ disk' = disk
      BY <1>1, <2>2, NobodyWrites DEF Beside, Undisturbed
    <2>4. ~remapped'
      BY <1>1, <2>2, <2>3 DEF Beside, Undisturbed
    <2> QED  BY <2>1, <2>2, <2>3, <2>4 DEF Undisturbed, Searching
  <1>2. ASSUME NEW q \in Queries, NEW scan \in BOOLEAN, StartSearch(q, scan) PROVE Undisturbed'
    BY <1>2 DEF StartSearch, Scanned, Undisturbed, vars, treeVars, buildVars
  <1>3. ASSUME OpenNgrams \/ OpenPostings \/ OpenManifest PROVE Undisturbed'
    <2>1. UNCHANGED <<pc, disk, remapped, exclusive>>
      BY <1>3 DEF OpenNgrams, OpenPostings, OpenManifest, Open, history, vars, buildVars
    <2>2. view \in [Targets -> Broken \cup Postings \cup Manifests]
      BY DEF SearchTypeOK
    <2>3. CASE OpenNgrams
      BY <2>1, <2>2, <2>3 DEF OpenNgrams, Open, Undisturbed, Searching, Targets
    <2>4. CASE OpenPostings
      BY <2>1, <2>2, <2>4 DEF OpenPostings, Open, Undisturbed, Searching, Targets
    <2>5. CASE OpenManifest
      BY <2>1, <2>2, <2>5 DEF OpenManifest, Open, Undisturbed, Searching, Targets
    <2> QED  BY <1>3, <2>3, <2>4, <2>5
  <1>4. ASSUME ResolveCandidates \/ LookupDies \/ Finish PROVE Undisturbed'
    BY <1>4 DEF ResolveCandidates, LookupDies, Finish, Undisturbed, Searching, history,
                vars, treeVars, buildVars
  <1>5. ASSUME NEW p \in Paths, Verify(p) PROVE Undisturbed'
    BY <1>5 DEF Verify, Undisturbed, Searching, history, vars, treeVars, buildVars
  <1>6. ASSUME UNCHANGED allVars PROVE Undisturbed'
    BY <1>6 DEF allVars, searchVars, history, vars, treeVars, buildVars, Undisturbed, Searching
  <1> QED
    BY <1>1, <1>2, <1>3, <1>4, <1>5, <1>6 DEF SearchNext, SearchStep

-----------------------------------------------------------------------------
\* The invariant of exclusive use.
THEOREM ExclusiveInvariant == SearchSpec => []ExclusiveInv
PROOF
  <1>1. SearchInit => ExclusiveInv
    BY ExclusiveInvInit
  <1>2. ASSUME ExclusiveInv, [SearchNext]_allVars PROVE ExclusiveInv'
    <2>1. SearchInv'
      BY <1>2, SearchInvPreserved DEF ExclusiveInv
    <2>2. Undisturbed'
      BY <1>2, UndisturbedPreserved DEF ExclusiveInv, SearchInv
    <2>3. [Next]_vars
      BY <1>2 DEF SearchNext, Beside, StartSearch, SearchStep, OpenNgrams, OpenPostings,
         OpenManifest, Open, ResolveCandidates, LookupDies, Verify, Finish, allVars
    <2>4. Whole'
      BY <1>2, <2>3, WholePreserved DEF ExclusiveInv, SearchInv
    <2> QED  BY <2>1, <2>2, <2>4 DEF ExclusiveInv
  <1> QED  BY <1>1, <1>2, PTL DEF SearchSpec

\* Searches that keep apart from builds see one build, while nothing fails:
\* reader.rs opens the files one by one and compares none with another.
THEOREM ExclusiveViewIsOfOneBuild == SearchSpec => []ViewOfOneBuild
PROOF
  <1>1. ASSUME ExclusiveInv PROVE ViewOfOneBuild
    <2> SUFFICES ASSUME exclusive, faults = 0, spc \in {"lookup", "verify"}
                 PROVE  OneBuild(view) /\ ~remapped
      BY DEF ViewOfOneBuild
    <2>1. /\ pc = "idle" /\ ~remapped
          /\ \A f \in Targets : view[f] = disk[f]
      BY <1>1 DEF ExclusiveInv, Undisturbed, Searching, Targets
    <2>2. Complete(view["ngrams"])
      BY <1>1 DEF ExclusiveInv, SearchInv
    <2>3. OneBuild(disk)
      BY <1>1, <2>1, <2>2 DEF ExclusiveInv, Whole, Targets
    <2> QED  BY <2>1, <2>3 DEF OneBuild, Targets
  <1> QED  BY <1>1, ExclusiveInvariant, PTL
=============================================================================
