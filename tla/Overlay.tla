------------------------------ MODULE Overlay ------------------------------
(***************************************************************************)
(* The overlay of qndx-index/src/overlay.rs: an in-memory index of the     *)
(* files that git reports as dirty.  Its operations are functions of the   *)
(* overlay; OverlaySearch applies them in the order of git's report.       *)
(*                                                                         *)
(* Ids are counted from 0; the code adds a constant base_file_id to each,  *)
(* and keeps them apart from baseline ids in any case (search.rs tags      *)
(* every candidate with the side it comes from).                           *)
(***************************************************************************)
EXTENDS Corpus, Sequences

NoneOverlaid == [grams |-> [g \in Grams |-> {}], files |-> <<>>,
                 ids |-> [p \in {} |-> 0], deleted |-> {}]

IsOverlay(o) ==
    /\ o = [grams |-> o.grams, files |-> o.files, ids |-> o.ids, deleted |-> o.deleted]
    /\ o.files \in Seq(Paths) /\ o.deleted \subseteq Paths
    /\ DOMAIN o.ids \subseteq Paths
    /\ o.ids = [p \in DOMAIN o.ids |-> o.ids[p]]
    /\ \A p \in DOMAIN o.ids : o.ids[p] \in AllIds(Len(o.files))
    /\ o.grams \in [Grams -> SUBSET AllIds(Len(o.files))]

WithoutId(grams, id) == [g \in Grams |-> grams[g] \ {id}]

\* mark_deleted.  The file list keeps the path, so that its id stays taken.
MarkDeleted(overlay, p) ==
    [files |-> overlay.files,
     ids |-> [r \in DOMAIN overlay.ids \ {p} |-> overlay.ids[r]],
     deleted |-> overlay.deleted \cup {p},
     grams |-> IF p \in DOMAIN overlay.ids
               THEN WithoutId(overlay.grams, overlay.ids[p]) ELSE overlay.grams]

\* Fault: ids are counted from 1.
IdForFromOne(overlay, p) ==
    IF p \in DOMAIN overlay.ids THEN overlay.ids[p] ELSE Len(overlay.files) + 1

\* The id a file is added under: the one it has, or the next.
IdFor(overlay, p) ==
    IF p \in DOMAIN overlay.ids THEN overlay.ids[p] ELSE Len(overlay.files)

\* Fault: a file that was marked deleted before it is added stays so.
AddFileStillDeleted(overlay, p, content) ==
    LET id == IdFor(overlay, p)
        IsNew == p \notin DOMAIN overlay.ids
    IN  [overlay EXCEPT
            !.files = IF IsNew THEN Append(@, p) ELSE @,
            !.ids = [r \in DOMAIN @ \cup {p} |-> IF r = p THEN id ELSE @[r]],
            !.grams = [g \in Grams |-> (@[g] \ {id}) \cup
                            (IF g \in GramsOf[content] THEN {id} ELSE {})]]

\* add_file
AddFile(overlay, p, content) ==
    LET id == IdFor(overlay, p)
        IsNew == p \notin DOMAIN overlay.ids
    IN  [files |-> IF IsNew THEN Append(overlay.files, p) ELSE overlay.files,
         ids |-> [r \in DOMAIN overlay.ids \cup {p} |-> IF r = p THEN id ELSE overlay.ids[r]],
         deleted |-> overlay.deleted \ {p},
         grams |-> [g \in Grams |-> (overlay.grams[g] \ {id}) \cup
                        (IF g \in GramsOf[content] THEN {id} ELSE {})]]

IsEmpty(overlay) == overlay.files = <<>> /\ overlay.deleted = {}

\* resolve_candidates_from_plan_overlay
OverlayIds(overlay, plan) == Candidates(overlay.grams, Len(overlay.files), plan)

\* The ids of the overlay that may match.  When the plan leaves none, every
\* file of a non-empty overlay is a candidate.
OverlayCandidates(overlay, plan) ==
    LET ids == OverlayIds(overlay, plan)
    IN  IF ids = {} /\ ~IsEmpty(overlay) THEN AllIds(Len(overlay.files)) ELSE ids

\* What the overlay is to hold, when content[p] is what was read last of p
\* and not deleted since (Absent if there is none): exactly the n-grams of
\* these contents, under an id that leads back to the path.
Mirrors(overlay, content) ==
    /\ DOMAIN overlay.ids = Present(content)
    /\ overlay.deleted \cap DOMAIN overlay.ids = {}
    /\ \A p \in DOMAIN overlay.ids :
          /\ overlay.files[overlay.ids[p] + 1] = p
          /\ {g \in Grams : overlay.ids[p] \in overlay.grams[g]} = GramsOf[content[p]]
    /\ \A g \in Grams : overlay.grams[g] \subseteq {overlay.ids[p] : p \in DOMAIN overlay.ids}
=============================================================================
