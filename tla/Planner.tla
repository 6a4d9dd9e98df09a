------------------------------ MODULE Planner ------------------------------
(***************************************************************************)
(* From literals to a plan: plan_query_full of qndx-query/src/planner.rs.  *)
(* A regex with literals can be looked up by trigrams or by the covering   *)
(* sparse n-grams; the planner takes the cheaper way, or the one it is     *)
(* told to take.  The plan is judged by the n-grams that the builder puts  *)
(* into the index for a file with a text that the regex matches.           *)
(***************************************************************************)
EXTENDS Decompose

CONSTANTS
    Weightings, \* weights of the pairs of bytes: what the hash may be
    Overrides   \* of "Auto", "ForceTrigram", "ForceSparse"

\* The characters that regexes are written with, and texts: any two may be
\* neighbours in a literal, and pair_weight has a number for any two bytes.
Tokens  == UNION {ToSet(atom.tokens) : atom \in Atoms \cup Runs}
Matched == UNION {atom.texts : atom \in Atoms \cup Runs}
Characters ==
    {"\\", "[", "]", "(", ")", "|", ".", "?", "*", "+"}
        \cup UNION {ToSet(chars) : chars \in Tokens \cup Matched}
ASSUME WeightsAssumption ==
    \A weight \in Weightings : \A pair \in Characters \X Characters : weight[pair] \in Nat
ASSUME OverrideAssumption == Overrides \subseteq {"Auto", "ForceTrigram", "ForceSparse"}

VARIABLES
    weight,     \* pair_weight
    plan,       \* the n-grams to look up
    strategy,
    score,      \* lookup_count and estimated_cost of the plan
    told,       \* the strategy asked for, if one was
    report      \* PlanDiagnostics

planVars == <<weight, plan, strategy, score, told, report>>
allVars  == <<regexVars, planVars>>

NoPlan     == [required |-> {}, alternatives |-> {}]
NoScore    == [lookups |-> 0, selectivity |-> 0, total |-> 0]
NoReport   == [trigram |-> NoScore, sparse |-> {}, literals |-> <<>>]
Strategies == {"Trigram", "Sparse"}

Init ==
    /\ DecomposeInit
    /\ weight \in Weightings
    /\ plan = NoPlan /\ strategy = "Trigram" /\ score = NoScore
    /\ told = "Auto" /\ report = NoReport

-----------------------------------------------------------------------------
(* Scores, in a unit in which 0.12, 0.08 and the selectivity 3.0 / gram_len *)
(* are whole for lengths up to 16.                                         *)

LookupPenalty == 720720
BranchPenalty == 480480
Selectivity(gram) == (25 * LookupPenalty) \div Len(gram)

\* The lookups of the first n branches, and the selectivity of all grams.
LookupsUpTo(grams) ==
    LET sum[n \in 0 .. Len(grams)] == IF n = 0 THEN 0 ELSE sum[n - 1] + Cardinality(grams[n])
    IN  sum
TotalSelectivity(grams) ==
    MapThenSumSet(LAMBDA k : MapThenSumSet(Selectivity, grams[k]), DOMAIN grams)

\* score_plan; without alternation there is no branch to pay for.
ScorePlan(grams) ==
    LET lookups     == LookupsUpTo(grams)[Len(grams)]
        selectivity == TotalSelectivity(grams)
        fanout      == IF Len(grams) = 1 THEN 0 ELSE Len(grams)
    IN  [lookups |-> lookups, selectivity |-> selectivity,
         total |-> selectivity + lookups * LookupPenalty + fanout * BranchPenalty]

\* The n-grams of each branch, those of its literals taken together.
TrigramsOfBranches ==
    [k \in DOMAIN literals |-> UNION {Trigrams(text) : text \in ToSet(literals[k])}]
CoveringOfBranches ==
    [k \in DOMAIN literals |-> UNION {CoveringGrams(text, weight) : text \in ToSet(literals[k])}]

\* Fault: branches without n-grams are dropped.
PlanOfNonEmpty(grams) ==
    IF Len(grams) = 1 THEN [NoPlan EXCEPT !.required = grams[1]]
    ELSE [NoPlan EXCEPT !.alternatives = ToSet(grams) \ {{}}]

\* Without alternation all n-grams are required.  Otherwise each branch is an
\* alternative, a branch without n-grams included.
PlanOf(grams) ==
    IF Len(grams) = 1 THEN [NoPlan EXCEPT !.required = grams[1]]
    ELSE [NoPlan EXCEPT !.alternatives = ToSet(grams)]

\* has_any_prefilter
Unfiltered == \A k \in DOMAIN literals : TrigramsOfBranches[k] = {}

\* A sparse plan needs a covering of every branch.
HasSparse == \A k \in DOMAIN literals : CoveringOfBranches[k] # {}

UsesSparse(override) ==
    /\ override # "ForceTrigram" /\ HasSparse
    /\ override = "Auto" => ScorePlan(CoveringOfBranches).total < ScorePlan(TrigramsOfBranches).total

Adopt(name, grams) ==
    strategy' = name /\ plan' = PlanOf(grams) /\ score' = ScorePlan(grams)

PlanQuery(override) ==
    /\ stage = "extract" /\ Len(literals) = Len(branches)
    /\ stage' = "planned" /\ told' = override
    /\ \/ Unfiltered /\ UNCHANGED <<plan, strategy, score>>
       \/ ~Unfiltered /\ UsesSparse(override) /\ Adopt("Sparse", CoveringOfBranches)
       \/ ~Unfiltered /\ ~UsesSparse(override) /\ Adopt("Trigram", TrigramsOfBranches)
    /\ UNCHANGED <<regex, branches, literals, weight, report>>

-----------------------------------------------------------------------------
(* plan_diagnostics_with_strategy scores both ways once more, by code of    *)
(* its own, for `qndx plan` to show beside the plan that is selected.      *)

\* Fault: the sparse way is shown although a branch has no covering.
ExplainAnySparse ==
    [trigram  |-> ScorePlan(TrigramsOfBranches),
     sparse   |-> {ScorePlan(CoveringOfBranches)},
     literals |-> FlattenSeq(literals)]

\* No sparse row, or one; nothing at all if there is nothing to look up.
Explain ==
    IF Unfiltered THEN [NoReport EXCEPT !.literals = FlattenSeq(literals)]
    ELSE [trigram  |-> ScorePlan(TrigramsOfBranches),
          sparse   |-> IF HasSparse THEN {ScorePlan(CoveringOfBranches)} ELSE {},
          literals |-> FlattenSeq(literals)]

Diagnose ==
    /\ stage = "planned"
    /\ stage' = "explained" /\ report' = Explain
    /\ UNCHANGED <<regex, branches, literals, weight, plan, strategy, score, told>>

Next ==
    \/ (Split \/ Extract) /\ UNCHANGED planVars
    \/ (\E override \in Overrides : PlanQuery(override)) \/ Diagnose

Spec == Init /\ [][Next]_allVars

-----------------------------------------------------------------------------
\* What the builder indexes of a text (extract_ngrams_parallel).
GramsInIndex(text) == Trigrams(text) \cup SparseGrams(text, weight)

\* resolve_candidates_from_plan, for one file.
Passes(grams) ==
    /\ plan.required \subseteq grams
    /\ plan.alternatives # {} => \E alt \in plan.alternatives : alt \subseteq grams

-----------------------------------------------------------------------------
(* Properties.                                                             *)

TypeOK ==
    /\ regex \in Seq(Seq(Pieces))
    /\ stage \in {"split", "extract", "planned", "explained"}
    /\ Len(literals) <= Len(branches)
    /\ \A k \in DOMAIN literals : \A m \in DOMAIN literals[k] : Len(literals[k][m]) >= 3
    /\ weight \in Weightings /\ strategy \in Strategies /\ told \in Overrides \cup {"Auto"}

\* Nothing that the regex matches is filtered out.  It is enough to look at
\* the matched text: the index has its n-grams for a file that contains it.
Sound == stage = "planned" => \A text \in Texts : Passes(GramsInIndex(text))

\* For plain regexes, with either strategy, if no pairs of a literal tie.
PlainIsSound ==
    Plain /\ (\A k \in DOMAIN literals : \A m \in DOMAIN literals[k] : Untied(literals[k][m], weight))
        => Sound

\* The two computations agree: plan_query_full, which chose the plan, and the
\* code of plan_diagnostics_with_strategy that scores both ways once more.  The
\* plan is one of the rows, the cheaper one unless a strategy is forced; nothing
\* is to be looked up exactly if no literal is shown; the lookups are those of
\* the plan, of which branches with the same n-grams may be several.  The sparse
\* row is missing exactly if some branch has no literal, and where there is one
\* it has more lookups than the trigram row.  So it is never missing for the
\* reason that `qndx plan` prints, "unavailable ({} sparse grams >= {} trigrams,
\* no reduction)" (main.rs:681, README.md:123).
DiagnosticsMatchPlan ==
    stage = "explained" =>
        /\ IF strategy = "Sparse" THEN report.sparse = {score} ELSE report.trigram = score
        /\ strategy = "Sparse" <=>
              /\ told # "ForceTrigram" /\ report.sparse # {}
              /\ told = "Auto" => \A row \in report.sparse : row.total < report.trigram.total
        /\ report.sparse = {} <=> \E k \in DOMAIN literals : literals[k] = <<>>
        /\ \A row \in report.sparse : row.lookups > report.trigram.lookups
        /\ report.literals = <<>> <=> report.trigram.lookups = 0
        /\ Cardinality(plan.required \cup UNION plan.alternatives) <= score.lookups
        /\ score.lookups <= Cardinality(plan.required)
              + Len(branches) * Cardinality(UNION plan.alternatives)

\* README.md: "it never introduces false negatives".
NeverLosesAMatch == Sound
=============================================================================
