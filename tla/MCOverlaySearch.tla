-------------------------- MODULE MCOverlaySearch --------------------------
(***************************************************************************)
(* One query that filters by n-grams and one that every file passes.       *)
(***************************************************************************)
EXTENDS OverlaySearch, MCCorpus

MCTwoQueries == {"qboth", "qany"}
MCTwoHits    == [q \in MCTwoQueries |-> MCHits[q]]
MCTwoPlans   == [q \in MCTwoQueries |-> MCPlan[q]]
=============================================================================
