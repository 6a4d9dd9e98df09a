----------------------------- MODULE MCCorpus -----------------------------
(***************************************************************************)
(* A small corpus for the configurations: "cy" contains the n-gram y,      *)
(* "cxy" contains x and y.  "qalt" is an alternation of x and y, "qboth"   *)
(* has the required n-gram y and an alternation on x, "qany" has no n-gram *)
(* to filter by.                                                           *)
(***************************************************************************)
EXTENDS Naturals, FiniteSets

MCPaths    == 1 .. 2
MCContents == {"cy", "cxy"}
MCAbsent   == "absent"
MCGrams    == {"x", "y"}
MCGramsOf  == [c \in MCContents |-> IF c = "cxy" THEN {"x", "y"} ELSE {"y"}]
MCQueries  == {"qalt", "qboth", "qany"}
MCHits     == [q \in MCQueries |-> CASE q = "qalt"  -> {"cy", "cxy"}
                                     [] q = "qboth" -> {"cxy"}
                                     [] q = "qany"  -> {"cy"}]
MCPlan     == [q \in MCQueries |->
                CASE q = "qalt"  -> [required |-> {}, alternatives |-> {{"x"}, {"y"}}]
                  [] q = "qboth" -> [required |-> {"y"}, alternatives |-> {{"x"}}]
                  [] q = "qany"  -> [required |-> {}, alternatives |-> {}]]
=============================================================================
