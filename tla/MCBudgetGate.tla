---------------------------- MODULE MCBudgetGate ----------------------------
(***************************************************************************)
(* Four bench names and four patterns, two of which match one name and     *)
(* map it to a critical budget and to one that is not; a budget with a     *)
(* default threshold, one below another budget, a table that is none, and  *)
(* a pattern for a budget that does not exist.                             *)
(***************************************************************************)
EXTENDS BudgetGate

Plain(text) == <<text, "">>
AnySegment       == [glob |-> "any"]
Exact(text) == [glob |-> "exact", text |-> Plain(text)]
Starting(text) == [glob |-> "prefix", text |-> text]
Ending(text)   == [glob |-> "suffix", text |-> text]

MCNames == {
    <<Plain("search"), <<"literal_", "short">>>>, <<Plain("search"), <<"regex_", "class">>>>,
    <<Plain("codec"), Plain("encode"), Plain("tiny")>>, <<Plain("git"), <<"open", "_head">>>>}

MCPercents == {-5, 10, 21}

Budget(regression, p50, throughput, critical) ==
    [regression |-> regression, p50 |-> p50, throughput |-> throughput, critical |-> critical]

MCTables ==
    (<<"search">>                    :> Budget(Unset, 5, Unset, "unset")) @@
    (<<"search", "literal">>         :> Budget(Unset, 10, 30, "true")) @@
    (<<"search", "literal", "tail">> :> Budget(5, Unset, Unset, "true")) @@
    (<<"search", "all">>             :> Budget(Unset, 10, 20, "false")) @@
    (<<"git">>                       :> Budget(Unset, Unset, Unset, "true"))

MCMapping ==
    (<<Exact("search"), Starting("literal_")>>       :> <<"search", "literal">>) @@
    (<<Exact("search"), AnySegment>>                 :> <<"search", "all">>) @@
    (<<Exact("codec"), AnySegment, AnySegment>>      :> <<"search", "literal", "tail">>) @@
    (<<AnySegment, Ending("_head")>>                 :> <<"git">>)
=============================================================================
