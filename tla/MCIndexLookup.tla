--------------------------- MODULE MCIndexLookup ---------------------------
(***************************************************************************)
(* Instances of IndexLookup.  A byte has 3 payload bits and a word 2 bytes *)
(* (8 bits), so that three varint groups exceed a word as five groups      *)
(* exceed 32 bits; a list of more than 2 ids is a bitmap.  The lists have  *)
(* distances of one, two and three groups, up to the largest id that a     *)
(* file can have.                                                          *)
(***************************************************************************)
EXTENDS IndexLookup

MCLists == {<<0>>, <<7, 254>>, <<7, 15>>, <<0, 7, 8>>, <<7, 15, 79, 254>>}

\* All tables of up to three hashes, and longer ones for the binary search.
MCIndexes ==
    UNION {[hashes -> MCLists] : hashes \in SUBSET {2, 4, 6}}
        \cup {[h \in 2 .. n |-> <<h>>] : n \in 5 .. 6}

MCPlan(required, alternatives) == [required |-> required, alternatives |-> alternatives]

MCPlans == {
    MCPlan(<<>>, <<>>),
    MCPlan(<<2>>, <<>>), MCPlan(<<3>>, <<>>), MCPlan(<<5>>, <<>>),
    MCPlan(<<6, 2>>, <<>>), MCPlan(<<2, 4, 6>>, <<>>),
    MCPlan(<<>>, <<<<2>>, <<4>>>>), MCPlan(<<>>, <<<<6, 4>>, <<7>>, <<2>>>>),
    MCPlan(<<>>, <<<<4>>, <<>>, <<2>>>>),
    MCPlan(<<2>>, <<<<4>>, <<6>>>>), MCPlan(<<4, 6>>, <<<<>>>>)}
=============================================================================
