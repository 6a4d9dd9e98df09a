----------------------------- MODULE Decompose -----------------------------
(***************************************************************************)
(* From a regex to its literals: split_top_level_alternation and           *)
(* extract_literals of qndx-query/src/decompose.rs, and the language of    *)
(* the regex to judge them by.  Planner goes on from the literals.         *)
(*                                                                         *)
(* A regex is built from pieces, each an atom with a quantifier.  An atom  *)
(* is written as tokens, and a group in parentheses; it matches texts,     *)
(* which is what the regex library makes of it.  The code sees the written *)
(* characters only.                                                        *)
(***************************************************************************)
EXTENDS Ngrams

CONSTANTS
    Atoms,      \* records: tokens and group (as written), texts (matched)
    Runs,       \* atoms of several tokens, which take no quantifier
    Quantifiers,\* of "", "?", "*", "+"
    MaxPieces,  \* bound on the pieces of a branch
    MaxBranches,\* bound on the branches of the regex
    MaxRepeats  \* bound on the repetitions that texts are made of

\* A letter or a sign, an escape, a class without brackets or escapes inside.
IsSingle(token) == Len(token) = 1 /\ token[1] \notin {"\\", "[", "(", ")", "|"}
IsEscape(token) == Len(token) = 2 /\ token[1] = "\\"
IsClass(token) ==
    /\ Len(token) >= 2 /\ token[1] = "[" /\ token[Len(token)] = "]"
    /\ \A k \in 2 .. Len(token) - 1 : token[k] \notin {"\\", "[", "]"}

\* A bar is in a group.
ASSUME AtomsAssumption ==
    \A atom \in Atoms \cup Runs :
        /\ atom \in [tokens : Seq(Seq(STRING)), group : BOOLEAN, texts : SUBSET Seq(STRING)]
        /\ \A token \in ToSet(atom.tokens) :
              IsSingle(token) \/ IsEscape(token) \/ IsClass(token) \/ (atom.group /\ token = <<"|">>)

ASSUME DecomposeAssumption ==
    /\ Quantifiers \subseteq {"", "?", "*", "+"}
    /\ {MaxPieces, MaxBranches} \subseteq Nat \ {0}
    /\ MaxRepeats \in Nat

VARIABLES
    regex,      \* a sequence of branches, sequences of pieces
    branches,   \* the branches as the code has split the pattern
    literals,   \* the literals of each branch
    stage

regexVars == <<regex, branches, literals, stage>>

Pieces == [atom : Atoms, quantifier : Quantifiers] \cup [atom : Runs, quantifier : {""}]
UpTo(S, n) == UNION {[1 .. k -> S] : k \in 1 .. n}

DecomposeInit ==
    /\ regex \in UpTo(UpTo(Pieces, MaxPieces), MaxBranches)
    /\ branches = <<>> /\ literals = <<>>
    /\ stage = "split"

-----------------------------------------------------------------------------
(* How the regex is written.                                               *)

WrittenAtom(atom) ==
    IF atom.group THEN <<"(">> \o FlattenSeq(atom.tokens) \o <<")">> ELSE FlattenSeq(atom.tokens)
WrittenPiece(piece) ==
    WrittenAtom(piece.atom) \o (IF piece.quantifier = "" THEN <<>> ELSE <<piece.quantifier>>)
WrittenBranch(branch) == FlattenSeq([k \in DOMAIN branch |-> WrittenPiece(branch[k])])
Written ==
    FlattenSeq([k \in DOMAIN regex |->
        (IF k = 1 THEN <<>> ELSE <<"|">>) \o WrittenBranch(regex[k])])

-----------------------------------------------------------------------------
(* split_top_level_alternation, a character at a time.                     *)

Split0 == [done |-> <<>>, current |-> <<>>, depth |-> 0, escaped |-> FALSE, bracket |-> FALSE]
Put(state, chars) == [state EXCEPT !.current = @ \o chars]

\* Fault: brackets are not looked at.
SplitCharUnbracketed(s, ch) ==
    IF s.escaped THEN [Put(s, <<"\\", ch>>) EXCEPT !.escaped = FALSE]
    ELSE CASE ch = "\\" -> [s EXCEPT !.escaped = TRUE]
           [] ch = "("  -> [Put(s, <<ch>>) EXCEPT !.depth = @ + 1]
           [] ch = ")"  -> [Put(s, <<ch>>) EXCEPT !.depth = IF @ = 0 THEN 0 ELSE @ - 1]
           [] ch = "|" /\ s.depth = 0 ->
                [s EXCEPT !.done = Append(@, s.current), !.current = <<>>]
           [] OTHER -> Put(s, <<ch>>)

SplitChar(s, ch) ==
    IF s.escaped THEN [Put(s, <<"\\", ch>>) EXCEPT !.escaped = FALSE]
    ELSE CASE ch = "\\" -> [s EXCEPT !.escaped = TRUE]
           [] ch = "[" /\ ~s.bracket -> [Put(s, <<ch>>) EXCEPT !.bracket = TRUE]
           [] ch = "]" /\ s.bracket  -> [Put(s, <<ch>>) EXCEPT !.bracket = FALSE]
           [] ch = "(" /\ ~s.bracket -> [Put(s, <<ch>>) EXCEPT !.depth = @ + 1]
           [] ch = ")" /\ ~s.bracket -> [Put(s, <<ch>>) EXCEPT !.depth = IF @ = 0 THEN 0 ELSE @ - 1]
           [] ch = "|" /\ s.depth = 0 /\ ~s.bracket ->
                [s EXCEPT !.done = Append(@, s.current), !.current = <<>>]
           [] OTHER -> Put(s, <<ch>>)

SplitUpTo(pattern) ==
    LET state[n \in 0 .. Len(pattern)] ==
            IF n = 0 THEN Split0 ELSE SplitChar(state[n - 1], pattern[n])
    IN  state

SplitTopLevel(pattern) ==
    LET end == SplitUpTo(pattern)[Len(pattern)]
    IN  Append(end.done, end.current \o (IF end.escaped THEN <<"\\">> ELSE <<>>))

-----------------------------------------------------------------------------
(* extract_literals, a character at a time.                                *)

Extract0 == [found |-> <<>>, current |-> <<>>, escaped |-> FALSE, bracket |-> FALSE]

\* Fault: a run counts although no trigram fits in.
FlushAny(s) ==
    [s EXCEPT !.found = IF s.current # <<>> THEN Append(@, s.current) ELSE @,
              !.current = <<>>]

\* The current run ends; it counts if a trigram fits in.
Flush(s) ==
    [s EXCEPT !.found = IF Len(s.current) >= 3 THEN Append(@, s.current) ELSE @,
              !.current = <<>>]

Shorthands == {"w", "W", "d", "D", "s", "S", "b", "B"}
Metas == {".", "*", "+", "?", "(", ")", "{", "}", "^", "$"}

\* Fault: a quantifier or group does not end the run.
ExtractCharOnward(s, ch) ==
    IF s.escaped
    THEN LET t == [s EXCEPT !.escaped = FALSE]
         IN  IF s.bracket THEN t ELSE IF ch \in Shorthands THEN Flush(t) ELSE Put(t, <<ch>>)
    ELSE IF ch = "\\" THEN [s EXCEPT !.escaped = TRUE]
    ELSE IF s.bracket THEN [s EXCEPT !.bracket = (ch # "]")]
    ELSE IF ch = "[" THEN [Flush(s) EXCEPT !.bracket = TRUE]
    ELSE IF ch \in Metas THEN s
    ELSE Put(s, <<ch>>)

ExtractChar(s, ch) ==
    IF s.escaped
    THEN LET t == [s EXCEPT !.escaped = FALSE]
         IN  IF s.bracket THEN t ELSE IF ch \in Shorthands THEN Flush(t) ELSE Put(t, <<ch>>)
    ELSE IF ch = "\\" THEN [s EXCEPT !.escaped = TRUE]
    ELSE IF s.bracket THEN [s EXCEPT !.bracket = (ch # "]")]
    ELSE IF ch = "[" THEN [Flush(s) EXCEPT !.bracket = TRUE]
    ELSE IF ch \in Metas THEN Flush(s)
    ELSE Put(s, <<ch>>)

ExtractUpTo(branch) ==
    LET state[n \in 0 .. Len(branch)] ==
            IF n = 0 THEN Extract0 ELSE ExtractChar(state[n - 1], branch[n])
    IN  state

ExtractLiterals(branch) == Flush(ExtractUpTo(branch)[Len(branch)]).found

-----------------------------------------------------------------------------
(* decompose_pattern: the literals of one branch after the other.          *)

Split ==
    /\ stage = "split"
    /\ branches' = SplitTopLevel(Written)
    /\ stage' = "extract"
    /\ UNCHANGED <<regex, literals>>

Extract ==
    /\ stage = "extract" /\ Len(literals) < Len(branches)
    /\ literals' = Append(literals, ExtractLiterals(branches[Len(literals) + 1]))
    /\ UNCHANGED <<regex, branches, stage>>

-----------------------------------------------------------------------------
(* What the regex matches.                                                 *)

Join(A, B) == {a \o b : a \in A, b \in B}
Powers(A) ==
    LET power[n \in 0 .. MaxRepeats] == IF n = 0 THEN {<<>>} ELSE Join(A, power[n - 1])
    IN  power
Repeated(A, least) == UNION {Powers(A)[n] : n \in least .. MaxRepeats}

PieceTexts(piece) ==
    CASE piece.quantifier = ""  -> piece.atom.texts
      [] piece.quantifier = "?" -> piece.atom.texts \cup {<<>>}
      [] piece.quantifier = "*" -> Repeated(piece.atom.texts, 0)
      [] piece.quantifier = "+" -> Repeated(piece.atom.texts, 1)
TextsUpTo(branch) ==
    LET texts[n \in 0 .. Len(branch)] ==
            IF n = 0 THEN {<<>>} ELSE Join(texts[n - 1], PieceTexts(branch[n]))
    IN  texts
BranchTexts(branch) == TextsUpTo(branch)[Len(branch)]
Texts == UNION {BranchTexts(regex[k]) : k \in DOMAIN regex}

-----------------------------------------------------------------------------
\* The split finds exactly the branches of the regex: no bar in a group or in
\* a bracket cuts, every other bar does, and no character is lost.
SplitsAtTopLevel ==
    stage # "split" => branches = [k \in DOMAIN regex |-> WrittenBranch(regex[k])]

\* What matches any of several letters, or between two.
OfOneClass(atom) ==
    LET token == atom.tokens[1]
    IN  /\ ~atom.group /\ Len(atom.tokens) = 1
        /\ token = <<".">> \/ IsClass(token) \/ (IsEscape(token) /\ token[2] \in Shorthands)

\* Letters that match themselves, in a group or not.
OfLetters(atom) ==
    /\ \A token \in ToSet(atom.tokens) :
          \/ IsSingle(token) /\ token[1] \notin Metas
          \/ IsEscape(token) /\ token[2] \notin Shorthands
    /\ atom.texts = {[k \in DOMAIN atom.tokens |-> Last(atom.tokens[k])]}

\* A regex in which nothing written as a letter is optional or means another
\* letter: letters and classes, no ? or * but behind a class.
Plain ==
    \A k \in DOMAIN regex : \A m \in DOMAIN regex[k] :
        OfOneClass(regex[k][m].atom) \/ (OfLetters(regex[k][m].atom) /\ regex[k][m].quantifier \in {"", "+"})
=============================================================================
