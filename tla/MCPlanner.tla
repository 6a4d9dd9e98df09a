----------------------------- MODULE MCPlanner -----------------------------
(***************************************************************************)
(* Atoms over letters.  Plain: a letter, any character, a class (of a bar  *)
(* and a parenthesis), a group, a digit, an escaped dot behind a letter.   *)
(* Not plain: a group with an alternation.                                 *)
(***************************************************************************)
EXTENDS Planner

\* No pair twice, and long enough for a sparse plan to be the cheaper one.
Long == <<"a", "a", "b", "b", "c", "c", "a", "c", "b">>

Class(token, texts) == [tokens |-> <<token>>, group |-> FALSE, texts |-> texts]
Word(letters, group) ==
    [tokens |-> [k \in DOMAIN letters |-> IF letters[k] = "." THEN <<"\\", ".">> ELSE <<letters[k]>>],
     group |-> group, texts |-> {letters}]

MCAtoms ==
    { Word(<<"a">>, FALSE), Word(<<"a", "b", "a">>, TRUE),
      Class(<<".">>, {<<"a">>, <<"b">>}),
      Class(<<"[", "(", "|", "]">>, {<<"(">>, <<"|">>}),
      Class(<<"\\", "d">>, {<<"1">>}) }
MCRuns == { Word(<<"a", "b", "b">>, FALSE), Word(<<"b", ".">>, FALSE), Word(Long, FALSE) }

MCLetterAtoms == { Word(<<"a">>, FALSE) }
MCGroupAtoms ==
    { [tokens |-> <<<<"a">>, <<"b">>, <<"|">>, <<"b">>>>, group |-> TRUE,
       texts |-> {<<"a", "b">>, <<"b">>}] }

\* All pairs weigh differently.  The first weights rise with the letters; in
\* the second the pairs of Long fall, but for the last, and the rest outweighs.
Order == <<"a", "b", "c", ".", "1", "(", "|", "\\", "d", "[", "]", ")", "?", "*", "+">>
Place(c) == CHOOSE k \in DOMAIN Order : Order[k] = c
PairsOfLetters == ToSet(Order) \X ToSet(Order)
PairsOfLong == 1 .. Len(Long) - 2
Rising == [pair \in PairsOfLetters |-> 100 * Place(pair[1]) + Place(pair[2])]
Valley ==
    [pair \in PairsOfLetters |->
        IF \E k \in PairsOfLong : pair = <<Long[k], Long[k + 1]>>
        THEN Len(Long) - CHOOSE k \in PairsOfLong : pair = <<Long[k], Long[k + 1]>>
        ELSE Rising[pair]]
MCWeightings == {Rising, Valley}
=============================================================================
