-------------------------- MODULE BudgetGateProofs --------------------------
(***************************************************************************)
(* Proofs about the performance gate: for all benchmarks, budgets, orders  *)
(* of the mapping and lengths of the log, both copies of the parser find   *)
(* what is there, and the verdict is the one that the budgets call for.    *)
(***************************************************************************)
EXTENDS BudgetGate, TLAPS

\* A stretch of a report: the line with the percentages of the long form
\* follows the bare change:.
InOrder(lines) ==
    \A k \in DOMAIN lines : k > 1 /\ lines[k].kind = "timeChange" => lines[k - 1].kind = "bare"

Pending == rest # <<>> /\ rest[1].kind = "timeChange" /\ subject # NoName

\* Both copies know the bench whose report is printed, and the marker is set
\* when the line that it is for comes next.
ParserInv ==
    /\ InOrder(rest)
    /\ \A copy \in Copies : parser[copy].bench = subject
    /\ Pending => parser.cli.marker /\ (quiet => parser.lib.marker)
    /\ ChangesKeepTheirNames

IInv == TypeOK /\ ParserInv /\ VerdictIsDue

LEMMA ReportsAreInOrder ==
    ASSUME NEW report \in Reports
    PROVE  /\ report \in Seq(Lines) /\ InOrder(report)
           /\ Len(report) > 0 /\ report[1].kind = "name"
PROOF
  <1>1. PICK name \in Names, pct \in Percents :
           report \in {MultiLine(name, pct), SingleLine(name, pct), Uncompared(name)}
    BY DEF Reports
  <1>2. CASE report = MultiLine(name, pct)
    <2>1. /\ DOMAIN report = 1 .. 7 /\ Len(report) = 7
          /\ report[1] = [kind |-> "name", name |-> name]
          /\ report[2] = [kind |-> "time"] /\ report[3] = [kind |-> "thrpt"]
          /\ report[4] = [kind |-> "bare"]
          /\ report[5] = [kind |-> "timeChange", pct |-> pct]
          /\ report[6] = [kind |-> "thrpt"] /\ report[7] = [kind |-> "other"]
      BY <1>2 DEF MultiLine, Line, NameLine, ChangeLine
    <2>2. \A k \in 1 .. 7 : report[k] \in Lines
      BY <2>1 DEF Lines
    <2>3. report \in Seq(Lines)
      BY <1>2, <2>1, <2>2 DEF MultiLine
    <2> QED  BY <2>1, <2>3 DEF InOrder
  <1>3. CASE report = SingleLine(name, pct)
    <2>1. /\ DOMAIN report = 1 .. 4 /\ Len(report) = 4
          /\ report[1] = [kind |-> "name", name |-> name]
          /\ report[2] = [kind |-> "time"]
          /\ report[3] = [kind |-> "change", pct |-> pct]
          /\ report[4] = [kind |-> "other"]
      BY <1>3 DEF SingleLine, Line, NameLine, ChangeLine
    <2>2. \A k \in 1 .. 4 : report[k] \in Lines
      BY <2>1 DEF Lines
    <2>3. report \in Seq(Lines)
      BY <1>3, <2>1, <2>2 DEF SingleLine
    <2> QED  BY <2>1, <2>3 DEF InOrder
  <1>4. CASE report = Uncompared(name)
    <2>1. /\ DOMAIN report = 1 .. 2 /\ Len(report) = 2
          /\ report[1] = [kind |-> "name", name |-> name]
          /\ report[2] = [kind |-> "time"]
      BY <1>4 DEF Uncompared, Line, NameLine
    <2>2. report \in Seq(Lines)
      BY <1>4, <2>1 DEF Uncompared, Lines
    <2> QED  BY <2>1, <2>2 DEF InOrder
  <1> QED  BY <1>1, <1>2, <1>3, <1>4

-----------------------------------------------------------------------------
(* What one line does to a parser.                                         *)

ParserStates == [bench : Names \cup {NoName}, marker : BOOLEAN, found : Seq(Comparison)]
LogLines     == Lines \cup {Line("blank")}

Compares(line, p) == line.kind = "change" \/ (line.kind = "timeChange" /\ p.marker)

\* What both copies do: a name is taken over, a comparison is noted.
Follows(p, line, q) ==
    /\ q \in ParserStates
    /\ q.bench = IF line.kind = "name" THEN line.name ELSE p.bench
    /\ q.found = IF Compares(line, p) /\ p.bench # NoName
                 THEN Append(p.found, [name |-> p.bench, pct |-> line.pct]) ELSE p.found
    /\ line.kind = "bare" => q.marker
    /\ line.kind = "blank" => q = p

LEMMA LineKinds ==
    ASSUME NEW line \in LogLines
    PROVE  /\ line.kind \in {"time", "thrpt", "bare", "other", "name", "change", "timeChange", "blank"}
           /\ line.kind = "name" => line.name \in Names /\ line.name # NoName
           /\ line.kind \in {"change", "timeChange"} => line.pct \in Percents
PROOF
  <1>1. NoName \notin Names
    BY NamesAssumption DEF NoName
  <1> QED  BY <1>1 DEF LogLines, Lines, Line

LEMMA NotedNames ==
    ASSUME NEW p \in ParserStates, NEW pct \in Percents
    PROVE  /\ Noted(p, pct) \in ParserStates
           /\ Noted(p, pct).bench = p.bench
           /\ Noted(p, pct).found = IF p.bench # NoName
                                    THEN Append(p.found, [name |-> p.bench, pct |-> pct]) ELSE p.found
PROOF
  <1>1. p.bench # NoName => Append(p.found, [name |-> p.bench, pct |-> pct]) \in Seq(Comparison)
    <2>1. p.bench # NoName => [name |-> p.bench, pct |-> pct] \in Comparison
      BY DEF ParserStates, Comparison
    <2> QED  BY <2>1 DEF ParserStates
  <1> QED  BY <1>1 DEF Noted, ParserStates

\* Either copy follows a line.
LEMMA CommandFollows ==
    ASSUME NEW p \in ParserStates, NEW line \in LogLines
    PROVE  Follows(p, line, ParseByCommand(p, line))
PROOF
  <1>1. CASE line.kind = "name"
    BY <1>1, LineKinds DEF Follows, ParseByCommand, ParseName, ParserStates, Compares
  <1>2. CASE Compares(line, p)
    <2>1. ParseByCommand(p, line) = Noted(p, line.pct) /\ line.pct \in Percents
      BY <1>2, LineKinds DEF Compares, ParseByCommand
    <2> QED  BY <1>2, <2>1, NotedNames DEF Follows, Compares
  <1>3. CASE line.kind = "bare"
    BY <1>3 DEF Follows, ParseByCommand, ParserStates, Compares
  <1>4. CASE line.kind \notin {"name", "bare"} /\ ~Compares(line, p)
    <2>1. ParseByCommand(p, line) = p
      BY <1>4 DEF ParseByCommand, Compares
    <2> QED  BY <1>4, <2>1 DEF Follows
  <1> QED  BY <1>1, <1>2, <1>3, <1>4

LEMMA LibraryFollows ==
    ASSUME NEW p \in ParserStates, NEW line \in LogLines
    PROVE  Follows(p, line, ParseByLibrary(p, line))
PROOF
  <1>1. CASE line.kind \in {"time", "thrpt", "other"}
    BY <1>1 DEF Follows, ParseByLibrary, ParserStates, Compares
  <1>2. CASE line.kind \notin {"time", "thrpt", "other"}
    BY <1>2, CommandFollows DEF ParseByLibrary
  <1> QED  BY <1>1, <1>2

\* What a report or another program prints moves both parsers along.
LEMMA BothFollow ==
    ASSUME TypeOK, NEW line \in LogLines, Parse(line)
    PROVE  /\ DOMAIN parser' = Copies
           /\ \A copy \in Copies : Follows(parser[copy], line, parser'[copy])
PROOF
  <1>1. \A copy \in Copies : parser[copy] \in ParserStates
    BY DEF TypeOK, ParserStates
  <1>2. /\ DOMAIN parser' = {"cli", "lib"}
        /\ parser'.cli = ParseByCommand(parser["cli"], line)
        /\ parser'.lib = ParseByLibrary(parser["lib"], line)
    BY DEF Parse
  <1>3. Follows(parser["cli"], line, parser'["cli"]) /\ Follows(parser["lib"], line, parser'["lib"])
    BY <1>1, <1>2, CommandFollows, LibraryFollows DEF Copies
  <1> QED  BY <1>2, <1>3 DEF Copies

\* Whatever pattern comes first, a name is mapped to one of its budgets.
LEMMA KeysAreBudgets ==
    ASSUME NEW key \in MapBenchName, NEW name \in Names
    PROVE  \/ key[name] \in Budgets(name)
           \/ key[name] = NoKey /\ Budgets(name) = {}
PROOF
  <1>1. PICK first \in Firsts :
           key = [n \in Names |-> IF Matching(n) = {} THEN NoKey ELSE Mapping[first[n]]]
    BY DEF MapBenchName
  <1>2. Matching(name) # {} => first[name] \in Matching(name)
    BY DEF Firsts
  <1> QED  BY <1>1, <1>2 DEF Budgets

LEMMA Appended ==
    ASSUME NEW S, NEW s \in Seq(S), NEW e \in S
    PROVE  ToSet(Append(s, e)) = ToSet(s) \cup {e}
PROOF
  <1>1. /\ DOMAIN s = 1 .. Len(s) /\ DOMAIN Append(s, e) = 1 .. Len(s) + 1 /\ Len(s) \in Nat
        /\ \A k \in 1 .. Len(s) : Append(s, e)[k] = s[k]
        /\ Append(s, e)[Len(s) + 1] = e
    OBVIOUS
  <1>2. ASSUME NEW x \in ToSet(Append(s, e)) PROVE x \in ToSet(s) \cup {e}
    BY <1>1, <1>2 DEF ToSet
  <1>3. ASSUME NEW x \in ToSet(s) \cup {e} PROVE x \in ToSet(Append(s, e))
    <2>1. CASE x = e
      BY <1>1, <2>1 DEF ToSet
    <2>2. CASE x \in ToSet(s)
      <3>1. PICK k \in 1 .. Len(s) : x = s[k]
        BY <1>1, <2>2 DEF ToSet
      <3>2. k \in DOMAIN Append(s, e) /\ x = Append(s, e)[k]
        BY <1>1, <3>1
      <3> QED  BY <3>2 DEF ToSet
    <2> QED  BY <1>3, <2>1, <2>2
  <1> QED  BY <1>2, <1>3

-----------------------------------------------------------------------------
(* The invariant.                                                          *)

LEMMA InitIInv ==
    Init => IInv
PROOF
  <1> SUFFICES ASSUME Init PROVE IInv
    OBVIOUS
  <1>0. PICK report \in Reports :
           \E n \in 1 .. Len(report) : rest = SubSeq(report, n + 1, Len(report))
    BY DEF Init
  <1>1. PICK n \in 1 .. Len(report) : rest = SubSeq(report, n + 1, Len(report))
    BY <1>0
  <1>2. report \in Seq(Lines) /\ InOrder(report)
    BY ReportsAreInOrder
  <1>3. /\ rest \in Seq(Lines) /\ Len(rest) = Len(report) - n
        /\ \A k \in 1 .. Len(rest) : rest[k] = report[k + n]
    BY <1>1, <1>2
  <1>4. InOrder(rest)
    <2> SUFFICES ASSUME NEW k \in DOMAIN rest, k > 1, rest[k].kind = "timeChange"
                 PROVE  rest[k - 1].kind = "bare"
      BY DEF InOrder
    <2>1. /\ k + n \in DOMAIN report /\ k + n > 1 /\ k - 1 \in 1 .. Len(rest)
          /\ rest[k] = report[k + n] /\ rest[k - 1] = report[k + n - 1]
      BY <1>2, <1>3
    <2> QED  BY <1>2, <2>1 DEF InOrder
  <1>5. TypeOK
    BY <1>3, MaxReportsAssumption DEF Init, TypeOK, Parser0, Copies
  <1>6. ParserInv
    BY <1>4 DEF Init, ParserInv, Pending, ChangesKeepTheirNames, Parser0, Copies, ToSet
  <1>7. VerdictIsDue
    BY DEF Init, VerdictIsDue
  <1> QED  BY <1>5, <1>6, <1>7 DEF IInv

\* As long as there is no verdict, none is wrong.
LEMMA NoVerdictYet ==
    ASSUME Logging, verdict' = verdict
    PROVE  VerdictIsDue'
PROOF  BY DEF Logging, VerdictIsDue

LEMMA BeginStep ==
    ASSUME IInv, NEW report \in Reports, Begin(report)
    PROVE  IInv'
PROOF
  <1>1. /\ report \in Seq(Lines) /\ InOrder(report)
        /\ Len(report) > 0 /\ report[1].kind = "name"
    BY ReportsAreInOrder
  <1>2. TypeOK'
    BY <1>1, MaxReportsAssumption DEF IInv, Begin, TypeOK
  <1>3. ChangesKeepTheirNames'
    BY DEF IInv, ParserInv, Begin, ChangesKeepTheirNames
  <1>4. ParserInv'
    BY <1>1, <1>3 DEF IInv, ParserInv, Pending, Begin
  <1>5. VerdictIsDue'
    BY NoVerdictYet DEF Begin
  <1> QED  BY <1>2, <1>4, <1>5 DEF IInv

LEMMA BreakOffStep ==
    ASSUME IInv, BreakOff
    PROVE  IInv'
PROOF
  <1>1. TypeOK'
    BY DEF IInv, BreakOff, TypeOK
  <1>2. ChangesKeepTheirNames'
    BY DEF IInv, ParserInv, BreakOff, ChangesKeepTheirNames
  <1>3. ParserInv'
    BY <1>2 DEF IInv, ParserInv, Pending, BreakOff, InOrder
  <1>4. VerdictIsDue'
    BY NoVerdictYet DEF BreakOff
  <1> QED  BY <1>1, <1>3, <1>4 DEF IInv

LEMMA IntrudeStep ==
    ASSUME IInv, NEW kind \in {"other", "blank"}, Intrude(kind)
    PROVE  IInv'
PROOF
  <1>1. Line(kind) \in LogLines /\ Line(kind).kind = kind
    BY DEF LogLines, Lines, Line
  <1>2. /\ DOMAIN parser' = Copies
        /\ \A copy \in Copies : Follows(parser[copy], Line(kind), parser'[copy])
    BY <1>1, BothFollow DEF IInv, Intrude
  <1>3. \A copy \in Copies : /\ parser'[copy] \in ParserStates
                             /\ parser'[copy].bench = parser[copy].bench
                             /\ parser'[copy].found = parser[copy].found
    BY <1>1, <1>2 DEF Follows, Compares
  <1>4. parser'.cli = parser.cli
    BY <1>1 DEF Intrude, Parse, ParseByCommand
  <1>5. quiet' => quiet /\ parser'["lib"] = parser["lib"]
    BY <1>1, <1>2 DEF Intrude, Follows, Copies
  <1>6. TypeOK'
    <2>1. parser' \in [Copies -> ParserStates]
      <3>1. parser' = [copy \in Copies |-> parser'[copy]]
        BY DEF Intrude, Parse, Copies
      <3> QED  BY <1>2, <1>3, <3>1
    <2> QED  BY <2>1 DEF IInv, TypeOK, Intrude, ParserStates
  <1>7. ChangesKeepTheirNames'
    BY <1>3, <1>5 DEF IInv, ParserInv, ChangesKeepTheirNames, Intrude, Copies
  <1>8. ParserInv'
    BY <1>3, <1>4, <1>5, <1>7 DEF IInv, ParserInv, Pending, Intrude
  <1>9. VerdictIsDue'
    BY NoVerdictYet DEF Intrude
  <1> QED  BY <1>6, <1>8, <1>9 DEF IInv

\* The line of a comparison is found by the command, and by the library when
\* its marker is set; the marker for the next line is set by this one.
LEMMA PrintLineStep ==
    ASSUME IInv, PrintLine
    PROVE  IInv'
PROOF
  <1> DEFINE line == rest[1]
  <1> DEFINE noted == [name |-> subject, pct |-> line.pct]
  <1>1. /\ rest \in Seq(Lines) /\ Len(rest) > 0 /\ Head(rest) = line
        /\ line \in Lines /\ line \in LogLines
    BY DEF IInv, TypeOK, PrintLine, LogLines
  <1> HIDE DEF line
  <1>2. /\ DOMAIN parser' = Copies
        /\ \A copy \in Copies : Follows(parser[copy], line, parser'[copy])
    BY <1>1, BothFollow DEF IInv, PrintLine
  <1>3. \A copy \in Copies : parser[copy].bench = subject
    BY DEF IInv, ParserInv
  <1>4. /\ line.kind = "name" => line.name \in Names
        /\ line.kind \in {"change", "timeChange"} => line.pct \in Percents
    BY <1>1, LineKinds
  <1>5. /\ subject' = IF line.kind = "name" THEN line.name ELSE subject
        /\ printed' = IF line.kind \in {"change", "timeChange"} /\ subject # NoName
                      THEN Append(printed, noted) ELSE printed
        /\ rest' = Tail(rest) /\ quiet' = quiet
    BY <1>1 DEF PrintLine
  <1>6. /\ rest' \in Seq(Lines) /\ Len(rest') = Len(rest) - 1
        /\ \A k \in 1 .. Len(rest') : rest'[k] = rest[k + 1]
    BY <1>1, <1>5
  <1>7. line.kind \in {"change", "timeChange"} /\ subject # NoName => noted \in Comparison
    BY <1>4 DEF IInv, TypeOK, Comparison
  <1>8. TypeOK'
    <2>1. parser' \in [Copies -> ParserStates]
      <3>1. parser' = [copy \in Copies |-> parser'[copy]]
        BY DEF PrintLine, Parse, Copies
      <3> QED  BY <1>2, <3>1 DEF Follows
    <2>2. printed' \in Seq(Comparison) /\ subject' \in Names \cup {NoName}
      BY <1>4, <1>5, <1>7 DEF IInv, TypeOK
    <2> QED  BY <1>6, <2>1, <2>2 DEF IInv, TypeOK, PrintLine, ParserStates
  <1>9. InOrder(rest')
    <2> SUFFICES ASSUME NEW k \in DOMAIN rest', k > 1, rest'[k].kind = "timeChange"
                 PROVE  rest'[k - 1].kind = "bare"
      BY DEF InOrder
    <2>1. /\ k + 1 \in DOMAIN rest /\ k + 1 > 1 /\ k - 1 \in 1 .. Len(rest')
          /\ rest'[k] = rest[k + 1] /\ rest'[k - 1] = rest[k]
      BY <1>1, <1>6
    <2> QED  BY <2>1 DEF IInv, ParserInv, InOrder
  <1>10. \A copy \in Copies : parser'[copy].bench = subject'
    BY <1>2, <1>3, <1>5 DEF Follows
  <1>11. Pending' => parser'["cli"].marker /\ parser'["lib"].marker
    <2> SUFFICES ASSUME Pending' PROVE parser'["cli"].marker /\ parser'["lib"].marker
      OBVIOUS
    <2>1. 2 \in DOMAIN rest /\ rest[2].kind = "timeChange"
      BY <1>1, <1>6 DEF Pending
    <2>2. line.kind = "bare"
      BY <2>1 DEF IInv, ParserInv, InOrder, line
    <2> QED  BY <1>2, <2>2 DEF Follows, Copies
  <1>12. ChangesKeepTheirNames'
    <2>1. CASE line.kind \in {"change", "timeChange"} /\ subject # NoName
      <3>1. line.kind = "timeChange" => parser["cli"].marker /\ (quiet => parser["lib"].marker)
        BY <1>1, <2>1 DEF IInv, ParserInv, Pending, line
      <3>2. Compares(line, parser["cli"]) /\ (quiet => Compares(line, parser["lib"]))
        BY <2>1, <3>1 DEF Compares
      <3>3. /\ parser'["cli"].found = Append(parser["cli"].found, noted)
            /\ \/ parser'["lib"].found = Append(parser["lib"].found, noted)
               \/ ~quiet /\ parser'["lib"].found = parser["lib"].found
        BY <1>2, <1>3, <2>1, <3>2 DEF Follows, Copies
      <3>4. printed' = Append(printed, noted)
        BY <1>5, <2>1
      <3>5. /\ ToSet(printed') = ToSet(printed) \cup {noted}
            /\ ToSet(Append(parser["lib"].found, noted)) = ToSet(parser["lib"].found) \cup {noted}
        <4>1. noted \in Comparison /\ printed \in Seq(Comparison)
              /\ parser["lib"].found \in Seq(Comparison)
          BY <1>7, <2>1 DEF IInv, TypeOK, Copies
        <4> QED  BY <3>4, <4>1, Appended
      <3> QED  BY <1>5, <3>3, <3>4, <3>5 DEF IInv, ParserInv, ChangesKeepTheirNames
    <2>2. CASE ~(line.kind \in {"change", "timeChange"} /\ subject # NoName)
      <3>1. printed' = printed
        BY <1>5, <2>2
      <3>2. \A copy \in Copies : parser'[copy].found = parser[copy].found
        BY <1>2, <1>3, <2>2 DEF Follows, Compares
      <3> QED  BY <1>5, <3>1, <3>2 DEF IInv, ParserInv, ChangesKeepTheirNames, Copies
    <2> QED  BY <2>1, <2>2
  <1>13. ParserInv'
    BY <1>9, <1>10, <1>11, <1>12 DEF ParserInv
  <1>14. VerdictIsDue'
    BY NoVerdictYet DEF PrintLine
  <1> QED  BY <1>8, <1>13, <1>14 DEF IInv

\* A comparison counts as critical exactly when it breaks the budget.
LEMMA CriticalBreaks ==
    ASSUME NEW change \in Comparison, NEW path
    PROVE  Classify(change, path) = "critical" <=> Breaks(change, path)
PROOF
  <1>1. change.pct \in Int
    BY PercentsAssumption DEF Comparison
  <1>2. CASE ~IsBudget(path)
    BY <1>1, <1>2 DEF Classify, Breaks
  <1>3. CASE IsBudget(path)
    <2>1. Threshold(Tables[path]) \in Int
      BY <1>3, ConfigAssumption DEF IsBudget, Threshold
    <2> HIDE DEF Threshold
    <2> QED  BY <1>1, <1>3, <2>1 DEF Classify, Breaks
  <1> QED  BY <1>2, <1>3

\* A failure has a change that breaks the budget its name was mapped to; a pass
\* has none, and every name with budgets was mapped to one of them.
LEMMA CheckStep ==
    ASSUME IInv, NEW copy \in Copies, Check(copy)
    PROVE  IInv'
PROOF
  <1> DEFINE found == parser[copy].found
  <1>1. found \in Seq(Comparison) /\ printed \in Seq(Comparison)
    BY DEF IInv, TypeOK
  <1>2. /\ ToSet(found) \subseteq ToSet(printed)
        /\ copy = "cli" \/ quiet => found = printed
    BY DEF IInv, ParserInv, ChangesKeepTheirNames, Copies
  <1> HIDE DEF found
  <1>3. PICK key \in MapBenchName : verdict' = [verdict EXCEPT ![copy] = Verdict(found, key)]
    BY DEF Check, found
  <1>4. Verdict(found, key) \in {"pass", "fail"}
    BY DEF Verdict
  <1>5. /\ DOMAIN verdict = Copies
        /\ verdict'[copy] = Verdict(found, key)
        /\ \A other \in Copies \ {copy} : verdict'[other] = verdict[other]
    BY <1>3 DEF IInv, TypeOK
  <1>6. \A k \in DOMAIN found : found[k] \in Comparison /\ found[k] \in ToSet(found)
    BY <1>1 DEF ToSet
  <1>7. TypeOK'
    BY <1>3, <1>4 DEF IInv, TypeOK, Check
  <1>8. ParserInv'
    BY DEF IInv, ParserInv, Pending, ChangesKeepTheirNames, Check
  <1>9. ASSUME Verdict(found, key) = "fail"
        PROVE  /\ ci # "false"
               /\ \E change \in ToSet(printed) :
                     \E path \in Budgets(change.name) : Breaks(change, path)
    <2>1. Enforced /\ Violations(found, key) # {}
      BY <1>9 DEF Verdict
    <2>2. PICK k \in DOMAIN found : Classify(found[k], key[found[k].name]) = "critical"
      BY <2>1 DEF Violations
    <2>3. Breaks(found[k], key[found[k].name])
      BY <1>6, <2>2, CriticalBreaks
    <2>4. key[found[k].name] # NoKey
      BY <2>3, ConfigAssumption DEF Breaks, IsBudget
    <2>5. key[found[k].name] \in Budgets(found[k].name)
      <3>1. found[k].name \in Names
        BY <1>6 DEF Comparison
      <3> QED  BY <2>4, <3>1, KeysAreBudgets
    <2>6. ci # "false"
      BY <2>1 DEF Enforced
    <2> QED  BY <1>2, <1>6, <2>3, <2>5, <2>6
  <1>10. ASSUME Verdict(found, key) = "pass", ci = "true", copy = "cli" \/ quiet,
                NEW change \in ToSet(printed), Budgets(change.name) # {}
         PROVE  \E path \in Budgets(change.name) : ~Breaks(change, path)
    <2>1. Violations(found, key) = {}
      BY <1>10 DEF Verdict, Enforced
    <2>2. PICK k \in DOMAIN found : change = found[k]
      BY <1>2, <1>10 DEF ToSet
    <2>3. Classify(change, key[change.name]) # "critical"
      BY <2>1, <2>2 DEF Violations
    <2>4. change \in Comparison
      BY <1>6, <2>2
    <2>5. ~Breaks(change, key[change.name])
      BY <2>3, <2>4, CriticalBreaks
    <2>6. key[change.name] \in Budgets(change.name)
      <3>1. change.name \in Names
        BY <2>4 DEF Comparison
      <3> QED  BY <1>10, <3>1, KeysAreBudgets
    <2> QED  BY <2>5, <2>6
  <1>11. VerdictIsDue'
    <2>1. /\ ci' = ci /\ quiet' = quiet /\ printed' = printed
      BY DEF Check
    <2> SUFFICES ASSUME NEW c \in Copies
                 PROVE  /\ verdict'[c] = "fail" =>
                              /\ ci # "false"
                              /\ \E change \in ToSet(printed) :
                                    \E path \in Budgets(change.name) : Breaks(change, path)
                        /\ verdict'[c] = "pass" /\ ci = "true" /\ (c = "cli" \/ quiet) =>
                              \A change \in ToSet(printed) :
                                  Budgets(change.name) # {} =>
                                      \E path \in Budgets(change.name) : ~Breaks(change, path)
      BY <2>1 DEF VerdictIsDue
    <2>2. CASE c = copy
      BY <1>5, <1>9, <1>10, <2>2
    <2>3. CASE c # copy
      BY <1>5, <2>3 DEF IInv, VerdictIsDue
    <2> QED  BY <2>2, <2>3
  <1> QED  BY <1>7, <1>8, <1>11 DEF IInv

-----------------------------------------------------------------------------
(* The theorems.                                                           *)

\* Every step of the gate and of what writes the log keeps the invariant.
THEOREM Invariance ==
    Spec => []IInv
PROOF
  <1>1. ASSUME IInv, [Next]_vars
        PROVE  IInv'
    <2>1. ASSUME NEW report \in Reports, Begin(report) PROVE IInv'
      BY <1>1, <2>1, BeginStep
    <2>2. CASE PrintLine
      BY <1>1, <2>2, PrintLineStep
    <2>3. CASE BreakOff
      BY <1>1, <2>3, BreakOffStep
    <2>4. ASSUME NEW kind \in {"other", "blank"}, Intrude(kind) PROVE IInv'
      BY <1>1, <2>4, IntrudeStep
    <2>5. ASSUME NEW copy \in Copies, Check(copy) PROVE IInv'
      BY <1>1, <2>5, CheckStep
    <2>6. CASE UNCHANGED vars
      BY <1>1, <2>6 DEF vars, IInv, TypeOK, ParserInv, Pending, InOrder,
                        ChangesKeepTheirNames, VerdictIsDue
    <2> QED  BY <1>1, <2>1, <2>2, <2>3, <2>4, <2>5, <2>6 DEF Next
  <1> QED  BY InitIInv, <1>1, PTL DEF Spec

\* The variables of the gate keep their types.
THEOREM TypeCorrect ==
    Spec => []TypeOK
PROOF
  <1>1. IInv => TypeOK
    BY DEF IInv
  <1> QED  BY <1>1, Invariance, PTL

\* The parsers find the comparisons of every log under the names of their
\* benches, however long it is and wherever it begins and breaks off.
THEOREM ChangesAreNamed ==
    Spec => []ChangesKeepTheirNames
PROOF
  <1>1. IInv => ChangesKeepTheirNames
    BY DEF IInv, ParserInv
  <1> QED  BY <1>1, Invariance, PTL

\* The verdict of both copies is due, for all budgets and mappings.
THEOREM VerdictsAreDue ==
    Spec => []VerdictIsDue
PROOF
  <1>1. IInv => VerdictIsDue
    BY DEF IInv
  <1> QED  BY <1>1, Invariance, PTL

=============================================================================
