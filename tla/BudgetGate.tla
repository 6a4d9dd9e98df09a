----------------------------- MODULE BudgetGate -----------------------------
(***************************************************************************)
(* The performance gate, check_performance_budgets: from the log of a      *)
(* benchmark run to a verdict.  There are two copies of it, the command's  *)
(* in qndx-cli/src/main.rs ("cli") and the library's in                    *)
(* qndx-bench/src/report.rs ("lib").  They differ in how they read a log.  *)
(*                                                                         *)
(* A log is what Criterion and others print, line by line; a bench run may *)
(* break off, and the log may begin in the middle of a report.             *)
(***************************************************************************)
EXTENDS Integers, Sequences, SequencesExt

CONSTANTS
    Names,      \* bench names: sequences of segments, each a pair of strings
    Percents,   \* changes of the time that a comparison may show
    Tables,     \* budgets.toml: the path of a table -> its settings
    Mapping,    \* budgets.toml: pattern of names -> path of a table
    MaxReports  \* bound on the reports of a log

Unset  == -1
NoName == <<>>
NoKey  == <<>>

\* The benchmarks are all in groups: without a slash, a line names none.
ASSUME NamesAssumption == \A name \in Names : Len(name) >= 2
ASSUME PercentsAssumption == Percents \subseteq Int
ASSUME ConfigAssumption ==
    /\ NoKey \notin DOMAIN Tables
    /\ \A path \in DOMAIN Tables :
          Tables[path] \in [regression : Int, p50 : Int, throughput : Int, critical : STRING]
ASSUME MaxReportsAssumption == MaxReports \in Nat

VARIABLES
    rest,       \* the lines of the report at hand that are still to come
    reports,    \* reports begun
    parser,     \* of each copy: [bench, marker, found]
    ci,         \* fail_on_critical: "true", "false", not set, or no table [ci] at all
    verdict,    \* of each copy
    subject,    \* history: the bench whose report is printed, if it was named
    printed,    \* history: the comparisons in the log
    quiet       \* history: no line of another program came in between

vars == <<rest, reports, parser, ci, verdict, subject, printed, quiet>>

Copies == {"cli", "lib"}

-----------------------------------------------------------------------------
(* Reports.  Criterion compares in two forms, and not at all when there is *)
(* nothing to compare with.                                                *)

Line(kind)            == [kind |-> kind]
NameLine(name)        == [kind |-> "name", name |-> name]
ChangeLine(kind, pct) == [kind |-> kind, pct |-> pct]

MultiLine(name, pct) ==
    <<NameLine(name), Line("time"), Line("thrpt"), Line("bare"),
      ChangeLine("timeChange", pct), Line("thrpt"), Line("other")>>
SingleLine(name, pct) ==
    <<NameLine(name), Line("time"), ChangeLine("change", pct), Line("other")>>
Uncompared(name) == <<NameLine(name), Line("time")>>

Reports ==
    UNION {{MultiLine(name, pct), SingleLine(name, pct), Uncompared(name)} :
                name \in Names, pct \in Percents}

-----------------------------------------------------------------------------
(* parse_criterion_output, a line at a time.                               *)

Parser0 == [bench |-> NoName, marker |-> FALSE, found |-> <<>>]

\* Fault: a change without a name is kept.
NotedNameless(p, pct) ==
    [p EXCEPT !.found = Append(p.found, [name |-> p.bench, pct |-> pct]), !.marker = FALSE]

\* A change belongs to the bench named last.
Noted(p, pct) ==
    [p EXCEPT !.found = IF p.bench = NoName THEN @
                        ELSE Append(@, [name |-> p.bench, pct |-> pct]),
              !.marker = FALSE]

\* Fault: a bench that has no change yet keeps the next one from being named.
ParseNameLate(p, name) ==
    IF p.found = <<>> /\ p.bench # NoName THEN p
    ELSE [p EXCEPT !.bench = name, !.marker = FALSE]

ParseName(p, name) == [p EXCEPT !.bench = name, !.marker = FALSE]

\* The command: a bare "change:" waits for the next line with percentages.
ParseByCommand(p, line) ==
    CASE line.kind = "name"                  -> ParseName(p, line.name)
      [] line.kind = "change"                -> Noted(p, line.pct)
      [] line.kind = "bare"                  -> [p EXCEPT !.marker = TRUE]
      [] line.kind = "timeChange" /\ p.marker -> Noted(p, line.pct)
      [] OTHER                               -> p

\* The library: it waits for one line, blank lines apart.
ParseByLibrary(p, line) ==
    IF line.kind \in {"time", "thrpt", "other"} THEN [p EXCEPT !.marker = FALSE]
    ELSE ParseByCommand(p, line)

Parse(line) ==
    parser' = [cli |-> ParseByCommand(parser.cli, line),
               lib |-> ParseByLibrary(parser.lib, line)]

-----------------------------------------------------------------------------
(* budgets.toml.                                                           *)

\* The table with the setting "critical" that is nearest to the root is a
\* budget; tables below it, and tables without it or that do not parse, are none.
IsBudget(path) ==
    /\ path \in DOMAIN Tables /\ Tables[path].critical \in {"true", "false"}
    /\ \A n \in 1 .. Len(path) - 1 :
          SubSeq(path, 1, n) \in DOMAIN Tables =>
              Tables[SubSeq(path, 1, n)].critical \notin {"true", "false"}

Threshold(budget) ==
    CASE budget.regression # Unset -> budget.regression
      [] budget.regression = Unset /\ budget.p50 # Unset -> budget.p50
      [] budget.regression = Unset /\ budget.p50 = Unset /\ budget.throughput # Unset ->
            budget.throughput
      [] OTHER -> 20

\* A pattern is a sequence of segments, each with a star or without.
SegmentMatch(pattern, segment) ==
    CASE pattern.glob = "any"    -> TRUE
      [] pattern.glob = "prefix" -> segment[1] = pattern.text
      [] pattern.glob = "suffix" -> segment[2] = pattern.text
      [] pattern.glob = "exact"  -> segment = pattern.text

GlobMatch(pattern, name) ==
    /\ Len(pattern) = Len(name)
    /\ \A k \in DOMAIN pattern : SegmentMatch(pattern[k], name[k])

Matching(name) == {pattern \in DOMAIN Mapping : GlobMatch(pattern, name)}

\* The mapping is a hash map: any pattern that matches may come first.
Firsts ==
    {first \in [Names -> DOMAIN Mapping \cup {NoKey}] :
        \A name \in Names : Matching(name) # {} => first[name] \in Matching(name)}

\* map_bench_name, for all names at once.
MapBenchName ==
    {[name \in Names |-> IF Matching(name) = {} THEN NoKey ELSE Mapping[first[name]]] :
        first \in Firsts}

-----------------------------------------------------------------------------
(* The verdict.                                                            *)

\* Fault: a change that reaches the threshold exceeds it.
ClassifyReaching(change, key) ==
    IF change.pct <= 0 THEN "ignored"
    ELSE IF ~IsBudget(key) THEN "unmapped"
    ELSE IF change.pct < Threshold(Tables[key]) THEN "passed"
    ELSE IF Tables[key].critical = "true" THEN "critical" ELSE "warning"

\* Improvements are ignored, and what no budget is for is skipped.
Classify(change, key) ==
    IF change.pct <= 0 THEN "ignored"
    ELSE IF ~IsBudget(key) THEN "unmapped"
    ELSE IF change.pct <= Threshold(Tables[key]) THEN "passed"
    ELSE IF Tables[key].critical = "true" THEN "critical" ELSE "warning"

Violations(changes, key) ==
    {k \in DOMAIN changes :
        Classify(changes[k], key[changes[k].name]) = "critical"}

\* The default of a setting is that of CiConfig's field only inside a table.
CiSettings == {"true", "false", "unset", "no table"}
Enforced   == ci \in {"true", "unset"}

\* What the two copies return, and the exit code of the command.
Verdict(changes, key) ==
    IF Enforced /\ Violations(changes, key) # {} THEN "fail" ELSE "pass"

-----------------------------------------------------------------------------
Init ==
    /\ \E report \in Reports : \E n \in 1 .. Len(report) :
          rest = SubSeq(report, n + 1, Len(report))
    /\ reports = 0
    /\ parser = [copy \in Copies |-> Parser0]
    /\ ci \in CiSettings
    /\ verdict = [copy \in Copies |-> "none"]
    /\ subject = NoName /\ printed = <<>> /\ quiet = TRUE

Logging == \A copy \in Copies : verdict[copy] = "none"

Begin(report) ==
    /\ Logging /\ rest = <<>>
    /\ reports < MaxReports
    /\ rest' = report /\ reports' = reports + 1
    /\ UNCHANGED <<parser, ci, verdict, subject, printed, quiet>>

PrintLine ==
    /\ Logging /\ rest # <<>>
    /\ Parse(Head(rest))
    /\ rest' = Tail(rest)
    /\ subject' = IF Head(rest).kind = "name" THEN Head(rest).name ELSE subject
    /\ printed' = IF Head(rest).kind \in {"change", "timeChange"} /\ subject # NoName
                  THEN Append(printed, [name |-> subject, pct |-> Head(rest).pct]) ELSE printed
    /\ UNCHANGED <<reports, ci, verdict, quiet>>

\* Another program writes to the terminal, or leaves a blank line.
Intrude(kind) ==
    /\ Logging
    /\ Parse(Line(kind))
    /\ quiet' = (quiet /\ kind = "blank")
    /\ UNCHANGED <<rest, reports, ci, verdict, subject, printed>>

\* A bench run dies in the middle of a report.
BreakOff ==
    /\ Logging /\ rest # <<>>
    /\ rest' = <<>>
    /\ UNCHANGED <<reports, parser, ci, verdict, subject, printed, quiet>>

\* The gate reads the log as far as it has come.
Check(copy) ==
    /\ verdict[copy] = "none"
    /\ \E key \in MapBenchName :
          verdict' = [verdict EXCEPT ![copy] = Verdict(parser[copy].found, key)]
    /\ UNCHANGED <<rest, reports, parser, ci, subject, printed, quiet>>

Next ==
    \/ \E report \in Reports : Begin(report)
    \/ PrintLine \/ BreakOff
    \/ \E kind \in {"other", "blank"} : Intrude(kind)
    \/ \E copy \in Copies : Check(copy)

Spec == Init /\ [][Next]_vars

-----------------------------------------------------------------------------
(* Properties.                                                             *)

Lines == [kind : {"time", "thrpt", "bare", "other"}]
            \cup [kind : {"name"}, name : Names]
            \cup [kind : {"change", "timeChange"}, pct : Percents]
Comparison == [name : Names, pct : Percents]

TypeOK ==
    /\ rest \in Seq(Lines) /\ reports \in 0 .. MaxReports
    /\ ci \in CiSettings /\ quiet \in BOOLEAN
    /\ parser \in [Copies -> [bench : Names \cup {NoName}, marker : BOOLEAN, found : Seq(Comparison)]]
    /\ verdict \in [Copies -> {"none", "pass", "fail"}]
    /\ subject \in Names \cup {NoName} /\ printed \in Seq(Comparison)

\* Every comparison in the log is found under the name of its own bench, and
\* nothing else is, in both forms of a report, wherever a report breaks off
\* and wherever the log begins.  The library loses comparisons, but only if
\* another program has written between their lines.
ChangesKeepTheirNames ==
    /\ parser.cli.found = printed
    /\ quiet => parser.lib.found = printed
    /\ ToSet(parser.lib.found) \subseteq ToSet(printed)

Budgets(name) == {Mapping[pattern] : pattern \in Matching(name)}

Breaks(change, path) ==
    /\ IsBudget(path) /\ Tables[path].critical = "true"
    /\ change.pct > 0 /\ change.pct > Threshold(Tables[path])

\* The gate fails only for a comparison in the log that breaks a critical
\* budget; and it fails, if it is to enforce them, when one breaks every
\* budget that its name can be mapped to.  Where the patterns that match a
\* name disagree, the verdict is a matter of chance.
VerdictIsDue ==
    \A copy \in Copies :
        /\ verdict[copy] = "fail" =>
              /\ ci # "false"
              /\ \E change \in ToSet(printed) : \E path \in Budgets(change.name) : Breaks(change, path)
        /\ verdict[copy] = "pass" /\ ci = "true" /\ (copy = "cli" \/ quiet) =>
              \A change \in ToSet(printed) :
                  Budgets(change.name) # {} =>
                      \E path \in Budgets(change.name) : ~Breaks(change, path)
=============================================================================
