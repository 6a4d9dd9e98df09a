# qndx in TLA+

qndx indexes the n-grams of the files of a directory and answers regex searches
by looking up candidates and verifying them. These modules model how the index
comes about, how it is used while files, repository and index change, and the
algorithms between a regex and a candidate set. TLC checks them on small
instances; TLAPS proves the central ones for every corpus and every bound.

## The system

| Component | Source | State | Operations | Hard part |
|---|---|---|---|---|
| Builder | `qndx-index/src/builder.rs` | discovered files, results of the workers, inverted index, three files on disk | walk, parallel reads, merge, three writes | files that vanish, crashes between two files, errors a `BufWriter` swallows |
| Update | `builder.rs:394`, `qndx-cli/src/main.rs:526` | base commit in the manifest | skip or rebuild | what changed is asked of git, not of the index |
| Reader | `qndx-index/src/reader.rs` | two mappings, the manifest | open, lookup | opened file by file beside a writer; mappings change after their checks |
| Search | `qndx-query/src/search.rs`, `qndx-core/src/scan.rs` | candidates, matches | resolve, verify | files change between the stages |
| Overlay | `qndx-index/src/overlay.rs` | posting lists, file list, ids, deleted paths | add, mark deleted, look up | order and meaning of git's lines; two sides that propose the same file |
| Git | `qndx-git/src/lib.rs` | none of its own | status, diff, untracked | parsing; which of three trees is compared with which |
| Sparse n-grams | `qndx-index/src/ngram.rs` | a monotone stack | all n-grams, covering n-grams | the covering has to be a subset for every file around the literal |
| Decomposition | `qndx-query/src/decompose.rs` | scanner flags | split, extract literals | a regex read without a parser |
| Planner | `qndx-query/src/planner.rs` | none | choose a strategy | a plan must never filter out a match |
| Posting lists, format | `qndx-index/src/postings.rs`, `qndx-core/src/format.rs` | none | merge, encode, validate | two representations that must stay canonical; limits of 32 bits; torn files |
| Walk | `qndx-core/src/walk.rs` | none | list files in order | ids are places in this order |
| Performance gate | `qndx-bench/src/report.rs`, `qndx-cli/src/main.rs:146` | what the log parser remembers between lines | read a line, map to a budget, decide | two copies that differ; logs that break off; a mapping without an order |
| Command line, corpora | `qndx-cli`, `qndx-bench/src/fixtures.rs` | none | | |

The index process and the search process share the index directory and the
working tree and nothing else: no lock, no rename, no version of the three files
together. People and git change the tree under both. Nothing in the code times
out or retries.

## What makes each part correct

- Builder: three complete files of one build agree; a build repairs whatever
  an earlier one left.
- Reader and search: no false negative over the index of one build, never a
  false positive, termination.
- Update: a command that skips the build skips it rightly.
- Overlay: it mirrors what was read; with it, a search reads every write.
- Sparse n-grams: the covering covers, and is a subset of what is indexed.
- Decomposition and planner: every text the regex matches passes the plan; the
  scores that `qndx plan` computes are those the search decides by.
- Posting lists, format, lookup: what is read is what was written, or nothing; the
  loops of a lookup come to exactly the candidates of the plan, and end.
- Performance gate: a change is charged to its own bench and judged by its own budget.

## Modules

| Module | Models |
|---|---|
| `Corpus` | files, n-grams, plans; ids, inverted index and candidate resolution as operators |
| `CandidateSets` | candidate resolution over posting lists, in one expression |
| `IndexBuild` | the build and the index directory, with crashes, write errors, lost flushes |
| `PublishedIndex` | what readers may get of an index: the abstract specification of `IndexBuild` |
| `PostingCodec` | both representations of a posting list, and their bytes |
| `FileFormat` | header, validation, and what a crash leaves of a file |
| `IndexLookup` | the two composed: writing, opening and looking up, loop by loop |
| `IndexSearch` | `IndexBuild` with a search beside it: open, resolve, verify, or scan |
| `GitWorktree` | HEAD, git index, working tree, what people do, what git reports |
| `UpdateIndex` | `GitWorktree` with the index command: skip or rebuild |
| `Overlay` | the overlay's operations as functions |
| `OverlaySearch` | `GitWorktree` and `Overlay` with the search that merges both sides |
| `SparseNgrams` | the loops of the covering, one action per turn |
| `Ngrams` | trigrams, sparse n-grams and their covering as operators |
| `Decompose` | split and literals of a regex, and its language |
| `Planner` | `Decompose` with the choice, making and explanation of a trigram or sparse plan |
| `BudgetGate` | the performance gate, both copies on one log |
| `IndexSearchProofs`, `IndexLookupProofs`, `UpdateIndexProofs`, `OverlayProofs`, `SparseNgramsProofs`, `PlannerProofs`, `BudgetGateProofs` | theorems |
| `CommonLemmas` | lemmas that proofs share: induction, recursion, finite sets, the n-grams of a literal |
| `MC*` | corpora and atoms for TLC |

**Corpus.** A path is a number: its place in the byte order of the walk, so that
`Fid(D, p)`, the number of smaller paths of `D`, is the id of `p` among `D`.
`Candidates` is `resolve_candidates_from_plan`. That plans are sound
(`PlanSound`) is an assumption here; `SparseNgrams` and `Planner` ask where it
holds. Hash collisions only add candidates and are abstracted.

**IndexBuild.** `pc` runs through reading, merging, and creating and filling
each of the three files. `ReadFile`/`SkipFile` are the workers, in any order.
The id of a file is its place among the discovered files (`builder.rs:93`), the
manifest lists the files that were read (`builder.rs:290`): `Merge` keeps both.
A file on disk is missing, legacy, torn or complete; a complete one carries the
number of its build (history, which no action reads). `Abort` is a process that
dies or a write that fails; power loss is not modelled. `LoseFlush` is the drop of
a `BufWriter` whose flush fails. The walk is one step, and one build runs at a
time.

**PublishedIndex.** The index as those who open it see it, without files, stages or
history: the tree, the walk and the draft of the build at hand, the list of files, and
the set of answers that lookups may give (none: the index is refused; several: anything).
`IndexBuild` implements it with `Answers`, which is `IndexReader::open` and `lookup` and
looks at nothing they do not look at: three files that pass their checks are used,
whichever builds they are of. So the index is not replaced in one step, and the
abstract specification says so: between two drafts it may answer with anything
(`Garble`: a new n-gram table over old postings) or with the new lists over the old list of
files (`Mix`), and a file lost between walk and reading leaves a shifted index for good
(`CommitShifted`). What the refinement promises is that there is nothing else: answers
change only by way of a refused index, a new list of files comes with the answers of the
draft it lists, and a draft of all discovered files is answered exactly.

**IndexSearch.** `Open` checks and copies one file. `Intact` says that the n-gram
table belongs to the postings and that neither was rewritten since it was
mapped; otherwise a lookup may return any list of ids, which is what decoding at
a foreign offset can do, or end the process (`LookupDies`). Verification reads
the file as it is then. `touched` and `remapped` are history.

**PostingCodec, FileFormat, IndexLookup.** A byte is a number, a file a sequence of
units: four header fields and the payload, whose checksum is the payload itself (the
library's hash is taken to tell any two payloads apart). `WriteBlock` is a turn of the serialisation
loop. `Store` leaves one of the three files cut after any unit, or hollow behind
any unit that a `BufWriter` may have reached. `ValidSlice` is the check of a mapped
file, `ValidStream` that of the manifest, which reads as many bytes as the header
says and ignores what follows. A lookup is then a step per turn of a loop:
`SearchLess`, `SearchGreater`, `Found` and `Missing` are the binary search, `Sift`
filters a vector by a bitmap, the `Merge` actions are those of `vec_intersect` and
`vec_union`, `Deliver` is the return to the caller. `RoaringBitmap` is a set. The
index is not touched while it is searched; that is `IndexSearch`'s subject.

**GitWorktree.** A commit is identified with its tree. A rename is a deletion and
an addition, which is how the parser splits its line. git itself is external.
`.gitignore`, hidden, binary and large files are outside: the paths of the model
are those a walk may discover. Root and repository root are the same directory.

**UpdateIndex.** HEAD is read first (`Begin`), then the diff, then the untracked
files, then the build, which is one step here; people move the repository between
any two unless `disciplined`. An index in the model is the tree it was built from
and its base commit. `CannotCompare` covers every early `rebuild(true)`.

**Overlay, OverlaySearch.** Ids count from 0; the code adds `base_file_id`. The
lines of git status are applied in the order of paths, and for one path in the
order git prints them. `content` is history: what was read last of each path.
`quoted` holds the paths whose names git prints in quotes: no file of the tree has
the name with the quotes, so the line is passed over.

**SparseNgrams.** `PopLighter`, `PopEqual`, `Push`, `Drain` and `Last` are the
turns of the two loops. The weights are chosen freely, as a hash may.

**Decompose, Planner.** `SplitChar` and `ExtractChar` are the loop bodies, folded
over the written regex as recursive functions. An atom is a record of how it is
written (`tokens`, and `group` for parentheses around them) and of the texts the regex
library matches with it: letters and signs, escapes, classes. A class has no bracket and
no backslash inside, so `[[:digit:]]`, `[]a]` and `[\w]` are outside the model
(`AtomsAssumption`), and groups are not nested. `PlanQuery` takes the strategy of lower cost or the forced
one; a sparse plan needs a covering of every branch. `Covering` in `Ngrams` says what
the covering is without a stack: the stretches from a pair to the first one that is not
lighter, those between neighbours of what is left at the end, and the first of these
alone; that the loops of `SparseNgrams` compute it is checked and proved
(`ComputesCovering`). The weights of pairs are a constant set of tables.
Costs are integers in a unit that makes the code's decimals whole; two costs that
differ by less than a rounding error of `f64` are not told apart there. `Explain` is
`plan_diagnostics`, which computes the scores a second time by its own code.

**BudgetGate.** A log is printed line by line, by Criterion and by whatever else
writes to the terminal; it may begin in the middle of a report and break off
anywhere. Both parsers read the same lines; `ParseByCommand` and `ParseByLibrary` differ
in when a bare `change:` is forgotten. `Check` may come at any line. The
mapping is a hash map, so each name goes to any of the patterns it matches
(`Firsts`). `quiet`, `subject` and `printed` are history.

## Runs

All bounds are constants of the modules: two paths, two contents, two n-grams and
three queries (`MCCorpus`), one with an alternation, one with both required and
alternative n-grams, one with neither. Two files are enough for ids to shift; two
contents that share an n-gram for a file to pass a filter and not match. Deadlock
is checked for `MCIndexLookup`, whose lookups must not get stuck; elsewhere commands
finish and the budgets of edits, builds, faults and reports run out.

`MCIndexLookup` scales the widths and keeps their relations: 3 payload bits to a varint
byte and 2 bytes to a word, so that three groups exceed a word as five groups exceed
32 bits, the shift guard at 9 as the code's is at 35, a bitmap above 2 ids where
the code has 64, and 255 files, so that the largest id needs the last group. Its lists
have distances of one, two and three groups and sizes on both sides of the
threshold; tables go up to six entries, so that the search takes three probes.
`MCBudgetGate` has two reports, one to leave something behind and one to be misread,
after the tail of a third; a name that two patterns match with different
verdicts; and changes below, at and above a threshold.

| Run | Shows |
|---|---|
| `MCIndexBuild` | `BuildsAgree`, `ManifestIsLast`; `BuildRepairs`, a liveness property; `ImplementsPublishedIndex`, the refinement; with 2 builds, 2 edits, 1 fault |
| `MCIndexSearch` | `NoFalseNegatives`, `FoundIsVerified`, `ScanIsExact`, `SearchEnds` with a search (also with `--scan`) beside 2 builds, 1 edit, 1 fault; `ViewOfOneBuild` when searches and builds keep apart |
| `MCUpdateIndex` | `HonestIndexEndsFresh`: skip and rebuild are right if the index is of its base commit's tree; `AlwaysHonest`, `EndsFresh`: on clean, quiet trees it always is |
| `MCOverlaySearch` | `OverlayMirrorsReads`, `ReadYourWrites`, `OnlyMatches`, `SearchEnds`, on an index of any tree, with one move at any point, a conflict and a quoted name |
| `MCSparseNgrams` | the shape and coverage of the covering, ties included; `CoveringSavesNoLookup`: it has more n-grams than there are trigrams; `ComputesCovering`; `DistinctWeightsAreCovered`: without ties the covering is indexed; `Terminates` |
| `MCPlanner` | `SplitsAtTopLevel`; `PlainIsSound`, for both strategies and two tables of weights without ties; one run of letters is long enough for the planner to prefer the sparse plan by itself; `DiagnosticsMatchPlan`: `plan_diagnostics` repeats the scores of the choice, and a sparse row has the more lookups |
| `MCIndexLookup` | `OnlyWholeIndexesOpen`, wherever a file breaks off; `BlocksDecode`: an entry leads to its own bytes, they decode to the list, and cut bytes decode to a prefix of it; `ListsAreCanonical`; `CandidatesAreExact`; `LookupAdvances`: every step lowers a rank, so no loop goes on forever |
| `MCBudgetGate` | `ChangesKeepTheirNames`: no change is lost or charged to another bench; `VerdictIsDue`: the gate fails only for a broken critical budget, and passes none that every matching pattern leads to |

Two of the properties are about a use of the program: `exclusive` (nobody indexes
while a search runs) and `disciplined` (the index command runs on clean trees that
stand still) are variables that the initial states choose and no action changes,
so that one run checks the properties of both uses. The initial states of
`OverlaySearch` are cut by two constants: `Quotable` (the paths whose names git may
have to quote) and `Conflicting` (the paths that a merge may have left in conflict at
the start; staging a path resolves it, and neither a commit nor a checkout is
possible before).

### Where code and documents disagree

Each of these runs ends with a counterexample to what a document or a comment says
(quoted under `findings` in `PROJECT.json`).

| Run | Counterexample |
|---|---|
| `MCMixedIndex` | `manifest.bin` is still to be replaced: all checks pass, a match is lost |
| `MCLostFile` | a file deleted between walk and read shifts the ids of all later files |
| `MCSparseTie` | equal weights: a covering n-gram that is not indexed |
| `MCPlannerGroup` | `(ab\|b)` requires an n-gram that contains the bar |

Two properties that hold, and are proved, say the opposite of a document (`findings` too):

- `CoveringSavesNoLookup`. The covering emits an n-gram from every pair of a literal but
  the last, each of which begins with the trigram there, and a bigram on top. A
  query by sparse n-grams therefore has more lookups than one by trigrams, always.
  `ngram.rs:104` promises "*fewer* n-grams than trigram extraction for long literals",
  `ngram.rs:10`, `decompose.rs:6`, `planner.rs:23` and `docs/file-format.md:76` say
  likewise. Nor are the spans that the covering emits "non-overlapping" (`ngram.rs:100`):
  each overlaps the next. A sparse plan can still be the cheaper one, because the cost
  of an n-gram falls with its length.
- `DiagnosticsMatchPlan`. The sparse row is there exactly if every branch has a literal,
  and no counts are compared. `main.rs:681` prints "unavailable (N sparse grams >= M
  trigrams, no reduction)" where the row is missing: no such comparison was made, and N is
  the length of a list that is always empty, so 0. `README.md:123` of the repository
  shows that line, with 13 and 12, and a cost of 12.00 for the literal
  `enum AgentMode`. In the code there is a row for it, of 13 lookups, and the
  trigram plan costs 13.44: 12 lookups, each 1.00 for its selectivity and 0.12 for itself.

The properties that hold leave out, by name, more of the same kind, which have no
run of their own:

- `HonestIndexEndsFresh` asks for an index whose tree is that of its base commit. An
  index of a dirty tree passes for up to date once the edit is reverted: git
  compares with the base commit, not with what was indexed (`builder.rs:451`).
- `ReadYourWrites` asks a path that git reports for a name that git does not quote;
  a quoted name is never read into the overlay (`qndx-git/src/lib.rs:253`).
- `ReadYourWrites` covers paths that git reports or that are as they were indexed:
  the overlay compares with HEAD, not with the commit of the index, so a file
  committed since is in neither (`overlay.rs:107`). It excludes paths in `conflicts`:
  `UD` and `DU` are read as deletions and hide a file that is there
  (`qndx-git/src/lib.rs:253`).
- It compares sets of paths: a modified file that both sides propose is verified,
  and its matches listed, twice (`search.rs:356`).
- The search command uses the index alone and never builds the overlay
  (`main.rs:629`), so `OverlaySearch` models the library's entry point.
- `PlainIsSound` asks for plain atoms and no quantifier that makes a letter optional:
  of `aa?`, `a\n`, `(?:b)(?:b)` and `b{1,2}` the literals have n-grams that a match
  need not have (`decompose.rs:207`, `:227`, `:234`).
- `DiagnosticsMatchPlan` is about the scores and branches that `plan_diagnostics` computes;
  the list of sparse n-grams that `qndx plan` prints beside them is always empty.
- Versions: the readers refuse newer ones and accept older ones, whose header is
  shorter (`format.rs:158`, `:246`); `docs/release-gate.md:364` says older versions
  are rejected. In practice the checksum of such a file fails. An index of an earlier
  format makes `qndx index` end with an error until `--full` (`builder.rs:401`), where
  `docs/file-format.md:183` has it rewrite all files.
- `docs/file-format.md` has the payload length cross-checked against the size of the
  file; for the manifest, bytes behind the payload are ignored (`ValidStream`).
- `VerdictIsDue` is about all patterns that match a name: `budgets.toml:221` says
  that the first match wins, but the patterns are kept in a hash map
  (`main.rs:344`), and where they disagree the verdict is a matter of chance.
- A bare `change:` is remembered by the command until a line with percentages comes,
  and by the library for one line; so a line of another program in between makes
  the library lose the comparison (`ChangesKeepTheirNames` asks for `quiet` there).
  A line of another program that begins like a path is taken for the name of a bench
  by both, and is not modelled.
- The gate passes a log without any comparison. `--fail-on-critical` is not read
  (`main.rs:215`), and a `budgets.toml` without the table `[ci]` turns enforcement
  off, while `[ci]` without the setting turns it on (`Enforced`).

## Fairness

Weak fairness is on the steps of a running process only: `BuildStep`,
`SearchStep`, `CommandStep`, `Next` of the covering. Each loop of the code goes on
until it is done, and nothing waits for another process. Starting a command,
editing, and every fault are never forced. `Planner` and `BudgetGate` state no
liveness. `IndexLookup` needs no fairness: `LookupAdvances` is an action property
whose rank cannot fall forever, and no lookup deadlocks.

## Proofs

TLAPS checks, for every finite set of paths and all contents, n-grams, queries,
plans and bounds that meet the named assumptions of the modules:

- `IndexSearchProofs`, on ids and lists: ids are injective and bounded (`FidInjective`,
  `FidBound`); the posting lists of a tree resolve against its file list
  (`InvertedResolves`); candidate resolution keeps every id whose n-grams pass
  (`CandidatesComplete`). On the build: `TypeOK`, `BuildsAgree`, `ManifestIsLast`. These
  are not inductive: `BuildInv` adds what the fields of the builder are at each stage,
  that generations never exceed `builds` and fall from file to file, that the
  files being written belong to the running build, and that any two complete
  files of one generation agree, so that it survives the overwriting of either.
  `IndexImplementsPublished` is the refinement: creating one of the files, or losing a flush,
  withdraws the answers; completing one gives new ones only if the other two stand, and
  which ones follows from the order of the writes: `BuildInv` has the lists of complete
  postings of the running build equal to those of the draft, and the table of such a
  build equal to both, so that what is left is `Garble`, `Mix`, or one of the
  commits. Every other step is an edit, a start, a read or a stutter.
  On the search: `NoFalseNegatives`, `FoundIsVerified`, `ScanIsExact` beside
  any number of builds and faults, and `ViewOfOneBuild`. `SearchInv` adds that a file
  opened earlier still agrees with every file of its generation on disk, that untouched
  files which must be found are found or still to be verified, and where each history
  variable stands. `PlanSound` is used once, in `IndexedIsCandidate`.
- `UpdateIndexProofs`: `TypeOK` and `HonestIndexEndsFresh`, and for disciplined use
  `AlwaysHonest` and `EndsFresh`. `UpdateInv` says what the list of changes stands
  for at each stage while nobody moves the repository.
- `OverlayProofs`: both operations of the overlay keep it well formed and a mirror of
  what was read, for every overlay, and so `OverlayMirrorsReads` for every search.
  `SearchInv` goes on from there to `TypeOK`, `OnlyMatches` and `ReadYourWrites`, for any
  number of edits at any point. For a path whose file has not moved since the search
  began: git's lines, while unread, end with what is there; once read, the overlay was
  given what is there; only reported paths are hidden; and a match that is owed is
  reported or still to be verified.
- `SparseNgramsProofs`: all six safety properties of the covering, for every literal
  and every weight function, ties included. `SparseInv` says that weights fall from the
  bottom of the stack to its top, that what is not on the stack has been paired with the
  first pair not lighter, and that n-grams and stack together count every pair once.
  From it follow that no byte is left out (`CoversEveryByte`), that there are more
  of them than trigrams (`CoveringSavesNoLookup`), that the loops compute `Covering`, and that
  without ties the covering is a part of what is indexed.
- `IndexLookupProofs`, on the codec: numbers and lists. `NumberDecodes`: a number of either encoding
  decodes to itself whatever bytes follow, and not at all without its last byte.
  `BlockDecodes`: the block of an ascending list of any length decodes to it, and cut
  anywhere to its first ids, in both representations. Varints need that the groups of
  a number add up to it (`GroupsSumUp`) and that the shift guard comes after the last
  group; a list, that the scan of a cut is at each id either where the whole list would
  be or done (`OneStep`, `ScanOfCut`).
- `IndexLookupProofs`, on the lookup: `TypeOK`, `OnlyWholeIndexesOpen`, `ListsAreCanonical`,
  `BlocksDecode`, `CandidatesAreExact` and `LookupAdvances`, for every index, plan,
  threshold and width. `CodecHolds` has the codec's theorems for the lists of any
  index, in the place of an assumption. `IndexInv` says that the
  table ascends, lists what is no longer unwritten and that each entry has the bytes of
  its list; `LookupInv` what the list and the union hold after so many hashes and
  branches, that the hash at hand lies in the window of the search and nowhere
  else, and that what is merged is smaller than all that is still to come.
  Candidates are exact because the last of these steps is the expression of
  `CandidateSets`.
- `PlannerProofs`: all four properties of the decomposition and the planner, for all
  atoms that meet `AtomsAssumption`, all weights and regexes of any length.
  `SplitsAtTopLevel`: for every written token and group there is a lemma of what the
  scan does with it, from a state at top level to a state at top level with the token
  appended to the branch at hand (`AtomIsTaken` and what it rests on), so that the scan
  of the joined branches stands at the bars between them only (`WrittenSplits`).
  `PlainIsSound`: the scan of `extract_literals` reads a plain piece beside a text it
  matches; what has been found is in the text so far, and the text ends as the literal
  at hand (`Reads`), so literals occur in every matched text (`LiteralsAreMatched`); the
  trigrams of a part of a text are trigrams of the text (`TrigramsWithin`), and without
  ties its covering is among the text's sparse n-grams (`CoveringWithin`), because a
  stretch keeps its weights wherever it stands. `DiagnosticsMatchPlan`: a literal has
  an n-gram of both kinds (`TrigramsOfLiteral`, `CoveringOfLiteral`), and the sum of the
  lookups lies between the number of different n-grams and as many for every branch
  (`LookupsBound`). `PlannerInv` ties the stages together: at each one, what is there is
  what the operators make of the stage before.
- `BudgetGateProofs`: `TypeOK`, `ChangesKeepTheirNames` and `VerdictIsDue`, for all
  names, budgets and mappings and logs of any length. The invariant adds that
  the lines to come are in the order of a report, that both parsers know the bench
  whose report is printed, and that a parser's marker is set when the line it is for
  comes next.

`CommonLemmas` is shared by these proofs. Induction theorems of the library take an
operator, which the provers cannot instantiate; `LeastElement` proves the least number
principle from finite sets, `SetInduction` states induction with a set of numbers in
place of the operator, and `RecursionUpTo` that a recursive function on an interval exists
and meets its equation.

Only model-checked: all liveness under fairness (`BuildRepairs`, `SearchEnds` of
both searches, `Terminates`), which the provers cannot reach. Every safety invariant and
action property of a passing run is also a theorem.

## Not modelled

- Ignore rules, hidden, binary and large files, symbolic links: they decide which
  paths exist for the model.
- Match positions, statistics, timing, the report tables, the corpora of the
  benchmarks: they decide nothing.
- The serialisation of a bitmap and of the manifest, and the checksum: libraries'.
- Power loss. A process that dies loses what it had not written; what the operating
  system has taken is kept.
- Several index processes at once. There is no lock, so two builds can fill one file
  together (`builder.rs:350`); no run has two builders.
- Files of an earlier format, beyond the guard of a build that refuses them.

## Plan

1. `IndexStore`: several index processes on one directory, file by file, held
   against `PublishedIndex` from the moment they are done.
2. Ids and names that a lookup of the overlay shares with the baseline: the doubled
   matches of a modified file.
