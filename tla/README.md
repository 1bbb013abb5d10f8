# Verification of Moult

TLA+ models of [Moult](../src/README.md), a C++ library (`moult_core`) and command-line
program (`moult`) that plans, reviews and applies source-code migrations: TLC checks the
models on small instances, TLAPS checks proofs of the central theorems for every
instance. All paths below are relative to `src/`; `M` stands for `apps/moult.cpp`.

```
tlc -workers 2 -config MCEditSet.cfg MCEditSet      model-check one configuration
tlapm EditSetProofs.tla                             check the proofs of one module
```

`PROJECT.json` lists, for every definition, the lines it models; for every property, a
change to the code's model that breaks it; and the hazards the properties are for.

## 1. The system

```
 inputs, filters,        +-----------+  facts   +--------+  edits    +---------+
 compile database  --->  | adapter   | -------> | rules  | --------> | EditSet |
 (InputSelection)        | scanner,  |          | of the |  findings +---------+
                         | clang,    |          | capsules  evidence       |
                         | transpiler|          +--------+                v
                         +-----------+                                plan.json
                                                                          |
             +---------------+---------------+---------------+-----------+
             v               v               v               v
          slice           review           diff            apply -> files, .moult.bak
        (a plan)    review.json and     (a patch)
                    plan.reviewed.json
```

Everything is sequential and runs in one process, with plain files between the commands.
What is hard is therefore not threads but: the *order* in which proposals, facts, files
and edits are met; *partial failure* and *kills* between file writes; *stale* offsets,
decisions and backups, because a plan outlives the text it was made for; commands used
*in sequences* that no test runs (slice, slice again, review, apply, apply again, two
reviews at once); and *boundaries* of half-open byte ranges, hunks and tokens.

### Components

| Component | State it keeps | Operations | Hard behaviour | Correct means |
|---|---|---|---|---|
| **EditSet** `src/edits.cpp` | accepted edits, conflicts | `add`, `has_conflicts` | scan stops at the first hit; touching and empty ranges | accepted edits are disjoint; nothing well-formed is lost; the conflict gate is independent of the order |
| **apply_to_memory** `src/edits.cpp:71` | text so far of one file | descending loop over edits | ties of `begin`; bounds tested against changed text | result is the simultaneous substitution; throws exactly when documented |
| **Engine, capsules, registry** `src/engine.cpp`, `src/capsule.cpp` | facts, rules, diagnostics, plan | `run` | adapters that fail after adding facts; enabling by target or name | every site is classified; a failure shows in the plan |
| **Modernisation rules** `src/cpp/modernization.cpp:342` | - | one fact at a time | status depends on earlier edits | a finding that says "planned" is |
| **Transpiler bridge** `src/transpiler.cpp` | sink of proposals | `propose_edit`, `propose_finding`, `propose_file_rewrite`, accept rule | guards and digests travel through string attributes; rewrites are trimmed at both ends | no edit against a guard or for another text; a rewrite becomes the smallest edit that does the same |
| **PlanBuilder, Plan** `src/plan.cpp` | edits, findings, evidence, groups | `add_evidence`, `add_finding`, `add_edit`, `add_group` | records that are merged by id | each edit has evidence |
| **FactStore, evidence, guards** `src/facts.cpp`, `src/evidence.cpp` | list of facts | `add`, `where`, `all_guards_passed` | references into a vector | as above |
| **SourceStore** `src/source.cpp` | path -> text, language | `load_file`, `add`, `contains`, `line_column` | range ends at the size; offsets at line ends | edits of a plan are in range; a place in a report is the one the patch changes |
| **Diagnostics** `src/diagnostics.cpp` | list of messages | `report`, `has_errors` | - | errors reach `has_errors` of the plan |
| **Textual scanner** `src/cpp/modernization.cpp:103` | position in the text | one loop of jumps | directives, comments, literals, raw literals | reports exactly the constructs in code, and ends |
| **Clang adapter** `src/clang/adapter.cpp` | units to parse, facts, diagnostics | `analyze`: one unit per C++ source, one visit per cursor | an external parser reads headers from disk, the store holds older texts; sources that do not parse; a token is searched in the text of a declaration | every unit is accounted for; ranges hold in the store; it would have nothing replaced that the scanner would not |
| **moult plan: inputs** `M:117-274, 779-786, 2053-2083` | collected inputs | collect, filter, load | overlapping inputs; headers in C or C++; globs | exactly the wanted files are analysed |
| **moult plan: compile commands** `M:562-777`, `M:1226-1264` | - | find, parse, clean, choose | relative paths against three directories; a file listed twice; options with and without a blank before the path | each source is parsed as its command says |
| **Command line** `M:1783-2027` | - | `parse_args` | - | - |
| **moult slice** `M:1361-1504` | - | `slice_plan`, filters | slices of slices, dropped conflicts | references resolve, counts are true, slices compose |
| **moult review** `apps/moult_review.cpp` | sessions, `review.json`, `plan.reviewed.json` | keys, save, export | two sessions; torn files; a filter that moves the selection | a decision is on the item that was shown; no decision is lost; the two exports agree |
| **moult diff** `M:1087-1223` | LCS table, ops, hunks | `line_diff`, `write_unified_diff` | hunk boundaries, empty sides | ops tell both texts; hunks are a patch |
| **moult apply** `M:1266-1359` | files, backups | prepare all, then write each | failures, kills, second runs | old text is in the file or its backup; no partial success |
| **moult report** `M:819-1022, 1506-1683` | - | lists, tables, a recommendation | a filter shows a part, commands take the whole plan | it lists what the slice would hold, and advises to apply only what it shows in full |
| **Serializers** `src/serializers.cpp` | four files | `write_outputs` | failures and kills between and within the four; readers meanwhile | exit code 0 means all four are whole and of this run |
| **JSON** `src/json.cpp`, `M:308-437` | - | write, parse | escapes made by one side and undone by the other; texts that are cut off | what is applied is what was planned |

They interact by calls inside one `moult plan` (adapter -> FactStore -> rules ->
PlanBuilder -> EditSet) and by files between commands (`plan.json`, `review.json`,
`plan.reviewed.json`, the sources and their `.moult.bak`), which a user may edit or save
meanwhile. There are no callbacks but the virtual
`Rule::run`, `Adapter::analyze` and `Transpiler::transpile`.

## 2. The modules

| Module | Models | Kind |
|---|---|---|
| `TextEdits` | ranges and edits: `ValidRange`, `Overlap`, `SameEdit` (`edits.cpp:10-17`) | operators shared by all |
| `Substitution` | what a set of disjoint edits means for a text, without any order | reference definition |
| `Selections` | a loop that takes some members of a vector, in order | operator |
| `EditLedger` | abstract: a growing set of disjoint changes, and one flag | abstract specification |
| `EditSet` | `EditSet::add` on its two lists | state machine, implements `EditLedger` |
| `ApplyEdits` | `EditSet::apply_to_memory`, edit by edit | state machine |
| `ApplyPlan` | `moult apply` against a disk, with crashes, failed writes, later runs and a user who saves files | state machine |
| `JsonText` | the JSON that is written and the reader of it, symbol by symbol | operators |
| `PlanErrors` | `Plan::has_errors`, of a plan as it is written and read | operator |
| `WriteOutputs` | `write_outputs` output by output, and a slice over its plan, beside `moult apply` | state machine around `ApplyPlan` |
| `PlanAndApply` | what `moult apply` reads in the plan it then finds | composition of `WriteOutputs` and `JsonText` |
| `Engine` | adapters, the transpiler's sink, rules, PlanBuilder | state machine, implements `EditSet` |
| `TextScanner` | `scan_source`, jump by jump, and the lexical structure of C++ it ought to see | state machine with a reference |
| `ClangAdapter` | the libclang adapter, unit by unit and cursor by cursor | state machine |
| `Adapters` | the choice between the two | composition of `TextScanner` and `ClangAdapter` |
| `AdapterAgreement` | what the two say of one text | comparison of `Adapters` with an instance of `TextScanner` |
| `Glob` | `glob_match` and its users, and what patterns mean | operators with a reference |
| `CompileCommands` | databases: where they are found, languages, cleaned arguments | operators |
| `InputSelection` | collecting, filtering and loading inputs, and the arguments of each | state machine, uses `Glob` and `CompileCommands` |
| `PlanSlices` | plans, slices of slices, reports of them, and applying them in any order | state machine, uses `Substitution` |
| `ReviewSessions` | `moult review` in two terminals over shared files | state machine |
| `UnifiedDiff` | `line_diff` and `write_unified_diff` on two texts | state machine with references |
| `DiffPlan` | a transpiler's rewrite, trimmed, then `moult diff` of its plan or the patch a review shows, after a save or not | state machine around `UnifiedDiff` |
| `EditSetProofs`, `ApplyEditsProofs`, `PlanSlicesProofs`, `ReviewSessionsProofs` | theorems about the module of that name | proofs |
| `PlanProofs` | theorems about `Engine` and `InputSelection` (with `Glob`) | proofs |
| `ApplyPlanProofs` | theorems about `ApplyPlan` and `WriteOutputs` | proofs |
| `SourceAndPatchProofs` | theorems about `ClangAdapter` and `TextScanner` (within `Adapters`), `DiffPlan` and `UnifiedDiff` | proofs |
| `SubstitutionProofs` | lemmas about `Substitution`, `Selections` and texts that the others cite | proofs |
| `MC*` | instances for TLC | |

How state and actions correspond to the code:

* **EditSet.** `edits` and `conflicts` are `edits_` and `conflicts_`, `last` the
  `EditAddResult`. One call of `add` is one step, with one action for each of its four
  returns; `FirstHit` is the scan that stops at the first accepted edit that is the same
  or overlaps. `proposed` is an observer. A call comes with or without a `SourceStore`,
  as both kinds occur (`PlanBuilder::add_edit` has one, `moult apply` has none).
* **ApplyEdits.** `phase`, `file`, `todo`, `text` are the two nested loops.
  `DescendingNext` leaves ties open, as `std::sort` does.
* **ApplyPlan.** `pc` is the line a run has reached: preparing all files, then, per
  path, opening the backup (which truncates it), finishing it, opening the file (which
  truncates it), finishing it. `Crash` may come before each. A content is the number of
  times the edits were made to a text, or `Torn`. `Lossy` files are those where a full disk
  shows only when the stream is flushed, which `write_text_file` (`M:282-289`) no longer
  looks at. `Undo` is the user who copies backups back, `UserSaves` the user's editor, which
  may save a file before, during and after a run; `saved` and `late` record which files, and
  which of them after their backup was begun.
* **WriteOutputs, JsonText, PlanAndApply.** `step` and `at` say which of the four outputs `moult plan`
  is at: each is opened, which truncates it, and is then whole, broken or, on a disk that
  reports late, lost. `moult slice` without a filter may write the plan again over it (its
  values only, `ValueText`). All this is `WriteOutputs`, which interleaves it with
  `ApplyPlan`'s steps; `PlanAndApply` adds the observer `read`, what `EditsFromPlan` makes of the
  text that is in the file when apply is invoked. `JsonText` writes
  and reads symbol by symbol: escapes, brackets, the fields of each item, and what the
  parser does with a text that ends anywhere.
* **Engine.** One action per call that adds a fact, and one per fact a rule looks at;
  `EditsOfPlan` is the instance of `EditSet` within the plan. A fact's digest, guards
  and confidence go through string attributes, so they may be missing (`NoAttr`) or
  unreadable (`Garbled`). `grounds` is an observer: the fact each edit came from.
* **TextScanner.** `pos` is the index of the loop; one action is one trip through it.
  Texts are sequences of symbols; tokens the scanner treats alike are one symbol.
  `FindsExactly` compares with a lexer that is defined apart from the loop.
* **ClangAdapter, Adapters.** `units` are the sources the loop still has to parse, `unit`
  the cursors still to visit in the present one; `sites` and `noted` are the facts. libclang
  is external: which cursors it finds in a text is a parameter (`Cursors`), whether it
  parses, stops or reports a diagnostic is left open. `FileSaved` changes a file on disk
  between two steps, which the store does not see. `FirstOf` is the search for a token in
  the text of a declaration.
* **Glob, CompileCommands, InputSelection.** `stage` and `next` are the place in `main`;
  the markers of a header (`extern "C"`, `namespace`...) are a set; a database is a list of
  entries as they stand in the file, whose words are an option and a text. `commands` are
  the arguments each source is parsed with. `Frontend` says independently what a compiler
  would have been told.
* **PlanSlices.** A plan is a record of sets; `Slice` selects and prunes as `slice_plan`
  does; `apply` is one step here, because `ApplyPlan` treats its inside. A report changes
  nothing, so it is an operator: what it lists, its tables by rule and by directory, and what
  it recommends.
* **ReviewSessions.** A session keeps what `run_review_tui` keeps; one key is one step,
  except for writes, which truncate and then finish and may fail or be killed between.
* **UnifiedDiff, DiffPlan.** The table row by row, the walk op by op, the loop hunk by hunk.
  Around it `command` goes from the transpiler's rewrite, which is trimmed to one edit, to a
  plan and to a diff or a review of it; `FileChanged` is a save in between.

Composition: `Engine` contains `EditSet` (and is shown to use it only through `add`); `EditSet`
implements `EditLedger`; `ApplyEdits` starts from what `EditSet` guarantees (`Acceptable` is
`AcceptedDisjoint`); `ApplyPlan` and `PlanSlices` rest on `ApplyEdits` resp. on `Substitution`,
the meaning `ApplyEdits` is shown to compute. `WriteOutputs` runs the writers of a plan and
`ApplyPlan` side by side over one directory, and is proved to do to `ApplyPlan`'s variables
only what `ApplyPlan` does (`WritersKeepOut`), so that what is proved of apply holds beside the
writers too; `PlanAndApply` takes the same steps and remembers what was read. `Adapters` runs
either adapter and `AdapterAgreement` compares what they find; `DiffPlan` puts the transpiler,
a user, `UnifiedDiff` and the review's preview in a row, so that a rewrite can be followed to
its patch.

## 3. What TLC checks

| Run | Instance, and why it is enough | What it shows |
|---|---|---|
| `MCEditSet` | ten proposals: equal, nested, touching, inserting, past the end, reversed, in a missing file and in none; with and without sources; conflict list of at most `MaxConflicts`. All relations two ranges can have occur | `AcceptedDisjoint`, `NothingDropped`, `ConflictGateExact`; `ImplementsLedger` |
| `MCApplyUntied` | every set of up to three disjoint edits over a file of three bytes, one of one byte and a missing one; no two begin at one offset | `LaterRangesUnshifted`, `ThrowsExactly`, `ResultIsSubstitution` |
| `MCApplyTiedShift` | the same sets, ties allowed | **violates** `LaterRangesUnshifted` |
| `MCPlanAndApply` | two files (one `Lossy`) and two outputs (one `Lossy`), the least with one before and one after a failure; plans with no edit, with one edit and a conflict, and with every kind of item, of whose two edits one has a control character; `MaxCalls` = 3 invocations in all, of which `MaxRuns` = 2 of apply: a plan over a plan, an apply between them, an apply after a failed one | `Recoverable`, `UntouchedUnlessAccepted`, `StopsInOrder`, `ExitZeroMeansApplied`, `ExitZeroMeansWritten`, `AppliesWhatWasPlanned` |
| `MCEngine` | `MaxFacts` = 3 of every class a rule tells apart, from two transpilers or another adapter; four sets of options. Two facts collide, a third comes after the collision | `EditsExplained`, `NoEditAgainstGuard`, `EverySiteClassified`, `PlannedIsPlanned`, `FailureVisible`; `ImplementsEditSet` |
| `MCPlanSlices` | a plan of three edits by two rules in two files, one of them in a directory, with every kind of item; two paths; six filters, two of them by one file alone, so that slices by file are applied one after the other; `LargeScope` = 2 items instead of 500, so that plans lie on both sides of it | `ReferencesResolve`, `CountsTrue`, `SlicesSelect`, `ReportsStand`, `FileSlicesCompose` |
| `MCPlanSlicesByRule` | the same | **violates** `SlicesCompose` |
| `MCReviewSessions` | two sessions, two plans of one directory, `MaxKeys` = 4 keys in all (opening, closing and the ends of writes are free): a decision and a save in each session, in every interleaving, or two decisions, an export and one more | `DecisionsAreTheUsers`, `ReviewedAgrees`, `SavesKeepTheRest` |
| `MCUnifiedDiff` | all rewrites between texts of up to three characters out of two and a newline, between texts of up to four lines over two, and of texts with up to eight equal lines between two changes (two contexts of three, and two more); each diffed or reviewed, the file as it was, saved with a line in front or without its last character, or gone | `ShortestDiff`, `HeadersTrue`, `PatchYieldsNew`, `RewriteIsSmallest`, `PlacesAgree`, `ReviewShowsEdit` |
| `MCUnifiedDiffHunks` | three to six equal lines between two changes | **violates** `HunksInSequence` |
| `MCAdapters` | for the scanner all texts of up to four pieces that begin or end a literal, comment, directive or token; casts; raw literals with a delimiter around up to four pieces. For libclang a C++ source that includes a header of the store and one outside it, the header as a source of its own, and a file in C; up to two declarations a file out of eleven, and any file saved with another of its texts at any time | `FindsExactly`, `NoUnitUnsaid`, `RangesHold`, `AdaptersAgree`; `AnalysisEnds` |
| `MCInputSelection` | disks with up to five sources in two directories and two headers, overlapping, repeated and missing inputs, seven sets of patterns that hold each form of star; databases asked for, found near the inputs, or broken, that list files twice, in C and C++, from other directories, with paths joined to options and apart | `AnalysesWanted`, `ParsedAsCompiled` |

Where the variables of a module have ranges that could be left, its type invariant is
proved (`TypeCorrect` in three of the proof modules) rather than run. Deadlock is checked
except where the program ends (a call that returned, a run that is over).

**Fairness.** Only `Adapters` states any: weak fairness of the textual scan and of the
libclang loop. Both are sequential loops in one thread that nothing can hold up, provided
libclang returns from a parse and a visit; saves by the user need not happen.
`AnalysisEnds` then says that every trip of the scanner advances far enough, and that the loop over
the store takes each unit off, whatever libclang answers. The other specifications state
none: the steps they make depend on users, disks and callers, whom nothing obliges to go on,
and their properties are about safety.

### Where the code and its documents disagree

1. *Edits that begin at one offset* (`src/edits.cpp:79`, run `MCApplyTiedShift`).
   `docs/architecture.md:80` says that applying edits "in descending byte-offset order
   ... prevents earlier edits from shifting later ranges". An insertion at `b` does not
   overlap a replacement of `[b, e)`, both are accepted, and the sort compares `begin`
   only: if the insertion goes first it shifts the replacement's range. The bounds check
   at line 82 is then also made against text that has grown. All that `ApplyEdits` shows
   otherwise is for sets without such ties.
2. *Slices by rule* (`M:1309`, run `MCPlanSlicesByRule`). `README.md:118` offers slicing
   "when you want to migrate one rule or subsystem at a time". Offsets are those of the
   text the plan was made for, and nothing compares it with the text on disk, so a
   second slice that touches the same file is applied at shifted places. Slices by file
   do compose (`FileSlicesCompose`).
3. *Overlapping hunks* (`M:1184`, run `MCUnifiedDiffHunks`). With four or five equal
   lines between two changes both hunks print the same lines as context, and
   `patch` refuses such a file. `PatchYieldsNew` therefore holds for patches whose hunks
   are in sequence.
4. *Control characters in a replacement* (`M:385-388`; no run of its own).
   `README.md:105` says that `apply` "applies accepted, conflict-free edits to disk". The
   plan is written with `\u00XX` for a control character that has no escape of its own
   (`src/json.cpp:20`), and the reader puts `?` in the place of any `\u` escape. So what
   `apply` writes differs from what was planned, without a message. The plans of
   `MCPlanAndApply` have such an edit: `AppliesWhatWasPlanned` excludes its text by `HasControl`,
   and is violated within five steps when that disjunct is taken out.

## 4. What is proved

The theorems hold for all values of the constants that meet the modules' `ASSUME`s.

**EditSetProofs**: `TypeCorrect`, `Disjoint`, `NothingIsDropped`, `GateIsExact`,
`RejectedStaysOut`, `Refinement`. The inductive invariant is

    Inv == TypeOK /\ AcceptedDisjoint /\ Ledgered /\ NothingDropped

`Ledgered` says where each entry of the lists comes from: accepted edits were proposed,
and each conflict is between an accepted edit and a proposal that overlaps it and is not
the same. It is needed for the gate: `AcceptedDisjoint` and `NothingDropped` do not tell
that a recorded conflict is a real one. The direction "two proposals overlap, so there is
a conflict" follows from `NothingDropped` and disjointness: if there were no conflict,
both would be among the accepted edits. `Refinement` maps each outcome of `add` to a
step of the ledger or a stutter.

**ApplyEditsProofs**: `TypeCorrect`; and, for sets where no two edits of a file begin at
one offset (`Untied`, the negation of finding 1), `DescendingOrderIsSafe`,
`ThrowsWhenItShould` and `ResultIsTheSubstitution`. The core is `EarlierEndsBefore`: of two
disjoint edits with different beginnings the earlier one ends before the later one begins, so
that a splice at the later one keeps all bytes the earlier one is about
(`SpliceKeepsPrefix`). The bounds check is then as good as one against the original text
(`BoundsCheckExact`). `MeansApplied` says that the text so far is the original with the edits
applied so far substituted; `SpliceOne` (below) takes it through a step of the loop.

**SubstitutionProofs** holds what the other modules need to know of folds over sequences. The
library's induction theorems cannot be cited here, since they take an operator, so each
induction over a length is by the least counterexample (`Least`, `Greatest`, `CountUp`).
`FlattenIs` gives the function behind `FlattenSeq`, `PickedMembers`, `RoundLined` and
`PickedInOrder` tell what a selecting loop returns and in which order, and `SpliceOne` that
replacing the last of the edits still to be applied is substituting one more. It cuts both texts in two
at the place of the edit: before it the pieces are the same (`SamePiece`), after it they are
those of the edits already applied. `RecursionExists` says that a recursive function over
whatever has a rank is the function its definition describes, which the scanner's reference and
the table of the diff need before anything can be said of their values; `PickedWithin`,
`RestWithin` and `LaterWithin` tell what a sequence with members left out is, once its first
member is looked at.

**ApplyPlanProofs**: `TypeCorrect`; `BackupsRecover`, assuming that no two paths of a
plan lead to one file (`Apart`); `RefusedTouchesNothing`; `RunsStopInOrder` and
`ExitCodeIsHonest` for files that are not `Lossy`. `RunInv` ties the queue to the disk:
files still in the queue hold what the user last had in them, except the one being
written, whose backup, if one was asked for, is a complete copy of that text unless the
user saved after the copy was begun (`late`); what was read is that text unless the user
saved since (`saved`). `WrittenInv` says that the files that left the queue, and that the user
left alone, hold their new text. Both are needed because the properties speak only of
files and of runs, not of where in its loop a run is. `PlanExitCodeIsHonest` is about
`WriteOutputs`: while `ok` stands, the outputs before `at` are whole and of this invocation,
unless they are lossy (`OutputsInv`), and a slice written over the plan keeps the plan's errors.
`WritersKeepOut` is the composition.

**PlanProofs**, of the engine: `EditsComeThroughAdd` (the engine implements `EditSet`, so that all
theorems about `EditSet` hold of plans), `EveryEditIsExplained`, `GuardsAreKept`,
`PlannedFindingsAreRight`, `FailuresAreVisible` and `NoSiteIsSkipped`. The invariant (`FactsKnown`,
`RulesKnown`, and `ExplainedInv`) says what a stored fact may ask for, that the list of
edits and the list of their grounds grow together (`ListsTyped`), and that evidence is only
ever added. A finding that says "planned" is made in one step with its edit
(`AcceptedIsAppended`) and neither list loses an entry (`PlannedStays`). `FailureInv` is
apart from these: a failure is an error in the sink from the moment it occurs, and the
sink does not change once the plan has its copy. `ClassifiedInv` follows one fact through the
loops: from its registration on it shows in the plan (`Shows`) or it is `Due`, which says in each
phase where: it is in the work list of the present rule, or for a rule that was registered and has not
run, or for one of a capsule that is still to be registered. The theorem assumes
`TargetsAgree`, that rules have the targets of their capsules; otherwise a capsule may be
enabled without its rules (section 5, `modernization.cpp:348`).

**PlanProofs**, of the selection of sources: `GlobsReach` and `PlansWhatIsWanted`. The first says of
every pattern and path that the matcher finds what the pattern means. The matcher's table exists
(`MatchingExists`, by recursion over what is left of the pattern), and
an entry of it is true exactly if the text that is left can be cut for the symbols that are left
(`MatchMeans`, from the end of the pattern backwards), with a case for the end, for a symbol, and for a run of
stars (`MeansAtEnd`, `MeansAtSymbol`, `MeansAtStars`); where a slash stands for nothing is decided
within the run (`Border`). A relative pattern is one behind `**/` (`AnywhereMeans`). The second
has the invariant `SelectInv`: what was collected so far is what the inputs so far stand
for (`Gathered`), so that their order and their overlaps do not matter, because a header's
directory looks the same from every input above it (`CSideIs`); a path has one record
(`SoughtTyped`), so that `std::unique` loses nothing; and what is loaded has the language its
text tells. The theorem assumes `LanguagesInferred`, that what `CommandLanguage` makes of the words of
a command is what a compiler would: the words of the instance are checked, all words there
may be are not.

**PlanProofs**, of the arguments: `ParsesAsCompiled`. `CommandsInv` says that a source has the
arguments of the database that is used; `CommandMapHas`, `ArgsAre` and `EntriesAre` lead them back to
a command listed for the same file, or to the defaults if there is none. What is left is
`SanitizeTells`: the loop over the words of a command, which takes one or two at a time, tells
libclang in the working directory what the words that are not the driver's tell a compiler in the
directory of the command. The loop has a solution (`RestingExists`) and keeps this for what is left from
each word on that is no operand (`RestStep`, `RestTells`, from the end of the command backwards, with a
case for each branch of `sanitize_compile_command`); what words tell is put together from its parts
(`ToldBehind`, `ToldOne`, `ToldTwo`), and a path that was made absolute once stays the same file
(`CanonicalHere`). The theorem assumes `CommandsProper`: no option stands where a path is due, `-o`
has its output, `-isystem` and its like stand apart from their path (joined, they are
not rebased: `M:665-676`), and no word names the source from where moult runs but
another file from where the compiler does, for `NamesSource` would drop it. The run `inputs` evaluates
both hypotheses on all its calls (`HypothesesHold`).

**PlanSlicesProofs**: `SlicesAreClosed`, `CountsAreTrue`, `FiltersCommute`,
`ReportsCanBeActedOn` and `FileSlicesAddUp`, for any plan, any filters and any number of slices
of slices. The invariant is that every plan on disk is a slice of one whole plan by the set of
the filters used for it (`FromWhole`, `SliceOfWhole`): in one step by a set, not filter by
filter, so the order falls away (`SlicesOfSlices`). References and counts are then read off the
whole plan. For reports the counts of the tables are those of finite sets (`TablesCount`,
`NarrowerShows`). `FileSlicesAddUp` rests on `AllOrNone`: while all slices were by file, either
every edit of a file was applied, in one go, or none. `SliceAssumption` gives what a plan is
when it comes from `moult plan`: references resolve, counts are those of the lists, edits of a
file are in bounds and disjoint and do not begin at one offset (finding 1).

**ReviewSessionsProofs**: `DecisionsAreMade`, `NothingIsLost` and `ExportsAgree`, for any
plans, sessions and keys and any failing writes. `Typed` says what a session and a
file may be; `UsersInv` that decisions in memory and on disk were made by the user on the item
shown, which needs that the selection is on the list whenever a key can be pressed
(`OnScreen`), through a change of filter too; `RestInv` that what a session did not touch is
still as it read it, unless another wrote in between; `PairInv` ties the two exported files: as
long as both come from one export the plan is the one that the decisions in `review.json` give.

**SourceAndPatchProofs**: of the libclang adapter, `NobodyIsForgotten` and `RangesAreOfTheStore`;
of the textual one, `ScannerIsExact`; of what becomes of a rewrite, `RewritesAreTrimmed`,
`HeadersAreTrue`, `PatchMakesTheNewText`, `DiffsAreShortest`, `ReportAndPatchAgree` and
`ReviewShowsTheEdit`.

* `SaidInv`: a C++ source is still to be parsed or something was said of it. `RangesInv` says
  that a cursor still to visit in a file nobody saved is one of the stored text (`Fresh`), and
  that the disk agrees with the store where nobody saved (`Loaded`); a range made from any
  other cursor is kept by the comparison with the stored text (`InStore`) alone.
* `ScanInv` says of a text that a lexer gets through that the scanner stands where the lexer is
  in code and no comment or raw literal has begun yet (`Ready`), or at the end, and that it has
  reported what begins before that place (`FoundUpto`). The code has no lexer: it jumps, over a
  comment, a literal, a directive, a word. So each jump is proved to land where the lexer, which
  goes symbol by symbol, is in code again, with nothing to report on the way (`Lands`): by an
  induction over the symbols between (`InBlock`, `InDelimiter`, `InRaw`), for which the text
  must be whole, since in a text that is not a jump ends at the end of the text and the lexer does not.
  `LexRun` and `RecursionExists` tie the lexer's states to one another first.
* `SharedIs` gives the common beginning and end that `propose_file_rewrite` strips, and
  `NoneSmaller` shows that an edit that makes the new text must cover what is between them.
* `DiffInv` follows the diff through its phases. While it walks, `Walked`: the ops so far tell
  both texts up to `i` and `j`, each with the lines it stands at (`Tracks`). While it cuts,
  `CutSoFar`: each hunk ends after the one before it, skips no change, shows all there
  is or something common, and has nothing changed right where it ends (`Fitting`). The
  last part is needed to know that what a reader of the patch copies between two hunks is
  common to both texts. That the walk never leaves the table is part of it; what is *in* the
  table is not needed, so `HeadersAreTrue` and `PatchMakesTheNewText` hold for any way the
  table breaks its ties.
  `HeadersAreTrue` then counts the lines of each side before the hunk (`SideLocated`), and
  `PatchMakesTheNewText` shows piece by piece that the reader has copied and inserted the new
  text up to the end of that hunk (`PiecesPrint`), for patches whose hunks do not overlap
  (finding 3). `TextsInv` says what two texts can meet in a diff, after a save too.
* `WalkInv` is about what is in the table: while it is filled, the rows from `i` on are those
  of the recurrence (`Filled`), from which `NothingLonger` shows that a cell bounds every common
  subsequence of what is left of both texts; and on the walk, what was kept and what the cell at
  `i`, `j` promises make up the first cell (`KeptSoFar`), so that all that was promised is kept
  in the end. A line is deleted or inserted only where the texts differ (`Differing`).
* `ComparedInv` says what is compared (`Compared`). `ReportAndPatchAgree` then shows that the
  first line that is changed is the one with the first character that differs
  (`FirstDifference`, `FirstChange`), counting newlines (`LineAtIs`); `ReviewShowsTheEdit`
  cuts the file with and without the edit at the window (`WindowIs`, `WindowLines`), where the cuts
  are at line ends, so that the lines of the parts are the parts of the lines (`LinesConcat`).

The assumptions on constants say what the surrounding program or language guarantees:
`ProposalsAssumption` and `ApplyAssumption` (begins and ends are numbers, what is applied was
accepted), `PlanAssumption` (each path leads to a file, and a torn or absent file is no text),
`OutputsAssumption` (the outputs have different names, `plan.json` among them),
`EngineAssumption` (options, facts and rules have the types of the code), `ClangAssumption` (a
cursor has a beginning and an end, and one that refers to `NULL` is at that word of the text it
was parsed from; its range may reach beyond the text), `FilterAssumption` and `SliceAssumption`
(above), `PlansAssumption` and `FileAssumption` (a plan is a record of lists; an absent or torn
file is no set of decisions), `SelectionAssumption` (inputs, patterns and paths are texts; a file
has one path on a disk, is no directory, and has nothing below it), `CwdAssumption` (the directory the
command runs in is a text), `RewritesAssumption` and `TextsAssumption`
(texts are sequences of characters). TLC
evaluates each on the instances of section 3.

**Only model-checked**:

* `AdaptersAgree`: which cursors a text has is libclang's, and the property holds only of
  cursors that a C++ parser yields. What would have to be assumed of them is most of what is to be shown.
* `AppliesWhatWasPlanned`: `JsonText` reads and writes by `RECURSIVE` operators, which the
  prover does not take.
* `AnalysisEnds`: liveness under fairness.

## 5. What is not modelled, and known limits

Not modelled:

* **The command line** (`parse_args`, usage): a sequence of independent assignments to a
  record of options; the models start from the options.
* **Screens and wording**: drawing in `moult review`, the columns and the table by file of
  `moult report`, comments in a patch, titles and messages, SARIF (nothing in Moult reads
  it). They change nothing.
* **The inside of libclang**: which cursors a text has is a parameter.
* **Ids** made by `stable_id` are taken to differ when what they hash differs.
* `PlanBuilder::add_group`, which nothing in the program calls; plans printed to the
  terminal instead of an output directory; the quoting rules of `split_command_line`.

Texts, names and messages are symbols; numbers do not overflow. Bounds of the models that are
not in a `.cfg`: a slice over its plan keeps everything (`PlanAndApply`), a plan has edits for one
file (`DiffPlan`), no directory lies within another (`PlanSlices`), symbolic links are not
followed (`CompileCommands`).

Behaviour of the code that the models show and no property forbids, or that a property
excludes by an assumption it states:

*Planning*

* A target `cpp-modernization` given to `Engine::run` directly enables the capsule and
  none of its rules (`modernization.cpp:348`, `443`); the command line rewrites it
  (`M:2010`).
* Guards without a name are dropped (`transpiler.cpp:136`), so that one that failed does
  not stop its edit.
* A finding whose edit another rule proposed first reads `not_planned`, although the edit
  is in the plan (`modernization.cpp:406`).
* Evidence ids leave out the text of the proposal (`plan.cpp:31`).
* The scanner takes digit separators for quotes and knows neither spliced lines nor comments
  that begin in a directive (`README.md:100` calls it textual). The lexer it is compared with
  also has no rule for a literal right behind an identifier that ends in `R`, nor for a `#`
  behind a block comment on its line, so `FindsExactly` says nothing of texts with these; and
  what a cast is, it takes from the scanner (`CastEnds`).
* The Clang adapter takes the first occurrence of a token in the text of a declaration,
  also one in a comment or in a longer name (`AdaptersAgree` leaves these out); a `NULL` of a header
  saved meanwhile may be looked for where another stands; a site that several units see is
  reported by each (the model keeps a set).
* A header named in a compile database with a C++ compiler is taken as C++ whatever its text
  (`M:779-786`).
* Behind a launcher (`ccache g++ ...`) the compiler's word stays among the arguments; an
  entry without a directory, in a database given by a relative path, is looked for below that
  path twice (`M:751-752`); of a file listed twice the last entry counts, whatever its
  language; `-isystemX` and `-iquoteX` are not rebased, `-include f` is and then is no longer
  searched for.

*Plans as files*

* A control character is lost on the way to `apply` (finding 4); in a path it makes the
  edit miss its file.
* `apply` does not look at conflicts or errors the plan records, and a plan applied twice
  is applied to its own result: the plan keeps no digest of its sources.
* A slice by rule has no conflicts, since their key is `edit conflict`, and so no errors
  (`M:1420`).
* Decisions on conflicts and diagnostics go by position and may meet another item of
  another plan; `review.json` belongs to a directory, and of two sessions the last to save wins.
  A session that finds it torn starts with no decisions and saves over it.
* A reviewed plan keeps findings that say `planned` for edits that were rejected.

*Files*

* A file reached by two paths (`./a` and `a`) is loaded twice, and `apply --backup`
  overwrites the good backup with the modified text (`Apart`). A later `apply --backup`
  does the same to the backup of a file that a killed run left torn: what `Recoverable`
  promises begins anew with each run.
* What a user saves in a file between its backup and its write is lost (`late`).
* Write errors that surface at close are not reported (`M:287`,
  `moult_review.cpp:287-292`, `serializers.cpp:10-22`).
* The diff never says `\ No newline at end of file`; the review shows an empty window as a
  blank line (`moult_review.cpp:703`).

## 6. Plan

Modelled and checked: all components of section 1 but the command line. Proved: every safety
property that a run checks, save those that section 4 lists as only model-checked.

Next, to model, if it should be wanted: slices that leave something out in the directory of
`PlanAndApply`, and reviewed plans beside them, where `PlanSlices` and `ReviewSessions` now
have a directory of their own.
