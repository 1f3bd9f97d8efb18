# NameRTS in TLA+

A verification project for the code in `src/src`: NameRTS, a tool that selects
the Python tests a patch can affect (name-level analysis in `namebdp.py` on top
of file-level analysis in `framework.py`), the driver that evaluates it over
lists of commits (`evaluate.py` and the validation scripts), and the fork of
pytest-xdist it ships, with a scheduler that runs every test file in a process
of its own (`scheduler/isolation.py`).

Paths below are relative to `src/src`; `xdist/` stands for
`pytest-xdist-isolation/src/xdist/`.

## 1. The system

| Component | State | Operations | Talks to |
|---|---|---|---|
| **NameBDP** `namebdp.py` | `world_name_dict` (name → code objects), the constraint dictionaries and their memos, `nbdp_cache.json`, per-test `dependent_elements`, `ok_names`, `work_stack`; instrumented sources while tests run | `get_tests_to_run` (load cache, prune names, diff checksums, `algorithm` per test), `run_and_update`, `file_recover` | EkstaziP (tests to narrow, imports, member names), runtime hook (instrumented names) |
| **EkstaziP** `framework.py`, `checksum.py`, `utils.py` | `py_checksums_cache.json`, `dependencies.json`, the dictionaries in memory | `get_changed_files`, `update_imports`, `get_tests_to_run`, `run_and_catch_dep`, `run_and_update`, `dump_dep_dict` | checkout on disk, one process per test file, coverage directory |
| **Import resolution** `import_collector.py` | none | `extract_imports`, `resolve_imports`, `_resolve_module_chain` | EkstaziP |
| **Runtime hook** `runtime_bootstrap/`, `instrumentor/` | pairs captured in one process, `is_importing` | patched `__import__` and `import_module`, dump at exit | EkstaziP, through files |
| **Evaluation driver** `evaluate.py` | archives of caches per commit (`CACHE_PATH`), the shared checkout | `evaluate_instance` (clear, load or recompute the parent, run, store), `evaluate_tool`, `test_all` | the tool |
| **Validation drivers** `*_validation.py` | the checkout of a project; `ground_truth.json`, `test_results.json`, comparisons, `batch_status.json` | `ground-truth`, `namerts`, `smoke`, four kinds of batch, reviews, refinement, normalisation, summary | `evaluate_instance`, git, one process per test file |
| **Isolation scheduler** `xdist/scheduler/isolation.py` over `loadscope.py`, `loadfile.py` | active, next and standby workers, `workqueue`, `assigned_work`, nodes to clone | `add_node`, `add_node_collection`, `schedule`, `mark_test_complete`, `remove_node`, `should_clone_worker` | session |
| **Session** `xdist/dsession.py` | `_active_nodes`, event queue, failure count, `shuttingdown` | `loop_once` and one handler per event, `_clone_node` | scheduler, workers |
| **Worker** `xdist/remote.py`, `workermanage.py` | `torun` queue, `nextitem_index`; `_down`, `_shutdown_sent` on the controller's side | collect, run one test with one item of look-ahead, send events | session, over a channel |
| **Other schedulers** `xdist/scheduler/{load,worksteal,each,loadgroup}.py` | as upstream | as upstream | session |
| **Extraction** `bytecode.py`, `parser.py` | none | code object or syntax tree → names, uses, checksums | NameBDP, EkstaziP |
| **Rest** `metric.py`, `config.py`, `runall.py`, `xdist/looponfail.py`, `plugin.py` | – | statistics, constants, options | – |

What makes these parts correct, and what makes that hard:

- *Selection (both levels)*: a test that is left out would behave as it did when
  it last ran. Caches are carried over any number of commits, are written at
  different moments, and describe files that have since changed, moved, stopped
  compiling or vanished. Tests that are not selected keep old records.
- *Name propagation*: the result must be the closed set of names reachable
  from the test, whatever the order of the stack; attributes wait until their
  class is named, elements are shared by checksum, and the loop must end.
- *Evaluation*: a patch is judged against its own parent, although instances
  share a checkout, the process can die anywhere, and archives can be torn.
- *Name constraints*: a name may be bound to any definition its file can import;
  the dictionaries are memos filled in an arbitrary order, across aliases,
  cycles, wildcards and files that are being edited.
- *Validation*: what is measured, selected and summed up belongs to one patch,
  while commands of two kinds, batches, reviews and people take turns in one
  checkout and one set of files, and any process can die.
- *Distribution*: each test has one outcome, and the controller's books agree
  with queues that workers consume, give back and lose while commands and
  events are on their way.
- *Isolation*: each file runs in one fresh process, once, also when processes
  die, replacements are requested early, commands reach dead workers, and
  events of different workers arrive in any order.

`PROJECT.json` lists the components with their status and, under `hazards`, the
lines where these difficulties bite and the properties that watch them.

## 2. The modules

| Module | Models | Kind |
|---|---|---|
| `NameWorld` | what `algorithm` reads: checksums, uses, constraints, seeds, class names | constants and pure operators |
| `NameSelection` | what the algorithm promises: one step from a test to its verdict, by a least closed set | abstract specification |
| `NamePropagation` | `NameBDP.algorithm` and `handle_element`, stack by stack | refines `NameSelection` |
| `NameConstraints` | `build_constrain_dicts`: where a name or an attribute may be defined | state machine over its memos |
| `FileWorld` | trees per commit, name resolution, static imports, what Python really loads | constants and pure operators |
| `FileSelection` | one EkstaziP run after another on one checkout | state machine |
| `NamePipeline` | one NameBDP run after another: `nbdp_cache.json`, pruning, checksum diff, narrowing | composes `FileSelection` |
| `EvaluationChain` | `evaluate.py` around `FileSelection` | composes `FileSelection` |
| `SerialFiles` | each file once, on a fresh worker, after the one before | abstract specification |
| `IsolatedScheduler` | the methods of `IsolatedScheduler` as operators from state to state | library of the next |
| `IsolatedSession` | controller loop, workers, channels and deaths | composes, refines `SerialFiles` |
| `DistSchedulers` | `load`, `worksteal`, `each` and `loadscope` as operators from state to state | library of the next |
| `DistSession` | controller loop, `-x`, workers with two threads, channels, deaths | composes |
| `ValidationRun` | one command of a validation script: ground truth, selection, smoke | state machine |
| `ValidationDrivers` | the batches of the four scripts, reviews, summaries, people and deaths | composes `ValidationRun` |
| `MC*` | instances for TLC | |
| `Folding` | what a loop (`FoldLeft`) keeps if each of its turns keeps it | lemmas, with the turn as parameter |
| `NamePropagation_proofs`, `FileSelection_proofs`, `NamePipeline_proofs`, `EvaluationChain_proofs`, `ValidationDrivers_proofs`, `IsolatedScheduler_proofs`, `IsolatedSession_proofs` | theorems about the modules they are named after | |

**Names.** An item of the work stack is a triple of name, the file it was met in
and the class context (`NameWorld!Item`); `work_stack`, `ok_names`,
`dependent_elements` and `relevant_names` keep their names. `PopItem`,
`HandleMatch`, `HandleElement`, `ReturnEarly`, `NextRound` and `Return` are the
statements of the `while True` loop. The order in which items of a round are
popped is left open, which covers every order of Python's lists and sets.
`file_constrain_dict` and its relatives are constants here. `refine_world_dict`
is `World`.

**Constraints.** `NameConstraints` computes those dictionaries. A world says
which names a file defines, what it imports from where and as what, and which
names each element uses; `changed` is `ekstazip.changed_files`.
`AddNameConstraint` is the recursive helper, with the memo
(`non_attr_file_constrain_dict`, `used_alias_mapping`) passed through every
call in the order of the code, and `SuperSub` is `get_super_sub_classes` with
its two memos and its depth. `TakeElement`, `ConstrainName`,
`ConstrainAttribute` and `LeaveElement` are the loop over the elements and over
the names of one; that order is left open (the code iterates over sets). The
yardsticks are what Python does: `Denotes` follows definitions and imports from
a name to every definition it can be bound to, and `SelfOf` says what classes
`self` can have.

**Files.** A commit is a function from paths to texts; a text has a bytecode (or
`NoCode` when it does not compile) and import statements. A name resolves to the
first existing candidate, as in `_resolve_module_chain`. `Executes` is external:
the least set of files that Python loads for a test, following every import.
`CompareChecksums` is `get_changed_files` *with* its write at line 142;
`SelectTests` is the rest of `get_tests_to_run`, aliasing of the dynamic record
included (`Shared`); `RunTest` and `KillTest` are one process of
`run_test_files_parallel`, ended or killed by its timeout; `DumpDeps` is the
merge, the pops for deleted files and `dump_dep_dict`. `Crash` loses memory and
keeps the disk. The history variable `seen` records the commit each test last
ran in; `EvaluationChain` archives and restores it with the caches, because the
caches are all the tool knows of that history.

**Names over a history.** `NamePipeline` runs between the selection of
`FileSelection` and the tests: `SelectFiles` is the call of
`EkstaziP.get_tests_to_run`, `ParseNames` loads, reuses or parses, prunes and
dumps (lines 889-924), `NarrowByNames` is the rest of `get_tests_to_run`, and
`RunSelected` is `run_and_update`. An element carries its checksum, the names it
uses, its bases and a decorator hash. One propagation is replaced by its fixed
point (what the modules above are about), without the constraints of
`build_constrain_dicts` and without the names recorded at run time; both the
code's side and the yardstick `NameBehaviour` use that fixed point, the first on
cached, pruned elements and recorded dependencies, the second on the elements
of the files Python loads in the commit (`Behaves`). So the module is about the
caches and the comparison, not about the precision of one propagation.

**Evaluation.** `LoadParent`, `StartAtParent`, `RunTool`, `OpenArchive`,
`CloseArchive` and `KeepSelection` follow `evaluate_instance` line by line;
`Die` may happen anywhere, also between opening and closing an archive;
`Restart` is either `test_all` (archives rotated away) or a validation script
taking up any instance again.

**Isolation.** A scheduler state is a record and every method an operator on
it, so that nested calls, early returns and exceptions (`raised`) keep their
order inside one handler. The controller takes one event at a time; events of
one worker stay in order, those of different workers do not.
`ReceiveEnd` is `process_from_remote` setting `_down` on the receiver thread
before the loop sees the event. Sessions of several shapes (`Configs`: number
of workers, restart limit, where and how often a worker dies) are checked
together.

**Distribution.** `DistSession` has the same controller under the other modes,
and workers in full: `HandleCommand` is the receiver thread that extends or
robs the queue, `EnterLoop`, `BeginTest` and `EndTest` the main thread, which
begins a test only when it has taken the next item. A test stands for its index
in the collection; a worker in `MayDiffer` may have collected something else.
`Return` is the end of `loop_once`, which shuts down when the tests are
finished or somebody wants to stop.

**Validation.** `ValidationRun` keeps the checkout (`tree`: head, tracked
change, probes, files a patch left untracked), the files of results and the
command under way; its actions are the statements of `command_ground_truth`,
`command_namerts` and `command_smoke` between two writes, with an exception
possible at each subprocess (`Raise`) and a death at each write (`KillJob`,
which may leave the file torn). `ValidationDrivers` adds the loops: `python39`
and `sklearn` decide from the result files (`NeedTruth`, `NeedNames`), `django`
from its status file (`SkipPhase`), `final` runs one stage through child
processes (`CallStage`, `Orphan`), and `Person` stands for everything started
or repaired by hand. The scripts were written one after another from the same
text; where they differ, the definition names the script.

## 3. The runs

| Run | World and bounds | Shows |
|---|---|---|
| `name_selection` | 1 test, 9 kinds of names, every set of changed checksums, both modes | `OkNamesHandled`, `ClosedWhenDone`, `OnlyNeeded`, refinement of `NameSelection`, `Terminates` under weak fairness |
| `name_constraints` | a package with re-exports, an alias, a cycle, a wildcard and an optional import, under any set of edited files among three; a diamond of classes | `NamesCover`, `NamesExact`, `AttributesCover` in whatever order names are met |
| `file_selection` | 5 commits in any order, 2 tests, 1 killed process, 1 death of the tool | `UpToDate`, `IncrementalIsFull`, `DynamicKept` |
| `name_pipeline` | 5 commits in any order, 2 tests, 1 killed process, 1 death of the tool | `NamesCurrent`, `NameUpToDate`, `NoneRunInVain` |
| `evaluation_chain` | 4 instances on the 5 commits, 2 deaths, 1 killed process | `JudgedAgainstParent`, `ArchiveStandsForCommit` |
| `isolated_pool` | 3 workers (6 processes), 3 files, nobody dies | `SpawnBounded`, refinement of `SerialFiles` |
| `isolated_crashes` | 1 worker that may die in a test, or 2 that may die anywhere; 2 deaths, limit 1 | `WorkPlaced`, `IsolatedUndisturbed`, `NoRerun`, `NoTestLost`, `NeverAborts`, `NeverStranded`, and `Ends` under fairness |
| `distribution` | 2 workers, 5 tests in 3 scopes, 4 modes, 2 deaths (limit 1), `-x`, a worker that differs | `OneOutcome`, `RunOnce`, `BooksAgree`, `BlamesRunning`, and `DistEnds` under fairness |
| `validation` | 2 patches, 2 test files, 3 scripts, 5 command lines and `ground-truth` by hand, 2 reviews of one patch that contradict each other, any two troubles | `TruthMeasured`, `ComparedFairly`, `NeverDiscards`, `DoneIsBacked`, `SummaryAccounts` |
| `validation_resume` | the batches of `python39` and `sklearn`, restarted, three troubles | `Delivers` under fairness |

Two more runs end in a violation, and are described in section 5. `TypeOK`,
`PipelineTypeOK` and `DriversTypeOK` are the type invariants.

Why these bounds are enough to be interesting. The five trees of `Edits`
contain a comment edit, a code edit, an edited test, a new and an edited
`conftest.py`, a new import, a dynamic import that a test reaches only through
a changed module, an import made by a library, a deleted file and a deleted
test, and a file that stops compiling; any walk over them is allowed, so files
come back with old or new content. The trees of `name_pipeline` differ by a
function's body, an overriding method (deleted and brought back, with a class
between it and what it overrode), a variable with another use, a registration,
a fixture, and a test that is edited or deleted. Two tests are enough for one to be
selected while the other keeps its record. Three workers and three
files are the fewest with an active, a next and a standby worker at once and a
file for each; two deaths are the fewest that kill a replacement. Five tests and
two workers make `load` deal in chunks and again, leave `worksteal` something to
steal and `loadscope` a scope for later; scopes of one, three and one tests have
the boundary at two pending tests on both sides. Two patches, one of which adds
a file, are the fewest with a stale patch in the checkout of another; two
troubles are the fewest of which one hits the repair of the other. `MaxKills`,
`MaxCrashes`, `MaxDeaths`, `MaxRestart`, `MaxTroubles` and `MaxDepth` are the
only counters and all are bounded by guards; `MaxSchedChunk` is
`--maxschedchunk`, and `MaxDepth` stands for the 100 of `namebdp.py:707`.

Deadlock is checked everywhere except where the program ends: the propagation
returns its verdict, the constraints are complete, the evaluation is over when
the list is, and a validation script may be left alone.

**Fairness.** `Terminates` assumes only that the algorithm goes on running.
`Ends` and `DistEnds` assume one thing: as long as a process, a thread or the
controller loop can do something, one of them does (`WF` of `Progress`). That is
weaker than fairness to each of them, and enough because every one of their
steps uses something up; nothing has to crash. pytest has no time limit for a
test under these modes, so a test that hangs is outside the assumption and
outside the promise. `Delivers` assumes that a process goes on (`WF` of
`Process`), and of the person in front of it that a batch is started again and
again and that what blocks it is cleared away (`SF` of `Start`, `CleanUp`,
`RemoveTorn`): a torn file and a file left by a patch are removed by no script.

## 4. The theorems

Each theorem holds for every value of the constants that meets the module's
assumptions; the hypotheses a theorem adds are named below. What TLC evaluates
as `ASSUME` (`EditsAreTame`, `NoTestTwice`, ...) it has found true of the worlds
the runs use.

**`NamePropagation_proofs`** (every project, test and set of changes):
`TypeCorrect`; `NothingUnneeded` (only items of the least closed set are ever
held); `NothingMissed`, `OkNamesMean` and `SelectionImplemented` (the algorithm
implements the declarative selection), the last three under the hypothesis that
equal checksums mean equal uses, which section 5 shows to be needed. The
inductive invariant says that each item is queued, postponed or handled, and
that what a handled item uses is in the stack.

**`FileSelection_proofs`** (every repository, every walk over its commits):

- `TypeCorrect`, `IncrementalChecksums`, `DynamicImportsKept`, without further
  hypotheses: deaths of the tool included. The strengthening `CachesInv` says
  that the checksum cache is, at any time, exactly that of one commit.
- `SelectionUpToDate`: a test that is not selected behaves as when it last ran,
  until the tool itself dies (checksums are overwritten before the tests run,
  `checksum.py:142`; a tool killed in between has forgotten the change).
  Hypotheses: `Settled` (names of unchanged code keep their file),
  `PackageWildcards` (nothing is imported wholesale from a plain module),
  `BrokenKnown` (a file that does not compile is not new), and `None` is no
  record. The code needs the first three: section 5 has worlds in which the
  property fails without the first two, and a new file
  with a syntax error is in nobody's changed files (`framework.py:361`).
  `ASSUME EditsAreTame` makes TLC check that the world of the passing runs
  meets them.
  The invariant (`KnowInv`) says, for each point of a run, what is known:
  static imports of every compiled file (`KnowsStatic`) and, for each test,
  that the tree it ran in gives it the same behaviour and that its dynamic
  imports are on record (`Current`). Neither half is inductive alone. The heart
  is `ReachesWhatItExecuted`: with such records, what `compute_coverage`
  reaches covers what the test executed, so if nothing reached has changed then
  nothing executed has (`UnaffectedBehaves`).

**`NamePipeline_proofs`** (every repository, every walk over its commits):

- `PipelineTypes`, without further hypotheses.
- `NamesOfTheTree`: the elements and pruned names a run works with are
  those of the whole tree. Its invariant (`PhaseInv`) follows the two caches: the
  name cache is one commit behind between the two writes and `changed` is then
  exactly the difference; at any other time both stand for the commit checked
  out. `ReuseIsParse` is the step that counts: pruning twice is pruning once, so
  reusing pruned elements is as good as parsing. Hypotheses: `NamesStay` (no
  unchanged file uses a name that is defined only later: the code prunes such a
  name for good, `namebdp.py:517`), and `None` is no record. `split` marks the one
  death that breaks it, between `checksum.py:142` and `namebdp.py:923`.
- `NamesUpToDate`: until the tool dies, no element that a skipped test needs has
  come, gone or changed since the test last ran, however many runs skipped it.
  On top of the hypotheses of `SelectionUpToDate` and `NamesOfTheTree` it needs
  `ChangesShow`: an edit that matters to an unedited test leaves a checksum which
  *one* comparison of two trees shows. That excludes what the code has no answer
  to (a changed statement at module level, another head of a class, a deletion
  without a trace, `namebdp.py:988`); that many comparisons of
  partly reused caches add up to the same is what the theorem shows. It also
  needs `CapturesStay`: what a module imports dynamically is recorded only when a
  test that makes the import runs. The invariant (`KnowNamesInv`) says at each
  stage that a test left alone so far needed the same elements when it last ran
  and that the records reach every file it loads.

**`EvaluationChain_proofs`** (every list of instances, any number of deaths and
restarts): `ArchivesStand` (an archive that can be read is worth the commit it is
named after) and `PatchesJudged` (a patch is judged against its own parent).
Hypotheses: those of `SelectionUpToDate`, and `ParentsCompile`: the first run of a chain meets
a file that does not compile without putting it in any dependency
list. `StageInv` says what the caches hold at each stage of `evaluate_instance`
and what every archive holds at any time, `ToolInv` what the tool knows inside
one of its runs: that is `FileSelection`'s invariant, entered with empty caches or with
those of the parent, and again after each death.

**`ValidationDrivers_proofs`** (every list of patches, any sequence of batches,
commands by hand, deaths, torn files and edits): `TypeCorrect`;
`ComparisonsFair` (a selection is judged on the bare base commit and on that
commit with the patch alone); `GroundTruth` (a record names every test file that
enters a changed function, but for those it says were cut off);
`SummaryComplete` (the figures lose no test: what enters a changed function and
is neither selected nor missing is named by the entry with its reason, or, where a
script only counts, is among those counted as cut off; the run has the other three
scripts, the theorem `sklearn` as well); `EditsKept` (nothing a person changed is thrown away), for every
script but `sklearn`; `DoneBacked` (what is noted as done has its
files). The invariant has a part for each thing the
scripts rely on without checking: who is at work (`ControlInv`), what is checked
out at each step of a command (`TreeInv`), what a record stands for (`TruthInv`,
`AccountInv`), whose edits are in the checkout (`CleanInv`), and which files a
step has behind it (`DoneInv`).

**`IsolatedSession_proofs`** (every collection, every number of workers, any
number of deaths anywhere, any order of events):

- `EveryFilePlaced`: until its last test is reported a file is queued once or
  held by one worker, afterwards it is nowhere.
- `NothingRunAgain`: no worker runs a test that has been reported.
- `EveryTestRun`: a session that ends without an exception and within its
  restart limit has run every test.
- `OwnProcess`: no process begins tests of two files, for any number of workers
  while none dies and for a single worker whatever dies (section 5 has the runs
  in which a death with spares at hand breaks it).
- `NoMoreThanAsked`: at most `-n` workers count as alive (the first part of
  `SpawnBounded`).
- `FewWorkersStarted`: all of `SpawnBounded`. A session starts at most one worker
  per test file, `-n` - 1 more, and one for every death.
- `NothingRaised`: no exception leaves a handler (`NeverAborts`), in any number of
  workers as long as none dies, and with a single worker however often it dies of
  its tests. Hypothesis `OnlyInTests`: where one worker is asked for, it dies of a
  test if at all; section 5 has what happens otherwise.
- `WorkersToTheEnd`: under the same hypothesis, in a session in which no worker dies
  or a single one is asked for, the loop is not left without active nodes before it
  shuts down (`NeverStranded`).
- `PromiseKept`: a session in which nobody dies implements `SerialFiles`: each
  file once, on a worker that has run nothing before, one at a time. Hypothesis:
  `deaths` is 0 in every session considered.

The first three are read off `SessionInvariant`. `Ahead[w]` is what worker `w` has
in front of it as far as the controller can know: tests it has reported and the
controller has not heard of, the one it runs, and the one it has taken next.
`Sound(ahead, s)` says of a scheduler state that a file which is not through is in
one place (`FilesPlaced`), and that what is sent or ahead are open tests of files
the worker holds, each once (`TestsSent`). None of the three is inductive alone:
that a test is not sent again needs its file to be in one place, and
that a dead worker's file may be handed on needs that nothing is ahead of the
dead (`ProcessShape`, `EventsInOrder`). For each method of the scheduler there
is one lemma (`...Keeps`, in `IsolatedScheduler_proofs`): from a sound state it leads to a sound state and leaves alone
what `Same` lists; the loops over workers (`_reschedule` of every node) go
through `Folding`. `EveryoneCounted` and `NothingLeft` then say that the loop
stops only when nothing is left to hand out. Every handler is shown to be of one
form (`Handled`: an event is taken, the books are written, methods follow), and
only that form is used afterwards. The methods need no case
distinction on deaths: a send that fails raises, and the books are sound in that state too.

`OwnProcess` says nothing of where the scheduler's spares are, so it is not
inductive. `HomesInv` adds that each spare waits in one place (`LineUp`) and
that a worker which may still be given a first file has neither been sent nor
begun a test (`Idle`); that what is sent to and begun by a worker is of one file
(`OneFile`); and, while nobody has died, that the active worker holds the only
file under way, where its first test began (`OneAtATime`). `Homely` puts these
together, and for each method of the scheduler one lemma (`...Tidy`) says that it
keeps them. The last part fails after a death, when a file is begun a second
time elsewhere. A single worker is still safe: when it dies nobody is left
to be given its file out of turn (`RemoveNodeTidy`), and its replacement is told
only after it has reported (`BegunLate`).

`FewWorkersStarted` counts files. A worker is replaced because it died, or
because it was marked when it was given a file while more were queued
(`clones`); `Dues` are the marked workers no longer running a file. `SpawnInv`
says that replacements made, less those for deaths, and replacements due among
the living are no more than the files that are through, and are fewer as long
as a file is queued or held by a worker not marked (`Unclaimed`): the worker
that takes the last file is not marked. It needs that only the active worker
runs a file, has been told to stop, and holds it (`Orderly`), or a file would
end without its worker falling due in the same step. Each method has a lemma
again (`...Accounted`): no new dues, and nothing claimed that was not. In the
end either a file is not through, or the last one was somebody's who is not
replaced, which is the missing 1 of `-n` - 1 (`SpawnEnough`).

`NothingRaised` has four exceptions to exclude. A worker that finishes with tests
pending (`dsession.py:218`): what is pending has been sent or is ahead of the
worker (`Serene`), and a worker only finishes at the marker, behind which nothing
is sent (`LastWord`). A send that fails, and a lookup of a collection that is not there
(`workermanage.py:386`, `loadscope.py:275`): while a file is left, no worker that waits for one has been told to
stop or is gone, and it is asked whether it has reported. A collection from a worker that is not a node (`loadscope.py:219`): until the
session shuts down, an active worker whose `workerready` has been handled is a
node (`Listed`, an invariant beside `CalmInv`), and its collection comes after that
event (`HeardOnce`). A collection too many
(`loadscope.py:224`): the loop has noticed that all are there
(`CollectionNoticed`), and without tests it has stopped by then
(`FinishNoticed`). `CalmInv` is `HomesInv` with these, where nobody has died or
the only worker has; each method has its lemma (`...Untroubled`). A worker that
dies of a test holds its file, so it does not wait for one; that is what
`OnlyInTests` is for (`CrashCalm`).

`WorkersToTheEnd` asks who is there for the work that is left. `StaffInv` adds to
`CalmInv` and `SpawnInv` that an active node has yet to report, or that the queued files
find `Relief` (`Served`): a worker that waits in line, or one among the active nodes
that is marked to be replaced when it finishes. A worker is only marked when it is
given a file while more files are queued than spares are in line
(`UpdateCloneCovers`), and a file is only taken up by a worker that is then asked
this; each method has its lemma once more (`...Manned`). So when a worker finishes
and is not replaced, nothing is queued or somebody else waits for it
(`RemoveNodeCovers`), and a worker that waits is a node (`NodesActive`). If nothing is
queued and the last node leaves, the tests are finished and the loop shuts down.
Before the tests are known nobody has been told to stop, so no worker
finishes (`DoneTold`), and nobody dies of a test; the worker
whose collection completes them is in line (`WorkerCollectionFinishStaff`).

`PromiseKept` maps the first test of a file to `StartFile`, the end of its last
one to `FinishFile`, and every other step to a stutter. Besides `HomesInv` it
needs `BegunAccounts`: a test that has begun is completed, reported or running.
That is what makes a test begin once (`BeginningFacts`): the test a worker takes
up is open, so neither it nor a test of another open file has begun anywhere,
and the files that are not open are through, hence nothing is under way.

Assumptions: node ids are unique and the markers are no tests (`NoTestTwice`),
the options are numbers and the workers asked for are among those that
can be started (`ConfigsShape`).

**Only model-checked:** of `NamePipeline`, `NoneRunInVain` (its world is one
where a single comparison makes no test run in vain; two elements with one name
or one checksum would); of `IsolatedSession`, `NeverStranded` after a death in
a session of several workers (a dead worker's file goes to whoever is there, and
then waiting workers may hold files, which `Relief` does not describe); everything about `DistSession`, whose proofs
would need the scheduler operators of four modes treated as those of one were;
and liveness (`Terminates`, `Ends`, `DistEnds`, `Delivers`), which the prover does
not do. `NameConstraints` is written with RECURSIVE operators, because the
code's recursion threads a memo through its calls: it is for TLC alone.

## 5. Where the code and its words part

Two disagreements are runs of their own:

| Run | What the run shows |
|---|---|
| `name_alias` | `build_constrain_dicts` promises all possible definitions of a name; the answer for an imported alias is stored under the original name, where the file's own definition of that name is then looked up (`namebdp.py:797`) |
| `isolated_sharing` | after a death a warm spare gets two files (`isolation.py:109`) |

The others are worlds that the passing runs and the theorems leave out; each is
a small change of a configuration, and TLC then finds the property violated:

| Property | Change | What happens |
|---|---|---|
| `OkNamesHandled` | in `MCElement`, give `help` the checksum of `n` (breaks `ChecksumsIdentify`) | an element whose bytecode equals one already met is skipped although its names differ (`namebdp.py:341`) |
| `NamesCover` | `Worlds` = `{SameAlias}` | `import run as run`: the alias replaces the name and the name is then discarded (`namebdp.py:806`) |
| `NamesCover` | `Worlds` = `{RenamedBehind}` | in a changed file the wildcard asks for the name used there, not for the one another file renamed (`namebdp.py:764`) |
| `NamesCover` | `Worlds` = `{Ring}` | a partial answer from inside a cycle of imports stays in the memo (`namebdp.py:797`) |
| `AttributesCover` | `Worlds` = `{Mixins}` | an attribute provided by a sibling base of a sub class is not looked for there (`namebdp.py:824`) |
| `AttributesCover` | `Worlds` = `{NamedTwice}` | a hierarchy cut off at the depth limit stays in the memo (`namebdp.py:707`) |
| `UpToDate` | `Tree <- Move`, commits `c1`-`c3` | `m.py` becomes `m/__init__.py`: unchanged importers keep the edge to the deleted file (`framework.py:324`) |
| `UpToDate` | `Tree <- Wildcard`, commits `c1`, `c2` | `from m import *` of a plain module leaves no edge (`framework.py:265`) |
| `NeverAborts` without `Undisturbed` | `Configs <- DeathInTest` | a file is booked on a dying spare and never sent; the session fails its own assertion (`loadscope.py:275`, `dsession.py:249`, `218`) |
| `BooksAgree` | `Dists = {"worksteal"}`, `Dies <- StealDies` | a worker dies before collection is complete: the others are shut down before any test is dealt (`worksteal.py:279`) |
| `BooksAgree` without its exemption | `Dists = {"each"}` | a replacement that has nothing to take over is a KeyError (`each.py:147`; the docstring at line 21 says it simply gets no tests) |
| deadlock | `Dists = {"loadscope"}`, `Dies <- LoadscopeDies`, 3 workers, 1 death | a replacement is dealt one scope; if that is one test and the others are shutting down, it waits for a second test for ever (`loadscope.py:354`) |
| `NeverAborts` | in `OneOrTwo`, `Config(1, 1, 2, TRUE)` | the only worker dies between sending its collection and the handling of that event: dealing it the first file is an `OSError` out of the handler (`workermanage.py:386`) |
| `SummaryAccounts` without `Overruled` | `validation` | an exclusion takes tests off `tests_to_run` for good, while `semantic_excluded_tests` lists those of the latest review only (`python39_validation.py:1188`): a test excluded by an earlier review is shown as a hit, and nowhere why it is not missing |
| `NeverDiscards` | `Drivers = {"sklearn"}` | the `finally` of the batch resets a checkout that the assertion just refused to reset (`sklearn_python36_validation.py:999`) |

Some properties are stated up to what the code does not attempt, in their own
text: `UpToDate` until the tool itself dies between the two writes of its
caches, `NamesCurrent` likewise (`split`), `IsolatedUndisturbed` and `NeverAborts` for one worker at a time or until a worker
dies, `BlamesRunning` for deaths inside a test (after a death between two tests
`load.py:232` blames the next one, which then never runs), `Delivers` when
somebody removes torn files and the files a patch created.

## 6. Not modelled, and the plan

Not modelled: extraction of names from bytecode and syntax trees (its results
are constants), statistics and I/O, option parsing, `looponfail`. Inside the
modelled parts:

- selection: EkstaziP's naive mode, `NAMERTS_EXCLUDED_TEST_FILES`, torn JSON
  files, the records that only the name level reads, and the counter of the
  runtime hook that importing threads share (`namerts_runtime_hook.py:48`);
- `NameConstraints`: the class dictionary it starts from, and the decorator
  fallback of the propagation;
- `NamePipeline`: import aliases, critical names, used decorators, and the
  instrumentation with `file_recover`. `NameUpToDate` is about worlds in which
  a deleted element is given up by its users in the same commit or overrode
  another one, and a checksum belongs to one element of a file: the code has no
  answer to the other cases (`namebdp.py:988`, `990`);
- sessions: keyboard interrupts, internal errors, collection reports, `-x` under
  `--dist=isolation`, exceptions in the receiver thread, `mark_test_pending`,
  and a late replacement whose collection differs (`load.py:147` logs it and
  goes on sending it indices: a test is an index in the model);
- validation: making environments and worktrees, the code of the probes,
  sklearn's `trace_instance`, `merge` and `classify_missing`, the reuse of a
  parent's caches (that part is `EvaluationChain`), an install that edits
  tracked files, and a command started while an orphan of a killed `final`
  batch is still at work. Where one checkout serves several patches only one
  command is under way at a time, as the scripts arrange it.

In order of importance, what is left:

1. `NeverStranded` of `IsolatedSession` for sessions in which one of several
   workers dies: `StaffInv` without `CalmInv`.
2. `RunOnce` and `BooksAgree` of `DistSession`, one distribution mode at a time.
3. The instrumentation of monitored functions with `file_recover`, and critical
   names, in `NamePipeline`.
