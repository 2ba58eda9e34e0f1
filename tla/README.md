# Verification of mm_regression

mm_regression is a test harness for the memory management of the Linux kernel.
It runs on the machine whose kernel it tests, so it has to survive panics,
reboots and interruptions in the middle of its own bookkeeping, and it judges a
testcase from what a shell script, a C program and the kernel said to each
other. This directory holds TLA+ models of that core, the TLC runs that check
them on small instances, and proofs checked by TLAPS. Line numbers below refer
to files under `src/`.

## 1. Inventory

| Part | Source | State it keeps | Operations | Interacts with |
|---|---|---|---|---|
| project driver | `run.sh` | `work/$proj/config`, `recipelist`; per round `__finished`, `recipelist` | `project run [--again]`, `check_finished`, `clean`, `show` | calls `run-test.sh` once per round, reads results through `test_summary.rb` |
| round runner | `test_core/run-test.sh` | `__current_testcase`, `__finished_testcase`, `__finished`; per recipe `run_status`, `reboot_count`, `result` | `generate_recipelist`, `run_recipes`, `run_recipe`, `stop_test_running` (trap) | the trial loops; the user who starts it again |
| trial loops | `test_core/setup_test_core.sh` 497-611 | `_failure`, `_success`, `_testcount` per testcase | `do_soft_try`, `do_hard_try`, `__do_test_try`, `do_test_try` | a trial runs in a subshell, its checks write the counter files |
| pipe session | `setup_test_core.sh` 408-471, `test_core/lib/include.h` 223-310 | the fifo, `_return_code_seq`; in the program `pprintf_wait_flag`, `flag`, the handler of SIGUSR1 | `__do_test`, `pprintf`, `pprintf_wait` | the controllers, by signal |
| controllers | `lib/setup_mce_test.sh`, `lib/setup_page_migration.sh`, ... | none | one `case` arm per line of the program | answer with SIGUSR1, `set_return_code` |
| counters and checks | `test_core/setup_generic.sh` | counter files | `count_success`, `count_failure`, `add_counts`, `reset_per_testcase_counters` | trial loops |
| recipe selection | `test_core/lib/recipe.rb`, `check_test_flag` | none | filter, sort, split of `.set2`/`.set3` | round runner |
| summary | `test_core/lib/test_summary.rb` | none | `testcase_result`, FAIL list | reads the files of a round; feeds the next round |
| process clean-up | `test_core/lib/common.sh` 64-88 | none | `kill_all_subprograms`, `check_process_status` | pipe session, trap of the runner |
| health check | `common.sh` 90-112 | none | `system_health_check` | reboots the machine |
| generic test program | `lib/test_alloc_generic.c`, `lib/include.h` | `chunkset`, the mappings, its place in the list of operations; the same again in each forked child | `do_operation_loop` with some forty operations | pipe session, kernel, its own children |
| page flags | `lib/pfn.h` | the filters | `parse_bits_mask`, `bit_mask_ok`, `do_u64_read`, `check_kpflags` | hot-remove of the generic test program |
| 1 GB hugetlb programs | `lib/hugetlb_1gb.c`, `lib/hugetlb_fork_rw.c` with the `_control` of their recipes | `ghp`, `flag`, the operations of the command line; a forked child; the fifo | eight operations, `pprintf`, the handlers of SIGBUS and SIGUSR1 | an asynchronous controller, which opens and closes the fifo for every line |
| io_uring tests | `lib/test-io_uring.c` | submission and completion ring of one test, its buffers, an eventfd | six tests one after the other | worker threads of the kernel |
| testcases | `cases/` | none | recipes | data of all the above |

Hard behaviours, each listed with its line under `hazards` of `PROJECT.json`:

- *Crashes between writes.* A testcase is meant to panic the kernel at times.
  Progress is a handful of small files and three calls of `sync`; whatever was
  written since the last one may survive or not, file by file.
- *Asynchronous writers.* The verdict reaches the result file through a
  `tee` nobody waits for.
- *Two orders of the same list.* A round resumes by line number in `recipelist`
  and executes in the order of `recipe.rb`.
- *Directories that refuse.* A `config` that returns non-zero (the default in
  `cases/pmem`) skips its whole directory, and the round is finished all the same.
- *Shared counters and statuses.* Trials are told apart by the growth of one
  file, and nested loops communicate by statuses that a killed subshell can set
  to anything.
- *A process looked at before its output.* `__do_test` tests `kill -0` before it
  reads the fifo, so what a program wrote right before it ended is not read; the
  verdict must not depend on that.
- *A handshake over a fifo and a signal.* The answer may come before the program
  waits, the program may die at any point, and three time limits race with it.
- *Children that run the rest of the list.* A forked child returns into the
  operation loop of its parent's list, with its own memory and no controller.
- *Chunks that end early.* Memory is cut into chunks; the last one of a backend is
  truncated while the loops over it round up to hugepages, and a call in the
  middle of a walk over the chunks may fail.
- *A fifo that nobody keeps open.* In asynchronous mode each `read` opens and
  closes the fifo, so two writers, or one that does not wait, lose lines or die.
- *Requests in any order.* io_uring runs reads, cancels and linked writes in
  parallel, and io_uring_enter may take fewer entries than it was given, which
  the tests do not notice.
- *A snapshot before a kill.* `kill_all_subprograms` kills what `ps` listed, while
  the programs go on forking.
- *Rounds that build on rounds.* `run.sh` starts from files that an earlier
  run, possibly interrupted, possibly with other options, has left.

## 2. Modules

| Module | Models | Role |
|---|---|---|
| `RetryContract` | `README.md` 184-185 (SOFT_RETRY, HARD_RETRY) | abstract specification of one call of `do_soft_try` |
| `RetryLoop` | `setup_test_core.sh` 497-611, counters of `setup_generic.sh` | actions of the trial loops, for one recipe at a time |
| `RetryCall` | the ordinary call at `run-test.sh` 174-176 | closes `RetryLoop` and maps it to `RetryContract` |
| `TestRunner` | `run-test.sh` | composes `RetryLoop` with the recipe loop, the files, their durable copies, interruptions, panics, restarts |
| `PipeSession` | `__do_test`, `pprintf_wait`, controllers | shell, program and signal as concurrent processes |
| `ProjectRounds` | `run.sh` `run_test`, `check_project_finished` | rounds, resume, `--again` |
| `ChunkSet` | chunk layout of `lib/include.h`, the pages an operation addresses | pure operators |
| `AllocEngine` | `test_alloc_generic`: `do_operation_loop` and its operations | processes that run a list of operations on their mappings, on top of `ChunkSet` |
| `PageFlags` | filters and flag words of `lib/pfn.h` | pure operators, used by `AllocEngine` |
| `HugetlbProgs` | `hugetlb_1gb`, `hugetlb_fork_rw`, the controllers of their recipes, the kill at the end of `__do_test_async` | two processes, a controller and the fifo between them |
| `UringTests` | `test-io_uring` | the program and the workers of the kernel |
| `RetryProofs`, `RunnerProofs`, `PipeProofs`, `RoundProofs`, `EngineProofs`, `MemoryProofs`, `HugetlbProofs`, `UringProofs` | | theorems and proofs |
| `MC*` | | sets and functions that instantiate the constants |

### Trial loops: `RetryLoop`, `RetryCall`, `RetryContract`

`lpc` is the control point, `softTry` and `hardTry` are the loop variables,
`before` is `failure_before`, `ret` the status handed up, `failure` the file
`_failure` (`NoFile` if missing or empty). `Grew` is the `test -gt` of line 511,
including that a missing operand makes `test` fail and so counts as a passed
trial. `TrialDies` is a subshell killed by a signal: `wait` returns
128+n, which neither `case` knows. `fails`, `streak`, `attempts` and `prep` are
history variables with what really happened; the code never reads them, the
contract is stated over them. The contract says when another trial may run and
which verdict may be announced; `outcome` is the `TESTCASE_RESULT` line.

### Round runner: `TestRunner`

`pc` walks through `run_recipe` one file operation at a time, because a panic
may fall between any two: `reset`, `current`, `running`, `syncstart`,
`counters`, `try`, `trials`, `end`, `rmcurrent`, `resume`, `syncend`. Every
progress file exists as the running system sees it (`status`, `result`,
`reboot`, `failure`, `current`, `resume`, `finished`) and as it is on disk
(`disk`). `sync` makes them equal; `GoDown(kept)` takes the cached version of
the files in `kept` and the durable version of all others, for every subset of
the dirty files. `Interrupt` is the trap (`stop_test_running`), which kills
`tee` with all other subprocesses. `HealthReboot` is the sysrq reboot of
`system_health_check`: with a sync for a watchdog, without one for a frozen
systemd, hence any subset as well. The options of an
invocation are drawn from `OptionSets`; `TEST_RUN_MODE` is the environment variable that
makes a start a restart after a reboot. Only the unit of `setup_systemd_service` sets it
(`setup_test_core.sh` 636), and that unit runs `run.sh` without a command (629), which
prints the help text and ends (`run.sh` 470-474); as the code is, somebody has to start
`run.sh project run` with the variable set. `Enter` with AGAIN drops what a tee of an earlier run still holds: that tee
has the removed file open. `boots`, `clean`, `passed`, `ended`, `refused` and `synced` are
history variables.

`run_recipes` calls itself in a subshell for the recipes in a row that share a
directory. `dirs` is the path of the calls under way, `Path` the directories of each
recipe, `Configs` those with a `config`, and `Linerecipe(d)` what the next call is
given. `EnterDirectory` sources the config, `SkipDirectory` is the config that fails or
exits (lines 200-204) and takes exactly `Linerecipe` out of the queue, `LeaveDirectory`
the end of the subshell. `SetRoundFinished` does not ask whether anything was skipped.

The order in which `recipe.rb` sorts is the constant `Rank`, the recipes that
its filters let through the constant `Selected`. Recipes that return early
(file missing, already run, refused suffix, `exit` while being sourced, skipped
by `recipe_load_check`) are separate actions.

### Pipe session: `PipeSession`

A program is a sequence of checkpoints, each with the way it synchronises
(`wait`: `pprintf_wait`; `loop`: `signal()` and `while (flag)`; `pause`:
`pprintf` and `pause()`; `say`: `pprintf` only), the arm of the controller its
line meets, and whether the operation after it kills the program. The
program's steps are those of `pprintf_wait` in their order: raise the flag,
`sigaction`, write, `usleep(10000)`, spin, restore. `sa_flags` is never
initialised (`include.h` 263-264), so `oneshot` is chosen freely: the handler may
be reset to the default by its first signal. The shell's steps are `kill -0`,
`read -t`, the time-out, the arm, `sleep 1`, the kill and the comparison of the
return codes. `Deliver` is the kernel. A session is calm or rough (`env`): in the rough
a time limit may pass while the program works, and the program may be killed at any
moment; in calm a limit passes only when the program is stuck or gone.

`EXPECTED_RETURN_CODE` is what an author writes in a recipe who takes the
checkpoints one after the other; `VerdictIsDetermined` says that the concurrent
session yields that sequence.

### Rounds: `ProjectRounds`

`list`, `listed`, `finished`, `done`, `behind` (the resume point), `result` are the files
of each round; a step of `run_test` handles one round up to the call of `run-test.sh`. What happens
inside a round is reduced to its effect on these files, in an order that does not matter
here: a recipe runs and gets a verdict (`RunRecipe`), is skipped as it is loaded
(`SkipRecipe`), or is left early (`LeaveRecipe`: file missing, a SKIP option, suffix,
health, an exit while being sourced, a directory whose config fails). `EndRound` touches
`__finished` whatever became of them. `TestRunner` looks inside. `fresh` and `left` are
history variables: what was run or skipped, and what was left early, since the last
`--again`; `Dealt` is both. The round is run by root: for another user `run-test.sh`
ends before it touches `__finished` (lines 319-322). `Mixed` says whether one project may see both
interruptions and `--again`; where it may, `RoundsAgainCut` shows what goes wrong.

### Generic test program: `ChunkSet`, `AllocEngine`

`ChunkSet` is address arithmetic, in base pages above `ADDR_INPUT`: how `nr_p` pages
per backend become chunks (`NrChunk`, `SizeOfChunk`, `BaseAddr`) and which pages
a call addresses (`HeadWindows`, `MunmapPartial`, `SplitWindows`, `MadviseSteps`). A
chunk owns a *stride* of CHUNKSIZE pages, which a truncated chunk does not fill.

In `AllocEngine` a process has its index in the list and a phase (`fetch`, `run`,
one of the waits, `child`, `stress`, `waitpid`, ended), the addresses in `chunkset`
(`p`) and its mappings (`mem`: address to the page of the chunk set that is there).
Each operation of `do_operation_loop` is an action or a member of the family an
action handles. `Becomes` prints a line when a process enters a wait, `Answer` is
the SIGUSR1 that ends it; the handshake in between is `PipeSession`'s.
`Child` is a copy of its parent with `testpipe` cleared and `wait_after` set. The chunk
functions `__munmap_chunk`, `__mbind_chunk` and others have no return statement, so
`do_work_memory` sees any value: `Reached` lets the walk over each backend end after
any chunk. do_mremap and memblock_check go one chunk and one block per step
(`k` of a process, and its `scan`: the buffer as the last read left it, the count and the
block preferred so far); a call of mremap may fail for any chunk, which ends the walk over
that backend. An
access to a poisoned page may be survived (the kernel could drop the page) or not.
`touched` and `spoke` are history variables. A controller of a racing
recipe does not wait for the program: `Snapshot` is the `ps` of `kill_all_subprograms`,
taken at any moment, and `Kill(q)` one `kill -9` of its list, with forks in between;
`RacersAreCleaned` says that what a fork makes behind the snapshot does not stay. Which
memory block is the fullest is decided by `PageFlags`: the filters of
`get_backend_pageflags` parsed and matched, over flag words read in pieces, the last
of which may be short.

### 1 GB hugetlb programs: `HugetlbProgs`

`main` takes one argument of the command line at a time (`NextArg`) and turns it into a
list of steps (`parse_operation_args`, the operation, the waits before and after);
`proc[q]` holds what is left of that list,
how the process ended and what is mapped at the two addresses the recipes use. A
signal handler pushes its own steps in front (SIGUSR1) or replaces the list (SIGBUS).
A `pprintf` is an `open` that waits for a reader, a `write` that dies without one, and
a nap of 10 ms. `ctl` is `_control`: the arms of the `case` are lists of commands
(`Arm`), and `rdr` says whether it has the fifo open at the moment. `Keep` is the rule
of the fifo: lines are lost when the last file descriptor is closed; every step of a
process goes through it (`Settle`), since any of them may close one. Where mmap of a file
fails, `hugetlb_fork_rw` goes on with the bad pointer and dies of SIGSEGV (`Allocate`).
SIGBUS meets the handler of `setup_signal_handler` in `hugetlb_1gb` only (`Sigbus`). Recipes are
records in `MCHugetlbProgs`, one per shape of recipe in `cases/`; `recipe.stdout` are
the ones that redirect the program into the fifo and so keep it open. `kernel` is the
set of faults of the kernel under test (it does not copy hwpoison entries, does not
send SIGBUS, ...) and `recipe.tested` those that the recipe is there to find.
`slow` says whether sleeps and time limits may be too short.

### io_uring tests: `UringTests`

`test` and `pc` are the place in `main`. `sqes`, `head` and `tail` are the submission
ring; `Prepare` is the loop over `prep_sqe` that fills it and `Take` the kernel
taking one entry. `reqs` are the requests of the present test, `cq` the completions
not reaped. `Begin`, `Complete`, `TimeoutEnds` and `Drop` are the workers of the
kernel, which are external: they do what the program relies on (links, drain, counting
timeouts, cancel). `SetupFails`, `CloseFails`, `EnterShort`, `CmpFails` and `FinishFails` are
system calls that fail or do less than asked; the fail labels then free what was never
assigned, or is free already, which ends the program or not (`Crashes`). Nobody looks at
eventfd() and io_uring_register(): `evfd` is what they left, a failed descriptor
(`ReadFails`: the test passes at once) or one that is never signalled. `close_ring` has no
return statement for success; that its value is taken for a failure is the same
`CloseFails` and `FinishFails`. A signal of the eventfd may stand for several completions
(`Signals`). The tests free their buffers without waiting: `stray` says that reads were
still running then, after which the program may die (`StrayCrash`) or test_io_link find its
characters changed. `late` says whether the 1 ms timeout and the sleeps may be too
short. `overrun`, `broken`, `starved` and `stray` are history variables.

## 3. Runs

| Run | Instance | What it shows |
|---|---|---|
| `RetryContract` | SOFT_RETRY = HARD_RETRY = 3, up to 2 failed checks per trial | refinement of the contract, agreement of loop variables with the trials, termination |
| `RetryStreak` | 3 / 2, trials may be killed | *violation*: PASS with a hole in the streak |
| `RunnerInterrupt` | 2 recipes in nested directories, the inner one with a config that may fail, 1 interruption, trials may be killed, 3 starts with AGAIN, SKIP_* in any order | nothing dropped outside a refused directory, no unearned PASS, the last trial decides also where trials are killed |
| `RunnerPanic` | 2 recipes with MAX_REBOOT 1 and 0 in nested directories, each with a config that may fail, 1 panic or forced reboot anywhere with every loss, 2 starts without AGAIN | synced completions and the resume point survive, nothing is dropped, the round ends |
| `RunnerRebootLost` | 2 panics within the trials, starts with TEST_RUN_MODE set | *violation*: a testcase with MAX_REBOOT 1 is started three times |
| `PipeAll` | all programs of up to 3 checkpoints, all arms, in calm; programs of the repository, slow and killed anywhere; two initial handlers | handshake, no death by SIGUSR1, schedule-independent verdict, every session ends |
| `RoundsResume` | 2 recipes, 3 rounds, 2 interruptions, 3 starts, `--again` unless there was an interruption | retries are exactly the failures, a project that `check_finished` calls finished has dealt with every recipe since it was started over, the project ends |
| `RoundsAgainCut` | 2 rounds, 1 interruption, `--again` at any start | *violation*: DONE with results of the discarded run |
| `EngineRecipes` | the operation lists of `cases/`: CHUNKSIZE 4, hugepages of 2, 3 to 9 pages, 1 or 2 backends, 2 children | no page lost or mapped twice, no unmapped access, only the first process speaks, windows stay in their chunk, the fullest memory block of the scan by the flags its filter names (last zone populated or empty), the program ends, nothing survives the clean-up of a race |
| `Hugetlb` | the 1 GB recipes and `hugetlb_fork_rw`: 29 recipes, a good kernel and 8 kernels with one fault, quick and slow | no recipe passes on a kernel with its fault, even when lines are lost; on a good one all recipes with one writer pass; every recipe ends |
| `Uring` | rings of 4 and 2 entries, 3 reads, 2 instances, one test with failing calls | no entry overwritten, order of linked writes, truth of the counted cancels, no free under a running read, `main` ends |
| `EngineTail` | injection with `error_offset=1` | *violation*: the error is injected into the first page |

**Bounds.** Two recipes are the least number for which an order, a resume point between
them and a panic in the second after the first was synced exist; recipes
interact only through `current`, `resume`, `finished` and the queue, which two of
them exercise in every combination. In the nested directories the first recipe lies
below the directory of the second, so a skip of the inner one must spare it and a skip of the
outer one takes both. Starts exceed interruptions and panics by one,
so that the last run can complete. Three checkpoints let an answer of one
checkpoint meet the wait of the next and a `say` lie between them; the fourth and
fifth appear in the programs of the repository. Three soft and three hard retries
give an attempt that is neither the first nor the last. Three rounds let a round
start from failures that are not those of round 1. Chunks of two hugepages with 3,
4, 6 and 9 pages give one truncated chunk, one full chunk, a full one followed by a
truncated one that ends at a hugepage, and three chunks whose last ends inside a
hugepage; two children let one be alive while the next is forked. A ring of 4 entries
is the least in which half a ring is more than one request, so that two cancels
meet two reads; 3 reads in a ring of 2 wrap around; 2 instances are the least for which one is free already when the other cannot be closed. `FAILURES` bounds the tests in
which system calls fail, one at a time, as the tests share nothing. A kernel has one
fault at a time, since a recipe looks for one. Program lists are
those of the recipes, as the engine promises nothing for arbitrary ones (an
access before mmap, say). Counters are bounded only by
`MaxFails`, `MaxInterrupts`, `MaxPanics`, `MaxStarts`, `FAILURES`, each a guard. No symmetry
is used: `Rank` tells recipes apart, and the other instances are small.

**Deadlock** is not checked: a call returns, a session ends and a user need not
start a finished project again. The liveness properties take its place.

**Fairness.** The shell goes on (weak fairness of the runner, of `run.sh` and of
the loops): it blocks only in `read -t`, `sleep` and `wait`, which end. A trial
ends because `__do_test` has time limits, which `PipeSession` shows
(`SessionEnds`). `tee` copies what it gets. The program runs while it is alive,
and a pending signal is delivered. In `AllocEngine` a process that can go on does, and
the controller answers the process the recipe started, never a child: `MainEnds`
and `RacersAreCleaned` do not rely on anybody signalling children. `StartRun` is fair because the user starts an unfinished round or project
again; the boot service does not (section 2, and with `ROUND` set `run_test` runs
nothing). `RoundCompletes` and `ProjectCompletes` say that doing so is enough. The kills of a snapshot are fair, as the shell goes through its
list. In `HugetlbProgs` each process and the controller go on whenever they can, and a
controller can at least time out. In `UringTests` the program and the kernel are fair: as long as a request can
begin or end, one does, and a read of `/dev/urandom` completes. Failures,
interruptions, panics and deaths are never fair.

## 4. Proofs

All theorems hold for every value of the constants that the named assumptions
(`RetryAssumption`, `RecipeAssumption`, `RunnerAssumption`, `SessionAssumption`,
`RoundsAssumption`, `ChunkAssumption`, `EngineAssumption`, `BlocksAssumption`,
`RecipesAssumption`, `UringAssumption`) allow;
TLC evaluates these in the runs. A theorem that needs more says so in its ASSUME, and
the list below says what goes wrong without it. Every inductive invariant was
also model-checked on the instances of the runs (quantifiers over all integers bounded).

- `RetryProofs`. `RetryInvariant`: types, `CountersMatchTrial` and
  `LoopAgreesWithTrials` form an inductive invariant (`RetryInv`) when no trial is killed. The
  counter part is needed because the status of a trial is read off the file, the
  loop part because the contract's guards speak of trials while the code only
  counts iterations. `LoopsImplementContract` maps each step to a step of
  `RetryContract` or a stutter. It is about `RCSpec`, where no trial is
  killed (with `RKSpec` `RetryStreak` refutes it), and assumes `LOGLEVEL >= 1` where
  the verdict is printed.
- `RunnerProofs`. `TypeCorrect`: `TypeOK` is inductive as it stands, action by
  action. `DurableCompletion`: `CompletionIsDurable` is not. Between `Enter` and
  `SetRunning` the recipe under way could be a synced one, whose `run_status`
  would be overwritten; the strengthening `UnderWay` says that the recipe between
  these points is not in `synced`. It holds because `check_testcase_already_run`
  refuses a FINISHED recipe unless AGAIN is given, which discards the completion.
  `ResumeIsSound` and `NothingDropped` share one argument. The recipes still to run come
  after the resume point, in order (`Ahead`), and everything else on the list is dealt
  with (`Progress`); `ResumeInv` reads "dealt with" as ended, left early or in a refused
  directory, and says the same of the resume point on disk; `DropInv` reads it as FINISHED,
  SKIPPED, left early or refused as long as there was no panic. `WalkDeals` is about the
  directories: a skip takes the recipes of that directory and no others. `SortedList` is
  needed because generate_recipelist cuts the list by lines and run_recipes orders what is
  left by rank. Both theorems admit any number of panics when AGAIN is not given, and AGAIN
  when there are no panics. Together they do not hold: AGAIN removes the resume point
  without a sync and a panic brings the old one back. After a panic `NoRecipeDropped` asks
  for recipes that ended, not for their marks: a panic may keep a resume point and
  lose the FINISHED before it.
  `LastTrialAlwaysDecides` rests on `TrialInv`: the loops run with a counter file
  (`Counting`), the trial under way has counted its failed checks in it (`Counted`), and
  the status fits the trial (`Judging`). A start with TEST_RUN_MODE may skip
  reset_per_testcase_counters, and at `LOGLEVEL` 0 no verdict is printed.
  `PassesAreEarned` adds `Streak`, how many trials of the attempt passed in a row at each
  point of the loops, and `Lines`, which says the same of every PASS that is in a result
  file, on disk or with a late tee. Killed trials are excluded where HARD_RETRY is above
  one, since the next trial covers them up (`RetryStreak`).
- `PipeProofs`. `HandshakeInv` has three parts, guarded by `WellSynced` (at most
  one flag loop, and nobody answers a `say`). `LinesInv`: a line is written once,
  by a checkpoint that was reached, and is in the fifo, at the controller or
  answered, never two of these. `AnswersInv`: all checkpoints left behind where
  the program waits are answered. Together they give `AnswerIsDue`: an answer
  belongs to the present checkpoint. `FlagsInv`: what the wait flag, the handler
  and the pending signal are at the present checkpoint. `GoIsNeverLost` and
  `GoIsNeverEarly` follow. No assumption is made on speed, on deaths or on
  `sa_flags`. `SignalsDoNotKill` follows from the same invariant: a signal is sent only
  for the present checkpoint, where the handler is set and has not been used up yet.
  `TypeCorrect` is inductive as it stands.
- `RoundProofs`. `RoundInvariant`: a recipelist is the failures of the round before
  (`ListInv`), what was dealt with since the last `--again` (`DealtInv`), the rounds below one with
  a list are finished except for the one being redone (`PrefixInv`), what the round
  under way has behind it (`RunInv`), and where a redo and a project without
  interruptions stand (`RedoInv`, `CalmInv`). `RoundsRetryFailures` and
  `FinishedMeansDealtWith` follow. All three assume `Mixed = "no"`: `--again` is not given to
  a project that was interrupted before; `RoundsAgainCut` refutes `DoneIsDone` otherwise.
- `EngineProofs`, first the arithmetic of the chunks. `ChunksTile`: for every number of pages and backends each page is in
  exactly one chunk; the argument is uniqueness of quotient and remainder
  (`QuotientUnique`), once for the chunk index within a backend and once for the
  backend. `WindowsStayInStride`: a window of at most a hugepage per hugepage
  stays in the stride, because CHUNKSIZE is a multiple of the hugepage
  (`ChunkAssumption`) and so the last hugepage that holds a page of the chunk ends
  within it. `AdviceStaysInChunk`: the cut in the loop of `__do_madvise_chunk` is right
  for all offsets, lengths and steps. `PagesConserved` and
  `TouchedIsOwn` rest on these.
  Then the engine. `EngineInvariant` says of each process, whatever it inherited and
  whoever forked it: which operation it can be at in each phase (`AtOp`), that its
  memory is where do_mmap put it once an operation of the list has mapped it, and whole
  until one gave it away (`Memory`), who still has `testpipe`, and that `wait_after` is
  clear when an operation starts (`AtStart`). `Finished` is the same at the end of an
  operation, so that the lemmas about the operations compose with those about the
  waits. The three theorems each take one property of the operation lists as hypothesis, which
  TLC evaluates on all lists of the recipes (`RecipesAsExpected`):
  `UsedWhileMapped` for `NoUnmappedAccess`; `StressIsLast` for `ChildrenAreSilent`, since
  fork_stress does not clear `testpipe` in its children and an operation after it would
  let them write to the fifo; `WorkIsMapped` for
  `ChunkWorkStaysHome`, which applies the theorems on chunks to the chunks as the
  program has them.
  The last part of the module is about the page flags. `MaskMeansItsText`, `ListMeansAny` and `TildeMeansNot` say what a filter
  text selects, for all names and flag words, with the conditions under which it is what
  the text says. `OverloadedNeverPasses`: a filter on `file`, as the pagecache
  backends use, lets no page through, because `/proc/kpageflags` has no such bit.
  `ChecksTheBit`: the detour through an int with a sign is harmless up to bit 30.
- `MemoryProofs`, what a process has mapped and what it reads of the blocks. `StepTraced`:
  a step leaves every process in one of eight relations to what it was (`Keeps`,
  `Maps`, `Allocates`, `Unmaps`, `MovesTo`, `StartsScan`, `Scans`, or a copy of another one),
  so that the invariants are shown for the relations and not for each action.
  `DataInv` holds of them the shapes of `p`, `mem` and `scan`, and with `UsedWhileMapped`
  gives `EngineTypes`.
  `PagesConserved` is not inductive, because within do_mremap some chunks have moved and
  others have not. `PageInv`: at an address is its own page or the one `Away` below, every
  page of the chunk set is at one of the two and not at both, and before the first move
  nothing is away. `PagesAreConserved` needs `MovesAreSafe`: with two backends the move of
  the first goes over the chunks of the second, pages of allocate_more lie where
  chunks are moved, and a mapping made after a move maps a page twice.
  `ScanInv`: the buffer holds a block that was read before, and the preferred block is the
  one with the most pages among those behind. `FullestBlock` needs `PlainFilters` and
  `WholeBlocks`: a short read leaves the rest of another block in the buffer and in the
  count, of a name that stands for several bits only the first is counted,
  and a head page counts as a whole hugepage, also where it heads a smaller one. The theorem
  is about the blocks of the scan (`InScan`), for any zones; that there may be fuller ones
  behind its end is said in section 5. TLC
  evaluates these hypotheses too on the lists and the machines of the instance
  (`RecipesAsExpected`).
- `HugetlbProofs`. `HugetlbTypes` and `LoneWriter`, for every recipe that satisfies
  `RecipesAssumption`: its operations are ones `main` knows, and `hugetlb_fork_rw` is not
  given a fifo, which it has no option for. The controller opens the fifo for one line at
  a time, so it is not obvious that a line always has a reader. `LoneWriterIsHeard` is not
  inductive, since it says nothing of the steps a process has left; `IInv` does. `Listed` and
  `Talks` are the shape of that list: a write comes right after its open and is followed by
  a nap, and what a failed allocation of do_iterate_mapping skips is no half of a `pprintf`.
  `LoneInv` then says that the process gets to its write only with a reader there and an empty
  fifo, and naps while its line is in the fifo, which the controller takes before the nap is
  over. `RwInv`: hugetlb_fork_rw never touches the fifo. `SigInv`, shown on top of `IInv`: only
  hugetlb_fork_rw dies of SIGBUS. Most actions do not touch it either;
  `Moves` says what they have in common, and `MovesKeep` that this keeps `IInv`, so that only
  open, write, fork, the signals of the controller and its reads are left one by one. That
  sleeps are long enough and that the list has no fork are hypotheses of the property itself; the
  recipes of `Hugetlb` with two writers do lose lines.
- `UringProofs`. `RingNeverOverrun` for all sizes and failures. `prep_sqe` never looks at the
  head, so `SqNeverOverrun` is not inductive; `RingInv` adds where each test stands
  when it prepares (`Progress`): `test_cancel_sqe` has filled half a ring per step, the
  link and eventfd tests prepare once, and `test_ring_overflow`, which prepares more
  entries than its ring has, does so only after the one before was taken, because an
  io_uring_enter that takes nothing ends that test.
  With it `Data` (types, `TypeCorrect`) and `Queue` are inductive: the n-th request is the n-th
  entry the test prepared (`Entry`), because nothing was overwritten. Each test then has
  its own part. `Cancels`: a cancel's result and the fate of the read it was for, which gives
  `ComplaintsAreOfNul`. `Sums`: no completion is in the ring twice, and what the reaped
  cancels told is what was counted; when all are reaped the cancelled reads correspond one
  to one to the cancels that say so, which gives `CountersAreTrue`. `Counted`: what the eventfd
  holds and test_eventfd has read is never more than the requests that are over, so when
  the count is reached all reads are, whatever was signalled together, cut short or not
  registered; this gives `BuffersOutliveReads`, which exempts a failed eventfd() alone. `Links`: the file is a prefix of the nine characters and fits the
  requests that are over (`Order`), and while nothing is late or cut short all ten requests
  are taken and the timeout sees its three completions (`Calm`, `NoTimeout`), which gives
  `WritesAreInOrder`. `Reads` says that no other test writes.

**Only model-checked.** Liveness (`CallReturns`, `RoundCompletes`, `SessionEnds`,
`ProjectCompletes`, `MainEnds`, `RacersAreCleaned`, `RecipeEnds`), since fairness and ENABLED are out of the prover's reach.
`VerdictIsDetermined`, whose reference is a recursive function over the
program.  `NoFalsePass` and `GoodKernelPasses`
of `HugetlbProgs`, which depend on the particular recipes: the codes a recipe expects are
matched with what its arms report.

## 5. Findings

1. A killed trial inside an attempt is stepped over (`setup_test_core.sh` 556):
   PASS with fewer than HARD_RETRY passes in a row.
2. An interrupted `--again` leaves results of the run before, and
   `check_finished` reports them as DONE (`run.sh` 110).
3. `do_memory_error_injection` drops the number it reads from `error_offset`
   (`lib/include.h` 866), so the tail-page testcases of `cases/mm/hwpoison/base.set3`
   with `madv_hard` and `madv_soft` inject into the head page.
4. `reboot_count` is not synced after its increment (`run-test.sh` 152): a panic may take
   it back, and the testcase is started more often than MAX_REBOOT says (`README.md` 317).

Met while modelling, and not a run of its own:

- Resuming by line number (`run-test.sh` 300) against the order of `recipe.rb` (line 213)
  drops recipes of a `recipelist` that was edited out of that order; `NoRecipeDropped` is
  checked for the lists `run.sh` writes.
- The counters are reset last (`run-test.sh` 174), after `__current_testcase` is written
  and synced. A stop in between, or a panic that loses the counter files, leaves none; a
  start with TEST_RUN_MODE set takes the reboot path, which does not reset them, `test -gt`
  fails on an empty operand, and the testcase passes whatever its checks say. The unit that
  sets the variable starts nothing as it is written today, so it takes somebody who does,
  and `PassIsEarned` is checked for starts without it. TLC shows the trace when
  `OptionSets <- Background` and `MAX_REBOOT <- FirstReboots` are put into
  `RunnerInterrupt.cfg`: the testcase has to allow a reboot.
- `get_max_memblock` (`lib/include.h` 742) adds the `spanned` of the last zone to the
  `start_pfn` of the last populated one. When the last zone is empty the scan of
  `memblock_check` ends where the last populated zone begins, and a fuller block may lie
  behind. `PicksFullestBlock` speaks of the blocks of the scan.

## 6. Not modelled

- The rest of `lib/*.sh` and of `cases/`: scripts that set and read kernel files. They
  keep no state but the kernel's. Among them the checks of kernel messages and of counters
  such as `nr_hwcorrupted` (one bit in `HugetlbProgs`).
- Stand-alone test programs that are a straight line of system calls, `lib/pmem` (built
  with PMEMDEV only) and `misc/fio`.
- `lib/hugepage.h`, and of `lib/pfn.h` the expansion of overloaded flags, `get_pfn`,
  `get_pcount` and the injection helpers: nothing calls them.
- Of the generic test program: devmem, SysV segments and backing files, page contents,
  memory policy, and the endless loop of syswrite in reverse order
  (`lib/include.h` 410, an unsigned counter), which no recipe asks for. No recipe asks for
  a hotremove of `file` pages either; such a filter matches nothing, and the program ends.
- Of the hugetlb programs: sysread and syswrite of `do_access` (`hugetlb_1gb.c` 316-333)
  and the branches of `hugetlb_fork_rw` that no recipe uses (`nofork`,
  `sysread`, `mmap_again` on a SysV segment), the recipes `reserve_counting` and
  `deferred_dissolve`, which run other programs.
- Of `test-io_uring`: what exactly a read that outlived its buffer destroys; it may end
  the program or fail test_io_link, and does nothing else.
- The output side: summaries, tables, `project list/show/clean`, logging.
- Expansion and selection of recipes (ERB of `.set2`/`.set3`, the filters of
  `recipe.rb`): text without state; the outcome is a constant of `TestRunner`.
- The guest mode (`run_guest.sh`, `sshvm`, virtualisation settings), systemd, and
  `run_full.sh`, which runs one project after the other.
- `lib/ras-tools`: third party, about two fifths of the C code of the repository.
- Inside modelled parts: what a `config` does beside succeeding or failing; `--again` and
  panics in one history (`ResumePointIsSound` and `NoRecipeDropped` fail there); the
  two lists of `kill_all_subprograms`, which come from two calls of `ps`.

## 7. Plan

1. SysV segments and backing files in `AllocEngine` (`alloc_shmem`, `free_shmem`).
2. Set-up and clean-up of `lib/mm.sh`: what is restored when one step fails.
