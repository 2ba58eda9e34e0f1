----------------------------- MODULE TestRunner ------------------------------
(***************************************************************************)
(* One round of a test project as test_core/run-test.sh runs it: the list  *)
(* of recipes that remain, run_recipe for each of them, the files under    *)
(* work/$RUNNAME that remember the progress, and what happens to all this  *)
(* when the user interrupts the run or the kernel under test panics.       *)
(*                                                                         *)
(* Every progress file exists twice: as the running system sees it (the    *)
(* variables below) and as it is on disk (variable disk).  sync makes the  *)
(* two equal; a panic keeps, file by file, either version.                 *)
(***************************************************************************)
EXTENDS RetryLoop, Sequences, SequencesExt

CONSTANTS
  Recipelist,     \* $GTMPD/recipelist, a sequence of recipes
  Rank,           \* place of each recipe in the order of recipe.rb, which
                  \* sorts by priority and id
  Selected,       \* recipes that RUN_MODE, PRIORITY and FILTER let through
  Dirs,           \* directories under cases/
  Path,           \* the directories each recipe is in, from the outside in
  Configs,        \* directories with a file config
  MAX_REBOOT,     \* recipe variable: reboots that a testcase expects
  OptionSets,     \* sets of options a user may start the round with
  PanicPoints,    \* control points at which the kernel may panic
  NoRecipe,       \* content of a file that names no recipe
  MaxInterrupts,  \* bound: interruptions by the user
  MaxPanics,      \* bound: panics and forced reboots
  MaxStarts       \* bound: invocations of run-test.sh

Options == {"AGAIN", "SKIP_PASS", "SKIP_FAIL", "SKIP_WARN", "TEST_RUN_MODE", "REBOOTABLE"}

\* Control points of run-test.sh.
Points == {"off", "next", "recipe", "health", "load", "rebooted", "reset", "current",
           "running", "syncstart", "counters", "try", "trials", "end",
           "rmcurrent", "resume", "syncend", "syncround"}

ASSUME RunnerAssumption ==
  /\ Recipelist \in Seq(Recipes)
  /\ Rank \in [Recipes -> Nat]
  /\ Selected \subseteq Recipes
  /\ Path \in [Recipes -> Seq(Dirs)] /\ Configs \subseteq Dirs
  /\ MAX_REBOOT \in [Recipes -> Nat]
  /\ OptionSets \subseteq SUBSET Options
  /\ NoRecipe \notin Recipes
  /\ PanicPoints \subseteq Points
  /\ MaxInterrupts \in Nat /\ MaxPanics \in Nat /\ MaxStarts \in Nat

VARIABLES
  \* Files of each recipe, under $RTMPD (failure comes with RetryLoop).
  status,      \* run_status
  result,      \* result: "log" once it exists, and its TESTCASE_RESULT lines
  reboot,      \* reboot_count
  \* Files of the round, under $GTMPD.
  current,     \* __current_testcase
  resume,      \* __finished_testcase
  finished,    \* __finished
  disk,        \* the files as they are on disk
  \* Processes.
  pc,          \* control point of run-test.sh, "off" when it does not run
  opt,         \* options of the present invocation
  queue,       \* recipes still to run
  dirs,        \* directories whose run_recipes is under way
  recipe,      \* the recipe that runs
  pending,     \* line in the pipe to each recipe's "tee -a result"
  \* Bounds.
  interrupts, panics, starts,
  \* History, never read by the code.
  boots,       \* calls of do_soft_try since reboot_count was reset
  clean,       \* recipes with HARD_RETRY passed trials in a row
  passed,      \* recipes run_recipe returned from early since the last AGAIN
  ended,       \* recipes it ran to the end, or skipped, since the last AGAIN
  refused,     \* directories whose config failed since the last AGAIN
  synced       \* recipes whose completion was synced

perrecipe == <<status, result, reboot, failure>>
perround == <<current, resume, finished>>
bounds == <<interrupts, panics, starts>>
history == <<boots, clean, passed, ended, refused, synced>>
process == <<opt, queue, dirs, recipe, pending>>
vars == <<perrecipe, perround, disk, pc, process, bounds, history, loopvars>>

-----------------------------------------------------------------------------
Verdicts == {"PASS", "SKIP", "FAIL"}
Files == [status: [Recipes -> {"none", "RUNNING", "FINISHED", "SKIPPED"}],
          result: [Recipes -> Seq({"log"} \cup Verdicts)],
          reboot: [Recipes -> Counter],
          failure: [Recipes -> Counter],
          current: Recipes \cup {NoRecipe},
          resume: Recipes \cup {NoRecipe},
          finished: {"no", "yes"}]

Cached == [status |-> status, result |-> result, reboot |-> reboot,
           failure |-> failure, current |-> current, resume |-> resume,
           finished |-> finished]

sync == disk' = Cached

\* The files whose cached and durable contents differ, as <<name, recipe>>.
Dirty ==
  {f \in {"status", "result", "reboot", "failure"} \X Recipes :
      Cached[f[1]][f[2]] # disk[f[1]][f[2]]}
  \cup {f \in {"current", "resume", "finished"} \X {NoRecipe} :
      Cached[f[1]] # disk[f[1]]}

\* The system comes up again with the files of kept written back and all other
\* files as they are on disk.
Survive(kept) ==
  LET Of(name, r, new, old) == IF <<name, r>> \in kept THEN new ELSE old IN
  /\ status' = [r \in Recipes |-> Of("status", r, status[r], disk.status[r])]
  /\ result' = [r \in Recipes |-> Of("result", r, result[r], disk.result[r])]
  /\ reboot' = [r \in Recipes |-> Of("reboot", r, reboot[r], disk.reboot[r])]
  /\ failure' = [r \in Recipes |-> Of("failure", r, failure[r], disk.failure[r])]
  /\ current' = Of("current", NoRecipe, current, disk.current)
  /\ resume' = Of("resume", NoRecipe, resume, disk.resume)
  /\ finished' = Of("finished", NoRecipe, finished, disk.finished)
  /\ disk' = Cached'

-----------------------------------------------------------------------------
Init ==
  /\ RetryInit
  /\ status = [r \in Recipes |-> "none"]
  /\ result = [r \in Recipes |-> <<>>]
  /\ reboot = [r \in Recipes |-> NoFile]
  /\ failure = [r \in Recipes |-> NoFile]
  /\ current = NoRecipe
  /\ resume = NoRecipe
  /\ finished = "no"
  /\ disk = Cached
  /\ pc = "off"
  /\ opt = {}
  /\ queue = {}
  /\ dirs = <<>>
  /\ recipe = NoRecipe
  /\ pending = [r \in Recipes |-> "none"]
  /\ interrupts = 0 /\ panics = 0 /\ starts = 0
  /\ boots = [r \in Recipes |-> 0]
  /\ clean = {} /\ passed = {} /\ ended = {} /\ refused = {} /\ synced = {}

-----------------------------------------------------------------------------
\* Mutant of Remaining: starts two lines below the resume point.
RemainingOffByOne ==
  LET after == {i \in DOMAIN Recipelist :
                  \A j \in (i - 1) .. Len(Recipelist) : j >= 1 => Recipelist[j] # resume}
  IN  IF resume \in ToSet(Recipelist) THEN {Recipelist[i] : i \in after}
      ELSE ToSet(Recipelist)

\* generate_recipelist: what remains are the lines after the resume point; a
\* resume point that is no line of the list (grep finds nothing) keeps it all.
Remaining ==
  LET after == {i \in DOMAIN Recipelist : \A j \in i .. Len(Recipelist) : Recipelist[j] # resume}
  IN  IF resume \in ToSet(Recipelist) THEN {Recipelist[i] : i \in after}
      ELSE ToSet(Recipelist)

\* recipe.rb list: filters what remains.
Plan(remaining) == remaining \cap Selected

\* run.sh starts run-test.sh for a round that is not finished; with AGAIN it
\* removes __finished first, and run-test.sh removes the resume point.
Start(o) ==
  /\ pc = "off"
  /\ starts < MaxStarts
  /\ finished = "no" \/ "AGAIN" \in o
  /\ starts' = starts + 1
  /\ opt' = o
  /\ pc' = "next"
  /\ IF "AGAIN" \in o
     THEN /\ finished' = "no"
          /\ resume' = NoRecipe
          /\ queue' = Plan(ToSet(Recipelist))
          /\ passed' = {} /\ ended' = {} /\ refused' = {}
     ELSE /\ queue' = Plan(Remaining)
          /\ UNCHANGED <<finished, resume, passed, ended, refused>>
  /\ UNCHANGED <<perrecipe, current, disk, dirs, recipe, pending, interrupts,
                 panics, boots, clean, synced, loopvars>>

\* run_recipes takes the recipes in the order of recipe.rb, whatever their order
\* in recipelist.
IsFirst(r) == r \in queue /\ \A x \in queue : Rank[r] <= Rank[x]

\* Recipe r is in a directory below those that are under way.
Below(r) == IsStrictPrefix(dirs, Path[r])

\* The first of the directories below.
NextDir(r) == Path[r][Len(dirs) + 1]

In(d, r) == d \in ToSet(Path[r])

\* Mutant of Linerecipe: the rest of the list.
LinerecipeRest(d) == queue

\* The recipes that the next call of run_recipes gets: those in a row that are in d.
Linerecipe(d) ==
  {x \in queue : In(d, x) /\ \A y \in queue : Rank[y] < Rank[x] => In(d, y)}

\* A subshell goes through the recipes of a directory; its config is sourced.
EnterDirectory ==
  /\ pc = "next"
  /\ \E r \in Recipes : IsFirst(r) /\ Below(r) /\ dirs' = Append(dirs, NextDir(r))
  /\ UNCHANGED <<perrecipe, perround, disk, pc, opt, queue, recipe, pending, bounds,
                 history, loopvars>>

\* "skip this directory due to the failure in cases/$basedir/config", or the config
\* exits and the subshell with it.
SkipDirectory ==
  /\ pc = "next"
  /\ \E r \in Recipes :
       /\ IsFirst(r) /\ Below(r) /\ NextDir(r) \in Configs
       /\ queue' = queue \ Linerecipe(NextDir(r))
       /\ refused' = refused \cup {NextDir(r)}
  /\ UNCHANGED <<perrecipe, perround, disk, pc, opt, dirs, recipe, pending, bounds,
                 boots, clean, passed, ended, synced, loopvars>>

\* The recipes of the directory are done: dir_cleanup, and the subshell ends.
LeaveDirectory ==
  /\ pc = "next" /\ dirs # <<>>
  /\ \A r \in Recipes : IsFirst(r) => ~IsPrefix(dirs, Path[r])
  /\ dirs' = Front(dirs)
  /\ UNCHANGED <<perrecipe, perround, disk, pc, opt, queue, recipe, pending, bounds,
                 history, loopvars>>

NextRecipe ==
  /\ pc = "next"
  /\ \E r \in Recipes :
       /\ IsFirst(r) /\ Path[r] = dirs
       /\ recipe' = r
       /\ queue' = queue \ {r}
  /\ pc' = "recipe"
  /\ UNCHANGED <<perrecipe, perround, disk, opt, dirs, pending, bounds, history, loopvars>>

-----------------------------------------------------------------------------
\* The file exists once something was piped to "tee -a".
Created(content) == IF content = <<>> THEN <<"log">> ELSE content

HasVerdict(r, v) == v \in ToSet(result[r])

\* The options first, then the run_status of an earlier run.
check_testcase_already_run(r) ==
  \/ "SKIP_PASS" \in opt /\ HasVerdict(r, "PASS")
  \/ "SKIP_FAIL" \in opt /\ HasVerdict(r, "FAIL")
  \/ "SKIP_WARN" \in opt /\ result[r] # <<>> /\ \A v \in Verdicts : ~HasVerdict(r, v)
  \/ "AGAIN" \notin opt /\ status[r] = "FINISHED"

\* Mutant of Leave: falls through to the next recipe without its checks.
LeaveIntoNext ==
  /\ pc' = "health"
  /\ recipe' = NoRecipe

\* run_recipe is left without running the recipe; run_recipes takes the next.
Leave ==
  /\ pc' = "next"
  /\ recipe' = NoRecipe

\* The recipe file does not exist, or is empty.
NotFound ==
  /\ pc = "recipe"
  /\ Leave
  /\ passed' = passed \cup {recipe}
  /\ UNCHANGED <<perrecipe, perround, disk, opt, queue, dirs, pending, bounds, boots, clean,
                 ended, refused, synced, loopvars>>

AlreadyRun ==
  /\ pc = "recipe"
  /\ check_testcase_already_run(recipe)
  /\ Leave
  /\ passed' = passed \cup {recipe}
  /\ UNCHANGED <<perrecipe, perround, disk, opt, queue, dirs, pending, bounds, boots, clean,
                 ended, refused, synced, loopvars>>

\* The recipe is to run: AGAIN first removes the files of an earlier run (what a
\* tee of that run still has to write goes with them).
Enter ==
  /\ pc = "recipe"
  /\ ~check_testcase_already_run(recipe)
  /\ pc' = "health"
  /\ IF "AGAIN" \in opt
     THEN /\ status' = [status EXCEPT ![recipe] = "none"]
          /\ result' = [result EXCEPT ![recipe] = <<>>]
          /\ reboot' = [reboot EXCEPT ![recipe] = NoFile]
          /\ failure' = [failure EXCEPT ![recipe] = NoFile]
          /\ pending' = [pending EXCEPT ![recipe] = "none"]
          /\ boots' = [boots EXCEPT ![recipe] = 0]
          /\ clean' = clean \ {recipe}
          /\ synced' = synced \ {recipe}
     ELSE UNCHANGED <<perrecipe, pending, boots, clean, synced>>
  /\ UNCHANGED <<perround, disk, opt, queue, dirs, recipe, bounds, passed, ended, refused, loopvars>>

\* check_remove_suffix refuses the recipe.
WrongSuffix ==
  /\ pc = "health"
  /\ Leave
  /\ passed' = passed \cup {recipe}
  /\ UNCHANGED <<perrecipe, perround, disk, opt, queue, dirs, pending, bounds, boots, clean,
                 ended, refused, synced, loopvars>>

Healthy ==
  /\ pc = "health"
  /\ pc' = "load"
  /\ UNCHANGED <<perrecipe, perround, disk, process, bounds, history, loopvars>>

\* Sourcing the recipe ends the subshell ("... || exit 1" in the recipe).
LoadExits ==
  /\ pc = "load"
  /\ Leave
  /\ passed' = passed \cup {recipe}
  /\ UNCHANGED <<perrecipe, perround, disk, opt, queue, dirs, pending, bounds, boots, clean,
                 ended, refused, synced, loopvars>>

\* recipe_load_check: the recipe does not load, or is filtered by TEST_TYPE,
\* SKIP_THIS_TEST or TEST_PRIORITY as it sets them when it is sourced.
LoadSkips ==
  /\ pc = "load"
  /\ Leave
  /\ status' = [status EXCEPT ![recipe] = "SKIPPED"]
  /\ result' = [result EXCEPT ![recipe] = IF LOGLEVEL < 1 THEN Created(@) ELSE Append(Created(@), "SKIP")]
  /\ ended' = ended \cup {recipe}
  /\ UNCHANGED <<reboot, failure, perround, disk, opt, queue, dirs, pending, bounds, boots,
                 clean, passed, refused, synced, loopvars>>

\* The recipe may run; it is a restart after a reboot if __current_testcase
\* still names it.
Load ==
  /\ pc = "load"
  /\ result' = [result EXCEPT ![recipe] = Created(@)]
  /\ pc' = IF "TEST_RUN_MODE" \in opt /\ current = recipe THEN "rebooted" ELSE "reset"
  /\ UNCHANGED <<status, reboot, failure, perround, disk, process, bounds,
                 history, loopvars>>

\* Restart after a reboot: count it, and give up beyond MAX_REBOOT.
AfterReboot ==
  /\ pc = "rebooted"
  /\ IF reboot[recipe] = NoFile
     THEN pc' = "try" /\ UNCHANGED reboot
     ELSE /\ reboot' = [reboot EXCEPT ![recipe] = @ + 1]
          /\ pc' = IF reboot[recipe] + 1 > MAX_REBOOT[recipe] THEN "end" ELSE "try"
  /\ UNCHANGED <<status, result, failure, perround, disk, process, bounds,
                 history, loopvars>>

\* First start: the marks of a running testcase, one file after the other ...
ResetReboot ==
  /\ pc = "reset"
  /\ pc' = "current"
  /\ reboot' = [reboot EXCEPT ![recipe] = 0]
  /\ boots' = [boots EXCEPT ![recipe] = 0]
  /\ UNCHANGED <<status, result, failure, perround, disk, process, bounds,
                 clean, passed, ended, refused, synced, loopvars>>

\* Mutant of SetCurrent: the recipe becomes the resume point when it starts.
SetCurrentAndResume ==
  /\ pc = "current"
  /\ pc' = "running"
  /\ current' = recipe
  /\ resume' = recipe
  /\ UNCHANGED <<perrecipe, finished, disk, process, bounds, history, loopvars>>

SetCurrent ==
  /\ pc = "current"
  /\ pc' = "running"
  /\ current' = recipe
  /\ UNCHANGED <<perrecipe, resume, finished, disk, process, bounds, history, loopvars>>

SetRunning ==
  /\ pc = "running"
  /\ pc' = "syncstart"
  /\ status' = [status EXCEPT ![recipe] = "RUNNING"]
  /\ UNCHANGED <<result, reboot, failure, perround, disk, process, bounds,
                 history, loopvars>>

SyncStart ==
  /\ pc = "syncstart"
  /\ pc' = "counters"
  /\ sync
  /\ UNCHANGED <<perrecipe, perround, process, bounds, history, loopvars>>

\* Mutant of reset_per_testcase_counters: removes the counters.
remove_per_testcase_counters ==
  /\ pc = "counters"
  /\ pc' = "try"
  /\ failure' = [failure EXCEPT ![recipe] = NoFile]
  /\ UNCHANGED <<status, result, reboot, perround, disk, process, bounds,
                 history, loopvars>>

\* ... and, after the sync, its counters.
reset_per_testcase_counters ==
  /\ pc = "counters"
  /\ pc' = "try"
  /\ failure' = [failure EXCEPT ![recipe] = 0]
  /\ UNCHANGED <<status, result, reboot, perround, disk, process, bounds,
                 history, loopvars>>

-----------------------------------------------------------------------------
\* do_soft_try > >(tee -a result)
Try ==
  /\ pc = "try"
  /\ pc' = "trials"
  /\ DoSoftTry
  /\ boots' = [boots EXCEPT ![recipe] = @ + 1]
  /\ UNCHANGED <<status, result, reboot, perround, disk, process, bounds,
                 clean, passed, ended, refused, synced>>

Trials ==
  /\ pc = "trials"
  /\ RetryStep(recipe)
  /\ UNCHANGED <<status, result, reboot, perround, disk, pc, process, bounds, history>>

\* do_soft_try has returned: its verdict is in the pipe to tee, and nobody waits
\* for tee.
Announce ==
  /\ pc = "trials" /\ lpc = "done"
  /\ pc' = "end"
  /\ pending' = [pending EXCEPT ![recipe] = IF outcome = "NONE" THEN @ ELSE outcome]
  /\ clean' = IF streak = HARD_RETRY THEN clean \cup {recipe} ELSE clean
  /\ RetryReset
  /\ UNCHANGED <<perrecipe, perround, disk, opt, queue, dirs, recipe, bounds, boots,
                 passed, ended, refused, synced>>

SetFinished ==
  /\ pc = "end"
  /\ pc' = "rmcurrent"
  /\ status' = [status EXCEPT ![recipe] = "FINISHED"]
  /\ ended' = ended \cup {recipe}
  /\ UNCHANGED <<result, reboot, failure, perround, disk, process, bounds, boots,
                 clean, passed, refused, synced, loopvars>>

RemoveCurrent ==
  /\ pc = "rmcurrent"
  /\ pc' = "resume"
  /\ current' = NoRecipe
  /\ UNCHANGED <<perrecipe, resume, finished, disk, process, bounds, history, loopvars>>

SetResume ==
  /\ pc = "resume"
  /\ pc' = "syncend"
  /\ resume' = recipe
  /\ UNCHANGED <<perrecipe, current, finished, disk, process, bounds, history, loopvars>>

\* Mutant of SyncEnd: the sync is missing.
SyncEndWithoutSync ==
  /\ pc = "syncend"
  /\ Leave
  /\ synced' = synced \cup {recipe}
  /\ UNCHANGED <<perrecipe, perround, disk, opt, queue, dirs, pending, bounds, boots, clean,
                 passed, ended, refused, loopvars>>

SyncEnd ==
  /\ pc = "syncend"
  /\ Leave
  /\ sync
  /\ synced' = synced \cup {recipe}
  /\ UNCHANGED <<perrecipe, perround, opt, queue, dirs, pending, bounds, boots, clean,
                 passed, ended, refused, loopvars>>

\* All recipes are done: touch __finished; sync.
SetRoundFinished ==
  /\ pc = "next" /\ queue = {} /\ dirs = <<>>
  /\ pc' = "syncround"
  /\ finished' = "yes"
  /\ UNCHANGED <<perrecipe, current, resume, disk, process, bounds, history, loopvars>>

SyncRound ==
  /\ pc = "syncround"
  /\ pc' = "off"
  /\ sync
  /\ UNCHANGED <<perrecipe, perround, process, bounds, history, loopvars>>

\* A tee appends what it has read, at any time, even after the run has ended.
Tee(r) ==
  /\ pending[r] # "none"
  /\ result' = [result EXCEPT ![r] = Append(@, pending[r])]
  /\ pending' = [pending EXCEPT ![r] = "none"]
  /\ UNCHANGED <<status, reboot, failure, perround, disk, pc, opt, queue, dirs, recipe,
                 bounds, history, loopvars>>

-----------------------------------------------------------------------------
\* SIGINT or SIGTERM: stop_test_running kills all subprocesses, tee included,
\* and exits; the files stay as they are.
Interrupt ==
  /\ pc # "off"
  /\ interrupts < MaxInterrupts
  /\ interrupts' = interrupts + 1
  /\ pc' = "off"
  /\ opt' = {} /\ queue' = {} /\ dirs' = <<>> /\ recipe' = NoRecipe
  /\ pending' = [r \in Recipes |-> "none"]
  /\ RetryReset
  /\ UNCHANGED <<perrecipe, perround, disk, panics, starts, history>>

\* The machine goes down; writes since the last sync may be lost.
GoDown(kept) ==
  /\ panics < MaxPanics
  /\ panics' = panics + 1
  /\ Survive(kept)
  /\ pc' = "off"
  /\ opt' = {} /\ queue' = {} /\ dirs' = <<>> /\ recipe' = NoRecipe
  /\ pending' = [r \in Recipes |-> "none"]
  /\ RetryReset
  /\ UNCHANGED <<interrupts, starts, history>>

\* A testcase makes the kernel panic (run-test.sh sets panic_on_warn and
\* panic_on_oops).
Panic ==
  /\ pc \in PanicPoints \ {"off"}
  /\ \E kept \in SUBSET Dirty : GoDown(kept)

\* system_health_check reboots an unstable system by sysrq: after a sync if the
\* watchdog is the reason (all is kept), without one if systemd is frozen.
HealthReboot ==
  /\ pc = "health"
  /\ "TEST_RUN_MODE" \in opt \/ "REBOOTABLE" \in opt
  /\ \E kept \in SUBSET Dirty : GoDown(kept)

-----------------------------------------------------------------------------
RunRecipe ==
  \/ NotFound \/ AlreadyRun \/ Enter \/ WrongSuffix \/ Healthy
  \/ LoadExits \/ LoadSkips \/ Load \/ AfterReboot
  \/ ResetReboot \/ SetCurrent \/ SetRunning \/ SyncStart \/ reset_per_testcase_counters
  \/ Try \/ Trials \/ Announce
  \/ SetFinished \/ RemoveCurrent \/ SetResume \/ SyncEnd

RunTest ==
  \/ EnterDirectory \/ SkipDirectory \/ LeaveDirectory
  \/ NextRecipe \/ RunRecipe \/ SetRoundFinished \/ SyncRound

StartRun == \E o \in OptionSets : Start(o)

Next ==
  \/ StartRun \/ RunTest
  \/ \E r \in Recipes : Tee(r)
  \/ Interrupt \/ Panic \/ HealthReboot

\* The shell goes on, tee copies what it gets, and the user starts the round again
\* as long as it is not finished.
Fairness == WF_vars(RunTest) /\ WF_vars(StartRun) /\ \A r \in Recipes : WF_vars(Tee(r))

Spec == Init /\ [][Next]_vars /\ Fairness

-----------------------------------------------------------------------------
TypeOK ==
  /\ RetryTypeOK
  /\ Cached \in Files
  /\ disk \in Files
  /\ pc \in Points
  /\ opt \in SUBSET Options
  /\ queue \subseteq Recipes
  /\ dirs \in Seq(Dirs)
  /\ recipe \in Recipes \cup {NoRecipe}
  /\ recipe = NoRecipe <=> pc \in {"off", "next", "syncround"}
  /\ pending \in [Recipes -> {"none"} \cup Verdicts]
  /\ interrupts \in Nat /\ panics \in Nat /\ starts \in Nat
  /\ boots \in [Recipes -> Nat]
  /\ clean \subseteq Recipes /\ passed \subseteq Recipes
  /\ ended \subseteq Recipes /\ refused \subseteq Dirs /\ synced \subseteq Recipes

\* test_summary.rb: the first TESTCASE_RESULT line of the result file counts.
testcase_result(r) ==
  LET First(v) == \E i \in DOMAIN result[r] :
                    result[r][i] = v /\ \A j \in 1 .. i - 1 : result[r][j] = "log"
  IN  CASE status[r] = "none" -> "NONE"
        [] status[r] = "SKIPPED" -> "SKIP"
        [] OTHER -> IF \E v \in Verdicts : First(v)
                    THEN CHOOSE v \in Verdicts : First(v) ELSE "WARN"

\* Once the completion of a testcase was synced, no panic, interruption or
\* restart undoes it and the testcase does not run again, until AGAIN removes
\* its files.
CompletionIsDurable ==
  \A r \in synced : status[r] = "FINISHED" /\ disk.status[r] = "FINISHED"

\* Recipes of the directories that were skipped.
Unconfigured == {r \in Recipes : \E d \in refused : In(d, r)}

\* The resume point never passes an aborted testcase, even when a panic loses
\* writes: all selected testcases up to it ran to their end, were left early or
\* are in a directory whose config failed ("you can restart from the aborted
\* testcases").
ResumePointIsSound ==
  \A i, j \in DOMAIN Recipelist :
    i <= j /\ Recipelist[j] = resume /\ Recipelist[i] \in Selected =>
      Recipelist[i] \in ended \cup passed \cup Unconfigured

\* A finished round has dealt with every selected testcase of its recipelist: it
\* ended, unless run_recipe returned early for it or it is in a directory whose
\* own config failed (run-test.sh:201 goes on with the next directory and the round
\* is finished all the same).  One that ended is marked as finished or skipped; only
\* a panic may have lost the mark.
NoRecipeDropped ==
  finished = "yes" =>
    \A r \in (ToSet(Recipelist) \cap Selected) \ (passed \cup Unconfigured) :
      /\ r \in ended
      /\ panics = 0 => status[r] \in {"FINISHED", "SKIPPED"}

\* A testcase that takes the machine down is started at most MAX_REBOOT times
\* again, as README.md says: MAX_REBOOT is there "to limit the maximum times of
\* system reboots".
RebootLimit == \A r \in Recipes : boots[r] <= MAX_REBOOT[r] + 1

\* A testcase that the summary shows as passed had HARD_RETRY passed trials in a
\* row ("Returns fail if at least one of trails fails").
PassIsEarned == \A r \in Recipes : testcase_result(r) = "PASS" => r \in clean

\* However often it is interrupted, the round ends.
RoundCompletes == <>(finished = "yes")
=============================================================================
