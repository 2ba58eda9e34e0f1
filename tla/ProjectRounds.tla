---------------------------- MODULE ProjectRounds ----------------------------
(***************************************************************************)
(* A test project as run.sh runs it: round 1 runs the whole recipelist,    *)
(* each further round, up to FAILRETRY, what failed in the round before.   *)
(* All that run.sh knows it reads from the files of the rounds, under      *)
(* work/$proj/<round>, so a project can be stopped and run again at any    *)
(* time, with or without --again.                                          *)
(*                                                                         *)
(* What run-test.sh does inside a round (module TestRunner, here for root  *)
(* and a recipelist in the order of recipe.rb) is reduced to what it does  *)
(* to the files: a recipe runs and gets a verdict, is skipped as it is     *)
(* loaded, or is left early, by run_recipe or with its directory.          *)
(***************************************************************************)
EXTENDS Integers, FiniteSets

CONSTANTS
  Recipes,        \* work/$proj/recipelist
  FAILRETRY,      \* project setting: number of rounds
  Agains,         \* the values of AGAIN a run may be started with
  Mixed,          \* "yes" if a project may see interruptions and --again
  MaxInterrupts,  \* bound: interruptions of run-test.sh
  MaxStarts       \* bound: calls of "run.sh project run"

\* FAIL leads to another round; PASS, SKIP, WARN and NONE are all "other".
Verdicts == {"FAIL", "other"}
Rounds == 1 .. FAILRETRY

ASSUME RoundsAssumption ==
  /\ FAILRETRY \in Nat \ {0}
  /\ Agains \subseteq {"yes", "no"} /\ Mixed \in {"yes", "no"}
  /\ MaxInterrupts \in Nat /\ MaxStarts \in Nat

VARIABLES
  \* Files of each round.
  list,        \* recipelist, {} if there is none
  listed,      \* rounds that have a recipelist
  finished,    \* rounds that have __finished
  done,        \* recipes with run_status FINISHED
  behind,      \* recipes up to the resume point, __finished_testcase
  result,      \* testcase_result of test_summary.rb
  \* run.sh.
  rpc,         \* control point of run_test, "off" when it does not run
  round,       \* loop variable
  again,       \* $AGAIN
  todo,        \* recipes the running run-test.sh has still to run
  \* Bounds.
  interrupts, starts,
  \* History, since the last --again.
  fresh,       \* recipes of each round that ran, or were skipped as they were loaded
  left         \* recipes of each round that were left early

files == <<list, listed, finished, done, behind, result>>
bounds == <<interrupts, starts>>
history == <<fresh, left>>
vars == <<files, rpc, round, again, todo, bounds, history>>

Init ==
  /\ list = [k \in Rounds |-> {}]
  /\ listed = {} /\ finished = {}
  /\ done = [k \in Rounds |-> {}] /\ behind = [k \in Rounds |-> {}]
  /\ result = [k \in Rounds |-> [r \in Recipes |-> "other"]]
  /\ rpc = "off" /\ round = 1 /\ again = "no" /\ todo = {}
  /\ interrupts = 0 /\ starts = 0
  /\ fresh = [k \in Rounds |-> {}] /\ left = [k \in Rounds |-> {}]
-----------------------------------------------------------------------------
\* test_summary.rb -p work/$proj/$k | grep ^FAIL
Failed(k) == {r \in list[k] : result[k][r] = "FAIL"}

\* "run.sh project run" is called.
Start(a) ==
  /\ rpc = "off" /\ starts < MaxStarts
  /\ a = "yes" /\ interrupts > 0 => Mixed = "yes"
  /\ starts' = starts + 1
  /\ rpc' = "round" /\ round' = 1 /\ again' = a
  /\ IF a = "yes" THEN fresh' = [k \in Rounds |-> {}] /\ left' = [k \in Rounds |-> {}]
     ELSE UNCHANGED history
  /\ UNCHANGED <<files, todo, interrupts>>

\* rm -f __finished recipelist: --again forgets the present round only.
Unfinished == IF again = "yes" THEN finished \ {round} ELSE finished
Unlisted == IF again = "yes" THEN listed \ {round} ELSE listed

Forget ==
  /\ finished' = Unfinished
  /\ listed' = Unlisted
  /\ list' = [list EXCEPT ![round] = IF round \in Unlisted THEN @ ELSE {}]

NextRound ==
  IF round = FAILRETRY THEN rpc' = "off" /\ round' = round
  ELSE rpc' = "round" /\ round' = round + 1

\* The round before was cancelled by the user: no retry of its failures.
PreviousUnfinished ==
  /\ rpc = "round" /\ round > 1 /\ round - 1 \notin Unfinished
  /\ Forget
  /\ rpc' = "off"
  /\ UNCHANGED <<done, behind, result, round, again, todo, bounds, history>>

\* Mutant of PreviousFinished: every round may start.
PreviousAssumed == TRUE

PreviousFinished == round > 1 => round - 1 \in Unfinished

\* "Round $round is finished, so skip this round."
SkipRound ==
  /\ rpc = "round" /\ PreviousFinished
  /\ round \in Unfinished
  /\ Forget
  /\ NextRound
  /\ UNCHANGED <<done, behind, result, again, todo, bounds, history>>

\* The recipelist a round that is not finished runs: the one it has, or the
\* failures of the round before, or that of the project.
Recipelist ==
  IF round \in Unlisted THEN list[round]
  ELSE IF round > 1 THEN Failed(round - 1) ELSE Recipes

\* run-test.sh is called: --again removes the resume point, otherwise the run begins
\* after it and leaves out what is FINISHED.
BeginRound ==
  /\ rpc = "round" /\ PreviousFinished
  /\ round \notin Unfinished
  /\ finished' = Unfinished
  /\ listed' = Unlisted \cup {round}
  /\ list' = [list EXCEPT ![round] = Recipelist]
  /\ IF round > 1 /\ Recipelist = {}
     THEN rpc' = "off" /\ todo' = {} /\ behind' = behind
     ELSE /\ rpc' = "run"
          /\ behind' = [behind EXCEPT ![round] = IF again = "yes" THEN {} ELSE @]
          /\ todo' = IF again = "yes" THEN Recipelist
                     ELSE Recipelist \ (done[round] \cup behind[round])
  /\ UNCHANGED <<done, result, round, again, bounds, history>>

\* run_recipe, to its end: the recipe becomes the resume point.
RunRecipe(r) ==
  /\ rpc = "run" /\ r \in todo
  /\ todo' = todo \ {r}
  /\ \E v \in Verdicts : result' = [result EXCEPT ![round][r] = v]
  /\ done' = [done EXCEPT ![round] = @ \cup {r}]
  /\ behind' = [behind EXCEPT ![round] = list[round] \ todo']
  /\ fresh' = [fresh EXCEPT ![round] = @ \cup {r}]
  /\ UNCHANGED <<list, listed, finished, rpc, round, again, bounds, left>>

\* The recipe does not load or is filtered: SKIPPED.
SkipRecipe(r) ==
  /\ rpc = "run" /\ r \in todo
  /\ todo' = todo \ {r}
  /\ result' = [result EXCEPT ![round][r] = "other"]
  /\ done' = [done EXCEPT ![round] = @ \ {r}]
  /\ fresh' = [fresh EXCEPT ![round] = @ \cup {r}]
  /\ UNCHANGED <<list, listed, finished, behind, rpc, round, again, bounds, left>>

\* Mutant of LeaveRecipe: the rest of the list goes with the recipe.
LeaveRest(r) ==
  /\ rpc = "run" /\ r \in todo
  /\ todo' = {}
  /\ left' = [left EXCEPT ![round] = @ \cup {r}]
  /\ UNCHANGED <<files, rpc, round, again, bounds, fresh>>

\* The recipe is left early: its directory is skipped for a config that fails, the
\* recipe file is not there, a SKIP option applies, the suffix is wrong, the system is
\* not healthy, or the recipe exits as it is sourced.  Its files stay as they are,
\* unless --again has removed them by then.
LeaveRecipe(r) ==
  /\ rpc = "run" /\ r \in todo
  /\ todo' = todo \ {r}
  /\ \/ UNCHANGED <<done, result>>
     \/ /\ again = "yes"
        /\ result' = [result EXCEPT ![round][r] = "other"]
        /\ done' = [done EXCEPT ![round] = @ \ {r}]
  /\ left' = [left EXCEPT ![round] = @ \cup {r}]
  /\ UNCHANGED <<list, listed, finished, behind, rpc, round, again, bounds, fresh>>

\* Mutant of EndRound: __finished is not created.
EndRoundUnmarked ==
  /\ rpc = "run" /\ todo = {}
  /\ rpc' = "after"
  /\ UNCHANGED <<files, round, again, todo, bounds, history>>

\* touch __finished, whatever became of the recipes.
EndRound ==
  /\ rpc = "run" /\ todo = {}
  /\ finished' = finished \cup {round}
  /\ rpc' = "after"
  /\ UNCHANGED <<list, listed, done, behind, result, round, again, todo, bounds, history>>

\* The run is cut short, in the midst of a recipe or between two.  After SIGINT
\* or SIGTERM run-test.sh exits and run.sh goes on; a reboot ends both.
Interrupt ==
  /\ rpc = "run" /\ interrupts < MaxInterrupts
  /\ again = "yes" => Mixed = "yes"
  /\ interrupts' = interrupts + 1
  /\ \E cut \in {{}} \cup {{r} : r \in todo}, v \in Verdicts :
       /\ result' = [result EXCEPT ![round] = [r \in Recipes |-> IF r \in cut THEN v ELSE @[r]]]
       /\ \/ done' = [done EXCEPT ![round] = @ \ cut] /\ UNCHANGED fresh
          \/ \* FINISHED, but not the resume point yet
             /\ done' = [done EXCEPT ![round] = @ \cup cut]
             /\ fresh' = [fresh EXCEPT ![round] = @ \cup cut]
  /\ todo' = {}
  /\ rpc' \in {"after", "off"}
  /\ UNCHANGED <<list, listed, finished, behind, round, again, starts, left>>

\* Another round is run only if something failed in this one.
AfterRound ==
  /\ rpc = "after"
  /\ IF Failed(round) = {} THEN rpc' = "off" /\ round' = round ELSE NextRound
  /\ UNCHANGED <<files, again, todo, bounds, history>>

Run ==
  \/ PreviousUnfinished \/ SkipRound \/ BeginRound
  \/ (\E r \in Recipes : RunRecipe(r) \/ SkipRecipe(r) \/ LeaveRecipe(r))
  \/ EndRound \/ AfterRound

StartRun == \E a \in Agains : Start(a)

Next == StartRun \/ Run \/ Interrupt

\* run.sh goes on, and the user runs a project again until it is finished.
Fairness == WF_vars(Run) /\ WF_vars(StartRun)

Spec == Init /\ [][Next]_vars /\ Fairness
-----------------------------------------------------------------------------
\* "run.sh project check_finished": some finished round has no failure, or the
\* last round is finished.
check_project_finished ==
  \/ \E k \in finished : Failed(k) = {}
  \/ FAILRETRY \in finished

\* What a round has dealt with since the last --again.
Dealt(k) == fresh[k] \cup left[k]

\* A round retries the failures of the round before and nothing else: what a round
\* after the first is to run ended with FAIL in the round before, which dealt with it
\* since the last --again, and a finished round has dealt with every failure of the
\* round before, those that --again has discarded apart.
RetriesAreTheFailures ==
  /\ rpc = "run" /\ round > 1 =>
       \A r \in todo : result[round - 1][r] = "FAIL" /\ r \in Dealt(round - 1)
  /\ rpc = "off" =>
       \A k \in finished : k > 1 /\ k - 1 \in finished =>
         Failed(k - 1) \cap Dealt(k - 1) \subseteq Dealt(k)

\* A project that "project check_finished" reports as finished is: since the last
\* --again every recipe has run in round 1, was skipped as it was loaded or was left
\* early ("Rerun all testcase when restarting existing test project").
DoneIsDone ==
  rpc = "off" /\ check_project_finished => Recipes \subseteq Dealt(1)

\* A project that is run again whenever it was interrupted is finished at last.
ProjectCompletes == <>[]check_project_finished
=============================================================================
