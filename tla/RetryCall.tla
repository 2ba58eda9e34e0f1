------------------------------ MODULE RetryCall ------------------------------
(***************************************************************************)
(* One call of do_soft_try as the ordinary path of run_recipe makes it:    *)
(* right after reset_per_testcase_counters, with nothing that touches the  *)
(* counters besides the trials.                                            *)
(***************************************************************************)
EXTENDS RetryLoop

CONSTANT Recipe   \* the testcase that runs

ASSUME RecipeAssumption == Recipe \in Recipes

RCInit ==
  /\ RetryInit
  /\ failure = [r \in Recipes |-> 0]

\* No trial is killed.
RCNext == DoSoftTry \/ CalmStep(Recipe)

RCSpec == RCInit /\ [][RCNext]_rvars /\ WF_rvars(RCNext)

\* Any trial may be killed.
RKNext == DoSoftTry \/ RetryStep(Recipe)

RKSpec == RCInit /\ [][RKNext]_rvars /\ WF_rvars(RKNext)

-----------------------------------------------------------------------------
\* What the loops announce is what the trials call for: the verdict that
\* do_soft_try prints is PASS only after HARD_RETRY passed trials in a row, FAIL
\* only after SOFT_RETRY failed attempts, SKIP only after a failed preparation,
\* and no trial runs once one of them is reached.
Contract == INSTANCE RetryContract WITH verdict <- outcome
ImplementsContract == Contract!CSpec

\* A testcase is announced as passed only if its last HARD_RETRY trials, all of
\* one attempt, passed (README: "passed HARD_RETRY times in a row").
PassMeansStreak == outcome = "PASS" => streak = HARD_RETRY

\* A trial is never judged with the counters of another: while it runs, _failure
\* exceeds failure_before by exactly its own failed checks.
CountersMatchTrial ==
  /\ failure[Recipe] \in Nat
  /\ lpc = "trial" => before \in Nat /\ failure[Recipe] = before + fails

\* The loop variables and the status agree with what happened in the trials
\* (no trial is killed): what makes the verdict of do_soft_try the right one.
LoopAgreesWithTrials ==
  /\ lpc = "idle" =>
       streak = 0 /\ attempts = 0 /\ prep = "ok" /\ outcome = "NONE"
  /\ lpc \in {"try", "trial"} =>
       /\ outcome = "NONE" /\ prep = "ok"
       /\ attempts = softTry - 1 /\ streak = hardTry - 1
  /\ lpc \in {"hard", "soft"} =>
       /\ outcome = "NONE" /\ ret \in {0, 1, 2}
       /\ ret = 0 => prep = "ok" /\ attempts = softTry - 1 /\ streak = hardTry
       /\ ret = 1 => prep = "failed"
       /\ ret = 2 => prep = "ok" /\ attempts = softTry /\ streak = 0
  /\ lpc = "soft" /\ ret = 0 => streak = HARD_RETRY

\* Both together, with the types: as long as no trial is killed, what the loops
\* know is what happened in the trials, and no trial is judged with the counters
\* of another.
RetryInv == RetryTypeOK /\ CountersMatchTrial /\ LoopAgreesWithTrials

\* do_soft_try returns, whatever the trials do (each trial ends: __do_test has
\* a timeout; liveness of the loops themselves).
CallReturns == <>(lpc = "done")
=============================================================================
