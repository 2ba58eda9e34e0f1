------------------------------ MODULE RetryLoop ------------------------------
(***************************************************************************)
(* The trial loops of test_core/setup_test_core.sh: do_soft_try calls      *)
(* do_hard_try, which calls __do_test_try, which runs do_test_try in a     *)
(* subshell.  Trials are judged by the growth of the per-testcase file     *)
(* $RTMPD/_failure, that count_failure increments.                         *)
(*                                                                         *)
(* The loops run for one testcase at a time; the file is kept per testcase *)
(* so that TestRunner can compose this module with the recipe loop.        *)
(***************************************************************************)
EXTENDS Integers

CONSTANTS
  Recipes,        \* testcase ids
  SOFT_RETRY,     \* project setting
  HARD_RETRY,     \* project setting
  LOGLEVEL,       \* project setting: echo_log prints from level 1 on
  DeathStatuses,  \* exit statuses of a trial subshell that did not return
                  \* by itself (128 + signal number), {} if none dies
  MaxFails        \* bound: failed checks of one trial

\* The loops are "seq $N": the settings are positive.  A shell that is killed
\* reports a status that do_test_try itself never returns.
ASSUME RetryAssumption ==
  /\ SOFT_RETRY \in Nat \ {0}
  /\ HARD_RETRY \in Nat \ {0}
  /\ LOGLEVEL \in Nat
  /\ DeathStatuses \subseteq Nat \ {0, 1, 2}
  /\ MaxFails \in Nat

VARIABLES
  failure,    \* content of $RTMPD/_failure for each testcase
  lpc,        \* control point in the loops
  softTry,    \* loop variable of do_soft_try
  hardTry,    \* loop variable of do_hard_try
  before,     \* failure_before of do_test_try
  ret,        \* ret, handed from function to function
  outcome,    \* the TESTCASE_RESULT line printed by do_soft_try
  \* History of what happened in the trials, never read by the code:
  fails,      \* failed checks of the present trial
  streak,     \* passed trials in a row in the present attempt
  attempts,   \* attempts that ended with a failed trial
  prep        \* whether every preparation succeeded

trialvars == <<fails, streak, attempts, prep>>
loopvars == <<lpc, softTry, hardTry, before, ret, outcome, trialvars>>
rvars == <<failure, loopvars>>

-----------------------------------------------------------------------------
\* A counter file that does not exist, or is empty.
NoFile == -1
Counter == Nat \cup {NoFile}

\* add_counts: a missing file starts from 0.
add_counts(count, value) == IF count = NoFile THEN value ELSE count + value

\* Mutant of Grew: the counter is compared with "-ge".
GrewOrStayed(from, to) == from # NoFile /\ to # NoFile /\ to >= from

\* [ "$(cat _failure)" -gt "$failure_before" ]: test(1) fails, and takes the
\* else branch, when either side is not a number.
Grew(from, to) == from # NoFile /\ to # NoFile /\ to > from

\* The three branches that print TESTCASE_RESULT; no other status prints one,
\* and echo_log prints nothing below log level 1.
Verdict(status) ==
  IF LOGLEVEL < 1 THEN "NONE"
  ELSE CASE status = 0 -> "PASS"
         [] status = 1 -> "SKIP"
         [] status = 2 -> "FAIL"
         [] OTHER -> "NONE"

-----------------------------------------------------------------------------
RetryInit ==
  /\ lpc = "idle"
  /\ softTry = 1
  /\ hardTry = 1
  /\ before = NoFile
  /\ ret = 0
  /\ outcome = "NONE"
  /\ fails = 0
  /\ streak = 0
  /\ attempts = 0
  /\ prep = "ok"

\* The process that runs the loops is gone.
RetryReset ==
  /\ lpc' = "idle"
  /\ softTry' = 1
  /\ hardTry' = 1
  /\ before' = NoFile
  /\ ret' = 0
  /\ outcome' = "NONE"
  /\ fails' = 0
  /\ streak' = 0
  /\ attempts' = 0
  /\ prep' = "ok"

\* do_soft_try is called.
DoSoftTry ==
  /\ lpc = "idle"
  /\ lpc' = "try"
  /\ softTry' = 1
  /\ hardTry' = 1
  /\ outcome' = "NONE"
  /\ streak' = 0
  /\ attempts' = 0
  /\ prep' = "ok"
  /\ UNCHANGED <<failure, before, ret, fails>>

\* __do_test_try forks the trial, do_test_try notes the counter.
DoTestTry(r) ==
  /\ lpc = "try"
  /\ lpc' = "trial"
  /\ before' = failure[r]
  /\ fails' = 0
  /\ UNCHANGED <<failure, softTry, hardTry, ret, outcome, streak, attempts, prep>>

\* Mutant of count_failure: only the first failed check of a trial is counted.
count_failure_once(r) ==
  /\ lpc = "trial"
  /\ fails < MaxFails
  /\ fails' = fails + 1
  /\ failure' = [failure EXCEPT ![r] = IF fails = 0 THEN add_counts(@, 1) ELSE @]
  /\ UNCHANGED <<lpc, softTry, hardTry, before, ret, outcome, streak, attempts, prep>>

\* A check of the trial fails.
count_failure(r) ==
  /\ lpc = "trial"
  /\ fails < MaxFails
  /\ fails' = fails + 1
  /\ failure' = [failure EXCEPT ![r] = add_counts(@, 1)]
  /\ UNCHANGED <<lpc, softTry, hardTry, before, ret, outcome, streak, attempts, prep>>

\* prepare failed: the test program does not run, the trial returns 1.
PrepareFailed ==
  /\ lpc = "trial"
  /\ fails = 0
  /\ lpc' = "hard"
  /\ ret' = 1
  /\ prep' = "failed"
  /\ UNCHANGED <<failure, softTry, hardTry, before, outcome, fails, streak, attempts>>

\* The trial ran to its end and is judged by the counter.
TrialReturns(r) ==
  /\ lpc = "trial"
  /\ lpc' = "hard"
  /\ ret' = IF Grew(before, failure[r]) THEN 2 ELSE 0
  /\ IF fails = 0
     THEN streak' = streak + 1 /\ UNCHANGED attempts
     ELSE streak' = 0 /\ attempts' = attempts + 1
  /\ UNCHANGED <<failure, softTry, hardTry, before, outcome, fails, prep>>

\* The subshell of the trial is killed, wait returns its status.
TrialDies ==
  /\ lpc = "trial"
  /\ lpc' = "hard"
  /\ ret' \in DeathStatuses
  /\ streak' = 0
  /\ UNCHANGED <<failure, softTry, hardTry, before, outcome, fails, attempts, prep>>

\* do_hard_try after a trial: 1 and 2 leave the loop, any other status goes on
\* to the next trial if there is one.
HardTry ==
  /\ lpc = "hard"
  /\ IF ret \notin {1, 2} /\ hardTry < HARD_RETRY
     THEN hardTry' = hardTry + 1 /\ lpc' = "try"
     ELSE lpc' = "soft" /\ UNCHANGED hardTry
  /\ UNCHANGED <<failure, softTry, before, ret, outcome, trialvars>>

\* do_soft_try after do_hard_try: 0 and 1 leave the loop, any other status goes
\* on to the next attempt if there is one.
SoftTry ==
  /\ lpc = "soft"
  /\ ret \notin {0, 1}
  /\ softTry < SOFT_RETRY
  /\ softTry' = softTry + 1
  /\ hardTry' = 1
  /\ lpc' = "try"
  /\ UNCHANGED <<failure, before, ret, outcome, trialvars>>

\* Mutant of SoftTryEnds: the end of the loop is missed by one.
SoftTryEndsLate ==
  /\ lpc = "soft"
  /\ ret \in {0, 1} \/ softTry > SOFT_RETRY
  /\ outcome' = Verdict(ret)
  /\ lpc' = "done"
  /\ UNCHANGED <<failure, softTry, hardTry, before, ret, trialvars>>

\* Mutant of SoftTryEnds: a killed attempt counts as passed.
SoftTryEndsLenient ==
  /\ lpc = "soft"
  /\ ret \in {0, 1} \/ softTry >= SOFT_RETRY
  /\ outcome' = Verdict(IF ret \in DeathStatuses THEN 0 ELSE ret)
  /\ lpc' = "done"
  /\ UNCHANGED <<failure, softTry, hardTry, before, ret, trialvars>>

\* do_soft_try prints the verdict and returns.
SoftTryEnds ==
  /\ lpc = "soft"
  /\ ret \in {0, 1} \/ softTry >= SOFT_RETRY
  /\ outcome' = Verdict(ret)
  /\ lpc' = "done"
  /\ UNCHANGED <<failure, softTry, hardTry, before, ret, trialvars>>

Trial(r) ==
  \/ DoTestTry(r)
  \/ count_failure(r)
  \/ PrepareFailed
  \/ TrialReturns(r)

\* The loops with trials that end by themselves, and with trials that are killed.
CalmStep(r) == Trial(r) \/ HardTry \/ SoftTry \/ SoftTryEnds
RetryStep(r) == CalmStep(r) \/ TrialDies

-----------------------------------------------------------------------------
RetryTypeOK ==
  /\ failure \in [Recipes -> Counter]
  /\ lpc \in {"idle", "try", "trial", "hard", "soft", "done"}
  /\ softTry \in 1 .. SOFT_RETRY
  /\ hardTry \in 1 .. HARD_RETRY
  /\ before \in Counter
  /\ ret \in {0, 1, 2} \cup DeathStatuses
  /\ outcome \in {"NONE", "PASS", "SKIP", "FAIL"}
  /\ fails \in 0 .. MaxFails
  /\ streak \in Nat
  /\ attempts \in Nat
  /\ prep \in {"ok", "failed"}

\* Even when trials are killed, the last trial decides: PASS needs a passed last
\* trial, SKIP a failed preparation, FAIL a failed trial of the last attempt, and
\* a verdict is missing only if the last trial was killed (test_summary.rb then
\* reports WARN).
LastTrialDecides ==
  lpc = "done" =>
    /\ outcome = "PASS" => streak >= 1
    /\ outcome = "FAIL" => streak = 0 /\ attempts >= 1
    /\ outcome = "SKIP" <=> prep = "failed"
    /\ outcome = "NONE" <=> ret \in DeathStatuses
=============================================================================
