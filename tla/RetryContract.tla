---------------------------- MODULE RetryContract ----------------------------
(***************************************************************************)
(* What the retry settings promise about the verdict of one testcase:      *)
(* "a test case is considered as passed when it passed HARD_RETRY times in *)
(* a row until it failed SOFT_RETRY times".  The state counts what really  *)
(* happened in the trials, whatever the scripts use to find it out.        *)
(***************************************************************************)
EXTENDS Naturals

CONSTANTS SOFT_RETRY,   \* failed attempts that make the testcase fail
          HARD_RETRY    \* passed trials in a row that make it pass

VARIABLES streak,       \* passed trials in a row in the present attempt
          attempts,     \* attempts that ended with a failed trial
          prep,         \* whether every preparation succeeded
          verdict       \* "NONE" until the testcase is judged

cvars == <<streak, attempts, prep, verdict>>

CInit ==
  /\ streak = 0
  /\ attempts = 0
  /\ prep = "ok"
  /\ verdict = "NONE"

\* Another trial may run only while nothing is decided.
Undecided ==
  /\ verdict = "NONE"
  /\ prep = "ok"
  /\ streak < HARD_RETRY
  /\ attempts < SOFT_RETRY

TrialPasses ==
  /\ Undecided
  /\ streak' = streak + 1
  /\ UNCHANGED <<attempts, prep, verdict>>

TrialFails ==
  /\ Undecided
  /\ streak' = 0
  /\ attempts' = attempts + 1
  /\ UNCHANGED <<prep, verdict>>

TrialAborts ==
  /\ Undecided
  /\ prep' = "failed"
  /\ UNCHANGED <<streak, attempts, verdict>>

\* The verdict is announced once, and only the one the trials call for.
Judge ==
  /\ verdict = "NONE"
  /\ \/ verdict' = "PASS" /\ streak = HARD_RETRY
     \/ verdict' = "FAIL" /\ attempts = SOFT_RETRY
     \/ verdict' = "SKIP" /\ prep = "failed"
  /\ UNCHANGED <<streak, attempts, prep>>

CNext == TrialPasses \/ TrialFails \/ TrialAborts \/ Judge

CSpec == CInit /\ [][CNext]_cvars
=============================================================================
