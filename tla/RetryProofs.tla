----------------------------- MODULE RetryProofs -----------------------------
(***************************************************************************)
(* Proofs about RetryCall, for every number of retries and of failed       *)
(* checks: without killed trials the loops implement RetryContract.        *)
(***************************************************************************)
EXTENDS RetryCall, TLAPS

-----------------------------------------------------------------------------
\* do_soft_try starts from fresh counters and fresh loop variables.
LEMMA RetryInitInv == RCInit => RetryInv
<1> SUFFICES ASSUME RCInit PROVE RetryInv
  OBVIOUS
<1> USE RetryAssumption, RecipeAssumption DEF RCInit, RetryInit
<1>1. RetryTypeOK
  BY DEF RetryTypeOK, Counter, NoFile
<1>2. CountersMatchTrial /\ LoopAgreesWithTrials
  BY DEF CountersMatchTrial, LoopAgreesWithTrials
<1>3. QED
  BY <1>1, <1>2 DEF RetryInv

\* Every step of the loops keeps the invariant, if no trial is killed.
LEMMA RetryStepInv ==
  ASSUME RetryInv, RCNext
  PROVE  RetryInv'
<1> USE RetryAssumption, RecipeAssumption
        DEF RetryInv, RetryTypeOK, CountersMatchTrial, LoopAgreesWithTrials,
            Counter, NoFile, trialvars
<1>1. CASE DoSoftTry
  BY <1>1 DEF DoSoftTry
<1>2. CASE DoTestTry(Recipe)
  BY <1>2 DEF DoTestTry
<1>3. CASE count_failure(Recipe)
  BY <1>3 DEF count_failure, add_counts
<1>4. CASE PrepareFailed
  BY <1>4 DEF PrepareFailed
<1>5. CASE TrialReturns(Recipe)
  BY <1>5 DEF TrialReturns, Grew
<1>6. CASE HardTry
  BY <1>6 DEF HardTry
<1>7. CASE SoftTry
  BY <1>7 DEF SoftTry
<1>8. CASE SoftTryEnds
  BY <1>8 DEF SoftTryEnds, Verdict
<1>9. QED
  BY <1>1, <1>2, <1>3, <1>4, <1>5, <1>6, <1>7, <1>8
     DEF RCNext, CalmStep, Trial

\* Without killed trials, types, counters and loop variables stay consistent in
\* every behaviour of the loops.
THEOREM RetryInvariant == RCSpec => []RetryInv
<1>1. RetryInv /\ [RCNext]_rvars => RetryInv'
  <2>1. ASSUME RetryInv, UNCHANGED rvars
        PROVE  RetryInv'
    BY <2>1 DEF RetryInv, RetryTypeOK, CountersMatchTrial, LoopAgreesWithTrials,
                rvars, loopvars, trialvars
  <2>2. QED
    BY <2>1, RetryStepInv
<1>2. QED
  BY RetryInitInv, <1>1, PTL DEF RCSpec

-----------------------------------------------------------------------------
\* Each step of the loops is a step of the contract, or invisible to it.
LEMMA ContractStep ==
  ASSUME RetryInv, RCNext, LOGLEVEL >= 1
  PROVE  Contract!CNext \/ UNCHANGED Contract!cvars
<1> USE RetryAssumption, RecipeAssumption
        DEF RetryInv, RetryTypeOK, LoopAgreesWithTrials, Counter, NoFile,
            trialvars, Contract!cvars
<1>1. CASE DoSoftTry
  BY <1>1 DEF DoSoftTry
<1>2. CASE DoTestTry(Recipe)
  BY <1>2 DEF DoTestTry
<1>3. CASE count_failure(Recipe)
  BY <1>3 DEF count_failure
<1>4. CASE PrepareFailed
  BY <1>4 DEF PrepareFailed, Contract!CNext, Contract!TrialAborts, Contract!Undecided
<1>5. CASE TrialReturns(Recipe)
  <2>1. Contract!Undecided
    BY <1>5 DEF TrialReturns, Contract!Undecided
  <2>2. CASE fails = 0
    BY <1>5, <2>1, <2>2 DEF TrialReturns, Contract!CNext, Contract!TrialPasses
  <2>3. CASE fails # 0
    BY <1>5, <2>1, <2>3 DEF TrialReturns, Contract!CNext, Contract!TrialFails
  <2>4. QED
    BY <2>2, <2>3
<1>6. CASE HardTry
  BY <1>6 DEF HardTry
<1>7. CASE SoftTry
  BY <1>7 DEF SoftTry
<1>8. CASE SoftTryEnds
  <2>1. outcome = "NONE" /\ UNCHANGED <<streak, attempts, prep>>
    BY <1>8 DEF SoftTryEnds
  <2>2. CASE ret = 0
    BY <1>8, <2>1, <2>2 DEF SoftTryEnds, Verdict, Contract!CNext, Contract!Judge
  <2>3. CASE ret = 1
    BY <1>8, <2>1, <2>3 DEF SoftTryEnds, Verdict, Contract!CNext, Contract!Judge
  <2>4. CASE ret = 2
    BY <1>8, <2>1, <2>4 DEF SoftTryEnds, Verdict, Contract!CNext, Contract!Judge
  <2>5. ret \in {0, 1, 2}
    BY <1>8 DEF SoftTryEnds
  <2>6. QED
    BY <2>2, <2>3, <2>4, <2>5
<1>9. QED
  BY <1>1, <1>2, <1>3, <1>4, <1>5, <1>6, <1>7, <1>8
     DEF RCNext, CalmStep, Trial

\* The retry loops implement the contract of SOFT_RETRY and HARD_RETRY, for every
\* value of the two: as long as no trial is killed and verdicts are logged, the
\* TESTCASE_RESULT of do_soft_try is the one the README defines.
THEOREM LoopsImplementContract ==
  ASSUME LOGLEVEL >= 1
  PROVE  RCSpec => ImplementsContract
<1>1. RCInit => Contract!CInit
  BY DEF RCInit, RetryInit, Contract!CInit
<1>2. RetryInv /\ [RCNext]_rvars => [Contract!CNext]_(Contract!cvars)
  <2>1. ASSUME UNCHANGED rvars
        PROVE  UNCHANGED Contract!cvars
    BY <2>1 DEF rvars, loopvars, trialvars, Contract!cvars
  <2>2. QED
    BY <2>1, ContractStep
<1>3. RCSpec => []RetryInv
  BY RetryInvariant
<1>4. QED
  BY <1>1, <1>2, <1>3, PTL DEF RCSpec, ImplementsContract, Contract!CSpec
=============================================================================
