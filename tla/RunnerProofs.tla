---------------------------- MODULE RunnerProofs -----------------------------
(***************************************************************************)
(* Proofs about TestRunner, for every list of recipes, every option, any   *)
(* number of panics and any set of writes that a panic loses.              *)
(***************************************************************************)
EXTENDS TestRunner, TLAPS

\* The fields of the cached files, one by one.
LEMMA CachedFields ==
  Cached \in Files <=>
    /\ status \in [Recipes -> {"none", "RUNNING", "FINISHED", "SKIPPED"}]
    /\ result \in [Recipes -> Seq({"log"} \cup Verdicts)]
    /\ reboot \in [Recipes -> Counter]
    /\ failure \in [Recipes -> Counter]
    /\ current \in Recipes \cup {NoRecipe}
    /\ resume \in Recipes \cup {NoRecipe}
    /\ finished \in {"no", "yes"}
  BY DEF Cached, Files

\* The same for the next state.
LEMMA CachedFieldsNext ==
  Cached' \in Files <=>
    /\ status' \in [Recipes -> {"none", "RUNNING", "FINISHED", "SKIPPED"}]
    /\ result' \in [Recipes -> Seq({"log"} \cup Verdicts)]
    /\ reboot' \in [Recipes -> Counter]
    /\ failure' \in [Recipes -> Counter]
    /\ current' \in Recipes \cup {NoRecipe}
    /\ resume' \in Recipes \cup {NoRecipe}
    /\ finished' \in {"no", "yes"}
  BY DEF Cached, Files

\* The trial loops keep their types whatever the trials do.
LEMMA RetryStepType ==
  ASSUME RetryTypeOK, NEW r \in Recipes, DoSoftTry \/ RetryStep(r)
  PROVE  RetryTypeOK'
<1> USE RetryAssumption DEF RetryTypeOK, Counter, NoFile, trialvars
<1>1. CASE DoSoftTry
  BY <1>1 DEF DoSoftTry
<1>2. CASE DoTestTry(r)
  BY <1>2 DEF DoTestTry
<1>3. CASE count_failure(r)
  BY <1>3 DEF count_failure, add_counts
<1>4. CASE PrepareFailed
  BY <1>4 DEF PrepareFailed
<1>5. CASE TrialReturns(r)
  BY <1>5 DEF TrialReturns
<1>6. CASE TrialDies
  BY <1>6 DEF TrialDies
<1>7. CASE HardTry
  BY <1>7 DEF HardTry
<1>8. CASE SoftTry
  BY <1>8 DEF SoftTry
<1>9. CASE SoftTryEnds
  BY <1>9 DEF SoftTryEnds, Verdict
<1>10. QED
  BY <1>1, <1>2, <1>3, <1>4, <1>5, <1>6, <1>7, <1>8, <1>9
     DEF RetryStep, CalmStep, Trial

\* A process that is gone leaves the loops in their initial state.
LEMMA RetryResetType ==
  ASSUME RetryReset, failure' \in [Recipes -> Counter]
  PROVE  RetryTypeOK'
  BY RetryAssumption DEF RetryReset, RetryTypeOK, Counter, NoFile
\* Steps that leave the loops alone keep their types if they keep that of the
\* failure counters.
LEMMA LoopvarsType ==
  ASSUME RetryTypeOK, UNCHANGED loopvars, failure' \in [Recipes -> Counter]
  PROVE  RetryTypeOK'
  BY DEF RetryTypeOK, loopvars, trialvars

\* Whatever writes a panic loses, the files still have contents that were
\* written to them.
LEMMA SurviveType ==
  ASSUME Cached \in Files, disk \in Files, NEW kept, Survive(kept)
  PROVE  Cached' \in Files /\ disk' \in Files
<1>1. /\ disk.status \in [Recipes -> {"none", "RUNNING", "FINISHED", "SKIPPED"}]
      /\ disk.result \in [Recipes -> Seq({"log"} \cup Verdicts)]
      /\ disk.reboot \in [Recipes -> Counter]
      /\ disk.failure \in [Recipes -> Counter]
      /\ disk.current \in Recipes \cup {NoRecipe}
      /\ disk.resume \in Recipes \cup {NoRecipe}
      /\ disk.finished \in {"no", "yes"}
  BY DEF Files
<1>2. Cached' \in Files
  BY <1>1, CachedFields, CachedFieldsNext DEF Survive
<1>3. QED
  BY <1>2 DEF Survive

\* "tee -a" leaves lines of the known kinds in a result file.
LEMMA CreatedType ==
  ASSUME NEW L, "log" \in L, NEW content \in Seq(L)
  PROVE  Created(content) \in Seq(L)
<1>1. CASE content = <<>>
  <2>1. <<"log">> \in Seq(L)
    OBVIOUS
  <2>2. QED
    BY <1>1, <2>1 DEF Created
<1>2. CASE content # <<>>
  BY <1>2 DEF Created
<1>3. QED
  BY <1>1, <1>2

\* The list handed to run_recipes holds recipes only.
LEMMA PlanType == Plan(ToSet(Recipelist)) \subseteq Recipes /\ Plan(Remaining) \subseteq Recipes
  BY RunnerAssumption DEF Plan

\* The project starts with no files at all.
LEMMA TypeInit == Init => TypeOK
<1> SUFFICES ASSUME Init PROVE TypeOK
  OBVIOUS
<1>1. RetryTypeOK
  BY RetryAssumption DEF Init, RetryInit, RetryTypeOK, Counter, NoFile
<1>2. Cached \in Files
  BY CachedFields DEF Init, Counter, NoFile
<1>3. QED
  BY <1>1, <1>2 DEF Init, TypeOK, Points, Options

\* Writing one file of a kind keeps the type of that kind of file.
LEMMA WriteType ==
  ASSUME NEW D, NEW R, NEW f \in [D -> R], NEW x \in D, NEW v \in R
  PROVE  [f EXCEPT ![x] = v] \in [D -> R]
  OBVIOUS

\* AGAIN removes the files of a recipe.
LEMMA EnterType ==
  ASSUME TypeOK, Enter
  PROVE  TypeOK'
<1>1. recipe \in Recipes
  BY DEF TypeOK, Enter
<1>2. CASE "AGAIN" \notin opt
  <2>1. Cached' \in Files /\ RetryTypeOK'
    BY <1>2, CachedFields, CachedFieldsNext, LoopvarsType
       DEF TypeOK, Enter, perrecipe, perround
  <2>2. UNCHANGED <<pending, boots, clean, synced>>
    BY <1>2 DEF Enter
  <2>3. QED
    BY <1>1, <2>1, <2>2 DEF TypeOK, Enter, Points, bounds
<1>3. CASE "AGAIN" \in opt
  <2>1. status' \in [Recipes -> {"none", "RUNNING", "FINISHED", "SKIPPED"}]
    <3>1. status \in [Recipes -> {"none", "RUNNING", "FINISHED", "SKIPPED"}]
      BY CachedFields DEF TypeOK
    <3>2. QED
      BY <1>1, <1>3, <3>1, WriteType DEF Enter
  <2>2. result' \in [Recipes -> Seq({"log"} \cup Verdicts)]
    <3>1. <<>> \in Seq({"log"} \cup Verdicts)
      OBVIOUS
    <3>2. result \in [Recipes -> Seq({"log"} \cup Verdicts)]
      BY CachedFields DEF TypeOK
    <3>3. QED
      BY <1>1, <1>3, <3>1, <3>2, WriteType DEF Enter
  <2>3. reboot' \in [Recipes -> Counter] /\ failure' \in [Recipes -> Counter]
    <3>1. NoFile \in Counter
      BY DEF NoFile, Counter
    <3>2. reboot \in [Recipes -> Counter] /\ failure \in [Recipes -> Counter]
      BY CachedFields DEF TypeOK
    <3>3. QED
      BY <1>1, <1>3, <3>1, <3>2, WriteType DEF Enter
  <2>4. Cached' \in Files /\ RetryTypeOK'
    BY <2>1, <2>2, <2>3, CachedFields, CachedFieldsNext, LoopvarsType
       DEF TypeOK, Enter, perround
  <2>5. pending' \in [Recipes -> {"none"} \cup Verdicts]
    BY <1>1, <1>3, WriteType DEF TypeOK, Enter
  <2>6. boots' \in [Recipes -> Nat]
    <3>1. boots \in [Recipes -> Nat] /\ boots' = [boots EXCEPT ![recipe] = 0] /\ 0 \in Nat
      BY <1>3 DEF TypeOK, Enter
    <3>2. QED
      BY ONLY <1>1, <3>1
  <2>7. clean' \subseteq Recipes /\ synced' \subseteq Recipes
    BY <1>3 DEF TypeOK, Enter
  <2>8. /\ pc = "recipe" /\ pc' = "health"
        /\ UNCHANGED <<disk, opt, queue, dirs, recipe, interrupts, panics, starts, passed,
                       ended, refused>>
    BY DEF Enter, bounds
  <2>9. QED
    BY <1>1, <2>4, <2>5, <2>6, <2>7, <2>8 DEF TypeOK, Points
<1>4. QED
  BY <1>2, <1>3

\* A restart after a reboot counts it.
LEMMA AfterRebootType ==
  ASSUME TypeOK, AfterReboot
  PROVE  TypeOK'
<1>1. recipe \in Recipes
  BY DEF TypeOK, AfterReboot
<1>2. reboot \in [Recipes -> Counter]
  BY CachedFields DEF TypeOK
<1>3. reboot' \in [Recipes -> Counter]
  <2>1. CASE reboot[recipe] = NoFile
    BY <1>2, <2>1 DEF AfterReboot
  <2>2. CASE reboot[recipe] # NoFile
    <3>1. reboot[recipe] + 1 \in Counter
      BY <1>1, <1>2, <2>2 DEF Counter, NoFile
    <3>2. QED
      BY <1>1, <1>2, <2>2, <3>1, WriteType DEF AfterReboot
  <2>3. QED
    BY <2>1, <2>2
<1>4. Cached' \in Files /\ RetryTypeOK'
  BY <1>3, CachedFields, CachedFieldsNext, LoopvarsType DEF TypeOK, AfterReboot, perround
<1>5. pc' \in {"try", "end"}
  BY DEF AfterReboot
<1>6. QED
  BY <1>1, <1>4, <1>5 DEF TypeOK, AfterReboot, Points, process, bounds, history

\* The directories under way are directories.
LEMMA DirectoryTypes ==
  ASSUME TypeOK
  PROVE  /\ \A r \in Recipes : Below(r) => NextDir(r) \in Dirs
         /\ dirs # <<>> => Front(dirs) \in Seq(Dirs)
<1>1. dirs \in Seq(Dirs)
  BY DEF TypeOK
<1>2. ASSUME NEW r \in Recipes, Below(r)
      PROVE  NextDir(r) \in Dirs
  <2>1. Path[r] \in Seq(Dirs) /\ Len(Path[r]) \in Nat /\ Len(dirs) \in Nat
    BY <1>1, RunnerAssumption
  <2>2. Len(dirs) <= Len(Path[r]) /\ Len(dirs) # Len(Path[r])
    BY <1>1, <1>2, <2>1 DEF Below, IsStrictPrefix, IsPrefix
  <2>3. QED
    BY <2>1, <2>2 DEF NextDir
<1>3. dirs # <<>> => Front(dirs) \in Seq(Dirs)
  BY <1>1 DEF Front
<1>4. QED
  BY <1>2, <1>3

\* Entering, skipping and leaving one keeps them so.
LEMMA DirectoryStepTypes ==
  ASSUME TypeOK, EnterDirectory \/ SkipDirectory \/ LeaveDirectory
  PROVE  dirs' \in Seq(Dirs)
<1>1. dirs \in Seq(Dirs)
  BY DEF TypeOK
<1>2. CASE EnterDirectory
  <2>1. PICK r \in Recipes : Below(r) /\ dirs' = Append(dirs, NextDir(r))
    BY <1>2 DEF EnterDirectory
  <2>2. NextDir(r) \in Dirs
    BY <2>1, DirectoryTypes
  <2>3. Append(dirs, NextDir(r)) \in Seq(Dirs)
    BY <1>1, <2>2
  <2>4. QED
    BY <2>1, <2>3
<1>3. CASE SkipDirectory
  BY <1>1, <1>3 DEF SkipDirectory
<1>4. CASE LeaveDirectory
  BY <1>4, DirectoryTypes DEF LeaveDirectory
<1>5. QED
  BY <1>2, <1>3, <1>4

\* The steps of run-test.sh between two calls of the trial loops keep the types.
LEMMA TypeOfShellSteps ==
  ASSUME TypeOK,
         \/ EnterDirectory \/ SkipDirectory \/ LeaveDirectory
         \/ NextRecipe \/ NotFound \/ AlreadyRun \/ Enter \/ WrongSuffix \/ Healthy
         \/ LoadExits \/ LoadSkips \/ Load \/ AfterReboot \/ ResetReboot \/ SetCurrent
         \/ SetRunning \/ SyncStart \/ reset_per_testcase_counters \/ SetFinished
         \/ RemoveCurrent \/ SetResume \/ SyncEnd \/ SetRoundFinished \/ SyncRound
  PROVE  TypeOK'
<1> USE RunnerAssumption, LoopvarsType, CachedFields, CachedFieldsNext
        DEF TypeOK, Points, Verdicts, perrecipe, perround, process, bounds, history,
            Counter, NoFile
<1>d. CASE EnterDirectory \/ SkipDirectory \/ LeaveDirectory
  <2>1. dirs' \in Seq(Dirs)
    BY <1>d, DirectoryStepTypes
  <2>2. refused' \subseteq Dirs /\ queue' \subseteq Recipes
    BY <1>d DEF EnterDirectory, SkipDirectory, LeaveDirectory
  <2>3. Cached' \in Files /\ RetryTypeOK'
    BY <1>d DEF EnterDirectory, SkipDirectory, LeaveDirectory
  <2>4. UNCHANGED <<disk, pc, opt, recipe, pending, bounds, boots, clean, passed, ended, synced>>
    BY <1>d DEF EnterDirectory, SkipDirectory, LeaveDirectory
  <2>5. QED
    BY <2>1, <2>2, <2>3, <2>4
<1>1. CASE NextRecipe
  BY <1>1 DEF NextRecipe
<1>2. CASE NotFound
  BY <1>2 DEF NotFound, Leave
<1>3. CASE AlreadyRun
  BY <1>3 DEF AlreadyRun, Leave
<1>4. CASE Enter
  BY <1>4, EnterType
<1>5. CASE WrongSuffix
  BY <1>5 DEF WrongSuffix, Leave
<1>6. CASE Healthy
  BY <1>6 DEF Healthy
<1>7. CASE LoadExits
  BY <1>7 DEF LoadExits, Leave
<1>8. CASE LoadSkips
  <2>1. recipe \in Recipes
    BY <1>8 DEF LoadSkips
  <2>2. result' \in [Recipes -> Seq({"log"} \cup Verdicts)]
    <3>1. Created(result[recipe]) \in Seq({"log"} \cup Verdicts)
      BY <2>1, CreatedType
    <3>2. Append(Created(result[recipe]), "SKIP") \in Seq({"log"} \cup Verdicts)
      BY <3>1
    <3>3. QED
      BY <1>8, <2>1, <3>1, <3>2 DEF LoadSkips
  <2>3. Cached' \in Files /\ RetryTypeOK'
    BY <1>8, <2>1, <2>2 DEF LoadSkips
  <2>4. ended' \subseteq Recipes
    BY <1>8, <2>1 DEF LoadSkips
  <2>5. QED
    BY <1>8, <2>3, <2>4 DEF LoadSkips, Leave
<1>9. CASE Load
  <2>1. recipe \in Recipes
    BY <1>9 DEF Load
  <2>2. result' \in [Recipes -> Seq({"log"} \cup Verdicts)]
    BY <1>9, <2>1, CreatedType DEF Load
  <2>3. Cached' \in Files
    BY <1>9, <2>2 DEF Load
  <2>4. QED
    BY <1>9, <2>1, <2>3 DEF Load
<1>10. CASE AfterReboot
  BY <1>10, AfterRebootType
<1>11. CASE ResetReboot
  BY <1>11 DEF ResetReboot
<1>12. CASE SetCurrent
  BY <1>12 DEF SetCurrent
<1>13. CASE SetRunning
  BY <1>13 DEF SetRunning
<1>14. CASE SyncStart
  BY <1>14 DEF SyncStart, sync
<1>15. CASE reset_per_testcase_counters
  BY <1>15 DEF reset_per_testcase_counters
<1>16. CASE SetFinished
  BY <1>16 DEF SetFinished
<1>17. CASE RemoveCurrent
  BY <1>17 DEF RemoveCurrent
<1>18. CASE SetResume
  BY <1>18 DEF SetResume
<1>19. CASE SyncEnd
  BY <1>19 DEF SyncEnd, Leave, sync
<1>20. CASE SetRoundFinished
  BY <1>20 DEF SetRoundFinished
<1>21. CASE SyncRound
  BY <1>21 DEF SyncRound, sync
<1>22. QED
  BY <1>d, <1>1, <1>2, <1>3, <1>4, <1>5, <1>6, <1>7, <1>8, <1>9, <1>10, <1>11, <1>12, <1>13, <1>14, <1>15, <1>16, <1>17, <1>18, <1>19, <1>20, <1>21

\* Trials keep the types: what the loops do not own is left alone, and their own
\* variables are covered by RetryStepType.
LEMMA TypeOfTrialSteps ==
  ASSUME TypeOK, Try \/ Trials \/ Announce
  PROVE  TypeOK'
<1> USE DEF TypeOK, Points, perround, process, bounds, history
<1>1. CASE Try
  <2>1. recipe \in Recipes
    BY <1>1 DEF Try
  <2>2. RetryTypeOK'
    BY <1>1, <2>1, RetryStepType DEF Try
  <2>3. Cached' \in Files
    BY <1>1, CachedFields, CachedFieldsNext DEF Try, DoSoftTry
  <2>4. boots' \in [Recipes -> Nat]
    BY <1>1, <2>1, WriteType DEF Try
  <2>5. QED
    BY <1>1, <2>1, <2>2, <2>3, <2>4 DEF Try
<1>2. CASE Trials
  <2>1. recipe \in Recipes
    BY <1>2 DEF Trials
  <2>2. RetryTypeOK'
    BY <1>2, <2>1, RetryStepType DEF Trials
  <2>3. Cached' \in Files
    BY <1>2, <2>2, CachedFields, CachedFieldsNext DEF Trials, RetryTypeOK
  <2>4. QED
    BY <1>2, <2>1, <2>2, <2>3 DEF Trials
<1>3. CASE Announce
  <2>1. recipe \in Recipes
    BY <1>3 DEF Announce
  <2>2. RetryTypeOK' /\ Cached' \in Files
    BY <1>3, RetryResetType, CachedFields, CachedFieldsNext DEF Announce, perrecipe
  <2>3. pending' \in [Recipes -> {"none"} \cup Verdicts]
    <3>1. outcome \in {"NONE"} \cup Verdicts
      BY DEF RetryTypeOK, Verdicts
    <3>2. QED
      BY <1>3, <2>1, <3>1, WriteType DEF Announce
  <2>4. clean' \subseteq Recipes
    BY <1>3, <2>1 DEF Announce
  <2>5. QED
    BY <1>3, <2>1, <2>2, <2>3, <2>4 DEF Announce
<1>4. QED
  BY <1>1, <1>2, <1>3

\* The steps of the world around the shell keep the types.
LEMMA TypeOfWorldSteps ==
  ASSUME TypeOK,
         StartRun \/ (\E r \in Recipes : Tee(r)) \/ Interrupt \/ Panic \/ HealthReboot
  PROVE  TypeOK'
<1> USE DEF TypeOK, Points, perround, bounds, history
<1>1. CASE StartRun
  <2>1. PICK o \in OptionSets : Start(o)
    BY <1>1 DEF StartRun
  <2>2. RetryTypeOK' /\ Cached' \in Files
    BY <2>1, LoopvarsType, CachedFields, CachedFieldsNext DEF Start, perrecipe
  <2>3. queue' \subseteq Recipes
    BY <2>1, PlanType DEF Start
  <2>4. o \in SUBSET Options
    BY RunnerAssumption
  <2>5. QED
    BY <2>1, <2>2, <2>3, <2>4 DEF Start
<1>2. ASSUME NEW r \in Recipes, Tee(r)
      PROVE  TypeOK'
  <2>1. pending[r] \in Verdicts
    BY <1>2 DEF Tee
  <2>2. result' \in [Recipes -> Seq({"log"} \cup Verdicts)]
    <3>1. result \in [Recipes -> Seq({"log"} \cup Verdicts)]
      BY CachedFields
    <3>2. Append(result[r], pending[r]) \in Seq({"log"} \cup Verdicts)
      BY <2>1, <3>1
    <3>3. QED
      BY <1>2, <3>1, <3>2, WriteType DEF Tee
  <2>3. RetryTypeOK' /\ Cached' \in Files
    BY <1>2, <2>2, LoopvarsType, CachedFields, CachedFieldsNext DEF Tee
  <2>4. pending' \in [Recipes -> {"none"} \cup Verdicts]
    BY <1>2, WriteType DEF Tee
  <2>5. QED
    BY <1>2, <2>3, <2>4 DEF Tee
<1>3. CASE Interrupt
  <2>1. RetryTypeOK' /\ Cached' \in Files
    BY <1>3, RetryResetType, CachedFields, CachedFieldsNext DEF Interrupt, perrecipe
  <2>2. QED
    BY <1>3, <2>1 DEF Interrupt
<1>4. ASSUME NEW kept, GoDown(kept)
      PROVE  TypeOK'
  <2>1. Cached' \in Files /\ disk' \in Files
    BY <1>4, SurviveType DEF GoDown
  <2>2. RetryTypeOK'
    BY <1>4, <2>1, RetryResetType, CachedFieldsNext DEF GoDown
  <2>3. QED
    BY <1>4, <2>1, <2>2 DEF GoDown
<1>5. QED
  BY <1>1, <1>2, <1>3, <1>4 DEF Panic, HealthReboot

\* All variables of a round keep their types: the files always hold something
\* run-test.sh can have written, whatever is lost, and a recipe is under way
\* exactly between NextRecipe and Leave.
THEOREM TypeCorrect == Spec => []TypeOK
<1>1. TypeOK /\ [Next]_vars => TypeOK'
  <2>1. ASSUME TypeOK, UNCHANGED vars
        PROVE  TypeOK'
    <3>1. RetryTypeOK' /\ Cached' \in Files
      BY <2>1, LoopvarsType, CachedFields, CachedFieldsNext
         DEF TypeOK, vars, perrecipe, perround
    <3>2. QED
      BY <2>1, <3>1 DEF TypeOK, vars, process, bounds, history
  <2>2. QED
    BY <2>1, TypeOfShellSteps, TypeOfTrialSteps, TypeOfWorldSteps
       DEF Next, RunTest, RunRecipe
<1>2. QED
  BY TypeInit, <1>1, PTL DEF Spec
-----------------------------------------------------------------------------
\* CompletionIsDurable is not inductive: it also takes that the recipe under way
\* is not one whose completion was synced, so that neither its marks (SetRunning)
\* nor a skip (LoadSkips) overwrite a synced FINISHED, and that its own FINISHED
\* is still there when it is synced.
Walks == EnterDirectory \/ SkipDirectory \/ LeaveDirectory

UnderWay == Points \ {"off", "next", "recipe", "syncround"}

RunnerInv ==
  /\ TypeOK
  /\ CompletionIsDurable
  /\ pc \in UnderWay => recipe \notin synced
  /\ pc \in {"rmcurrent", "resume", "syncend"} => status[recipe] = "FINISHED"

\* Steps that touch neither run_status nor the disk keep the rest of the
\* invariant if they stay on the recipe or leave it.
LEMMA QuietStep ==
  ASSUME RunnerInv, UNCHANGED <<status, disk, synced>>,
         \/ pc \in UnderWay /\ UNCHANGED recipe /\ pc' \in UnderWay \ {"rmcurrent", "resume", "syncend"}
         \/ pc' \notin UnderWay
  PROVE  /\ CompletionIsDurable'
         /\ pc' \in UnderWay => recipe' \notin synced'
         /\ pc' \in {"rmcurrent", "resume", "syncend"} => status'[recipe'] = "FINISHED"
  BY DEF RunnerInv, CompletionIsDurable, UnderWay, Points

\* A completion that was synced is on disk and in the cache: a panic cannot
\* lose it.
LEMMA DurableGoDown ==
  ASSUME RunnerInv, NEW kept, GoDown(kept)
  PROVE  CompletionIsDurable'
<1>1. synced' = synced /\ synced \subseteq Recipes
  BY DEF GoDown, RunnerInv, TypeOK, history
<1>2. \A r \in synced : status'[r] = "FINISHED"
  BY <1>1 DEF GoDown, Survive, RunnerInv, CompletionIsDurable
<1>3. disk'.status = status'
  BY DEF GoDown, Survive, Cached
<1>4. QED
  BY <1>1, <1>2, <1>3 DEF CompletionIsDurable
\* Nothing changes for the invariant when only the other variables do.
LEMMA QuietStay ==
  ASSUME RunnerInv, UNCHANGED <<status, disk, synced, pc, recipe>>
  PROVE  /\ CompletionIsDurable'
         /\ pc' \in UnderWay => recipe' \notin synced'
         /\ pc' \in {"rmcurrent", "resume", "syncend"} => status'[recipe'] = "FINISHED"
  BY DEF RunnerInv, CompletionIsDurable

\* Every step keeps synced completions, and what it takes to keep them.
LEMMA DurableStep ==
  ASSUME RunnerInv, Next
  PROVE  /\ CompletionIsDurable'
         /\ pc' \in UnderWay => recipe' \notin synced'
         /\ pc' \in {"rmcurrent", "resume", "syncend"} => status'[recipe'] = "FINISHED"
<1> DEFINE Goal == /\ CompletionIsDurable'
                   /\ pc' \in UnderWay => recipe' \notin synced'
                   /\ pc' \in {"rmcurrent", "resume", "syncend"} => status'[recipe'] = "FINISHED"
<1> SUFFICES Goal
  OBVIOUS
<1>a. status \in [Recipes -> {"none", "RUNNING", "FINISHED", "SKIPPED"}]
  BY CachedFields DEF RunnerInv, TypeOK
<1>b. pc \in UnderWay => recipe \in Recipes /\ recipe \notin synced
  BY DEF RunnerInv, TypeOK, UnderWay
<1>c. synced \subseteq Recipes
  BY DEF RunnerInv, TypeOK
<1>1. CASE Walks \/ NextRecipe \/ NotFound \/ AlreadyRun \/ WrongSuffix \/ LoadExits
           \/ SetRoundFinished \/ StartRun \/ Interrupt
  <2>1. UNCHANGED <<status, disk, synced>> /\ pc' \notin UnderWay
    BY <1>1 DEF Walks, EnterDirectory, SkipDirectory, LeaveDirectory, NextRecipe,
                NotFound, AlreadyRun, WrongSuffix, LoadExits, SetRoundFinished, StartRun, Start, Interrupt, Leave, UnderWay,
                perrecipe, history
  <2>2. QED
    BY <2>1, QuietStep
<1>2. CASE Healthy \/ Load \/ AfterReboot \/ ResetReboot \/ SetCurrent
           \/ reset_per_testcase_counters \/ Try \/ Trials \/ Announce
  <2>1. UNCHANGED <<status, disk, synced, recipe>>
    BY <1>2 DEF Healthy, Load, AfterReboot, ResetReboot, SetCurrent,
                reset_per_testcase_counters, Try, Trials, Announce,
                perrecipe, history, process
  <2>2. pc \in UnderWay /\ pc' \in UnderWay \ {"rmcurrent", "resume", "syncend"}
    BY <1>2 DEF Healthy, Load, AfterReboot, ResetReboot, SetCurrent,
                reset_per_testcase_counters, Try, Trials, Announce, UnderWay, Points
  <2>3. QED
    BY <2>1, <2>2, QuietStep
<1>3. CASE RemoveCurrent \/ SetResume
  <2>1. /\ UNCHANGED <<status, disk, synced, recipe>>
        /\ pc \in {"rmcurrent", "resume"}
    BY <1>3 DEF RemoveCurrent, SetResume, perrecipe, history, process
  <2>2. QED
    BY <2>1, <1>b DEF RunnerInv, CompletionIsDurable, UnderWay, Points
<1>4. CASE Enter
  <2>1. /\ pc = "recipe" /\ pc' = "health" /\ UNCHANGED <<disk, recipe>>
        /\ recipe \in Recipes
    BY <1>4 DEF Enter, RunnerInv, TypeOK
  <2>2. CASE "AGAIN" \in opt
    BY <1>4, <1>a, <1>c, <2>1, <2>2 DEF Enter, RunnerInv, CompletionIsDurable
  <2>3. CASE "AGAIN" \notin opt
    <3>1. status[recipe] # "FINISHED" /\ UNCHANGED <<status, synced>>
      BY <1>4, <2>3 DEF Enter, check_testcase_already_run, perrecipe
    <3>2. QED
      BY <2>1, <3>1 DEF RunnerInv, CompletionIsDurable
  <2>4. QED
    BY <2>2, <2>3
<1>5. CASE LoadSkips \/ SetRunning
  <2>1. /\ pc \in UnderWay /\ UNCHANGED <<disk, synced>>
        /\ pc' = "next" \/ (pc' = "syncstart" /\ UNCHANGED recipe)
        /\ \/ status' = [status EXCEPT ![recipe] = "SKIPPED"]
           \/ status' = [status EXCEPT ![recipe] = "RUNNING"]
    BY <1>5 DEF LoadSkips, SetRunning, Leave, UnderWay, Points, history, process
  <2>2. \A r \in synced : status'[r] = status[r]
    BY <2>1, <1>a, <1>b, <1>c
  <2>3. QED
    BY <2>1, <2>2, <1>b DEF RunnerInv, CompletionIsDurable, UnderWay, Points
<1>6. CASE SetFinished
  <2>1. /\ pc = "end" /\ pc' = "rmcurrent" /\ UNCHANGED <<disk, synced, recipe>>
        /\ status' = [status EXCEPT ![recipe] = "FINISHED"]
    BY <1>6 DEF SetFinished, process
  <2>2. recipe \in Recipes /\ recipe \notin synced
    BY <2>1, <1>b DEF UnderWay, Points
  <2>3. QED
    BY <1>a, <1>c, <2>1, <2>2 DEF RunnerInv, CompletionIsDurable
<1>7. CASE SyncStart \/ SyncRound
  <2>1. /\ UNCHANGED <<status, synced, recipe>> /\ disk'.status = status
        /\ (pc = "syncstart" /\ pc' = "counters") \/ pc' = "off"
    BY <1>7 DEF SyncStart, SyncRound, sync, Cached, perrecipe, process, history
  <2>2. QED
    BY <2>1, <1>b DEF RunnerInv, CompletionIsDurable, UnderWay, Points
<1>8. CASE SyncEnd
  <2>1. /\ UNCHANGED status /\ disk'.status = status /\ pc = "syncend" /\ pc' = "next"
        /\ synced' = synced \cup {recipe}
    BY <1>8 DEF SyncEnd, Leave, sync, Cached, perrecipe
  <2>2. QED
    BY <2>1 DEF RunnerInv, CompletionIsDurable, UnderWay
<1>9. CASE \E r \in Recipes : Tee(r)
  <2>1. UNCHANGED <<status, disk, synced, pc, recipe>>
    BY <1>9 DEF Tee, history
  <2>2. QED
    BY <2>1, QuietStay
<1>10. CASE Panic \/ HealthReboot
  <2>1. PICK kept : GoDown(kept)
    BY <1>10 DEF Panic, HealthReboot
  <2>2. QED
    BY <2>1, DurableGoDown DEF GoDown, UnderWay
<1>11. QED
  BY <1>1, <1>2, <1>3, <1>4, <1>5, <1>6, <1>7, <1>8, <1>9, <1>10
     DEF Next, RunTest, RunRecipe, Walks

\* A testcase whose completion was synced stays FINISHED, in the running system
\* and on disk, through any number of panics that lose any unsynced writes,
\* interruptions and restarts with any options, until AGAIN removes its files.
THEOREM DurableCompletion == Spec => []CompletionIsDurable
<1>1. Init => RunnerInv
  BY TypeInit DEF Init, RunnerInv, CompletionIsDurable, UnderWay
<1>2. TypeOK /\ TypeOK' /\ RunnerInv /\ [Next]_vars => RunnerInv'
  <2>1. ASSUME RunnerInv, UNCHANGED vars
        PROVE  /\ CompletionIsDurable'
               /\ pc' \in UnderWay => recipe' \notin synced'
               /\ pc' \in {"rmcurrent", "resume", "syncend"} => status'[recipe'] = "FINISHED"
    BY <2>1, QuietStay DEF vars, perrecipe, process, history
  <2>2. QED
    BY <2>1, DurableStep DEF RunnerInv
<1>3. RunnerInv => CompletionIsDurable
  BY DEF RunnerInv
<1>4. QED
  BY <1>1, <1>2, <1>3, TypeCorrect, PTL DEF Spec
-----------------------------------------------------------------------------
\* The recipelist and the resume point.  generate_recipelist cuts the list by
\* lines, run_recipes works through what is left by rank: the two agree if the
\* recipelist is in the order of recipe.rb.
SortedList ==
  \A i, j \in DOMAIN Recipelist : i < j => Rank[Recipelist[i]] < Rank[Recipelist[j]]

Listed == ToSet(Recipelist)

\* The recipe r that runs and the recipes q that wait come after the resume
\* point p, in their order (c is the control point).
Ahead(q, r, p, c) ==
  /\ q \subseteq Listed \cap Selected
  /\ p \in Listed => \A x \in q : Rank[p] < Rank[x]
  /\ r # NoRecipe =>
       /\ r \in Listed \cap Selected
       /\ \A x \in q : Rank[r] < Rank[x]
       /\ p \in Listed /\ c # "syncend" => Rank[p] < Rank[r]

\* All selected recipes up to p are in S.
Point(S, p) ==
  p \in Listed => \A x \in Listed \cap Selected : Rank[x] <= Rank[p] => x \in S

\* So are, while run-test.sh runs, all that it has not still to deal with.
Progress(S, q, r, p, c) ==
  /\ Point(S, p)
  /\ c # "off" => Listed \cap Selected \subseteq q \cup {r} \cup S
  /\ c \in {"rmcurrent", "resume", "syncend"} => r \in S

\* In a sorted list places and ranks are in the same order.
LEMMA RankOrder ==
  ASSUME SortedList, NEW i \in DOMAIN Recipelist, NEW j \in DOMAIN Recipelist
  PROVE  i <= j <=> Rank[Recipelist[i]] <= Rank[Recipelist[j]]
<1>1. i \in Nat /\ j \in Nat /\ Recipelist[i] \in Recipes /\ Recipelist[j] \in Recipes
  BY RunnerAssumption
<1>2. Rank[Recipelist[i]] \in Nat /\ Rank[Recipelist[j]] \in Nat
  BY <1>1, RunnerAssumption
<1>3. CASE i < j
  BY <1>1, <1>2, <1>3 DEF SortedList
<1>4. CASE j < i
  BY <1>1, <1>2, <1>4 DEF SortedList
<1>5. CASE i = j
  BY <1>1, <1>2, <1>5
<1>6. QED
  BY <1>1, <1>3, <1>4, <1>5

\* The recipes of the list are told apart by their ranks.
LEMMA ListedRanks ==
  ASSUME SortedList
  PROVE  /\ Listed \subseteq Recipes
         /\ \A x \in Listed : Rank[x] \in Nat
         /\ \A x, y \in Listed : Rank[x] = Rank[y] => x = y
<1>1. Listed \subseteq Recipes
  BY RunnerAssumption DEF Listed, ToSet
<1>2. \A x \in Listed : Rank[x] \in Nat
  BY <1>1, RunnerAssumption
<1>3. ASSUME NEW x \in Listed, NEW y \in Listed, Rank[x] = Rank[y]
      PROVE  x = y
  <2>1. PICK i \in DOMAIN Recipelist : Recipelist[i] = x
    BY DEF Listed, ToSet
  <2>2. PICK j \in DOMAIN Recipelist : Recipelist[j] = y
    BY DEF Listed, ToSet
  <2>3. i <= j /\ j <= i
    BY <1>2, <1>3, <2>1, <2>2, RankOrder
  <2>4. i \in Nat /\ j \in Nat
    BY RunnerAssumption
  <2>5. QED
    BY <2>1, <2>2, <2>3, <2>4
<1>4. QED
  BY <1>1, <1>2, <1>3

\* What generate_recipelist leaves of the list are the recipes after the resume
\* point.
LEMMA RemainingRanks ==
  ASSUME SortedList, resume \in Listed
  PROVE  Remaining = {x \in Listed : Rank[resume] < Rank[x]}
<1> DEFINE after == {i \in DOMAIN Recipelist :
                       \A j \in i .. Len(Recipelist) : Recipelist[j] # resume}
<1>1. Remaining = {Recipelist[i] : i \in after}
  BY DEF Remaining, Listed
<1>2. PICK k \in DOMAIN Recipelist : Recipelist[k] = resume
  BY DEF Listed, ToSet
<1>3. DOMAIN Recipelist = 1 .. Len(Recipelist) /\ Len(Recipelist) \in Nat
  BY RunnerAssumption
<1>4. ASSUME NEW i \in DOMAIN Recipelist
      PROVE  i \in after <=> Rank[resume] < Rank[Recipelist[i]]
  <2>1. Recipelist[i] \in Listed
    BY DEF Listed, ToSet
  <2>2. Rank[resume] < Rank[Recipelist[i]] <=> ~ (i <= k)
    BY <1>2, <2>1, RankOrder, ListedRanks
  <2>3. CASE i <= k
    BY <1>2, <1>3, <2>2, <2>3
  <2>4. CASE ~ (i <= k)
    <3>1. ASSUME NEW j \in i .. Len(Recipelist), Recipelist[j] = resume
          PROVE  FALSE
      <4>1. j \in DOMAIN Recipelist
        BY <1>3
      <4>2. j <= k
        BY <1>2, <3>1, <4>1, RankOrder, ListedRanks
      <4>3. QED
        BY <1>3, <2>4, <4>1, <4>2
    <3>2. QED
      BY <2>2, <2>4, <3>1
  <2>5. QED
    BY <2>3, <2>4
<1>5. QED
  BY <1>1, <1>4 DEF Listed, ToSet

\* Steps that stay on the recipe, or only end the round.
LEMMA StayOn ==
  ASSUME SortedList, NEW q, NEW r \in Recipes \cup {NoRecipe}, NEW p, NEW c, NEW d,
         NEW S, NEW T,
         Ahead(q, r, p, c), Progress(S, q, r, p, c),
         c # "syncend", c # "off" \/ d = "off",
         S \ {r} \subseteq T,
         d \in {"rmcurrent", "resume", "syncend"} => r \in T
  PROVE  Ahead(q, r, p, d) /\ Progress(T, q, r, p, d)
<1>1. Ahead(q, r, p, d)
  BY DEF Ahead
<1>2. p \in Listed => r \notin Listed \/ Rank[p] < Rank[r]
  BY RunnerAssumption, ListedRanks DEF Ahead
<1>3. Point(T, p)
  <2>1. SUFFICES ASSUME p \in Listed, NEW x \in Listed \cap Selected, Rank[x] <= Rank[p]
                 PROVE  x \in T
    BY DEF Point
  <2>2. x # r
    BY <1>2, <2>1, ListedRanks
  <2>3. QED
    BY <2>1, <2>2 DEF Progress, Point
<1>4. d # "off" => Listed \cap Selected \subseteq q \cup {r} \cup T
  BY DEF Progress
<1>5. QED
  BY <1>1, <1>3, <1>4 DEF Progress

\* run_recipe returns: the recipe is dealt with.
LEMMA LeaveIt ==
  ASSUME NEW q, NEW r, NEW p, NEW c, NEW S, NEW T,
         Ahead(q, r, p, c), Progress(S, q, r, p, c), c # "off", S \cup {r} \subseteq T
  PROVE  Ahead(q, NoRecipe, p, "next") /\ Progress(T, q, NoRecipe, p, "next")
  BY DEF Ahead, Progress, Point

\* run_recipes takes the recipe of the lowest rank.
LEMMA TakeIt ==
  ASSUME SortedList, NEW q, NEW p, NEW S, NEW r \in q,
         Ahead(q, NoRecipe, p, "next"), Progress(S, q, NoRecipe, p, "next"),
         \A x \in q : Rank[r] <= Rank[x]
  PROVE  Ahead(q \ {r}, r, p, "recipe") /\ Progress(S, q \ {r}, r, p, "recipe")
<1>1. q \subseteq Listed /\ r \in Listed \cap Selected
  BY DEF Ahead
<1>2. \A x \in q \ {r} : Rank[r] < Rank[x]
  <2>1. SUFFICES ASSUME NEW x \in q \ {r} PROVE Rank[r] < Rank[x]
    OBVIOUS
  <2>2. Rank[r] \in Nat /\ Rank[x] \in Nat /\ Rank[r] # Rank[x] /\ Rank[r] <= Rank[x]
    BY <1>1, <2>1, ListedRanks
  <2>3. QED
    BY <2>2
<1>3. Ahead(q \ {r}, r, p, "recipe")
  BY <1>1, <1>2 DEF Ahead
<1>4. NoRecipe \notin Listed
  BY RunnerAssumption, ListedRanks
<1>5. QED
  BY <1>3, <1>4 DEF Progress

\* The recipe that has ended becomes the resume point: everything of a lower
\* rank is dealt with.
LEMMA ResumeIt ==
  ASSUME SortedList, NEW q, NEW r \in Recipes, NEW p, NEW S,
         Ahead(q, r, p, "resume"), Progress(S, q, r, p, "resume")
  PROVE  Ahead(q, r, r, "syncend") /\ Progress(S, q, r, r, "syncend")
<1>1. r # NoRecipe
  BY RunnerAssumption
<1>2. Ahead(q, r, r, "syncend")
  BY <1>1 DEF Ahead
<1>3. Point(S, r)
  <2>1. SUFFICES ASSUME NEW x \in Listed \cap Selected, Rank[x] <= Rank[r]
                 PROVE  x \in S
    BY DEF Point
  <2>2. x \notin q
    <3>1. SUFFICES ASSUME x \in q PROVE FALSE
      OBVIOUS
    <3>2. Rank[r] < Rank[x] /\ r \in Listed
      BY <1>1, <3>1 DEF Ahead
    <3>3. Rank[r] \in Nat /\ Rank[x] \in Nat
      BY <3>2, ListedRanks
    <3>4. QED
      BY <2>1, <3>2, <3>3
  <2>3. QED
    BY <2>2 DEF Progress
<1>4. QED
  BY <1>2, <1>3 DEF Progress

\* The process is gone: only the resume point remains.
LEMMA StopIt ==
  ASSUME NEW p, NEW S, Point(S, p)
  PROVE  Ahead({}, NoRecipe, p, "off") /\ Progress(S, {}, NoRecipe, p, "off")
  BY DEF Ahead, Progress

\* A start without AGAIN continues after the resume point, one with AGAIN starts
\* from the beginning.
LEMMA BeginIt ==
  ASSUME SortedList, NEW S
  PROVE  /\ Point(S, resume) =>
              /\ Ahead(Plan(Remaining), NoRecipe, resume, "next")
              /\ Progress(S, Plan(Remaining), NoRecipe, resume, "next")
         /\ Ahead(Plan(ToSet(Recipelist)), NoRecipe, NoRecipe, "next")
         /\ Progress(S, Plan(ToSet(Recipelist)), NoRecipe, NoRecipe, "next")
<1>1. NoRecipe \notin Listed
  BY RunnerAssumption, ListedRanks
<1>2. Plan(ToSet(Recipelist)) = Listed \cap Selected
  BY DEF Plan, Listed
<1>3. /\ Ahead(Listed \cap Selected, NoRecipe, NoRecipe, "next")
      /\ Progress(S, Listed \cap Selected, NoRecipe, NoRecipe, "next")
  BY <1>1 DEF Ahead, Progress, Point
<1>4. ASSUME resume \in Listed, Point(S, resume)
      PROVE  /\ Ahead(Plan(Remaining), NoRecipe, resume, "next")
             /\ Progress(S, Plan(Remaining), NoRecipe, resume, "next")
  <2>1. Plan(Remaining) = {x \in Listed : Rank[resume] < Rank[x]} \cap Selected
    BY <1>4, RemainingRanks DEF Plan
  <2>2. \A x \in Listed : Rank[resume] < Rank[x] \/ Rank[x] <= Rank[resume]
    BY <1>4, ListedRanks
  <2>3. Ahead(Plan(Remaining), NoRecipe, resume, "next")
    BY <2>1 DEF Ahead
  <2>4. Listed \cap Selected \subseteq Plan(Remaining) \cup S
    BY <1>4, <2>1, <2>2 DEF Point
  <2>5. QED
    BY <1>4, <2>3, <2>4 DEF Progress
<1>5. ASSUME resume \notin Listed
      PROVE  /\ Ahead(Plan(Remaining), NoRecipe, resume, "next")
             /\ Progress(S, Plan(Remaining), NoRecipe, resume, "next")
  <2>1. Plan(Remaining) = Listed \cap Selected
    BY <1>5 DEF Plan, Remaining, Listed
  <2>2. QED
    BY <1>5, <2>1 DEF Ahead, Progress, Point
<1>6. QED
  BY <1>2, <1>3, <1>4, <1>5

\* A step that deals with recipes leads from S to T: only the recipe under way
\* may fall out, and it is in T when run_recipe has returned or the recipe has
\* ended, as are the recipes of a directory that is skipped.
DealsWith(S, T) ==
  /\ pc # "off" => S \ {recipe} \subseteq T
  /\ pc = "off" /\ "AGAIN" \notin opt' => S \subseteq T
  /\ pc # "off" /\ pc' = "next" => S \cup {recipe} \subseteq T \cup {NoRecipe}
  /\ pc = "next" \/ pc' = "off" => S \subseteq T
  /\ pc = "next" /\ pc' = "next" => queue \ queue' \subseteq T
  /\ pc' \in {"rmcurrent", "resume", "syncend"} => recipe \in T

\* Steps of run-test.sh that neither take nor leave a recipe.
Stays ==
  \/ Enter \/ Healthy \/ Load \/ AfterReboot \/ ResetReboot \/ SetCurrent \/ SetRunning
  \/ SyncStart \/ reset_per_testcase_counters \/ Try \/ Trials \/ Announce
  \/ SetFinished \/ RemoveCurrent \/ SetRoundFinished \/ SyncRound

\* Steps that return from run_recipe.
Leaves ==
  NotFound \/ AlreadyRun \/ WrongSuffix \/ LoadExits \/ LoadSkips \/ SyncEnd

\* Every step but a panic keeps the order of the list and the progress along it.
LEMMA ListStep ==
  ASSUME SortedList, TypeOK, NEW S, NEW T, DealsWith(S, T),
         Ahead(queue, recipe, resume, pc), Progress(S, queue, recipe, resume, pc),
         StartRun \/ RunTest \/ Interrupt
  PROVE  /\ Ahead(queue', recipe', resume', pc')
         /\ Progress(T, queue', recipe', resume', pc')
<1>1. CASE Stays
  <2>1. UNCHANGED <<queue, recipe, resume>>
    BY <1>1 DEF Stays, Enter, Healthy, Load, AfterReboot, ResetReboot, SetCurrent,
                SetRunning, SyncStart, reset_per_testcase_counters, Try, Trials, Announce,
                SetFinished, RemoveCurrent, SetRoundFinished, SyncRound, perround, process
  <2>2. pc # "syncend" /\ pc # "off"
    BY <1>1 DEF Stays, Enter, Healthy, Load, AfterReboot, ResetReboot, SetCurrent,
                SetRunning, SyncStart, reset_per_testcase_counters, Try, Trials, Announce,
                SetFinished, RemoveCurrent, SetRoundFinished, SyncRound
  <2>3. recipe \in Recipes \cup {NoRecipe}
    BY DEF TypeOK
  <2>4. S \ {recipe} \subseteq T /\ (pc' \in {"rmcurrent", "resume", "syncend"} => recipe \in T)
    BY <2>2 DEF DealsWith
  <2>5. Ahead(queue, recipe, resume, pc') /\ Progress(T, queue, recipe, resume, pc')
    BY <2>2, <2>3, <2>4, StayOn
  <2>6. QED
    BY <2>1, <2>5
<1>2. CASE Leaves
  <2>1. /\ UNCHANGED <<queue, resume>> /\ recipe' = NoRecipe /\ pc' = "next"
        /\ pc \notin {"off", "next", "syncround"}
    BY <1>2 DEF Leaves, NotFound, AlreadyRun, WrongSuffix, LoadExits, LoadSkips, SyncEnd,
                Leave, perround
  <2>2. recipe \in Recipes
    BY <2>1 DEF TypeOK
  <2>3. (S \ {NoRecipe}) \cup {recipe} \subseteq T
    BY <2>1, <2>2, RunnerAssumption DEF DealsWith
  <2>4. Progress(S \ {NoRecipe}, queue, recipe, resume, pc)
    BY <2>2, RunnerAssumption, ListedRanks DEF Progress, Point
  <2>5. QED
    BY <2>1, <2>3, <2>4, LeaveIt
<1>d. CASE Walks
  <2>1. /\ pc = "next" /\ pc' = "next" /\ UNCHANGED <<recipe, resume>>
        /\ queue' \subseteq queue
    BY <1>d DEF Walks, EnterDirectory, SkipDirectory, LeaveDirectory, perround
  <2>2. S \subseteq T /\ queue \subseteq queue' \cup T
    BY <2>1 DEF DealsWith
  <2>3. Ahead(queue', recipe, resume, "next")
    BY <2>1 DEF Ahead
  <2>4. Progress(T, queue', recipe, resume, "next")
    BY <2>1, <2>2 DEF Progress, Point
  <2>5. QED
    BY <2>1, <2>3, <2>4
<1>3. CASE NextRecipe
  <2>1. /\ pc = "next" /\ pc' = "recipe" /\ resume' = resume
        /\ \A x \in queue : Rank[recipe'] <= Rank[x]
        /\ recipe' \in queue /\ queue' = queue \ {recipe'}
    BY <1>3 DEF NextRecipe, IsFirst, perround
  <2>2. recipe = NoRecipe
    BY <2>1 DEF TypeOK
  <2>3. Progress(T, queue, NoRecipe, resume, "next")
    BY <2>1, <2>2 DEF Progress, Point, DealsWith
  <2>4. /\ Ahead(queue \ {recipe'}, recipe', resume, "recipe")
        /\ Progress(T, queue \ {recipe'}, recipe', resume, "recipe")
    BY <2>1, <2>2, <2>3, TakeIt
  <2>5. QED
    BY <2>1, <2>4
<1>4. CASE SetResume
  <2>1. /\ pc = "resume" /\ pc' = "syncend" /\ UNCHANGED <<queue, recipe>>
        /\ resume' = recipe
    BY <1>4 DEF SetResume, process
  <2>2. recipe \in Recipes
    BY <2>1 DEF TypeOK
  <2>3. Progress(T, queue, recipe, resume, "resume")
    BY <2>1 DEF Progress, Point, DealsWith
  <2>4. QED
    BY <2>1, <2>2, <2>3, ResumeIt
<1>5. CASE Interrupt
  <2>1. /\ pc' = "off" /\ queue' = {} /\ recipe' = NoRecipe /\ resume' = resume
    BY <1>5 DEF Interrupt, perround
  <2>2. Point(T, resume)
    BY <2>1 DEF Progress, Point, DealsWith
  <2>3. QED
    BY <2>1, <2>2, StopIt
<1>6. CASE StartRun
  <2>1. PICK o \in OptionSets : Start(o)
    BY <1>6 DEF StartRun
  <2>2. pc = "off" /\ pc' = "next" /\ recipe' = NoRecipe /\ opt' = o
    BY <2>1 DEF Start, TypeOK
  <2>3. CASE "AGAIN" \in o
    <3>1. resume' = NoRecipe /\ queue' = Plan(ToSet(Recipelist))
      BY <2>1, <2>3 DEF Start
    <3>2. QED
      BY <2>2, <3>1, BeginIt
  <2>4. CASE "AGAIN" \notin o
    <3>1. resume' = resume /\ queue' = Plan(Remaining)
      BY <2>1, <2>4 DEF Start
    <3>2. Point(T, resume)
      BY <2>2, <2>4 DEF Progress, Point, DealsWith
    <3>3. QED
      BY <2>2, <3>1, <3>2, BeginIt
  <2>5. QED
    BY <2>3, <2>4
<1>7. QED
  BY <1>d, <1>1, <1>2, <1>3, <1>4, <1>5, <1>6 DEF RunTest, RunRecipe, Stays, Leaves, Walks

-----------------------------------------------------------------------------
\* ResumePointIsSound is not inductive: it also takes that what run_recipes still
\* has to do lies after the resume point (Ahead), that everything else is dealt
\* with (Progress), and that the resume point a panic may bring back from disk is
\* sound too.  The last part is what NoRecipeDropped needs of the mark of a finished
\* round, which a panic may bring back as well.
Seen == ended \cup passed \cup Unconfigured

Complete(S) == Listed \cap Selected \subseteq S

ResumeInv ==
  /\ Ahead(queue, recipe, resume, pc)
  /\ Progress(Seen, queue, recipe, resume, pc)
  /\ finished = "yes" => pc \in {"off", "syncround"} /\ Complete(Seen)
  /\ MaxPanics > 0 => /\ Point(Seen, disk.resume)
                      /\ disk.finished = "yes" => Complete(Seen)

\* A directory that is skipped takes its recipes along, and no others.
LEMMA WalkDeals ==
  ASSUME Walks
  PROVE  /\ pc = "next" /\ pc' = "next" /\ UNCHANGED <<ended, passed>>
         /\ Unconfigured \subseteq Unconfigured' /\ queue \cap Recipes \subseteq queue' \cup Unconfigured'
<1>1. CASE EnterDirectory \/ LeaveDirectory
  BY <1>1 DEF EnterDirectory, LeaveDirectory, history, Unconfigured, In
<1>2. CASE SkipDirectory
  <2>1. PICK d : queue' = queue \ Linerecipe(d) /\ refused' = refused \cup {d}
    BY <1>2 DEF SkipDirectory
  <2>2. \A x \in Linerecipe(d) : In(d, x)
    BY DEF Linerecipe
  <2>3. Unconfigured \subseteq Unconfigured' /\ queue \cap Recipes \subseteq queue' \cup Unconfigured'
    BY <2>1, <2>2 DEF Unconfigured, In
  <2>4. QED
    BY <1>2, <2>3 DEF SkipDirectory
<1>3. QED
  BY <1>1, <1>2 DEF Walks

\* The other steps of a round refuse no directory.
LEMMA OthersRefuseNothing ==
  ASSUME RunTest \/ Interrupt, ~SkipDirectory
  PROVE  Unconfigured' = Unconfigured
<1>1. refused' = refused
  BY DEF RunTest, RunRecipe, EnterDirectory, LeaveDirectory, NextRecipe, NotFound, AlreadyRun,
         Enter, WrongSuffix, Healthy, LoadExits, LoadSkips, Load, AfterReboot, ResetReboot,
         SetCurrent, SetRunning, SyncStart, reset_per_testcase_counters, Try, Trials, Announce,
         SetFinished, RemoveCurrent, SetResume, SyncEnd, SetRoundFinished, SyncRound, Interrupt,
         history
<1>2. QED
  BY <1>1 DEF Unconfigured, In

\* Recipes that ended or were left early.
LEMMA SeenDeals ==
  ASSUME TypeOK, Progress(Seen, queue, recipe, resume, pc),
         StartRun \/ RunTest \/ Interrupt
  PROVE  DealsWith(Seen, Seen')
<1>1. CASE StartRun
  <2>1. PICK o \in OptionSets : Start(o)
    BY <1>1 DEF StartRun
  <2>2. pc = "off" /\ pc' = "next" /\ opt' = o
    BY <2>1 DEF Start
  <2>3. "AGAIN" \notin o => Seen' = Seen
    BY <2>1 DEF Start, Seen, Unconfigured, In
  <2>4. QED
    BY <2>2, <2>3 DEF DealsWith
<1>d. CASE Walks
  <2>1. queue \subseteq Recipes /\ recipe = NoRecipe
    BY <1>d, WalkDeals DEF TypeOK
  <2>2. QED
    BY <1>d, <2>1, WalkDeals DEF DealsWith, Seen
<1>e. ~SkipDirectory /\ ~StartRun => Unconfigured' = Unconfigured
  BY OthersRefuseNothing
<1>f. SkipDirectory => Walks
  BY DEF Walks
<1>2. CASE Leaves /\ ~Walks
  <2>1. Seen \subseteq Seen' /\ pc # "next" /\ pc' = "next" /\ recipe \in Seen' \cup {NoRecipe}
    <3>1. CASE NotFound \/ AlreadyRun \/ WrongSuffix \/ LoadExits \/ LoadSkips
      BY <1>2, <1>e, <1>f, <3>1 DEF NotFound, AlreadyRun, WrongSuffix, LoadExits, LoadSkips,
         StartRun, Start, Leave, Seen
    <3>2. CASE SyncEnd
      BY <1>2, <1>e, <1>f, <3>2 DEF SyncEnd, StartRun, Start, Leave, Progress, Seen
    <3>3. QED
      BY <1>2, <3>1, <3>2 DEF Leaves
  <2>2. QED
    BY <2>1 DEF DealsWith
<1>3. CASE SetFinished /\ ~Walks
  <2>1. Seen' = Seen \cup {recipe} /\ pc = "end" /\ pc' = "rmcurrent"
    BY <1>3, <1>e, <1>f DEF SetFinished, StartRun, Start, Seen
  <2>2. QED
    BY <2>1 DEF DealsWith
<1>4. CASE (RemoveCurrent \/ SetResume) /\ ~Walks
  <2>1. Seen' = Seen /\ pc \in {"rmcurrent", "resume"} /\ pc' \in {"resume", "syncend"}
    BY <1>4, <1>e, <1>f DEF RemoveCurrent, SetResume, StartRun, Start, Seen, history
  <2>2. recipe \in Seen
    BY <2>1 DEF Progress
  <2>3. QED
    BY <2>1, <2>2 DEF DealsWith
<1>5. CASE ((Stays /\ ~SetFinished /\ ~RemoveCurrent) \/ NextRecipe \/ Interrupt) /\ ~Walks /\ ~StartRun
  <2>1. Seen' = Seen /\ pc # "off" /\ pc' \notin {"next", "rmcurrent", "resume", "syncend"}
    BY <1>5, <1>e, <1>f DEF Stays, Enter, Healthy, Load, AfterReboot, ResetReboot, SetCurrent,
                SetRunning, SyncStart, reset_per_testcase_counters, Try, Trials, Announce,
                SetRoundFinished, SyncRound, NextRecipe, Interrupt, history, Seen, TypeOK, Points
  <2>2. QED
    BY <2>1 DEF DealsWith
<1>6. QED
  BY <1>d, <1>1, <1>2, <1>3, <1>4, <1>5 DEF RunTest, RunRecipe, Stays, Leaves, Walks

\* The round is marked finished only when nothing is left to deal with, and no
\* step of a finished round takes anything back.
LEMMA MarkedComplete ==
  ASSUME TypeOK, NEW S, NEW T, DealsWith(S, T), Progress(S, queue, recipe, resume, pc),
         finished = "yes" => pc \in {"off", "syncround"} /\ Complete(S),
         StartRun \/ RunTest \/ Interrupt, finished' = "yes",
         SetRoundFinished \/ SyncRound \/ Interrupt => S \subseteq T
  PROVE  pc' \in {"off", "syncround"} /\ Complete(T)
<1>1. CASE StartRun
  BY <1>1 DEF StartRun, Start
<1>2. CASE SetRoundFinished
  <2>1. pc = "next" /\ queue = {} /\ pc' = "syncround" /\ recipe = NoRecipe
    BY <1>2 DEF SetRoundFinished, TypeOK
  <2>2. NoRecipe \notin Listed
    BY RunnerAssumption DEF Listed, ToSet
  <2>3. QED
    BY <1>2, <2>1, <2>2 DEF Progress, Complete
<1>3. CASE SyncRound \/ Interrupt
  <2>1. finished' = finished /\ pc' = "off"
    BY <1>3 DEF SyncRound, Interrupt, perround
  <2>2. QED
    BY <1>3, <2>1 DEF Complete
<1>4. CASE Walks \/ NextRecipe \/ RunRecipe
  <2>1. finished' = finished
    BY <1>4 DEF Walks, EnterDirectory, SkipDirectory, LeaveDirectory, RunRecipe, NextRecipe,
                NotFound, AlreadyRun, Enter, WrongSuffix,
                Healthy, LoadExits, LoadSkips, Load, AfterReboot, ResetReboot, SetCurrent,
                SetRunning, SyncStart, reset_per_testcase_counters, Try, Trials, Announce,
                SetFinished, RemoveCurrent, SetResume, SyncEnd, perround
  <2>2. pc \notin {"off", "syncround"}
    BY <1>4 DEF Walks, EnterDirectory, SkipDirectory, LeaveDirectory, RunRecipe, NextRecipe,
                NotFound, AlreadyRun, Enter, WrongSuffix,
                Healthy, LoadExits, LoadSkips, Load, AfterReboot, ResetReboot, SetCurrent,
                SetRunning, SyncStart, reset_per_testcase_counters, Try, Trials, Announce,
                SetFinished, RemoveCurrent, SetResume, SyncEnd
  <2>3. QED
    BY <2>1, <2>2
<1>5. QED
  BY <1>1, <1>2, <1>3, <1>4 DEF RunTest, Walks

\* Nothing but the files on disk and the history changes when they do not.
LEMMA ResumeQuiet ==
  ASSUME ResumeInv, UNCHANGED <<queue, recipe, resume, finished, pc, disk, ended, passed, refused>>
  PROVE  ResumeInv'
  BY DEF ResumeInv, Ahead, Progress, Point, Seen, Complete, Unconfigured, In

\* Whatever a panic keeps, the resume point is the cached one or the one on disk.
LEMMA ResumeGoDown ==
  ASSUME ResumeInv, TypeOK, NEW kept, GoDown(kept)
  PROVE  ResumeInv'
<1>1. MaxPanics > 0
  BY RunnerAssumption DEF GoDown, TypeOK
<1>2. /\ pc' = "off" /\ queue' = {} /\ recipe' = NoRecipe /\ Seen' = Seen
      /\ resume' = resume \/ resume' = disk.resume
      /\ finished' = finished \/ finished' = disk.finished
      /\ disk'.resume = resume' /\ disk'.finished = finished'
  BY DEF GoDown, Survive, Cached, history, Seen, Unconfigured, In
<1>3. Point(Seen, resume') /\ (finished' = "yes" => Complete(Seen))
  BY <1>1, <1>2 DEF ResumeInv, Progress
<1>4. /\ Ahead({}, NoRecipe, resume', "off")
      /\ Progress(Seen, {}, NoRecipe, resume', "off")
  BY <1>3, StopIt
<1>5. QED
  BY <1>2, <1>3, <1>4 DEF ResumeInv, Ahead, Progress, Point, Complete

\* The disk holds a resume point that was sound when it was synced, and stays so
\* as long as no AGAIN starts the round anew.
LEMMA ResumeOnDisk ==
  ASSUME ResumeInv, TypeOK, StartRun \/ RunTest \/ Interrupt,
         \A o \in OptionSets : "AGAIN" \notin o, MaxPanics > 0
  PROVE  Point(Seen', disk'.resume) /\ (disk'.finished = "yes" => Complete(Seen'))
<1>1. Seen \subseteq Seen'
  <2>1. CASE StartRun
    <3>1. PICK o \in OptionSets : Start(o)
      BY <2>1 DEF StartRun
    <3>2. QED
      BY <3>1 DEF Start, Seen, Unconfigured, In
  <2>2. CASE Interrupt
    BY <2>2 DEF Interrupt, history, Seen, Unconfigured, In
  <2>d. CASE Walks
    BY <2>d, WalkDeals DEF Seen
  <2>3. CASE RunTest /\ ~Walks
    BY <2>3, OthersRefuseNothing DEF Walks, RunTest, RunRecipe, NextRecipe, NotFound, AlreadyRun, Enter, WrongSuffix,
                Healthy, LoadExits, LoadSkips, Load, AfterReboot, ResetReboot, SetCurrent,
                SetRunning, SyncStart, reset_per_testcase_counters, Try, Trials, Announce,
                SetFinished, RemoveCurrent, SetResume, SyncEnd, SetRoundFinished, SyncRound,
                history, Seen
  <2>4. QED
    BY <2>1, <2>2, <2>d, <2>3
<1>2. disk' = disk \/ (disk'.resume = resume /\ disk'.finished = finished)
  <2>1. CASE SyncStart \/ SyncEnd \/ SyncRound
    BY <2>1 DEF SyncStart, SyncEnd, SyncRound, sync, Cached
  <2>2. CASE StartRun
    BY <2>2 DEF StartRun, Start
  <2>3. CASE ~(SyncStart \/ SyncEnd \/ SyncRound) /\ ~StartRun
    BY <2>3 DEF RunTest, EnterDirectory, SkipDirectory, LeaveDirectory, RunRecipe,
                NextRecipe, NotFound, AlreadyRun, Enter, WrongSuffix,
                Healthy, LoadExits, LoadSkips, Load, AfterReboot, ResetReboot, SetCurrent,
                SetRunning, reset_per_testcase_counters, Try, Trials, Announce,
                SetFinished, RemoveCurrent, SetResume, SetRoundFinished, Interrupt
  <2>4. QED
    BY <2>1, <2>2, <2>3
<1>3. /\ Point(Seen, disk.resume) /\ Point(Seen, resume)
      /\ finished = "yes" \/ disk.finished = "yes" => Complete(Seen)
  BY DEF ResumeInv, Progress
<1>4. QED
  BY <1>1, <1>2, <1>3 DEF Point, Complete

\* Only a start with AGAIN takes anything back from what was dealt with.
LEMMA EndKeepsSeen ==
  ASSUME SetRoundFinished \/ SyncRound \/ Interrupt
  PROVE  Seen' = Seen
  BY DEF SetRoundFinished, SyncRound, Interrupt, history, Seen, Unconfigured, In

\* The invariant, for the two theorems that rest on it.
LEMMA ResumeInvariant ==
  ASSUME SortedList, MaxPanics = 0 \/ \A o \in OptionSets : "AGAIN" \notin o
  PROVE  Spec => []ResumeInv
<1>1. Init => ResumeInv
  <2>1. SUFFICES ASSUME Init PROVE ResumeInv
    OBVIOUS
  <2>2. NoRecipe \notin Listed /\ disk.resume = NoRecipe /\ disk.finished = "no"
    BY <2>1, RunnerAssumption, ListedRanks DEF Init, Cached
  <2>3. QED
    BY <2>1, <2>2 DEF Init, ResumeInv, Ahead, Progress, Point
<1>2. ASSUME TypeOK, ResumeInv, [Next]_vars
      PROVE  ResumeInv'
  <2>1. CASE StartRun \/ RunTest \/ Interrupt
    <3>1. /\ Ahead(queue', recipe', resume', pc')
          /\ Progress(Seen', queue', recipe', resume', pc')
      BY <1>2, <2>1, SeenDeals, ListStep DEF ResumeInv
    <3>2. MaxPanics > 0 => /\ Point(Seen', disk'.resume)
                           /\ disk'.finished = "yes" => Complete(Seen')
      BY <1>2, <2>1, ResumeOnDisk
    <3>3. finished' = "yes" => pc' \in {"off", "syncround"} /\ Complete(Seen')
      BY <1>2, <2>1, SeenDeals, EndKeepsSeen, MarkedComplete DEF ResumeInv
    <3>4. QED
      BY <3>1, <3>2, <3>3 DEF ResumeInv, Ahead, Progress, Point, Complete
  <2>2. CASE Panic \/ HealthReboot
    BY <1>2, <2>2, ResumeGoDown DEF Panic, HealthReboot
  <2>3. CASE (\E r \in Recipes : Tee(r)) \/ UNCHANGED vars
    BY <1>2, <2>3, ResumeQuiet DEF Tee, vars, process, perround, history
  <2>4. QED
    BY <1>2, <2>1, <2>2, <2>3 DEF Next
<1>3. QED
  BY <1>1, <1>2, TypeCorrect, PTL DEF Spec

\* The resume point never passes a testcase that was aborted, for every recipelist
\* in the order of recipe.rb, any number of interruptions and any number of panics
\* that lose any unsynced writes: a restart begins after testcases that all ended,
\* were left early or are in a directory that was skipped.  With both panics and
\* AGAIN it does not hold: run-test.sh removes the old resume point without a
\* sync, and a panic brings it back.
THEOREM ResumeIsSound ==
  ASSUME SortedList, MaxPanics = 0 \/ \A o \in OptionSets : "AGAIN" \notin o
  PROVE  Spec => []ResumePointIsSound
<1>1. ResumeInv => ResumePointIsSound
  <2>1. SUFFICES ASSUME ResumeInv,
                        NEW i \in DOMAIN Recipelist, NEW j \in DOMAIN Recipelist,
                        i <= j, Recipelist[j] = resume, Recipelist[i] \in Selected
                 PROVE  Recipelist[i] \in ended \cup passed \cup Unconfigured
    BY DEF ResumePointIsSound
  <2>2. Recipelist[i] \in Listed /\ resume \in Listed
    BY <2>1 DEF Listed, ToSet
  <2>3. Rank[Recipelist[i]] <= Rank[resume]
    BY <2>1, RankOrder
  <2>4. QED
    BY <2>1, <2>2, <2>3 DEF ResumeInv, Progress, Point, Seen
<1>2. QED
  BY <1>1, ResumeInvariant, PTL

-----------------------------------------------------------------------------
\* For what NoRecipeDropped says of run_status the same argument is made again, about
\* the marks: the recipe under way may fall out again (AGAIN removes its files,
\* SetRunning overwrites them).  It holds until the first panic.
Settled ==
  passed \cup Unconfigured \cup {r \in Recipes : status[r] \in {"FINISHED", "SKIPPED"}}

DropInv ==
  panics = 0 =>
    /\ Ahead(queue, recipe, resume, pc)
    /\ Progress(Settled, queue, recipe, resume, pc)
    /\ finished = "yes" => pc \in {"off", "syncround"} /\ Complete(Settled)

\* Recipes that are finished, skipped or were left early.
LEMMA SettledDeals ==
  ASSUME TypeOK, Progress(Settled, queue, recipe, resume, pc),
         StartRun \/ RunTest \/ Interrupt
  PROVE  DealsWith(Settled, Settled')
<1>a. status \in [Recipes -> {"none", "RUNNING", "FINISHED", "SKIPPED"}]
  BY CachedFields DEF TypeOK
<1>b. pc \notin {"off", "next", "syncround"} => recipe \in Recipes
  BY DEF TypeOK
<1>1. CASE StartRun
  <2>1. PICK o \in OptionSets : Start(o)
    BY <1>1 DEF StartRun
  <2>2. pc = "off" /\ pc' = "next" /\ opt' = o
    BY <2>1 DEF Start
  <2>3. "AGAIN" \notin o => Settled' = Settled
    BY <2>1 DEF Start, Settled, Unconfigured, In, perrecipe
  <2>4. QED
    BY <2>2, <2>3 DEF DealsWith
<1>d. CASE Walks
  <2>1. queue \subseteq Recipes /\ recipe = NoRecipe
    BY <1>d, WalkDeals DEF TypeOK
  <2>2. status' = status
    BY <1>d DEF Walks, EnterDirectory, SkipDirectory, LeaveDirectory, perrecipe
  <2>3. QED
    BY <1>d, <2>1, <2>2, WalkDeals DEF DealsWith, Settled
<1>e. ~Walks /\ ~StartRun => Unconfigured' = Unconfigured
  BY OthersRefuseNothing DEF Walks
<1>2. CASE (NotFound \/ AlreadyRun \/ WrongSuffix \/ LoadExits \/ SyncEnd) /\ ~Walks /\ ~StartRun
  <2>1. Settled \subseteq Settled' /\ pc # "next" /\ pc' = "next" /\ recipe \in Settled'
    <3>1. CASE NotFound \/ AlreadyRun \/ WrongSuffix \/ LoadExits
      BY <1>2, <1>e, <3>1 DEF NotFound, AlreadyRun, WrongSuffix, LoadExits, Leave, Settled, perrecipe
    <3>2. CASE SyncEnd
      BY <1>2, <1>e, <3>2 DEF SyncEnd, Leave, Progress, Settled, perrecipe
    <3>3. QED
      BY <1>2, <3>1, <3>2
  <2>2. QED
    BY <2>1 DEF DealsWith
<1>3. CASE (LoadSkips \/ SetFinished) /\ ~Walks /\ ~StartRun
  <2>1. /\ passed' = passed
        /\ \/ status' = [status EXCEPT ![recipe] = "SKIPPED"]
           \/ status' = [status EXCEPT ![recipe] = "FINISHED"]
        /\ pc \in {"load", "end"}
    BY <1>3 DEF LoadSkips, SetFinished
  <2>2. Settled \cup {recipe} \subseteq Settled'
    BY <1>a, <1>b, <1>e, <1>3, <2>1 DEF Settled
  <2>3. QED
    BY <2>1, <2>2 DEF DealsWith
<1>4. CASE (RemoveCurrent \/ SetResume) /\ ~Walks /\ ~StartRun
  <2>1. Settled' = Settled /\ pc \in {"rmcurrent", "resume"} /\ pc' \in {"resume", "syncend"}
    BY <1>4, <1>e DEF RemoveCurrent, SetResume, Settled, history, perrecipe
  <2>2. recipe \in Settled
    BY <2>1 DEF Progress
  <2>3. QED
    BY <2>1, <2>2 DEF DealsWith
<1>5. CASE (Enter \/ SetRunning) /\ ~Walks /\ ~StartRun
  <2>1. /\ passed' = passed
        /\ \A r \in Recipes \ {recipe} : status'[r] = status[r]
        /\ pc \in {"recipe", "running"} /\ pc' \in {"health", "syncstart"}
    BY <1>5, <1>a DEF Enter, SetRunning, perrecipe, history
  <2>2. Settled \ {recipe} \subseteq Settled'
    BY <1>5, <1>e, <2>1 DEF Settled
  <2>3. QED
    BY <2>1, <2>2 DEF DealsWith
<1>6. CASE ~Walks /\ ~StartRun /\
           (\/ Healthy \/ Load \/ AfterReboot \/ ResetReboot \/ SetCurrent
            \/ SyncStart \/ reset_per_testcase_counters \/ Try \/ Trials \/ Announce
            \/ SetRoundFinished \/ SyncRound \/ NextRecipe \/ Interrupt)
  <2>1. UNCHANGED <<passed, status>>
    BY <1>6 DEF Healthy, Load, AfterReboot, ResetReboot, SetCurrent,
                SyncStart, reset_per_testcase_counters, Try, Trials, Announce,
                SetRoundFinished, SyncRound, NextRecipe, Interrupt, history, perrecipe
  <2>2. pc # "off" /\ pc' \notin {"next", "rmcurrent", "resume", "syncend"}
    BY <1>6 DEF Healthy, Load, AfterReboot, ResetReboot, SetCurrent,
                SyncStart, reset_per_testcase_counters, Try, Trials, Announce,
                SetRoundFinished, SyncRound, NextRecipe, Interrupt
  <2>3. QED
    BY <1>6, <1>e, <2>1, <2>2 DEF DealsWith, Settled
<1>7. QED
  BY <1>d, <1>1, <1>2, <1>3, <1>4, <1>5, <1>6 DEF RunTest, RunRecipe, Walks

\* The end of a round changes no mark.
LEMMA EndKeepsSettled ==
  ASSUME SetRoundFinished \/ SyncRound \/ Interrupt
  PROVE  Settled' = Settled
  BY DEF SetRoundFinished, SyncRound, Interrupt, perrecipe, history, Settled, Unconfigured, In

\* A round is marked finished only when every selected testcase of the recipelist
\* has ended since the last AGAIN, run_recipe returned early for it, or the config of
\* a directory it is in failed, however often the round is interrupted, whatever a
\* panic loses and with whatever options it is started again; until the first panic
\* the testcases that ended are FINISHED or SKIPPED.  With both panics and AGAIN it
\* does not hold: a panic may bring back the __finished that AGAIN removed.
THEOREM NothingDropped ==
  ASSUME SortedList, MaxPanics = 0 \/ \A o \in OptionSets : "AGAIN" \notin o
  PROVE  Spec => []NoRecipeDropped
<1>1. Init => DropInv
  <2>1. SUFFICES ASSUME Init PROVE DropInv
    OBVIOUS
  <2>2. NoRecipe \notin Listed
    BY RunnerAssumption, ListedRanks
  <2>3. QED
    BY <2>1, <2>2 DEF Init, DropInv, Ahead, Progress, Point
<1>2. ASSUME TypeOK, DropInv, [Next]_vars
      PROVE  DropInv'
  <2>1. CASE StartRun \/ RunTest \/ Interrupt
    <3>1. panics' = panics
      BY <2>1 DEF StartRun, Start, RunTest, EnterDirectory, SkipDirectory, LeaveDirectory,
                  RunRecipe, NextRecipe, NotFound, AlreadyRun, Enter, WrongSuffix,
                  Healthy, LoadExits, LoadSkips, Load, AfterReboot, ResetReboot, SetCurrent,
                  SetRunning, SyncStart, reset_per_testcase_counters, Try, Trials, Announce,
                  SetFinished, RemoveCurrent, SetResume, SyncEnd, SetRoundFinished, SyncRound,
                  Interrupt, bounds
    <3>2. SUFFICES ASSUME panics = 0
                   PROVE  /\ Ahead(queue', recipe', resume', pc')
                          /\ Progress(Settled', queue', recipe', resume', pc')
                          /\ finished' = "yes" => pc' \in {"off", "syncround"} /\ Complete(Settled')
      BY <3>1 DEF DropInv, Ahead, Progress, Point, Complete
    <3>3. /\ Ahead(queue', recipe', resume', pc')
          /\ Progress(Settled', queue', recipe', resume', pc')
      BY <1>2, <2>1, <3>2, SettledDeals, ListStep DEF DropInv
    <3>4. finished' = "yes" => pc' \in {"off", "syncround"} /\ Complete(Settled')
      BY <1>2, <2>1, <3>2, SettledDeals, EndKeepsSettled, MarkedComplete DEF DropInv
    <3>5. QED
      BY <3>3, <3>4
  <2>2. CASE Panic \/ HealthReboot
    <3>1. panics' # 0
      BY <1>2, <2>2 DEF Panic, HealthReboot, GoDown, TypeOK
    <3>2. QED
      BY <3>1 DEF DropInv
  <2>3. CASE (\E r \in Recipes : Tee(r)) \/ UNCHANGED vars
    <3>1. UNCHANGED <<queue, recipe, resume, pc, status, passed, refused, finished, panics>>
      BY <2>3 DEF Tee, vars, process, perround, history, perrecipe, bounds
    <3>2. QED
      BY <1>2, <3>1 DEF DropInv, Ahead, Progress, Point, Settled, Complete, Unconfigured, In
  <2>4. QED
    BY <1>2, <2>1, <2>2, <2>3 DEF Next
<1>3. TypeOK /\ ResumeInv /\ DropInv => NoRecipeDropped
  BY DEF ResumeInv, DropInv, NoRecipeDropped, Seen, Settled, Listed, Complete
<1>4. QED
  BY <1>1, <1>2, <1>3, TypeCorrect, ResumeInvariant, PTL DEF Spec

-----------------------------------------------------------------------------
\* LastTrialDecides is about the counter file of the recipe under way: do_test_try
\* compares it before and after a trial, and a file that does not exist at one of
\* the two hides a failure.
\* The loops run with a counter file that reset_per_testcase_counters wrote.
Counting ==
  /\ "TEST_RUN_MODE" \notin opt /\ pc # "rebooted"
  /\ pc \in {"try", "trials"} => failure[recipe] # NoFile
  /\ lpc # "idle" => pc = "trials"

\* What the status of the last trial says about it.
Judging ==
  /\ lpc # "done" => outcome = "NONE"
  /\ lpc \in {"idle", "try", "trial"} => prep = "ok"
  /\ lpc \in {"hard", "soft"} =>
       /\ ret = 0 => streak >= 1
       /\ ret = 2 => streak = 0 /\ attempts >= 1
       /\ ret = 1 <=> prep = "failed"
  /\ LOGLEVEL >= 1 => LastTrialDecides

\* The trial under way has counted its failed checks.
Counted(r) == lpc = "trial" => before # NoFile /\ failure[r] = before + fails

\* Together, for the recipe under way.
TrialInv == Counting /\ Judging /\ Counted(recipe)

\* Every trial of an attempt but the last one passed.
Streak ==
  /\ lpc \in {"try", "trial"} => streak = hardTry - 1
  /\ lpc = "hard" /\ ret = 0 => streak = hardTry
  /\ lpc = "soft" /\ ret = 0 => streak = HARD_RETRY
  /\ lpc = "done" /\ outcome = "PASS" => streak = HARD_RETRY
  /\ lpc \in {"hard", "soft"} /\ ret \notin {0, 1} => streak = 0

\* Every step of the loops keeps the agreement of status, counter and trial.
LEMMA JudgeStep ==
  ASSUME RetryTypeOK, Judging, NEW r \in Recipes, Counted(r), failure[r] # NoFile,
         RetryStep(r)
  PROVE  /\ Judging'
         /\ lpc' = "trial" => before' # NoFile /\ failure'[r] = before' + fails'
         /\ failure'[r] # NoFile
<1> USE RetryAssumption
        DEF RetryTypeOK, Judging, LastTrialDecides, Counted, Counter, NoFile, trialvars
<1>1. CASE DoTestTry(r)
  BY <1>1 DEF DoTestTry
<1>2. CASE count_failure(r)
  BY <1>2 DEF count_failure, add_counts
<1>3. CASE PrepareFailed
  BY <1>3 DEF PrepareFailed
<1>4. CASE TrialReturns(r)
  BY <1>4 DEF TrialReturns, Grew
<1>5. CASE TrialDies
  BY <1>5 DEF TrialDies
<1>6. CASE HardTry
  BY <1>6 DEF HardTry
<1>7. CASE SoftTry
  BY <1>7 DEF SoftTry
<1>8. CASE SoftTryEnds
  <2>1. /\ lpc' = "done" /\ outcome' = Verdict(ret)
        /\ UNCHANGED <<failure, ret, streak, attempts, prep>> /\ lpc = "soft"
    BY <1>8 DEF SoftTryEnds
  <2>2. LOGLEVEL >= 1 =>
          /\ Verdict(ret) = "PASS" <=> ret = 0
          /\ Verdict(ret) = "SKIP" <=> ret = 1
          /\ Verdict(ret) = "FAIL" <=> ret = 2
          /\ Verdict(ret) = "NONE" <=> ret \in DeathStatuses
    BY DEF Verdict
  <2>3. QED
    BY <2>1, <2>2
<1>9. QED
  BY <1>1, <1>2, <1>3, <1>4, <1>5, <1>6, <1>7, <1>8 DEF RetryStep, CalmStep, Trial

\* The steps that leave the loops alone, outside of them.
Outside ==
  \/ StartRun \/ Walks \/ NextRecipe \/ NotFound \/ AlreadyRun \/ Enter \/ WrongSuffix \/ Healthy
  \/ LoadExits \/ LoadSkips \/ Load \/ AfterReboot \/ ResetReboot \/ SetCurrent
  \/ SetRunning \/ SyncStart \/ reset_per_testcase_counters \/ SetFinished
  \/ RemoveCurrent \/ SetResume \/ SyncEnd \/ SetRoundFinished \/ SyncRound

LEMMA OutsideLoops ==
  ASSUME Outside
  PROVE  UNCHANGED loopvars /\ pc # "trials"
<1>1. UNCHANGED loopvars
  BY DEF Outside, Walks, EnterDirectory, SkipDirectory, LeaveDirectory, StartRun, Start, NextRecipe, NotFound, AlreadyRun, Enter, WrongSuffix,
         Healthy, LoadExits, LoadSkips, Load, AfterReboot, ResetReboot, SetCurrent,
         SetRunning, SyncStart, reset_per_testcase_counters, SetFinished, RemoveCurrent,
         SetResume, SyncEnd, SetRoundFinished, SyncRound
<1>2. pc # "trials"
  BY DEF Outside, Walks, EnterDirectory, SkipDirectory, LeaveDirectory, StartRun, Start, NextRecipe, NotFound, AlreadyRun, Enter, WrongSuffix,
         Healthy, LoadExits, LoadSkips, Load, AfterReboot, ResetReboot, SetCurrent,
         SetRunning, SyncStart, reset_per_testcase_counters, SetFinished, RemoveCurrent,
         SetResume, SyncEnd, SetRoundFinished, SyncRound
<1>3. QED
  BY <1>1, <1>2

\* A process that is gone has no trial under way.
LEMMA ResetJudging ==
  ASSUME RetryReset
  PROVE  Judging' /\ lpc' = "idle" /\ Streak'
  BY DEF RetryReset, Judging, LastTrialDecides, Streak

\* Steps outside of the loops change nothing in them.
LEMMA SameJudging ==
  ASSUME UNCHANGED loopvars
  PROVE  (Judging => Judging') /\ (Streak => Streak')
  BY DEF loopvars, trialvars, Judging, LastTrialDecides, Streak

\* Every step of a round keeps the agreement: only reset_per_testcase_counters
\* leads to the loops, and only the loops change the counter of their recipe.
LEMMA TrialInvStep ==
  ASSUME TypeOK, TrialInv, \A o \in OptionSets : "TEST_RUN_MODE" \notin o,
         Next
  PROVE  TrialInv'
<1>1. failure \in [Recipes -> Counter] /\ RetryTypeOK
  BY DEF TypeOK, RetryTypeOK
<1>2. CASE Outside
  <2>1. UNCHANGED loopvars /\ pc # "trials"
    BY <1>2, OutsideLoops
  <2>2. lpc' = "idle" /\ Judging'
    BY <2>1, SameJudging DEF TrialInv, Counting, loopvars
  <2>3. "TEST_RUN_MODE" \notin opt'
    <3>1. CASE StartRun
      BY <3>1 DEF StartRun, Start
    <3>2. CASE ~StartRun
      <4>1. opt' = opt
        BY <1>2, <3>2 DEF Outside, Walks, EnterDirectory, SkipDirectory, LeaveDirectory, NextRecipe, NotFound, AlreadyRun, Enter,
                WrongSuffix, Healthy, LoadExits, LoadSkips, Load, AfterReboot, ResetReboot,
                SetCurrent, SetRunning, SyncStart, reset_per_testcase_counters, SetFinished,
                RemoveCurrent, SetResume, SyncEnd, SetRoundFinished, SyncRound, process
      <4>2. QED
        BY <4>1 DEF TrialInv, Counting
    <3>3. QED
      BY <3>1, <3>2
  <2>4. /\ pc' \notin {"rebooted", "trials"}
        /\ pc' = "try" => reset_per_testcase_counters
    BY <1>2 DEF Outside, Walks, EnterDirectory, SkipDirectory, LeaveDirectory, StartRun, Start, NextRecipe, NotFound, AlreadyRun, Enter, Leave,
                WrongSuffix, Healthy, LoadExits, LoadSkips, Load, AfterReboot, ResetReboot,
                SetCurrent, SetRunning, SyncStart, reset_per_testcase_counters, SetFinished,
                RemoveCurrent, SetResume, SyncEnd, SetRoundFinished, SyncRound,
                TrialInv, Counting
  <2>5. reset_per_testcase_counters => failure'[recipe'] # NoFile
    BY <1>1 DEF reset_per_testcase_counters, process, TypeOK, NoFile
  <2>6. QED
    BY <2>2, <2>3, <2>4, <2>5 DEF TrialInv, Counting, Counted
<1>3. CASE Try
  <2>1. /\ pc = "try" /\ pc' = "trials" /\ UNCHANGED <<failure, opt, recipe>>
        /\ lpc' = "try" /\ outcome' = "NONE" /\ prep' = "ok"
    BY <1>3 DEF Try, DoSoftTry, process
  <2>2. QED
    BY <2>1 DEF TrialInv, Counting, Judging, LastTrialDecides, Counted
<1>4. CASE Trials
  <2>1. /\ pc = "trials" /\ UNCHANGED <<pc, opt, recipe>> /\ RetryStep(recipe)
        /\ recipe \in Recipes
    BY <1>4 DEF Trials, process, TypeOK
  <2>2. failure[recipe] # NoFile
    BY <2>1 DEF TrialInv, Counting
  <2>3. /\ Judging'
        /\ lpc' = "trial" => before' # NoFile /\ failure'[recipe] = before' + fails'
        /\ failure'[recipe] # NoFile
    BY <1>1, <2>1, <2>2, JudgeStep DEF TrialInv
  <2>4. QED
    BY <2>1, <2>3 DEF TrialInv, Counting, Counted
<1>5. CASE Announce \/ Interrupt \/ Panic \/ HealthReboot
  <2>1. /\ RetryReset /\ pc' \in {"end", "off"}
        /\ opt' = opt \/ opt' = {}
    BY <1>5 DEF Announce, Interrupt, Panic, HealthReboot, GoDown
  <2>2. QED
    BY <2>1, ResetJudging DEF TrialInv, Counting, Counted
<1>6. CASE \E r \in Recipes : Tee(r)
  <2>1. UNCHANGED <<pc, opt, recipe, failure, loopvars>>
    BY <1>6 DEF Tee
  <2>2. QED
    BY <2>1, SameJudging DEF TrialInv, Counting, Counted, loopvars, trialvars
<1>7. QED
  BY <1>2, <1>3, <1>4, <1>5, <1>6 DEF Next, RunTest, RunRecipe, Outside, Walks

\* So it holds throughout, unless a start in background mode (TEST_RUN_MODE) may
\* skip the reset of the counters.
LEMMA TrialInvariant ==
  ASSUME \A o \in OptionSets : "TEST_RUN_MODE" \notin o
  PROVE  Spec => []TrialInv
<1>1. Init => TrialInv
  BY DEF Init, RetryInit, TrialInv, Counting, Judging, LastTrialDecides, Counted
<1>2. ASSUME TypeOK, TrialInv, [Next]_vars
      PROVE  TrialInv'
  <2>1. CASE UNCHANGED vars
    BY <1>2, <2>1, SameJudging
       DEF vars, process, perrecipe, TrialInv, Counting, Counted, loopvars, trialvars
  <2>2. QED
    BY <1>2, <2>1, TrialInvStep
<1>3. QED
  BY <1>1, <1>2, TypeCorrect, PTL DEF Spec

\* Within a round, whatever interruptions, panics, restarts and killed trials there
\* are, the verdict of do_soft_try is that of its last trial, as long as verdicts
\* are logged and no start takes the way past reset_per_testcase_counters.
THEOREM LastTrialAlwaysDecides ==
  ASSUME LOGLEVEL >= 1, \A o \in OptionSets : "TEST_RUN_MODE" \notin o
  PROVE  Spec => []LastTrialDecides
<1>1. TrialInv => LastTrialDecides
  BY DEF TrialInv, Judging
<1>2. QED
  BY <1>1, TrialInvariant, PTL

-----------------------------------------------------------------------------
\* PassIsEarned takes the way of a verdict from the loops through the pipe into the
\* result file, and to the disk that a panic may bring back.
\* A PASS in these result files was earned.
Earned(results) == \A r \in Recipes : "PASS" \in ToSet(results[r]) => r \in clean

\* A PASS in a result file, or on its way there, was earned; and so is one on a
\* disk that a panic may bring back.
Lines == /\ Earned(result)
         /\ \A r \in Recipes : pending[r] = "PASS" => r \in clean
         /\ MaxPanics > 0 => Earned(disk.result) /\ "AGAIN" \notin opt

\* Without killed trials, or with a single one per attempt, an attempt passes only
\* with HARD_RETRY passed trials.
LEMMA StreakStep ==
  ASSUME RetryTypeOK, Judging, Streak, NEW r \in Recipes, Counted(r), failure[r] # NoFile,
         DeathStatuses = {} \/ HARD_RETRY = 1, RetryStep(r)
  PROVE  Streak'
<1> USE RetryAssumption
        DEF RetryTypeOK, Judging, Streak, Counted, Counter, NoFile, trialvars
<1>1. CASE DoTestTry(r)
  BY <1>1 DEF DoTestTry
<1>2. CASE count_failure(r)
  BY <1>2 DEF count_failure
<1>3. CASE PrepareFailed
  BY <1>3 DEF PrepareFailed
<1>4. CASE TrialReturns(r)
  BY <1>4 DEF TrialReturns, Grew
<1>5. CASE TrialDies
  BY <1>5 DEF TrialDies
<1>6. CASE HardTry
  BY <1>6 DEF HardTry
<1>7. CASE SoftTry
  BY <1>7 DEF SoftTry
<1>8. CASE SoftTryEnds
  <2>1. /\ lpc' = "done" /\ outcome' = Verdict(ret) /\ lpc = "soft"
        /\ UNCHANGED <<ret, streak>>
    BY <1>8 DEF SoftTryEnds
  <2>2. Verdict(ret) = "PASS" => ret = 0
    BY DEF Verdict
  <2>3. QED
    BY <2>1, <2>2
<1>9. QED
  BY <1>1, <1>2, <1>3, <1>4, <1>5, <1>6, <1>7, <1>8 DEF RetryStep, CalmStep, Trial

\* What a result file says after "tee -a".
LEMMA CreatedLines ==
  ASSUME NEW L, NEW content \in Seq(L), NEW v
  PROVE  /\ v \in ToSet(Created(content)) => v \in ToSet(content) \cup {"log"}
         /\ Created(content) \in Seq(L \cup {"log"})
<1>1. CASE content = <<>>
  <2>1. ToSet(<<"log">>) = {"log"} /\ <<"log">> \in Seq(L \cup {"log"})
    BY DEF ToSet
  <2>2. QED
    BY <1>1, <2>1 DEF Created
<1>2. CASE content # <<>>
  BY <1>2 DEF Created
<1>3. QED
  BY <1>1, <1>2

\* A line more in a result file is the only new one.
LEMMA AppendLines ==
  ASSUME NEW L, NEW content \in Seq(L), NEW v, NEW w \in L
  PROVE  v \in ToSet(Append(content, w)) => v \in ToSet(content) \/ v = w
  BY DEF ToSet

\* sync copies the result files.
LEMMA SyncedLines ==
  ASSUME Lines, UNCHANGED <<result, pending, clean, opt>>,
         disk' = disk \/ disk'.result = result
  PROVE  Lines'
  BY DEF Lines, Earned

\* Lines that are appended to a result file are no PASS, except by tee.
LEMMA LoadLines ==
  ASSUME TypeOK, Lines, LoadSkips \/ Load
  PROVE  Lines'
<1>1. recipe \in Recipes
  BY DEF TypeOK, LoadSkips, Load
<1>2. result \in [Recipes -> Seq({"log"} \cup Verdicts)]
  BY CachedFields DEF TypeOK
<1>3. UNCHANGED <<pending, clean, disk, opt>>
  BY DEF LoadSkips, Load, process, history
<1>4. /\ Created(result[recipe]) \in Seq({"log"} \cup Verdicts)
      /\ "PASS" \in ToSet(Created(result[recipe])) => "PASS" \in ToSet(result[recipe])
  BY <1>1, <1>2, CreatedLines, CreatedType
<1>5. "PASS" \in ToSet(Append(Created(result[recipe]), "SKIP")) => "PASS" \in ToSet(result[recipe])
  BY <1>4, AppendLines DEF Verdicts
<1>6. /\ "PASS" \in ToSet(result'[recipe]) => "PASS" \in ToSet(result[recipe])
      /\ \A r \in Recipes \ {recipe} : result'[r] = result[r]
  BY <1>1, <1>2, <1>4, <1>5 DEF LoadSkips, Load
<1>7. QED
  BY <1>3, <1>6 DEF Lines, Earned

\* tee appends the verdict that do_soft_try printed.
LEMMA TeeLines ==
  ASSUME TypeOK, Lines, NEW r \in Recipes, Tee(r)
  PROVE  Lines'
<1>1. result \in [Recipes -> Seq({"log"} \cup Verdicts)] /\ pending[r] \in Verdicts
  BY CachedFields DEF TypeOK, Tee
<1>2. "PASS" \in ToSet(Append(result[r], pending[r])) =>
        "PASS" \in ToSet(result[r]) \/ pending[r] = "PASS"
  BY <1>1, AppendLines
<1>3. /\ "PASS" \in ToSet(result'[r]) => r \in clean
      /\ \A x \in Recipes \ {r} : result'[x] = result[x]
  BY <1>1, <1>2 DEF Tee, Lines, Earned
<1>4. \A x \in Recipes : pending'[x] = "PASS" => pending[x] = "PASS"
  BY DEF Tee, TypeOK
<1>5. UNCHANGED <<clean, disk, opt>>
  BY DEF Tee, history
<1>6. QED
  BY <1>3, <1>4, <1>5 DEF Lines, Earned

\* AGAIN removes the result file, and what tee has still to write to it.
LEMMA EnterLines ==
  ASSUME TypeOK, Lines, Enter
  PROVE  Lines'
<1>1. CASE "AGAIN" \notin opt
  <2>1. UNCHANGED <<result, pending, clean, disk, opt>>
    BY <1>1 DEF Enter, perrecipe
  <2>2. QED
    BY <2>1, SyncedLines
<1>2. CASE "AGAIN" \in opt
  <2>1. recipe \in Recipes
    BY DEF TypeOK, Enter
  <2>2. result \in [Recipes -> Seq({"log"} \cup Verdicts)]
    BY CachedFields DEF TypeOK
  <2>3. /\ result'[recipe] = <<>> /\ pending'[recipe] = "none"
        /\ \A x \in Recipes \ {recipe} : result'[x] = result[x] /\ pending'[x] = pending[x]
        /\ clean' = clean \ {recipe} /\ UNCHANGED opt
    BY <1>2, <2>1, <2>2 DEF Enter, TypeOK
  <2>4. "PASS" \notin ToSet(<<>>)
    BY DEF ToSet
  <2>5. QED
    BY <1>2, <2>3, <2>4 DEF Lines, Earned
<1>3. QED
  BY <1>1, <1>2

\* A panic brings back an earlier result file, or loses a line of it.
LEMMA DownLines ==
  ASSUME TypeOK, Lines, NEW kept, GoDown(kept)
  PROVE  Lines'
<1>1. MaxPanics > 0
  BY RunnerAssumption DEF GoDown, TypeOK
<1>2. /\ opt' = {} /\ UNCHANGED clean /\ pending' = [r \in Recipes |-> "none"]
      /\ \A r \in Recipes : result'[r] = result[r] \/ result'[r] = disk.result[r]
      /\ disk'.result = result'
  BY DEF GoDown, Survive, Cached, history
<1>3. QED
  BY <1>1, <1>2 DEF Lines, Earned

\* Every step keeps the lines earned.
LEMMA LinesStep ==
  ASSUME TypeOK, Streak, Lines, MaxPanics = 0 \/ \A o \in OptionSets : "AGAIN" \notin o,
         Next
  PROVE  Lines'
<1>1. CASE StartRun
  <2>1. PICK o \in OptionSets : Start(o)
    BY <1>1 DEF StartRun
  <2>2. UNCHANGED <<result, pending, clean, disk>> /\ opt' = o
    BY <2>1 DEF Start, perrecipe
  <2>3. MaxPanics > 0 => "AGAIN" \notin o
    OBVIOUS
  <2>4. QED
    BY <2>2, <2>3 DEF Lines, Earned
<1>2. CASE Announce
  <2>1. recipe \in Recipes /\ lpc = "done" /\ UNCHANGED <<result, disk, opt>>
    BY <1>2 DEF Announce, TypeOK, perrecipe
  <2>2. /\ pending'[recipe] = "PASS" => pending[recipe] = "PASS" \/ outcome = "PASS"
        /\ \A x \in Recipes \ {recipe} : pending'[x] = pending[x]
    BY <1>2, <2>1 DEF Announce, TypeOK
  <2>3. clean \subseteq clean' /\ (streak = HARD_RETRY => recipe \in clean')
    BY <1>2 DEF Announce
  <2>4. outcome = "PASS" => streak = HARD_RETRY
    BY <2>1 DEF Streak
  <2>5. QED
    BY <2>1, <2>2, <2>3, <2>4 DEF Lines, Earned
<1>3. CASE Interrupt
  <2>1. /\ UNCHANGED <<result, clean, disk>> /\ opt' = {}
        /\ pending' = [r \in Recipes |-> "none"]
    BY <1>3 DEF Interrupt, perrecipe, history
  <2>2. QED
    BY <2>1 DEF Lines, Earned
<1>4. CASE \/ Walks \/ NextRecipe \/ NotFound \/ AlreadyRun \/ WrongSuffix \/ Healthy \/ LoadExits
           \/ AfterReboot \/ ResetReboot \/ SetCurrent \/ SetRunning \/ SyncStart
           \/ reset_per_testcase_counters \/ Try \/ Trials \/ SetFinished
           \/ RemoveCurrent \/ SetResume \/ SyncEnd \/ SetRoundFinished \/ SyncRound
  <2>1. UNCHANGED <<result, pending, clean, opt>>
    BY <1>4 DEF Walks, EnterDirectory, SkipDirectory, LeaveDirectory, NextRecipe,
                NotFound, AlreadyRun, WrongSuffix, Healthy, LoadExits,
                AfterReboot, ResetReboot, SetCurrent, SetRunning, SyncStart,
                reset_per_testcase_counters, Try, Trials, SetFinished, RemoveCurrent,
                SetResume, SyncEnd, SetRoundFinished, SyncRound, perrecipe, process, history
  <2>2. disk' = disk \/ disk'.result = result
    BY <1>4 DEF Walks, EnterDirectory, SkipDirectory, LeaveDirectory, NextRecipe,
                NotFound, AlreadyRun, WrongSuffix, Healthy, LoadExits,
                AfterReboot, ResetReboot, SetCurrent, SetRunning, SyncStart,
                reset_per_testcase_counters, Try, Trials, SetFinished, RemoveCurrent,
                SetResume, SyncEnd, SetRoundFinished, SyncRound, sync, Cached
  <2>3. QED
    BY <2>1, <2>2, SyncedLines
<1>5. QED
  BY <1>1, <1>2, <1>3, <1>4, LoadLines, TeeLines, EnterLines, DownLines
     DEF Next, RunTest, RunRecipe, Walks, Panic, HealthReboot

\* Every step of a round keeps the count of passed trials.
LEMMA StreakInvStep ==
  ASSUME TypeOK, TrialInv, Streak, DeathStatuses = {} \/ HARD_RETRY = 1, Next
  PROVE  Streak'
<1>1. CASE Try
  <2>1. lpc' = "try" /\ streak' = 0 /\ hardTry' = 1
    BY <1>1 DEF Try, DoSoftTry
  <2>2. QED
    BY <2>1 DEF Streak
<1>2. CASE Trials
  <2>1. recipe \in Recipes /\ RetryTypeOK /\ RetryStep(recipe) /\ failure[recipe] # NoFile
    BY <1>2 DEF Trials, TypeOK, TrialInv, Counting
  <2>2. QED
    BY <2>1, StreakStep DEF TrialInv
<1>3. CASE Announce \/ Interrupt \/ Panic \/ HealthReboot
  BY <1>3, ResetJudging DEF Announce, Interrupt, Panic, HealthReboot, GoDown
<1>4. CASE Outside \/ \E r \in Recipes : Tee(r)
  <2>1. UNCHANGED loopvars
    BY <1>4, OutsideLoops DEF Tee
  <2>2. QED
    BY <2>1, SameJudging
<1>5. QED
  BY <1>1, <1>2, <1>3, <1>4 DEF Next, RunTest, RunRecipe, Outside, Walks

\* A testcase that the summary shows as passed had HARD_RETRY passed trials in a
\* row since its files were last removed, whatever interruptions, restarts and late
\* tees there are.  The hypotheses are where the code falls short of it: a start in
\* background mode that skips the reset of the counters, a killed trial that the
\* next one covers up, and a result file that AGAIN removed and a panic brings back.
THEOREM PassesAreEarned ==
  ASSUME \A o \in OptionSets : "TEST_RUN_MODE" \notin o,
         DeathStatuses = {} \/ HARD_RETRY = 1,
         MaxPanics = 0 \/ \A o \in OptionSets : "AGAIN" \notin o
  PROVE  Spec => []PassIsEarned
<1>1. Init => Streak /\ Lines
  <2>1. SUFFICES ASSUME Init PROVE Streak /\ Lines
    OBVIOUS
  <2>2. "PASS" \notin ToSet(<<>>)
    BY DEF ToSet
  <2>3. Streak
    BY <2>1 DEF Init, RetryInit, Streak
  <2>4. Earned(result) /\ Earned(disk.result)
    BY <2>1, <2>2 DEF Init, Cached, Earned
  <2>5. QED
    BY <2>1, <2>3, <2>4 DEF Init, Lines
<1>2. ASSUME TypeOK, TrialInv, Streak, Lines, [Next]_vars
      PROVE  Streak' /\ Lines'
  <2>1. CASE UNCHANGED vars
    BY <1>2, <2>1, SameJudging, SyncedLines DEF vars, perrecipe, process, history
  <2>2. QED
    BY <1>2, <2>1, StreakInvStep, LinesStep
<1>3. Lines => PassIsEarned
  <2>1. ASSUME NEW r \in Recipes, testcase_result(r) = "PASS"
        PROVE  "PASS" \in ToSet(result[r])
    <3> DEFINE First(v) == \E i \in DOMAIN result[r] :
                 result[r][i] = v /\ \A j \in 1 .. i - 1 : result[r][j] = "log"
    <3>1. /\ \E v \in Verdicts : First(v)
          /\ "PASS" = CHOOSE v \in Verdicts : First(v)
      BY <2>1 DEF testcase_result
    <3>2. First("PASS")
      BY <3>1
    <3>3. QED
      BY <3>2 DEF ToSet
  <2>2. QED
    BY <2>1 DEF Lines, Earned, PassIsEarned
<1>4. QED
  BY <1>1, <1>2, <1>3, TypeCorrect, TrialInvariant, PTL DEF Spec
=============================================================================
