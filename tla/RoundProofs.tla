----------------------------- MODULE RoundProofs -----------------------------
(***************************************************************************)
(* Proofs about ProjectRounds, for every recipelist, any number of rounds, *)
(* interruptions and calls of run.sh, in a project that is not interrupted *)
(* and run with --again as well (Mixed = "no").                            *)
(***************************************************************************)
EXTENDS ProjectRounds, TLAPS

\* The types of the files and of the variables of run.sh.
TypeOK ==
  /\ list \in [Rounds -> SUBSET Recipes]
  /\ listed \subseteq Rounds /\ finished \subseteq Rounds
  /\ done \in [Rounds -> SUBSET Recipes]
  /\ result \in [Rounds -> [Recipes -> Verdicts]]
  /\ rpc \in {"off", "round", "run", "after"}
  /\ round \in Rounds /\ again \in {"yes", "no"}
  /\ todo \subseteq Recipes
  /\ interrupts \in Nat /\ starts \in Nat
  /\ behind \in [Rounds -> SUBSET Recipes]
  /\ fresh \in [Rounds -> SUBSET Recipes] /\ left \in [Rounds -> SUBSET Recipes]

\* run.sh runs with --again: it redoes the rounds one by one, and what it has
\* not come to yet stems from the project's earlier life.
Redoing == again = "yes" /\ rpc # "off"

\* The files of round k belong to the present life of the project.
Present(k) ==
  Redoing => k < round \/ (k = round /\ rpc \in {"run", "after"})

\* No run with --again is interrupted, nor follows an interrupted one; it
\* skips no round, and goes on to a round for the failures of the one before.
RedoInv ==
  /\ interrupts > 0 => again = "no"
  /\ Redoing =>
       /\ rpc = "round" => Dealt(round) = {}
       /\ rpc = "round" /\ round > 1 =>
            /\ round - 1 \in finished
            /\ Failed(round - 1) # {} /\ Failed(round - 1) \subseteq Dealt(round - 1)
       /\ rpc = "after" => round \in finished /\ Failed(round) \subseteq Dealt(round)
       /\ \A k \in Rounds : k > round => Dealt(k) = {}

\* Every round below one that has a recipelist is finished, the one that is
\* being redone apart.
PrefixInv ==
  /\ finished \subseteq listed
  /\ \A k \in listed : \A j \in Rounds :
       j < k => j \in finished \/ (Redoing /\ j = round)

\* In the run of a round what is not to be run any more has been dealt with.
RunInv ==
  rpc = "run" =>
    /\ round \in listed /\ round \notin finished
    /\ todo \subseteq list[round]
    /\ list[round] \ todo \subseteq Dealt(round)

\* What is in the recipelists.
ListInv ==
  /\ 1 \in listed /\ Present(1) => list[1] = Recipes
  /\ \A k \in listed : k > 1 /\ (Present(k) \/ k - 1 > round) =>
       Failed(k - 1) \subseteq list[k]
  /\ \A k \in listed \ finished : k > 1 /\ Present(k) =>
       list[k] \subseteq Failed(k - 1) \cap Dealt(k - 1)

\* What a round has dealt with since the last --again.
DealtInv ==
  /\ 1 \in finished /\ Present(1) => Recipes \subseteq Dealt(1)
  /\ \A k \in finished : k > 1 /\ Present(k) =>
       Failed(k - 1) \cap Dealt(k - 1) \subseteq Dealt(k)
  /\ \A k \in finished : k < FAILRETRY /\ k + 1 \notin finished /\ Present(k) =>
       Failed(k) \subseteq Dealt(k)
  /\ ~ Redoing => \A k \in Rounds \ finished : done[k] \cup behind[k] \subseteq Dealt(k)

\* A project that was never interrupted stops after a round without failures,
\* and its other rounds are untouched.
CalmInv ==
  interrupts = 0 =>
    /\ \A k \in finished :
         \/ k = FAILRETRY
         \/ k + 1 \in finished
         \/ rpc \in {"round", "run"} /\ round = k + 1
         \/ rpc = "after" /\ round = k
         \/ Failed(k) = {}
    /\ \A k \in Rounds \ finished :
         \/ rpc = "run" /\ round = k
         \/ done[k] = {} /\ behind[k] = {} /\ (k \in listed => list[k] = {})

RoundInv ==
  TypeOK /\ RedoInv /\ PrefixInv /\ RunInv /\ ListInv /\ DealtInv /\ CalmInv
-----------------------------------------------------------------------------
\* A new project has no files.
LEMMA RoundInit == Init => RoundInv
  BY RoundsAssumption DEF Init, RoundInv, TypeOK, RedoInv, PrefixInv, RunInv,
     ListInv, DealtInv, CalmInv, Redoing, Present, Failed, Rounds, Verdicts, Dealt

\* A call of run.sh: --again begins a new life of the project, and is not given
\* after an interruption.
LEMMA StartKeeps ==
  ASSUME RoundInv, Mixed = "no", NEW a \in Agains, Start(a)
  PROVE  RoundInv'
<1> USE RoundsAssumption DEF RoundInv, Rounds, Dealt, history
<1>1. TypeOK'
  BY DEF Start, files, TypeOK, Verdicts
<1>2. RedoInv'
  BY DEF Start, files, RedoInv, Redoing, Failed, TypeOK
<1>3. PrefixInv'
  BY DEF Start, files, PrefixInv, RedoInv, RunInv, Redoing, TypeOK
<1>4. RunInv'
  BY DEF Start, files, RunInv, DealtInv, Redoing, TypeOK
<1>5. ListInv'
  BY DEF Start, files, ListInv, PrefixInv, RunInv, Redoing, Present, Failed, TypeOK
<1>6. DealtInv'
  BY DEF Start, files, DealtInv, ListInv, PrefixInv, RunInv, Redoing, Present,
         Failed, TypeOK
<1>7. CalmInv'
  BY DEF Start, files, CalmInv, PrefixInv, RunInv, Redoing, Failed, TypeOK
<1>8. QED
  BY <1>1, <1>2, <1>3, <1>4, <1>5, <1>6, <1>7

\* run.sh stops at a round whose predecessor is not finished; a run with --again
\* never does, since it has just redone that predecessor.
LEMMA PreviousUnfinishedKeeps ==
  ASSUME RoundInv, Mixed = "no", PreviousUnfinished
  PROVE  RoundInv'
<1> USE RoundsAssumption DEF RoundInv, Rounds, Dealt, history
<1>1. TypeOK'
  BY DEF PreviousUnfinished, Forget, Unfinished, Unlisted, bounds, TypeOK, Verdicts
<1>2. RedoInv'
  BY DEF PreviousUnfinished, Forget, Unfinished, Unlisted, bounds, RedoInv, Redoing,
         Failed, TypeOK
<1>3. PrefixInv'
  BY DEF PreviousUnfinished, Forget, Unfinished, Unlisted, bounds, PrefixInv,
         RedoInv, RunInv, Redoing, TypeOK
<1>4. RunInv'
  BY DEF PreviousUnfinished, Forget, Unfinished, Unlisted, bounds, RunInv, DealtInv,
         Redoing, TypeOK
<1>5. ListInv'
  BY DEF PreviousUnfinished, Forget, Unfinished, Unlisted, bounds, ListInv,
         PrefixInv, RunInv, Redoing, Present, Failed, TypeOK
<1>6. DealtInv'
  BY DEF PreviousUnfinished, Forget, Unfinished, Unlisted, DealtInv, PrefixInv,
         RedoInv, Redoing, Present, Failed, TypeOK
<1>7. CalmInv'
  BY DEF PreviousUnfinished, Forget, Unfinished, Unlisted, bounds, CalmInv,
         PrefixInv, RunInv, Redoing, Failed, TypeOK
<1>8. QED
  BY <1>1, <1>2, <1>3, <1>4, <1>5, <1>6, <1>7

\* run.sh passes a finished round; with --again no round is.
LEMMA SkipRoundKeeps ==
  ASSUME RoundInv, Mixed = "no", SkipRound
  PROVE  RoundInv'
<1> USE RoundsAssumption DEF RoundInv, Rounds, Dealt, history
<1>1. again = "no" /\ round \in finished /\ finished' = finished /\ listed' = listed
  BY DEF SkipRound, Forget, Unfinished, Unlisted, TypeOK
<1>2. list' = list
  BY <1>1 DEF SkipRound, Forget, Unlisted, PrefixInv, TypeOK
<1>3. \A k \in Rounds : Failed(k)' = Failed(k)
  BY <1>2 DEF SkipRound, Failed
<1>4. ~ Redoing /\ ~ Redoing' /\ \A k : Present(k) /\ Present(k)'
  BY <1>1 DEF SkipRound, Redoing, Present
<1>5. /\ round' \in Rounds /\ rpc' \in {"off", "round"}
      /\ round' = round + 1 \/ rpc' = "off"
  BY DEF SkipRound, NextRound, TypeOK
<1>6. TypeOK'
  BY <1>1, <1>2, <1>5 DEF SkipRound, TypeOK, bounds
<1>7. RedoInv' /\ PrefixInv' /\ RunInv'
  BY <1>1, <1>4, <1>5 DEF SkipRound, bounds, RedoInv, PrefixInv, RunInv
<1>8. ListInv'
  BY <1>1, <1>2, <1>3, <1>4 DEF SkipRound, ListInv, TypeOK
<1>9. DealtInv'
  BY <1>1, <1>2, <1>3, <1>4 DEF SkipRound, DealtInv, TypeOK
<1>10. CalmInv'
  BY <1>1, <1>2, <1>3, <1>5 DEF SkipRound, bounds, CalmInv, TypeOK
<1>11. QED
  BY <1>6, <1>7, <1>8, <1>9, <1>10

\* run-test.sh is called for a round, with --again for all of its recipes and
\* otherwise for what an interruption left.
LEMMA BeginRoundKeeps ==
  ASSUME RoundInv, Mixed = "no", BeginRound
  PROVE  RoundInv'
<1> USE RoundsAssumption DEF RoundInv, Rounds, Dealt, history
<1>1. TypeOK'
  BY DEF BeginRound, Recipelist, Unfinished, Unlisted, bounds, TypeOK, Failed
<1>2. RedoInv'
  BY DEF BeginRound, Recipelist, PreviousFinished, Unfinished, Unlisted, bounds,
         RedoInv, Redoing, Failed, TypeOK
<1>3. PrefixInv'
  BY DEF BeginRound, Recipelist, PreviousFinished, Unfinished, Unlisted, bounds,
         PrefixInv, RedoInv, RunInv, Redoing, TypeOK
<1>4. RunInv'
  BY DEF BeginRound, Recipelist, PreviousFinished, Unfinished, Unlisted, bounds,
         RunInv, DealtInv, Redoing, TypeOK
<1>5. \A k \in Rounds \ {round} : list'[k] = list[k] /\ Failed(k)' = Failed(k)
  BY DEF BeginRound, Failed, TypeOK
<1>6. list'[round] = Recipelist
  BY DEF BeginRound, TypeOK
<1>t. /\ listed \subseteq Rounds /\ finished \subseteq Rounds /\ round \in Rounds
      /\ FAILRETRY \in Nat /\ \A k \in Rounds : k \in Nat /\ k >= 1 /\ k <= FAILRETRY
  BY DEF TypeOK
<1>7. ASSUME again = "yes" PROVE ListInv' /\ DealtInv' /\ CalmInv'
  <2>1. /\ rpc' = "run" /\ listed' = listed \cup {round} /\ finished' = finished \ {round}
        /\ list'[round] = IF round > 1 THEN Failed(round - 1) ELSE Recipes
    BY <1>6, <1>7 DEF BeginRound, Recipelist, Unfinished, Unlisted, RedoInv, Redoing
  <2>2. /\ Redoing /\ Redoing' /\ interrupts = 0 /\ round \notin finished'
        /\ fresh' = fresh /\ left' = left /\ round' = round
    BY <1>7, <2>1 DEF BeginRound, Redoing, RedoInv, TypeOK
  <2>3. round > 1 => Failed(round - 1) \subseteq Dealt(round - 1) /\ round - 1 \in finished
    BY <2>2 DEF BeginRound, DealtInv, RedoInv, Redoing, Present, TypeOK
  <2>4. ListInv'
    <3>1. (1 \in listed /\ Present(1))' => list'[1] = Recipes
      BY <1>5, <2>1, <2>2 DEF BeginRound, ListInv, TypeOK, Present
    <3>2. ASSUME NEW k \in listed', k > 1
          PROVE  /\ (Present(k) \/ k - 1 > round)' => (Failed(k - 1) \subseteq list[k])'
                 /\ k \notin finished' /\ Present(k)' => (list[k] \subseteq Failed(k - 1) \cap Dealt(k - 1))'
      <4>0. k \in Rounds
        BY ONLY <1>t, <2>1, <3>2
      <4>1. k \in Rounds /\ k - 1 \in Rounds /\ k - 1 # k
        BY ONLY <1>t, <3>2, <4>0 DEF Rounds
      <4>2. Dealt(k - 1)' = Dealt(k - 1)
        BY <2>2
      <4>3. CASE k = round
        BY <1>5, <2>1, <2>2, <2>3, <3>2, <4>1, <4>2, <4>3
      <4>4. CASE k # round
        <5>1. k \in listed /\ list'[k] = list[k] /\ (k \notin finished' => k \notin finished)
          BY <1>5, <2>1, <4>1, <4>4
        <5>2. CASE k < round
          <6>1. Present(k) /\ Failed(k - 1)' = Failed(k - 1)
            BY <1>5, <4>1, <5>2 DEF Present, TypeOK
          <6>2. QED
            BY <3>2, <4>2, <5>1, <6>1 DEF ListInv
        <5>3. CASE k > round
          <6>1. ~Present(k)' /\ (k - 1 > round' => Failed(k - 1)' = Failed(k - 1))
            BY <1>5, <2>2, <4>1, <5>3 DEF Present, TypeOK
          <6>2. QED
            BY <2>2, <3>2, <5>1, <6>1 DEF ListInv
        <5>4. QED
          BY <4>1, <4>4, <5>2, <5>3 DEF TypeOK
      <4>5. QED
        BY <4>3, <4>4
    <3>3. QED
      BY <3>1, <3>2, <2>1 DEF ListInv
  <2>5. DealtInv'
    <3>1. \A k \in Rounds : Dealt(k)' = Dealt(k)
      BY <2>2
    <3>2. ASSUME NEW k \in finished', Present(k)'
          PROVE  /\ k \in finished /\ k \in Rounds /\ k < round /\ Present(k)
                 /\ Failed(k)' = Failed(k)
      BY <1>5, <2>1, <2>2, <3>2 DEF Present, TypeOK
    <3>3. ASSUME NEW k \in finished', k > 1, Present(k)'
          PROVE  (Failed(k - 1) \cap Dealt(k - 1) \subseteq Dealt(k))'
      <4>1. k - 1 \in Rounds /\ k - 1 # round
        BY <3>2, <3>3 DEF TypeOK
      <4>2. QED
        BY <1>5, <3>1, <3>2, <3>3, <4>1 DEF DealtInv
    <3>4. ASSUME NEW k \in finished', k < FAILRETRY, k + 1 \notin finished', Present(k)'
          PROVE  (Failed(k) \subseteq Dealt(k))'
      <4>1. CASE k + 1 = round
        <5>1. k = round - 1
          <6>1. k \in Rounds
            BY <3>2, <3>4
          <6>2. QED
            BY ONLY <1>t, <4>1, <6>1
        <5>2. QED
          BY <2>3, <3>1, <3>2, <3>4, <5>1 DEF TypeOK
      <4>2. CASE k + 1 # round
        BY <2>1, <3>1, <3>2, <3>4, <4>2 DEF DealtInv
      <4>3. QED
        BY <4>1, <4>2
    <3>5. 1 \in finished' /\ Present(1)' => (Recipes \subseteq Dealt(1))'
      BY <3>1, <3>2 DEF DealtInv
    <3>6. QED
      BY <2>2, <3>3, <3>4, <3>5 DEF DealtInv
  <2>6. CalmInv'
    <3>1. /\ rpc = "round" /\ interrupts' = interrupts /\ done' = done
          /\ \A k \in Rounds \ {round} : behind'[k] = behind[k]
      BY DEF BeginRound, bounds, TypeOK
    <3>2. ASSUME interrupts = 0, NEW k \in finished'
          PROVE  \/ k = FAILRETRY \/ k + 1 \in finished' \/ round = k + 1 \/ (Failed(k) = {})'
      <4>1. k \in finished /\ k \in Rounds \ {round} /\ (k + 1 \in finished => k + 1 \in finished' \/ k + 1 = round)
        BY ONLY <1>t, <2>1, <3>2
      <4>2. \/ k = FAILRETRY \/ k + 1 \in finished \/ round = k + 1 \/ Failed(k) = {}
        BY <3>1, <3>2, <4>1 DEF CalmInv
      <4>3. QED
        BY <1>5, <4>1, <4>2
    <3>3. ASSUME interrupts = 0, NEW k \in Rounds \ finished', k # round
          PROVE  (done[k] = {} /\ behind[k] = {} /\ (k \in listed => list[k] = {}))'
      <4>1. k \in Rounds \ finished
        BY <2>1, <3>3
      <4>2. done[k] = {} /\ behind[k] = {} /\ (k \in listed => list[k] = {})
        BY <3>1, <3>3, <4>1 DEF CalmInv
      <4>3. QED
        BY <1>5, <2>1, <3>1, <3>3, <4>1, <4>2
    <3>4. QED
      BY <2>1, <2>2, <3>1, <3>2, <3>3 DEF CalmInv
  <2>7. QED
    BY <2>4, <2>5, <2>6
<1>8. ASSUME again = "no" PROVE ListInv' /\ DealtInv' /\ CalmInv'
  <2>1. /\ listed' = listed \cup {round} /\ finished' = finished
        /\ round \notin finished
        /\ round > 1 => round - 1 \in finished
        /\ list'[round] = IF round \in listed THEN list[round]
                          ELSE IF round > 1 THEN Failed(round - 1) ELSE Recipes
    BY <1>6, <1>8 DEF BeginRound, Recipelist, Unfinished, Unlisted, PreviousFinished
  <2>2. ~ Redoing /\ ~ Redoing' /\ \A k : Present(k) /\ Present(k)'
    BY <1>8 DEF BeginRound, Redoing, Present
  <2>3. \A k \in listed : k <= round
    BY <2>1, <2>2 DEF PrefixInv, TypeOK
  <2>4. round > 1 => Failed(round - 1) \subseteq list'[round]
    BY <2>1, <2>2 DEF ListInv, TypeOK
  <2>5. round > 1 => Failed(round - 1) \subseteq Dealt(round - 1)
    BY <2>1, <2>2 DEF DealtInv, TypeOK
  <2>6. round > 1 => list'[round] \subseteq Failed(round - 1) \cap Dealt(round - 1)
    BY <2>1, <2>2, <2>5 DEF ListInv, TypeOK
  <2>7. ListInv'
    <3>1. 1 \in listed' => list'[1] = Recipes
      BY <1>5, <2>1, <2>2 DEF ListInv, TypeOK
    <3>2. ASSUME NEW k \in listed', k > 1
          PROVE  /\ (Failed(k - 1) \subseteq list[k])'
                 /\ k \notin finished' => (list[k] \subseteq Failed(k - 1) \cap Dealt(k - 1))'
      BY <1>5, <2>1, <2>2, <2>3, <2>4, <2>6, <3>2 DEF BeginRound, ListInv, TypeOK
    <3>3. QED
      BY <3>1, <3>2, <2>1 DEF ListInv
  <2>8. DealtInv'
    <3>1. fresh' = fresh /\ left' = left /\ done' = done /\ behind' = behind
      BY <1>8 DEF BeginRound, TypeOK
    <3>2. \A k \in finished' : k \in finished /\ k \in Rounds \ {round}
      BY <2>1 DEF TypeOK
    <3>3. (~ Redoing => \A k \in Rounds \ finished : done[k] \cup behind[k] \subseteq Dealt(k))'
      BY <2>1, <2>2, <3>1 DEF DealtInv
    <3>4. \A k \in finished' : k < round
      BY <2>1, <2>3, <3>2 DEF PrefixInv, TypeOK
    <3>5. (1 \in finished /\ Present(1) => Recipes \subseteq Dealt(1))'
      BY <2>1, <2>2, <3>1 DEF DealtInv
    <3>6. ASSUME NEW k \in finished', k > 1
          PROVE  (Failed(k - 1) \cap Dealt(k - 1) \subseteq Dealt(k))'
      <4>1. k \in finished /\ k \in Rounds \ {round} /\ k - 1 \in Rounds \ {round}
        BY <3>2, <3>4, <3>6 DEF TypeOK, Rounds
      <4>2. Failed(k - 1) \cap Dealt(k - 1) \subseteq Dealt(k)
        BY <2>2, <3>6, <4>1 DEF DealtInv
      <4>3. QED
        BY <1>5, <3>1, <4>1, <4>2
    <3>7. ASSUME NEW k \in finished', k < FAILRETRY, k + 1 \notin finished'
          PROVE  (Failed(k) \subseteq Dealt(k))'
      <4>1. k \in finished /\ k \in Rounds \ {round}
        BY <3>2
      <4>2. Failed(k) \subseteq Dealt(k)
        BY <2>1, <2>2, <3>7, <4>1 DEF DealtInv
      <4>3. QED
        BY <1>5, <3>1, <4>1, <4>2
    <3>8. QED
      BY <3>3, <3>5, <3>6, <3>7 DEF DealtInv
  <2>9. CalmInv'
    <3>1. CASE rpc' = "run"
      BY <1>5, <1>8, <2>1, <2>2, <2>3, <3>1 DEF BeginRound, bounds, CalmInv, PrefixInv, TypeOK
    <3>2. CASE rpc' # "run"
      <4>1. round > 1 /\ list'[round] = {}
        BY <1>6, <3>2 DEF BeginRound
      <4>2. Failed(round - 1)= {}
        BY <4>1, <2>4
      <4>3. QED
        BY <1>5, <1>8, <2>1, <2>2, <2>3, <4>1, <4>2 DEF BeginRound, bounds, CalmInv, PrefixInv, TypeOK
    <3>3. QED
      BY <3>1, <3>2
  <2>10. QED
    BY <2>7, <2>8, <2>9
<1>9. QED
  BY <1>1, <1>2, <1>3, <1>4, <1>7, <1>8 DEF TypeOK

\* A recipe gets its verdict: no later round exists that depends on it.
LEMMA RunRecipeKeeps ==
  ASSUME RoundInv, Mixed = "no", NEW r \in Recipes, RunRecipe(r)
  PROVE  RoundInv'
<1> USE RoundsAssumption DEF RoundInv, Rounds, Dealt, history
<1>1. TypeOK'
  BY DEF RunRecipe, bounds, TypeOK, Verdicts
<1>2. RedoInv'
  BY DEF RunRecipe, bounds, RedoInv, Redoing, Failed, TypeOK
<1>3. PrefixInv'
  BY DEF RunRecipe, bounds, PrefixInv, RedoInv, RunInv, Redoing, TypeOK
<1>4. RunInv'
  BY DEF RunRecipe, bounds, RunInv, DealtInv, Redoing, TypeOK
<1>5. ListInv'
  BY DEF RunRecipe, bounds, ListInv, PrefixInv, RunInv, Redoing, Present, Failed,
         TypeOK
<1>6. DealtInv'
  BY DEF RunRecipe, bounds, DealtInv, ListInv, PrefixInv, RunInv, Redoing, Present,
         Failed, TypeOK
<1>7. CalmInv'
  BY DEF RunRecipe, bounds, CalmInv, PrefixInv, RunInv, Redoing, Failed, TypeOK
<1>8. QED
  BY <1>1, <1>2, <1>3, <1>4, <1>5, <1>6, <1>7

\* Nor on one that is skipped as it is loaded.
LEMMA SkipRecipeKeeps ==
  ASSUME RoundInv, Mixed = "no", NEW r \in Recipes, SkipRecipe(r)
  PROVE  RoundInv'
<1> USE RoundsAssumption DEF RoundInv, Rounds, Dealt, history
<1>1. TypeOK'
  BY DEF SkipRecipe, bounds, TypeOK, Verdicts
<1>2. RedoInv'
  BY DEF SkipRecipe, bounds, RedoInv, Redoing, Failed, TypeOK
<1>3. PrefixInv'
  BY DEF SkipRecipe, bounds, PrefixInv, RedoInv, RunInv, Redoing, TypeOK
<1>4. RunInv'
  BY DEF SkipRecipe, bounds, RunInv, DealtInv, Redoing, TypeOK
<1>5. ListInv'
  BY DEF SkipRecipe, bounds, ListInv, PrefixInv, RunInv, Redoing, Present, Failed,
         TypeOK
<1>6. DealtInv'
  BY DEF SkipRecipe, bounds, DealtInv, ListInv, PrefixInv, RunInv, Redoing, Present,
         Failed, TypeOK
<1>7. CalmInv'
  BY DEF SkipRecipe, bounds, CalmInv, PrefixInv, RunInv, Redoing, Failed, TypeOK
<1>8. QED
  BY <1>1, <1>2, <1>3, <1>4, <1>5, <1>6, <1>7

\* Nor on one that is left early.
LEMMA LeaveRecipeKeeps ==
  ASSUME RoundInv, Mixed = "no", NEW r \in Recipes, LeaveRecipe(r)
  PROVE  RoundInv'
<1> USE RoundsAssumption DEF RoundInv, Rounds, Dealt, history
<1>1. TypeOK'
  <2>1. /\ result' \in [Rounds -> [Recipes -> Verdicts]]
        /\ done' \in [Rounds -> SUBSET Recipes]
    <3>1. CASE UNCHANGED <<done, result>>
      BY <3>1 DEF TypeOK
    <3>2. CASE /\ result' = [result EXCEPT ![round][r] = "other"]
               /\ done' = [done EXCEPT ![round] = @ \ {r}]
      BY <3>2 DEF TypeOK, Verdicts
    <3>3. QED
      BY <3>1, <3>2 DEF LeaveRecipe
  <2>2. left' \in [Rounds -> SUBSET Recipes] /\ todo' \subseteq Recipes
    BY DEF LeaveRecipe, TypeOK
  <2>3. QED
    BY <2>1, <2>2 DEF LeaveRecipe, bounds, TypeOK
<1>2. RedoInv'
  BY DEF LeaveRecipe, bounds, RedoInv, Redoing, Failed, TypeOK
<1>3. PrefixInv'
  BY DEF LeaveRecipe, bounds, PrefixInv, RedoInv, RunInv, Redoing, TypeOK
<1>4. RunInv'
  BY DEF LeaveRecipe, bounds, RunInv, DealtInv, Redoing, TypeOK
<1>5. ListInv'
  BY DEF LeaveRecipe, bounds, ListInv, PrefixInv, RunInv, Redoing, Present, Failed,
         TypeOK
<1>6. DealtInv'
  BY DEF LeaveRecipe, bounds, DealtInv, ListInv, PrefixInv, RunInv, Redoing, Present,
         Failed, TypeOK
<1>7. CalmInv'
  BY DEF LeaveRecipe, bounds, CalmInv, PrefixInv, RunInv, Redoing, Failed, TypeOK
<1>8. QED
  BY <1>1, <1>2, <1>3, <1>4, <1>5, <1>6, <1>7

\* A round is marked finished when everything in its list has been dealt with.
LEMMA EndRoundKeeps ==
  ASSUME RoundInv, Mixed = "no", EndRound
  PROVE  RoundInv'
<1> USE RoundsAssumption DEF RoundInv, Rounds, Dealt, history
<1>1. TypeOK'
  BY DEF EndRound, bounds, TypeOK, Verdicts
<1>2. RedoInv'
  BY DEF EndRound, bounds, RedoInv, RunInv, Redoing, Failed, TypeOK
<1>3. PrefixInv'
  BY DEF EndRound, bounds, PrefixInv, RedoInv, RunInv, Redoing, TypeOK
<1>4. RunInv'
  BY DEF EndRound, bounds, RunInv, DealtInv, Redoing, TypeOK
<1>5. ListInv'
  BY DEF EndRound, bounds, ListInv, PrefixInv, RunInv, Redoing, Present, Failed,
         TypeOK
<1>6. DealtInv'
  BY DEF EndRound, bounds, DealtInv, ListInv, PrefixInv, RunInv, Redoing, Present,
         Failed, TypeOK
<1>7. CalmInv'
  BY DEF EndRound, bounds, CalmInv, PrefixInv, RunInv, Redoing, Failed, TypeOK
<1>8. QED
  BY <1>1, <1>2, <1>3, <1>4, <1>5, <1>6, <1>7

\* An interruption leaves the round unfinished, to be resumed.
LEMMA InterruptKeeps ==
  ASSUME RoundInv, Mixed = "no", Interrupt
  PROVE  RoundInv'
<1> USE RoundsAssumption DEF RoundInv, Rounds, Dealt, history
<1>1. TypeOK'
  <2>1. result' \in [Rounds -> [Recipes -> Verdicts]]
    BY DEF Interrupt, TypeOK
  <2>2. done' \in [Rounds -> SUBSET Recipes] /\ fresh' \in [Rounds -> SUBSET Recipes]
    <3>1. PICK cut \in {{}} \cup {{r} : r \in todo} :
            \/ done' = [done EXCEPT ![round] = @ \ cut] /\ UNCHANGED fresh
            \/ /\ done' = [done EXCEPT ![round] = @ \cup cut]
               /\ fresh' = [fresh EXCEPT ![round] = @ \cup cut]
      BY DEF Interrupt
    <3>2. cut \subseteq Recipes
      BY DEF TypeOK
    <3>3. CASE done' = [done EXCEPT ![round] = @ \ cut] /\ UNCHANGED fresh
      BY <3>3 DEF TypeOK
    <3>4. CASE /\ done' = [done EXCEPT ![round] = @ \cup cut]
               /\ fresh' = [fresh EXCEPT ![round] = @ \cup cut]
      BY <3>2, <3>4 DEF TypeOK
    <3>5. QED
      BY <3>1, <3>3, <3>4
  <2>3. QED
    BY <2>1, <2>2 DEF Interrupt, bounds, TypeOK
<1>2. RedoInv'
  BY DEF Interrupt, bounds, RedoInv, Redoing, Failed, TypeOK
<1>3. PrefixInv'
  BY DEF Interrupt, bounds, PrefixInv, RedoInv, RunInv, Redoing, TypeOK
<1>4. RunInv'
  BY DEF Interrupt, bounds, RunInv, DealtInv, Redoing, TypeOK
<1>a. /\ again = "no" /\ ~ Redoing /\ ~ Redoing' /\ \A k : Present(k) /\ Present(k)'
      /\ UNCHANGED <<list, listed, finished, behind, left>>
      /\ round \in listed \ finished
  BY DEF Interrupt, Redoing, Present, RunInv, TypeOK
<1>b. \A k \in listed : k <= round
  BY <1>a DEF PrefixInv, TypeOK
<1>c. \A k \in Rounds \ {round} : Failed(k)' = Failed(k) /\ Dealt(k)' = Dealt(k) /\ done'[k] = done[k]
  BY <1>a DEF Interrupt, Failed, TypeOK
<1>d. done[round] \cup behind[round] \subseteq Dealt(round)
  BY <1>a DEF DealtInv, TypeOK
<1>e. (done[round] \cup behind[round] \subseteq Dealt(round))'
  BY <1>a, <1>d DEF Interrupt, TypeOK
<1>5. ListInv'
  BY <1>a, <1>b, <1>c DEF ListInv, TypeOK
<1>6. DealtInv'
  <2>1. \A k \in finished' : k \in finished /\ k \in Rounds /\ k < round
    BY <1>a, <1>b DEF PrefixInv, TypeOK
  <2>2. (\A k \in Rounds \ finished : done[k] \cup behind[k] \subseteq Dealt(k))'
    BY <1>a, <1>c, <1>e DEF DealtInv, Interrupt
  <2>3. QED
    BY <1>a, <1>c, <2>1, <2>2 DEF DealtInv, TypeOK
<1>7. CalmInv'
  BY DEF Interrupt, bounds, CalmInv, PrefixInv, RunInv, Redoing, Failed, TypeOK
<1>8. QED
  BY <1>1, <1>2, <1>3, <1>4, <1>5, <1>6, <1>7

\* run.sh stops after a round without failures or goes on to the next; a run with
\* --again that stops leaves the later rounds as they were, and then none of them
\* retries anything of the present life.
LEMMA AfterRoundKeeps ==
  ASSUME RoundInv, Mixed = "no", AfterRound
  PROVE  RoundInv'
<1> USE RoundsAssumption DEF RoundInv, Rounds, Dealt, history
<1>1. \A k \in Rounds : Failed(k)' = Failed(k)
  BY DEF AfterRound, files, Failed
<1>2. TypeOK'
  BY DEF AfterRound, NextRound, files, bounds, TypeOK
<1>3. RunInv'
  BY DEF AfterRound, NextRound, RunInv
<1>4. CalmInv'
  BY <1>1 DEF AfterRound, NextRound, files, bounds, CalmInv, TypeOK
<1>5. CASE rpc' = "off"
  <2>1. Failed(round) = {} \/ round = FAILRETRY
    BY <1>5 DEF AfterRound, NextRound
  <2>2. ~ Redoing' /\ \A k : Present(k)'
    BY <1>5 DEF Redoing, Present
  <2>3. RedoInv' /\ PrefixInv'
    BY <2>2 DEF RedoInv, PrefixInv, Redoing, AfterRound, files, bounds, TypeOK
  <2>4. ListInv'
    <3>1. 1 \in listed => list[1] = Recipes
      BY DEF ListInv, Present, AfterRound, TypeOK
    <3>2. ASSUME NEW k \in listed, k > 1
          PROVE  /\ Failed(k - 1) \subseteq list[k]
                 /\ k \notin finished => list[k] \subseteq Failed(k - 1) \cap Dealt(k - 1)
      <4>1. CASE Present(k)
        BY <3>2, <4>1 DEF ListInv
      <4>2. CASE ~ Present(k)
        <5>1. k > round /\ Redoing /\ interrupts = 0
          BY <3>2, <4>2 DEF Present, Redoing, RedoInv, AfterRound, TypeOK
        <5>2. Failed(k - 1) \subseteq list[k]
          BY <2>1, <3>2, <5>1 DEF ListInv, TypeOK
        <5>3. k \notin finished => list[k] = {}
          BY <5>1 DEF CalmInv, AfterRound, TypeOK
        <5>4. QED
          BY <5>2, <5>3
      <4>3. QED
        BY <4>1, <4>2
    <3>3. QED
      BY <1>1, <3>1, <3>2 DEF ListInv, AfterRound, files, TypeOK
  <2>5. DealtInv'
    <3>1. ASSUME NEW k \in finished, k > 1
          PROVE  (Failed(k - 1) \cap Dealt(k - 1) \subseteq Dealt(k))'
      <4>1. CASE Present(k)
        BY <1>1, <3>1, <4>1 DEF DealtInv, AfterRound, files, TypeOK
      <4>2. CASE ~ Present(k)
        <5>1. k > round /\ Redoing /\ k - 1 \in Rounds
          BY <3>1, <4>2 DEF Present, AfterRound, TypeOK
        <5>2. Failed(k - 1) = {} \/ Dealt(k - 1) = {}
          BY <2>1, <5>1 DEF RedoInv, TypeOK
        <5>3. QED
          BY <1>1, <5>1, <5>2 DEF AfterRound, files
      <4>3. QED
        BY <4>1, <4>2
    <3>2. ASSUME NEW k \in finished, k < FAILRETRY, k + 1 \notin finished
          PROVE  (Failed(k) \subseteq Dealt(k))'
      BY <1>1, <2>1, <3>2 DEF DealtInv, RedoInv, Redoing, Present, CalmInv, AfterRound, files, TypeOK
    <3>3. 1 \in finished => Recipes \subseteq Dealt(1)
      BY DEF DealtInv, Present, Redoing, AfterRound, TypeOK
    <3>4. \A k \in Rounds \ finished : done[k] \cup behind[k] \subseteq Dealt(k)
      BY DEF DealtInv, CalmInv, RedoInv, Redoing, AfterRound, TypeOK
    <3>5. QED
      BY <3>1, <3>2, <3>3, <3>4 DEF DealtInv, AfterRound, files
  <2>6. QED
    BY <1>2, <1>3, <1>4, <2>3, <2>5, <2>4
<1>6. CASE rpc' # "off"
  <2>1. Failed(round) # {} /\ round + 1 \in Rounds /\ round' = round + 1 /\ rpc' = "round"
    BY <1>6 DEF AfterRound, NextRound, TypeOK
  <2>2. (Redoing' <=> Redoing) /\ \A k \in Rounds : Present(k)' => Present(k)
    BY <2>1 DEF Present, Redoing, AfterRound, TypeOK
  <2>3. RedoInv'
    BY <1>6, <1>1, <2>1 DEF RedoInv, Redoing, AfterRound, files, bounds, TypeOK
  <2>4. PrefixInv'
    BY <2>2, <2>1 DEF PrefixInv, RedoInv, AfterRound, files, TypeOK
  <2>5. ListInv'
    BY <1>1, <2>2, <2>1 DEF ListInv, AfterRound, files, TypeOK
  <2>6. DealtInv'
    BY <1>1, <2>2 DEF DealtInv, AfterRound, files, TypeOK
  <2>7. QED
    BY <1>2, <1>3, <1>4, <2>3, <2>4, <2>5, <2>6
<1>7. QED
  BY <1>5, <1>6

\* Every step of the project keeps the invariant.
LEMMA RoundStep ==
  ASSUME RoundInv, Mixed = "no", [Next]_vars
  PROVE  RoundInv'
<1>1. CASE UNCHANGED vars
  BY <1>1 DEF vars, files, bounds, RoundInv, TypeOK, RedoInv, PrefixInv, RunInv,
     ListInv, DealtInv, CalmInv, Redoing, Present, Failed, Dealt, history
<1>2. CASE Next
  BY <1>2, StartKeeps, PreviousUnfinishedKeeps, SkipRoundKeeps, BeginRoundKeeps,
     RunRecipeKeeps, SkipRecipeKeeps, LeaveRecipeKeeps, EndRoundKeeps, InterruptKeeps, AfterRoundKeeps
     DEF Next, StartRun, Run
<1>3. QED
  BY <1>1, <1>2
-----------------------------------------------------------------------------
\* The files of the rounds and the variables of run.sh always fit together as
\* RoundInv says, whenever the project is stopped and however it is run again.
THEOREM RoundInvariant ==
  ASSUME Mixed = "no"
  PROVE  Spec => []RoundInv
<1>1. RoundInv /\ [Next]_vars => RoundInv'
  BY RoundStep
<1>2. QED
  BY <1>1, RoundInit, PTL DEF Spec

\* RoundInv says what a round retries and what a finished round has dealt with.
LEMMA RetriesFollow == RoundInv => RetriesAreTheFailures
<1> SUFFICES ASSUME RoundInv PROVE RetriesAreTheFailures
  OBVIOUS
<1>1. ASSUME rpc = "run", round > 1, NEW r \in todo
      PROVE  result[round - 1][r] = "FAIL" /\ r \in Dealt(round - 1)
  BY <1>1 DEF RoundInv, RunInv, ListInv, Present, Failed, TypeOK, Rounds
<1>2. ASSUME rpc = "off", NEW k \in finished, k > 1
      PROVE  Failed(k - 1) \cap Dealt(k - 1) \subseteq Dealt(k)
  BY <1>2 DEF RoundInv, DealtInv, Present, Redoing
<1>3. QED
  BY <1>1, <1>2 DEF RetriesAreTheFailures

\* A round retries the failures of the round before, those of this life of the
\* project, and a finished round has dealt with them all: at every stop, resumption
\* and --again of run.sh, whatever recipes are skipped or left early.
THEOREM RoundsRetryFailures ==
  ASSUME Mixed = "no"
  PROVE  Spec => []RetriesAreTheFailures
  BY RoundInvariant, RetriesFollow, PTL

\* If some round is finished, round 1 is, and has dealt with all recipes.
LEMMA DoneFollows == RoundInv => DoneIsDone
<1> SUFFICES ASSUME RoundInv, rpc = "off", NEW k \in finished
             PROVE  Recipes \subseteq Dealt(1)
  BY DEF DoneIsDone, check_project_finished
<1>1. k \in Rounds /\ 1 \in Rounds /\ k \in listed
  BY RoundsAssumption DEF RoundInv, TypeOK, PrefixInv, Rounds
<1>2. 1 \in finished
  BY <1>1 DEF RoundInv, PrefixInv, Redoing, Rounds
<1>3. QED
  BY <1>2 DEF RoundInv, DealtInv, Present, Redoing

\* check_project_finished never reports a project as finished that has forgotten a
\* recipe: since it was last started over round 1 has run it, has skipped it as it
\* was loaded, or has left it early, by run_recipe or with its directory.
THEOREM FinishedMeansDealtWith ==
  ASSUME Mixed = "no"
  PROVE  Spec => []DoneIsDone
  BY RoundInvariant, DoneFollows, PTL
=============================================================================
