---------------------------- MODULE MCTestRunner -----------------------------
(* TLC instances of TestRunner: two recipes. *)
EXTENDS TestRunner

CONSTANTS r1, r2

Two == {r1, r2}
Sorted == <<r1, r2>>
ById == [r \in Recipes |-> IF r = r1 THEN 1 ELSE 2]
Hierarchy == {"mm", "mm/thp"}
Nested == [r \in Recipes |-> IF r = r1 THEN <<"mm", "mm/thp">> ELSE <<"mm">>]
Inner == {"mm/thp"}
NoReboot == [r \in Recipes |-> 0]
FirstReboots == [r \in Recipes |-> IF r = r1 THEN 1 ELSE 0]
NoSignal == {}
Signals == {137}     \* 128 + SIGKILL
Anywhere == Points
InTrials == {"trials"}

Foreground == {{}, {"AGAIN"}, {"AGAIN", "SKIP_PASS"}, {"SKIP_FAIL", "SKIP_WARN"}}
Background == {{"TEST_RUN_MODE"}}
NotAgain == {{"REBOOTABLE"}, {"SKIP_WARN"}, {"TEST_RUN_MODE"}}
=============================================================================
