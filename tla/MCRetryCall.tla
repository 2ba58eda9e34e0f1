----------------------------- MODULE MCRetryCall -----------------------------
(* TLC instances of RetryCall: one testcase, with and without killed trials. *)
EXTENDS RetryCall

CONSTANT r1

TheRecipes == {r1}
Signals == {137}     \* 128 + SIGKILL
=============================================================================
