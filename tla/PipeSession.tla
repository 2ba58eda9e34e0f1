---------------------------- MODULE PipeSession ----------------------------
(***************************************************************************)
(* One trial in which the shell and a test program talk: __do_test of      *)
(* test_core/setup_test_core.sh starts the program, reads the lines it     *)
(* prints into a fifo and hands each to the recipe's controller; the       *)
(* controller answers with SIGUSR1.  The program waits for the answer in   *)
(* one of the ways of test_core/lib/include.h and the sample programs.     *)
(*                                                                         *)
(* A program is the sequence of its checkpoints.  A checkpoint says how    *)
(* the program synchronises there, which arm of the controller's `case`    *)
(* its line matches, and whether the operation that follows it kills the   *)
(* program (access to a poisoned page).  A line is the number of the       *)
(* checkpoint that printed it.                                             *)
(***************************************************************************)
EXTENDS Integers, Sequences, SequencesExt

CONSTANTS
  CalmPrograms,   \* programs run in calm: no operation outlasts a time limit,
                  \* and nothing but what they do kills them
  RoughPrograms,  \* programs run when anything is slow, and may be killed at
                  \* any moment (SIGBUS, OOM)
  Handlers        \* dispositions of SIGUSR1 when the first checkpoint is reached

\* pprintf_wait, signal() + while (flag), pprintf + pause(), pprintf alone.
Syncs == {"wait", "loop", "pause", "say"}
\* What the controllers of lib/setup_mce_test.sh, setup_page_migration.sh and
\* sample_test do with a line.
Arms == {"go", "inject", "access", "exit", "silent"}
Fates == {"lives", "dies"}
Checkpoints == [sync : Syncs, arm : Arms, fate : Fates]

ASSUME SessionAssumption ==
  /\ CalmPrograms \subseteq Seq(Checkpoints) \ {<<>>}
  /\ RoughPrograms \subseteq Seq(Checkpoints) \ {<<>>}
  /\ Handlers \subseteq {"default", "noop"}

VARIABLES
  env,                \* "calm" or "rough"
  program,            \* the checkpoints of the running program
  at,                 \* the program's current checkpoint
  ppc,                \* where the program is in it; "gone" when it has ended
  handler, old,       \* disposition of SIGUSR1; the one pprintf_wait saved
  oneshot,            \* SA_RESETHAND, as found in the uninitialised sa_flags
  pprintf_wait_flag,  \* include.h:252
  flag,               \* the program's own flag, cleared by sig_handle_flag
  pending,            \* a SIGUSR1 sent and not delivered yet
  fifo,               \* lines written to $PIPE and not read
  spc, line,          \* where __do_test is, and its $line
  codes,              \* _return_code_seq
  verdict,            \* what check_return_code counted
  answered            \* history: the lines SIGUSR1 was sent for

progvars == <<at, ppc, handler, old, oneshot, pprintf_wait_flag, flag>>
shellvars == <<spc, line, codes, verdict, answered>>
vars == <<env, program, progvars, pending, fifo, shellvars>>

Here == program[at]

SessionInit ==
  /\ \/ env = "calm" /\ program \in CalmPrograms
     \/ env = "rough" /\ program \in RoughPrograms
  /\ at = 1 /\ ppc = "next"
  /\ handler \in Handlers /\ old = "default" /\ oneshot = "no"
  /\ pprintf_wait_flag = 0 /\ flag = 1 /\ pending = "no"
  /\ fifo = <<>> /\ spc = "check" /\ line = 0 /\ codes = <<>> /\ verdict = "none"
  /\ answered = {}
-----------------------------------------------------------------------------
(* The test program.                                                       *)

\* A mutant: the end of the program's list of operations is not noticed.
AdvancePast ==
  /\ at' = at + 1
  /\ ppc' = IF Here.fate = "dies" THEN "gone" ELSE "next"

\* The checkpoint is over: the operation after it runs, then the next
\* checkpoint is reached or main returns.
Advance ==
  /\ at' = at + 1
  /\ ppc' = IF Here.fate = "dies" \/ at = Len(program) THEN "gone" ELSE "next"

\* A mutant: pprintf_wait does not raise its flag.
ReachUnraised ==
  /\ ppc = "next"
  /\ ppc' = IF Here.sync = "wait" THEN "sigaction" ELSE "print"
  /\ handler' = IF Here.sync = "loop" THEN "sig_handle_flag" ELSE handler
  /\ UNCHANGED <<env, program, at, old, oneshot, pprintf_wait_flag, flag, pending,
                 fifo, shellvars>>

\* pprintf_wait_flag = 1 comes first (a plain program starts printing at once;
\* one with a flag of its own installs sig_handle_flag before it prints).
Reach ==
  /\ ppc = "next"
  /\ ppc' = IF Here.sync = "wait" THEN "sigaction" ELSE "print"
  /\ pprintf_wait_flag' = IF Here.sync = "wait" THEN 1 ELSE pprintf_wait_flag
  /\ handler' = IF Here.sync = "loop" THEN "sig_handle_flag" ELSE handler
  /\ UNCHANGED <<env, program, at, old, oneshot, flag, pending, fifo, shellvars>>

\* A mutant: the handler is installed for another signal.
InstallElsewhere ==
  /\ ppc = "sigaction" /\ ppc' = "print"
  /\ old' = handler /\ oneshot' \in {"yes", "no"}
  /\ UNCHANGED <<env, program, at, handler, pprintf_wait_flag, flag, pending, fifo,
                 shellvars>>

\* sigaction(signum, &new, &old): new.sa_flags is never set, so the handler
\* may or may not be reset by its first signal.
InstallHandler ==
  /\ ppc = "sigaction" /\ ppc' = "print"
  /\ old' = handler /\ handler' = "pprintf_wait_sighandler"
  /\ oneshot' \in {"yes", "no"}
  /\ UNCHANGED <<env, program, at, pprintf_wait_flag, flag, pending, fifo, shellvars>>

\* __pipe_printf: open, write, close; the fifo has a reader (fd 11), so the
\* open never blocks.
PipePrintf ==
  /\ ppc = "print" /\ ppc' = "usleep"
  /\ fifo' = Append(fifo, at)
  /\ UNCHANGED <<env, program, at, handler, old, oneshot, pprintf_wait_flag, flag,
                 pending, shellvars>>

\* A mutant: the wait flag is raised when the program starts to wait, after
\* its line went out.
NapAndRaise ==
  /\ ppc = "usleep"
  /\ IF Here.sync = "say" THEN Advance ELSE ppc' = "blocked" /\ at' = at
  /\ pprintf_wait_flag' = IF Here.sync = "wait" THEN 1 ELSE pprintf_wait_flag
  /\ UNCHANGED <<env, program, handler, old, oneshot, flag, pending, fifo, shellvars>>

\* usleep(10000) at the end of pprintf.
Nap ==
  /\ ppc = "usleep"
  /\ IF Here.sync = "say" THEN Advance ELSE ppc' = "blocked" /\ at' = at
  /\ UNCHANGED <<env, program, handler, old, oneshot, pprintf_wait_flag, flag, pending,
                 fifo, shellvars>>

\* while (pprintf_wait_flag), then sigaction(signum, &old, NULL).
WaitOver ==
  /\ ppc = "blocked" /\ Here.sync = "wait" /\ pprintf_wait_flag = 0
  /\ handler' = old
  /\ Advance
  /\ UNCHANGED <<env, program, old, oneshot, pprintf_wait_flag, flag, pending, fifo,
                 shellvars>>

\* while (flag) of the test programs.
LoopOver ==
  /\ ppc = "blocked" /\ Here.sync = "loop" /\ flag = 0
  /\ Advance
  /\ UNCHANGED <<env, program, handler, old, oneshot, pprintf_wait_flag, flag, pending,
                 fifo, shellvars>>

\* The kernel delivers SIGUSR1.  Without a handler it ends the program; any
\* handler makes a pause() the program is in return.
Deliver ==
  /\ pending = "yes" /\ ppc # "gone" /\ pending' = "no"
  /\ pprintf_wait_flag' = IF handler = "pprintf_wait_sighandler" THEN 0
                          ELSE pprintf_wait_flag
  /\ flag' = IF handler = "sig_handle_flag" THEN 0 ELSE flag
  /\ handler' = IF handler = "pprintf_wait_sighandler" /\ oneshot = "yes"
                THEN "default" ELSE handler
  /\ CASE handler = "default" -> ppc' = "gone" /\ at' = at
       [] handler # "default" /\ ppc = "blocked" /\ Here.sync = "pause" -> Advance
       [] OTHER -> UNCHANGED <<ppc, at>>
  /\ UNCHANGED <<env, program, old, oneshot, fifo, shellvars>>

\* Something else kills the program.
Die ==
  /\ env = "rough" /\ ppc # "gone" /\ ppc' = "gone"
  /\ UNCHANGED <<env, program, at, handler, old, oneshot, pprintf_wait_flag, flag,
                 pending, fifo, shellvars>>

TestProgram ==
  \/ Reach \/ InstallHandler \/ PipePrintf \/ Nap \/ WaitOver \/ LoopOver
  \/ Deliver \/ Die
-----------------------------------------------------------------------------
(* The shell.                                                              *)

check_process_status == ppc # "gone"

\* The program waits for a signal nobody has sent.
Stuck ==
  \/ ppc = "gone"
  \/ /\ ppc = "blocked" /\ pending = "no"
     /\ CASE Here.sync = "wait" -> pprintf_wait_flag = 1
          [] Here.sync = "loop" -> flag = 1
          [] OTHER -> TRUE

\* A time limit (PIPETIMEOUT, sleep 1) may pass while the program works.
Expires == env = "calm" => Stuck

set_return_code(s) == codes' = Append(codes, s)

\* kill -SIGUSR1 $pid
Signal ==
  /\ pending' = IF check_process_status THEN "yes" ELSE pending
  /\ answered' = answered \cup {line}

\* The top of the loop: kill -0 before the fifo is looked at.
CheckProcess ==
  /\ spc = "check"
  /\ IF check_process_status
     THEN spc' = "read" /\ codes' = codes
     ELSE spc' = "kill" /\ set_return_code("KILLED")
  /\ UNCHANGED <<env, program, progvars, pending, fifo, line, verdict, answered>>

ReadLine ==
  /\ spc = "read" /\ fifo # <<>>
  /\ line' = Head(fifo) /\ fifo' = Tail(fifo)
  /\ spc' = "control"
  /\ UNCHANGED <<env, program, progvars, pending, codes, verdict, answered>>

\* A mutant: the time-out of `read` is not told apart from the program's end.
ReadTimeoutUnchecked ==
  /\ spc = "read" /\ fifo = <<>> /\ Expires
  /\ set_return_code("TIMEOUT")
  /\ spc' = "kill"
  /\ UNCHANGED <<env, program, progvars, pending, fifo, line, verdict, answered>>

\* A mutant: `read` has no time limit, and returns only at the program's end.
ReadWithoutLimit ==
  /\ spc = "read" /\ fifo = <<>> /\ ~check_process_status
  /\ set_return_code("KILLED")
  /\ spc' = "kill"
  /\ UNCHANGED <<env, program, progvars, pending, fifo, line, verdict, answered>>

\* read -t$PIPETIMEOUT fails: the process is looked at again.
ReadTimeout ==
  /\ spc = "read" /\ fifo = <<>> /\ Expires
  /\ set_return_code(IF check_process_status THEN "TIMEOUT" ELSE "KILLED")
  /\ spc' = "kill"
  /\ UNCHANGED <<env, program, progvars, pending, fifo, line, verdict, answered>>

\* run_controller: an arm answers or not, leaves a code or not, and goes on
\* reading or ends the session.
Answer(sent, code, next) ==
  /\ IF sent = "signal" THEN Signal ELSE UNCHANGED <<pending, answered>>
  /\ IF code = "none" THEN codes' = codes ELSE set_return_code(code)
  /\ spc' = next

run_controller ==
  /\ spc = "control"
  /\ \/ program[line].arm = "go" /\ Answer("signal", "none", "check")
     \/ program[line].arm = "silent" /\ Answer("nothing", "none", "check")
     \/ program[line].arm = "exit" /\ Answer("signal", "EXIT", "kill")
     \/ /\ program[line].arm = "inject" /\ check_process_status
        /\ Answer("signal", "INJECT", "check")
     \/ /\ program[line].arm = "inject" /\ ~check_process_status
        /\ Answer("nothing", "KILLED_IN_INJECTION", "kill")
     \/ program[line].arm = "access" /\ Answer("signal", "ACCESS", "sleep")
  /\ UNCHANGED <<env, program, progvars, fifo, line, verdict>>

\* sleep 1 of the "writing affected region" arm, and the check after it.
AccessSlept ==
  /\ spc = "sleep" /\ Expires
  /\ IF check_process_status
     THEN set_return_code("ACCESS_SUCCEEDED") /\ spc' = "check"
     ELSE set_return_code("KILLED_IN_ACCESS") /\ spc' = "kill"
  /\ UNCHANGED <<env, program, progvars, pending, fifo, line, verdict, answered>>

kill_all_subprograms ==
  /\ spc = "kill" /\ spc' = "result"
  /\ ppc' = "gone"
  /\ UNCHANGED <<env, program, at, handler, old, oneshot, pprintf_wait_flag, flag,
                 pending, fifo, line, codes, verdict, answered>>

\* After checkpoint i the program lives on to another one where it waits.
WaitsAgain(i) ==
  \E j \in (i + 1)..Len(program) :
    program[j].sync # "say" /\ \A k \in i..(j - 1) : program[k].fate = "lives"

\* The codes the recipe's author expects: the checkpoints taken one after the
\* other, up to the arm that ends the session, a line nobody answers, or the
\* program's end.
EXPECTED_RETURN_CODE ==
  LET Talk[i \in 1..(Len(program) + 1)] ==
        IF i > Len(program) THEN <<"KILLED">>
        ELSE LET c == program[i]
                 rest == IF c.fate = "dies" THEN <<"KILLED">> ELSE Talk[i + 1]
             IN CASE c.arm = "exit" -> <<"EXIT">>
                  [] c.arm = "silent" /\ c.sync # "say" -> <<"TIMEOUT">>
                  [] c.arm = "inject" -> <<"INJECT">> \o rest
                  [] c.arm = "access" /\ WaitsAgain(i) ->
                       <<"ACCESS", "ACCESS_SUCCEEDED">> \o rest
                  [] c.arm = "access" /\ ~WaitsAgain(i) ->
                       <<"ACCESS", "KILLED_IN_ACCESS">>
                  [] OTHER -> rest
  IN Talk[1]

\* check_system_default -> check_return_code (for a fixed expected sequence).
check_return_code ==
  /\ spc = "result" /\ spc' = "done"
  /\ verdict' = IF codes = EXPECTED_RETURN_CODE THEN "success" ELSE "failure"
  /\ UNCHANGED <<env, program, progvars, pending, fifo, line, codes, answered>>

DoTest ==
  \/ CheckProcess \/ ReadLine \/ ReadTimeout \/ run_controller \/ AccessSlept
  \/ kill_all_subprograms \/ check_return_code

Next == TestProgram \/ DoTest

\* The shell runs whenever it can (every time limit passes at last), and so
\* does the program, except that nothing need kill it.
Fairness ==
  /\ WF_vars(DoTest)
  /\ WF_vars(Reach \/ InstallHandler \/ PipePrintf \/ Nap \/ WaitOver \/ LoopOver)
  /\ WF_vars(Deliver)

Spec == SessionInit /\ [][Next]_vars /\ Fairness
-----------------------------------------------------------------------------
TypeOK ==
  /\ env \in {"calm", "rough"}
  /\ program \in Seq(Checkpoints) \ {<<>>} /\ at \in 1..(Len(program) + 1)
  /\ ppc \in {"next", "sigaction", "print", "usleep", "blocked", "gone"}
  /\ ppc # "gone" => at <= Len(program)
  /\ {handler, old} \subseteq
       {"default", "noop", "sig_handle_flag", "pprintf_wait_sighandler"}
  /\ oneshot \in {"yes", "no"} /\ pending \in {"yes", "no"}
  /\ pprintf_wait_flag \in {0, 1} /\ flag \in {0, 1}
  /\ fifo \in Seq(1..Len(program)) /\ line \in 0..Len(program)
  /\ spc \in {"check", "read", "control", "sleep", "kill", "result", "done"}
  /\ spc \in {"control", "sleep"} => line # 0
  /\ codes \in Seq({"KILLED", "TIMEOUT", "EXIT", "INJECT", "KILLED_IN_INJECTION",
                    "ACCESS", "ACCESS_SUCCEEDED", "KILLED_IN_ACCESS"})
  /\ verdict \in {"none", "success", "failure"}
  /\ answered \subseteq 1..Len(program)

\* A program whose every signal has a waiter: it waits with pprintf_wait, or
\* once with a flag of its own, wherever the controller answers.
WellSynced ==
  /\ \A i \in 1..Len(program) :
       program[i].sync = "wait" \/ program[i].sync = "loop"
         \/ (program[i].sync = "say" /\ program[i].arm = "silent")
  /\ \A i, j \in 1..Len(program) :
       program[i].sync = "loop" /\ program[j].sync = "loop" => i = j

(***************************************************************************)
(* The go is never lost: a program stuck at a checkpoint has not been      *)
(* answered there yet.  pprintf_wait (include.h:258-278) raises its flag   *)
(* and installs its handler before it prints, so an answer that comes      *)
(* before the program starts to wait still counts, with or without         *)
(* SA_RESETHAND in the sa_flags it leaves uninitialised.                   *)
(***************************************************************************)
GoIsNeverLost ==
  WellSynced /\ Stuck /\ ppc # "gone" => at \notin answered

(***************************************************************************)
(* The go is never early: a program that has left a checkpoint where it    *)
(* waits was answered there, so no answer is taken for another one and     *)
(* the controller looked at the program in the state the line announced.   *)
(***************************************************************************)
GoIsNeverEarly ==
  WellSynced =>
    \A i \in 1..(at - 1) : program[i].sync # "say" => i \in answered

(***************************************************************************)
(* SIGUSR1 never ends a program that handles it only inside pprintf_wait   *)
(* (test_mincore before its signal() call): with no other cause of death a *)
(* program that is gone before the shell kills it had run to its end.      *)
(***************************************************************************)
SignalNeverKills ==
  WellSynced /\ env = "calm" /\ ppc = "gone" /\ spc \notin {"result", "done"} =>
    at = Len(program) + 1 \/ (at > 1 /\ program[at - 1].fate = "dies")

(***************************************************************************)
(* The verdict does not depend on the schedule: while no operation         *)
(* outlasts a time limit, a session ends with the codes that the           *)
(* checkpoints give one after the other (__do_test, setup_test_core.sh     *)
(* 443-463, and the controllers' arms).                                    *)
(***************************************************************************)
VerdictIsDetermined ==
  WellSynced /\ env = "calm" /\ spc = "done" =>
    verdict = "success"

(***************************************************************************)
(* Every session ends, whatever the program does: a silent controller, a   *)
(* lost wake-up or a dead program is noticed by the time-out of `read`.    *)
(***************************************************************************)
SessionEnds == <>(spc = "done")
=============================================================================
