----------------------------- MODULE PipeProofs -----------------------------
(***************************************************************************)
(* The handshake of PipeSession, for every program and every controller.   *)
(***************************************************************************)
EXTENDS PipeSession, TLAPS

\* The line of checkpoint i is on its way: written, and not answered.
InFlight(i) ==
  \/ \E k \in 1..Len(fifo) : fifo[k] = i
  \/ spc = "control" /\ line = i

\* Each line is printed once, by a checkpoint that has been reached, and it is
\* answered at most once.
LinesInv ==
  /\ \A k \in 1..Len(fifo) : fifo[k] \notin answered
  /\ \A j, k \in 1..Len(fifo) : fifo[j] = fifo[k] => j = k
  /\ spc = "control" =>
       line \notin answered /\ \A k \in 1..Len(fifo) : fifo[k] # line
  /\ \A i \in 1..Len(program) : InFlight(i) \/ i \in answered =>
       i < at \/ (i = at /\ ppc \in {"usleep", "blocked", "gone"})

\* Only the current checkpoint may have a line without an answer, those that
\* nobody answers apart.
AnswersInv ==
  /\ \A i \in 1..(at - 1) : program[i].sync # "say" => i \in answered
  /\ \A i \in answered : program[i].arm # "silent"

\* What the flags, the handler and the pending signal are while the program
\* is at a checkpoint.
FlagsInv ==
  ppc # "gone" =>
    /\ pending = "yes" => at \in answered
    /\ Here.sync = "wait" /\ ppc # "next" =>
         (pprintf_wait_flag = 0 <=> at \in answered /\ pending = "no")
    /\ Here.sync = "loop" => (flag = 0 <=> at \in answered /\ pending = "no")
    /\ (\A i \in 1..(at - 1) : program[i].sync # "loop") /\ Here.sync # "loop"
         => flag = 1
    /\ Here.sync = "wait" /\ ppc \in {"print", "usleep", "blocked"}
         /\ pprintf_wait_flag = 1 => handler = "pprintf_wait_sighandler"
    /\ Here.sync = "loop" /\ ppc \in {"print", "usleep", "blocked"}
         => handler = "sig_handle_flag"
    /\ ppc = "sigaction" => Here.sync = "wait"
    /\ ppc = "blocked" => Here.sync # "say"

HandshakeInv == TypeOK /\ (WellSynced => LinesInv /\ AnswersInv /\ FlagsInv)

-----------------------------------------------------------------------------
(* Types.                                                                  *)

LEMMA TypeInit == SessionInit => TypeOK
BY SessionAssumption DEF SessionInit, TypeOK

LEMMA AdvanceType ==
  ASSUME TypeOK, ppc # "gone", Advance, program' = program
  PROVE  /\ at' \in 1..(Len(program) + 1)
         /\ ppc' \in {"next", "gone"}
         /\ ppc' # "gone" => at' <= Len(program)
BY DEF TypeOK, Advance, Here

LEMMA TypeProgram ==
  ASSUME TypeOK, TestProgram
  PROVE  TypeOK'
<1>1. CASE Reach \/ InstallHandler \/ Die
  <2>1. CASE Reach
    BY <2>1 DEF Reach, shellvars, TypeOK
  <2>2. CASE InstallHandler
    BY <2>2 DEF InstallHandler, shellvars, TypeOK
  <2>3. CASE Die
    BY <2>3 DEF Die, shellvars, TypeOK
  <2>4. QED
    BY <1>1, <2>1, <2>2, <2>3
<1>2. CASE PipePrintf
  BY <1>2 DEF PipePrintf, shellvars, TypeOK
<1>3. CASE Nap
  BY <1>3, AdvanceType DEF Nap, shellvars, TypeOK
<1>4. CASE WaitOver
  BY <1>4, AdvanceType DEF WaitOver, shellvars, TypeOK
<1>5. CASE LoopOver
  BY <1>5, AdvanceType DEF LoopOver, shellvars, TypeOK
<1>6. CASE Deliver
  BY <1>6, AdvanceType DEF Deliver, shellvars, TypeOK
<1>7. QED
  BY <1>1, <1>2, <1>3, <1>4, <1>5, <1>6 DEF TestProgram

LEMMA TypeShell ==
  ASSUME TypeOK, DoTest
  PROVE  TypeOK'
<1> DEFINE Codes == {"KILLED", "TIMEOUT", "EXIT", "INJECT", "KILLED_IN_INJECTION",
                     "ACCESS", "ACCESS_SUCCEEDED", "KILLED_IN_ACCESS"}
<1>1. ASSUME NEW c \in Codes PROVE Append(codes, c) \in Seq(Codes)
  BY <1>1 DEF TypeOK
<1>2. CASE CheckProcess
  BY <1>2, <1>1 DEF CheckProcess, set_return_code, progvars, TypeOK
<1>3. CASE ReadLine
  BY <1>3 DEF ReadLine, progvars, TypeOK
<1>4. CASE ReadTimeout
  BY <1>4, <1>1 DEF ReadTimeout, set_return_code, progvars, TypeOK
<1>5. CASE run_controller
  <2>1. spc = "control"
    BY <1>5 DEF run_controller
  <2>2. line \in 1..Len(program)
    BY <2>1 DEF TypeOK
  <2>3. /\ codes' \in Seq(Codes) /\ pending' \in {"yes", "no"}
        /\ answered' \subseteq 1..Len(program)
        /\ spc' \in {"check", "kill", "sleep"}
    BY <1>5, <1>1, <2>2 DEF run_controller, Answer, Signal, set_return_code, TypeOK
  <2>4. QED
    BY <1>5, <2>2, <2>3 DEF run_controller, progvars, TypeOK
<1>6. CASE AccessSlept
  BY <1>6, <1>1 DEF AccessSlept, set_return_code, progvars, TypeOK
<1>7. CASE kill_all_subprograms \/ check_return_code
  BY <1>7 DEF kill_all_subprograms, check_return_code, progvars, TypeOK
<1>8. QED
  BY <1>2, <1>3, <1>4, <1>5, <1>6, <1>7 DEF DoTest
-----------------------------------------------------------------------------
(* Lines.                                                                  *)

\* What WellSynced says of one checkpoint.
LEMMA SyncedAt ==
  ASSUME TypeOK, WellSynced, NEW i \in 1..Len(program)
  PROVE  /\ program[i].sync \in {"wait", "loop", "say"}
         /\ program[i].sync = "say" => program[i].arm = "silent"
BY DEF WellSynced

LEMMA LinesProgram ==
  ASSUME TypeOK, WellSynced, LinesInv, TestProgram
  PROVE  LinesInv'
<1>1. CASE PipePrintf
  <2>1. /\ fifo' = Append(fifo, at) /\ at \in 1..Len(program)
        /\ fifo \in Seq(1..Len(program))
        /\ ppc = "print" /\ ppc' = "usleep"
        /\ UNCHANGED <<program, at, spc, line, answered>>
    BY <1>1 DEF PipePrintf, TypeOK, shellvars
  <2>2. /\ Len(fifo') = Len(fifo) + 1 /\ Len(fifo) \in Nat
        /\ \A k \in 1..Len(fifo) : fifo'[k] = fifo[k]
        /\ fifo'[Len(fifo) + 1] = at
    BY <2>1
  <2>3. ~InFlight(at) /\ at \notin answered
    BY <2>1 DEF LinesInv
  <2>4. \A k \in 1..Len(fifo) : fifo[k] # at
    BY <2>3 DEF InFlight
  <2>5. spc = "control" => line # at
    BY <2>3 DEF InFlight
  <2>6. \A i : InFlight(i)' => InFlight(i) \/ i = at
    BY <2>1, <2>2 DEF InFlight
  <2>7. \A k \in 1..Len(fifo') : fifo'[k] \notin answered
    BY <2>2, <2>3 DEF LinesInv
  <2>8. \A j, k \in 1..Len(fifo') : fifo'[j] = fifo'[k] => j = k
    BY <2>2, <2>4 DEF LinesInv
  <2>9. spc = "control" =>
          line \notin answered /\ \A k \in 1..Len(fifo') : fifo'[k] # line
    BY <2>2, <2>5 DEF LinesInv
  <2>10. \A i \in 1..Len(program) : InFlight(i)' \/ i \in answered =>
           i < at \/ (i = at /\ ppc' \in {"usleep", "blocked", "gone"})
    BY <2>1, <2>3, <2>6 DEF LinesInv
  <2>11. QED
    BY <2>1, <2>7, <2>8, <2>9, <2>10 DEF LinesInv
<1>2. CASE ~PipePrintf
  <2>1. UNCHANGED <<program, fifo, spc, line, answered>>
    BY <1>2 DEF TestProgram, Reach, InstallHandler, Nap, WaitOver, LoopOver, Deliver,
                Die, shellvars
  <2>2. \/ at' = at + 1
        \/ at' = at /\ ppc' = "gone"
        \/ at' = at /\ ppc \in {"usleep", "blocked"} /\ ppc' \in {ppc, "blocked"}
        \/ at' = at /\ ppc \notin {"usleep", "blocked", "gone"}
    BY <1>2 DEF TestProgram, Reach, InstallHandler, Nap, WaitOver, LoopOver, Deliver,
                Die, Advance, TypeOK
  <2>3. \A i : InFlight(i)' <=> InFlight(i)
    BY <2>1 DEF InFlight
  <2>4. at \in Nat
    BY DEF TypeOK
  <2>5. \A i \in 1..Len(program) : InFlight(i) \/ i \in answered =>
          i < at' \/ (i = at' /\ ppc' \in {"usleep", "blocked", "gone"})
    BY <2>2, <2>4 DEF LinesInv
  <2>6. QED
    BY <2>1, <2>3, <2>5 DEF LinesInv
<1>3. QED
  BY <1>1, <1>2

\* A line that is being answered is that of the current checkpoint.
LEMMA AnswerIsDue ==
  ASSUME TypeOK, WellSynced, LinesInv, AnswersInv, spc = "control",
         program[line].arm # "silent"
  PROVE  /\ line = at /\ at \notin answered
         /\ ppc \in {"usleep", "blocked", "gone"}
<1>1. line \in 1..Len(program) /\ line \notin answered /\ InFlight(line)
  BY DEF TypeOK, LinesInv, InFlight
<1>2. program[line].sync # "say"
  BY <1>1, SyncedAt
<1>3. line < at \/ (line = at /\ ppc \in {"usleep", "blocked", "gone"})
  BY <1>1 DEF LinesInv
<1>4. at \in Nat
  BY DEF TypeOK
<1>5. ~(line < at)
  BY <1>1, <1>2, <1>4 DEF AnswersInv
<1>6. QED
  BY <1>1, <1>3, <1>5

LEMMA LinesShell ==
  ASSUME TypeOK, WellSynced, LinesInv, AnswersInv, DoTest
  PROVE  LinesInv'
<1>1. CASE ReadLine
  <2>1. /\ fifo # <<>> /\ fifo \in Seq(1..Len(program))
        /\ line' = Head(fifo) /\ fifo' = Tail(fifo)
        /\ spc # "control" /\ spc' = "control"
        /\ UNCHANGED <<program, at, ppc, answered>>
    BY <1>1 DEF ReadLine, TypeOK, progvars
  <2>2. /\ Len(fifo) \in Nat \ {0} /\ Len(fifo') = Len(fifo) - 1
        /\ line' = fifo[1]
        /\ \A k \in 1..Len(fifo') : fifo'[k] = fifo[k + 1] /\ k + 1 \in 1..Len(fifo)
    BY <2>1
  <2>3. \A i : InFlight(i)' => InFlight(i)
    BY <2>1, <2>2 DEF InFlight
  <2>4. \A k \in 1..Len(fifo') : fifo'[k] \notin answered
    BY <2>2 DEF LinesInv
  <2>5. \A j, k \in 1..Len(fifo') : fifo'[j] = fifo'[k] => j = k
    BY <2>2 DEF LinesInv
  <2>6. line' \notin answered /\ \A k \in 1..Len(fifo') : fifo'[k] # line'
    BY <2>2 DEF LinesInv
  <2>7. QED
    BY <2>1, <2>3, <2>4, <2>5, <2>6 DEF LinesInv
<1>2. CASE run_controller
  <2>1. /\ spc = "control" /\ spc' # "control"
        /\ UNCHANGED <<program, at, ppc, fifo, line>>
        /\ answered' = answered \/ (answered' = answered \cup {line})
    BY <1>2 DEF run_controller, Answer, Signal, progvars
  <2>2. \A i : InFlight(i)' \/ i \in answered' => InFlight(i) \/ i \in answered
    BY <2>1 DEF InFlight
  <2>3. \A k \in 1..Len(fifo) : fifo[k] \notin answered'
    BY <2>1 DEF LinesInv
  <2>4. QED
    BY <2>1, <2>2, <2>3 DEF LinesInv
<1>3. CASE ~ReadLine /\ ~run_controller
  <2>1. /\ UNCHANGED <<program, at, fifo, line, answered>>
        /\ spc' # "control"
        /\ ppc' = ppc \/ ppc' = "gone"
    BY <1>3 DEF DoTest, CheckProcess, ReadTimeout, AccessSlept,
                kill_all_subprograms, check_return_code, progvars
  <2>2. \A i : InFlight(i)' => InFlight(i)
    BY <2>1 DEF InFlight
  <2>3. QED
    BY <2>1, <2>2 DEF LinesInv
<1>4. QED
  BY <1>1, <1>2, <1>3
-----------------------------------------------------------------------------
(* Answers, flags and handlers.                                            *)

\* A program that leaves its checkpoint has been answered there and has no
\* signal pending, unless nobody answers there.
LEMMA LeavesAnswered ==
  ASSUME TypeOK, WellSynced, LinesInv, AnswersInv, FlagsInv, ppc # "gone",
         WaitOver \/ LoopOver \/ (Nap /\ at' # at)
  PROVE  /\ pending = "no" /\ pending' = "no"
         /\ Here.sync # "say" => at \in answered
<1>1. at \in 1..Len(program)
  BY DEF TypeOK
<1>2. CASE WaitOver \/ LoopOver
  BY <1>2 DEF WaitOver, LoopOver, FlagsInv
<1>3. CASE Nap /\ at' # at
  <2>1. Here.sync = "say" /\ pending' = pending
    BY <1>3 DEF Nap
  <2>2. at \notin answered
    BY <1>1, <2>1, SyncedAt DEF Here, AnswersInv
  <2>3. QED
    BY <2>1, <2>2 DEF FlagsInv, TypeOK
<1>4. QED
  BY <1>2, <1>3

LEMMA AdvanceFlags ==
  ASSUME TypeOK, WellSynced, LinesInv, AnswersInv, FlagsInv, ppc # "gone",
         WaitOver \/ LoopOver \/ (Nap /\ at' # at)
  PROVE  AnswersInv' /\ FlagsInv'
<1>1. /\ at' = at + 1 /\ at \in 1..Len(program)
      /\ ppc' \in {"next", "gone"} /\ (ppc' # "gone" => at' \in 1..Len(program))
      /\ UNCHANGED <<program, answered, flag>>
  BY AdvanceType DEF WaitOver, LoopOver, Nap, Advance, TypeOK, shellvars
<1>2. AnswersInv'
  BY <1>1, LeavesAnswered DEF AnswersInv, Here
<1>3. ASSUME ppc' # "gone" PROVE at' \notin answered
  BY <1>1, <1>3 DEF LinesInv
<1>4. ASSUME ppc' # "gone", \A i \in 1..(at' - 1) : program[i].sync # "loop"
      PROVE  flag = 1
  <2>1. at \in 1..(at' - 1) /\ \A i \in 1..(at - 1) : i \in 1..(at' - 1)
    BY <1>1
  <2>2. QED
    BY <1>4, <2>1 DEF FlagsInv, Here
<1>5. ASSUME ppc' # "gone", program[at'].sync = "loop"
      PROVE  flag = 1
  <2>1. \A i \in 1..(at' - 1) : program[i].sync # "loop"
    BY <1>1, <1>5 DEF WellSynced
  <2>2. QED
    BY <1>4, <1>5, <2>1
<1>6. FlagsInv'
  BY <1>1, <1>3, <1>4, <1>5, LeavesAnswered DEF FlagsInv, Here
<1>7. QED
  BY <1>2, <1>6

LEMMA FlagsProgram ==
  ASSUME TypeOK, WellSynced, LinesInv, AnswersInv, FlagsInv, TestProgram
  PROVE  AnswersInv' /\ FlagsInv'
<1>1. ppc # "gone"
  BY DEF TestProgram, Reach, InstallHandler, PipePrintf, Nap, WaitOver, LoopOver,
         Deliver, Die
<1>2. at \in 1..Len(program) /\ Here.sync \in {"wait", "loop", "say"}
  BY <1>1, SyncedAt DEF TypeOK, Here
<1>3. at \in answered => ppc \in {"usleep", "blocked"} /\ Here.sync # "say"
  BY <1>1, <1>2, SyncedAt DEF LinesInv, AnswersInv, Here
<1>4. CASE WaitOver \/ LoopOver \/ (Nap /\ at' # at)
  BY <1>1, <1>4, AdvanceFlags
<1>5. CASE ~(WaitOver \/ LoopOver \/ (Nap /\ at' # at))
  <2>1. UNCHANGED <<program, at, answered>>
    BY <1>2, <1>5 DEF TestProgram, Reach, InstallHandler, PipePrintf, Nap, Deliver,
                      Die, shellvars
  <2>2. AnswersInv'
    BY <2>1 DEF AnswersInv
  <2>3. CASE Reach
    BY <2>1, <2>2, <2>3, <1>2, <1>3 DEF Reach, FlagsInv, Here, TypeOK
  <2>4. CASE InstallHandler
    BY <2>1, <2>2, <2>4, <1>2, <1>3 DEF InstallHandler, FlagsInv, Here, TypeOK
  <2>5. CASE PipePrintf
    BY <2>1, <2>2, <2>5, <1>2, <1>3 DEF PipePrintf, FlagsInv, Here, TypeOK
  <2>6. CASE Nap
    <3>1. Here.sync # "say" /\ ppc = "usleep" /\ ppc' = "blocked"
      BY <2>1, <2>6, <1>2 DEF Nap, Advance
    <3>2. UNCHANGED <<pprintf_wait_flag, flag, handler, pending>>
      BY <2>6 DEF Nap
    <3>3. QED
      BY <2>1, <2>2, <3>1, <3>2, <1>2 DEF FlagsInv, Here
  <2>7. CASE Deliver
    BY <2>1, <2>2, <2>7, <1>1, <1>2, <1>3 DEF Deliver, FlagsInv, Here, TypeOK
  <2>8. CASE Die
    BY <2>2, <2>8 DEF Die, FlagsInv
  <2>9. QED
    BY <2>2, <2>3, <2>4, <2>5, <2>6, <2>7, <2>8, <1>5 DEF TestProgram
<1>6. QED
  BY <1>4, <1>5

LEMMA FlagsShell ==
  ASSUME TypeOK, WellSynced, LinesInv, AnswersInv, FlagsInv, DoTest
  PROVE  AnswersInv' /\ FlagsInv'
<1>1. CASE run_controller
  <2>1. /\ spc = "control" /\ line \in 1..Len(program)
        /\ UNCHANGED <<program, at, ppc, handler, pprintf_wait_flag, flag>>
    BY <1>1 DEF run_controller, progvars, TypeOK
  <2>2. CASE UNCHANGED <<answered, pending>>
    BY <2>1, <2>2 DEF AnswersInv, FlagsInv, Here
  <2>3. CASE ~UNCHANGED <<answered, pending>>
    <3>1. program[line].arm # "silent" /\ Signal
      BY <1>1, <2>3 DEF run_controller, Answer
    <3>2. line = at /\ at \notin answered /\ ppc \in {"usleep", "blocked", "gone"}
      BY <2>1, <3>1, AnswerIsDue
    <3>3. answered' = answered \cup {at} /\ (ppc # "gone" => pending' = "yes")
      BY <3>1, <3>2 DEF Signal, check_process_status
    <3>4. AnswersInv'
      BY <2>1, <3>1, <3>2, <3>3 DEF AnswersInv
    <3>5. FlagsInv'
      BY <2>1, <3>2, <3>3 DEF FlagsInv, Here
    <3>6. QED
      BY <3>4, <3>5
  <2>4. QED
    BY <2>2, <2>3
<1>2. CASE ~run_controller
  <2>1. /\ UNCHANGED <<program, at, handler, pprintf_wait_flag, flag, pending, answered>>
        /\ ppc' = ppc \/ ppc' = "gone"
    BY <1>2 DEF DoTest, CheckProcess, ReadLine, ReadTimeout, AccessSlept,
                kill_all_subprograms, check_return_code, progvars
  <2>2. QED
    BY <2>1 DEF AnswersInv, FlagsInv, Here
<1>3. QED
  BY <1>1, <1>2
-----------------------------------------------------------------------------
(* The inductive invariant.                                                *)

LEMMA HandshakeInit == SessionInit => HandshakeInv
<1> SUFFICES ASSUME SessionInit, WellSynced
             PROVE  LinesInv /\ AnswersInv /\ FlagsInv
  BY TypeInit DEF HandshakeInv
<1>1. /\ at = 1 /\ ppc = "next" /\ fifo = <<>> /\ spc = "check" /\ answered = {}
      /\ flag = 1 /\ pending = "no"
  BY DEF SessionInit
<1>2. LinesInv
  BY <1>1 DEF LinesInv, InFlight
<1>3. AnswersInv
  BY <1>1 DEF AnswersInv
<1>4. FlagsInv
  BY <1>1 DEF FlagsInv
<1>5. QED
  BY <1>2, <1>3, <1>4

LEMMA HandshakeStep == HandshakeInv /\ [Next]_vars => HandshakeInv'
<1> SUFFICES ASSUME HandshakeInv, [Next]_vars PROVE HandshakeInv'
  OBVIOUS
<1>1. TypeOK
  BY DEF HandshakeInv
<1>2. CASE TestProgram
  <2>1. program' = program
    BY <1>2 DEF TestProgram, Reach, InstallHandler, PipePrintf, Nap, WaitOver,
                LoopOver, Deliver, Die
  <2>2. WellSynced' <=> WellSynced
    BY <2>1 DEF WellSynced
  <2>3. QED
    BY <1>1, <1>2, <2>2, TypeProgram, LinesProgram, FlagsProgram DEF HandshakeInv
<1>3. CASE DoTest
  <2>1. program' = program
    BY <1>3 DEF DoTest, CheckProcess, ReadLine, ReadTimeout, run_controller,
                AccessSlept, kill_all_subprograms, check_return_code
  <2>2. WellSynced' <=> WellSynced
    BY <2>1 DEF WellSynced
  <2>3. QED
    BY <1>1, <1>3, <2>2, TypeShell, LinesShell, FlagsShell DEF HandshakeInv
<1>4. CASE UNCHANGED vars
  BY <1>4 DEF vars, progvars, shellvars, HandshakeInv, TypeOK, WellSynced, LinesInv,
              InFlight, AnswersInv, FlagsInv, Here
<1>5. QED
  BY <1>2, <1>3, <1>4 DEF Next

(***************************************************************************)
(* The lines in the fifo, the answers, the flags, the handlers and the     *)
(* pending signal of __do_test and pprintf_wait agree in every session,    *)
(* for programs of any length and whatever else kills them.                *)
(***************************************************************************)
THEOREM HandshakeInvariant == Spec => []HandshakeInv
<1>1. QED
  BY HandshakeInit, HandshakeStep, PTL DEF Spec

(***************************************************************************)
(* No go is lost: a program that waits in pprintf_wait (include.h:258-278) *)
(* or in its own flag loop for a signal nobody has sent has not been       *)
(* answered at that checkpoint.                                            *)
(***************************************************************************)
THEOREM NoLostGo == Spec => []GoIsNeverLost
<1>1. HandshakeInv => GoIsNeverLost
  <2> SUFFICES ASSUME HandshakeInv, WellSynced, Stuck, ppc # "gone"
               PROVE  at \notin answered
    BY DEF GoIsNeverLost
  <2>1. TypeOK /\ FlagsInv
    BY DEF HandshakeInv
  <2>2. Here.sync \in {"wait", "loop"}
    <3>1. at \in 1..Len(program) /\ ppc = "blocked"
      BY <2>1 DEF TypeOK, Stuck
    <3>2. QED
      BY <2>1, <3>1, SyncedAt DEF FlagsInv, Here
  <2>3. QED
    BY <2>1, <2>2 DEF FlagsInv, Stuck
<1>2. QED
  BY <1>1, HandshakeInvariant, PTL

(***************************************************************************)
(* No go is early: a program that has left a checkpoint where it waits was *)
(* answered there by the controller (SIGUSR1 of run_controller).           *)
(***************************************************************************)
THEOREM NoEarlyGo == Spec => []GoIsNeverEarly
<1>1. HandshakeInv => GoIsNeverEarly
  BY DEF HandshakeInv, AnswersInv, GoIsNeverEarly
<1>2. QED
  BY <1>1, HandshakeInvariant, PTL

(***************************************************************************)
(* Every session keeps its types: in particular a program that runs is at  *)
(* one of its checkpoints, and the fifo, $line and the answers name lines  *)
(* that the program has.                                                   *)
(***************************************************************************)
THEOREM TypeCorrect == Spec => []TypeOK
<1>1. HandshakeInv => TypeOK
  BY DEF HandshakeInv
<1>2. QED
  BY <1>1, HandshakeInvariant, PTL
-----------------------------------------------------------------------------
(* Deaths.                                                                 *)

\* A pending SIGUSR1 always finds a handler: the controller answers a line, and
\* a program that has printed the line of a checkpoint where it waits has its
\* handler installed until that answer is delivered.
LEMMA SignalIsHandled ==
  ASSUME TypeOK, WellSynced, LinesInv, AnswersInv, FlagsInv, ppc # "gone",
         pending = "yes"
  PROVE  handler # "default" /\ Here.sync \in {"wait", "loop"}
<1>1. at \in 1..Len(program) /\ at \in answered
  BY DEF TypeOK, FlagsInv
<1>2. ppc \in {"usleep", "blocked"}
  BY <1>1 DEF LinesInv, TypeOK
<1>3. Here.sync \in {"wait", "loop"}
  BY <1>1, SyncedAt DEF AnswersInv, Here
<1>4. QED
  BY <1>2, <1>3 DEF FlagsInv, TypeOK

\* A step after which the program is gone and the shell has not killed it takes
\* a program from its last operation or from one that is fatal.
LEMMA DeathStep ==
  ASSUME HandshakeInv, SignalNeverKills, [Next]_vars
  PROVE  SignalNeverKills'
<1> DEFINE Ended == at = Len(program) + 1 \/ (at > 1 /\ program[at - 1].fate = "dies")
<1> SUFFICES ASSUME WellSynced', env' = "calm", ppc' = "gone",
                    spc' \notin {"result", "done"}
             PROVE  Ended'
  BY DEF SignalNeverKills
<1>1. UNCHANGED <<env, program>>
  BY DEF Next, TestProgram, Reach, InstallHandler, PipePrintf, Nap, WaitOver,
         LoopOver, Deliver, Die, DoTest, CheckProcess, ReadLine, ReadTimeout,
         run_controller, AccessSlept, kill_all_subprograms, check_return_code, vars
<1>2. WellSynced /\ env = "calm"
  BY <1>1 DEF WellSynced
<1>3. TypeOK /\ LinesInv /\ AnswersInv /\ FlagsInv
  BY <1>2 DEF HandshakeInv
<1>4. ASSUME Advance, ppc # "gone" PROVE Ended'
  BY <1>1, <1>3, <1>4 DEF Advance, Here, TypeOK
<1>5. CASE ppc = "gone"
  <2>1. ~ TestProgram
    BY <1>5 DEF TestProgram, Reach, InstallHandler, PipePrintf, Nap, WaitOver,
                LoopOver, Deliver, Die
  <2>2. CASE DoTest
    <3>1. at' = at /\ spc \notin {"result", "done"}
      BY <2>2 DEF DoTest, CheckProcess, ReadLine, ReadTimeout, run_controller,
                  AccessSlept, kill_all_subprograms, check_return_code, progvars
    <3>2. QED
      BY <1>1, <1>2, <1>5, <3>1 DEF SignalNeverKills
  <2>3. CASE UNCHANGED vars
    <3>1. UNCHANGED <<at, spc>>
      BY <2>3 DEF vars, progvars, shellvars
    <3>2. QED
      BY <1>1, <1>2, <1>5, <3>1 DEF SignalNeverKills
  <2>4. QED
    BY <2>1, <2>2, <2>3 DEF Next
<1>6. CASE ppc # "gone"
  <2>1. Nap \/ WaitOver \/ LoopOver \/ Deliver
    BY <1>2, <1>6 DEF Next, TestProgram, Reach, InstallHandler, PipePrintf, Die,
         DoTest, CheckProcess, ReadLine, ReadTimeout, run_controller, AccessSlept,
         kill_all_subprograms, check_return_code, vars, progvars
  <2>2. Advance
    <3>1. CASE Nap \/ WaitOver \/ LoopOver
      BY <3>1 DEF Nap, WaitOver, LoopOver
    <3>2. CASE Deliver
      BY <1>3, <1>2, <1>6, <3>2, SignalIsHandled DEF Deliver
    <3>3. QED
      BY <2>1, <3>1, <3>2
  <2>3. QED
    BY <1>4, <1>6, <2>2
<1>7. QED
  BY <1>5, <1>6

(***************************************************************************)
(* SIGUSR1 kills no program that is well synchronised, for programs of any *)
(* length: the handler of pprintf_wait (include.h:258-278), which is       *)
(* removed before the function returns and may be reset by its first       *)
(* signal, is there whenever the controller's signal arrives.              *)
(***************************************************************************)
THEOREM SignalsDoNotKill == Spec => []SignalNeverKills
<1>1. SessionInit => SignalNeverKills
  BY DEF SessionInit, SignalNeverKills
<1>2. HandshakeInv /\ SignalNeverKills /\ [Next]_vars => SignalNeverKills'
  BY DeathStep
<1>3. QED
  BY <1>1, <1>2, HandshakeInvariant, PTL DEF Spec
=============================================================================
