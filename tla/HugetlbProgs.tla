---------------------------- MODULE HugetlbProgs ----------------------------
(***************************************************************************)
(* hugetlb_1gb and hugetlb_fork_rw under the recipes that run them in      *)
(* asynchronous mode: __do_test_async runs _control in a subshell, and     *)
(* _control starts the program and reads its lines itself.                 *)
(*                                                                         *)
(* The controller does not keep the fifo open in this mode.  `read line <> *)
(* $PIPE` opens it, takes one line and closes it; a writer blocks in       *)
(* open() until the controller reads, and what is in the fifo when the     *)
(* last file descriptor is closed is lost.                                 *)
(*                                                                         *)
(* A process is the list of the steps it has still to take; one hugepage   *)
(* is enough, as every recipe works on the page at ADDR_INPUT.             *)
(***************************************************************************)
EXTENDS Integers, Sequences, FiniteSets, SequencesExt

CONSTANTS
  Recipes,   \* [prog, type, pipe, stdout, ops, arms, soft, expected, hwcheck, tested]
  Kernels    \* sets of faults of the kernel under test

\* The operations main of hugetlb_1gb knows.
Operations == {"allocate", "access", "madvise", "iterate_mapping", "fork", "mremap", "pause"}

\* A recipe runs one of the two programs; it gives hugetlb_1gb its operations as
\* arguments and the fifo with -p, and hugetlb_fork_rw has no such option.
ASSUME RecipesAssumption ==
  \A r \in Recipes :
    /\ r.prog \in {"hugetlb_1gb", "hugetlb_fork_rw"} /\ r.pipe \in BOOLEAN
    /\ Len(r.ops) \in Nat /\ DOMAIN r.ops = 1 .. Len(r.ops)
    /\ r.prog = "hugetlb_1gb" => \A i \in DOMAIN r.ops : r.ops[i][1][1] \in Operations
    /\ r.prog = "hugetlb_fork_rw" => ~r.pipe

VARIABLES
  recipe, kernel,
  slow,     \* sleeps and time-outs may be shorter than what they wait for
  proc,     \* 0, the program the recipe started, and 1, its child
  page,     \* the hugepage: "ok" or "poisoned"
  hwc,      \* HardwareCorrupted of /proc/meminfo has been raised
  segment,  \* the SysV segment or hugetlbfs file behind the page exists
  rdr,      \* the controller has the fifo open
  fifo,     \* the lines in it
  lost,     \* history: a line was lost, or its writer died of SIGPIPE
  ctl       \* the controller: the steps it has to take, its codes, its phase

env == <<recipe, kernel, slow>>
vars == <<recipe, kernel, slow, proc, page, hwc, segment, rdr, fifo, lost, ctl>>

P == {0, 1}
Signals == {"SIGBUS", "SIGSEGV", "SIGPIPE", "SIGKILL"}
Faulty(f) == f \in kernel
Shared == recipe.type # "anon"
-----------------------------------------------------------------------------
(* The programs as lists of steps.                                         *)

S(k, a) == [k |-> k, a |-> a]

\* pprintf: open the fifo, write, close and sleep 10 ms.
Say(text, val) ==
  IF recipe.pipe THEN <<S("open", ""), S("write", <<text, val>>), S("nap", "")>> ELSE <<>>

\* An argument "name:key=value:key" of hugetlb_1gb is the sequence of its words,
\* <<name, "">>, <<key, value>>, <<key, "">>.  The last tag counts, and the first
\* value of every other key.
parse_operation_args(w) ==
  LET Has(key) == \E i \in 2 .. Len(w) : w[i][1] = key
      tags == SelectSeq(w, LAMBDA x : x[1] = "tag")
  IN [name |-> w[1][1], args |-> Tail(w), wait_before |-> Has("wait_before"),
      wait_after |-> Has("wait_after"), tag |-> IF tags = <<>> THEN "" ELSE Last(tags)[2]]
opc_get_value(opc, key) ==
  LET vals == SelectSeq(opc.args, LAMBDA x : x[1] = key)
  IN IF vals = <<>> THEN "" ELSE Head(vals)[2]

\* tag_string: the name, and the tag if there is one.
tag_string(opc) == IF opc.tag = "" THEN <<opc.name>> ELSE <<opc.name, opc.tag>>

\* do_wait_before and do_wait_after: a number is a sleep, no number a pause().
Wait(opc, when, key) ==
  IF opc_get_value(opc, key) # "" THEN <<S("nap", "")>>
  ELSE Say(<<when>> \o tag_string(opc), "") \o <<S("pause", "")>>
do_wait_before(opc) == IF opc.wait_before THEN Wait(opc, "before", "wait_before") ELSE <<>>
do_wait_after(opc) == IF opc.wait_after THEN Wait(opc, "after", "wait_after") ELSE <<>>

\* The operations of hugetlb_1gb.
Body(opc) ==
  CASE opc.name = "pause" -> Say(tag_string(opc), "") \o <<S("pause", ""), S("ret", "0")>>
    [] opc.name = "mremap" -> Say(<<"mremap">>, "") \o <<S("mremap", "")>> \o Say(<<"new">>, "")
    [] opc.name = "iterate_mapping" -> <<S("flag", TRUE), S("iterate", "")>>
    [] opc.name = "madvise" -> <<S("madvise", opc_get_value(opc, "advice"))>>
    [] OTHER -> <<S(opc.name, opc_get_value(opc, "type"))>>

\* One round of the loop over the arguments.
Code(opc) ==
  do_wait_before(opc) \o Body(opc) \o <<S("returned", tag_string(opc))>> \o do_wait_after(opc)

\* A mutant: the handler exits without a line.
SigbusSilent == <<S("exit", "1")>>

\* sigbus_handler
SigbusHandler ==
  Say(<<"Received SIGBUS">>, "") \o Say(<<"SIGBUS:">>, "") \o <<S("exit", "1")>>

\* do_fork of hugetlb_1gb: what the parent and the child do next.
ForkParent == Say(<<"forked">>, "") \o <<S("wait", "")>> \o Say(<<"child exited">>, "")
ForkChild == <<S("access", "memread"), S("pause", "")>>

\* hugetlb_fork_rw: the parent poisons the page, the child touches it after
\* one second, and the parent's status tells how the child ended.
RwParent == <<S("access", "memwrite"), S("madvise", "hwpoison"), S("wait", ""), S("exitby", "")>>
RwChild(how) ==
  <<S("sleep1", "")>> \o
  (CASE how = "sysrw" -> <<S("pread", "fails"), S("punch", ""), S("pread", "passes")>>
     [] how = "mmap_again" -> <<S("mapagain", ""), S("access", "memwrite")>>
     [] OTHER -> <<S("access", "memwrite")>>)

\* setup_signal_handler and the options; the loop over the arguments starts.
main ==
  IF recipe.prog = "hugetlb_1gb" THEN <<S("arg", 1)>>
  ELSE <<S("alloc_rw", ""), S("fork", recipe.ops[1])>>

Mem == {"none", "lazy", "page", "hw"}
Newborn == [st |-> "alive", todo |-> <<>>, at |-> <<"none", "none">>, ghp |-> FALSE,
            ret |-> "0", flag |-> TRUE]
-----------------------------------------------------------------------------
(* One step of a process.  at[1] is what is mapped at ADDR_INPUT, at[2]    *)
(* right above: nothing, a page not touched yet, a page, a hwpoison entry. *)

Head1(q) == Head(proc[q].todo)
At(q, ks) == proc[q].st = "alive" /\ proc[q].todo # <<>> /\ Head1(q).k \in ks
Next1(r) == [r EXCEPT !.todo = Tail(@)]
Dies(r, how) == [r EXCEPT !.st = how, !.todo = <<>>]

\* A mutant: no handler was installed.
SigbusDefault(r) == Dies(r, "SIGBUS")

\* SIGBUS: the handler replaces whatever the process was about to do.
Sigbus(r) ==
  IF recipe.prog = "hugetlb_1gb" THEN [r EXCEPT !.todo = SigbusHandler] ELSE Dies(r, "SIGBUS")

\* A memory access through ghp.
Touch(r) ==
  IF ~r.ghp \/ r.at[1] = "none" THEN Dies(r, "SIGSEGV")
  ELSE IF ~Faulty("sigbus") /\ (r.at[1] = "hw" \/ (r.at[1] = "lazy" /\ Shared /\ page = "poisoned"))
       THEN Sigbus(r)
  ELSE [Next1(r) EXCEPT !.at[1] = IF @ = "lazy" THEN "page" ELSE @, !.ret = "0"]

\* memory_failure: every mapping of the page becomes a hwpoison entry.
Poisoned(pr) ==
  [q \in P |-> [pr[q] EXCEPT !.at = [i \in 1 .. 2 |-> IF pr[q].at[i] = "page" THEN "hw" ELSE pr[q].at[i]]]]

\* Some process has the fifo open: it has not written yet (a signal handler may
\* have come in between), or the recipe made the fifo its standard output.
Opened(pr) ==
  \/ recipe.stdout /\ pr[0].st = "alive"
  \/ \E q \in P : LET t == pr[q].todo IN
       \E i \in DOMAIN t : t[i].k = "write" /\ (i > 1 => t[i - 1].k # "open")

\* What is left of the fifo's content in the next state.
Keep(lines, pr, open) == IF open \/ Opened(pr) THEN lines ELSE <<>>

\* The processes go on as pr; with the last file descriptor the lines are gone.
Settle(pr) ==
  /\ proc' = pr /\ fifo' = Keep(fifo, pr, rdr)
  /\ lost' = (lost \/ fifo # Keep(fifo, pr, rdr))
Becomes(q, r) == Settle([proc EXCEPT ![q] = r])

\* Nothing but the process itself changes, and the fifo if it had that open.
Local(q, r) == Becomes(q, r) /\ UNCHANGED <<env, page, hwc, segment, rdr, ctl>>

\* The loop of main: the next argument, or return 0 after the last one.
NextArg(q) ==
  /\ At(q, {"arg"})
  /\ LET i == Head1(q).a IN
       Local(q, [proc[q] EXCEPT !.todo =
                   IF i > Len(recipe.ops) THEN <<>>
                   ELSE Code(parse_operation_args(recipe.ops[i])) \o <<S("arg", i + 1)>>])

\* do_allocate, and the set-up of hugetlb_fork_rw, which does not look at what
\* mmap of a file returns; in do_iterate_mapping a failure ends the loop,
\* elsewhere the program goes on with a bad ghp.
Allocate(q) ==
  /\ At(q, {"allocate", "alloc_rw", "alloc_it"})
  /\ LET r == proc[q]  k == Head1(q).k IN
       IF Faulty("alloc")
       THEN /\ \/ k = "alloc_rw" /\ Becomes(q, Dies(r, "255"))
               \/ k = "alloc_it" /\ Becomes(q, [r EXCEPT !.ghp = FALSE, !.todo = SubSeq(@, 5, Len(@))])
               \/ /\ k = "allocate" \/ (k = "alloc_rw" /\ recipe.type = "file")
                  /\ Becomes(q, [Next1(r) EXCEPT !.ghp = FALSE, !.ret = "1"])
            /\ UNCHANGED segment
       ELSE /\ Becomes(q, [Next1(r) EXCEPT !.ghp = TRUE, !.at[1] = "lazy", !.ret = "0"])
            /\ segment' = (segment \/ Shared)
  /\ UNCHANGED <<env, page, hwc, rdr, ctl>>

\* do_access; the child of do_fork reads ghp[0].
Access(q) == At(q, {"access"}) /\ Local(q, Touch(proc[q]))

\* do_madvise
Madvise(q) ==
  /\ At(q, {"madvise"})
  /\ LET r == Next1(proc[q])  how == Head1(q).a IN
       CASE how = "dontneed" ->
              /\ Becomes(q, [r EXCEPT !.ret = "0", !.at[1] = IF Faulty("dontneed") THEN @ ELSE "lazy"])
              /\ UNCHANGED <<page, hwc>>
         [] how # "dontneed" /\ Faulty("inject") ->
              Becomes(q, [r EXCEPT !.ret = "-1"]) /\ UNCHANGED <<page, hwc>>
         [] how = "hwpoison" /\ ~Faulty("inject") ->
              /\ Settle(Poisoned([proc EXCEPT ![q] = [r EXCEPT !.ret = "0"]]))
              /\ page' = "poisoned" /\ hwc' = TRUE
         [] OTHER ->
              Becomes(q, [r EXCEPT !.ret = "0"]) /\ hwc' = TRUE /\ UNCHANGED page
  /\ UNCHANGED <<env, segment, rdr, ctl>>

\* do_mremap moves the entry; ghp keeps the old address.
Mremap(q) ==
  /\ At(q, {"mremap"})
  /\ LET r == proc[q] IN
       Local(q, [Next1(r) EXCEPT !.ret = "0",
                   !.at = <<"none", IF r.at[1] = "hw" /\ Faulty("mremap") THEN "lazy" ELSE r.at[1]>>])

\* do_iterate_mapping: map, write, unmap while (flag).
Iterate(q) ==
  /\ At(q, {"iterate"})
  /\ LET r == proc[q] IN
       Local(q, IF r.flag THEN [r EXCEPT !.todo = <<S("alloc_it", ""), S("access", "memwrite"),
                                                    S("munmap", "")>> \o @]
                ELSE Next1(r))
Munmap(q) ==
  /\ At(q, {"munmap"}) /\ Becomes(q, [Next1(proc[q]) EXCEPT !.at[1] = "none"])
  /\ page' = IF Shared THEN page ELSE "ok"
  /\ UNCHANGED <<env, hwc, segment, rdr, ctl>>

\* fork: the child has the parent's mappings and the rest of its list.
Fork(q) ==
  /\ At(q, {"fork"})
  /\ LET r == Next1(proc[q])
         c == [r EXCEPT !.at[1] = IF @ = "hw" /\ Faulty("copy") THEN "lazy" ELSE @]
     IN Settle(IF recipe.prog = "hugetlb_1gb"
               THEN [proc EXCEPT ![q] = [r EXCEPT !.todo = ForkParent \o @],
                                 ![1] = [c EXCEPT !.todo = ForkChild \o @]]
               ELSE [proc EXCEPT ![q] = [r EXCEPT !.todo = RwParent],
                                 ![1] = [c EXCEPT !.todo = RwChild(Head1(q).a)]])
  /\ UNCHANGED <<env, page, hwc, segment, rdr, ctl>>

\* A mutant: any child that did not exit with 0 counts as killed.
StatusLenient(st) == IF st = "0" THEN "0" ELSE "1"

\* The status of hugetlb_fork_rw by that of its child.
StatusOf(st) == IF st = "0" THEN "0" ELSE IF st \in Signals THEN "1" ELSE "2"

\* wait(), and the end of a process.
WaitChild(q) == At(q, {"wait"}) /\ proc[1].st # "alive" /\ Local(q, Next1(proc[q]))
Exit(q) ==
  /\ proc[q].st = "alive"
  /\ \/ proc[q].todo = <<>> /\ Local(q, Dies(proc[q], "0"))
     \/ At(q, {"exit"}) /\ Local(q, Dies(proc[q], Head1(q).a))
     \/ At(q, {"exitby"}) /\ Local(q, Dies(proc[q], StatusOf(proc[1].st)))

\* The child of hugetlb_fork_rw: pread of the poisoned page must fail, and
\* pass after the page is punched out of the file.
ChildRw(q) ==
  /\ At(q, {"pread", "punch", "mapagain"})
  /\ LET r == proc[q]
         fails == page = "poisoned" /\ ~Faulty("sigbus")
         good == CASE Head1(q).k = "pread" -> fails = (Head1(q).a = "fails")
                   [] Head1(q).k = "punch" -> ~Faulty("punch")
                   [] OTHER -> ~Faulty("remap")
     IN /\ Becomes(q, IF ~good THEN Dies(r, "255")
                      ELSE IF Head1(q).k = "mapagain" THEN [Next1(r) EXCEPT !.at[1] = "lazy", !.ghp = TRUE]
                      ELSE Next1(r))
        /\ page' = IF Head1(q).k = "punch" /\ good THEN "ok" ELSE page
  /\ UNCHANGED <<env, hwc, segment, rdr, ctl>>

\* Steps that change nothing but the process: flag = 1 or 0, ret = 0, the end
\* of a nap, and the line "... returned ...".  The 10 ms of a nap are there for
\* the controller to take the line.
Plain(q) ==
  /\ At(q, {"flag", "ret", "nap", "returned"})
  /\ At(q, {"nap"}) => slow \/ fifo = <<>>
  /\ LET r == Next1(proc[q])  h == Head1(q) IN
       Local(q, CASE h.k = "flag" -> [r EXCEPT !.flag = h.a]
                  [] h.k = "ret" -> [r EXCEPT !.ret = h.a]
                  [] h.k = "nap" -> r
                  [] OTHER -> [r EXCEPT !.todo = Say(h.a, r.ret) \o @])
-----------------------------------------------------------------------------
(* The fifo.                                                               *)

\* A mutant: open() does not wait for a reader.
MayOpenAlways == TRUE

\* open(O_WRONLY) waits for a reader.
MayOpen == rdr
Open(q) == At(q, {"open"}) /\ MayOpen /\ Local(q, Next1(proc[q]))

\* write() and close(); without a reader the writer dies.
Write(q) ==
  /\ At(q, {"write"})
  /\ LET pr == [proc EXCEPT ![q] = IF rdr THEN Next1(@) ELSE Dies(@, "SIGPIPE")]
         lines == IF rdr THEN Append(fifo, Head1(q).a) ELSE fifo
     IN /\ proc' = pr /\ fifo' = Keep(lines, pr, rdr)
        /\ lost' = (lost \/ ~rdr)
  /\ UNCHANGED <<env, page, hwc, segment, rdr, ctl>>

\* A process can take a step by itself.
CanMove(q) ==
  /\ proc[q].st = "alive"
  /\ At(q, {"open"}) => rdr
  /\ At(q, {"wait"}) => proc[1].st # "alive"
  /\ ~At(q, {"pause", "sleep1"})
Quiet == \A q \in P : ~CanMove(q)

\* The second the child of hugetlb_fork_rw sleeps is longer than anything else.
Sleep1(q) == At(q, {"sleep1"}) /\ (slow \/ Quiet) /\ Local(q, Next1(proc[q]))

Step(q) ==
  \/ NextArg(q) \/ Allocate(q) \/ Access(q) \/ Madvise(q) \/ Mremap(q) \/ Iterate(q) \/ Munmap(q)
  \/ Fork(q) \/ WaitChild(q) \/ Exit(q) \/ ChildRw(q) \/ Plain(q) \/ Open(q) \/ Write(q)
  \/ Sleep1(q)

\* SIGUSR1: sig_handle_flag prints a line first; a pause() or a nap is over, an
\* open() or a wait() goes on afterwards.
Signalled(r) ==
  IF r.st # "alive" THEN r
  ELSE [r EXCEPT !.todo = Say(<<"Received SIGUSR1">>, "") \o <<S("flag", FALSE)>> \o
          (IF @ # <<>> /\ Head(@).k \in {"pause", "nap"} THEN Tail(@) ELSE @)]
-----------------------------------------------------------------------------
(* The controller.                                                         *)

\* page-types: process q has a hwpoison entry at address i.
Look(q, i, yes, no) == [k |-> "look", q |-> q, i |-> i, yes |-> yes, no |-> no]
SetCode(c) == S("code", c)

\* The arms of the recipes' case statements.
Manipulate(l) ==
  CASE l = <<<<"after", "madvise", "hwpoison_inject">>, "">> ->
         <<Look(0, 1, "HWPOISONED", "HWPOISON_FAILED"), S("calm", ""), S("kill", 0)>>
    [] l = <<<<"forked">>, "">> ->
         <<Look(1, 1, "CHILD_HAS_HWPOISON_ENTRY", "CHILD_DOESNT_HAVE_HWPOISON_ENTRY"), S("kill", 1)>>
    [] l = <<<<"pause", "after_mremap">>, "">> -> <<Look(0, 2, "MREMAP_PASS", "MREMAP_FAIL"), S("kill", 0)>>
    [] l = <<<<"pause", "after_dontneed">>, "">> -> <<Look(0, 1, "DONTNEED_FAIL", "DONTNEED_PASS"), S("kill", 0)>>
    [] l \in {<<<<"pause", "after_fork">>, "">>, <<<<"pause">>, "">>} -> <<S("kill", 0)>>
    [] OTHER -> <<>>
Inj(l) ==
  (CASE l = <<<<"madvise">>, "0">> -> <<SetCode("MADV_PASS")>>
     [] l = <<<<"madvise">>, "-1">> -> <<SetCode("MADV_FAIL")>>
     [] l = <<<<"pause", "wait_injection">>, "">> -> <<S("inject", ""), S("calm", ""), S("kill", 0)>>
     [] l = <<<<"Received SIGBUS">>, "">> -> <<SetCode("SIGBUS")>>
     [] l = <<<<"access", "after_injection">>, "0">> -> <<SetCode("ACCESS_ERROR_ADDRESS")>>
     [] OTHER -> <<>>) \o <<S("calm", "")>>
HwpEntry(l) ==
  IF l = <<<<"pause">>, "">> THEN <<SetCode("HWPOISONED"), SetCode("EXIT"), S("end", "")>> ELSE <<>>
Arm(l) ==
  CASE recipe.arms = "manipulate" -> Manipulate(l)
    [] recipe.arms = "inj" -> Inj(l)
    [] OTHER -> HwpEntry(l)

\* The recipes that read no lines: the race injects at some moment, and
\* hugetlb_fork_rw is waited for.
Start ==
  CASE recipe.arms = "race" -> <<S("inject", ""), SetCode("EXIT"), S("end", "")>>
    [] recipe.arms = "status" -> <<S("status", ""), S("end", "")>>
    [] OTHER -> <<>>

Init ==
  /\ recipe \in Recipes /\ kernel \in Kernels /\ slow \in BOOLEAN
  /\ proc = [q \in P |-> IF q = 0 THEN [Newborn EXCEPT !.todo = main]
                         ELSE [Newborn EXCEPT !.st = "unborn"]]
  /\ page = "ok" /\ hwc = FALSE /\ segment = FALSE
  /\ rdr = FALSE /\ fifo = <<>> /\ lost = FALSE
  /\ ctl = [todo |-> Start, codes |-> <<>>, ph |-> "loop"]

Reading == ctl.ph = "loop" /\ ctl.todo = <<>>

\* read -t line <> $PIPE opens the fifo; 1GB_inj looks at the process before.
OpenRead ==
  /\ Reading /\ ~rdr
  /\ IF recipe.arms = "inj" /\ proc[0].st # "alive"
     THEN ctl' = [ctl EXCEPT !.todo = <<SetCode("EXIT"), S("end", "")>>] /\ UNCHANGED rdr
     ELSE rdr' = TRUE /\ UNCHANGED ctl
  /\ UNCHANGED <<env, proc, page, hwc, segment, fifo, lost>>

\* One line, and the fifo is closed.
TakeLine ==
  /\ Reading /\ rdr /\ fifo # <<>>
  /\ ctl' = [ctl EXCEPT !.todo = Arm(Head(fifo))]
  /\ rdr' = FALSE /\ fifo' = Keep(Tail(fifo), proc, FALSE)
  /\ lost' = (lost \/ (Tail(fifo) # <<>> /\ ~Opened(proc)))
  /\ UNCHANGED <<env, proc, page, hwc, segment>>

\* A mutant: the read has no time limit.
NeverTimeout == FALSE /\ UNCHANGED vars

\* The read times out: the loop is over.  1GB_inj has no EXIT then.
Timeout ==
  /\ Reading /\ rdr /\ fifo = <<>> /\ (slow \/ Quiet)
  /\ ctl' = [ctl EXCEPT !.todo = IF recipe.arms = "inj" THEN <<S("end", "")>>
                                 ELSE <<SetCode("EXIT"), S("end", "")>>]
  /\ rdr' = FALSE
  /\ UNCHANGED <<env, proc, page, hwc, segment, fifo, lost>>

\* One command of an arm.
Command ==
  /\ ctl.ph = "loop" /\ ctl.todo # <<>>
  /\ LET c == Head(ctl.todo)
         Coded(x) == [ctl EXCEPT !.todo = Tail(@), !.codes = Append(@, x)]
         skip == [ctl EXCEPT !.todo = Tail(@)]
     IN \/ c.k = "code" /\ ctl' = Coded(c.a) /\ UNCHANGED <<proc, page, hwc>>
        \/ /\ c.k = "look"
           /\ ctl' = Coded(IF proc[c.q].st = "alive" /\ proc[c.q].at[c.i] = "hw" THEN c.yes ELSE c.no)
           /\ UNCHANGED <<proc, page, hwc>>
        \/ c.k = "calm" /\ (slow \/ Quiet) /\ ctl' = skip /\ UNCHANGED <<proc, page, hwc>>
        \/ /\ c.k = "kill" /\ ctl' = skip
           /\ proc' = [proc EXCEPT ![c.a] = Signalled(@)] /\ UNCHANGED <<page, hwc>>
        \/ /\ c.k = "inject"
           /\ ctl' = IF recipe.arms = "race" THEN skip
                     ELSE Coded(IF Faulty("inject") THEN "OFFLINE_FAIL" ELSE "OFFLINE_PASS")
           /\ IF Faulty("inject") THEN UNCHANGED <<proc, page, hwc>>
              ELSE /\ hwc' = TRUE
                   /\ IF recipe.soft \/ ~\E q \in P : "page" \in {proc[q].at[1], proc[q].at[2]}
                      THEN UNCHANGED <<proc, page>>
                      ELSE proc' = Poisoned(proc) /\ page' = "poisoned"
        \/ /\ c.k = "status" /\ proc[0].st # "alive" /\ UNCHANGED <<proc, page, hwc>>
           /\ ctl' = IF proc[0].st \notin {"0", "1", "2"} THEN skip
                     ELSE Coded(CASE proc[0].st = "0" -> "CHILD_EXITED_PASS"
                                  [] proc[0].st = "1" -> "CHILD_KILLED"
                                  [] OTHER -> "CHILD_EXITED_FAIL")
        \/ c.k = "end" /\ ctl' = [ctl EXCEPT !.ph = "over", !.todo = <<>>] /\ UNCHANGED <<proc, page, hwc>>
  /\ UNCHANGED <<env, segment, rdr, fifo, lost>>

\* kill_all_subprograms of __do_test_async
KillAll ==
  /\ ctl.ph = "over" /\ ctl' = [ctl EXCEPT !.ph = "killed"]
  /\ proc' = [q \in P |-> IF proc[q].st = "alive" THEN Dies(proc[q], "SIGKILL") ELSE proc[q]]
  /\ fifo' = <<>>
  /\ UNCHANGED <<env, page, hwc, segment, rdr, lost>>

\* cleanup: unpoison, ipcrm, rm, umount; check_nr_hwcorrupted sees hwc.
Cleanup ==
  /\ ctl.ph = "killed" /\ ctl' = [ctl EXCEPT !.ph = "clean"]
  /\ page' = "ok" /\ segment' = FALSE
  /\ UNCHANGED <<env, proc, hwc, rdr, fifo, lost>>

Next ==
  \/ \E q \in P : Step(q)
  \/ OpenRead \/ TakeLine \/ Timeout \/ Command \/ KillAll \/ Cleanup

Spec ==
  /\ Init /\ [][Next]_vars
  /\ \A q \in P : WF_vars(Step(q))
  /\ WF_vars(OpenRead \/ TakeLine \/ Timeout \/ Command \/ KillAll \/ Cleanup)
-----------------------------------------------------------------------------
\* Processes, mappings and the controller have the shape of the programs' data;
\* only hugetlb_fork_rw may die of SIGBUS, the other program has its handler in
\* place before it touches memory (hugetlb_1gb.c:33).
TypeOK ==
  /\ \A q \in P : /\ proc[q].st \in {"unborn", "alive", "0", "1", "2", "255"} \cup Signals
                  /\ \A i \in 1 .. 2 : proc[q].at[i] \in Mem
                  /\ proc[q].st # "alive" => proc[q].todo = <<>>
                  /\ proc[q].st = "SIGBUS" => recipe.prog = "hugetlb_fork_rw"
  /\ page \in {"ok", "poisoned"} /\ ctl.ph \in {"loop", "over", "killed", "clean"}

\* The codes are those of EXPECTED_RETURN_CODE and, where the recipe has
\* check_nr_hwcorrupted, the counter was raised.
Pass == ctl.codes = recipe.expected /\ (recipe.hwcheck => hwc)

\* A recipe never passes on a kernel with one of the faults it is there to
\* find, whatever lines are lost and however slow the machine is.
NoFalsePass == ctl.ph = "clean" /\ Pass => kernel \cap recipe.tested = {}

\* hugetlb_1gb forks: parent and child both write to the fifo.
TwoWriters == \E i \in DOMAIN recipe.ops : recipe.prog = "hugetlb_1gb" /\ recipe.ops[i][1][1] = "fork"

\* On a good kernel every other recipe passes, in every interleaving, as long as
\* the sleeps are long enough: no wake-up that matters is lost between the line
\* and pause() (hugetlb_1gb.c:214), and the child of hugetlb_fork_rw touches the
\* page after it is poisoned (hugetlb_fork_rw.c:118).
GoodKernelPasses == ctl.ph = "clean" /\ kernel = {} /\ ~slow /\ ~TwoWriters => Pass

\* While one process at a time writes, no line is lost although the controller
\* closes the fifo after each line: open(O_WRONLY) of a pprintf waits for the
\* next read (test_core/lib/include.h:224).
LoneWriterIsHeard == ~slow /\ ~TwoWriters => ~lost

\* Every recipe ends, lost wake-ups, killed writers and bad kernels included:
\* each read has a time limit.
RecipeEnds == <>(ctl.ph = "clean")
=============================================================================
