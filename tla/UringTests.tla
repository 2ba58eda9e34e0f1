----------------------------- MODULE UringTests -----------------------------
(***************************************************************************)
(* test-io_uring: six tests one after the other, each with rings of its    *)
(* own.  The program fills the submission ring, io_uring_enter makes the   *)
(* kernel take entries from it, worker threads of the kernel run the       *)
(* requests, and their completions come back in any order.                 *)
(*                                                                         *)
(* The kernel's side is what the program relies on: a cancel finds its     *)
(* target not started (0), running (-EALREADY) or gone (-ENOENT); a linked *)
(* request waits for the one before it and is dropped when that fails; a   *)
(* drained request waits for all before it, and those behind it wait until *)
(* it has started; a timeout is over after so many completions or in time. *)
(***************************************************************************)
EXTENDS Integers, Sequences, FiniteSets, SequencesExt

CONSTANTS
  ENTRIES,    \* entries of the big rings
  SMALL,      \* entries of the ring test_ring_overflow fills (8)
  READS,      \* reads of test_ring_overflow (32)
  RINGS,      \* instances of test_create_and_remove_instance10
  FAILURES    \* bound: tests in which system calls fail or are cut short

ASSUME UringAssumption ==
  /\ ENTRIES \in Nat /\ SMALL \in Nat /\ READS \in Nat /\ RINGS \in Nat
  /\ FAILURES \in Nat
  /\ ENTRIES > 0 /\ ENTRIES % 2 = 0 /\ SMALL > 0 /\ READS > 0 /\ RINGS > 0

VARIABLES
  late,      \* the 1 ms timeout and the sleeps may be over before the I/O is
  test, pc,  \* the test that runs, and where it is
  size,      \* entries of its submission ring, 0 when there is none
  sqes,      \* slot -> entry
  head, tail,
  left,      \* entries io_uring_enter has still to take
  reqs,      \* the requests the kernel took, in order
  cq,        \* completions not reaped, as indices of reqs
  events,    \* the counter of the eventfd
  count,     \* test_eventfd's count
  tally,     \* cancelled, cancell_running, executed
  file,      \* the writes /tmp/test-io_uring got while test_io_link had it open
  overrun,   \* history: an entry was overwritten before the kernel took it
  broken,    \* history: the tests where a call failed or did less than asked
  evfd,      \* test_eventfd's eventfd: "ok", "failed" or "mute", not registered
  starved,   \* history: test_eventfd gets fewer signals than it counts to
  stray,     \* history: buffers were freed under reads that had not ended
  verdict    \* test -> "none", "Pass" or "Fail"

ring == <<size, sqes, head, tail>>
vars == <<late, test, pc, size, sqes, head, tail, left, reqs, cq, events, count, tally,
          file, overrun, broken, evfd, starved, stray, verdict>>
unseen == <<evfd, starved, stray>>

Tests == <<"create", "create10", "cancel", "link", "overflow", "eventfd">>
Name == IF test <= Len(Tests) THEN Tests[test] ELSE "end"
-----------------------------------------------------------------------------
(* Submission entries: op, target or buffer, user_data, flags.             *)

E(op, arg, ud, link, drain) ==
  [op |-> op, arg |-> arg, ud |-> ud, link |-> link, drain |-> drain]

\* Buffers are 1 .. ENTRIES; user_data is the buffer, 0 for the timeout.
prep_read(i) == E("read", i, i, FALSE, FALSE)
prep_write(c, link) == E("write", c, c, link, FALSE)

\* A mutant: the cancel carries the user_data of its target.
prep_cancel_same(i) == E("cancel", i, i, FALSE, FALSE)

prep_cancel(i) == E("cancel", i, i + (ENTRIES \div 2), FALSE, FALSE)

prep_timeout(n) == E("timeout", n, 0, TRUE, TRUE)

\* A mutant: the middle of each chain is not linked.
chain_cut(c) == <<prep_write(c, TRUE), prep_write(c + 1, FALSE), prep_write(c + 2, FALSE)>>

\* Three linked writes of one character each.
chain(c) == <<prep_write(c, TRUE), prep_write(c + 1, TRUE), prep_write(c + 2, FALSE)>>

\* The ten entries of test_io_link.
link_sqes == chain(1) \o <<prep_timeout(3)>> \o chain(7) \o chain(4)

\* A mutant: as many cancels as there are entries in the ring.
batch_full(step) ==
  IF Name = "cancel" THEN IF step = 1 THEN [i \in 1 .. (ENTRIES \div 2) |-> prep_read(i)]
                                      ELSE [i \in 1 .. ENTRIES |-> prep_cancel(i)]
  ELSE IF Name = "link" THEN link_sqes
  ELSE IF Name = "overflow" THEN [i \in 1 .. READS |-> prep_read(step)]
  ELSE [i \in 1 .. ENTRIES |-> prep_read(i)]

\* What a test prepares before its step-th io_uring_enter.
batch(step) ==
  IF Name = "cancel" THEN [i \in 1 .. (ENTRIES \div 2) |->
                             IF step = 1 THEN prep_read(i) ELSE prep_cancel(i)]
  ELSE IF Name = "link" THEN link_sqes
  ELSE IF Name = "overflow" THEN <<prep_read(step)>>
  ELSE [i \in 1 .. ENTRIES |-> prep_read(i)]
Steps == IF Name = "cancel" THEN 2 ELSE IF Name = "overflow" THEN READS ELSE 1

\* init_ring's size; ten entries need a ring of ten at least.
RingSize == IF Name = "overflow" THEN SMALL ELSE IF Name = "link" THEN 10 ELSE ENTRIES

Init ==
  /\ late \in BOOLEAN
  /\ test = 1 /\ pc = "setup" /\ size = 0 /\ sqes = <<>> /\ head = 0 /\ tail = 0
  /\ left = 0 /\ reqs = <<>> /\ cq = <<>> /\ events = 0 /\ count = 0
  /\ tally = [cancelled |-> 0, running |-> 0, executed |-> 0]
  /\ file = <<>> /\ overrun = FALSE /\ broken = {}
  /\ evfd = "ok" /\ starved = FALSE /\ stray = FALSE
  /\ verdict = [t \in 1 .. Len(Tests) |-> "none"]
-----------------------------------------------------------------------------
(* The program.                                                            *)

\* Requests that can still change by themselves.
Pending == {i \in DOMAIN reqs : reqs[i].st \in {"queued", "running"}}

\* The verdict is printed, what the test had is given up and the next one begins.
\* Only test_ring_overflow keeps its buffers, when it passes.
Ends(v) ==
  /\ verdict' = [verdict EXCEPT ![test] = v]
  /\ test' = test + 1 /\ pc' = "setup" /\ left' = 0
  /\ size' = 0 /\ sqes' = <<>> /\ head' = 0 /\ tail' = 0
  /\ reqs' = <<>> /\ cq' = <<>> /\ events' = 0 /\ count' = 0
  /\ tally' = [cancelled |-> 0, running |-> 0, executed |-> 0]
  /\ stray' = (stray \/ /\ Name # "overflow" \/ v = "Fail"
                        /\ \E i \in Pending : reqs[i].op = "read")
  /\ file' = <<>> /\ UNCHANGED <<late, overrun, evfd, starved>>

Crashes ==
  /\ pc' = "crashed"
  /\ UNCHANGED <<late, test, ring, left, reqs, cq, events, count, tally, file, overrun, unseen, verdict>>

\* A call of this test fails, or does less than it was asked to.
Breaks ==
  /\ Cardinality(broken \cup {test}) <= FAILURES
  /\ broken' = broken \cup {test}

\* malloc, init_ring, open, eventfd.  left counts the instances of the first two
\* tests.
SetUp(fd) ==
  /\ pc = "setup" /\ test <= Len(Tests)
  /\ size' = RingSize /\ sqes' = [s \in 0 .. (RingSize - 1) |-> prep_read(0)]
  /\ pc' = IF Name \in {"create", "create10"} THEN "opened" ELSE "prepare"
  /\ left' = 1 /\ evfd' = fd /\ starved' = (fd = "mute")
  /\ UNCHANGED <<late, test, head, tail, reqs, cq, events, count, tally, file, overrun, stray, verdict>>
Setup == SetUp("ok") /\ UNCHANGED broken

\* eventfd() or io_uring_register() fails, and nobody looks.
EventfdFails == Name = "eventfd" /\ Breaks /\ (SetUp("failed") \/ SetUp("mute"))

\* Something else fails.  The fail labels free cmp, ts and the instances that were
\* never set: the test fails, or the program ends in free().
SetupFails ==
  /\ pc = "setup" /\ test <= Len(Tests) /\ Breaks
  /\ Ends("Fail") \/ (Name \in {"create10", "cancel", "link"} /\ Crashes)

\* The first two tests only set up rings, one or RINGS, and close them.
AllOpen == pc = "opened" /\ (Name = "create10" => left >= RINGS)
NextRing ==
  /\ pc = "opened" /\ ~AllOpen /\ left' = left + 1
  /\ UNCHANGED <<late, test, pc, ring, reqs, cq, events, count, tally, file, overrun, broken,
                 unseen, verdict>>
Close == AllOpen /\ Ends("Pass") /\ UNCHANGED broken

\* close_ring() says it failed, and has no return statement for success.  After
\* the first ring the fail label of the second test frees what is free already.
CloseFails ==
  /\ AllOpen /\ Breaks
  /\ Ends("Fail") \/ (Name = "create10" /\ left > 1 /\ Crashes)

\* prep_sqe for every entry of the next batch: index = tail & ring_mask; nothing
\* looks at head.  count numbers the batches until the reaping begins.
Prepare ==
  /\ pc = "prepare"
  /\ LET b == batch(count + 1)
         slot(i) == (tail + i - 1) % size
     IN /\ sqes' = [s \in DOMAIN sqes |->
                      IF \E i \in DOMAIN b : slot(i) = s
                      THEN b[CHOOSE i \in DOMAIN b : slot(i) = s /\ \A j \in DOMAIN b : slot(j) = s => j <= i]
                      ELSE sqes[s]]
        /\ tail' = tail + Len(b) /\ left' = Len(b)
        /\ overrun' = (overrun \/ tail + Len(b) - head > size)
  /\ pc' = "enter" /\ count' = count + 1
  /\ UNCHANGED <<late, test, size, head, reqs, cq, events, tally, file, broken, unseen, verdict>>

\* io_uring_enter returns; a number less than asked for goes unnoticed.
EnterReturns ==
  /\ pc = "enter" /\ left = 0
  /\ pc' = IF count < Steps THEN "prepare" ELSE "reap"
  /\ count' = IF count < Steps THEN count ELSE 0
  /\ UNCHANGED <<late, test, ring, left, reqs, cq, events, tally, file, overrun, broken,
                 unseen, verdict>>

\* io_uring_enter stops early: with an error if it took nothing, and test_cancel_sqe
\* then frees a cmp that was never set.
EnterShort ==
  /\ pc = "enter" /\ left > 0 /\ Breaks
  /\ IF left = Len(batch(count)) THEN Ends("Fail") \/ (Name = "cancel" /\ Crashes)
     ELSE /\ left' = 0 /\ starved' = (starved \/ Name = "eventfd")
          /\ UNCHANGED <<late, test, pc, ring, reqs, cq, events, count, tally, file, overrun,
                         evfd, stray, verdict>>

\* malloc of cmp fails, and the fail label frees the buffers of what was submitted.
CmpFails ==
  /\ pc = "enter" /\ left = 0 /\ Name = "cancel" /\ count = Steps /\ Breaks
  /\ Ends("Fail")

\* A mutant: the buffer of the cancel itself is compared.
target_own(r) == [data |-> "nul"]

\* The read whose buffer is compared with zeros when cancel r is reaped.
target(r) == reqs[CHOOSE i \in DOMAIN reqs : reqs[i].op = "read" /\ reqs[i].arg = r.ud - (ENTRIES \div 2)]

\* What n calls of get_cqe leave of the completion ring.
get_cqe(n) == SubSeq(cq, n + 1, Len(cq))

\* test_cancel_sqe reaps until the ring is empty.  strcmp with zeros only looks
\* at the first byte.
ReapCancel ==
  /\ pc = "reap" /\ Name = "cancel"
  /\ IF cq = <<>> THEN Ends("Pass") /\ UNCHANGED broken
     ELSE LET r == reqs[Head(cq)]
              mine == r.ud > ENTRIES \div 2
              bad == mine /\ \/ r.res = "0" /\ target(r).data # "nul"
                             \/ r.res = "ENOENT" /\ target(r).data = "nul"
          IN IF bad THEN Ends("Fail") /\ UNCHANGED broken
             ELSE /\ cq' = get_cqe(1)
                  /\ tally' = IF ~mine THEN tally
                              ELSE IF r.res = "0" THEN [tally EXCEPT !.cancelled = @ + 1]
                              ELSE IF r.res = "EALREADY" THEN [tally EXCEPT !.running = @ + 1]
                              ELSE [tally EXCEPT !.executed = @ + 1]
                  /\ UNCHANGED <<late, test, pc, ring, left, reqs, events, count, file,
                                 overrun, broken, unseen, verdict>>

\* test_io_link sleeps a second, reaps, and reads the file back.  A stray read may
\* have changed the characters it wrote.
Slept == pc = "reap" /\ Name = "link" /\ (late \/ Pending = {})
ReapLink ==
  /\ Slept /\ UNCHANGED broken
  /\ \/ file = [i \in 1 .. 9 |-> i] /\ Ends("Pass")
     \/ (file # [i \in 1 .. 9 |-> i] \/ stray) /\ Ends("Fail")

\* After the reaping close_ring, or close, open or read of the file fails.
FinishFails ==
  /\ Slept \/ (pc = "reap" /\ Name = "cancel" /\ cq = <<>>)
  /\ Breaks /\ Ends("Fail")

\* test_ring_overflow reaps nothing; sleep(0.1) does not sleep.
EndOverflow == pc = "reap" /\ Name = "overflow" /\ Ends("Pass") /\ UNCHANGED broken

\* A mutant: one completion less is enough.
enough_early(n) == n >= ENTRIES - 1

\* A mutant: one completion more is waited for.
enough_late(n) == n > ENTRIES

enough(n) == n >= ENTRIES

\* A mutant: the read leaves the counter as it is.
ReadEventsKeep ==
  /\ pc = "reap" /\ Name = "eventfd" /\ events > 0 /\ ~enough(count)
  /\ count' = count + events
  /\ cq' = get_cqe(events)
  /\ UNCHANGED <<late, test, pc, ring, left, reqs, events, tally, file, overrun, broken,
                 unseen, verdict>>

\* test_eventfd: read() takes the counter and resets it; as many completions are
\* reaped, whether they are there or not.
ReadEvents ==
  /\ pc = "reap" /\ Name = "eventfd" /\ events > 0 /\ ~enough(count)
  /\ count' = count + events /\ events' = 0
  /\ cq' = get_cqe(events)
  /\ UNCHANGED <<late, test, pc, ring, left, reqs, tally, file, overrun, broken, unseen,
                 verdict>>
EndEvents == pc = "reap" /\ Name = "eventfd" /\ enough(count) /\ Ends("Pass") /\ UNCHANGED broken

\* eventfd() had failed: read() says so, the loop is left and the test passes.
ReadFails ==
  /\ pc = "reap" /\ Name = "eventfd" /\ evfd = "failed" /\ Ends("Pass")
  /\ UNCHANGED broken

\* A read that outlived its buffer has changed what malloc() and free() rely on; a
\* free() at the end of a test counts with the next test.
StrayCrash == stray /\ pc = "setup" /\ Crashes /\ UNCHANGED broken
-----------------------------------------------------------------------------
(* The kernel.                                                             *)

\* The first request of the chain request i belongs to.
Chained(i) == i > 1 /\ reqs[i - 1].link
Started(i) == reqs[i].st # "queued"
Over(i) == reqs[i].st \in {"done", "dropped"}

\* Completions a count of a timeout counts.
Completions == Cardinality({i \in DOMAIN reqs : reqs[i].op # "timeout" /\ Over(i)})

\* Request i is completed.  Only test_eventfd has an eventfd on its ring; while
\* other requests are on their way, a later signal may stand for this one too.
Signals(i) ==
  IF Name # "eventfd" \/ evfd # "ok" THEN {0} ELSE IF Pending = {i} THEN {1} ELSE {0, 1}
Posted(i) ==
  /\ cq' = Append(cq, i)
  /\ \E n \in Signals(i) : /\ events' = events + n
                           /\ starved' = (starved \/ (Name = "eventfd" /\ evfd = "ok" /\ n = 0))

\* The kernel takes the next entry of the ring.  A cancel is run at once.
Take ==
  /\ pc = "enter" /\ left > 0 /\ head < tail
  /\ LET e == sqes[head % size]
         T == {i \in DOMAIN reqs : reqs[i].op = "read" /\ reqs[i].arg = e.arg}
         found == IF T = {} \/ \A i \in T : Over(i) THEN "ENOENT"
                  ELSE IF \E i \in T : reqs[i].st = "running" THEN "EALREADY" ELSE "0"
         r == [op |-> e.op, arg |-> e.arg, ud |-> e.ud, link |-> e.link, drain |-> e.drain,
               st |-> IF e.op = "cancel" THEN "done" ELSE "queued",
               res |-> IF e.op = "cancel" THEN found ELSE "", data |-> "nul", base |-> 0]
         dropped == IF e.op = "cancel" /\ found = "0" THEN T ELSE {}
     IN /\ reqs' = Append([i \in DOMAIN reqs |->
                             IF i \in dropped THEN [reqs[i] EXCEPT !.st = "dropped", !.res = "ECANCELED"]
                             ELSE reqs[i]], r)
        /\ cq' = cq \o SetToSeq(dropped) \o (IF e.op = "cancel" THEN <<Len(reqs) + 1>> ELSE <<>>)
        /\ UNCHANGED events
  /\ head' = head + 1 /\ left' = left - 1
  /\ UNCHANGED <<late, test, pc, size, sqes, tail, count, tally, file, overrun, broken, unseen, verdict>>

\* Request i may start: the one it is linked to is done, a drained one waits
\* for all before it, and nobody passes a drained one that has not started.
MayStart(i) ==
  /\ reqs[i].st = "queued"
  /\ Chained(i) => reqs[i - 1].st = "done" /\ reqs[i - 1].res = "0"
  /\ reqs[i].drain => \A j \in 1 .. (i - 1) : Over(j)
  /\ \A j \in 1 .. (i - 1) : reqs[j].drain => Started(j)

Kernel(rs) ==
  /\ reqs' = rs
  /\ UNCHANGED <<late, test, pc, ring, left, count, tally, overrun, broken, evfd, stray, verdict>>

Begin(i) ==
  /\ MayStart(i)
  /\ Kernel([reqs EXCEPT ![i].st = "running", ![i].base = Completions])
  /\ UNCHANGED <<cq, events, starved, file>>

\* A read fills its buffer with random bytes, a write appends its character.
Complete(i) ==
  /\ reqs[i].st = "running" /\ reqs[i].op # "timeout"
  /\ \E d \in IF Name = "cancel" THEN {"nul", "text"} ELSE {"text"} :
       Kernel([reqs EXCEPT ![i].st = "done", ![i].res = "0", ![i].data = d])
  /\ file' = IF reqs[i].op = "write" THEN Append(file, reqs[i].arg) ELSE file
  /\ Posted(i)

\* The timeout has seen its completions, or time is up.
TimeoutEnds(i) ==
  /\ reqs[i].st = "running" /\ reqs[i].op = "timeout"
  /\ \/ /\ Completions - reqs[i].base >= reqs[i].arg
        /\ Kernel([reqs EXCEPT ![i].st = "done", ![i].res = "0"])
     \/ /\ Completions - reqs[i].base < reqs[i].arg
        /\ late \/ (left = 0 /\ \A j \in Pending \ {i} : reqs[j].st = "queued" /\ ~MayStart(j))
        /\ Kernel([reqs EXCEPT ![i].st = "done", ![i].res = "ETIME"])
  /\ Posted(i) /\ UNCHANGED file

\* A request linked to one that failed is dropped.
Drop(i) ==
  /\ reqs[i].st = "queued" /\ Chained(i)
  /\ reqs[i - 1].st = "dropped" \/ reqs[i - 1].res = "ETIME"
  /\ Kernel([reqs EXCEPT ![i].st = "dropped", ![i].res = "ECANCELED"])
  /\ Posted(i) /\ UNCHANGED file

Program ==
  \/ Setup \/ NextRing \/ Close \/ Prepare \/ EnterReturns \/ ReapCancel \/ ReapLink
  \/ EndOverflow \/ ReadEvents \/ EndEvents \/ ReadFails
Failure ==
  \/ SetupFails \/ EventfdFails \/ CloseFails \/ EnterShort \/ CmpFails \/ FinishFails
  \/ StrayCrash
Work(i) == Begin(i) \/ Complete(i) \/ TimeoutEnds(i) \/ Drop(i)
Worker == \E i \in DOMAIN reqs : Work(i)

Next == Program \/ Failure \/ Take \/ Worker

Spec ==
  /\ Init /\ [][Next]_vars
  /\ WF_vars(Program) /\ WF_vars(Take) /\ WF_vars(Worker)
-----------------------------------------------------------------------------
\* The program's counters and the rings have the shape of its data.
TypeOK ==
  /\ test \in 1 .. (Len(Tests) + 1)
  /\ pc \in {"setup", "opened", "prepare", "enter", "reap", "crashed"}
  /\ head \in 0 .. tail /\ left \in Nat /\ events \in 0 .. Len(cq)
  /\ \A i \in DOMAIN reqs : reqs[i].st \in {"queued", "running", "done", "dropped"}
  /\ \A j \in DOMAIN cq : Over(cq[j])

\* No entry of a submission ring is overwritten before the kernel took it, a
\* short io_uring_enter before included: prep_sqe never looks at the head.
SqNeverOverrun == ~overrun

\* When everything is reaped, the counters of test_cancel_sqe add up to its
\* cancels, and as many are counted as cancelled as reads were never run.
TallyIsTrue ==
  Name = "cancel" /\ pc = "reap" /\ cq = <<>> /\ test \notin broken =>
    /\ tally.cancelled = Cardinality({i \in DOMAIN reqs : reqs[i].st = "dropped"})
    /\ tally.cancelled + tally.running + tally.executed = ENTRIES \div 2

\* The check of test_cancel_sqe complains only of a read that was executed and
\* whose random data begins with a zero byte (test-io_uring.c:360), never of one
\* that was cancelled or is running.
ComplainsOfNulOnly ==
  [][Name = "cancel" /\ pc = "reap" /\ cq # <<>> /\ verdict'[test] = "Fail" =>
       \E i \in DOMAIN reqs : reqs[i].op = "read" /\ reqs[i].st = "done" /\ reqs[i].data = "nul"]_vars

\* Links, drain and timeout put the nine writes in order: whatever is late, cut
\* short or dropped, they are executed from 1 up without a gap, and all nine when
\* the timeout is long enough and no call fails; the test fails then only by a
\* read that outlived the buffers of test_cancel_sqe (test-io_uring.c:377).
WritesInOrder ==
  /\ \A i \in DOMAIN file : file[i] = i
  /\ verdict[4] = "Fail" => late \/ 4 \in broken \/ stray

\* test_eventfd frees its buffers when no read can write to them any more, also
\* after a short io_uring_enter, without a registered eventfd and with signals
\* that stand for several completions; unless eventfd() itself failed, which
\* nobody looks at (test-io_uring.c:619).
NoReadAfterFree ==
  [][Name = "eventfd" /\ verdict'[test] = "Pass" => Pending = {} \/ evfd = "failed"]_vars

\* main runs all tests to their end, or dies where it frees what was never set or
\* is free already.  Only in test_eventfd it may wait for ever, and only where it
\* gets fewer signals than it counts to: io_uring_enter took fewer reads,
\* io_uring_register failed, or a signal stood for several completions.
MainEnds == <>(test = Len(Tests) + 1 \/ pc = "crashed" \/ starved)
=============================================================================
