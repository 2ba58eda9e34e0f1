----------------------------- MODULE UringProofs -----------------------------
(***************************************************************************)
(* test-io_uring, for every size of the rings and every number of reads.   *)
(*                                                                         *)
(* RingInv: no test overwrites a submission entry the kernel has not taken.*)
(* prep_sqe never looks at the head, so the argument is about the tests:   *)
(* test_cancel_sqe prepares half of the ring twice, test_io_link and       *)
(* test_eventfd prepare once, and test_ring_overflow, whose reads are more *)
(* than its ring has entries, goes on only after the kernel took the one   *)
(* before (Progress).                                                      *)
(*                                                                         *)
(* On it rest Data and Queue (the requests are the prepared entries, in    *)
(* their order), and on those, test by test: Cancels (what a cancel tells  *)
(* of its read), Sums (what the reaped cancels told is what was counted),  *)
(* Counted (the eventfd never counts more than the completions) and Links  *)
(* (the file of test_io_link is a prefix of the nine characters).          *)
(***************************************************************************)
EXTENDS UringTests, TLAPS, FiniteSetTheorems

Half == ENTRIES \div 2

\* What the ring holds when a test prepares, and while io_uring_enter runs.
Progress ==
  /\ pc \in {"prepare", "enter"} => Name \in {"cancel", "link", "overflow", "eventfd"} /\ size = RingSize
  /\ pc = "prepare" /\ Name = "cancel" => count \in {0, 1} /\ tail = count * Half
  /\ pc = "prepare" /\ Name \in {"link", "eventfd"} => count = 0 /\ tail = 0
  /\ pc = "prepare" /\ Name = "overflow" => head = tail
  /\ pc = "enter" /\ Name = "cancel" => count \in {1, 2} /\ tail = count * Half
  /\ pc = "enter" /\ Name \in {"link", "eventfd"} => count = 1
  /\ pc = "enter" /\ Name = "overflow" => left \in {0, 1} /\ tail = head + left

Numbers ==
  /\ test \in 1 .. 7 /\ size \in Nat /\ head \in Nat /\ tail \in Nat /\ left \in Nat
  /\ count \in Nat /\ events \in Nat /\ head <= tail
  /\ pc \in {"setup", "opened", "prepare", "enter", "reap", "crashed"}
  /\ pc \in {"setup", "opened"} => head = 0 /\ tail = 0 /\ count = 0
  /\ pc = "opened" => Name \in {"create", "create10"}

\* The inductive invariant.
RingInv == Numbers /\ Progress /\ ~overrun

\* Main runs six tests.
LEMMA SixTests == Len(Tests) = 6
BY DEF Tests

\* The entries of the big rings are even in number.
LEMMA HalfType == Half \in Nat /\ 2 * Half = ENTRIES
BY UringAssumption DEF Half

\* test_io_link prepares ten entries.
LEMMA LinkLength == Len(link_sqes) = 10
BY DEF link_sqes, chain, prep_write, prep_timeout, E

\* How many entries a test prepares at once.
LEMMA BatchLength ==
  ASSUME NEW n \in Nat
  PROVE  /\ Name = "cancel" => Len(batch(n)) = Half
         /\ Name = "link" => Len(batch(n)) = 10
         /\ Name = "overflow" => Len(batch(n)) = 1
         /\ Name \notin {"cancel", "link", "overflow"} => Len(batch(n)) = ENTRIES
<1>1. CASE Name = "cancel"
  BY <1>1, HalfType DEF batch, Half
<1>2. CASE Name = "link"
  BY <1>2, LinkLength DEF batch
<1>3. CASE Name = "overflow"
  BY <1>3 DEF batch
<1>4. CASE Name \notin {"cancel", "link", "overflow"}
  BY <1>4, UringAssumption DEF batch
<1> QED
  BY <1>1, <1>2, <1>3, <1>4

\* The six names, and where they end.
LEMMA NameValues ==
  ASSUME test \in 1 .. 7
  PROVE  /\ Name \in {"create", "create10", "cancel", "link", "overflow", "eventfd", "end"}
         /\ Name = "end" <=> test = 7
BY SixTests DEF Name, Tests

\* A test that ends gives its ring up.
LEMMA EndsKeeps ==
  ASSUME RingInv, test <= Len(Tests), NEW v, Ends(v)
  PROVE  RingInv'
BY SixTests DEF RingInv, Numbers, Progress, Ends

\* free() of what was never set stops the program where it is.
LEMMA CrashesKeeps ==
  ASSUME RingInv, Crashes
  PROVE  RingInv'
BY DEF RingInv, Numbers, Progress, Crashes, ring

LEMMA SetupKeeps ==
  ASSUME RingInv, NEW fd, SetUp(fd)
  PROVE  RingInv'
<1>1. Name \in {"create", "create10", "cancel", "link", "overflow", "eventfd"}
  BY NameValues, SixTests DEF RingInv, Numbers, SetUp
<1>2. Name' = Name /\ RingSize' = RingSize /\ RingSize \in Nat
  BY UringAssumption DEF SetUp, Name, RingSize
<1>3. Numbers'
  BY <1>1, <1>2 DEF RingInv, Numbers, SetUp
<1>4. Progress'
  BY <1>1, <1>2, HalfType DEF RingInv, Numbers, SetUp, Progress
<1> QED
  BY <1>3, <1>4 DEF RingInv, SetUp

\* prep_sqe: what the ring holds and what is added to it fit in the ring.
LEMMA PrepareKeeps ==
  ASSUME RingInv, Prepare
  PROVE  RingInv'
<1> DEFINE L == Len(batch(count + 1))
<1>1. /\ pc' = "enter" /\ count' = count + 1 /\ tail' = tail + L /\ left' = L
      /\ overrun' = (overrun \/ tail + L - head > size)
      /\ size' = size /\ head' = head /\ test' = test /\ events' = events /\ pc = "prepare"
  BY DEF Prepare
<1>2. Name' = Name /\ RingSize' = RingSize
  BY <1>1 DEF Name, RingSize
<1>3. Name \in {"cancel", "link", "overflow", "eventfd"} /\ size = RingSize
  BY <1>1 DEF RingInv, Progress
<1>4. /\ Name = "cancel" => L = Half
      /\ Name = "link" => L = 10
      /\ Name = "overflow" => L = 1
      /\ Name = "eventfd" => L = ENTRIES
  BY BatchLength DEF RingInv, Numbers
<1> HIDE DEF L
<1>5. L \in Nat /\ tail + L - head <= size
  <2>1. CASE Name = "cancel"
    <3>1. tail = count * Half /\ count \in {0, 1} /\ size = 2 * Half
      BY <1>1, <1>3, <2>1, HalfType DEF RingInv, Progress, RingSize
    <3>2. tail <= Half
      BY <3>1, HalfType
    <3> QED
      BY <3>1, <3>2, <2>1, <1>4, HalfType DEF RingInv, Numbers
  <2>2. CASE Name = "link"
    BY <2>2, <1>1, <1>3, <1>4 DEF RingInv, Numbers, Progress, RingSize
  <2>3. CASE Name = "overflow"
    BY <2>3, <1>1, <1>3, <1>4, UringAssumption DEF RingInv, Numbers, Progress, RingSize
  <2>4. CASE Name = "eventfd"
    BY <2>4, <1>1, <1>3, <1>4, UringAssumption DEF RingInv, Numbers, Progress, RingSize
  <2> QED
    BY <2>1, <2>2, <2>3, <2>4, <1>3
<1>6. ~overrun'
  <2>1. ~(tail + L - head > size)
    BY <1>5 DEF RingInv, Numbers
  <2> QED
    BY <1>1, <2>1 DEF RingInv
<1>7. Numbers'
  BY <1>1, <1>5 DEF RingInv, Numbers
<1>8. Progress'
  <2>1. CASE Name = "cancel"
    <3>1. count \in {0, 1} /\ tail = count * Half
      BY <1>1, <2>1 DEF RingInv, Progress
    <3>2. tail + Half = (count + 1) * Half
      BY <3>1, HalfType
    <3> QED
      BY <3>1, <3>2, <2>1, <1>1, <1>2, <1>3, <1>4 DEF Progress, Half
  <2>2. CASE Name \in {"link", "eventfd"}
    BY <2>2, <1>1, <1>2, <1>3 DEF RingInv, Progress
  <2>3. CASE Name = "overflow"
    BY <2>3, <1>1, <1>2, <1>3, <1>4 DEF RingInv, Numbers, Progress
  <2> QED
    BY <2>1, <2>2, <2>3, <1>3
<1> QED
  BY <1>6, <1>7, <1>8 DEF RingInv

LEMMA EnterReturnsKeeps ==
  ASSUME RingInv, EnterReturns
  PROVE  RingInv'
<1>1. /\ Name' = Name /\ RingSize' = RingSize /\ pc = "enter" /\ left = 0
      /\ pc' = IF count < Steps THEN "prepare" ELSE "reap"
      /\ count' = IF count < Steps THEN count ELSE 0
      /\ UNCHANGED <<test, size, head, tail, left, events, overrun>>
  BY DEF EnterReturns, Name, RingSize, ring
<1>2. Numbers'
  BY <1>1 DEF RingInv, Numbers
<1>3. Progress'
  <2>1. CASE pc' = "reap"
    BY <2>1 DEF Progress
  <2>2. CASE pc' = "prepare" /\ Name = "cancel"
    BY <2>2, <1>1 DEF RingInv, Progress, Steps, Half
  <2>3. CASE pc' = "prepare" /\ Name # "cancel"
    BY <2>3, <1>1 DEF RingInv, Numbers, Progress, Steps
  <2> QED
    BY <2>1, <2>2, <2>3, <1>1
<1> QED
  BY <1>1, <1>2, <1>3 DEF RingInv

LEMMA EnterShortKeeps ==
  ASSUME RingInv, EnterShort
  PROVE  RingInv'
<1>1. pc = "enter" /\ test <= Len(Tests)
  BY NameValues, SixTests DEF EnterShort, RingInv, Numbers, Progress
<1>2. CASE Ends("Fail")
  BY <1>1, <1>2, EndsKeeps
<1>3. CASE Crashes
  BY <1>3, CrashesKeeps
<1>4. CASE /\ left # Len(batch(count)) /\ left > 0 /\ left' = 0
           /\ UNCHANGED <<test, pc, ring, events, count, overrun>>
  <2>1. Name # "overflow"
    <3>1. SUFFICES ASSUME Name = "overflow" PROVE FALSE
      OBVIOUS
    <3>2. Len(batch(count)) = 1
      BY <3>1, BatchLength DEF RingInv, Numbers
    <3>3. left \in {0, 1}
      BY <3>1, <1>1 DEF RingInv, Progress
    <3> QED
      BY <1>4, <3>2, <3>3
  <2> QED
    BY <1>1, <1>4, <2>1 DEF RingInv, Numbers, Progress, Name, RingSize, Half, ring
<1> QED
  BY <1>2, <1>3, <1>4 DEF EnterShort

LEMMA TakeKeeps ==
  ASSUME RingInv, Take
  PROVE  RingInv'
<1>1. /\ head' = head + 1 /\ left' = left - 1 /\ left > 0 /\ head < tail /\ pc = "enter"
      /\ UNCHANGED <<test, pc, size, tail, events, count, overrun>>
  BY DEF Take
<1>2. Name' = Name /\ RingSize' = RingSize
  BY <1>1 DEF Name, RingSize
<1> QED
  BY <1>1, <1>2 DEF RingInv, Numbers, Progress, Half

\* The workers of the kernel leave the ring alone.
LEMMA WorkerKeeps ==
  ASSUME RingInv, NEW i \in DOMAIN reqs, Work(i)
  PROVE  RingInv'
<1>1. Signals(i) \subseteq {0, 1} /\ events \in Nat
  BY DEF Signals, RingInv, Numbers
<1>2. UNCHANGED <<test, pc, size, head, tail, left, count, overrun>>
  BY DEF Work, Begin, Complete, TimeoutEnds, Drop, Kernel, ring
<1>3. events' = events \/ \E n \in Signals(i) : events' = events + n
  BY DEF Work, Begin, Complete, TimeoutEnds, Drop, Posted
<1>4. events' \in Nat
  BY <1>1, <1>3
<1> QED
  BY <1>2, <1>4 DEF RingInv, Numbers, Progress, Name, RingSize, Half

\* One step per action.
LEMMA StepKeeps ==
  ASSUME RingInv, [Next]_vars
  PROVE  RingInv'
<1>1. CASE Setup \/ EventfdFails
  BY <1>1, SetupKeeps DEF Setup, EventfdFails
<1>2. CASE SetupFails \/ StrayCrash
  BY <1>2, EndsKeeps, CrashesKeeps DEF SetupFails, StrayCrash
<1>3. CASE NextRing \/ Close \/ CloseFails
  <2>1. test <= Len(Tests)
    BY <1>3, NameValues, SixTests DEF NextRing, Close, CloseFails, AllOpen, RingInv, Numbers
  <2>2. CASE (\E v : Ends(v)) \/ Crashes
    BY <2>1, <2>2, EndsKeeps, CrashesKeeps
  <2>3. CASE NextRing
    BY <2>3 DEF NextRing, RingInv, Numbers, Progress, Name, ring
  <2> QED
    BY <1>3, <2>2, <2>3 DEF Close, CloseFails
<1>4. CASE Prepare
  BY <1>4, PrepareKeeps
<1>5. CASE EnterReturns
  BY <1>5, EnterReturnsKeeps
<1>6. CASE EnterShort
  BY <1>6, EnterShortKeeps
<1>7. CASE ReapCancel
  <2>1. test <= Len(Tests)
    BY <1>7, NameValues, SixTests DEF ReapCancel, RingInv, Numbers
  <2>2. CASE \E v : Ends(v)
    BY <2>1, <2>2, EndsKeeps
  <2>3. CASE UNCHANGED <<test, pc, ring, left, events, count, overrun>> /\ pc = "reap"
    BY <2>3 DEF RingInv, Numbers, Progress, Name, ring
  <2> QED
    BY <1>7, <2>2, <2>3 DEF ReapCancel
<1>8. CASE ReapLink \/ EndOverflow \/ EndEvents \/ ReadFails \/ CmpFails \/ FinishFails
  <2>1. test <= Len(Tests)
    BY <1>8, NameValues, SixTests
       DEF ReapLink, EndOverflow, EndEvents, ReadFails, CmpFails, FinishFails, Slept, RingInv, Numbers
  <2>2. \E v : Ends(v)
    BY <1>8 DEF ReapLink, EndOverflow, EndEvents, ReadFails, CmpFails, FinishFails
  <2> QED
    BY <2>1, <2>2, EndsKeeps
<1>9. CASE ReadEvents
  BY <1>9 DEF ReadEvents, RingInv, Numbers, Progress, Name, ring
<1>10. CASE Take
  BY <1>10, TakeKeeps
<1>11. CASE Worker
  BY <1>11, WorkerKeeps DEF Worker
<1>12. CASE UNCHANGED vars
  BY <1>12 DEF vars, RingInv, Numbers, Progress, Name, RingSize, Half
<1> QED
  BY <1>1, <1>2, <1>3, <1>4, <1>5, <1>6, <1>7, <1>8, <1>9, <1>10, <1>11, <1>12 DEF Next, Program, Failure

\* No submission entry is overwritten before the kernel took it (prep_sqe writes
\* at the tail and never looks at the head), whatever the sizes of the rings,
\* whatever fails and in whichever order the kernel works.
THEOREM RingNeverOverrun == Spec => []SqNeverOverrun
<1>1. Init => RingInv
  BY DEF Init, RingInv, Numbers, Progress
<1>2. RingInv /\ [Next]_vars => RingInv'
  BY StepKeeps
<1>3. RingInv => SqNeverOverrun
  BY DEF RingInv, SqNeverOverrun
<1> QED
  BY <1>1, <1>2, <1>3, PTL DEF Spec
-----------------------------------------------------------------------------
(* The requests.                                                           *)

States == {"queued", "running", "done", "dropped"}
Results == {"", "0", "ENOENT", "EALREADY", "ECANCELED", "ETIME"}
Entries == [op : {"read", "write", "cancel", "timeout"}, arg : Nat, ud : Nat,
            link : BOOLEAN, drain : BOOLEAN]
Requests == [op : {"read", "write", "cancel", "timeout"}, arg : Nat, ud : Nat,
             link : BOOLEAN, drain : BOOLEAN, st : States, res : Results,
             data : {"nul", "text"}, base : Nat]

\* What the kernel has taken and completed.
Data ==
  /\ reqs \in Seq(Requests) /\ Len(reqs) = head
  /\ pc \in {"prepare", "enter"} =>
       DOMAIN sqes = 0 .. (size - 1) /\ \A s \in 0 .. (size - 1) : sqes[s] \in Entries
  /\ cq \in Seq(Nat) /\ \A j \in 1 .. Len(cq) : cq[j] \in 1 .. Len(reqs) /\ Over(cq[j])
  /\ events <= Len(cq) /\ (Name # "eventfd" => events = 0)
  /\ file \in Seq(Nat)
  /\ DOMAIN verdict = 1 .. 6 /\ \A t \in 1 .. 6 : t >= test => verdict[t] = "none"
  /\ late \in BOOLEAN
  /\ pc \in {"prepare", "enter", "reap"} => Name \in {"cancel", "link", "overflow", "eventfd"}

\* The n-th entry a test prepares.
Entry(n) ==
  IF Name = "cancel" THEN IF n <= Half THEN prep_read(n) ELSE prep_cancel(n - Half)
  ELSE IF Name = "link" THEN link_sqes[n]
  ELSE prep_read(n)

IsEntry(r, e) ==
  r.op = e.op /\ r.arg = e.arg /\ r.ud = e.ud /\ r.link = e.link /\ r.drain = e.drain

\* The kernel takes what was prepared, in order.
Queue ==
  Name \in {"cancel", "link", "eventfd"} =>
    /\ tail <= RingSize
    /\ pc \in {"prepare", "enter"} => \A s \in head .. (tail - 1) : sqes[s] = Entry(s + 1)
    /\ \A i \in 1 .. Len(reqs) : IsEntry(reqs[i], Entry(i))

\* What became of a read, its cancel tells.
Cancels ==
  Name = "cancel" => \A i \in 1 .. Len(reqs) :
    LET r == reqs[i] IN
      /\ i <= Half => /\ r.st # "done" => r.data = "nul"
                      /\ r.st = "dropped" => i + Half <= Len(reqs)
                      /\ r.st = "dropped" => reqs[i + Half].res = "0"
      /\ i > Half => /\ r.st = "done"
                     /\ r.res = "0" => reqs[i - Half].st = "dropped"
                     /\ r.res = "ENOENT" => reqs[i - Half].st = "done"

\* The cancels that are reaped, by what they told, and where main is while no
\* system call has failed: all reads and all cancels are taken.
Has(s, x) == \E j \in 1 .. Len(s) : s[j] = x
Distinct(s) == \A j, k \in 1 .. Len(s) : s[j] = s[k] => j = k
Told(S) == {i \in 1 .. Len(reqs) : i > Half /\ reqs[i].res \in S /\ ~Has(cq, i)}
Others == Results \ {"0", "EALREADY"}
Sums ==
  Name = "cancel" =>
    /\ Distinct(cq)
    /\ tally \in [cancelled : Nat, running : Nat, executed : Nat]
    /\ tally.cancelled = Cardinality(Told({"0"}))
    /\ tally.running = Cardinality(Told({"EALREADY"}))
    /\ tally.executed = Cardinality(Told(Others))
    /\ test \notin broken => /\ pc = "prepare" => head = tail
                             /\ pc = "enter" => head + left = tail
                             /\ pc = "reap" => head = ENTRIES

\* What test_eventfd is signalled and has counted are completions, each once.
OverSet == {i \in 1 .. Len(reqs) : Over(i)}
Counted ==
  Name = "eventfd" => Cardinality(OverSet) >= events + (IF pc = "reap" THEN count ELSE 0)

\* Only test_io_link writes.
Plain(e) == Name # "link" => e.op # "write"
Reads ==
  /\ pc \in {"prepare", "enter"} => \A s \in 0 .. (size - 1) : Plain(sqes[s])
  /\ \A i \in 1 .. Len(reqs) : Plain(reqs[i])

\* The requests of test_io_link, taken or not.
St(i) == IF i \in 1 .. Len(reqs) THEN reqs[i].st ELSE "none"
Res(i) == IF i \in 1 .. Len(reqs) THEN reqs[i].res ELSE ""
Base(i) == IF i \in 1 .. Len(reqs) THEN reqs[i].base ELSE 0
Began(i) == St(i) \in {"running", "done"}

\* Its writes, the character each of them writes, and the write of the character
\* before.
Writes == {1, 2, 3, 5, 6, 7, 8, 9, 10}
Pos(i) == IF i < 4 THEN i ELSE IF i < 8 THEN i + 2 ELSE i - 4
Prev(i) == IF i = 5 THEN 10 ELSE IF i = 8 THEN 3 ELSE i - 1

\* The file and the requests.  Request 4 is the timeout, which 5 to 7 are linked
\* to and 8 to 10 may not pass.
Order ==
  /\ Len(file) <= 9 /\ \A c \in 1 .. Len(file) : file[c] = c
  /\ \A i \in Writes : St(i) = "done" <=> Pos(i) <= Len(file)
  /\ \A i \in Writes \ {1} : Began(i) => St(Prev(i)) = "done"
  /\ Began(4) => St(3) = "done" /\ Base(4) = 3
  /\ Began(8) => Began(4)
  /\ \A i \in {1, 2, 3, 4, 8, 9, 10} : St(i) # "dropped"
  /\ \A i \in {5, 6, 7} : Began(i) => St(4) = "done" /\ Res(4) = "0"
  /\ \A i \in {5, 6, 7} : St(i) = "dropped" => St(4) = "done" /\ Res(4) = "ETIME"
  /\ St(4) = "done" => Res(4) = "ETIME" \/ (Res(4) = "0" /\ St(10) = "done")
  /\ St(4) # "done" => Res(4) # "ETIME"
  /\ \A i \in Writes : Res(i) # "ETIME" /\ (St(i) = "done" => Res(i) = "0")

\* Where main is while nothing is late and no system call has failed.
Calm ==
  /\ pc = "enter" => tail = 10 /\ head + left = tail
  /\ pc = "reap" => Len(reqs) = 10
  /\ St(4) = "done" => Res(4) = "0"

Links ==
  /\ Name # "link" => file = <<>>
  /\ Name = "link" =>
       /\ Order
       /\ pc \notin {"enter", "reap"} => Len(reqs) = 0
       /\ ~late /\ test \notin broken => Calm

LinkVerdict == verdict[4] = "Fail" => late \/ 4 \in broken \/ stray
-----------------------------------------------------------------------------
\* A number below the modulus is its own remainder.
LEMMA SmallMod ==
  ASSUME NEW x \in Nat, NEW n \in Nat, x < n
  PROVE  x % n = x
  BY SMT

\* Sequence x is sequence a of length m and then sequence b of length n.
IsCat(x, a, b, m, n) ==
  /\ Len(a) = m /\ Len(b) = n /\ Len(x) = m + n
  /\ \A i \in 1 .. m : x[i] = a[i]
  /\ \A i \in 1 .. n : x[m + i] = b[i]

LEMMA Concat ==
  ASSUME NEW S, NEW a \in Seq(S), NEW b \in Seq(S), NEW m, NEW n, m = Len(a), n = Len(b)
  PROVE  a \o b \in Seq(S) /\ IsCat(a \o b, a, b, m, n)
  BY DEF IsCat

\* Four sequences of the lengths of those in link_sqes.
LEMMA FourInARow ==
  ASSUME NEW a, NEW b, NEW c, NEW d, NEW x, NEW y, NEW z,
         IsCat(y, a, b, 3, 1), IsCat(z, y, c, 4, 3), IsCat(x, z, d, 7, 3)
  PROVE  /\ Len(x) = 10
         /\ x[1] = a[1] /\ x[2] = a[2] /\ x[3] = a[3] /\ x[4] = b[1]
         /\ x[5] = c[1] /\ x[6] = c[2] /\ x[7] = c[3]
         /\ x[8] = d[1] /\ x[9] = d[2] /\ x[10] = d[3]
  BY DEF IsCat

LEMMA Triple ==
  ASSUME NEW S, NEW u \in S, NEW v \in S, NEW w \in S, NEW x, x = <<u, v, w>>
  PROVE  x \in Seq(S) /\ Len(x) = 3 /\ x[1] = u /\ x[2] = v /\ x[3] = w
  OBVIOUS

LEMMA ChainEntries ==
  ASSUME NEW c \in Nat
  PROVE  /\ chain(c) \in Seq(Entries) /\ Len(chain(c)) = 3
         /\ chain(c)[1] = prep_write(c, TRUE) /\ chain(c)[2] = prep_write(c + 1, TRUE)
         /\ chain(c)[3] = prep_write(c + 2, FALSE)
<1> DEFINE u == prep_write(c, TRUE)  v == prep_write(c + 1, TRUE)  w == prep_write(c + 2, FALSE)
           x == chain(c)
<1>1. u \in Entries /\ v \in Entries /\ w \in Entries
  BY DEF prep_write, E, Entries
<1>2. x = <<u, v, w>>
  BY DEF chain
<1> HIDE DEF u, v, w, x
<1>3. x \in Seq(Entries) /\ Len(x) = 3 /\ x[1] = u /\ x[2] = v /\ x[3] = w
  BY <1>1, <1>2, Triple
<1>4. QED
  BY <1>3 DEF u, v, w, x

\* The ten entries one by one.
LEMMA LinkEntries ==
  /\ link_sqes \in Seq(Entries) /\ Len(link_sqes) = 10
  /\ link_sqes[1] = prep_write(1, TRUE) /\ link_sqes[2] = prep_write(2, TRUE)
  /\ link_sqes[3] = prep_write(3, FALSE) /\ link_sqes[4] = prep_timeout(3)
  /\ link_sqes[5] = prep_write(7, TRUE) /\ link_sqes[6] = prep_write(8, TRUE)
  /\ link_sqes[7] = prep_write(9, FALSE) /\ link_sqes[8] = prep_write(4, TRUE)
  /\ link_sqes[9] = prep_write(5, TRUE) /\ link_sqes[10] = prep_write(6, FALSE)
<1> DEFINE a == chain(1)  b == <<prep_timeout(3)>>  c == chain(7)  d == chain(4)
           x == link_sqes
<1>1. a \in Seq(Entries) /\ c \in Seq(Entries) /\ d \in Seq(Entries)
  BY ChainEntries
<1>2. Len(a) = 3 /\ Len(c) = 3 /\ Len(d) = 3
  BY ChainEntries
<1>3. /\ a[1] = prep_write(1, TRUE) /\ a[2] = prep_write(2, TRUE) /\ a[3] = prep_write(3, FALSE)
      /\ c[1] = prep_write(7, TRUE) /\ c[2] = prep_write(8, TRUE) /\ c[3] = prep_write(9, FALSE)
      /\ d[1] = prep_write(4, TRUE) /\ d[2] = prep_write(5, TRUE) /\ d[3] = prep_write(6, FALSE)
  <2>1. /\ a[1] = prep_write(1, TRUE) /\ a[2] = prep_write(1 + 1, TRUE) /\ a[3] = prep_write(1 + 2, FALSE)
        /\ c[1] = prep_write(7, TRUE) /\ c[2] = prep_write(7 + 1, TRUE) /\ c[3] = prep_write(7 + 2, FALSE)
        /\ d[1] = prep_write(4, TRUE) /\ d[2] = prep_write(4 + 1, TRUE) /\ d[3] = prep_write(4 + 2, FALSE)
    BY ChainEntries
  <2>2. 1 + 1 = 2 /\ 1 + 2 = 3 /\ 7 + 1 = 8 /\ 7 + 2 = 9 /\ 4 + 1 = 5 /\ 4 + 2 = 6
    OBVIOUS
  <2> HIDE DEF a, c, d
  <2>3. QED
    BY <2>1, <2>2
<1>4. b \in Seq(Entries) /\ Len(b) = 1 /\ b[1] = prep_timeout(3)
  BY DEF prep_timeout, E, Entries
<1>5. x = a \o b \o c \o d
  BY DEF link_sqes
<1> HIDE DEF a, b, c, d, x
<1>6. PICK y : y = a \o b
  OBVIOUS
<1>7. y \in Seq(Entries) /\ IsCat(y, a, b, 3, 1)
  BY <1>1, <1>2, <1>4, <1>6, Concat
<1>8. Len(y) = 4
  BY <1>7 DEF IsCat
<1>9. PICK z : z = y \o c
  OBVIOUS
<1>10. z \in Seq(Entries) /\ IsCat(z, y, c, 4, 3)
  BY <1>1, <1>2, <1>7, <1>8, <1>9, Concat
<1>11. Len(z) = 7
  BY <1>10 DEF IsCat
<1>12. x = z \o d
  BY <1>5, <1>6, <1>9
<1>13. x \in Seq(Entries) /\ IsCat(x, z, d, 7, 3)
  BY <1>1, <1>2, <1>10, <1>11, <1>12, Concat
<1>14. /\ Len(x) = 10
       /\ x[1] = a[1] /\ x[2] = a[2] /\ x[3] = a[3] /\ x[4] = b[1]
       /\ x[5] = c[1] /\ x[6] = c[2] /\ x[7] = c[3]
       /\ x[8] = d[1] /\ x[9] = d[2] /\ x[10] = d[3]
  BY <1>7, <1>10, <1>13, FourInARow
<1>15. QED
  BY <1>3, <1>4, <1>13, <1>14 DEF x

\* Entries are entries.
LEMMA EntryType ==
  ASSUME NEW n \in Nat \ {0}, Name = "link" => n <= 10
  PROVE  Entry(n) \in Entries
<1>1. ASSUME NEW i \in Nat PROVE prep_read(i) \in Entries /\ prep_cancel(i) \in Entries
  BY HalfType DEF prep_read, prep_cancel, E, Entries, Half
<1>2. CASE Name = "link"
  <2>1. n \in {1, 2, 3, 4, 5, 6, 7, 8, 9, 10}
    BY <1>2
  <2>2. ASSUME NEW c \in Nat, NEW l \in BOOLEAN PROVE prep_write(c, l) \in Entries
    BY DEF prep_write, E, Entries
  <2>3. prep_timeout(3) \in Entries
    BY DEF prep_timeout, E, Entries
  <2>4. link_sqes[n] \in Entries
    BY <2>1, <2>2, <2>3, LinkEntries
  <2>5. QED
    BY <1>2, <2>4 DEF Entry
<1>3. CASE Name # "link"
  BY <1>1, <1>3, HalfType DEF Entry
<1>4. QED
  BY <1>2, <1>3

\* What a test prepares.
LEMMA BatchEntries ==
  ASSUME RingInv, pc = "prepare", NEW i \in 1 .. Len(batch(count + 1))
  PROVE  /\ batch(count + 1)[i] \in Entries
         /\ Name # "overflow" => batch(count + 1)[i] = Entry(tail + i)
<1>1. /\ Name \in {"cancel", "link", "overflow", "eventfd"} /\ count \in Nat /\ tail \in Nat
      /\ count + 1 \in Nat
  BY DEF RingInv, Numbers, Progress
<1> DEFINE L == Len(batch(count + 1))
<1>8. /\ Name = "cancel" => L = Half
      /\ Name = "link" => L = 10
      /\ Name = "overflow" => L = 1
      /\ Name = "eventfd" => L = ENTRIES
  BY <1>1, BatchLength
<1>9. i \in 1 .. L
  OBVIOUS
<1> HIDE DEF L
<1>2. i \in Nat \ {0}
  BY <1>1, <1>8, <1>9, HalfType, UringAssumption
<1>3. CASE Name = "cancel"
  <2>1. count \in {0, 1} /\ tail = count * Half /\ i <= Half
    BY <1>1, <1>3, <1>8, <1>9, HalfType DEF RingInv, Progress
  <2>2. batch(count + 1)[i] = IF count = 0 THEN prep_read(i) ELSE prep_cancel(i)
    BY <1>2, <1>3, <2>1, HalfType DEF batch, Half
  <2>3. batch(count + 1)[i] = Entry(tail + i)
    BY <1>2, <1>3, <2>1, <2>2, HalfType DEF Entry
  <2>4. QED
    BY <1>1, <1>2, <1>3, <2>3, EntryType
<1>4. CASE Name = "link"
  <2>1. count = 0 /\ tail = 0
    BY <1>1, <1>4 DEF RingInv, Progress
  <2>5. i <= 10
    BY <1>4, <1>8, <1>9
  <2>2. batch(count + 1)[i] = Entry(tail + i)
    BY <1>2, <1>4, <2>1 DEF batch, Entry
  <2>3. QED
    BY <1>1, <1>2, <1>4, <2>1, <2>2, <2>5, EntryType
<1>5. CASE Name = "eventfd"
  <2>1. count = 0 /\ tail = 0 /\ i \in 1 .. ENTRIES
    BY <1>1, <1>5, <1>8, <1>9 DEF RingInv, Progress
  <2>2. batch(count + 1)[i] = Entry(tail + i)
    BY <1>2, <1>5, <2>1 DEF batch, Entry
  <2>3. QED
    BY <1>1, <1>2, <1>5, <2>1, <2>2, EntryType
<1>6. CASE Name = "overflow"
  <2>1. batch(count + 1) = <<prep_read(count + 1)>> /\ i = 1
    BY <1>6, <1>8, <1>9 DEF batch
  <2>2. batch(count + 1)[i] = prep_read(count + 1)
    BY <2>1
  <2>3. prep_read(count + 1) \in Entries
    BY <1>1 DEF prep_read, E, Entries
  <2>4. QED
    BY <1>6, <2>2, <2>3
<1>7. QED
  BY <1>1, <1>3, <1>4, <1>5, <1>6

\* What is prepared fits behind what is there.
LEMMA BatchFits ==
  ASSUME RingInv, pc = "prepare", Name # "overflow"
  PROVE  tail + Len(batch(count + 1)) <= size /\ size = RingSize
<1> DEFINE L == Len(batch(count + 1))
<1>1. /\ Name \in {"cancel", "link", "eventfd"} /\ size = RingSize
      /\ Name = "cancel" => count \in {0, 1} /\ tail = count * Half
      /\ Name \in {"link", "eventfd"} => tail = 0
      /\ count + 1 \in Nat
  BY DEF RingInv, Numbers, Progress
<1>2. /\ Name = "cancel" => L = Half
      /\ Name = "link" => L = 10
      /\ Name = "eventfd" => L = ENTRIES
  BY <1>1, BatchLength
<1> HIDE DEF L
<1>3. tail + L <= size
  BY <1>1, <1>2, HalfType, UringAssumption DEF RingSize
<1>4. QED
  BY <1>1, <1>3 DEF L

\* prep_sqe fills the slots from the tail on.
LEMMA PrepareSlots ==
  ASSUME RingInv, Data, Prepare
  PROVE  LET L == Len(batch(count + 1)) IN
         /\ DOMAIN sqes' = 0 .. (size - 1) /\ L \in Nat /\ tail' = tail + L
         /\ \A s \in 0 .. (size - 1) : sqes'[s] \in Entries
         /\ \A s \in 0 .. (size - 1) :
              sqes'[s] = sqes[s] \/ \E i \in 1 .. L : sqes'[s] = batch(count + 1)[i]
         /\ Name # "overflow" => \A s \in 0 .. (size - 1) :
              sqes'[s] = IF s \in tail .. (tail + L - 1) THEN Entry(s + 1) ELSE sqes[s]
<1> DEFINE b == batch(count + 1)  L == Len(b)  slot(i) == (tail + i - 1) % size
           F(s) == IF \E i \in DOMAIN b : slot(i) = s
                   THEN b[CHOOSE i \in DOMAIN b : slot(i) = s /\ \A j \in DOMAIN b : slot(j) = s => j <= i]
                   ELSE sqes[s]
<1>1. /\ pc = "prepare" /\ Name \in {"cancel", "link", "overflow", "eventfd"} /\ size = RingSize
      /\ size \in Nat /\ tail \in Nat /\ count \in Nat /\ size > 0 /\ count + 1 \in Nat
  BY UringAssumption DEF Prepare, RingInv, Numbers, Progress, RingSize
<1>2. sqes' = [s \in DOMAIN sqes |-> F(s)] /\ tail' = tail + L
  BY DEF Prepare
<1>3. DOMAIN sqes = 0 .. (size - 1) /\ \A s \in 0 .. (size - 1) : sqes[s] \in Entries
  BY <1>1 DEF Data
<1>4. L \in Nat /\ DOMAIN b = 1 .. L
  <2>1. L \in Nat
    BY <1>1, BatchLength, HalfType, UringAssumption
  <2>2. DOMAIN b = 1 .. L
    <3>1. CASE Name = "link"
      <4>1. b = link_sqes
        BY <3>1 DEF batch
      <4>2. QED
        BY <4>1, LinkEntries
    <3>2. CASE Name = "overflow"
      BY <3>2 DEF batch
    <3>3. CASE Name \in {"cancel", "eventfd"}
      BY <3>3, UringAssumption, HalfType DEF batch, Half
    <3>4. QED
      BY <1>1, <3>1, <3>2, <3>3
  <2>3. QED
    BY <2>1, <2>2
<1>5. ASSUME NEW i \in 1 .. L, NEW j \in 1 .. L, slot(i) = slot(j)
      PROVE  i = j
  <2>1. Name = "overflow" => L = 1
    BY <1>1, BatchLength
  <2>2. Name # "overflow" => tail + L <= size
    BY <1>1, BatchFits
  <2> HIDE DEF L
  <2>3. CASE Name = "overflow"
    BY <1>5, <2>1, <2>3
  <2>4. CASE Name # "overflow"
    <3>1. slot(i) = tail + i - 1 /\ slot(j) = tail + j - 1
      BY <1>1, <1>4, <1>5, <2>2, <2>4, SmallMod
    <3>2. QED
      BY <1>1, <1>4, <1>5, <3>1
  <2>5. QED
    BY <2>3, <2>4
<1>6. ASSUME NEW s, NEW i \in 1 .. L, slot(i) = s
      PROVE  F(s) = b[i]
  <2>1. (CHOOSE k \in DOMAIN b : slot(k) = s /\ \A j \in DOMAIN b : slot(j) = s => j <= k) = i
    BY <1>4, <1>5, <1>6
  <2>2. QED
    BY <1>4, <1>6, <2>1
<1>10. ASSUME NEW s, ~\E i \in 1 .. L : slot(i) = s
       PROVE  F(s) = sqes[s]
  BY <1>4, <1>10
<1> HIDE DEF F, L, b
<1>7. ASSUME NEW s \in 0 .. (size - 1)
      PROVE  F(s) \in Entries
  <2>1. CASE \E i \in 1 .. L : slot(i) = s
    <3>1. PICK i \in 1 .. L : slot(i) = s
      BY <2>1
    <3>2. b[i] \in Entries
      BY <1>1, BatchEntries DEF b, L
    <3>3. QED
      BY <1>6, <3>1, <3>2
  <2>2. CASE ~\E i \in 1 .. L : slot(i) = s
    BY <1>3, <1>10, <2>2
  <2>3. QED
    BY <2>1, <2>2
<1>8. ASSUME Name # "overflow", NEW s \in 0 .. (size - 1)
      PROVE  F(s) = IF s \in tail .. (tail + L - 1) THEN Entry(s + 1) ELSE sqes[s]
  <2>1. tail + L <= size
    BY <1>1, <1>8, BatchFits DEF L, b
  <2>2. \A i \in 1 .. L : slot(i) = tail + i - 1
    BY <1>1, <1>4, <2>1, SmallMod
  <2>3. CASE s \in tail .. (tail + L - 1)
    <3> DEFINE i == s - tail + 1
    <3>1. i \in 1 .. L /\ slot(i) = s /\ tail + i = s + 1
      BY <1>1, <1>4, <2>2, <2>3
    <3>2. b[i] = Entry(s + 1)
      BY <1>1, <1>8, <3>1, BatchEntries DEF b, L
    <3>3. F(s) = b[i]
      BY <1>6, <3>1
    <3>4. QED
      BY <2>3, <3>2, <3>3
  <2>4. CASE s \notin tail .. (tail + L - 1)
    <3>1. \A i \in 1 .. L : tail + i - 1 \in tail .. (tail + L - 1)
      BY <1>1, <1>4
    <3>2. ~\E i \in 1 .. L : slot(i) = s
      BY <2>2, <2>4, <3>1
    <3>3. QED
      BY <1>10, <2>4, <3>2
  <2>5. QED
    BY <2>3, <2>4
<1>9. ASSUME NEW s \in 0 .. (size - 1)
      PROVE  F(s) = sqes[s] \/ \E i \in 1 .. L : F(s) = b[i]
  BY <1>6, <1>10
<1>11. QED
  BY <1>2, <1>3, <1>4, <1>7, <1>8, <1>9 DEF L, b

\* The entries of a test stay what they are while it runs.
LEMMA SameTest ==
  ASSUME test' = test
  PROVE  Name' = Name /\ RingSize' = RingSize /\ \A n : (Entry(n))' = Entry(n)
<1>1. Name' = Name
  BY DEF Name
<1>2. QED
  BY <1>1 DEF RingSize, Entry

\* A test ends, the next one has nothing yet.
LEMMA EndsData ==
  ASSUME RingInv, Data, test <= Len(Tests), NEW v, Ends(v)
  PROVE  Data' /\ Queue'
<1>1. /\ test' = test + 1 /\ pc' = "setup" /\ tail' = 0 /\ head' = 0 /\ reqs' = <<>>
      /\ cq' = <<>> /\ events' = 0 /\ file' = <<>> /\ late' = late
      /\ verdict' = [verdict EXCEPT ![test] = v] /\ test \in 1 .. 6
  BY SixTests DEF Ends, RingInv, Numbers
<1>2. Data'
  BY <1>1 DEF Data
<1>3. RingSize' \in Nat
  BY UringAssumption DEF RingSize
<1>4. Queue'
  BY <1>1, <1>3 DEF Queue
<1>5. QED
  BY <1>2, <1>4

\* Steps of the program that take nothing and only reap.
LEMMA ReapData ==
  ASSUME RingInv, Data, Queue, UNCHANGED <<late, test, ring, reqs, file, verdict>>,
         pc' \in {pc, "crashed"} \/ (pc = "enter" /\ pc' \in {"prepare", "reap"}),
         cq' \in Seq(Nat),
         \A j \in 1 .. Len(cq') : \E k \in 1 .. Len(cq) : cq'[j] = cq[k],
         events' <= Len(cq'), events' = events \/ events' = 0
  PROVE  Data' /\ Queue'
<1>1. Name' = Name /\ RingSize' = RingSize /\ \A n : (Entry(n))' = Entry(n)
  BY SameTest
<1>2. UNCHANGED <<size, sqes, head, tail>>
  BY DEF ring
<1>3. \A j \in 1 .. Len(cq') : cq'[j] \in 1 .. Len(reqs') /\ (Over(cq[j]))'
  BY DEF Data, Over
<1>4. Data'
  BY <1>1, <1>2, <1>3 DEF Data
<1>5. Queue'
  BY <1>1, <1>2 DEF Queue
<1>6. QED
  BY <1>4, <1>5

LEMMA SetupData ==
  ASSUME RingInv, Data, NEW fd, SetUp(fd)
  PROVE  Data' /\ Queue'
<1>1. /\ head = 0 /\ tail = 0 /\ head' = 0 /\ tail' = 0 /\ size' = RingSize /\ test' = test
      /\ sqes' = [s \in 0 .. (RingSize - 1) |-> prep_read(0)]
      /\ reqs' = reqs /\ cq' = cq /\ events' = events /\ file' = file /\ late' = late
      /\ verdict' = verdict /\ pc' = IF Name \in {"create", "create10"} THEN "opened" ELSE "prepare"
      /\ test \in 1 .. 6
  BY SixTests DEF SetUp, RingInv, Numbers
<1>2. Name' = Name /\ RingSize' = RingSize /\ RingSize \in Nat
  BY <1>1, SameTest, UringAssumption DEF RingSize
<1>3. prep_read(0) \in Entries
  BY DEF prep_read, E, Entries
<1>4. Name \in {"create", "create10", "cancel", "link", "overflow", "eventfd"}
  BY <1>1, NameValues
<1>5. DOMAIN sqes' = 0 .. (size' - 1) /\ \A s \in 0 .. (size' - 1) : sqes'[s] \in Entries
  BY <1>1, <1>3
<1>6. \A j \in 1 .. Len(cq') : cq'[j] \in 1 .. Len(reqs') /\ (Over(cq[j]))'
  BY <1>1 DEF Data, Over
<1>7. Data'
  BY <1>1, <1>2, <1>4, <1>5, <1>6 DEF Data
<1>8. Len(reqs) = 0
  BY <1>1 DEF Data
<1>9. Queue'
  BY <1>1, <1>2, <1>8 DEF Queue
<1>10. QED
  BY <1>7, <1>9

LEMMA PrepareData ==
  ASSUME RingInv, Data, Queue, Prepare
  PROVE  Data' /\ Queue'
<1> DEFINE L == Len(batch(count + 1))
<1>1. /\ head' = head /\ size' = size /\ test' = test /\ pc = "prepare" /\ pc' = "enter"
      /\ reqs' = reqs /\ cq' = cq /\ events' = events /\ file' = file /\ late' = late
      /\ verdict' = verdict
  BY DEF Prepare
<1>2. Name' = Name /\ RingSize' = RingSize /\ \A n : (Entry(n))' = Entry(n)
  BY <1>1, SameTest
<1>3. /\ DOMAIN sqes' = 0 .. (size - 1) /\ L \in Nat /\ tail' = tail + L
      /\ \A s \in 0 .. (size - 1) : sqes'[s] \in Entries
      /\ Name # "overflow" => \A s \in 0 .. (size - 1) :
           sqes'[s] = IF s \in tail .. (tail + L - 1) THEN Entry(s + 1) ELSE sqes[s]
  BY PrepareSlots
<1>4. Name # "overflow" => tail + L <= size /\ size = RingSize
  BY <1>1, BatchFits
<1> HIDE DEF L
<1>5. \A j \in 1 .. Len(cq') : cq'[j] \in 1 .. Len(reqs') /\ (Over(cq[j]))'
  BY <1>1 DEF Data, Over
<1>6. Data'
  BY <1>1, <1>2, <1>3, <1>5 DEF Data
<1>7. ASSUME Name # "overflow", NEW s \in head .. (tail + L - 1)
      PROVE  sqes'[s] = Entry(s + 1)
  <2>1. s \in 0 .. (size - 1)
    BY <1>3, <1>4, <1>7 DEF RingInv, Numbers
  <2>2. s < tail => sqes[s] = Entry(s + 1)
    <3>1. Name \in {"cancel", "link", "eventfd"} /\ s \in Nat /\ head \in Nat /\ tail \in Nat
      BY <1>1, <1>7, <2>1 DEF RingInv, Numbers, Progress
    <3>2. s < tail => s \in head .. (tail - 1)
      BY <1>3, <1>7, <3>1
    <3>3. QED
      BY <1>1, <3>1, <3>2 DEF Queue
  <2>3. QED
    BY <1>3, <1>7, <2>1, <2>2 DEF RingInv, Numbers
<1>8. Queue'
  <2>1. SUFFICES ASSUME Name \in {"cancel", "link", "eventfd"} PROVE Queue'
    BY <1>2 DEF Queue
  <2>2. tail' <= RingSize' /\ \A i \in 1 .. Len(reqs') : IsEntry(reqs'[i], (Entry(i))')
    BY <1>1, <1>2, <1>3, <1>4, <2>1 DEF Queue
  <2>3. ASSUME NEW s \in head' .. (tail' - 1)
        PROVE  sqes'[s] = (Entry(s + 1))'
    <3>1. s \in head .. (tail + L - 1)
      BY <1>1, <1>3, <2>3 DEF RingInv, Numbers
    <3>2. sqes'[s] = Entry(s + 1)
      BY <1>7, <2>1, <3>1
    <3>3. QED
      BY <1>2, <3>2
  <2>4. QED
    BY <2>2, <2>3 DEF Queue
<1>9. QED
  BY <1>6, <1>8

\* Completions are counted in numbers.
LEMMA CompletionsType ==
  ASSUME reqs \in Seq(Requests)
  PROVE  Completions \in Nat
<1>1. {i \in DOMAIN reqs : reqs[i].op # "timeout" /\ Over(i)} \subseteq 1 .. Len(reqs)
  OBVIOUS
<1>2. IsFiniteSet(1 .. Len(reqs))
  BY FS_Interval
<1>3. IsFiniteSet({i \in DOMAIN reqs : reqs[i].op # "timeout" /\ Over(i)})
  BY <1>1, <1>2, FS_Subset
<1>4. QED
  BY <1>3, FS_CardinalityType DEF Completions

\* What a worker may do to request i, and what it leaves alone.
Changes(i) ==
  /\ reqs' \in Seq(Requests) /\ Len(reqs') = Len(reqs)
  /\ \A j \in 1 .. Len(reqs) : j # i => reqs'[j] = reqs[j]
  /\ IsEntry(reqs'[i], reqs[i])

Begins(i) ==
  /\ reqs[i].st = "queued" /\ reqs'[i].st = "running" /\ MayStart(i)
  /\ reqs'[i].res = reqs[i].res /\ reqs'[i].data = reqs[i].data /\ reqs'[i].base = Completions
  /\ UNCHANGED <<cq, events, file>>

Completes(i) ==
  /\ reqs[i].st = "running" /\ reqs'[i].st = "done" /\ reqs'[i].base = reqs[i].base
  /\ Posted(i)
  /\ \/ /\ reqs[i].op # "timeout" /\ reqs'[i].res = "0"
        /\ file' = IF reqs[i].op = "write" THEN Append(file, reqs[i].arg) ELSE file
     \/ /\ reqs[i].op = "timeout" /\ reqs'[i].res \in {"0", "ETIME"} /\ file' = file
        /\ \/ Completions - reqs[i].base >= reqs[i].arg /\ reqs'[i].res = "0"
           \/ /\ Completions - reqs[i].base < reqs[i].arg /\ reqs'[i].res = "ETIME"
              /\ late \/ (left = 0 /\ \A j \in Pending \ {i} : reqs[j].st = "queued" /\ ~MayStart(j))

Drops(i) ==
  /\ reqs[i].st = "queued" /\ reqs'[i].st = "dropped"
  /\ reqs'[i].data = reqs[i].data /\ reqs'[i].base = reqs[i].base
  /\ reqs'[i].res = "ECANCELED"
  /\ Chained(i) /\ (reqs[i - 1].st = "dropped" \/ reqs[i - 1].res = "ETIME")
  /\ Posted(i) /\ file' = file

\* Replacing some fields of a request.
LEMMA Replace ==
  ASSUME reqs \in Seq(Requests), NEW i \in 1 .. Len(reqs), NEW s \in Requests,
         IsEntry(s, reqs[i]), reqs' = [reqs EXCEPT ![i] = s]
  PROVE  Changes(i) /\ reqs'[i] = s
  BY DEF Changes

LEMMA WorkerSteps ==
  ASSUME RingInv, Data, NEW i \in DOMAIN reqs, Work(i)
  PROVE  /\ i \in 1 .. Len(reqs) /\ Changes(i)
         /\ UNCHANGED <<late, test, pc, size, sqes, head, tail, left, count, tally, overrun,
                        broken, verdict>>
         /\ Begins(i) \/ Completes(i) \/ Drops(i)
<1>1. reqs \in Seq(Requests) /\ i \in 1 .. Len(reqs) /\ reqs[i] \in Requests
  BY DEF Data
<1>2. UNCHANGED <<late, test, pc, size, sqes, head, tail, left, count, tally, overrun,
                  broken, verdict>>
  BY DEF Work, Begin, Complete, TimeoutEnds, Drop, Kernel, ring
<1>3. CASE Begin(i)
  <2> DEFINE s == [reqs[i] EXCEPT !.st = "running", !.base = Completions]
  <2>1. reqs' = [reqs EXCEPT ![i] = s]
    BY <1>1, <1>3 DEF Begin, Kernel
  <2>2. /\ s \in Requests /\ IsEntry(s, reqs[i]) /\ s.st = "running" /\ s.base = Completions
        /\ s.res = reqs[i].res /\ s.data = reqs[i].data
    BY <1>1, CompletionsType DEF Requests, IsEntry, States, Results
  <2> HIDE DEF s
  <2>3. Changes(i) /\ reqs'[i] = s
    BY <1>1, <2>1, <2>2, Replace
  <2>4. Begins(i)
    BY <1>3, <2>2, <2>3 DEF Begin, Begins, MayStart
  <2>5. QED
    BY <1>1, <1>2, <2>3, <2>4
<1>4. CASE Complete(i)
  <2>1. PICK d \in {"nul", "text"} :
          reqs' = [reqs EXCEPT ![i].st = "done", ![i].res = "0", ![i].data = d]
    BY <1>4 DEF Complete, Kernel
  <2> DEFINE s == [reqs[i] EXCEPT !.st = "done", !.res = "0", !.data = d]
  <2>2. reqs' = [reqs EXCEPT ![i] = s]
    BY <1>1, <2>1
  <2>3. /\ s \in Requests /\ IsEntry(s, reqs[i]) /\ s.st = "done" /\ s.base = reqs[i].base
        /\ s.res = "0"
    BY <1>1 DEF Requests, IsEntry, States, Results
  <2> HIDE DEF s
  <2>4. Changes(i) /\ reqs'[i] = s
    BY <1>1, <2>2, <2>3, Replace
  <2>5. Completes(i)
    BY <1>4, <2>3, <2>4 DEF Complete, Completes
  <2>6. QED
    BY <1>1, <1>2, <2>4, <2>5
<1>5. CASE TimeoutEnds(i)
  <2>1. PICK c \in {"0", "ETIME"} :
          /\ reqs' = [reqs EXCEPT ![i].st = "done", ![i].res = c]
          /\ \/ Completions - reqs[i].base >= reqs[i].arg /\ c = "0"
             \/ /\ Completions - reqs[i].base < reqs[i].arg /\ c = "ETIME"
                /\ late \/ (left = 0 /\ \A j \in Pending \ {i} : reqs[j].st = "queued" /\ ~MayStart(j))
    BY <1>5 DEF TimeoutEnds, Kernel
  <2> DEFINE s == [reqs[i] EXCEPT !.st = "done", !.res = c]
  <2>2. reqs' = [reqs EXCEPT ![i] = s]
    BY <1>1, <2>1
  <2>3. /\ s \in Requests /\ IsEntry(s, reqs[i]) /\ s.st = "done" /\ s.base = reqs[i].base
        /\ s.res = c
    BY <1>1 DEF Requests, IsEntry, States, Results
  <2> HIDE DEF s
  <2>4. Changes(i) /\ reqs'[i] = s
    BY <1>1, <2>2, <2>3, Replace
  <2>5. Completes(i)
    BY <1>5, <2>1, <2>3, <2>4 DEF TimeoutEnds, Completes
  <2>6. QED
    BY <1>1, <1>2, <2>4, <2>5
<1>6. CASE Drop(i)
  <2> DEFINE s == [reqs[i] EXCEPT !.st = "dropped", !.res = "ECANCELED"]
  <2>1. reqs' = [reqs EXCEPT ![i] = s]
    BY <1>1, <1>6 DEF Drop, Kernel
  <2>2. /\ s \in Requests /\ IsEntry(s, reqs[i]) /\ s.st = "dropped" /\ s.base = reqs[i].base
        /\ s.data = reqs[i].data /\ s.res = "ECANCELED"
    BY <1>1 DEF Requests, IsEntry, States, Results
  <2> HIDE DEF s
  <2>3. Changes(i) /\ reqs'[i] = s
    BY <1>1, <2>1, <2>2, Replace
  <2>4. Drops(i)
    BY <1>6, <2>2, <2>3 DEF Drop, Drops
  <2>5. QED
    BY <1>1, <1>2, <2>3, <2>4
<1>7. QED
  BY <1>3, <1>4, <1>5, <1>6 DEF Work

\* A sequence and one more.
LEMMA OneMore ==
  ASSUME NEW S, NEW s \in Seq(S), NEW x \in S
  PROVE  \A y : y = Append(s, x) =>
           /\ y \in Seq(S) /\ Len(y) = Len(s) + 1 /\ Len(s) \in Nat
           /\ y[Len(s) + 1] = x /\ \A j \in 1 .. Len(s) : y[j] = s[j]
  OBVIOUS

LEMMA WorkerData ==
  ASSUME RingInv, Data, Queue, NEW i \in DOMAIN reqs, Work(i)
  PROVE  Data' /\ Queue'
<1>1. /\ i \in 1 .. Len(reqs) /\ Changes(i)
      /\ UNCHANGED <<late, test, pc, size, sqes, head, tail, verdict>>
      /\ Begins(i) \/ Completes(i) \/ Drops(i)
  BY WorkerSteps
<1>2. Name' = Name /\ RingSize' = RingSize /\ \A n : (Entry(n))' = Entry(n)
  BY <1>1, SameTest
<1>3. Len(reqs') = Len(reqs) /\ \A j \in 1 .. Len(reqs) : IsEntry(reqs'[j], reqs[j])
  BY <1>1 DEF Changes, IsEntry
<1>4. ASSUME NEW j \in 1 .. Len(reqs), Over(j)
      PROVE  reqs'[j].st \in {"done", "dropped"}
  BY <1>1, <1>4 DEF Changes, Over, Begins, Completes, Drops
<1>5. Begins(i) => cq' = cq /\ events' = events
  BY DEF Begins
<1>6. ~Begins(i) => /\ cq' = Append(cq, i) /\ reqs'[i].st \in {"done", "dropped"}
                    /\ events' \in {events, events + 1} /\ (Name # "eventfd" => events' = events)
  <2>1. Posted(i) => /\ events' \in {events, events + 1}
                     /\ Name # "eventfd" => events' = events
    BY DEF Posted, Signals, RingInv, Numbers
  <2>2. QED
    BY <1>1, <2>1 DEF Completes, Drops, Posted
<1>7. /\ cq' \in Seq(Nat) /\ events' <= Len(cq') /\ (Name # "eventfd" => events' = 0)
      /\ \A j \in 1 .. Len(cq') : cq'[j] \in 1 .. Len(reqs) /\ reqs'[cq'[j]].st \in {"done", "dropped"}
  <2>1. i \in Nat /\ events \in Nat
    BY <1>1 DEF RingInv, Numbers
  <2>2. cq \in Seq(Nat) /\ events <= Len(cq) /\ (Name # "eventfd" => events = 0)
    BY DEF Data
  <2>3. \A j \in 1 .. Len(cq) : cq[j] \in 1 .. Len(reqs) /\ reqs'[cq[j]].st \in {"done", "dropped"}
    BY <1>4 DEF Data
  <2>4. CASE Begins(i)
    BY <1>5, <2>2, <2>3, <2>4
  <2>5. CASE ~Begins(i)
    <3>1. /\ cq' \in Seq(Nat) /\ Len(cq') = Len(cq) + 1 /\ Len(cq) \in Nat
          /\ cq'[Len(cq) + 1] = i /\ \A j \in 1 .. Len(cq) : cq'[j] = cq[j]
      <4>1. cq' = Append(cq, i) /\ i \in Nat /\ cq \in Seq(Nat)
        BY <1>6, <2>1, <2>2, <2>5
      <4>2. QED
        BY <4>1, OneMore
    <3>2. events' <= Len(cq') /\ (Name # "eventfd" => events' = 0)
      BY <1>6, <2>1, <2>2, <2>5, <3>1
    <3>3. ASSUME NEW j \in 1 .. Len(cq')
          PROVE  cq'[j] \in 1 .. Len(reqs) /\ reqs'[cq'[j]].st \in {"done", "dropped"}
      <4>1. j \in 1 .. Len(cq) \/ j = Len(cq) + 1
        BY <3>1
      <4>2. QED
        BY <1>1, <1>6, <2>3, <2>5, <3>1, <4>1
    <3>4. QED
      BY <3>1, <3>2, <3>3
  <2>6. QED
    BY <2>4, <2>5
<1>8. file' \in Seq(Nat)
  <2>1. reqs[i].arg \in Nat /\ file \in Seq(Nat)
    <3>1. reqs[i] \in Requests /\ file \in Seq(Nat)
      BY <1>1 DEF Data
    <3>2. QED
      BY <3>1 DEF Requests
  <2>2. file' = file \/ file' = Append(file, reqs[i].arg)
    BY <1>1 DEF Begins, Completes, Drops
  <2>3. QED
    BY <2>1, <2>2
<1>9. Data'
  BY <1>1, <1>2, <1>3, <1>7, <1>8 DEF Data, Changes, Over
<1>10. Queue'
  BY <1>1, <1>2, <1>3 DEF Queue, IsEntry
<1>11. QED
  BY <1>9, <1>10

\* A finite set as a sequence has its elements.
LEMMA SetToSeqType ==
  ASSUME NEW S, IsFiniteSet(S)
  PROVE  /\ SetToSeq(S) \in Seq(S) /\ DOMAIN SetToSeq(S) = 1 .. Len(SetToSeq(S))
         /\ \A j \in 1 .. Len(SetToSeq(S)) : SetToSeq(S)[j] \in S
<1>1. Cardinality(S) \in Nat /\ ExistsBijection(1 .. Cardinality(S), S)
  BY FS_CardinalityType
<1>2. PICK f \in [1 .. Cardinality(S) -> S] : IsInjective(f)
  BY <1>1 DEF ExistsBijection, Bijection, Injection
<1>3. SetToSeq(S) \in [1 .. Cardinality(S) -> S]
  BY <1>2 DEF SetToSeq
<1> DEFINE x == SetToSeq(S)
<1> HIDE DEF x
<1>4. x \in Seq(S) /\ DOMAIN x = 1 .. Len(x) /\ \A j \in 1 .. Len(x) : x[j] \in S
  BY <1>1, <1>3 DEF x
<1>5. QED
  BY <1>4 DEF x

\* What a cancel looks for and finds.
Targets(e) == {i \in DOMAIN reqs : reqs[i].op = "read" /\ reqs[i].arg = e.arg}
Found(e) ==
  IF Targets(e) = {} \/ \A i \in Targets(e) : Over(i) THEN "ENOENT"
  ELSE IF \E i \in Targets(e) : reqs[i].st = "running" THEN "EALREADY" ELSE "0"
Gone(e) == IF e.op = "cancel" /\ Found(e) = "0" THEN Targets(e) ELSE {}

\* The kernel takes entry e as request n.
Takes(e, n) ==
  /\ reqs' \in Seq(Requests) /\ Len(reqs') = n /\ n = Len(reqs) + 1
  /\ IsEntry(reqs'[n], e) /\ reqs'[n].data = "nul"
  /\ reqs'[n].st = IF e.op = "cancel" THEN "done" ELSE "queued"
  /\ reqs'[n].res = IF e.op = "cancel" THEN Found(e) ELSE ""
  /\ \A j \in 1 .. Len(reqs) :
       /\ IsEntry(reqs'[j], reqs[j]) /\ reqs'[j].data = reqs[j].data
       /\ j \in Gone(e) => reqs'[j].st = "dropped"
       /\ j \notin Gone(e) => reqs'[j] = reqs[j]

LEMMA TakeSteps ==
  ASSUME RingInv, Data, Queue, Take, NEW e, e = sqes[head % size]
  PROVE  /\ e \in Entries /\ (Name # "overflow" => e = Entry(head + 1))
         /\ head + 1 = Len(reqs) + 1 /\ Takes(e, head + 1)
<1>1. /\ pc = "enter" /\ head < tail /\ size \in Nat /\ head \in Nat /\ tail \in Nat
      /\ size = RingSize /\ Name \in {"cancel", "link", "overflow", "eventfd"} /\ size > 0
  <2>1. pc = "enter" /\ head < tail
    BY DEF Take
  <2>2. QED
    BY <2>1, UringAssumption DEF RingInv, Numbers, Progress, RingSize
<1>2. e \in Entries
  <2>1. head % size \in 0 .. (size - 1)
    BY <1>1
  <2>2. QED
    BY <1>1, <2>1 DEF Data
<1>3. Name # "overflow" => e = Entry(head + 1)
  <2>1. SUFFICES ASSUME Name # "overflow" PROVE e = Entry(head + 1)
    OBVIOUS
  <2>2. tail <= size /\ head \in head .. (tail - 1)
    BY <1>1, <2>1 DEF Queue
  <2>3. head % size = head
    BY <1>1, <2>2, SmallMod
  <2>4. QED
    BY <1>1, <2>1, <2>2, <2>3 DEF Queue
<1>4. reqs \in Seq(Requests) /\ Len(reqs) = head /\ DOMAIN reqs = 1 .. Len(reqs)
  BY DEF Data
<1> DEFINE r == [op |-> e.op, arg |-> e.arg, ud |-> e.ud, link |-> e.link, drain |-> e.drain,
                 st |-> IF e.op = "cancel" THEN "done" ELSE "queued",
                 res |-> IF e.op = "cancel" THEN Found(e) ELSE "", data |-> "nul", base |-> 0]
           q == [i \in DOMAIN reqs |->
                   IF i \in Gone(e) THEN [reqs[i] EXCEPT !.st = "dropped", !.res = "ECANCELED"]
                   ELSE reqs[i]]
<1>5. reqs' = Append(q, r)
  BY DEF Take, Targets, Found, Gone
<1>6. /\ r \in Requests /\ IsEntry(r, e) /\ r.data = "nul"
      /\ r.st = IF e.op = "cancel" THEN "done" ELSE "queued"
      /\ r.res = IF e.op = "cancel" THEN Found(e) ELSE ""
  BY <1>2 DEF Entries, Requests, States, Results, IsEntry, Found
<1>7. ASSUME NEW i \in 1 .. Len(reqs)
      PROVE  /\ q[i] \in Requests /\ IsEntry(q[i], reqs[i]) /\ q[i].data = reqs[i].data
             /\ i \in Gone(e) => q[i].st = "dropped"
             /\ i \notin Gone(e) => q[i] = reqs[i]
  <2>1. reqs[i] \in Requests
    BY <1>4
  <2> DEFINE d == [reqs[i] EXCEPT !.st = "dropped", !.res = "ECANCELED"]
  <2>2. d \in Requests /\ IsEntry(d, reqs[i]) /\ d.data = reqs[i].data /\ d.st = "dropped"
    BY <2>1 DEF Requests, States, Results, IsEntry
  <2>3. q[i] = IF i \in Gone(e) THEN d ELSE reqs[i]
    BY <1>4
  <2> HIDE DEF d, q
  <2>4. QED
    BY <2>1, <2>2, <2>3 DEF IsEntry
<1>8. q \in [1 .. head -> Requests]
  BY <1>4, <1>7
<1> HIDE DEF r, q
<1>9. q \in Seq(Requests) /\ Len(q) = head
  BY <1>1, <1>8
<1>10. /\ reqs' \in Seq(Requests) /\ Len(reqs') = head + 1
       /\ reqs'[head + 1] = r /\ \A j \in 1 .. head : reqs'[j] = q[j]
  <2>1. r \in Requests
    BY <1>6
  <2>2. QED
    BY <1>5, <1>9, <2>1, OneMore
<1>11. Takes(e, head + 1)
  BY <1>4, <1>6, <1>7, <1>10 DEF Takes
<1>12. QED
  BY <1>2, <1>3, <1>4, <1>11

\* Everything two sequences have in common, they have one after the other.
LEMMA BothHave ==
  ASSUME NEW S, NEW a \in Seq(S), NEW b \in Seq(S), NEW T,
         \A j \in 1 .. Len(a) : a[j] \in T, \A j \in 1 .. Len(b) : b[j] \in T
  PROVE  /\ a \o b \in Seq(S) /\ Len(a \o b) \in Nat /\ Len(a \o b) >= Len(a)
         /\ \A j \in 1 .. Len(a \o b) : (a \o b)[j] \in T
<1>1. PICK m, n, x : m = Len(a) /\ n = Len(b) /\ x = a \o b
  OBVIOUS
<1>2. x \in Seq(S) /\ IsCat(x, a, b, m, n) /\ m \in Nat /\ n \in Nat
  BY <1>1, Concat
<1>3. ASSUME NEW j \in 1 .. Len(x)
      PROVE  x[j] \in T
  <2>1. Len(x) = m + n
    BY <1>2 DEF IsCat
  <2>2. CASE j <= m
    BY <1>1, <1>2, <2>1, <2>2 DEF IsCat
  <2>3. CASE j > m
    <3>1. j - m \in 1 .. n /\ m + (j - m) = j
      BY <1>2, <2>1, <2>3
    <3>2. QED
      BY <1>1, <1>2, <3>1 DEF IsCat
  <2>4. QED
    BY <1>2, <2>1, <2>2, <2>3
<1>4. Len(x) = m + n
  BY <1>2 DEF IsCat
<1>5. QED
  BY <1>1, <1>2, <1>3, <1>4

LEMMA TakeData ==
  ASSUME RingInv, Data, Queue, Take
  PROVE  Data' /\ Queue'
<1>1. PICK e : e = sqes[head % size]
  OBVIOUS
<1> DEFINE n == head + 1
           last == IF e.op = "cancel" THEN <<n>> ELSE <<>>
           t == SetToSeq(Gone(e))
           over == {i \in 1 .. n : reqs'[i].st \in {"done", "dropped"}}
<1>2. /\ e \in Entries /\ (Name # "overflow" => e = Entry(n)) /\ n = Len(reqs) + 1
      /\ Takes(e, n)
  BY <1>1, TakeSteps
<1>3. /\ UNCHANGED <<late, test, pc, size, sqes, tail, file, verdict, events>> /\ head' = n
      /\ pc = "enter" /\ head \in Nat /\ tail \in Nat /\ head < tail /\ Len(reqs) = head
  BY DEF Take, RingInv, Numbers, Data
<1>4. cq' = cq \o t \o last
  BY <1>1, <1>2 DEF Take, Gone, Found, Targets
<1>5. Name' = Name /\ RingSize' = RingSize /\ \A k : (Entry(k))' = Entry(k)
  BY <1>3, SameTest
<1>20. \A j \in 1 .. Len(reqs) :
        /\ j \in 1 .. n
        /\ j \in Gone(e) => reqs'[j].st = "dropped"
        /\ j \notin Gone(e) => reqs'[j] = reqs[j]
  <2>1. \A j \in 1 .. Len(reqs) : j \in 1 .. n
    BY <1>3
  <2>2. QED
    BY <1>2, <2>1 DEF Takes
<1>6. Gone(e) \subseteq over
  <2>1. ASSUME NEW k \in Gone(e) PROVE k \in over
    <3>1. k \in 1 .. Len(reqs)
      BY <2>1 DEF Gone, Targets, Data
    <3>2. reqs'[k].st = "dropped" /\ k \in 1 .. n
      BY <1>20, <2>1, <3>1
    <3>3. QED
      BY <3>2
  <2>2. QED
    BY <2>1
<1>7. \A j \in 1 .. Len(cq) : cq[j] \in over
  <2>1. ASSUME NEW j \in 1 .. Len(cq)
        PROVE  cq[j] \in over
    <3>1. cq[j] \in 1 .. Len(reqs) /\ Over(cq[j])
      BY DEF Data
    <3>2. CASE cq[j] \in Gone(e)
      BY <1>6, <3>2
    <3>3. CASE cq[j] \notin Gone(e)
      <4>1. reqs'[cq[j]] = reqs[cq[j]] /\ cq[j] \in 1 .. n
        BY <1>20, <3>1, <3>3
      <4>2. QED
        BY <3>1, <4>1 DEF Over
    <3>4. QED
      BY <3>2, <3>3
  <2>2. QED
    BY <2>1
<1>8. over \subseteq Nat /\ IsFiniteSet(Gone(e))
  <2>1. IsFiniteSet(1 .. n)
    BY <1>3, FS_Interval
  <2>2. QED
    BY <1>3, <1>6, <2>1, FS_Subset
<1>9. t \in Seq(Nat) /\ \A j \in 1 .. Len(t) : t[j] \in over
  <2>1. t \in Seq(Gone(e)) /\ \A j \in 1 .. Len(t) : t[j] \in Gone(e)
    BY <1>8, SetToSeqType
  <2> HIDE DEF t, over
  <2>2. t \in Seq(Nat)
    <3>1. Gone(e) \subseteq Nat
      BY <1>6, <1>8
    <3>2. QED
      BY <2>1, <3>1
  <2>3. QED
    BY <1>6, <2>1, <2>2
<1>10. last \in Seq(Nat) /\ \A j \in 1 .. Len(last) : last[j] \in over
  <2>1. CASE e.op = "cancel"
    <3>1. n \in over /\ n \in Nat
      BY <1>2, <1>3, <2>1 DEF Takes
    <3>2. last = <<n>>
      BY <2>1
    <3> HIDE DEF last, over
    <3>3. QED
      BY <3>1, <3>2
  <2>2. CASE e.op # "cancel"
    BY <2>2
  <2>3. QED
    BY <2>1, <2>2
<1>11. cq \in Seq(Nat) /\ events <= Len(cq) /\ events \in Nat /\ (Name # "eventfd" => events = 0)
  BY DEF Data, RingInv, Numbers
<1> HIDE DEF t, last, over
<1>12. PICK u : u = cq \o t
  OBVIOUS
<1>13. u \in Seq(Nat) /\ Len(u) \in Nat /\ Len(u) >= Len(cq) /\ \A j \in 1 .. Len(u) : u[j] \in over
  BY <1>7, <1>9, <1>11, <1>12, BothHave
<1>14. cq' = u \o last
  BY <1>4, <1>12
<1>15. cq' \in Seq(Nat) /\ Len(cq') \in Nat /\ Len(cq') >= Len(u) /\ \A j \in 1 .. Len(cq') : cq'[j] \in over
  BY <1>10, <1>13, <1>14, BothHave
<1>16. events' <= Len(cq')
  BY <1>3, <1>11, <1>13, <1>15
<1>17. Data'
  BY <1>2, <1>3, <1>5, <1>11, <1>15, <1>16 DEF Data, Takes, Over, over
<1>18. Queue'
  <2>1. SUFFICES ASSUME Name \in {"cancel", "link", "eventfd"} PROVE Queue'
    BY <1>5 DEF Queue
  <2>2. tail' <= RingSize'
    BY <1>3, <1>5, <2>1 DEF Queue
  <2>3. \A i \in 1 .. n : IsEntry(reqs'[i], Entry(i))
    <3>1. IsEntry(reqs'[n], Entry(n))
      BY <1>2, <2>1 DEF Takes
    <3>2. ASSUME NEW i \in 1 .. Len(reqs) PROVE IsEntry(reqs'[i], Entry(i))
      <4>1. IsEntry(reqs'[i], reqs[i])
        BY <1>2, <3>2 DEF Takes
      <4>2. IsEntry(reqs[i], Entry(i))
        BY <2>1, <3>2 DEF Queue
      <4>3. QED
        BY <4>1, <4>2 DEF IsEntry
    <3>3. \A i \in 1 .. n : i \in 1 .. Len(reqs) \/ i = n
      BY <1>2, <1>3
    <3>4. QED
      BY <3>1, <3>2, <3>3
  <2>4. \A s \in head' .. (tail' - 1) : sqes'[s] = Entry(s + 1)
    <3>1. \A s \in head .. (tail - 1) : sqes[s] = Entry(s + 1)
      BY <1>3, <2>1 DEF Queue
    <3>2. \A s \in head' .. (tail' - 1) : s \in head .. (tail - 1)
      BY <1>3
    <3>3. QED
      BY <1>3, <3>1, <3>2
  <2>5. Len(reqs') = n
    BY <1>2 DEF Takes
  <2>6. QED
    BY <1>5, <2>2, <2>3, <2>4, <2>5 DEF Queue
<1>19. QED
  BY <1>17, <1>18

\* A test that can end is one of the six.
LEMMA StillTesting ==
  ASSUME RingInv, Data, \/ pc \in {"opened", "enter", "reap"}
                        \/ pc = "setup" /\ test <= Len(Tests)
  PROVE  test <= Len(Tests) /\ test \in 1 .. 6
<1>1. pc \in {"opened", "enter", "reap"} => Name # "end"
  BY DEF RingInv, Numbers, Data
<1>2. QED
  BY <1>1, NameValues, SixTests DEF RingInv, Numbers

\* What is left when the first n are reaped.
LEMMA Reaped ==
  ASSUME NEW s \in Seq(Nat), NEW n \in Nat, n <= Len(s), NEW x, x = SubSeq(s, n + 1, Len(s))
  PROVE  x \in Seq(Nat) /\ Len(x) = Len(s) - n /\ \A j \in 1 .. Len(x) : x[j] = s[j + n]
<1>1. PICK m \in Nat : m = Len(s)
  OBVIOUS
<1>2. x = [j \in 1 .. (m - n) |-> s[j + n]]
  <2>1. \A j \in 1 .. (m - n) : (n + 1) + j - 1 = j + n
    BY <1>1
  <2>2. m - (n + 1) + 1 = m - n
    BY <1>1
  <2>3. QED
    BY <1>1, <2>1, <2>2
<1>3. \A j \in 1 .. (m - n) : s[j + n] \in Nat
  <2>1. \A j \in 1 .. (m - n) : j + n \in 1 .. m
    BY <1>1
  <2>2. QED
    BY <1>1, <2>1
<1>4. PICK l \in Nat : l = m - n
  <2>1. m - n \in Nat
    BY <1>1
  <2>2. QED
    BY <2>1
<1>5. x \in Seq(Nat) /\ Len(x) = l
  BY <1>2, <1>3, <1>4
<1>6. QED
  BY <1>1, <1>2, <1>4, <1>5

\* One step per action.
LEMMA DataStep ==
  ASSUME RingInv, Data, Queue, [Next]_vars
  PROVE  Data' /\ Queue'
<1>1. CASE Setup \/ EventfdFails
  BY <1>1, SetupData DEF Setup, EventfdFails
<1>2. CASE \E v : Ends(v) /\ (pc \in {"opened", "enter", "reap"} \/ (pc = "setup" /\ test <= Len(Tests)))
  BY <1>2, StillTesting, EndsData
<1>3. CASE Prepare
  BY <1>3, PrepareData
<1>4. CASE Take
  BY <1>4, TakeData
<1>5. CASE Worker
  BY <1>5, WorkerData DEF Worker
<1>6. cq \in Seq(Nat) /\ events <= Len(cq) /\ events \in Nat /\ Len(cq) \in Nat
      /\ \A j \in 1 .. Len(cq) : \E k \in 1 .. Len(cq) : cq[j] = cq[k]
  BY DEF Data, RingInv, Numbers
<1>7. CASE /\ UNCHANGED <<late, test, ring, reqs, file, verdict, cq, events>>
           /\ pc' \in {pc, "crashed"} \/ (pc = "enter" /\ pc' \in {"prepare", "reap"})
  BY <1>6, <1>7, ReapData
<1>8. ASSUME NEW n \in Nat, n <= Len(cq), cq' = get_cqe(n)
      PROVE  /\ cq' \in Seq(Nat) /\ Len(cq') = Len(cq) - n
             /\ \A j \in 1 .. Len(cq') : \E k \in 1 .. Len(cq) : cq'[j] = cq[k]
  <2>1. /\ cq' \in Seq(Nat) /\ Len(cq') = Len(cq) - n
        /\ \A j \in 1 .. Len(cq') : cq'[j] = cq[j + n]
    <3>1. PICK x : x = cq'
      OBVIOUS
    <3>2. PICK s \in Seq(Nat) : s = cq
      BY <1>6
    <3>3. x = SubSeq(s, n + 1, Len(s)) /\ n <= Len(s)
      BY <1>8, <3>1, <3>2 DEF get_cqe
    <3>4. x \in Seq(Nat) /\ Len(x) = Len(s) - n /\ \A j \in 1 .. Len(x) : x[j] = s[j + n]
      BY <3>3, Reaped
    <3>5. QED
      BY <3>1, <3>2, <3>4
  <2>2. \A j \in 1 .. Len(cq') : j + n \in 1 .. Len(cq)
    BY <1>6, <1>8, <2>1
  <2>3. QED
    BY <2>1, <2>2
<1>9. CASE /\ pc = "reap" /\ Name = "cancel" /\ cq # <<>> /\ cq' = get_cqe(1)
           /\ UNCHANGED <<late, test, pc, ring, reqs, events, file, verdict>>
  <2>1. 1 <= Len(cq) /\ events = 0
    BY <1>6, <1>9 DEF Data
  <2>2. /\ cq' \in Seq(Nat) /\ Len(cq') = Len(cq) - 1
        /\ \A j \in 1 .. Len(cq') : \E k \in 1 .. Len(cq) : cq'[j] = cq[k]
    BY <1>8, <1>9, <2>1
  <2>3. events' <= Len(cq') /\ events' = events
    BY <1>6, <1>9, <2>1, <2>2
  <2>4. QED
    BY <1>9, <2>2, <2>3, ReapData
<1>10. CASE ReadEvents
  <2>1. cq' = get_cqe(events) /\ events' = 0 /\ UNCHANGED <<late, test, pc, ring, reqs, file, verdict>>
    BY <1>10 DEF ReadEvents
  <2>2. /\ cq' \in Seq(Nat) /\ Len(cq') = Len(cq) - events
        /\ \A j \in 1 .. Len(cq') : \E k \in 1 .. Len(cq) : cq'[j] = cq[k]
    BY <1>6, <1>8, <2>1
  <2>3. events' <= Len(cq')
    BY <1>6, <2>1, <2>2
  <2>4. QED
    BY <2>1, <2>2, <2>3, ReapData
<1>11. CASE SetupFails \/ StrayCrash
  BY <1>2, <1>7, <1>11 DEF SetupFails, StrayCrash, Crashes
<1>12. CASE NextRing \/ Close \/ CloseFails
  BY <1>2, <1>7, <1>12 DEF NextRing, Close, CloseFails, AllOpen, Crashes
<1>13. CASE EnterReturns
  BY <1>7, <1>13 DEF EnterReturns
<1>14. CASE EnterShort
  BY <1>2, <1>7, <1>14 DEF EnterShort, Crashes
<1>15. CASE ReapCancel
  BY <1>2, <1>9, <1>15 DEF ReapCancel
<1>16. CASE ReapLink \/ EndOverflow \/ EndEvents \/ ReadFails \/ CmpFails \/ FinishFails
  BY <1>2, <1>16 DEF ReapLink, EndOverflow, EndEvents, ReadFails, CmpFails, FinishFails, Slept
<1>17. CASE UNCHANGED vars
  BY <1>7, <1>17 DEF vars, ring
<1>18. QED
  BY <1>1, <1>3, <1>4, <1>5, <1>10, <1>11, <1>12, <1>13, <1>14, <1>15, <1>16, <1>17 DEF Next, Program, Failure

\* What holds in the first state.
LEMMA DataInit == Init => RingInv /\ Data /\ Queue
<1>1. SUFFICES ASSUME Init PROVE RingInv /\ Data /\ Queue
  OBVIOUS
<1>2. RingInv
  BY <1>1 DEF Init, RingInv, Numbers, Progress
<1>3. Data
  BY <1>1, SixTests DEF Init, Data
<1>4. Queue
  BY <1>1, UringAssumption DEF Init, Queue, RingSize
<1>5. QED
  BY <1>2, <1>3, <1>4

\* The ring and the requests in every run of the program.
LEMMA DataInvariant == Spec => [](RingInv /\ Data /\ Queue)
<1>1. RingInv /\ Data /\ Queue /\ [Next]_vars => (RingInv /\ Data /\ Queue)'
  BY StepKeeps, DataStep
<1>2. QED
  BY <1>1, DataInit, PTL DEF Spec

\* Main, the rings and the kernel keep their types: completions are of requests
\* that are over, and the eventfd never counts more of them than there are to
\* reap, so that test_eventfd never reaps what is not there.
THEOREM TypeCorrect == Spec => []TypeOK
<1>1. RingInv /\ Data => TypeOK
  <2>1. SUFFICES ASSUME RingInv, Data PROVE TypeOK
    OBVIOUS
  <2>2. \A i \in DOMAIN reqs : reqs[i].st \in {"queued", "running", "done", "dropped"}
    <3>1. \A i \in DOMAIN reqs : reqs[i] \in Requests
      BY <2>1 DEF Data
    <3>2. QED
      BY <3>1 DEF Requests, States
  <2>3. \A j \in DOMAIN cq : Over(cq[j])
    <3>1. DOMAIN cq = 1 .. Len(cq) /\ \A j \in 1 .. Len(cq) : Over(cq[j])
      BY <2>1 DEF Data
    <3>2. QED
      BY <3>1
  <2>4. QED
    BY <2>1, <2>2, <2>3, SixTests DEF TypeOK, RingInv, Numbers, Data
<1>2. QED
  BY <1>1, DataInvariant, PTL
-----------------------------------------------------------------------------
(* The steps, as the requests see them.                                    *)

\* A step ends a test, leaves the requests alone, takes one or works on one.
LEMMA FourWays ==
  ASSUME RingInv, Data, Queue, [Next]_vars
  PROVE  \/ reqs' = <<>> /\ cq' = <<>> /\ events' = 0 /\ pc' = "setup" /\ file' = <<>>
            /\ tally' = [cancelled |-> 0, running |-> 0, executed |-> 0]
         \/ UNCHANGED <<reqs, test, file, late>>
         \/ Take
         \/ Worker
<1>1. CASE Setup \/ EventfdFails \/ NextRing \/ Prepare \/ EnterReturns \/ ReadEvents
           \/ UNCHANGED vars
  BY <1>1 DEF Setup, EventfdFails, SetUp, NextRing, Prepare, EnterReturns, ReadEvents, vars
<1>2. CASE SetupFails \/ Close \/ CloseFails \/ EnterShort \/ CmpFails \/ ReapCancel \/ ReapLink
           \/ FinishFails \/ EndOverflow \/ EndEvents \/ ReadFails \/ StrayCrash
  BY <1>2 DEF SetupFails, Close, CloseFails, EnterShort, CmpFails, ReapCancel, ReapLink,
     FinishFails, EndOverflow, EndEvents, ReadFails, StrayCrash, Ends, Crashes
<1>3. QED
  BY <1>1, <1>2 DEF Next, Program, Failure

\* In test_cancel_sqe the first half of the requests are the reads, the others
\* their cancels, and user_data tells them apart.
LEMMA CancelEntries ==
  ASSUME Data, Queue, Name = "cancel", NEW i \in 1 .. Len(reqs)
  PROVE  /\ reqs[i].ud = i /\ reqs[i].link = FALSE /\ i \in Nat
         /\ i <= Half => reqs[i].op = "read" /\ reqs[i].arg = i
         /\ i > Half => reqs[i].op = "cancel" /\ reqs[i].arg = i - Half
<1>1. IsEntry(reqs[i], Entry(i)) /\ i \in Nat
  BY DEF Queue, Data
<1>2. CASE i <= Half
  BY <1>1, <1>2, HalfType DEF IsEntry, Entry, prep_read, E
<1>3. CASE ~(i <= Half)
  <2>1. Entry(i) = prep_cancel(i - Half)
    BY <1>3 DEF Entry
  <2>2. prep_cancel(i - Half).ud = i
    BY <1>1, HalfType DEF prep_cancel, E, Half
  <2>3. QED
    BY <1>1, <1>3, <2>1, <2>2, HalfType DEF IsEntry, prep_cancel, E
<1>4. QED
  BY <1>2, <1>3

\* The kernel takes a read, or a cancel and what it cancels.
LEMMA TakeCancels ==
  ASSUME RingInv, Data, Queue, Cancels, Take
  PROVE  Cancels'
<1>1. SUFFICES ASSUME Name = "cancel" PROVE Cancels'
  <2>1. Name' = Name
    BY SameTest DEF Take
  <2>2. QED
    BY <2>1 DEF Cancels
<1>2. PICK e : e = sqes[head % size]
  OBVIOUS
<1> DEFINE n == head + 1
<1>3. e = Entry(n) /\ n = Len(reqs) + 1 /\ Takes(e, n) /\ head \in Nat /\ Len(reqs) = head
  BY <1>1, <1>2, TakeSteps DEF RingInv, Numbers, Data
<1>4. Name' = Name
  BY SameTest DEF Take
<1> HIDE DEF n
<1>5. /\ \A j \in 1 .. Len(reqs) :
           /\ reqs'[j].data = reqs[j].data
           /\ j \in Gone(e) => reqs'[j].st = "dropped"
           /\ j \notin Gone(e) => reqs'[j] = reqs[j]
      /\ reqs'[n].data = "nul" /\ Len(reqs') = n
      /\ reqs'[n].st = IF e.op = "cancel" THEN "done" ELSE "queued"
      /\ reqs'[n].res = IF e.op = "cancel" THEN Found(e) ELSE ""
  BY <1>3 DEF Takes
<1>6. CASE n <= Half
  <2>1. e.op = "read"
    BY <1>1, <1>3, <1>6 DEF Entry, prep_read, E
  <2>2. Gone(e) = {}
    BY <2>1 DEF Gone
  <2>3. \A i \in 1 .. n : i = n \/ i \in 1 .. Len(reqs)
    BY <1>3
  <2>4. ASSUME NEW i \in 1 .. n
        PROVE  i <= Half /\ (reqs'[i].st # "done" => reqs'[i].data = "nul")
               /\ reqs'[i].st # "dropped"
    <3>1. i <= Half
      BY <1>3, <1>6, HalfType
    <3>2. CASE i = n
      BY <1>5, <2>1, <3>1, <3>2
    <3>3. CASE i \in 1 .. Len(reqs)
      <4>1. reqs'[i] = reqs[i]
        BY <1>5, <2>2, <3>3
      <4>2. /\ reqs[i].st # "done" => reqs[i].data = "nul"
            /\ reqs[i].st = "dropped" => i + Half <= Len(reqs)
        BY <1>1, <3>1, <3>3 DEF Cancels
      <4>3. i + Half > Len(reqs)
        BY <1>3, <1>6, <3>3, HalfType
      <4>4. QED
        BY <1>3, <3>1, <3>3, <4>1, <4>2, <4>3, HalfType
    <3>4. QED
      BY <2>3, <3>2, <3>3
  <2>5. \A i \in 1 .. n : ~(i > Half)
    BY <1>3, <2>4, HalfType
  <2>6. QED
    BY <1>4, <1>5, <2>4, <2>5 DEF Cancels
<1>7. CASE ~(n <= Half)
  <2> DEFINE k == n - Half
  <2>1. e.op = "cancel" /\ e.arg = k
    BY <1>1, <1>3, <1>7 DEF Entry, prep_cancel, E
  <2>2. k \in 1 .. Len(reqs) /\ k + Half = n
    BY <1>3, <1>7, HalfType, UringAssumption
  <2> HIDE DEF k
  <2>3. Targets(e) = {k} \/ k > Half
    <3>1. ASSUME NEW i \in 1 .. Len(reqs), k <= Half
          PROVE  (reqs[i].op = "read" /\ reqs[i].arg = k) <=> i = k
      <4>1. /\ i \in Nat
            /\ i <= Half => reqs[i].op = "read" /\ reqs[i].arg = i
            /\ i > Half => reqs[i].op = "cancel"
        BY <1>1, CancelEntries
      <4>2. QED
        BY <3>1, <4>1, HalfType
    <3>2. DOMAIN reqs = 1 .. Len(reqs) /\ k \in Nat
      BY <2>2 DEF Data
    <3>3. QED
      BY <2>1, <2>2, <3>1, <3>2, HalfType DEF Targets
  <2>9. k <= Half
    <3>1. tail <= ENTRIES /\ head < tail /\ tail \in Nat
      BY <1>1 DEF Queue, RingSize, Take, RingInv, Numbers
    <3>2. QED
      BY <1>3, <2>2, <3>1, HalfType DEF n
  <2>4. Targets(e) = {k}
    BY <2>2, <2>3, <2>9, HalfType
  <2>5. reqs[k].st # "dropped"
    <3>1. reqs[k].st = "dropped" => k + Half <= Len(reqs)
      BY <1>1, <2>2, <2>9 DEF Cancels
    <3>2. QED
      BY <1>3, <2>2, <3>1
  <2>6. reqs[k].st \in States
    <3>1. reqs[k] \in Requests
      BY <2>2 DEF Data
    <3>2. QED
      BY <3>1 DEF Requests
  <2>7. /\ Found(e) = "ENOENT" => reqs[k].st = "done"
        /\ Found(e) = "0" <=> k \in Gone(e)
        /\ Gone(e) \subseteq {k}
        /\ k \in Gone(e) => reqs[k].st = "queued"
    BY <2>1, <2>4, <2>5, <2>6 DEF Found, Gone, Over, States
  <2>8. \A i \in 1 .. n : i = n \/ i \in 1 .. Len(reqs)
    BY <1>3
  <2>10. ASSUME NEW i \in 1 .. n, i <= Half
         PROVE  /\ reqs'[i].st # "done" => reqs'[i].data = "nul"
                /\ reqs'[i].st = "dropped" => i + Half <= n
                /\ reqs'[i].st = "dropped" => reqs'[i + Half].res = "0"
    <3>1. i \in 1 .. Len(reqs)
      BY <1>3, <1>7, <2>10, HalfType
    <3>2. /\ reqs[i].st # "done" => reqs[i].data = "nul"
          /\ reqs[i].st = "dropped" => i + Half <= Len(reqs)
          /\ reqs[i].st = "dropped" => reqs[i + Half].res = "0"
      BY <1>1, <2>10, <3>1 DEF Cancels
    <3>3. CASE i \in Gone(e)
      <4>1. i = k /\ reqs'[i].st = "dropped" /\ reqs'[i].data = reqs[i].data
        BY <1>5, <2>7, <3>1, <3>3
      <4>2. reqs[i].st = "queued" /\ i + Half = n
        BY <2>2, <2>7, <3>3, <4>1
      <4>3. reqs'[i + Half].res = "0"
        BY <1>5, <2>1, <2>7, <3>3, <4>1, <4>2
      <4>4. QED
        BY <1>3, <3>2, <4>1, <4>2, <4>3
    <3>4. CASE i \notin Gone(e)
      <4>1. reqs'[i] = reqs[i]
        BY <1>5, <3>1, <3>4
      <4>2. i + Half <= Len(reqs) => i + Half <= n
        BY <1>3, <3>1, HalfType
      <4>3. ASSUME i + Half <= Len(reqs) PROVE reqs'[i + Half] = reqs[i + Half]
        <5>1. i + Half \in 1 .. Len(reqs) /\ i + Half # k
          BY <1>3, <2>2, <2>9, <3>1, <4>3, HalfType
        <5>2. QED
          BY <1>5, <2>7, <5>1
      <4>4. QED
        BY <3>2, <4>1, <4>2, <4>3
    <3>5. QED
      BY <3>3, <3>4
  <2>11. ASSUME NEW i \in 1 .. n, i > Half
         PROVE  /\ reqs'[i].st = "done"
                /\ reqs'[i].res = "0" => reqs'[i - Half].st = "dropped"
                /\ reqs'[i].res = "ENOENT" => reqs'[i - Half].st = "done"
    <3>1. CASE i = n
      <4>1. i - Half = k
        BY <3>1 DEF k
      <4>2. QED
        BY <1>5, <2>1, <2>2, <2>7, <3>1, <4>1
    <3>2. CASE i \in 1 .. Len(reqs)
      <4>1. i - Half \in 1 .. Len(reqs) /\ i # k /\ i - Half # k
        BY <1>3, <2>2, <2>9, <2>11, <3>2, HalfType
      <4>2. reqs'[i] = reqs[i] /\ reqs'[i - Half] = reqs[i - Half]
        BY <1>5, <2>7, <3>2, <4>1
      <4>3. QED
        BY <1>1, <2>11, <3>2, <4>2 DEF Cancels
    <3>3. QED
      BY <2>8, <3>1, <3>2
  <2>12. QED
    BY <1>4, <1>5, <2>10, <2>11 DEF Cancels
<1>8. QED
  BY <1>6, <1>7

\* Reads are worked on, cancels are over at once.
LEMMA WorkerCancels ==
  ASSUME RingInv, Data, Queue, Cancels, NEW i \in DOMAIN reqs, Work(i)
  PROVE  Cancels'
<1>1. /\ i \in 1 .. Len(reqs) /\ Changes(i) /\ test' = test
      /\ Begins(i) \/ Completes(i) \/ Drops(i)
  BY WorkerSteps
<1>2. Name' = Name
  BY <1>1, SameTest
<1>3. SUFFICES ASSUME Name = "cancel" PROVE Cancels'
  BY <1>2 DEF Cancels
<1>4. ~Drops(i)
  <2>1. ASSUME Chained(i) PROVE FALSE
    <3>1. i - 1 \in 1 .. Len(reqs) /\ reqs[i - 1].link
      BY <1>1, <2>1 DEF Chained, Data
    <3>2. reqs[i - 1].link = FALSE
      BY <1>3, <3>1, CancelEntries
    <3>3. QED
      BY <3>1, <3>2
  <2>2. QED
    BY <2>1 DEF Drops
<1>5. reqs[i].st \in {"queued", "running"}
  BY <1>1, <1>4 DEF Begins, Completes
<1>6. i <= Half
  <2>1. i > Half => reqs[i].st = "done"
    BY <1>1, <1>3 DEF Cancels
  <2>2. QED
    BY <1>1, <1>5, <2>1, HalfType
<1>7. /\ Len(reqs') = Len(reqs) /\ \A j \in 1 .. Len(reqs) : j # i => reqs'[j] = reqs[j]
      /\ reqs'[i].st # "dropped"
      /\ reqs'[i].st # "done" => reqs'[i].data = reqs[i].data
  BY <1>1, <1>4 DEF Changes, Begins, Completes
<1>8. ASSUME NEW j \in 1 .. Len(reqs), j <= Half
      PROVE  /\ reqs'[j].st # "done" => reqs'[j].data = "nul"
             /\ reqs'[j].st = "dropped" => j + Half <= Len(reqs)
             /\ reqs'[j].st = "dropped" => reqs'[j + Half].res = "0"
  <2>1. /\ reqs[j].st # "done" => reqs[j].data = "nul"
        /\ reqs[j].st = "dropped" => j + Half <= Len(reqs)
        /\ reqs[j].st = "dropped" => reqs[j + Half].res = "0"
    BY <1>3, <1>8 DEF Cancels
  <2>2. ASSUME j + Half <= Len(reqs) PROVE reqs'[j + Half] = reqs[j + Half]
    <3>1. j + Half \in 1 .. Len(reqs) /\ j + Half # i
      BY <1>1, <1>6, <1>8, <2>2, HalfType DEF Data
    <3>2. QED
      BY <1>7, <3>1
  <2>3. QED
    BY <1>5, <1>7, <2>1, <2>2
<1>9. ASSUME NEW j \in 1 .. Len(reqs), j > Half
      PROVE  /\ reqs'[j].st = "done"
             /\ reqs'[j].res = "0" => reqs'[j - Half].st = "dropped"
             /\ reqs'[j].res = "ENOENT" => reqs'[j - Half].st = "done"
  <2>1. /\ reqs[j].st = "done"
        /\ reqs[j].res = "0" => reqs[j - Half].st = "dropped"
        /\ reqs[j].res = "ENOENT" => reqs[j - Half].st = "done"
    BY <1>3, <1>9 DEF Cancels
  <2>2. j - Half \in 1 .. Len(reqs) /\ j # i
    BY <1>6, <1>9, HalfType DEF Data
  <2>3. reqs'[j] = reqs[j]
    BY <1>7, <2>2
  <2>4. CASE j - Half = i
    BY <1>5, <2>1, <2>3, <2>4
  <2>5. CASE j - Half # i
    BY <1>7, <2>1, <2>2, <2>3, <2>5
  <2>6. QED
    BY <2>4, <2>5
<1>10. QED
  BY <1>2, <1>7, <1>8, <1>9 DEF Cancels

LEMMA CancelsStep ==
  ASSUME RingInv, Data, Queue, Cancels, [Next]_vars
  PROVE  Cancels'
<1>1. CASE reqs' = <<>>
  BY <1>1 DEF Cancels
<1>2. CASE UNCHANGED <<reqs, test, file, late>>
  <2>1. Name' = Name
    BY <1>2, SameTest
  <2>2. QED
    BY <1>2, <2>1 DEF Cancels
<1>3. QED
  BY <1>1, <1>2, FourWays, TakeCancels, WorkerCancels DEF Worker

\* The check of test_cancel_sqe: a cancel is compared with its own read, and
\* complained of only if that was executed and left a zero byte.
LEMMA CancelCheck ==
  ASSUME RingInv, Data, Queue, Cancels, [Next]_vars,
         Name = "cancel", pc = "reap", cq # <<>>, verdict'[test] = "Fail"
  PROVE  \E i \in DOMAIN reqs : reqs[i].op = "read" /\ reqs[i].st = "done" /\ reqs[i].data = "nul"
<1>1. test \in 1 .. 6 /\ verdict[test] = "none" /\ DOMAIN verdict = 1 .. 6
  BY StillTesting DEF Data
<1>2. verdict' # verdict
  BY <1>1
<1>3. ReapCancel
  <2>1. ~Worker
    BY <1>2 DEF Worker, Work, Begin, Complete, TimeoutEnds, Drop, Kernel
  <2>2. QED
    BY <1>2, <2>1 DEF Next, Program, Failure, Setup, SetUp, SetupFails, NextRing, Close, CloseFails,
       AllOpen, Prepare, EnterReturns, EnterShort, CmpFails, ReapLink, FinishFails, Slept, EndOverflow,
       ReadEvents, EndEvents, ReadFails, EventfdFails, StrayCrash, Take, vars
<1>4. \A v : Ends(v) => v = "Fail"
  BY <1>1 DEF Ends
<1> DEFINE k == Head(cq)  r == reqs[k]
<1>5. /\ cq # <<>> /\ r.ud > Half
      /\ \/ r.res = "0" /\ target(r).data # "nul"
         \/ r.res = "ENOENT" /\ target(r).data = "nul"
  BY <1>2, <1>3, <1>4 DEF ReapCancel, Half
<1>6. k \in 1 .. Len(reqs)
  BY <1>5 DEF Data
<1>7. r.ud = k /\ k \in Nat
  BY <1>6, CancelEntries
<1> HIDE DEF k
<1>8. /\ k - Half \in 1 .. Len(reqs) /\ k - Half <= Half
      /\ DOMAIN reqs = 1 .. Len(reqs)
  <2>1. Len(reqs) = head /\ head <= tail /\ tail <= ENTRIES /\ head \in Nat /\ tail \in Nat
    BY DEF Data, Queue, RingInv, Numbers, RingSize
  <2>2. DOMAIN reqs = 1 .. Len(reqs)
    BY DEF Data
  <2>3. QED
    BY <1>5, <1>6, <1>7, <2>1, <2>2, HalfType
<1>9. target(r) = reqs[k - Half]
  <2>1. \A i \in DOMAIN reqs : (reqs[i].op = "read" /\ reqs[i].arg = r.ud - Half) <=> i = k - Half
    <3>1. ASSUME NEW i \in 1 .. Len(reqs)
          PROVE  (reqs[i].op = "read" /\ reqs[i].arg = k - Half) <=> i = k - Half
      <4>1. /\ i \in Nat
            /\ i <= Half => reqs[i].op = "read" /\ reqs[i].arg = i
            /\ i > Half => reqs[i].op = "cancel"
        BY CancelEntries
      <4>2. QED
        BY <1>8, <4>1, HalfType
    <3>2. QED
      BY <1>7, <1>8, <3>1
  <2>2. (CHOOSE i \in DOMAIN reqs : reqs[i].op = "read" /\ reqs[i].arg = r.ud - Half) = k - Half
    BY <1>8, <2>1
  <2>3. QED
    BY <2>2 DEF target, Half
<1>10. /\ r.res = "0" => reqs[k - Half].st = "dropped"
       /\ r.res = "ENOENT" => reqs[k - Half].st = "done"
       /\ reqs[k - Half].st # "done" => reqs[k - Half].data = "nul"
  BY <1>5, <1>6, <1>7, <1>8 DEF Cancels
<1>11. reqs[k - Half].st = "done" /\ reqs[k - Half].data = "nul"
  BY <1>5, <1>9, <1>10
<1>12. reqs[k - Half].op = "read"
  BY <1>8, CancelEntries
<1>13. QED
  BY <1>8, <1>11, <1>12

\* test_cancel_sqe never complains of a read that was cancelled, that runs or that
\* filled its buffer with something else than a zero byte: the cancels in its ring
\* are reaped in any order, and each is compared with the read it was for, for
\* every number of entries.
THEOREM ComplaintsAreOfNul == Spec => ComplainsOfNulOnly
<1>1. Init => Cancels
  BY DEF Init, Cancels
<1>2. RingInv /\ Data /\ Queue /\ Cancels /\ [Next]_vars => Cancels'
  BY CancelsStep
<1>3. RingInv /\ Data /\ Queue /\ Cancels /\ [Next]_vars =>
        [Name = "cancel" /\ pc = "reap" /\ cq # <<>> /\ verdict'[test] = "Fail" =>
           \E i \in DOMAIN reqs : reqs[i].op = "read" /\ reqs[i].st = "done" /\ reqs[i].data = "nul"]_vars
  BY CancelCheck
<1>4. QED
  BY <1>1, <1>2, <1>3, DataInvariant, PTL DEF Spec, ComplainsOfNulOnly
-----------------------------------------------------------------------------
(* The counts of test_cancel_sqe.                                          *)

\* Two sequences without repetitions and without common elements, joined.
LEMMA Join ==
  ASSUME NEW S, NEW a \in Seq(S), NEW b \in Seq(S), Distinct(a), Distinct(b),
         \A x : ~(Has(a, x) /\ Has(b, x))
  PROVE  /\ a \o b \in Seq(S) /\ Distinct(a \o b)
         /\ \A x : Has(a \o b, x) <=> Has(a, x) \/ Has(b, x)
<1>1. PICK m, n, c : m = Len(a) /\ n = Len(b) /\ c = a \o b
  OBVIOUS
<1>2. /\ c \in Seq(S) /\ m \in Nat /\ n \in Nat /\ Len(c) = m + n
      /\ \A i \in 1 .. m : c[i] = a[i]
      /\ \A i \in 1 .. n : c[m + i] = b[i]
  BY <1>1, Concat DEF IsCat
<1>3. ASSUME NEW j \in 1 .. Len(c)
      PROVE  \/ j \in 1 .. m /\ c[j] = a[j] /\ Has(a, c[j])
             \/ j - m \in 1 .. n /\ c[j] = b[j - m] /\ Has(b, c[j])
  <2>1. CASE j <= m
    <3>1. j \in 1 .. m /\ c[j] = a[j]
      BY <1>2, <2>1
    <3>2. QED
      BY <1>1, <3>1 DEF Has
  <2>2. CASE j > m
    <3>1. j - m \in 1 .. n /\ m + (j - m) = j
      BY <1>2, <2>2
    <3>2. c[j] = b[j - m]
      BY <1>2, <3>1
    <3>3. QED
      BY <1>1, <3>1, <3>2 DEF Has
  <2>3. QED
    BY <1>2, <2>1, <2>2
<1>4. Distinct(c)
  <2>1. SUFFICES ASSUME NEW j \in 1 .. Len(c), NEW k \in 1 .. Len(c), c[j] = c[k]
                 PROVE  j = k
    BY DEF Distinct
  <2>2. CASE j \in 1 .. m /\ k \in 1 .. m
    <3>1. c[j] = a[j] /\ c[k] = a[k]
      BY <1>2, <2>2
    <3>2. QED
      BY <1>1, <2>1, <2>2, <3>1 DEF Distinct
  <2>3. CASE j \notin 1 .. m /\ k \notin 1 .. m
    <3>1. j - m \in 1 .. n /\ c[j] = b[j - m] /\ k - m \in 1 .. n /\ c[k] = b[k - m]
      BY <1>3, <2>3
    <3>2. j - m = k - m
      BY <1>1, <2>1, <3>1 DEF Distinct
    <3>3. QED
      BY <1>2, <3>2
  <2>4. \A l \in 1 .. Len(c) : /\ l \in 1 .. m => Has(a, c[l])
                               /\ l \notin 1 .. m => Has(b, c[l])
    <3>1. \A l \in 1 .. m : l - m \notin 1 .. n
      BY <1>2
    <3>2. QED
      BY <1>3, <3>1
  <2>5. ~(Has(a, c[j]) /\ Has(b, c[j]))
    OBVIOUS
  <2>6. j \in 1 .. m <=> k \in 1 .. m
    <3>1. CASE j \in 1 .. m /\ k \notin 1 .. m
      <4>1. Has(a, c[j]) /\ Has(b, c[k])
        BY <2>1, <2>4, <3>1
      <4>2. QED
        BY <2>1, <2>5, <4>1, Zenon
    <3>2. CASE j \notin 1 .. m /\ k \in 1 .. m
      <4>1. Has(b, c[j]) /\ Has(a, c[k])
        BY <2>1, <2>4, <3>2
      <4>2. QED
        BY <2>1, <2>5, <4>1, Zenon
    <3>3. QED
      BY <3>1, <3>2
  <2>7. QED
    BY <2>2, <2>3, <2>6
<1>5. ASSUME NEW x PROVE Has(c, x) <=> Has(a, x) \/ Has(b, x)
  <2>1. ASSUME Has(c, x) PROVE Has(a, x) \/ Has(b, x)
    BY <1>3, <2>1 DEF Has
  <2>2. ASSUME Has(a, x) PROVE Has(c, x)
    <3>1. PICK j \in 1 .. m : a[j] = x
      BY <1>1, <2>2 DEF Has
    <3>2. j \in 1 .. Len(c) /\ c[j] = x
      BY <1>2, <3>1
    <3>3. QED
      BY <3>2 DEF Has
  <2>3. ASSUME Has(b, x) PROVE Has(c, x)
    <3>1. PICK j \in 1 .. n : b[j] = x
      BY <1>1, <2>3 DEF Has
    <3>2. m + j \in 1 .. Len(c) /\ c[m + j] = x
      BY <1>2, <3>1
    <3>3. QED
      BY <3>2 DEF Has
  <2>4. QED
    BY <2>1, <2>2, <2>3
<1>6. QED
  BY <1>1, <1>2, <1>4, <1>5

LEMMA SetToSeqDistinct ==
  ASSUME NEW S, IsFiniteSet(S)
  PROVE  Distinct(SetToSeq(S)) /\ \A x : Has(SetToSeq(S), x) => x \in S
<1>1. Cardinality(S) \in Nat /\ ExistsBijection(1 .. Cardinality(S), S)
  BY FS_CardinalityType
<1>2. PICK f \in [1 .. Cardinality(S) -> S] : IsInjective(f)
  BY <1>1 DEF ExistsBijection, Bijection, Injection
<1>3. SetToSeq(S) \in [1 .. Cardinality(S) -> S] /\ IsInjective(SetToSeq(S))
  BY <1>2 DEF SetToSeq
<1>4. DOMAIN SetToSeq(S) = 1 .. Len(SetToSeq(S)) /\ \A j \in 1 .. Len(SetToSeq(S)) : SetToSeq(S)[j] \in S
  BY SetToSeqType
<1>5. QED
  BY <1>3, <1>4 DEF Distinct, Has, IsInjective

LEMMA ToldFinite ==
  ASSUME Data, NEW S
  PROVE  IsFiniteSet(Told(S)) /\ Cardinality(Told(S)) \in Nat
<1>1. Len(reqs) \in Nat
  BY DEF Data
<1>2. IsFiniteSet(1 .. Len(reqs)) /\ Told(S) \subseteq 1 .. Len(reqs)
  BY <1>1, FS_Interval DEF Told
<1>3. QED
  BY <1>2, FS_Subset, FS_CardinalityType

\* A step that reaps no cancel leaves the counts true.
LEMMA SameSums ==
  ASSUME Sums, Name = "cancel", test' = test, tally' = tally, (Distinct(cq))',
         broken \subseteq broken',
         \A i : /\ (i \in 1 .. Len(reqs) /\ i > Half /\ ~Has(cq, i))
                     <=> (i \in 1 .. Len(reqs') /\ i > Half /\ ~Has(cq', i))
                /\ i \in 1 .. Len(reqs) => (i > Half => reqs'[i].res = reqs[i].res),
         test \notin broken' => /\ pc' = "prepare" => head' = tail'
                                /\ pc' = "enter" => head' + left' = tail'
                                /\ pc' = "reap" => head' = ENTRIES
  PROVE  Sums'
<1>1. Name' = Name
  BY SameTest
<1>2. ASSUME NEW S PROVE (Told(S))' = Told(S)
  BY DEF Told
<1>3. (Told(Others))' = Told(Others)
  BY <1>2 DEF Others, Results
<1>4. /\ tally \in [cancelled : Nat, running : Nat, executed : Nat]
      /\ tally.cancelled = Cardinality(Told({"0"}))
      /\ tally.running = Cardinality(Told({"EALREADY"}))
      /\ tally.executed = Cardinality(Told(Others))
  BY DEF Sums
<1>5. /\ (Told({"0"}))' = Told({"0"})
      /\ (Told({"EALREADY"}))' = Told({"EALREADY"})
  BY <1>2
<1>6. QED
  BY <1>1, <1>3, <1>4, <1>5 DEF Sums

\* What is posted when the kernel takes an entry are reads it drops, which nobody
\* was told of, and the cancel itself.
LEMMA TakeSums ==
  ASSUME RingInv, Data, Queue, Cancels, Sums, Name = "cancel", Take
  PROVE  Sums'
<1>1. PICK e : e = sqes[head % size]
  OBVIOUS
<1>2. PICK n \in Nat : n = head + 1
  BY DEF RingInv, Numbers
<1>3. /\ e = Entry(n) /\ Takes(e, n) /\ Len(reqs) = head /\ head \in Nat /\ left \in Nat
      /\ tail \in Nat
  BY <1>1, <1>2, TakeSteps DEF Data, RingInv, Numbers
<1>4. /\ UNCHANGED <<test, pc, tail, tally, broken>> /\ pc = "enter"
      /\ head' = n /\ left' = left - 1
  BY <1>2 DEF Take
<1> DEFINE last == IF e.op = "cancel" THEN <<n>> ELSE <<>>
           t == SetToSeq(Gone(e))
<1>5. cq' = (cq \o t) \o last
  BY <1>1, <1>2, <1>3 DEF Take, Gone, Found, Targets
<1>6. ASSUME NEW k \in Gone(e)
      PROVE  k \in 1 .. Len(reqs) /\ k <= Half /\ ~Over(k)
  <2>1. Found(e) = "0" /\ k \in Targets(e)
    BY <1>6 DEF Gone
  <2>2. ASSUME NEW j \in Targets(e) PROVE j \in 1 .. Len(reqs) /\ j <= Half /\ e.arg = j
    <3>1. j \in 1 .. Len(reqs) /\ reqs[j].op = "read" /\ reqs[j].arg = e.arg
      BY <2>2 DEF Targets, Data
    <3>2. j <= Half
      <4>1. j > Half => reqs[j].op = "cancel"
        BY <3>1, CancelEntries
      <4>2. QED
        BY <3>1, <4>1, HalfType
    <3>3. QED
      BY <3>1, <3>2, CancelEntries
  <2>3. PICK j \in Targets(e) : ~Over(j)
    BY <2>1 DEF Found
  <2>4. j = k
    BY <2>1, <2>2, <2>3
  <2>5. QED
    BY <2>1, <2>2, <2>3, <2>4
<1>7. cq \in Seq(Nat) /\ Distinct(cq) /\ \A x : Has(cq, x) => x \in 1 .. Len(reqs) /\ Over(x)
  BY DEF Data, Sums, Has
<1>8. Gone(e) \subseteq Nat /\ IsFiniteSet(Gone(e))
  <2>1. Gone(e) \subseteq 1 .. Len(reqs)
    BY <1>6
  <2>2. IsFiniteSet(1 .. Len(reqs))
    BY <1>3, FS_Interval
  <2>3. QED
    BY <2>1, <2>2, FS_Subset
<1>9. t \in Seq(Nat) /\ Distinct(t) /\ \A x : Has(t, x) => x \in Gone(e)
  <2>1. t \in Seq(Gone(e)) /\ Distinct(t) /\ \A x : Has(t, x) => x \in Gone(e)
    BY <1>8, SetToSeqType, SetToSeqDistinct
  <2> HIDE DEF t
  <2>2. t \in Seq(Nat)
    BY <1>8, <2>1
  <2>3. QED
    BY <2>1, <2>2
<1>10. last \in Seq(Nat) /\ Distinct(last) /\ \A x : Has(last, x) <=> e.op = "cancel" /\ x = n
  <2>1. CASE e.op = "cancel"
    <3>1. last = <<n>>
      BY <2>1
    <3> HIDE DEF last
    <3>2. QED
      BY <2>1, <3>1 DEF Distinct, Has
  <2>2. CASE e.op # "cancel"
    <3>1. last = <<>>
      BY <2>2
    <3> HIDE DEF last
    <3>2. 1 .. Len(last) = {}
      BY <3>1
    <3>3. QED
      BY <2>2, <3>1, <3>2 DEF Distinct, Has
  <2>3. QED
    BY <2>1, <2>2
<1> HIDE DEF t, last
<1>11. PICK u : u = cq \o t
  OBVIOUS
<1>12. u \in Seq(Nat) /\ Distinct(u) /\ \A x : Has(u, x) <=> Has(cq, x) \/ Has(t, x)
  <2>1. \A x : ~(Has(cq, x) /\ Has(t, x))
    BY <1>6, <1>7, <1>9
  <2>2. QED
    BY <1>7, <1>9, <1>11, <2>1, Join
<1>13. Distinct(cq') /\ \A x : Has(cq', x) <=> Has(u, x) \/ (e.op = "cancel" /\ x = n)
  <2>1. \A x : ~(Has(u, x) /\ Has(last, x))
    <3>1. n \notin 1 .. Len(reqs)
      BY <1>2, <1>3
    <3>2. QED
      BY <1>6, <1>7, <1>9, <1>10, <1>12, <3>1
  <2>2. PICK w : w = last
    OBVIOUS
  <2>3. Distinct(u \o w) /\ \A x : Has(u \o w, x) <=> Has(u, x) \/ Has(w, x)
    BY <1>10, <1>12, <2>1, <2>2, Join
  <2>4. cq' = u \o w
    BY <1>5, <1>11, <2>2
  <2>5. QED
    BY <1>10, <2>2, <2>3, <2>4
<1>14. ASSUME NEW i, i > Half, i \in 1 .. n
       PROVE  Has(cq', i) <=> Has(cq, i) \/ i = n
  <2>1. i \notin Gone(e)
    BY <1>6, <1>14, HalfType
  <2>2. i = n => e.op = "cancel"
    <3>1. SUFFICES ASSUME i = n PROVE e.op = "cancel"
      OBVIOUS
    <3>2. ~(n <= Half)
      BY <1>14, <3>1, HalfType
    <3>3. QED
      BY <1>3, <3>2 DEF Entry, prep_cancel, E
  <2>3. QED
    BY <1>9, <1>12, <1>13, <2>1, <2>2
<1>15. ASSUME NEW i \in 1 .. Len(reqs), i > Half
       PROVE  reqs'[i].res = reqs[i].res
  <2>1. i \notin Gone(e)
    BY <1>6, <1>15, HalfType
  <2>2. QED
    BY <1>3, <2>1 DEF Takes
<1>16. ASSUME NEW i
       PROVE  (i \in 1 .. Len(reqs) /\ i > Half /\ ~Has(cq, i))
                <=> (i \in 1 .. Len(reqs') /\ i > Half /\ ~Has(cq', i))
  <2>1. Len(reqs') = n
    BY <1>3 DEF Takes
  <2>2. i \in 1 .. n <=> i \in 1 .. Len(reqs) \/ i = n
    BY <1>2, <1>3
  <2>3. n \notin 1 .. Len(reqs)
    BY <1>2, <1>3
  <2>4. QED
    BY <1>14, <2>1, <2>2, <2>3
<1>17. test \notin broken' => head' + left' = tail'
  BY <1>2, <1>3, <1>4 DEF Sums
<1>18. QED
  BY <1>4, <1>13, <1>15, <1>16, <1>17, SameSums

\* The workers post reads only.
LEMMA WorkerSums ==
  ASSUME RingInv, Data, Queue, Cancels, Sums, Name = "cancel", NEW i \in DOMAIN reqs, Work(i)
  PROVE  Sums'
<1>1. /\ i \in 1 .. Len(reqs) /\ Changes(i)
      /\ UNCHANGED <<test, pc, head, tail, left, tally, broken>>
      /\ Begins(i) \/ Completes(i) \/ Drops(i)
  BY WorkerSteps
<1>2. /\ reqs[i].st \in {"queued", "running"}
      /\ cq' = cq \/ cq' = Append(cq, i)
  BY <1>1 DEF Begins, Completes, Drops, Posted
<1>3. i <= Half /\ i \in Nat
  <2>1. i > Half => reqs[i].st = "done"
    BY <1>1 DEF Cancels
  <2>2. QED
    BY <1>1, <1>2, <2>1, HalfType
<1>4. /\ Len(reqs') = Len(reqs) /\ \A j \in 1 .. Len(reqs) : j # i => reqs'[j] = reqs[j]
  BY <1>1 DEF Changes
<1>5. cq \in Seq(Nat) /\ Distinct(cq) /\ ~Has(cq, i)
  BY <1>2 DEF Data, Sums, Has, Over
<1>6. Distinct(cq') /\ \A x : Has(cq', x) => Has(cq, x) \/ x = i
  <2>1. CASE cq' = cq
    BY <1>5, <2>1
  <2>2. CASE cq' = Append(cq, i)
    <3>1. PICK b : b = <<i>>
      OBVIOUS
    <3>2. b \in Seq(Nat) /\ Distinct(b) /\ \A x : Has(b, x) <=> x = i
      BY <1>3, <3>1 DEF Distinct, Has
    <3>3. cq' = cq \o b
      BY <1>5, <2>2, <3>1
    <3>4. QED
      BY <1>5, <3>2, <3>3, Join
  <2>3. QED
    BY <1>2, <2>1, <2>2
<1>7. \A x : Has(cq, x) => Has(cq', x)
  <2>1. CASE cq' = Append(cq, i)
    <3>1. Len(cq') = Len(cq) + 1 /\ Len(cq) \in Nat /\ \A j \in 1 .. Len(cq) : cq'[j] = cq[j]
      BY <1>3, <1>5, <2>1, OneMore
    <3>2. \A j \in 1 .. Len(cq) : j \in 1 .. Len(cq')
      BY <3>1
    <3>3. QED
      BY <3>1, <3>2 DEF Has
  <2>2. QED
    BY <1>2, <2>1
<1>8. \A x : x > Half => x # i
  BY <1>3, HalfType
<1>9. test \notin broken => /\ pc = "prepare" => head = tail
                            /\ pc = "enter" => head + left = tail
                            /\ pc = "reap" => head = ENTRIES
  BY DEF Sums
<1>10. QED
  BY <1>1, <1>4, <1>6, <1>7, <1>8, <1>9, SameSums

\* One completion is reaped: a cancel is counted for what it told, once.
LEMMA ReapSums ==
  ASSUME RingInv, Data, Queue, Cancels, Sums, ReapCancel, test' = test
  PROVE  Sums'
<1>1. Name = "cancel" /\ pc = "reap" /\ test \in Nat
  BY DEF ReapCancel, RingInv, Numbers
<1>2. \A v : ~Ends(v)
  BY <1>1 DEF Ends
<1> DEFINE r == reqs[Head(cq)]
<1>3. /\ cq # <<>> /\ cq' = SubSeq(cq, 2, Len(cq))
      /\ UNCHANGED <<pc, head, tail, left, reqs, broken>>
      /\ tally' = IF ~(r.ud > Half) THEN tally
                  ELSE IF r.res = "0" THEN [tally EXCEPT !.cancelled = @ + 1]
                  ELSE IF r.res = "EALREADY" THEN [tally EXCEPT !.running = @ + 1]
                  ELSE [tally EXCEPT !.executed = @ + 1]
  BY <1>2 DEF ReapCancel, get_cqe, ring, Half
<1>4. PICK k : k = cq[1]
  OBVIOUS
<1>5. /\ cq \in Seq(Nat) /\ Len(cq) \in Nat /\ Len(cq) >= 1 /\ Head(cq) = k
      /\ 1 \in 1 .. Len(cq) /\ Distinct(cq)
  BY <1>1, <1>3, <1>4 DEF Data, Sums
<1>6. k \in 1 .. Len(reqs) /\ r.ud = k /\ k \in Nat /\ Has(cq, k)
  <2>1. k \in 1 .. Len(reqs) /\ Has(cq, k)
    BY <1>4, <1>5 DEF Data, Has
  <2>2. QED
    BY <1>1, <1>5, <2>1, CancelEntries
<1>7. reqs[k].res \in Results
  <2>1. reqs[k] \in Requests
    BY <1>6 DEF Data
  <2>2. QED
    BY <2>1 DEF Requests
<1>8. Len(cq') = Len(cq) - 1 /\ \A j \in 1 .. Len(cq') : cq'[j] = cq[j + 1] /\ j + 1 \in 1 .. Len(cq)
  <2>1. PICK n \in Nat : n = 1
    OBVIOUS
  <2>2. PICK x : x = cq'
    OBVIOUS
  <2>3. x = SubSeq(cq, n + 1, Len(cq)) /\ n <= Len(cq)
    BY <1>3, <1>5, <2>1, <2>2
  <2>4. Len(x) = Len(cq) - n /\ \A j \in 1 .. Len(x) : x[j] = cq[j + n]
    BY <1>5, <2>3, Reaped
  <2>5. QED
    BY <1>5, <2>1, <2>2, <2>4
<1>9. Distinct(cq')
  <2>1. SUFFICES ASSUME NEW i \in 1 .. Len(cq'), NEW j \in 1 .. Len(cq'), cq'[i] = cq'[j]
                 PROVE  i = j
    BY DEF Distinct
  <2>2. cq[i + 1] = cq[j + 1] /\ i + 1 \in 1 .. Len(cq) /\ j + 1 \in 1 .. Len(cq)
    BY <1>8, <2>1
  <2>3. i + 1 = j + 1
    BY <1>5, <2>2 DEF Distinct
  <2>4. QED
    BY <2>1, <2>3
<1>10. ASSUME NEW x PROVE Has(cq', x) <=> Has(cq, x) /\ x # k
  <2>1. ASSUME Has(cq', x) PROVE Has(cq, x) /\ x # k
    <3>1. PICK j \in 1 .. Len(cq') : cq'[j] = x
      BY <2>1 DEF Has
    <3>2. cq[j + 1] = x /\ j + 1 \in 1 .. Len(cq) /\ j + 1 # 1
      BY <1>8, <3>1
    <3>3. QED
      BY <1>4, <1>5, <3>2 DEF Has, Distinct
  <2>2. ASSUME Has(cq, x), x # k PROVE Has(cq', x)
    <3>1. PICK j \in 1 .. Len(cq) : cq[j] = x
      BY <2>2 DEF Has
    <3>2. j - 1 \in 1 .. Len(cq') /\ (j - 1) + 1 = j
      BY <1>4, <1>5, <1>8, <2>2, <3>1
    <3>3. cq'[j - 1] = x
      BY <1>8, <3>1, <3>2
    <3>4. QED
      BY <3>2, <3>3 DEF Has
  <2>3. QED
    BY <2>1, <2>2
<1>11. ASSUME NEW S
       PROVE  /\ k > Half /\ reqs[k].res \in S =>
                   Cardinality((Told(S))') = Cardinality(Told(S)) + 1
              /\ ~(k > Half /\ reqs[k].res \in S) =>
                   Cardinality((Told(S))') = Cardinality(Told(S))
  <2>1. k \notin Told(S) /\ IsFiniteSet(Told(S))
    BY <1>6, ToldFinite DEF Told
  <2>2. k > Half /\ reqs[k].res \in S => (Told(S))' = Told(S) \cup {k}
    BY <1>3, <1>6, <1>10 DEF Told
  <2>3. ~(k > Half /\ reqs[k].res \in S) => (Told(S))' = Told(S)
    BY <1>3, <1>6, <1>10 DEF Told
  <2>4. Cardinality(Told(S) \cup {k}) = Cardinality(Told(S)) + 1
    BY <2>1, FS_AddElement
  <2>5. QED
    BY <2>2, <2>3, <2>4
<1> DEFINE A == {"0"}  B == {"EALREADY"}
<1>12. /\ tally \in [cancelled : Nat, running : Nat, executed : Nat]
       /\ tally.cancelled = Cardinality(Told(A))
       /\ tally.running = Cardinality(Told(B))
       /\ tally.executed = Cardinality(Told(Others))
       /\ test \notin broken => head = ENTRIES
  BY <1>1 DEF Sums
<1>13. Name' = Name /\ Others' = Others
  BY SameTest DEF Others, Results
<1>14. PICK O : O = Others
  OBVIOUS
<1>15. reqs[k].res \in A \/ reqs[k].res \in B \/ reqs[k].res \in O
  BY <1>7, <1>14 DEF Others
<1>16. /\ tally' \in [cancelled : Nat, running : Nat, executed : Nat]
       /\ tally'.cancelled = Cardinality((Told(A))')
       /\ tally'.running = Cardinality((Told(B))')
       /\ tally'.executed = Cardinality((Told(O))')
  <2>1. CASE ~(k > Half)
    BY <1>3, <1>5, <1>6, <1>11, <1>12, <1>14, <2>1
  <2>2. CASE k > Half /\ reqs[k].res = "0"
    <3>1. reqs[k].res \in A /\ reqs[k].res \notin B /\ reqs[k].res \notin O
      BY <1>14, <2>2 DEF Others
    <3>2. tally' = [tally EXCEPT !.cancelled = @ + 1]
      BY <1>3, <1>5, <1>6, <2>2
    <3>3. /\ Cardinality((Told(A))') = Cardinality(Told(A)) + 1
          /\ Cardinality((Told(B))') = Cardinality(Told(B))
          /\ Cardinality((Told(O))') = Cardinality(Told(O))
      BY <1>11, <2>2, <3>1
    <3>4. QED
      BY <1>12, <1>14, <3>2, <3>3
  <2>3. CASE k > Half /\ reqs[k].res = "EALREADY"
    <3>1. reqs[k].res \notin A /\ reqs[k].res \in B /\ reqs[k].res \notin O
      BY <1>14, <2>3 DEF Others
    <3>2. tally' = [tally EXCEPT !.running = @ + 1]
      BY <1>3, <1>5, <1>6, <2>3
    <3>3. /\ Cardinality((Told(A))') = Cardinality(Told(A))
          /\ Cardinality((Told(B))') = Cardinality(Told(B)) + 1
          /\ Cardinality((Told(O))') = Cardinality(Told(O))
      BY <1>11, <2>3, <3>1
    <3>4. QED
      BY <1>12, <1>14, <3>2, <3>3
  <2>4. CASE k > Half /\ reqs[k].res \notin {"0", "EALREADY"}
    <3>1. reqs[k].res \notin A /\ reqs[k].res \notin B /\ reqs[k].res \in O
      BY <1>15, <2>4
    <3>2. tally' = [tally EXCEPT !.executed = @ + 1]
      BY <1>3, <1>5, <1>6, <2>4
    <3>3. /\ Cardinality((Told(A))') = Cardinality(Told(A))
          /\ Cardinality((Told(B))') = Cardinality(Told(B))
          /\ Cardinality((Told(O))') = Cardinality(Told(O)) + 1
      BY <1>11, <2>4, <3>1
    <3>4. QED
      BY <1>12, <1>14, <3>2, <3>3
  <2>5. QED
    BY <2>1, <2>2, <2>3, <2>4
<1>17. (Told(Others))' = (Told(O))'
  BY <1>13, <1>14 DEF Told
<1>18. QED
  BY <1>1, <1>3, <1>9, <1>12, <1>13, <1>16, <1>17 DEF Sums

\* A step of main that leaves the requests alone.
LEMMA MainSums ==
  ASSUME RingInv, Data, Queue, Cancels, Sums, Name = "cancel", [Next]_vars,
         UNCHANGED <<reqs, test, file, late>>
  PROVE  Sums'
<1>1. test \in Nat /\ head \in Nat /\ left \in Nat /\ tail \in Nat
  BY DEF RingInv, Numbers
<1>2. \A v : ~Ends(v)
  BY <1>1 DEF Ends
<1>3. CASE ReapCancel
  BY <1>3, ReapSums
<1>4. CASE Take
  BY <1>4, TakeSums
<1>5. CASE Worker
  BY <1>5, WorkerSums DEF Worker
<1>6. CASE NextRing \/ Close \/ CloseFails
  BY <1>6 DEF NextRing, Close, CloseFails, AllOpen, RingInv, Numbers
<1>7. CASE ReapLink \/ ReadEvents \/ EndOverflow \/ EndEvents \/ ReadFails \/ EventfdFails
           \/ CmpFails \/ FinishFails
  BY <1>2, <1>7 DEF ReapLink, ReadEvents, EndOverflow, EndEvents, ReadFails, EventfdFails, CmpFails,
     FinishFails
<1> DEFINE Whole == /\ pc = "prepare" => head = tail
                    /\ pc = "enter" => head + left = tail
                    /\ pc = "reap" => head = ENTRIES
<1>8. Distinct(cq) /\ (test \notin broken => Whole)
  BY DEF Sums
<1>9. ASSUME UNCHANGED <<cq, tally>>, broken \subseteq broken', test \notin broken' => Whole'
      PROVE  Sums'
  <2>1. Distinct(cq')
    BY <1>8, <1>9
  <2>2. \A i : /\ (i \in 1 .. Len(reqs) /\ i > Half /\ ~Has(cq, i))
                    <=> (i \in 1 .. Len(reqs') /\ i > Half /\ ~Has(cq', i))
               /\ i \in 1 .. Len(reqs) => (i > Half => reqs'[i].res = reqs[i].res)
    BY <1>9
  <2>3. QED
    BY <1>9, <2>1, <2>2, SameSums
<1>10. CASE Setup
  <2>1. /\ UNCHANGED <<cq, tally, broken, head, tail>> /\ pc' = "prepare" /\ pc = "setup"
    BY <1>10 DEF Setup, SetUp
  <2>2. head = tail
    BY <2>1 DEF RingInv, Numbers
  <2>3. QED
    BY <1>9, <2>1, <2>2
<1>11. CASE SetupFails \/ StrayCrash
  <2>1. UNCHANGED <<cq, tally>> /\ broken \subseteq broken' /\ pc' = "crashed"
    BY <1>2, <1>11 DEF SetupFails, StrayCrash, Crashes, Breaks
  <2>2. QED
    BY <1>9, <2>1
<1>12. CASE Prepare
  <2>1. /\ UNCHANGED <<cq, tally, broken, head>> /\ pc' = "enter" /\ pc = "prepare"
        /\ tail' = tail + Len(batch(count + 1)) /\ left' = Len(batch(count + 1))
    BY <1>12 DEF Prepare
  <2>2. Len(batch(count + 1)) \in Nat
    BY HalfType, BatchLength DEF RingInv, Numbers
  <2>3. QED
    BY <1>1, <1>8, <1>9, <2>1, <2>2
<1>13. CASE EnterReturns
  <2>1. /\ UNCHANGED <<cq, tally, broken, head, tail>> /\ pc = "enter" /\ left = 0
        /\ pc' = IF count < 2 THEN "prepare" ELSE "reap"
    BY <1>13 DEF EnterReturns, ring, Steps
  <2>2. count \in {1, 2} /\ tail = count * Half
    BY <2>1 DEF RingInv, Progress
  <2>3. pc' = "reap" => tail = ENTRIES
    BY <2>1, <2>2, HalfType
  <2>4. QED
    BY <1>1, <1>8, <1>9, <2>1, <2>3
<1>14. CASE EnterShort
  <2>1. UNCHANGED <<cq, tally>> /\ broken' = broken \cup {test}
    BY <1>2, <1>14 DEF EnterShort, Crashes, Breaks
  <2>2. QED
    BY <1>9, <2>1
<1>15. CASE UNCHANGED vars
  BY <1>8, <1>9, <1>15 DEF vars
<1>16. QED
  BY <1>3, <1>4, <1>5, <1>6, <1>7, <1>10, <1>11, <1>12, <1>13, <1>14, <1>15 DEF Next, Program, Failure

LEMMA SumsStep ==
  ASSUME RingInv, Data, Queue, Cancels, Sums, [Next]_vars
  PROVE  Sums'
<1>1. CASE /\ reqs' = <<>> /\ cq' = <<>> /\ pc' = "setup"
           /\ tally' = [cancelled |-> 0, running |-> 0, executed |-> 0]
  <2>1. Len(reqs') = 0 /\ 1 .. 0 = {} /\ Distinct(cq')
    BY <1>1 DEF Distinct
  <2>2. ASSUME NEW S PROVE Cardinality((Told(S))') = 0
    BY <2>1, FS_EmptySet DEF Told
  <2>3. Cardinality((Told(Others))') = 0
    BY <2>1, FS_EmptySet DEF Told
  <2>4. QED
    BY <1>1, <2>1, <2>2, <2>3 DEF Sums
<1>3. CASE UNCHANGED <<reqs, test, file, late>>
  <2>1. CASE Name = "cancel"
    BY <1>3, <2>1, MainSums
  <2>2. CASE Name # "cancel"
    BY <1>3, <2>2, SameTest DEF Sums
  <2>3. QED
    BY <2>1, <2>2
<1>4. CASE Take
  <2>1. test' = test
    BY <1>4 DEF Take
  <2>2. QED
    BY <1>4, <2>1, SameTest, TakeSums DEF Sums
<1>5. CASE Worker
  <2>1. PICK i \in DOMAIN reqs : Work(i)
    BY <1>5 DEF Worker
  <2>2. test' = test
    BY <2>1, WorkerSteps
  <2>3. QED
    BY <2>1, <2>2, SameTest, WorkerSums DEF Sums
<1>6. QED
  BY <1>1, <1>3, <1>4, <1>5, FourWays

\* All cancels are reaped: they are half of the ring, and the reads that were
\* dropped are as many as the cancels that say so.
LEMMA CountsAdd ==
  ASSUME RingInv, Data, Queue, Cancels, Sums
  PROVE  TallyIsTrue
<1>1. SUFFICES ASSUME Name = "cancel", pc = "reap", cq = <<>>, test \notin broken
               PROVE  /\ tally.cancelled = Cardinality({i \in DOMAIN reqs : reqs[i].st = "dropped"})
                      /\ tally.cancelled + tally.running + tally.executed = Half
  BY DEF TallyIsTrue, Half
<1>2. PICK N \in Nat : N = ENTRIES
  BY UringAssumption
<1>3. /\ Len(reqs) = N /\ DOMAIN reqs = 1 .. N /\ Half \in Nat /\ N = 2 * Half /\ Half > 0
      /\ \A i \in 1 .. N : reqs[i].res \in Results
  <2>1. Len(reqs) = N
    BY <1>1, <1>2 DEF Sums, Data
  <2>2. \A i \in 1 .. N : reqs[i] \in Requests
    BY <2>1 DEF Data
  <2>3. QED
    BY <1>2, <2>1, <2>2, HalfType, UringAssumption DEF Data, Requests
<1>4. \A i : ~Has(cq, i)
  <2>1. 1 .. Len(cq) = {}
    BY <1>1
  <2>2. QED
    BY <2>1 DEF Has
<1>5. PICK A, B, O : /\ A = {i \in 1 .. N : i > Half /\ reqs[i].res = "0"}
                     /\ B = {i \in 1 .. N : i > Half /\ reqs[i].res = "EALREADY"}
                     /\ O = {i \in 1 .. N : i > Half /\ reqs[i].res \in Others}
  OBVIOUS
<1>6. A = Told({"0"}) /\ B = Told({"EALREADY"}) /\ O = Told(Others)
  BY <1>3, <1>4, <1>5 DEF Told
<1>7. /\ tally.cancelled = Cardinality(A) /\ tally.running = Cardinality(B)
      /\ tally.executed = Cardinality(O)
  BY <1>1, <1>6 DEF Sums
<1>8. /\ IsFiniteSet(A) /\ IsFiniteSet(B) /\ IsFiniteSet(O)
      /\ Cardinality(A) \in Nat /\ Cardinality(B) \in Nat /\ Cardinality(O) \in Nat
  BY <1>6, ToldFinite
<1>9. Cardinality(A) + Cardinality(B) + Cardinality(O) = Half
  <2>1. A \cap B = {} /\ (A \cup B) \cap O = {}
    BY <1>5 DEF Others
  <2>2. (A \cup B) \cup O = (Half + 1) .. N
    <3>1. \A i : i \in 1 .. N /\ i > Half <=> i \in (Half + 1) .. N
      BY <1>3
    <3>2. \A i \in 1 .. N : reqs[i].res = "0" \/ reqs[i].res = "EALREADY" \/ reqs[i].res \in Others
      BY <1>3 DEF Others
    <3>3. QED
      BY <1>5, <3>1, <3>2
  <2>3. IsFiniteSet(A \cup B) /\ Cardinality(A \cup B) = Cardinality(A) + Cardinality(B)
    <3>1. /\ IsFiniteSet(A \cup B)
          /\ Cardinality(A \cup B) = Cardinality(A) + Cardinality(B) - Cardinality(A \cap B)
      BY <1>8, FS_Union
    <3>2. QED
      BY <1>8, <2>1, <3>1, FS_EmptySet
  <2>4. Cardinality((A \cup B) \cup O) = Cardinality(A \cup B) + Cardinality(O)
    <3>1. Cardinality((A \cup B) \cup O)
            = Cardinality(A \cup B) + Cardinality(O) - Cardinality((A \cup B) \cap O)
      BY <1>8, <2>3, FS_Union
    <3>2. Cardinality((A \cup B) \cap O) = 0
      BY <2>1, FS_EmptySet
    <3>3. Cardinality(A \cup B) \in Nat
      BY <2>3, FS_CardinalityType
    <3>4. QED
      BY <1>8, <3>1, <3>2, <3>3
  <2>5. Cardinality((Half + 1) .. N) = Half
    <3>1. PICK a \in Int, b \in Int : a = Half + 1 /\ b = N
      BY <1>3
    <3>2. Cardinality(a .. b) = IF a > b THEN 0 ELSE b - a + 1
      BY FS_Interval
    <3>3. Cardinality(a .. b) = Half
      BY <1>3, <3>1, <3>2
    <3>4. QED
      BY <3>1, <3>3
  <2>6. QED
    BY <2>2, <2>3, <2>4, <2>5
<1>10. Cardinality({i \in DOMAIN reqs : reqs[i].st = "dropped"}) = Cardinality(A)
  <2>1. PICK D : D = {i \in DOMAIN reqs : reqs[i].st = "dropped"}
    OBVIOUS
  <2>2. ASSUME NEW i \in A PROVE i - Half \in D /\ i \in Nat
    <3>1. i \in 1 .. Len(reqs) /\ i > Half /\ reqs[i].res = "0"
      BY <1>3, <1>5, <2>2
    <3>2. reqs[i - Half].st = "dropped"
      BY <1>1, <3>1 DEF Cancels
    <3>3. i - Half \in DOMAIN reqs
      BY <1>3, <3>1
    <3>4. QED
      BY <1>3, <2>1, <3>1, <3>2, <3>3
  <2>3. ASSUME NEW i \in D PROVE i + Half \in A /\ i \in Nat
    <3>1. i \in 1 .. Len(reqs) /\ reqs[i].st = "dropped"
      BY <1>3, <2>1, <2>3
    <3>2. i <= Half
      <4>1. i > Half => reqs[i].st = "done"
        BY <1>1, <3>1 DEF Cancels
      <4>2. QED
        BY <1>3, <3>1, <4>1
    <3>3. i + Half <= Len(reqs) /\ reqs[i + Half].res = "0"
      BY <1>1, <3>1, <3>2 DEF Cancels
    <3>4. i + Half \in 1 .. N /\ i + Half > Half
      BY <1>3, <3>1, <3>3
    <3>5. QED
      BY <1>3, <1>5, <3>1, <3>3, <3>4
  <2>4. PICK f : f = [i \in A |-> i - Half]
    OBVIOUS
  <2>5. f \in [A -> D]
    BY <2>2, <2>4
  <2>6. \A i, j \in A : f[i] = f[j] => i = j
    <3>1. ASSUME NEW i \in A, NEW j \in A, f[i] = f[j] PROVE i = j
      <4>1. i - Half = j - Half /\ i \in Nat /\ j \in Nat
        BY <2>2, <2>4, <3>1
      <4>2. QED
        BY <1>3, <4>1
    <3>2. QED
      BY <3>1
  <2>7. \A d \in D : \E i \in A : f[i] = d
    <3>1. ASSUME NEW d \in D PROVE \E i \in A : f[i] = d
      <4>1. d + Half \in A /\ (d + Half) - Half = d
        BY <1>3, <2>3, <3>1
      <4>2. f[d + Half] = d
        BY <2>4, <4>1
      <4>3. QED
        BY <4>1, <4>2
    <3>2. QED
      BY <3>1
  <2>8. f \in Bijection(A, D)
    BY <2>5, <2>6, <2>7 DEF Bijection, Injection, Surjection, IsInjective
  <2>9. Cardinality(D) = Cardinality(A)
    BY <1>8, <2>8, FS_Bijection DEF ExistsBijection
  <2>10. QED
    BY <2>1, <2>9
<1>11. QED
  BY <1>7, <1>9, <1>10

\* When test_cancel_sqe has reaped everything and no system call failed, its three
\* counters add up to the cancels it sent, and "cancelled" is the number of reads
\* the kernel never ran, however completions of reads and cancels are mixed, for
\* every number of entries.
THEOREM CountersAreTrue == Spec => []TallyIsTrue
<1>1. Init => Cancels /\ Sums
  <2>1. SUFFICES ASSUME Init PROVE Name # "cancel"
    BY DEF Cancels, Sums
  <2>2. QED
    BY <2>1, SixTests DEF Init, Name, Tests
<1>2. RingInv /\ Data /\ Queue /\ Cancels /\ Sums /\ [Next]_vars => Cancels' /\ Sums'
  BY CancelsStep, SumsStep
<1>3. RingInv /\ Data /\ Queue /\ Cancels /\ Sums => TallyIsTrue
  BY CountsAdd
<1>4. QED
  BY <1>1, <1>2, <1>3, DataInvariant, PTL DEF Spec
-----------------------------------------------------------------------------
(* test_eventfd.                                                           *)

\* It only reads, and links nothing.
LEMMA EventfdEntries ==
  ASSUME Data, Queue, Name = "eventfd", NEW i \in 1 .. Len(reqs)
  PROVE  reqs[i].op = "read" /\ reqs[i].link = FALSE
  BY DEF Queue, IsEntry, Entry, prep_read, E

LEMMA OverSetFinite ==
  ASSUME Data
  PROVE  IsFiniteSet(OverSet) /\ Cardinality(OverSet) \in Nat
<1>1. Len(reqs) \in Nat
  BY DEF Data
<1>2. IsFiniteSet(1 .. Len(reqs)) /\ OverSet \subseteq 1 .. Len(reqs)
  BY <1>1, FS_Interval DEF OverSet
<1>3. QED
  BY <1>2, FS_Subset, FS_CardinalityType

LEMMA TakeCounts ==
  ASSUME RingInv, Data, Queue, Counted, Take
  PROVE  Counted'
<1>1. UNCHANGED <<test, events, count, pc>>
  BY DEF Take
<1>2. Name' = Name
  BY <1>1, SameTest
<1>3. SUFFICES ASSUME Name = "eventfd" PROVE OverSet' = OverSet
  BY <1>1, <1>2 DEF Counted
<1>4. PICK e : e = sqes[head % size]
  OBVIOUS
<1> DEFINE n == head + 1
<1>5. e = Entry(n) /\ n = Len(reqs) + 1 /\ Takes(e, n) /\ head \in Nat /\ Len(reqs) = head
  BY <1>3, <1>4, TakeSteps DEF RingInv, Numbers, Data
<1>6. e.op = "read"
  BY <1>3, <1>5 DEF Entry, prep_read, E
<1> HIDE DEF n
<1>7. /\ Len(reqs') = n /\ reqs'[n].st = "queued"
      /\ \A j \in 1 .. Len(reqs) : reqs'[j] = reqs[j]
  BY <1>5, <1>6 DEF Takes, Gone
<1>8. \A i \in 1 .. n : i = n \/ i \in 1 .. Len(reqs)
  BY <1>5
<1>9. \A i \in 1 .. Len(reqs) : i \in 1 .. n
  BY <1>5
<1>10. QED
  BY <1>7, <1>8, <1>9 DEF OverSet, Over

LEMMA WorkerCounts ==
  ASSUME RingInv, Data, Queue, Counted, NEW i \in DOMAIN reqs, Work(i)
  PROVE  Counted'
<1>1. /\ i \in 1 .. Len(reqs) /\ Changes(i) /\ UNCHANGED <<test, pc, count>>
      /\ Begins(i) \/ Completes(i) \/ Drops(i)
  BY WorkerSteps
<1>2. Name' = Name
  BY <1>1, SameTest
<1>3. SUFFICES ASSUME Name = "eventfd" PROVE Counted'
  BY <1>2 DEF Counted
<1>4. ~Drops(i)
  <2>1. ASSUME Chained(i) PROVE FALSE
    <3>1. i - 1 \in 1 .. Len(reqs) /\ reqs[i - 1].link
      BY <1>1, <2>1 DEF Chained, Data
    <3>2. reqs[i - 1].link = FALSE
      BY <1>3, <3>1, EventfdEntries
    <3>3. QED
      BY <3>1, <3>2
  <2>2. QED
    BY <2>1 DEF Drops
<1>5. Len(reqs') = Len(reqs) /\ \A j \in 1 .. Len(reqs) : j # i => reqs'[j] = reqs[j]
  BY <1>1 DEF Changes
<1>6. CASE Begins(i)
  <2>1. events' = events /\ reqs[i].st = "queued" /\ reqs'[i].st = "running"
    BY <1>6 DEF Begins
  <2>2. OverSet' = OverSet
    BY <1>1, <1>5, <2>1 DEF OverSet, Over
  <2>3. QED
    BY <1>1, <1>2, <2>1, <2>2 DEF Counted
<1>7. CASE Completes(i)
  <2>1. events' \in {events, events + 1} /\ reqs[i].st = "running" /\ reqs'[i].st = "done"
    BY <1>7 DEF Completes, Posted, Signals, RingInv, Numbers
  <2>2. OverSet' = OverSet \cup {i} /\ i \notin OverSet
    BY <1>1, <1>5, <2>1 DEF OverSet, Over
  <2>3. Cardinality(OverSet') = Cardinality(OverSet) + 1 /\ Cardinality(OverSet) \in Nat
    BY <2>2, OverSetFinite, FS_AddElement
  <2>4. events \in Nat /\ count \in Nat
    BY DEF RingInv, Numbers
  <2>5. QED
    BY <1>1, <1>2, <1>3, <2>1, <2>3, <2>4 DEF Counted
<1>8. QED
  BY <1>1, <1>4, <1>6, <1>7

\* What read() took from the eventfd is in count.
LEMMA SameCount ==
  ASSUME RingInv, Data, [Next]_vars, ~Take, ~Worker,
         UNCHANGED <<reqs, test>>, Name = "eventfd"
  PROVE  events' + (IF pc' = "reap" THEN count' ELSE 0) = events + (IF pc = "reap" THEN count ELSE 0)
<1>1. events \in Nat /\ count \in Nat /\ test \in Nat
  BY DEF RingInv, Numbers
<1>2. \A v : ~Ends(v)
  BY <1>1 DEF Ends
<1>3. CASE Setup \/ EventfdFails \/ NextRing \/ Prepare
  BY <1>1, <1>3 DEF Setup, EventfdFails, SetUp, NextRing, Prepare
<1>4. CASE EnterReturns
  BY <1>1, <1>4 DEF EnterReturns
<1>5. CASE ReadEvents
  BY <1>1, <1>5 DEF ReadEvents
<1>6. CASE SetupFails \/ Close \/ CloseFails \/ EnterShort \/ StrayCrash
  BY <1>1, <1>2, <1>6 DEF SetupFails, Close, CloseFails, AllOpen, EnterShort, StrayCrash, Crashes
<1>7. ~(ReapCancel \/ ReapLink \/ EndOverflow \/ EndEvents \/ ReadFails \/ CmpFails \/ FinishFails)
  BY <1>2 DEF ReapCancel, ReapLink, EndOverflow, EndEvents, ReadFails, CmpFails, FinishFails
<1>8. CASE UNCHANGED vars
  BY <1>1, <1>8 DEF vars
<1>9. QED
  BY <1>3, <1>4, <1>5, <1>6, <1>7, <1>8 DEF Next, Program, Failure

LEMMA CountedStep ==
  ASSUME RingInv, Data, Queue, Counted, [Next]_vars
  PROVE  Counted'
<1>1. CASE reqs' = <<>> /\ events' = 0 /\ pc' = "setup"
  <2>1. OverSet' = {}
    BY <1>1 DEF OverSet
  <2>2. QED
    BY <1>1, <2>1, FS_EmptySet DEF Counted
<1>2. CASE UNCHANGED <<reqs, test>> /\ ~Take /\ ~Worker
  <2>1. Name' = Name
    BY <1>2, SameTest
  <2>2. SUFFICES ASSUME Name = "eventfd" PROVE Counted'
    BY <2>1 DEF Counted
  <2>3. OverSet' = OverSet
    BY <1>2 DEF OverSet, Over
  <2>4. events' + (IF pc' = "reap" THEN count' ELSE 0) = events + (IF pc = "reap" THEN count ELSE 0)
    BY <1>2, <2>2, SameCount
  <2>5. QED
    BY <2>1, <2>2, <2>3, <2>4 DEF Counted
<1>3. QED
  BY <1>1, <1>2, FourWays, TakeCounts, WorkerCounts DEF Worker

\* When as many completions were counted as there are reads, none is pending.
LEMMA AllOver ==
  ASSUME RingInv, Data, Queue, Counted, Name = "eventfd", pc = "reap", enough(count)
  PROVE  Pending = {}
<1>1. Len(reqs) \in Nat /\ Len(reqs) <= ENTRIES /\ DOMAIN reqs = 1 .. Len(reqs)
  <2>1. Len(reqs) = head /\ head <= tail /\ tail <= ENTRIES /\ head \in Nat /\ tail \in Nat
    BY DEF Data, Queue, RingInv, Numbers, RingSize
  <2>2. DOMAIN reqs = 1 .. Len(reqs)
    BY DEF Data
  <2>3. QED
    BY <2>1, <2>2, UringAssumption
<1>2. Cardinality(OverSet) >= ENTRIES
  BY UringAssumption, OverSetFinite DEF Counted, enough, RingInv, Numbers
<1>3. IsFiniteSet(1 .. Len(reqs)) /\ Cardinality(1 .. Len(reqs)) = Len(reqs)
  <2>1. PICK m \in Nat : m = Len(reqs)
    BY <1>1
  <2>2. IsFiniteSet(1 .. m) /\ Cardinality(1 .. m) = IF 1 > m THEN 0 ELSE m - 1 + 1
    BY FS_Interval
  <2>3. QED
    BY <2>1, <2>2
<1>4. OverSet \in SUBSET (1 .. Len(reqs)) /\ Cardinality(OverSet) \in Nat
  BY OverSetFinite DEF OverSet
<1>5. Cardinality(OverSet) <= Cardinality(1 .. Len(reqs))
  BY <1>3, <1>4, FS_Subset
<1>6. Cardinality(OverSet) = Cardinality(1 .. Len(reqs))
  BY <1>1, <1>2, <1>3, <1>4, <1>5, UringAssumption
<1>7. OverSet = 1 .. Len(reqs)
  BY <1>3, <1>4, <1>6, FS_Subset
<1>8. QED
  BY <1>1, <1>7 DEF OverSet, Over, Pending

\* How test_eventfd passes.
LEMMA EventfdCheck ==
  ASSUME RingInv, Data, Queue, Counted, [Next]_vars,
         Name = "eventfd", verdict'[test] = "Pass"
  PROVE  Pending = {} \/ evfd = "failed"
<1>1. test \in 1 .. 6 /\ verdict[test] = "none" /\ DOMAIN verdict = 1 .. 6
  BY NameValues DEF Data, RingInv, Numbers
<1>2. verdict' # verdict
  BY <1>1
<1>3. \A v : Ends(v) => v = "Pass"
  BY <1>1 DEF Ends
<1>4. EndEvents \/ ReadFails
  <2>1. ~Worker
    BY <1>2 DEF Worker, Work, Begin, Complete, TimeoutEnds, Drop, Kernel
  <2>2. pc = "opened" => Name \in {"create", "create10"}
    BY DEF RingInv, Numbers
  <2>3. QED
    BY <1>2, <1>3, <2>1, <2>2 DEF Next, Program, Failure, Setup, EventfdFails, SetUp, SetupFails,
       NextRing, Close, CloseFails, AllOpen, Prepare, EnterReturns, EnterShort, CmpFails, Crashes,
       ReapCancel, ReapLink, FinishFails, Slept, EndOverflow, ReadEvents, StrayCrash, Take, vars
<1>5. CASE EndEvents
  BY <1>5, AllOver DEF EndEvents
<1>6. CASE ReadFails
  BY <1>6 DEF ReadFails
<1>7. QED
  BY <1>4, <1>5, <1>6

\* test_eventfd passes, and frees its buffers, only when no read can write to
\* them any more: its sum of what read() returned never exceeds the completions,
\* for every number of entries, also after a short io_uring_enter, after a failed
\* io_uring_register and when signals stand for several completions.  Only a
\* failed eventfd() lets it pass early.
THEOREM BuffersOutliveReads == Spec => NoReadAfterFree
<1>1. Init => Counted
  BY SixTests DEF Init, Counted, Name, Tests
<1>2. RingInv /\ Data /\ Queue /\ Counted /\ [Next]_vars => Counted'
  BY CountedStep
<1>3. RingInv /\ Data /\ Queue /\ Counted /\ [Next]_vars =>
        [Name = "eventfd" /\ verdict'[test] = "Pass" => Pending = {} \/ evfd = "failed"]_vars
  BY EventfdCheck
<1>4. QED
  BY <1>1, <1>2, <1>3, DataInvariant, PTL DEF Spec, NoReadAfterFree
-----------------------------------------------------------------------------
(* test_io_link.                                                           *)

LEMMA LinkFields ==
  ASSUME NEW i \in 1 .. 10
  PROVE  /\ i # 4 => link_sqes[i].op = "write" /\ link_sqes[i].arg = Pos(i) /\ ~link_sqes[i].drain
         /\ i = 4 => link_sqes[i].op = "timeout" /\ link_sqes[i].arg = 3 /\ link_sqes[i].drain
         /\ link_sqes[i].link <=> i \notin {3, 7, 10}
<1>1. /\ link_sqes[1].op = "write" /\ link_sqes[1].arg = 1 /\ link_sqes[1].link
      /\ ~link_sqes[1].drain
  BY LinkEntries DEF prep_write, E
<1>2. /\ link_sqes[2].op = "write" /\ link_sqes[2].arg = 2 /\ link_sqes[2].link
      /\ ~link_sqes[2].drain
  BY LinkEntries DEF prep_write, E
<1>3. /\ link_sqes[3].op = "write" /\ link_sqes[3].arg = 3 /\ ~link_sqes[3].link
      /\ ~link_sqes[3].drain
  BY LinkEntries DEF prep_write, E
<1>4. /\ link_sqes[4].op = "timeout" /\ link_sqes[4].arg = 3 /\ link_sqes[4].link
      /\ link_sqes[4].drain
  BY LinkEntries DEF prep_timeout, E
<1>5. /\ link_sqes[5].op = "write" /\ link_sqes[5].arg = 7 /\ link_sqes[5].link
      /\ ~link_sqes[5].drain
  BY LinkEntries DEF prep_write, E
<1>6. /\ link_sqes[6].op = "write" /\ link_sqes[6].arg = 8 /\ link_sqes[6].link
      /\ ~link_sqes[6].drain
  BY LinkEntries DEF prep_write, E
<1>7. /\ link_sqes[7].op = "write" /\ link_sqes[7].arg = 9 /\ ~link_sqes[7].link
      /\ ~link_sqes[7].drain
  BY LinkEntries DEF prep_write, E
<1>8. /\ link_sqes[8].op = "write" /\ link_sqes[8].arg = 4 /\ link_sqes[8].link
      /\ ~link_sqes[8].drain
  BY LinkEntries DEF prep_write, E
<1>9. /\ link_sqes[9].op = "write" /\ link_sqes[9].arg = 5 /\ link_sqes[9].link
      /\ ~link_sqes[9].drain
  BY LinkEntries DEF prep_write, E
<1>10. /\ link_sqes[10].op = "write" /\ link_sqes[10].arg = 6 /\ ~link_sqes[10].link
      /\ ~link_sqes[10].drain
  BY LinkEntries DEF prep_write, E
<1>11. i \in {1, 2, 3, 4, 5, 6, 7, 8, 9, 10}
  OBVIOUS
<1>12. QED
  BY <1>1, <1>2, <1>3, <1>4, <1>5, <1>6, <1>7, <1>8, <1>9, <1>10, <1>11 DEF Pos

LEMMA LinkRequests ==
  ASSUME RingInv, Data, Queue, Name = "link"
  PROVE  /\ Len(reqs) \in 0 .. 10 /\ DOMAIN reqs = 1 .. Len(reqs)
         /\ \A i \in 1 .. Len(reqs) :
              /\ i \in 1 .. 10
              /\ i # 4 => reqs[i].op = "write" /\ reqs[i].arg = Pos(i) /\ ~reqs[i].drain
              /\ i = 4 => reqs[i].op = "timeout" /\ reqs[i].arg = 3 /\ reqs[i].drain
              /\ reqs[i].link <=> i \notin {3, 7, 10}
              /\ reqs[i].st \in States
<1>1. Len(reqs) \in 0 .. 10 /\ DOMAIN reqs = 1 .. Len(reqs)
  <2>1. Len(reqs) = head /\ head <= tail /\ tail <= 10 /\ head \in Nat /\ tail \in Nat
    BY DEF Data, Queue, RingInv, Numbers, RingSize
  <2>2. DOMAIN reqs = 1 .. Len(reqs)
    BY DEF Data
  <2>3. QED
    BY <2>1, <2>2
<1>2. ASSUME NEW i \in 1 .. Len(reqs)
      PROVE  /\ i \in 1 .. 10
             /\ i # 4 => reqs[i].op = "write" /\ reqs[i].arg = Pos(i) /\ ~reqs[i].drain
             /\ i = 4 => reqs[i].op = "timeout" /\ reqs[i].arg = 3 /\ reqs[i].drain
             /\ reqs[i].link <=> i \notin {3, 7, 10}
             /\ reqs[i].st \in States
  <2>1. i \in 1 .. 10
    BY <1>1
  <2>2. IsEntry(reqs[i], link_sqes[i])
    BY DEF Queue, Entry
  <2>3. reqs[i].st \in States
    <3>1. reqs[i] \in Requests
      BY DEF Data
    <3>2. QED
      BY <3>1 DEF Requests
  <2>4. QED
    BY <2>1, <2>2, <2>3, LinkFields DEF IsEntry
<1>3. QED
  BY <1>1, <1>2

\* The completions of the writes.
WritesOver == {i \in Writes : St(i) \in {"done", "dropped"}}

LEMMA CountWrites ==
  ASSUME RingInv, Data, Queue, Name = "link"
  PROVE  /\ Completions = Cardinality(WritesOver)
         /\ WritesOver = {1, 2, 3} => Completions = 3
         /\ WritesOver \subseteq {1, 2, 3, 8, 9} => Completions <= 5
         /\ {1, 2, 3, 8, 9, 10} \subseteq WritesOver => Completions >= 6
<1>1. Completions = Cardinality(WritesOver)
  <2>1. \A i : i \in {j \in DOMAIN reqs : reqs[j].op # "timeout" /\ Over(j)} <=> i \in WritesOver
    <3>1. ASSUME NEW i \in DOMAIN reqs
          PROVE  reqs[i].op # "timeout" <=> i \in Writes
      BY LinkRequests DEF Writes
    <3>2. ASSUME NEW i \in DOMAIN reqs
          PROVE  Over(i) <=> St(i) \in {"done", "dropped"}
      BY LinkRequests DEF Over, St
    <3>3. ASSUME NEW i \in WritesOver
          PROVE  i \in DOMAIN reqs
      BY LinkRequests DEF WritesOver, St
    <3>4. QED
      BY <3>1, <3>2, <3>3 DEF WritesOver
  <2>2. {j \in DOMAIN reqs : reqs[j].op # "timeout" /\ Over(j)} = WritesOver
    BY <2>1
  <2>3. QED
    BY <2>2 DEF Completions
<1>2. /\ IsFiniteSet({1, 2, 3}) /\ Cardinality({1, 2, 3}) = 3
      /\ IsFiniteSet({1, 2, 3, 8, 9}) /\ Cardinality({1, 2, 3, 8, 9}) = 5
      /\ IsFiniteSet({1, 2, 3, 8, 9, 10}) /\ Cardinality({1, 2, 3, 8, 9, 10}) = 6
  <2>1. IsFiniteSet({}) /\ Cardinality({}) = 0
    BY FS_EmptySet
  <2>2. IsFiniteSet({1}) /\ Cardinality({1}) = 1
    BY <2>1, FS_Singleton
  <2>3. {1, 2} = {1} \cup {2} /\ 2 \notin {1}
    OBVIOUS
  <2>4. IsFiniteSet({1, 2}) /\ Cardinality({1, 2}) = 2
    BY <2>2, <2>3, FS_AddElement
  <2>5. {1, 2, 3} = {1, 2} \cup {3} /\ 3 \notin {1, 2}
    OBVIOUS
  <2>6. IsFiniteSet({1, 2, 3}) /\ Cardinality({1, 2, 3}) = 3
    BY <2>4, <2>5, FS_AddElement
  <2>7. {1, 2, 3, 8} = {1, 2, 3} \cup {8} /\ 8 \notin {1, 2, 3}
    OBVIOUS
  <2>8. IsFiniteSet({1, 2, 3, 8}) /\ Cardinality({1, 2, 3, 8}) = 4
    BY <2>6, <2>7, FS_AddElement
  <2>9. {1, 2, 3, 8, 9} = {1, 2, 3, 8} \cup {9} /\ 9 \notin {1, 2, 3, 8}
    OBVIOUS
  <2>10. IsFiniteSet({1, 2, 3, 8, 9}) /\ Cardinality({1, 2, 3, 8, 9}) = 5
    BY <2>8, <2>9, FS_AddElement
  <2>11. {1, 2, 3, 8, 9, 10} = {1, 2, 3, 8, 9} \cup {10} /\ 10 \notin {1, 2, 3, 8, 9}
    OBVIOUS
  <2>12. IsFiniteSet({1, 2, 3, 8, 9, 10}) /\ Cardinality({1, 2, 3, 8, 9, 10}) = 6
    BY <2>10, <2>11, FS_AddElement
  <2>13. QED
    BY <2>6, <2>10, <2>12
<1>3. IsFiniteSet(WritesOver) /\ Cardinality(WritesOver) \in Nat
  <2>1. PICK n \in Nat : n = 10
    OBVIOUS
  <2>2. IsFiniteSet(1 .. n)
    BY FS_Interval
  <2>3. WritesOver \subseteq 1 .. n
    BY <2>1 DEF WritesOver, Writes
  <2>4. QED
    BY <2>2, <2>3, FS_Subset, FS_CardinalityType
<1>4. ASSUME WritesOver \subseteq {1, 2, 3, 8, 9}
      PROVE  Cardinality(WritesOver) <= 5
  <2>1. Cardinality(WritesOver) <= Cardinality({1, 2, 3, 8, 9})
    BY <1>2, <1>4, FS_Subset
  <2>2. QED
    BY <1>2, <1>3, <2>1
<1>5. ASSUME {1, 2, 3, 8, 9, 10} \subseteq WritesOver
      PROVE  Cardinality(WritesOver) >= 6
  <2>1. Cardinality({1, 2, 3, 8, 9, 10}) <= Cardinality(WritesOver)
    BY <1>3, <1>5, FS_Subset
  <2>2. QED
    BY <1>2, <1>3, <2>1
<1>6. QED
  BY <1>1, <1>2, <1>4, <1>5

\* What may start has its predecessors behind it.
LEMMA StartFacts ==
  ASSUME RingInv, Data, Queue, Name = "link", Order, NEW i \in 1 .. Len(reqs), MayStart(i)
  PROVE  /\ St(i) = "queued"
         /\ i \in {2, 3, 6, 7, 9, 10} => St(i - 1) = "done"
         /\ i = 4 => St(1) = "done" /\ St(2) = "done" /\ St(3) = "done"
         /\ i = 5 => St(4) = "done" /\ Res(4) = "0"
         /\ i = 8 => Began(4)
<1>1. /\ i \in 1 .. 10 /\ Len(reqs) \in 0 .. 10
      /\ \A j \in 1 .. Len(reqs) :
           /\ reqs[j].st \in States
           /\ reqs[j].link <=> j \notin {3, 7, 10}
           /\ reqs[j].drain <=> j = 4
  BY LinkRequests
<1>2. \A j \in 1 .. i : j \in 1 .. Len(reqs) /\ St(j) = reqs[j].st /\ Res(j) = reqs[j].res
  <2>1. \A j \in 1 .. i : j \in 1 .. Len(reqs)
    BY <1>1
  <2>2. QED
    BY <2>1 DEF St, Res
<1>3. St(i) = "queued"
  BY <1>1, <1>2 DEF MayStart
<1>4. i \in {2, 3, 5, 6, 7, 9, 10} => St(i - 1) = "done" /\ Res(i - 1) = "0"
  <2>1. SUFFICES ASSUME i \in {2, 3, 5, 6, 7, 9, 10} PROVE St(i - 1) = "done" /\ Res(i - 1) = "0"
    OBVIOUS
  <2>2. i - 1 \in 1 .. i /\ i - 1 \notin {3, 7, 10} /\ i > 1
    BY <2>1
  <2>3. Chained(i)
    BY <1>1, <1>2, <2>2 DEF Chained
  <2>4. QED
    BY <1>2, <2>2, <2>3 DEF MayStart
<1>5. i = 4 => St(1) = "done" /\ St(2) = "done" /\ St(3) = "done"
  <2>1. SUFFICES ASSUME i = 4 PROVE St(1) = "done" /\ St(2) = "done" /\ St(3) = "done"
    OBVIOUS
  <2>2. Over(1) /\ Over(2) /\ Over(3)
    BY <1>1, <2>1 DEF MayStart
  <2>3. St(1) # "dropped" /\ St(2) # "dropped" /\ St(3) # "dropped"
    BY DEF Order
  <2>4. QED
    BY <1>2, <2>1, <2>2, <2>3 DEF Over
<1>6. i = 8 => Began(4)
  <2>1. SUFFICES ASSUME i = 8 PROVE Began(4)
    OBVIOUS
  <2>2. 4 \in 1 .. (i - 1) /\ 4 \in 1 .. i
    BY <2>1
  <2>3. Started(4)
    BY <1>1, <1>2, <2>2 DEF MayStart
  <2>4. St(4) # "dropped"
    BY DEF Order
  <2>5. QED
    BY <1>1, <1>2, <2>2, <2>3, <2>4 DEF Started, Began, States
<1>7. QED
  BY <1>3, <1>4, <1>5, <1>6

\* What a worker changes of the requests of test_io_link.
LEMMA LinkFrame ==
  ASSUME RingInv, Data, Queue, Name = "link", NEW i, i \in 1 .. Len(reqs), Changes(i)
  PROVE  /\ i \in 1 .. 10 /\ Len(reqs') = Len(reqs)
         /\ St(i) = reqs[i].st /\ (St(i))' = reqs'[i].st
         /\ Res(i) = reqs[i].res /\ (Res(i))' = reqs'[i].res
         /\ Base(i) = reqs[i].base /\ (Base(i))' = reqs'[i].base
         /\ \A j : j # i => (St(j))' = St(j) /\ (Res(j))' = Res(j) /\ (Base(j))' = Base(j)
<1>1. i \in 1 .. 10
  BY LinkRequests
<1>2. Len(reqs') = Len(reqs) /\ \A j \in 1 .. Len(reqs) : j # i => reqs'[j] = reqs[j]
  BY DEF Changes
<1>3. QED
  BY <1>1, <1>2 DEF St, Res, Base

LEMMA BeginLinks ==
  ASSUME RingInv, Data, Queue, Name = "link", Order, NEW i, i \in 1 .. Len(reqs),
         Changes(i), Begins(i)
  PROVE  Order'
<1>1. /\ i \in 1 .. 10
      /\ St(i) = "queued" /\ (St(i))' = "running" /\ (Res(i))' = Res(i)
      /\ (Base(i))' = Completions /\ file' = file
      /\ \A j : j # i => (St(j))' = St(j) /\ (Res(j))' = Res(j) /\ (Base(j))' = Base(j)
  BY LinkFrame DEF Begins
<1>2. /\ i \in {2, 3, 6, 7, 9, 10} => St(i - 1) = "done"
      /\ i = 4 => St(1) = "done" /\ St(2) = "done" /\ St(3) = "done"
      /\ i = 5 => St(4) = "done" /\ Res(4) = "0"
      /\ i = 8 => Began(4)
  BY StartFacts DEF Begins
<1>3. i = 4 => Completions = 3
  <2>1. SUFFICES ASSUME i = 4 PROVE WritesOver = {1, 2, 3}
    BY CountWrites
  <2>2. \A j \in {5, 6, 7} : St(j) \notin {"done", "dropped"}
    BY <1>1, <2>1 DEF Order, Began
  <2>3. St(8) \notin {"running", "done", "dropped"}
    BY <1>1, <2>1 DEF Order, Began
  <2>4. St(9) \notin {"running", "done", "dropped"}
    BY <2>3 DEF Order, Began, Prev, Writes
  <2>5. St(10) \notin {"running", "done", "dropped"}
    BY <2>4 DEF Order, Began, Prev, Writes
  <2>6. QED
    BY <1>2, <2>1, <2>2, <2>3, <2>4, <2>5 DEF WritesOver, Writes
<1>4. \A j : /\ (St(j))' = "done" <=> St(j) = "done"
             /\ (St(j))' = "dropped" <=> St(j) = "dropped"
             /\ (Res(j))' = Res(j)
  BY <1>1
<1>5. \A j : (Began(j))' <=> Began(j) \/ j = i
  BY <1>1 DEF Began
<1>6. ASSUME NEW j \in Writes \ {1}, (Began(j))'
      PROVE  (St(Prev(j)))' = "done"
  <2>1. CASE j = i
    <3>1. CASE j \in {2, 3, 6, 7, 9, 10}
      <4>1. Prev(j) = j - 1
        BY <3>1 DEF Prev
      <4>2. QED
        BY <1>2, <1>4, <2>1, <3>1, <4>1
    <3>2. CASE j = 5
      <4>1. St(10) = "done" /\ Prev(j) = 10
        BY <1>2, <2>1, <3>2 DEF Order, Prev
      <4>2. QED
        BY <1>4, <4>1
    <3>3. CASE j = 8
      <4>1. St(3) = "done" /\ Prev(j) = 3
        BY <1>2, <2>1, <3>3 DEF Order, Prev
      <4>2. QED
        BY <1>4, <4>1
    <3>4. QED
      BY <3>1, <3>2, <3>3 DEF Writes
  <2>2. CASE j # i
    <3>1. Began(j)
      BY <1>5, <1>6, <2>2
    <3>2. St(Prev(j)) = "done"
      BY <1>6, <3>1 DEF Order
    <3>3. QED
      BY <1>4, <3>2
  <2>3. QED
    BY <2>1, <2>2
<1>7. ASSUME (Began(4))'
      PROVE  (St(3))' = "done" /\ (Base(4))' = 3
  <2>1. CASE i = 4
    BY <1>1, <1>2, <1>3, <1>4, <2>1
  <2>2. CASE i # 4
    BY <1>1, <1>4, <1>5, <1>7, <2>2 DEF Order
  <2>3. QED
    BY <2>1, <2>2
<1>8. ASSUME (Began(8))'
      PROVE  (Began(4))'
  BY <1>2, <1>5, <1>8 DEF Order
<1>9. ASSUME NEW j \in {5, 6, 7}, (Began(j))'
      PROVE  (St(4))' = "done" /\ (Res(4))' = "0"
  <2>1. Began(j) => St(4) = "done" /\ Res(4) = "0"
    BY DEF Order
  <2>2. j = i => St(4) = "done" /\ Res(4) = "0"
    <3>1. CASE j = 5
      BY <1>2, <3>1
    <3>2. CASE j \in {6, 7}
      <4>1. j = i => Began(j - 1) /\ j - 1 \in {5, 6}
        BY <1>2, <3>2 DEF Began
      <4>2. QED
        BY <4>1 DEF Order
    <3>3. QED
      BY <3>1, <3>2
  <2>3. QED
    BY <1>4, <1>5, <1>9, <2>1, <2>2
<1>10. QED
  BY <1>1, <1>4, <1>6, <1>7, <1>8, <1>9 DEF Order

LEMMA CompleteLinks ==
  ASSUME RingInv, Data, Queue, Name = "link", Order, NEW i, i \in 1 .. Len(reqs),
         Changes(i), Completes(i)
  PROVE  Order'
<1>1. /\ i \in 1 .. 10
      /\ St(i) = "running" /\ (St(i))' = "done" /\ (Base(i))' = Base(i)
      /\ \A j : j # i => (St(j))' = St(j) /\ (Res(j))' = Res(j) /\ (Base(j))' = Base(j)
  BY LinkFrame DEF Completes
<1>2. /\ i # 4 => (Res(i))' = "0" /\ file' = Append(file, Pos(i))
      /\ i = 4 => /\ (Res(4))' \in {"0", "ETIME"} /\ file' = file
                  /\ (Res(4))' = "0" => Completions - Base(4) >= 3
  BY LinkFrame, LinkRequests DEF Completes
<1>3. \A j : /\ (St(j))' = "done" <=> St(j) = "done" \/ j = i
             /\ (St(j))' = "dropped" <=> St(j) = "dropped"
             /\ (Began(j))' <=> Began(j)
             /\ (Base(j))' = Base(j)
  BY <1>1 DEF Began
<1>4. file \in Seq(Nat) /\ Len(file) \in Nat
  BY DEF Data
<1>5. Began(i) /\ St(i) # "done"
  BY <1>1 DEF Began
<1>6. CASE i = 4
  <2>1. \A j \in {5, 6, 7} : St(j) \notin {"running", "done", "dropped"}
    BY <1>5, <1>6 DEF Order, Began
  <2>2. (Res(4))' = "0" => St(10) = "done"
    <3>1. SUFFICES ASSUME (Res(4))' = "0", St(10) # "done" PROVE FALSE
      OBVIOUS
    <3>2. Completions - 3 >= 3
      BY <1>2, <1>5, <1>6, <3>1 DEF Order
    <3>3. WritesOver \subseteq {1, 2, 3, 8, 9}
      <4>1. St(10) \notin {"done", "dropped"}
        BY <3>1 DEF Order
      <4>2. QED
        BY <2>1, <4>1 DEF WritesOver, Writes
    <3>4. Completions <= 5 /\ Completions \in Nat
      BY <3>3, CountWrites, CompletionsType DEF Data
    <3>5. QED
      BY <3>2, <3>4
  <2>3. \A j \in Writes : (St(j))' = St(j) /\ (Res(j))' = Res(j)
    BY <1>1, <1>6 DEF Writes
  <2>4. (St(4))' = "done" /\ (St(10))' = St(10) /\ (St(3))' = St(3) /\ file' = file
    BY <1>1, <1>2, <1>6
  <2>5. \A j \in Writes \ {1} : Prev(j) \in Writes
    BY DEF Writes, Prev
  <2>6. \A j \in Writes \ {1} : (Began(j))' => (St(Prev(j)))' = "done"
    BY <1>3, <2>3, <2>5 DEF Order
  <2>7. \A j \in {5, 6, 7} : ~(Began(j))' /\ (St(j))' # "dropped"
    BY <1>1, <1>3, <1>6, <2>1 DEF Began
  <2>8. \A j \in {1, 2, 3, 4, 8, 9, 10} : (St(j))' # "dropped"
    BY <1>3 DEF Order
  <2>9. QED
    BY <1>2, <1>3, <1>6, <2>2, <2>3, <2>4, <2>6, <2>7, <2>8 DEF Order
<1>7. CASE i # 4
  <2>1. i \in Writes
    BY <1>1, <1>7 DEF Writes
  <2>2. Pos(i) = Len(file) + 1 /\ Pos(i) \in 1 .. 9
    <3>1. ~(Pos(i) <= Len(file))
      BY <1>5, <2>1 DEF Order
    <3>2. i # 1 => St(Prev(i)) = "done"
      BY <1>5, <2>1 DEF Order
    <3>3. i # 1 => Prev(i) \in Writes /\ Pos(Prev(i)) = Pos(i) - 1
      BY <2>1 DEF Writes, Prev, Pos
    <3>4. i # 1 => Pos(i) - 1 <= Len(file)
      <4>1. SUFFICES ASSUME i # 1 PROVE Pos(i) - 1 <= Len(file)
        OBVIOUS
      <4>2. Pos(Prev(i)) <= Len(file)
        BY <3>2, <3>3, <4>1 DEF Order
      <4>3. QED
        BY <3>3, <4>1, <4>2
    <3>5. Pos(i) \in 1 .. 9 /\ (i = 1 => Pos(i) = 1)
      BY <2>1 DEF Writes, Pos
    <3>6. QED
      BY <1>4, <3>1, <3>4, <3>5
  <2>3. /\ Len(file') = Len(file) + 1 /\ file'[Len(file) + 1] = Pos(i)
        /\ \A c \in 1 .. Len(file) : file'[c] = file[c]
    <3>1. file' = Append(file, Pos(i)) /\ Pos(i) \in Nat
      BY <1>2, <1>7, <2>2
    <3>2. QED
      BY <1>4, <3>1, OneMore
  <2>4. Len(file') <= 9 /\ \A c \in 1 .. Len(file') : file'[c] = c
    <3>1. \A c \in 1 .. Len(file') : c \in 1 .. Len(file) \/ c = Len(file) + 1
      BY <1>4, <2>3
    <3>2. \A c \in 1 .. Len(file) : file[c] = c
      BY DEF Order
    <3>3. Len(file') <= 9
      <4>1. Len(file) + 1 \in 1 .. 9
        BY <2>2
      <4>2. Len(file') = Len(file) + 1
        BY <2>3
      <4>3. QED
        BY <4>1, <4>2
    <3>4. QED
      BY <2>2, <2>3, <3>1, <3>2, <3>3
  <2>5. \A j \in Writes : (St(j))' = "done" <=> Pos(j) <= Len(file')
    <3>1. ASSUME NEW j \in Writes
          PROVE  (St(j))' = "done" <=> Pos(j) <= Len(file')
      <4>1. St(j) = "done" <=> Pos(j) <= Len(file)
        BY DEF Order
      <4>2. Pos(j) = Pos(i) <=> j = i
        BY <2>1 DEF Writes, Pos
      <4>3. Pos(j) \in Nat
        BY DEF Writes, Pos
      <4>4. Pos(j) <= Len(file') <=> Pos(j) <= Len(file) \/ Pos(j) = Pos(i)
        BY <1>4, <2>2, <2>3, <4>3
      <4>5. QED
        BY <1>3, <4>1, <4>2, <4>4
    <3>2. QED
      BY <3>1
  <2>6. \A j \in Writes : (Res(j))' # "ETIME" /\ ((St(j))' = "done" => (Res(j))' = "0")
    <3>1. ASSUME NEW j \in Writes
          PROVE  (Res(j))' # "ETIME" /\ ((St(j))' = "done" => (Res(j))' = "0")
      BY <1>1, <1>2, <1>7 DEF Order
    <3>2. QED
      BY <3>1
  <2>7. (St(4))' = St(4) /\ (Res(4))' = Res(4)
    BY <1>1, <1>7
  <2>8. \A j \in Writes \ {1} : (Began(j))' => (St(Prev(j)))' = "done"
    BY <1>3 DEF Order
  <2>9. \A j \in {5, 6, 7} : /\ (Began(j))' => (St(4))' = "done" /\ (Res(4))' = "0"
                             /\ (St(j))' = "dropped" => (St(4))' = "done" /\ (Res(4))' = "ETIME"
    BY <1>3, <2>7 DEF Order
  <2>10. QED
    BY <1>3, <2>4, <2>5, <2>6, <2>7, <2>8, <2>9 DEF Order
<1>8. QED
  BY <1>6, <1>7

LEMMA DropLinks ==
  ASSUME RingInv, Data, Queue, Name = "link", Order, NEW i, i \in 1 .. Len(reqs),
         Changes(i), Drops(i)
  PROVE  Order' /\ St(4) = "done" /\ Res(4) = "ETIME" /\ i # 4
<1>1. /\ i \in 1 .. 10 /\ St(i) = "queued" /\ (St(i))' = "dropped" /\ file' = file
      /\ \A j : j # i => (St(j))' = St(j) /\ (Res(j))' = Res(j) /\ (Base(j))' = Base(j)
      /\ Chained(i)
  BY LinkFrame DEF Drops
<1>2. /\ i - 1 \in 1 .. Len(reqs) /\ i - 1 \notin {3, 7, 10} /\ i - 1 \in 1 .. 9
      /\ St(i - 1) = "dropped" \/ Res(i - 1) = "ETIME"
  <2>1. i > 1 /\ reqs[i - 1].link /\ (reqs[i - 1].st = "dropped" \/ reqs[i - 1].res = "ETIME")
    BY DEF Drops, Chained
  <2>2. i - 1 \in 1 .. Len(reqs) /\ i - 1 \in 1 .. 9
    BY <1>1, <2>1, LinkRequests
  <2>3. i - 1 \notin {3, 7, 10}
    BY <2>1, <2>2, LinkRequests
  <2>4. QED
    BY <2>1, <2>2, <2>3 DEF St, Res
<1>3. i \in {5, 6, 7} /\ St(4) = "done" /\ Res(4) = "ETIME"
  <2>1. CASE i - 1 \in {1, 2, 8, 9}
    BY <1>2, <2>1 DEF Order, Writes
  <2>2. CASE i - 1 = 4
    <3>1. Res(4) = "ETIME" /\ i = 5
      BY <1>1, <1>2, <2>2 DEF Order
    <3>2. QED
      BY <3>1 DEF Order
  <2>3. CASE i - 1 \in {5, 6}
    <3>1. St(i - 1) = "dropped" /\ i \in {6, 7}
      BY <1>1, <1>2, <2>3 DEF Order, Writes
    <3>2. QED
      BY <2>3, <3>1 DEF Order
  <2>4. QED
    BY <1>2, <2>1, <2>2, <2>3
<1>4. \A j : /\ (St(j))' = "done" <=> St(j) = "done"
             /\ (St(j))' = "dropped" <=> St(j) = "dropped" \/ j = i
             /\ (Began(j))' <=> Began(j)
  BY <1>1 DEF Began
<1>5. (Res(i))' = "ECANCELED"
  BY LinkFrame DEF Drops
<1>6. \A j \in Writes : (Res(j))' # "ETIME" /\ ((St(j))' = "done" => (Res(j))' = "0")
  BY <1>1, <1>4, <1>5 DEF Order
<1>7. (St(4))' = "done" /\ (Res(4))' = "ETIME" /\ (Base(4))' = Base(4)
  BY <1>1, <1>3
<1>8. \A j \in {5, 6, 7} : ~(Began(j))'
  BY <1>3, <1>4 DEF Order
<1>9. \A j \in {1, 2, 3, 4, 8, 9, 10} : (St(j))' # "dropped"
  BY <1>3, <1>4 DEF Order
<1>10. Order'
  BY <1>1, <1>4, <1>6, <1>7, <1>8, <1>9 DEF Order
<1>11. QED
  BY <1>3, <1>10

\* While nothing is late and no call failed, the timeout does not run out: when
\* all ten requests are taken and it has not seen its three completions, one of
\* the writes 8 to 10 is running or may start.
LEMMA NoTimeout ==
  ASSUME RingInv, Data, Queue, Name = "link", Order, Calm, ~late, pc \in {"enter", "reap"},
         4 \in 1 .. Len(reqs), Changes(4), Completes(4)
  PROVE  reqs'[4].res = "0"
<1>1. SUFFICES ASSUME reqs'[4].res # "0" PROVE FALSE
  OBVIOUS
<1>2. /\ reqs[4].st = "running" /\ reqs[4].op = "timeout" /\ reqs[4].arg = 3
      /\ St(4) = "running" /\ Base(4) = reqs[4].base
  BY LinkRequests DEF Completes, St, Base
<1>3. /\ Completions - reqs[4].base < 3
      /\ left = 0 /\ \A j \in Pending \ {4} : reqs[j].st = "queued" /\ ~MayStart(j)
  BY <1>1, <1>2 DEF Completes
<1>4. Completions < 6 /\ St(3) = "done"
  <2>1. St(3) = "done" /\ Base(4) = 3
    BY <1>2 DEF Order, Began
  <2>2. Completions \in Nat
    BY CompletionsType DEF Data
  <2>3. QED
    BY <1>2, <1>3, <2>1, <2>2
<1>5. Len(reqs) = 10
  <2>1. CASE pc = "reap"
    BY <2>1 DEF Calm
  <2>2. CASE pc = "enter"
    BY <1>3, <2>2 DEF Calm, Data, RingInv, Numbers
  <2>3. QED
    BY <2>1, <2>2
<1>6. \A j \in 1 .. 10 : St(j) = reqs[j].st /\ Res(j) = reqs[j].res /\ reqs[j].st \in States
  BY <1>5, LinkRequests DEF St, Res
<1>7. ASSUME NEW j \in {8, 9, 10}, St(j) # "done"
      PROVE  St(j) = "queued" /\ ~MayStart(j)
  <2>1. j \in 1 .. 10 /\ St(j) # "dropped"
    BY DEF Order
  <2>2. St(j) \in {"queued", "running"}
    BY <1>6, <1>7, <2>1 DEF States
  <2>3. j \in Pending \ {4}
    BY <1>5, <1>6, <2>1, <2>2, LinkRequests DEF Pending
  <2>4. QED
    BY <1>3, <1>6, <2>1, <2>3
<1>8. ASSUME NEW j \in {8, 9, 10}, St(j) = "queued", j = 8 \/ St(j - 1) = "done"
      PROVE  MayStart(j)
  <2>1. j \in 1 .. 10
    OBVIOUS
  <2>2. reqs[j].st = "queued" /\ ~reqs[j].drain
    BY <1>5, <1>6, <1>8, <2>1, LinkRequests
  <2>3. Chained(j) => reqs[j - 1].st = "done" /\ reqs[j - 1].res = "0"
    <3>1. CASE j = 8
      BY <1>5, <3>1, LinkRequests DEF Chained
    <3>2. CASE j \in {9, 10}
      <4>1. j - 1 \in 1 .. 10 /\ j - 1 \in Writes /\ St(j - 1) = "done"
        BY <1>8, <3>2 DEF Writes
      <4>2. Res(j - 1) = "0"
        BY <4>1 DEF Order
      <4>3. QED
        BY <1>6, <4>1, <4>2
    <3>3. QED
      BY <3>1, <3>2
  <2>4. \A k \in 1 .. (j - 1) : reqs[k].drain => Started(k)
    <3>1. ASSUME NEW k \in 1 .. (j - 1), reqs[k].drain PROVE Started(k)
      <4>1. k \in 1 .. Len(reqs)
        BY <1>5
      <4>2. k = 4
        BY <3>1, <4>1, LinkRequests
      <4>3. QED
        BY <1>2, <4>2 DEF Started
    <3>2. QED
      BY <3>1
  <2>5. QED
    BY <2>2, <2>3, <2>4 DEF MayStart
<1>9. St(8) = "done"
  BY <1>7, <1>8
<1>10. St(9) = "done"
  <2>1. SUFFICES ASSUME St(9) # "done" PROVE FALSE
    OBVIOUS
  <2>2. St(9) = "queued" /\ ~MayStart(9)
    BY <1>7, <2>1
  <2>3. St(9 - 1) = "done"
    BY <1>9
  <2>4. QED
    BY <1>8, <2>2, <2>3
<1>11. St(10) = "done"
  <2>1. SUFFICES ASSUME St(10) # "done" PROVE FALSE
    OBVIOUS
  <2>2. St(10) = "queued" /\ ~MayStart(10)
    BY <1>7, <2>1
  <2>3. St(10 - 1) = "done"
    BY <1>10
  <2>4. QED
    BY <1>8, <2>2, <2>3
<1>12. St(2) = "done"
  BY <1>4 DEF Order, Began, Writes, Prev
<1>13. St(1) = "done"
  BY <1>12 DEF Order, Began, Writes, Prev
<1>14. {1, 2, 3, 8, 9, 10} \subseteq WritesOver
  BY <1>4, <1>9, <1>10, <1>11, <1>12, <1>13 DEF WritesOver, Writes
<1>15. Completions >= 6 /\ Completions \in Nat
  BY <1>14, CountWrites, CompletionsType DEF Data
<1>16. QED
  BY <1>4, <1>15

\* No other test prepares a write.
LEMMA PlainBatch ==
  ASSUME RingInv, pc = "prepare", NEW i \in 1 .. Len(batch(count + 1))
  PROVE  Plain(batch(count + 1)[i])
<1>1. SUFFICES ASSUME Name # "link" PROVE batch(count + 1)[i].op # "write"
  BY DEF Plain
<1>2. Name \in {"cancel", "overflow", "eventfd"} /\ count + 1 \in Nat
  BY <1>1 DEF RingInv, Numbers, Progress
<1>3. CASE Name = "overflow"
  <2>1. batch(count + 1) = <<prep_read(count + 1)>> /\ Len(batch(count + 1)) = 1
    BY <1>2, <1>3, BatchLength DEF batch
  <2>2. i = 1
    BY <2>1
  <2>3. batch(count + 1)[i] = prep_read(count + 1)
    BY <2>1, <2>2
  <2>4. QED
    BY <2>3 DEF prep_read, E
<1>4. CASE Name \in {"cancel", "eventfd"}
  <2>1. batch(count + 1)[i] = Entry(tail + i)
    BY <1>4, BatchEntries
  <2>2. QED
    BY <1>4, <2>1 DEF Entry, prep_read, prep_cancel, E
<1>5. QED
  BY <1>2, <1>3, <1>4

LEMMA ReadsStep ==
  ASSUME RingInv, Data, Queue, Reads, [Next]_vars
  PROVE  Reads'
<1>1. ASSUME test' = test PROVE \A e : (Plain(e))' <=> Plain(e)
  <2>1. Name' = Name
    BY <1>1, SameTest
  <2>2. QED
    BY <2>1 DEF Plain
<1>2. CASE Setup \/ EventfdFails
  <2>1. /\ test' = test /\ sqes' = [s \in 0 .. (RingSize - 1) |-> prep_read(0)] /\ size' = RingSize
        /\ reqs' = reqs
    BY <1>2 DEF Setup, EventfdFails, SetUp
  <2>2. \A s \in 0 .. (size' - 1) : sqes'[s].op = "read"
    BY <2>1 DEF prep_read, E
  <2>3. \A s \in 0 .. (size' - 1) : (Plain(sqes[s]))'
    BY <2>2 DEF Plain
  <2>4. QED
    BY <1>1, <2>1, <2>3 DEF Reads, Plain
<1>3. CASE Prepare
  <2>1. test' = test /\ size' = size /\ reqs' = reqs /\ pc = "prepare"
    BY <1>3 DEF Prepare
  <2>2. \A s \in 0 .. (size - 1) :
          sqes'[s] = sqes[s] \/ \E i \in 1 .. Len(batch(count + 1)) : sqes'[s] = batch(count + 1)[i]
    BY <1>3, PrepareSlots
  <2>3. \A s \in 0 .. (size - 1) : Plain(sqes'[s])
    BY <2>1, <2>2, PlainBatch DEF Reads
  <2>4. QED
    BY <2>1, <2>3, SameTest DEF Reads, Plain
<1>4. CASE Take
  <2>1. PICK e : e = sqes[head % size]
    OBVIOUS
  <2>2. /\ UNCHANGED <<test, pc, size, sqes>> /\ head % size \in 0 .. (size - 1) /\ pc = "enter"
    <3>1. /\ UNCHANGED <<test, pc, size, sqes>> /\ pc = "enter"
      BY <1>4 DEF Take
    <3>2. size > 0 /\ size \in Nat /\ head \in Nat
      BY <3>1, UringAssumption DEF RingInv, Numbers, Progress, RingSize
    <3>3. QED
      BY <3>1, <3>2
  <2>3. Plain(e)
    BY <2>1, <2>2 DEF Reads
  <2>4. Takes(e, head + 1) /\ head \in Nat /\ Len(reqs) = head
    BY <1>4, <2>1, TakeSteps DEF RingInv, Numbers, Data
  <2>5. \A j \in 1 .. Len(reqs) : reqs'[j].op = reqs[j].op
    BY <2>4 DEF Takes, IsEntry
  <2>6. reqs'[head + 1].op = e.op /\ Len(reqs') = head + 1
    BY <2>4 DEF Takes, IsEntry
  <2>7. \A j \in 1 .. (head + 1) : j \in 1 .. Len(reqs) \/ j = head + 1
    BY <2>4
  <2>8. \A j \in 1 .. Len(reqs') : Plain(reqs'[j])
    BY <2>3, <2>5, <2>6, <2>7 DEF Reads, Plain
  <2>9. QED
    BY <2>2, <2>8, SameTest DEF Reads, Plain
<1>5. CASE Worker
  <2>1. PICK i \in DOMAIN reqs : Work(i)
    BY <1>5 DEF Worker
  <2>2. Changes(i) /\ UNCHANGED <<test, pc, size, sqes>>
    BY <2>1, WorkerSteps
  <2>3. Len(reqs') = Len(reqs) /\ \A j \in 1 .. Len(reqs) : reqs'[j].op = reqs[j].op
    BY <2>2 DEF Changes, IsEntry
  <2>4. QED
    BY <2>2, <2>3, SameTest DEF Reads, Plain
<1>6. CASE reqs' = <<>> /\ pc' = "setup"
  BY <1>6 DEF Reads
<1>7. CASE /\ UNCHANGED <<reqs, test, size, sqes>>
           /\ pc' \in {pc, "crashed"} \/ (pc = "enter" /\ pc' \in {"prepare", "reap"})
  BY <1>7, SameTest DEF Reads, Plain
<1>8. CASE EnterReturns \/ ReadEvents \/ UNCHANGED vars
  BY <1>7, <1>8 DEF EnterReturns, ReadEvents, vars, ring
<1>9. CASE SetupFails \/ NextRing \/ Close \/ CloseFails \/ EnterShort \/ CmpFails \/ ReapCancel
           \/ ReapLink \/ FinishFails \/ EndOverflow \/ EndEvents \/ ReadFails \/ StrayCrash
  BY <1>6, <1>7, <1>9 DEF SetupFails, NextRing, Close, CloseFails, EnterShort, CmpFails, ReapCancel,
     ReapLink, FinishFails, EndOverflow, EndEvents, ReadFails, StrayCrash, Ends, Crashes, ring
<1>10. QED
  BY <1>2, <1>3, <1>4, <1>5, <1>8, <1>9 DEF Next, Program, Failure

LEMMA WorkerLinks ==
  ASSUME RingInv, Data, Queue, Reads, Links, NEW i \in DOMAIN reqs, Work(i)
  PROVE  Links'
<1>1. /\ i \in 1 .. Len(reqs) /\ Changes(i) /\ Len(reqs') = Len(reqs)
      /\ UNCHANGED <<late, test, pc, head, tail, left, broken>>
      /\ Begins(i) \/ Completes(i) \/ Drops(i)
  BY WorkerSteps DEF Changes
<1>2. Name' = Name
  BY <1>1, SameTest
<1>3. CASE Name # "link"
  <2>1. reqs[i].op # "write"
    BY <1>1, <1>3 DEF Reads, Plain
  <2>2. file' = file
    BY <1>1, <2>1 DEF Begins, Completes, Drops
  <2>3. QED
    BY <1>2, <1>3, <2>2 DEF Links
<1>4. CASE Name = "link"
  <2>1. Order /\ pc \in {"enter", "reap"}
    <3>1. Len(reqs) # 0
      BY <1>1
    <3>2. QED
      BY <1>4, <3>1 DEF Links
  <2>2. Order'
    BY <1>1, <1>4, <2>1, BeginLinks, CompleteLinks, DropLinks
  <2>3. ASSUME ~late, test \notin broken PROVE Calm'
    <3>1. Calm
      BY <1>4, <2>3 DEF Links
    <3>2. /\ (St(i))' = reqs'[i].st /\ (Res(i))' = reqs'[i].res
          /\ i # 4 => (St(4))' = St(4) /\ (Res(4))' = Res(4)
      BY <1>1, <1>4, LinkFrame
    <3>3. (St(4))' = "done" => (Res(4))' = "0"
      <4>1. CASE i # 4
        BY <3>1, <3>2, <4>1 DEF Calm
      <4>2. CASE i = 4 /\ Begins(4)
        BY <3>2, <4>2 DEF Begins
      <4>3. CASE i = 4 /\ Completes(4)
        BY <1>1, <1>4, <2>1, <2>3, <3>1, <3>2, <4>3, NoTimeout
      <4>4. CASE i = 4 /\ Drops(4)
        BY <3>2, <4>4 DEF Drops
      <4>5. QED
        BY <1>1, <4>1, <4>2, <4>3, <4>4
    <3>4. QED
      BY <1>1, <3>1, <3>3 DEF Calm
  <2>4. QED
    BY <1>1, <1>2, <1>4, <2>1, <2>2, <2>3 DEF Links
<1>5. QED
  BY <1>3, <1>4

\* What the kernel takes is queued behind the others.
LEMMA TakeLinks ==
  ASSUME RingInv, Data, Queue, Links, Take
  PROVE  Links'
<1>1. /\ UNCHANGED <<late, test, pc, tail, file, broken>> /\ pc = "enter"
      /\ head' = head + 1 /\ left' = left - 1 /\ left > 0
  BY DEF Take
<1>2. Name' = Name
  BY <1>1, SameTest
<1>3. CASE Name # "link"
  BY <1>1, <1>2, <1>3 DEF Links
<1>4. CASE Name = "link"
  <2>1. PICK e : e = sqes[head % size]
    OBVIOUS
  <2>2. /\ e = Entry(head + 1) /\ Takes(e, head + 1) /\ Len(reqs) = head /\ head \in Nat
        /\ left \in Nat
    BY <1>4, <2>1, TakeSteps DEF Data, RingInv, Numbers
  <2>3. head + 1 \in 1 .. 10
    <3>1. head < tail /\ tail \in Nat
      BY DEF Take, RingInv, Numbers
    <3>2. tail <= 10
      BY <1>4 DEF Queue, RingSize
    <3>3. QED
      BY <2>2, <3>1, <3>2
  <2>4. e.op # "cancel"
    <3>1. e = link_sqes[head + 1]
      BY <1>4, <2>2 DEF Entry
    <3>2. QED
      BY <2>3, <3>1, LinkFields
  <2>5. PICK n \in Nat : n = head + 1
    BY <2>2
  <2>6. /\ Len(reqs') = n /\ reqs'[n].st = "queued" /\ reqs'[n].res = ""
        /\ \A j \in 1 .. head : reqs'[j] = reqs[j]
    BY <2>2, <2>4, <2>5 DEF Takes, Gone
  <2>7. /\ \A j : j # n => (St(j))' = St(j) /\ (Res(j))' = Res(j) /\ (Base(j))' = Base(j)
        /\ (St(n))' = "queued" /\ (Res(n))' = "" /\ St(n) = "none" /\ Res(n) = ""
    <3>1. /\ n \in 1 .. n /\ n \notin 1 .. head
          /\ \A j : j # n => (j \in 1 .. head <=> j \in 1 .. n)
      BY <2>2, <2>5
    <3>2. QED
      BY <2>2, <2>6, <3>1 DEF St, Res, Base
  <2>8. \A j : /\ (St(j))' = "done" <=> St(j) = "done"
               /\ (St(j))' = "dropped" <=> St(j) = "dropped"
               /\ (Began(j))' <=> Began(j)
               /\ (Res(j))' = Res(j)
               /\ Began(j) => (Base(j))' = Base(j)
    BY <2>7 DEF Began
  <2>9. Order
    BY <1>4 DEF Links
  <2>10. Order'
    BY <1>1, <2>8, <2>9 DEF Order
  <2>11. ASSUME ~late, test \notin broken PROVE Calm'
    <3>1. Calm
      BY <1>4, <2>11 DEF Links
    <3>2. (head + 1) + (left - 1) = head + left
      BY <2>2
    <3>3. QED
      BY <1>1, <2>8, <3>1, <3>2 DEF Calm
  <2>12. QED
    BY <1>1, <1>2, <1>4, <2>10, <2>11 DEF Links
<1>5. QED
  BY <1>3, <1>4

\* Before the first request there is nothing to order.
LEMMA EmptyLinks ==
  ASSUME reqs' = <<>>, file' = <<>>, pc' = "setup"
  PROVE  Links'
<1>1. Len(reqs') = 0 /\ Len(file') = 0
  OBVIOUS
<1>2. \A i : (St(i))' = "none" /\ (Res(i))' = ""
  <2>1. 1 .. Len(reqs') = {}
    BY <1>1
  <2>2. QED
    BY <2>1 DEF St, Res
<1>3. \A i : ~(Began(i))'
  BY <1>2 DEF Began
<1>4. \A i \in Writes : ~(Pos(i) <= Len(file'))
  BY <1>1 DEF Writes, Pos
<1>5. Order'
  <2>1. Len(file') <= 9 /\ \A c \in 1 .. Len(file') : file'[c] = c
    BY <1>1
  <2>2. QED
    BY <1>2, <1>3, <1>4, <2>1 DEF Order
<1>6. Calm'
  BY <1>2 DEF Calm
<1>7. QED
  BY <1>1, <1>5, <1>6 DEF Links

\* A step of main that leaves the requests alone.
LEMMA MainLinks ==
  ASSUME RingInv, Data, Queue, Links, [Next]_vars, UNCHANGED <<reqs, test, file, late>>
  PROVE  Links'
<1>1. Name' = Name /\ test \in Nat
  BY SameTest DEF RingInv, Numbers
<1>2. \A v : ~Ends(v)
  BY <1>1 DEF Ends
<1>3. CASE Name # "link"
  BY <1>1, <1>3 DEF Links
<1>4. CASE Name = "link"
  <2> DEFINE There == pc' \in {"enter", "reap"} \/ Len(reqs) = 0
  <2> DEFINE Ready == /\ pc' = "enter" => tail' = 10 /\ head' + left' = tail'
                      /\ pc' = "reap" => Len(reqs) = 10
  <2>1. Order /\ (pc \notin {"enter", "reap"} => Len(reqs) = 0)
    BY <1>4 DEF Links
  <2>2. Len(reqs) = head /\ head \in Nat /\ left \in Nat /\ tail \in Nat
    BY DEF Data, RingInv, Numbers
  <2>3. /\ broken \subseteq broken' /\ There
        /\ ~late /\ test \notin broken' => Ready
    <3>1. ASSUME ~late, test \notin broken
          PROVE  /\ pc = "enter" => tail = 10 /\ head + left = tail
                 /\ pc = "reap" => Len(reqs) = 10
      BY <1>4, <3>1 DEF Links, Calm
    <3>2. CASE Setup
      <4>1. pc = "setup" /\ pc' = "prepare" /\ broken' = broken
        BY <1>4, <3>2 DEF Setup, SetUp
      <4>2. QED
        BY <2>1, <4>1
    <3>3. CASE SetupFails \/ StrayCrash
      <4>1. pc = "setup" /\ pc' = "crashed" /\ broken \subseteq broken'
        BY <1>2, <3>3 DEF SetupFails, StrayCrash, Breaks, Crashes
      <4>2. QED
        BY <2>1, <4>1
    <3>4. CASE Prepare
      <4>1. Len(batch(count + 1)) = 10 /\ tail = 0
        BY <1>4, <3>4, BatchLength DEF Prepare, RingInv, Numbers, Progress
      <4>2. /\ pc = "prepare" /\ pc' = "enter" /\ tail' = 10 /\ left' = 10 /\ head' = head
            /\ broken' = broken
        BY <3>4, <4>1 DEF Prepare
      <4>3. QED
        BY <2>1, <2>2, <4>2
    <3>5. CASE EnterReturns
      <4>1. pc = "enter" /\ left = 0 /\ pc' = "reap" /\ broken' = broken
        BY <1>4, <3>5 DEF EnterReturns, RingInv, Progress, Steps
      <4>2. QED
        BY <2>2, <3>1, <4>1
    <3>6. CASE EnterShort
      <4>1. pc = "enter" /\ pc' = "enter" /\ broken' = broken \cup {test}
        BY <1>2, <1>4, <3>6 DEF EnterShort, Breaks
      <4>2. QED
        BY <4>1
    <3>7. CASE NextRing \/ Close \/ CloseFails
      BY <1>4, <3>7 DEF NextRing, Close, CloseFails, AllOpen, RingInv, Numbers
    <3>8. CASE ReapCancel \/ ReadEvents \/ EndOverflow \/ EndEvents \/ ReadFails \/ EventfdFails \/ CmpFails
      BY <1>4, <3>8 DEF ReapCancel, ReadEvents, EndOverflow, EndEvents, ReadFails, EventfdFails, CmpFails
    <3>9. CASE ReapLink \/ FinishFails
      BY <1>2, <3>9 DEF ReapLink, FinishFails
    <3>10. CASE Take
      <4>1. head' = head + 1
        BY <3>10 DEF Take
      <4>2. head' = head
        BY <2>2, <3>10, TakeData DEF Data
      <4>3. QED
        BY <2>2, <4>1, <4>2
    <3>11. CASE UNCHANGED <<pc, head, tail, left, broken>>
      BY <2>1, <3>1, <3>11
    <3>12. CASE Worker
      BY <3>11, <3>12, WorkerSteps DEF Worker
    <3>13. CASE UNCHANGED vars
      BY <3>11, <3>13 DEF vars
    <3>14. QED
      BY <3>2, <3>3, <3>4, <3>5, <3>6, <3>7, <3>8, <3>9, <3>10, <3>12, <3>13 DEF Next, Program, Failure
  <2>4. \A i : (St(i))' = St(i) /\ (Res(i))' = Res(i) /\ (Base(i))' = Base(i)
               /\ ((Began(i))' <=> Began(i))
    BY DEF St, Res, Base, Began
  <2>5. Order'
    BY <2>1, <2>4 DEF Order
  <2>6. ASSUME ~late, test \notin broken' PROVE Calm'
    <3>1. Calm
      BY <1>4, <2>3, <2>6 DEF Links
    <3>2. QED
      BY <2>3, <2>4, <2>6, <3>1 DEF Calm
  <2>7. QED
    BY <1>1, <1>4, <2>3, <2>5, <2>6 DEF Links
<1>5. QED
  BY <1>3, <1>4

LEMMA LinksStep ==
  ASSUME RingInv, Data, Queue, Reads, Links, [Next]_vars
  PROVE  Links'
BY FourWays, EmptyLinks, MainLinks, TakeLinks, WorkerLinks DEF Worker

\* A write of test_io_link can be missing only when something was late or failed.
LEMMA AllWritten ==
  ASSUME RingInv, Data, Queue, Links, ReapLink, ~late, test \notin broken
  PROVE  file = [i \in 1 .. 9 |-> i]
<1>1. Name = "link" /\ pc = "reap" /\ Pending = {}
  BY DEF ReapLink, Slept
<1>2. Order /\ Calm /\ Len(reqs) = 10
  BY <1>1 DEF Links, Calm
<1>3. \A i \in 1 .. 10 : St(i) \in {"done", "dropped"}
  BY <1>1, <1>2, LinkRequests DEF St, Pending, States
<1>4. St(4) = "done" /\ Res(4) = "0"
  BY <1>2, <1>3 DEF Order, Calm
<1>5. St(7) = "done"
  <2>1. St(7) # "dropped"
    BY <1>2, <1>4 DEF Order
  <2>2. QED
    BY <1>3, <2>1
<1>6. Len(file) = 9 /\ \A c \in 1 .. 9 : file[c] = c
  <2>1. 7 \in Writes /\ Pos(7) = 9
    BY DEF Writes, Pos
  <2>2. 9 <= Len(file) /\ Len(file) <= 9
    BY <1>2, <1>5, <2>1 DEF Order
  <2>3. \A c \in 1 .. Len(file) : file[c] = c
    BY <1>2 DEF Order
  <2>4. Len(file) = 9
    <3>1. PICK n \in Nat : n = Len(file)
      BY DEF Data
    <3>2. n = 9
      BY <2>2, <3>1
    <3>3. QED
      BY <3>1, <3>2
  <2>5. QED
    BY <2>3, <2>4
<1>7. QED
  BY <1>6 DEF Data

LEMMA VerdictStep ==
  ASSUME RingInv, Data, Queue, Links, LinkVerdict, [Next]_vars
  PROVE  LinkVerdict'
<1>1. broken \subseteq broken' /\ late' = late /\ (stray => stray')
  <2>1. broken' = broken \/ Breaks
    BY DEF Next, Program, Failure, Setup, EventfdFails, SetupFails, NextRing, Close, CloseFails,
       Prepare, EnterReturns, EnterShort, CmpFails, ReapCancel, ReapLink, FinishFails, EndOverflow,
       ReadEvents, EndEvents, ReadFails, StrayCrash, Take, Worker, Work, Begin, Complete,
       TimeoutEnds, Drop, Kernel, vars
  <2>2. late' = late /\ (stray => stray')
    <3>1. Crashes => UNCHANGED <<late, stray>>
      BY DEF Crashes, unseen
    <3>2. (\E v : Ends(v)) \/ UNCHANGED <<late, stray>>
      <4>1. CASE Setup \/ EventfdFails \/ EnterShort
        BY <3>1, <4>1 DEF Setup, EventfdFails, EnterShort, SetUp
      <4>2. CASE Worker
        BY <4>2 DEF Worker, Work, Begin, Complete, TimeoutEnds, Drop, Kernel
      <4>3. CASE SetupFails \/ Close \/ CloseFails \/ CmpFails \/ ReapLink \/ FinishFails
                 \/ EndOverflow \/ EndEvents \/ ReadFails \/ StrayCrash
        BY <3>1, <4>3 DEF SetupFails, Close, CloseFails, CmpFails, ReapLink, FinishFails,
           EndOverflow, EndEvents, ReadFails, StrayCrash
      <4>4. CASE NextRing \/ Prepare \/ EnterReturns \/ ReapCancel \/ ReadEvents \/ Take
                 \/ UNCHANGED vars
        BY <4>4 DEF NextRing, Prepare, EnterReturns, ReapCancel, ReadEvents, Take, unseen, vars
      <4>5. QED
        BY <4>1, <4>2, <4>3, <4>4 DEF Next, Program, Failure
    <3>3. ASSUME NEW v, Ends(v) PROVE late' = late /\ (stray => stray')
      <4>1. late' = late
        BY <3>3 DEF Ends
      <4>2. stray => stray'
        BY <3>3, Zenon DEF Ends
      <4>3. QED
        BY <4>1, <4>2
    <3>4. CASE UNCHANGED <<late, stray>>
      <4>1. late' = late /\ stray' = stray
        BY <3>4
      <4>2. stray => stray'
        BY <4>1, Zenon
      <4>3. QED
        BY <4>1, <4>2
    <3>5. QED
      BY <3>2, <3>3, <3>4
  <2>3. QED
    BY <2>1, <2>2 DEF Breaks
<1>2. SUFFICES ASSUME verdict'[4] = "Fail", verdict[4] # "Fail" PROVE late \/ 4 \in broken' \/ stray'
  BY <1>1 DEF LinkVerdict
<1>3. PICK v : Ends(v)
  BY <1>2 DEF Next, Program, Failure, Setup, EventfdFails, SetUp, SetupFails, NextRing, Close, CloseFails,
     Prepare, EnterReturns, EnterShort, CmpFails, ReapCancel, ReapLink, FinishFails, EndOverflow,
     ReadEvents, EndEvents, ReadFails, StrayCrash, Take, Worker, Work, Begin, Complete,
     TimeoutEnds, Drop, Kernel, Crashes, vars
<1>4. test = 4 /\ v = "Fail" /\ verdict'[test] = "Fail"
  BY <1>2, <1>3 DEF Ends, Data
<1>5. Name = "link" /\ test' # test
  BY <1>3, <1>4, SixTests DEF Name, Tests, Ends
<1>6. CASE SetupFails \/ EnterShort \/ FinishFails
  BY <1>4, <1>6 DEF SetupFails, EnterShort, FinishFails, Breaks
<1>7. CASE ReapLink
  <2>1. SUFFICES ASSUME ~late, test \notin broken, ~stray PROVE FALSE
    BY <1>1, <1>4
  <2>2. file = [i \in 1 .. 9 |-> i]
    BY <1>7, <2>1, AllWritten
  <2>3. Ends("Pass")
    BY <1>7, <2>1, <2>2 DEF ReapLink
  <2>4. verdict'[test] = "Pass"
    BY <1>4, <2>3 DEF Ends, Data
  <2>5. QED
    BY <1>4, <2>4
<1>8. CASE ~SetupFails /\ ~EnterShort /\ ~FinishFails /\ ~ReapLink
  <2>1. pc # "opened"
    BY <1>5 DEF RingInv, Numbers
  <2>2. QED
    BY <1>5, <1>8, <2>1 DEF Next, Program, Failure, Setup, EventfdFails, SetUp, NextRing, Close,
       CloseFails, AllOpen, Prepare, EnterReturns, CmpFails, ReapCancel, EndOverflow, ReadEvents,
       EndEvents, ReadFails, StrayCrash, Crashes, Take, Worker, Work, Begin, Complete, TimeoutEnds,
       Drop, Kernel, vars
<1>9. QED
  BY <1>6, <1>7, <1>8

\* The links, the drained timeout and the sleeps of test_io_link put its nine
\* writes in order: they are executed without a gap, none out of its place, and
\* the test fails only when something is late, a call fails or a read has outlived
\* the buffers of an earlier test.
THEOREM WritesAreInOrder == Spec => []WritesInOrder
<1>1. Init => Reads /\ Links /\ LinkVerdict
  <2>1. SUFFICES ASSUME Init PROVE Reads /\ Links /\ LinkVerdict
    OBVIOUS
  <2>2. reqs = <<>> /\ file = <<>> /\ pc = "setup" /\ Name # "link" /\ verdict[4] = "none"
    BY <2>1, SixTests DEF Init, Name, Tests
  <2>3. QED
    BY <2>2 DEF Reads, Links, LinkVerdict
<1>2. RingInv /\ Data /\ Queue /\ Reads /\ Links /\ LinkVerdict /\ [Next]_vars
        => (Reads /\ Links /\ LinkVerdict)'
  BY ReadsStep, LinksStep, VerdictStep
<1>3. Data /\ Links /\ LinkVerdict => WritesInOrder
  <2>1. SUFFICES ASSUME Data, Links, LinkVerdict PROVE \A i \in DOMAIN file : file[i] = i
    BY DEF WritesInOrder, LinkVerdict
  <2>2. DOMAIN file = 1 .. Len(file)
    BY <2>1 DEF Data
  <2>3. CASE Name = "link"
    BY <2>1, <2>2, <2>3 DEF Links, Order
  <2>4. CASE Name # "link"
    BY <2>1, <2>2, <2>4 DEF Links
  <2>5. QED
    BY <2>3, <2>4
<1>4. QED
  BY <1>1, <1>2, <1>3, DataInvariant, PTL DEF Spec
=============================================================================
