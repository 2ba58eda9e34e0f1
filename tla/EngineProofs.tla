---------------------------- MODULE EngineProofs ----------------------------
(***************************************************************************)
(* Proofs about ChunkSet, AllocEngine and PageFlags: the address           *)
(* arithmetic is right for every number of pages, every chunk size and     *)
(* every hugepage size that divides it; for every list of operations, any  *)
(* number of processes, pages and backends, what the forked children that  *)
(* run the rest of the list may not do; and what a filter text means.      *)
(***************************************************************************)
EXTENDS AllocEngine, TLAPS
-----------------------------------------------------------------------------
(* Chunks.                                                                 *)

\* Division with remainder, as / and % of include.h are used.
LEMMA DivMod ==
  ASSUME NEW a \in Nat, NEW c \in Nat \ {0}
  PROVE  /\ a \div c \in Nat /\ a % c \in 0 .. (c - 1)
         /\ a = (a \div c) * c + (a % c)
  BY Z3

\* Multiplication keeps the order.
LEMMA MulMono ==
  ASSUME NEW x \in Int, NEW y \in Int, NEW c \in Nat, x <= y
  PROVE  x * c <= y * c
  BY Z3

\* A quotient is determined by any representation with a remainder.
LEMMA QuotientUnique ==
  ASSUME NEW c \in Nat \ {0}, NEW q1 \in Int, NEW q2 \in Int,
         NEW r1 \in 0 .. (c - 1), NEW r2 \in 0 .. (c - 1),
         q1 * c + r1 = q2 * c + r2
  PROVE  q1 = q2 /\ r1 = r2
<1>1. ~(q1 + 1 <= q2)
  <2> SUFFICES ASSUME q1 + 1 <= q2 PROVE FALSE OBVIOUS
  <2>1. (q1 + 1) * c <= q2 * c BY MulMono
  <2>2. (q1 + 1) * c = q1 * c + c BY Z3
  <2> DEFINE m1 == q1 * c  m2 == q2 * c
  <2>3. m1 \in Int /\ m2 \in Int BY Z3
  <2>4. m1 + c <= m2 /\ m1 + r1 = m2 + r2 BY <2>1, <2>2
  <2> HIDE DEF m1, m2
  <2> QED BY <2>3, <2>4
<1>2. ~(q2 + 1 <= q1)
  <2> SUFFICES ASSUME q2 + 1 <= q1 PROVE FALSE OBVIOUS
  <2>1. (q2 + 1) * c <= q1 * c BY MulMono
  <2>2. (q2 + 1) * c = q2 * c + c BY Z3
  <2> DEFINE m1 == q1 * c  m2 == q2 * c
  <2>3. m1 \in Int /\ m2 \in Int BY Z3
  <2>4. m2 + c <= m1 /\ m1 + r1 = m2 + r2 BY <2>1, <2>2
  <2> HIDE DEF m1, m2
  <2> QED BY <2>3, <2>4
<1>3. q1 = q2 BY <1>1, <1>2
<1>4. r1 = r2
  <2> DEFINE m == q1 * c
  <2>1. m \in Int /\ m + r1 = m + r2 BY <1>3, Z3
  <2> HIDE DEF m
  <2> QED BY <2>1
<1> QED BY <1>3, <1>4

\* The number of chunks is the number of the last page's chunk plus one.
LEMMA LastPage ==
  ASSUME NEW np \in Nat \ {0}
  PROVE  /\ NrChunk(np) \in Nat \ {0}
         /\ (np - 1) % CHUNKSIZE \in 0 .. (CHUNKSIZE - 1)
         /\ np - 1 = (NrChunk(np) - 1) * CHUNKSIZE + ((np - 1) % CHUNKSIZE)
<1>1. np - 1 \in Nat /\ CHUNKSIZE \in Nat \ {0} BY ChunkAssumption
<1> DEFINE q == (np - 1) \div CHUNKSIZE  r == (np - 1) % CHUNKSIZE
<1>2. q \in Nat /\ r \in 0 .. (CHUNKSIZE - 1) /\ np - 1 = q * CHUNKSIZE + r
  BY <1>1, DivMod
<1>3. NrChunk(np) = q + 1 BY DEF NrChunk
<1> HIDE DEF q
<1>4. NrChunk(np) - 1 = q /\ NrChunk(np) \in Nat \ {0} BY <1>2, <1>3
<1> QED BY <1>2, <1>4

\* get_size_of_chunked_mmap_area gives a chunk at least a page and no more than
\* its stride.
LEMMA SizeBounds ==
  ASSUME NEW np \in Nat \ {0}, NEW k \in Nat
  PROVE  SizeOfChunk(np, k) \in 1 .. CHUNKSIZE
<1>1. (np - 1) % CHUNKSIZE \in 0 .. (CHUNKSIZE - 1) BY LastPage
<1>2. CHUNKSIZE \in Nat \ {0} BY ChunkAssumption
<1> QED BY <1>1, <1>2 DEF SizeOfChunk

\* An address of a stride determines the chunk.
LEMMA StrideOf ==
  ASSUME NEW j \in Nat, NEW k \in Nat, NEW a \in Int,
         a \in Stride(j), a \in Stride(k)
  PROVE  j = k
<1>1. CHUNKSIZE \in Nat \ {0} BY ChunkAssumption
<1> DEFINE mj == j * CHUNKSIZE  mk == k * CHUNKSIZE
<1>2. mj \in Int /\ mk \in Int BY <1>1, Z3
<1>3. a \in mj .. (mj + CHUNKSIZE - 1) /\ a \in mk .. (mk + CHUNKSIZE - 1)
  BY DEF Stride, Area, BaseAddr
<1>4. /\ a - mj \in 0 .. (CHUNKSIZE - 1) /\ a - mk \in 0 .. (CHUNKSIZE - 1)
      /\ mj + (a - mj) = mk + (a - mk)
  <2> HIDE DEF mj, mk
  <2> QED BY <1>1, <1>2, <1>3
<1> QED BY <1>1, <1>4, QuotientUnique

\* The remainder of an index that is counted from a backend's first chunk.
LEMMA IndexInBackend ==
  ASSUME NEW N \in Nat \ {0}, NEW t \in Nat, NEW i \in 0 .. (N - 1)
  PROVE  t * N + i \in Nat /\ (t * N + i) % N = i
<1>1. t * N \in Nat BY Z3
<1> DEFINE k == t * N + i
<1>2. k \in Nat BY <1>1
<1>3. k \div N \in Nat /\ k % N \in 0 .. (N - 1) /\ k = (k \div N) * N + (k % N)
  BY <1>2, DivMod
<1>4. (k \div N) * N + (k % N) = t * N + i BY <1>3
<1>5. k % N = i
  <2> DEFINE d == k \div N  m == k % N
  <2>1. d \in Int /\ m \in 0 .. (N - 1) /\ d * N + m = t * N + i BY <1>3, <1>4
  <2> HIDE DEF d, m
  <2>2. m = i BY <2>1, QuotientUnique
  <2> QED BY <2>2 DEF m
<1> QED BY <1>2, <1>5

\* Multiplying out the address of a page.
LEMMA PageAddress ==
  ASSUME NEW t \in Nat, NEW N \in Nat, NEW i \in Nat
  PROVE  (t * N + i) * CHUNKSIZE = t * N * CHUNKSIZE + i * CHUNKSIZE
BY ChunkAssumption, Z3

\* do_mmap cuts the np pages of a backend into chunks: every page is in a
\* chunk, and in one only, also among the chunks of the other backends
\* (setup, get_size_of_chunked_mmap_area, do_mmap).
THEOREM ChunksTile ==
  ASSUME NEW np \in Nat \ {0}, NEW t \in Nat, NEW n \in 0 .. (np - 1)
  PROVE  LET N == NrChunk(np)
             pg == t * N * CHUNKSIZE + n
             k == t * N + n \div CHUNKSIZE IN
           /\ pg \in ChunkArea(np, k)
           /\ \A j \in Nat : pg \in ChunkArea(np, j) => j = k
<1> DEFINE C == CHUNKSIZE
           N == NrChunk(np)
           i == n \div C
           m == n % C
           r == (np - 1) % C
           k == t * N + i
           pg == t * N * C + n
<1>1. C \in Nat \ {0} /\ n \in Nat BY ChunkAssumption
<1>2. i \in Nat /\ m \in 0 .. (C - 1) /\ n = i * C + m
  BY <1>1, DivMod
<1>3. N \in Nat \ {0} /\ r \in 0 .. (C - 1) /\ np - 1 = (N - 1) * C + r
  BY LastPage
<1> DEFINE iC == i * C  lC == (N - 1) * C
<1>4. iC \in Nat /\ lC \in Nat
  <2> HIDE DEF i, N
  <2> QED BY <1>1, <1>2, <1>3, Z3
<1>5. i \in 0 .. (N - 1)
  <2> SUFFICES ASSUME N <= i PROVE FALSE BY <1>2, <1>3
  <2> HIDE DEF i, N, m, r
  <2>1. N * C <= i * C BY <1>1, <1>2, <1>3, MulMono
  <2>2. N * C = (N - 1) * C + C BY <1>1, <1>3, Z3
  <2>3. lC + C <= iC BY <2>1, <2>2
  <2> HIDE DEF iC, lC
  <2>4. n = iC + m /\ np - 1 = lC + r BY <1>2, <1>3 DEF iC, lC
  <2> QED BY <1>1, <1>2, <1>3, <1>4, <2>3, <2>4
<1>6. k \in Nat /\ k % N = i
  <2> HIDE DEF i, N
  <2> QED BY <1>3, <1>5, IndexInBackend
<1>7. SizeOfChunk(np, k) \in 1 .. C /\ m < SizeOfChunk(np, k)
  <2>1. SizeOfChunk(np, k) = IF i = N - 1 THEN r + 1 ELSE C
    BY <1>6 DEF SizeOfChunk
  <2>2. i = N - 1 => m <= r
    <3> SUFFICES ASSUME i = N - 1 PROVE m <= r OBVIOUS
    <3>1. iC = lC OBVIOUS
    <3>2. n = iC + m /\ np - 1 = lC + r BY <1>2, <1>3
    <3> HIDE DEF iC, lC, m, r
    <3> QED BY <1>2, <1>3, <1>4, <3>1, <3>2
  <2> HIDE DEF m, r, i, N, k
  <2> QED BY <1>1, <1>2, <1>3, <2>1, <2>2
<1>8. pg = k * C + m /\ k * C \in Nat
  <2> HIDE DEF i, N, m
  <2>1. k * C = t * N * C + i * C BY <1>2, <1>3, PageAddress
  <2> DEFINE tNC == t * N * C
  <2>2. tNC \in Nat BY <1>1, <1>3, Z3
  <2>3. pg = tNC + n /\ k * C = tNC + iC /\ n = iC + m BY <1>2, <2>1
  <2> HIDE DEF tNC, iC, pg, k
  <2> QED BY <1>1, <1>2, <1>4, <2>2, <2>3
<1>9. pg \in ChunkArea(np, k)
  <2> DEFINE kC == k * C  s == SizeOfChunk(np, k)
  <2>1. ChunkArea(np, k) = kC .. (kC + s - 1) BY DEF ChunkArea, Area, BaseAddr
  <2>2. kC \in Nat /\ pg = kC + m /\ s \in Nat /\ m < s BY <1>7, <1>8
  <2> HIDE DEF kC, s, pg, m
  <2> QED BY <1>2, <2>1, <2>2
<1>10. ASSUME NEW j \in Nat, pg \in ChunkArea(np, j) PROVE j = k
  <2>1. \A h \in Nat : ChunkArea(np, h) \subseteq Stride(h)
    <3> TAKE h \in Nat
    <3> DEFINE hC == h * CHUNKSIZE  s == SizeOfChunk(np, h)
    <3>1. s \in 1 .. CHUNKSIZE /\ hC \in Nat BY <1>1, SizeBounds, Z3
    <3>2. /\ ChunkArea(np, h) = hC .. (hC + s - 1)
          /\ Stride(h) = hC .. (hC + CHUNKSIZE - 1)
      BY DEF ChunkArea, Stride, Area, BaseAddr
    <3> HIDE DEF hC, s
    <3> QED BY <1>1, <3>1, <3>2
  <2>2. pg \in Stride(j) /\ pg \in Stride(k) BY <1>6, <1>9, <1>10, <2>1
  <2>3. pg \in Int
    <3> HIDE DEF k, m, pg
    <3> QED BY <1>2, <1>8
  <2> HIDE DEF k, pg
  <2> QED BY <1>6, <2>2, <2>3, StrideOf
<1> HIDE DEF pg, k, i, m, r
<1> QED BY <1>9, <1>10 DEF pg, k, i

\* The hugepages of a chunk end at or before the end of its stride.
LEMMA HugepagesInStride ==
  ASSUME NEW size \in 1 .. CHUNKSIZE, NEW i \in Hugepages(size)
  PROVE  i \in Nat /\ i * HP \in Nat /\ i * HP + HP <= CHUNKSIZE
<1>1. /\ CHUNKSIZE \in Nat \ {0} /\ HP \in Nat \ {0} /\ size - 1 \in Nat
      /\ CHUNKSIZE % HP = 0
  BY ChunkAssumption
<1> DEFINE d == (size - 1) \div HP  r == (size - 1) % HP  Q == CHUNKSIZE \div HP
<1>2. d \in Nat /\ r \in 0 .. (HP - 1) /\ size - 1 = d * HP + r BY <1>1, DivMod
<1>3. Q \in Nat /\ CHUNKSIZE = Q * HP
  <2>1. Q \in Nat /\ CHUNKSIZE = Q * HP + (CHUNKSIZE % HP) BY <1>1, DivMod
  <2>2. Q * HP \in Nat
    <3> HIDE DEF Q
    <3> QED BY <1>1, <2>1, Z3
  <2> HIDE DEF Q
  <2> QED BY <1>1, <2>1, <2>2
<1>4. i \in 0 .. d BY DEF Hugepages
<1> HIDE DEF d, r, Q
<1>5. i \in Nat /\ i <= d BY <1>2, <1>4
<1>6. i * HP \in Nat /\ d * HP \in Nat BY <1>1, <1>2, <1>5, Z3
<1>7. i + 1 <= Q
  <2> SUFFICES ASSUME Q <= i PROVE FALSE BY <1>3, <1>5
  <2>1. Q <= d BY <1>2, <1>3, <1>5
  <2>2. Q * HP <= d * HP BY <1>1, <1>2, <1>3, <2>1, MulMono
  <2>3. CHUNKSIZE <= d * HP BY <1>3, <2>2
  <2> DEFINE dH == d * HP
  <2>4. CHUNKSIZE <= dH /\ size - 1 = dH + r /\ dH \in Nat BY <1>2, <1>6, <2>3
  <2> HIDE DEF dH
  <2> QED BY <1>1, <1>2, <2>4
<1>8. (i + 1) * HP <= Q * HP BY <1>1, <1>3, <1>5, <1>7, MulMono
<1>9. (i + 1) * HP = i * HP + HP BY <1>1, <1>5, Z3
<1> QED BY <1>3, <1>5, <1>6, <1>8, <1>9

\* What hp_partial and split_thp address for a chunk, however short the chunk
\* is, stays between its address and the address of the next chunk, so that no
\* other chunk's memory is unmapped, locked, moved or split with it
\* (__munmap_chunk, __mbind_chunk, __mlock_chunk, __do_split_thp_chunk).
THEOREM WindowsStayInStride ==
  ASSUME NEW k \in Nat, NEW size \in 1 .. CHUNKSIZE, NEW len \in 0 .. HP
  PROVE  /\ HeadWindows(BaseAddr(k), size, len) \subseteq Stride(k)
         /\ SplitWindows(BaseAddr(k), size) \subseteq Stride(k)
<1>1. CHUNKSIZE \in Nat \ {0} /\ HP \in Nat \ {0} BY ChunkAssumption
<1> DEFINE b == BaseAddr(k)
<1>2. b \in Nat BY <1>1, Z3 DEF BaseAddr
<1>3. Stride(k) = b .. (b + CHUNKSIZE - 1) BY DEF Stride, Area
<1> HIDE DEF b
<1>4. ASSUME NEW i \in Hugepages(size)
      PROVE  /\ Area(b + i * HP, len) \subseteq Stride(k)
             /\ b + (i + 1) * HP - 1 \in Stride(k)
  <2>1. i \in Nat /\ i * HP \in Nat /\ i * HP + HP <= CHUNKSIZE BY HugepagesInStride
  <2>2. (i + 1) * HP = i * HP + HP BY <1>1, <2>1, Z3
  <2> DEFINE h == i * HP
  <2>3. h \in Nat /\ h + HP <= CHUNKSIZE /\ (i + 1) * HP = h + HP BY <2>1, <2>2
  <2>4. Area(b + i * HP, len) = (b + h) .. (b + h + len - 1) BY DEF Area
  <2> HIDE DEF h
  <2>5. (b + h) .. (b + h + len - 1) \subseteq Stride(k) BY <1>1, <1>2, <1>3, <2>3
  <2>6. b + (h + HP) - 1 \in Stride(k) BY <1>1, <1>2, <1>3, <2>3
  <2> QED BY <2>3, <2>4, <2>5, <2>6
<1>5. HeadWindows(b, size, len) \subseteq Stride(k) BY <1>4 DEF HeadWindows
<1>6. SplitWindows(b, size) \subseteq Stride(k) BY <1>4 DEF SplitWindows
<1> QED BY <1>5, <1>6 DEF b

\* madvise with offset, length and step never leaves the chunk, wherever the
\* last step lands (__do_madvise_chunk).
THEOREM AdviceStaysInChunk ==
  ASSUME NEW p \in Int, NEW size \in Nat,
         NEW win \in [offset : Nat, length : Nat, step : Nat]
  PROVE  MadviseSteps(p, size, win) \subseteq Area(p, size)
<1> DEFINE I == {win.offset + m * win.step : m \in 0 .. size} \cap (0 .. size)
           L(i) == IF i + win.length > size THEN size - i ELSE win.length
<1>1. ASSUME NEW i \in I PROVE Area(p + i, L(i)) \subseteq Area(p, size)
  <2>1. i \in 0 .. size /\ L(i) \in Int /\ i + L(i) <= size OBVIOUS
  <2> HIDE DEF I, L
  <2> QED BY <2>1 DEF Area
<1>2. MadviseSteps(p, size, win) = UNION {Area(p + i, L(i)) : i \in I} BY DEF MadviseSteps
<1> HIDE DEF I, L
<1> QED BY <1>1, <1>2
-----------------------------------------------------------------------------
(* Processes.                                                              *)

Fields == {"pc", "ph", "testpipe", "wait_after", "mem", "p", "k", "child", "filters",
           "scan"}
Over == Ended \cup {"unborn"}
Phases == Waits \cup Over \cup {"fetch", "run", "child", "stress", "waitpid", "back", "rounds",
                                 "scan"}

Shape(r) ==
  /\ DOMAIN r = Fields
  /\ r.pc \in 1 .. (Len(prog.ops) + 1)
  /\ r.ph \in Phases
  /\ r.testpipe \in BOOLEAN /\ r.wait_after \in BOOLEAN

\* One of the first n operations of the list is one of these.
Among(n, names) == \E i \in 1 .. n : prog.ops[i].op \in names

\* The memory is where do_mmap puts it, and all of it is there.
Placed(r) == \A k \in Chunks : r.p[k] = BaseAddr(k)
Whole(r) == \A k \in Chunks : ChunkArea(nr_p, k) \subseteq DOMAIN r.mem

\* The first n operations are done.
Memory(r, n) ==
  Among(n, Mmaps) => Placed(r) /\ (~Among(r.pc, GivesAway) => Whole(r))

\* What a process is doing in each phase.
AtOp(r) ==
  LET o == Op(r).op IN
    /\ r.ph = "inner" => o \in Waiters \cup {"memory_error_injection", "hotremove",
                                             "process_vm_access"}
    /\ r.ph = "inner2" => o = "memory_error_injection"
    /\ r.ph = "child" => o \in Forks
    /\ r.ph \in {"stress", "waitpid"} => o = "fork_stress"
    /\ r.ph = "back" => o = "mremap_stress"
    /\ r.ph = "scan" => o = "hotremove"
    /\ r.ph = "rounds" => o = "iterate_fault_dontneed" /\ Placed(r) /\ Whole(r)

\* Only a forked child has wait_after, from its fork to the end of the operation.
AtStart(r) ==
  \/ r.ph \in {"fetch", "before", "run", "waitpid", "stress", "back"}
  \/ r.ph \in {"inner", "inner2"} /\ Op(r).op = "memory_error_injection"

ProcInv(q, r) ==
  /\ Shape(r)
  /\ UsedWhileMapped => r.ph # "segv"
  /\ r.ph \notin Over =>
       /\ r.pc <= Len(prog.ops)
       /\ AtOp(r)
       /\ Memory(r, IF r.ph = "after" THEN r.pc ELSE r.pc - 1)
       /\ StressIsLast => q = 0 \/ r.ph = "stress" \/ ~r.testpipe
       /\ AtStart(r) => ~r.wait_after

EngineInv ==
  /\ prog \in Programs
  /\ DOMAIN proc = Procs
  /\ \A q \in Procs : ProcInv(q, proc[q])
-----------------------------------------------------------------------------
\* The sizes of a program.
LEMMA ProgramSizes ==
  ASSUME prog \in Programs
  PROVE  /\ Len(prog.ops) \in Nat \ {0} /\ DOMAIN prog.ops = 1 .. Len(prog.ops)
         /\ \A i \in 1 .. Len(prog.ops) : prog.ops[i] \in Operations
         /\ nr_p \in Nat \ {0} /\ nr_chunk \in Nat \ {0} /\ prog.types \in Nat \ {0}
         /\ Chunks \subseteq Nat
<1>1. /\ nr_p \in Nat \ {0} /\ prog.types \in Nat \ {0}
      /\ prog.ops \in Seq(Operations) /\ prog.ops # <<>>
  BY EngineAssumption DEF nr_p
<1>2. /\ Len(prog.ops) \in Nat \ {0} /\ DOMAIN prog.ops = 1 .. Len(prog.ops)
      /\ \A i \in 1 .. Len(prog.ops) : prog.ops[i] \in Operations
  BY <1>1
<1>3. nr_chunk \in Nat \ {0}
  BY <1>1, LastPage DEF nr_chunk
<1>4. Chunks \subseteq Nat
  BY DEF Chunks
<1>5. QED
  BY <1>1, <1>2, <1>3, <1>4

\* An operation is done: nothing is left of it but its effect on the memory.
Finished(q, r) ==
  /\ Shape(r) /\ r.pc <= Len(prog.ops)
  /\ Memory(r, r.pc)
  /\ StressIsLast =>
       q = 0 \/ ~r.testpipe \/ (r.pc = Len(prog.ops) /\ ~Op(r).after /\ ~r.wait_after)

LEMMA EndsInv ==
  ASSUME NEW q, NEW r, Shape(r), NEW how \in Ended, how # "segv" \/ ~UsedWhileMapped
  PROVE  ProcInv(q, Ends(r, how))
  BY DEF ProcInv, Shape, Ends, Over, Phases, Fields

LEMMA AdvanceInv ==
  ASSUME prog \in Programs, NEW q, NEW r, Finished(q, r)
  PROVE  ProcInv(q, Advance(r))
<1> DEFINE s == Advance(r)
<1>1. Len(prog.ops) \in Nat \ {0} /\ r.pc \in 1 .. Len(prog.ops)
  BY ProgramSizes DEF Finished, Shape
<1>2. /\ DOMAIN s = Fields /\ s.pc = r.pc + 1 /\ ~s.wait_after /\ s.testpipe = r.testpipe
      /\ s.p = r.p /\ s.mem = r.mem /\ s.wait_after \in BOOLEAN
      /\ s.ph = IF r.pc = Len(prog.ops) THEN "gone" ELSE "fetch"
  BY DEF Advance, Finished, Shape, Fields
<1>3. Shape(s)
  BY <1>1, <1>2 DEF Shape, Finished, Phases, Over, Ended, Waits
<1>4. ASSUME s.ph = "fetch"
      PROVE  s.pc <= Len(prog.ops) /\ AtOp(s) /\ Memory(s, s.pc - 1)
             /\ (StressIsLast => q = 0 \/ ~s.testpipe)
  <2>1. r.pc # Len(prog.ops) /\ s.pc - 1 = r.pc
    BY <1>1, <1>2, <1>4
  <2>2. Among(r.pc, GivesAway) => Among(s.pc, GivesAway)
    BY <1>1, <1>2 DEF Among
  <2>3. Memory(s, s.pc - 1)
    BY <1>2, <2>1, <2>2 DEF Memory, Finished, Placed, Whole
  <2>4. AtOp(s)
    BY <1>4 DEF AtOp
  <2>5. QED
    BY <1>1, <1>2, <2>1, <2>3, <2>4 DEF Finished
<1>5. QED
  BY <1>2, <1>3, <1>4 DEF ProcInv, AtStart, Over, Ended

LEMMA DoneInv ==
  ASSUME prog \in Programs, NEW q, NEW r, Finished(q, r)
  PROVE  ProcInv(q, Done(r))
<1>1. CASE Op(r).after \/ r.wait_after
  <2> DEFINE s == Ends(r, "after")
  <2>1. /\ DOMAIN s = Fields /\ s.pc = r.pc /\ s.wait_after = r.wait_after
        /\ s.testpipe = r.testpipe /\ s.p = r.p /\ s.mem = r.mem /\ s.ph = "after"
    BY DEF Ends, Finished, Shape, Fields
  <2>2. Shape(s) /\ Memory(s, s.pc) /\ AtOp(s)
    BY <2>1 DEF Finished, Shape, Phases, Waits, Memory, Placed, Whole, AtOp
  <2>3. StressIsLast => q = 0 \/ ~s.testpipe
    BY <1>1, <2>1 DEF Finished
  <2>4. s.pc <= Len(prog.ops)
    BY <2>1 DEF Finished
  <2>5. ProcInv(q, s)
    BY <2>1, <2>2, <2>3, <2>4 DEF ProcInv, AtStart
  <2>6. QED
    BY <1>1, <2>5 DEF Done
<1>2. CASE ~(Op(r).after \/ r.wait_after)
  BY <1>2, AdvanceInv DEF Done
<1>3. QED
  BY <1>1, <1>2

\* Operations other than mmap are done when they have not touched the memory.
LEMMA FinishedOf ==
  ASSUME prog \in Programs, NEW q, NEW r, ProcInv(q, r), r.ph \notin Over,
         Op(r).op \notin Mmaps \/ r.ph = "after"
  PROVE  Finished(q, r)
<1>1. Len(prog.ops) \in Nat /\ r.pc \in 1 .. Len(prog.ops) /\ Shape(r)
  BY ProgramSizes DEF ProcInv, Shape
<1>2. Memory(r, r.pc)
  <2>1. CASE r.ph = "after"
    BY <2>1 DEF ProcInv
  <2>2. CASE r.ph # "after" /\ Op(r).op \notin Mmaps
    <3>1. Among(r.pc, Mmaps) => Among(r.pc - 1, Mmaps)
      BY <1>1, <2>2 DEF Among, Op
    <3>2. QED
      BY <2>2, <3>1 DEF ProcInv, Memory
  <2>3. QED
    BY <2>1, <2>2
<1>3. StressIsLast /\ r.ph = "stress" => r.pc = Len(prog.ops) /\ ~Op(r).after /\ ~r.wait_after
  <2>1. SUFFICES ASSUME StressIsLast, r.ph = "stress"
                 PROVE  r.pc = Len(prog.ops) /\ ~Op(r).after /\ ~r.wait_after
    OBVIOUS
  <2>2. Op(r).op = "fork_stress" /\ ~r.wait_after
    BY <2>1 DEF ProcInv, AtStart, AtOp, Over
  <2>3. r.pc = Len(prog.ops) /\ ~prog.ops[r.pc].after
    BY <1>1, <2>1, <2>2, ProgramSizes DEF StressIsLast, Op
  <2>4. QED
    BY <2>2, <2>3 DEF Op
<1>4. QED
  BY <1>1, <1>2, <1>3 DEF Finished, ProcInv, AtStart

\* The same process in another phase.
Turns(r, s, ph) ==
  /\ DOMAIN s = Fields /\ s.pc = r.pc /\ s.wait_after = r.wait_after
  /\ s.testpipe = r.testpipe /\ s.p = r.p /\ s.mem = r.mem /\ s.ph = ph

LEMMA EndsTurns ==
  ASSUME NEW r, Shape(r), NEW ph
  PROVE  Turns(r, Ends(r, ph), ph)
  BY DEF Ends, Shape, Fields, Turns

LEMMA PhaseInv ==
  ASSUME prog \in Programs, NEW q, NEW r, ProcInv(q, r), r.ph \notin Over \cup {"stress"},
         NEW ph \in {"before", "run", "inner", "inner2", "back", "waitpid", "scan"},
         NEW s, Turns(r, s, ph), AtOp(s), ph \in {"inner", "scan"} \/ ~r.wait_after,
         Op(r).op = "memory_error_injection" => ~r.wait_after
  PROVE  ProcInv(q, s)
<1>1. Shape(s)
  BY DEF ProcInv, Shape, Phases, Waits, Turns
<1>2. Memory(s, s.pc - 1)
  <2>1. r.pc \in Nat
    BY DEF ProcInv, Shape
  <2>2. Among(r.pc - 1, Mmaps) => Among(r.pc, Mmaps)
    BY <2>1 DEF Among
  <2>3. Memory(r, r.pc - 1)
    BY <2>2 DEF ProcInv, Memory
  <2>4. QED
    BY <2>3 DEF Memory, Placed, Whole, Turns
<1>3. s.ph \notin Over /\ s.ph # "after" /\ Op(s) = Op(r)
  BY DEF Over, Ended, Turns, Op
<1>4. QED
  BY <1>1, <1>2, <1>3 DEF ProcInv, AtStart, Turns

\* An operation that touches the memory finds all of it.
LEMMA UseIsMapped ==
  ASSUME prog \in Programs, NEW q, NEW r, ProcInv(q, r), r.ph \notin Over,
         UsedWhileMapped, Uses(Op(r))
  PROVE  Placed(r) /\ Whole(r)
<1>1. Len(prog.ops) \in Nat /\ r.pc \in 1 .. Len(prog.ops) /\ r.pc \in DOMAIN prog.ops
  BY ProgramSizes DEF ProcInv, Shape
<1>2. Among(r.pc - 1, Mmaps) /\ Among(r.pc, Mmaps) /\ ~Among(r.pc, GivesAway)
  BY <1>1 DEF UsedWhileMapped, Op, Among
<1>3. QED
  BY <1>2 DEF ProcInv, Memory

\* do_access leaves the process alone, or ends it, by SIGSEGV only if something
\* is not mapped.
LEMMA AccessInv ==
  ASSUME prog \in Programs, NEW q, NEW r, ProcInv(q, r), r.ph \notin Over,
         Uses(Op(r)) \/ (Placed(r) /\ Whole(r)), NEW s \in DoAccess(r)
  PROVE  s = r \/ (s.ph \in Ended /\ ProcInv(q, s))
<1>1. UsedWhileMapped => Accessed(r) \subseteq Mapped(r)
  <2>1. SUFFICES ASSUME UsedWhileMapped PROVE Accessed(r) \subseteq Mapped(r)
    OBVIOUS
  <2>2. Placed(r) /\ Whole(r)
    BY <2>1, UseIsMapped
  <2>3. QED
    BY <2>2 DEF Accessed, Mapped, Placed, Whole, ChunkArea, Size
<1>2. s = r \/ (s = Ends(r, "segv") /\ ~UsedWhileMapped) \/ s = Ends(r, "sigbus")
  BY <1>1 DEF DoAccess
<1>3. Shape(r)
  BY DEF ProcInv
<1>4. Ends(r, "segv").ph = "segv" /\ Ends(r, "sigbus").ph = "sigbus"
  BY <1>3 DEF Ends, Shape, Fields
<1>5. QED
  BY <1>2, <1>3, <1>4, EndsInv DEF Ended

\* The same process with other memory.
Same(r, s) ==
  /\ DOMAIN s = Fields /\ s.pc = r.pc /\ s.ph = r.ph
  /\ s.testpipe = r.testpipe /\ s.wait_after = r.wait_after
  /\ Placed(r) => Placed(s)

\* Memory that is given away may be gone.
LEMMA LoseInv ==
  ASSUME prog \in Programs, NEW q, NEW r, ProcInv(q, r), r.ph \in {"run", "back"},
         Op(r).op \in GivesAway, NEW s, Same(r, s)
  PROVE  ProcInv(q, s) /\ Finished(q, s)
<1>1. Len(prog.ops) \in Nat /\ r.pc \in 1 .. Len(prog.ops) /\ r.ph \notin Over
  BY ProgramSizes DEF ProcInv, Shape, Over, Ended
<1>2. Among(s.pc, GivesAway) /\ Op(s) = Op(r)
  BY <1>1 DEF Among, Op, Same
<1>3. Shape(s)
  BY DEF ProcInv, Shape, Same
<1>4. Finished(q, r)
  BY <1>1, FinishedOf DEF GivesAway, Mmaps
<1>5. Memory(s, s.pc) /\ Memory(s, s.pc - 1)
  <2>1. Among(s.pc - 1, Mmaps) => Among(s.pc, Mmaps)
    BY <1>1 DEF Among, Same
  <2>2. Among(s.pc, Mmaps) => Placed(s)
    BY <1>4 DEF Finished, Memory, Same
  <2>3. QED
    BY <1>2, <2>1, <2>2 DEF Memory
<1>6. Finished(q, s)
  BY <1>2, <1>3, <1>4, <1>5 DEF Finished, Same
<1>7. AtOp(s)
  BY <1>1, <1>2 DEF AtOp, ProcInv, Same
<1>8. QED
  BY <1>1, <1>3, <1>5, <1>6, <1>7 DEF ProcInv, AtStart, Same

\* More memory does no harm.
LEMMA GrowInv ==
  ASSUME NEW q, NEW r, Finished(q, r), NEW s, Same(r, s), Whole(r) => Whole(s)
  PROVE  Finished(q, s)
<1>1. Shape(s) /\ Op(s) = Op(r)
  BY DEF Finished, Shape, Same, Op
<1>2. Memory(s, s.pc)
  BY DEF Finished, Memory, Same
<1>3. QED
  BY <1>1, <1>2 DEF Finished, Same

\* do_mmap fails, or puts everything where it belongs.
LEMMA MmapInv ==
  ASSUME NEW r, Shape(r)
  PROVE  \/ DoMmap(r) = Ends(r, "failed")
         \/ Same(r, DoMmap(r)) /\ Placed(DoMmap(r)) /\ Whole(DoMmap(r))
<1> DEFINE S == UNION {ChunkArea(nr_p, k) : k \in Chunks}
           m == Map(r, S)
           s == [m EXCEPT !.p = [k \in Chunks |-> BaseAddr(k)]]
<1>1. DoMmap(r) = Ends(r, "failed") \/ DoMmap(r) = s
  BY DEF DoMmap
<1>2. /\ DOMAIN m = Fields /\ m.pc = r.pc /\ m.ph = r.ph /\ m.testpipe = r.testpipe
      /\ m.wait_after = r.wait_after /\ S \subseteq DOMAIN m.mem
  BY DEF Map, Shape, Fields
<1> HIDE DEF m
<1>3. /\ DOMAIN s = Fields /\ s.pc = r.pc /\ s.ph = r.ph /\ s.testpipe = r.testpipe
      /\ s.wait_after = r.wait_after /\ s.mem = m.mem
      /\ s.p = [k \in Chunks |-> BaseAddr(k)]
  BY <1>2 DEF Fields
<1>4. Placed(s) /\ Whole(s)
  BY <1>2, <1>3 DEF Placed, Whole
<1>5. QED
  BY <1>1, <1>3, <1>4 DEF Same

\* mremap and munmap change the mappings only.
LEMMA MemoryOnly ==
  ASSUME NEW r, Shape(r)
  PROVE  /\ \A back : \A s \in MremapChunk(r, back) :
              Same(r, s) /\ Same(r, [s EXCEPT !.k = 0]) /\ Shape(s)
         /\ \A s \in DoMunmap(r) : Same(r, s)
         /\ \A S : Same(r, Map(r, S)) /\ (Whole(r) => Whole(Map(r, S)))
<1>1. ASSUME NEW x PROVE Same(r, [r EXCEPT !.mem = x])
  BY DEF Same, Shape, Fields, Placed
<1>2. ASSUME NEW S PROVE Whole(r) => Whole(Map(r, S))
  BY DEF Map, Whole, Shape, Fields
<1>3. ASSUME NEW back, NEW s \in MremapChunk(r, back)
      PROVE  Same(r, s) /\ Same(r, [s EXCEPT !.k = 0]) /\ Shape(s)
  <2>1. PICK m, n : s = [[r EXCEPT !.mem = m] EXCEPT !.k = n]
    <3>1. ASSUME NEW n PROVE [r EXCEPT !.k = n] = [[r EXCEPT !.mem = r.mem] EXCEPT !.k = n]
      BY DEF Shape, Fields
    <3>2. ASSUME NEW m, NEW n PROVE [r EXCEPT !.mem = m, !.k = n] = [[r EXCEPT !.mem = m] EXCEPT !.k = n]
      BY DEF Shape, Fields
    <3>3. QED
      BY <3>1, <3>2 DEF MremapChunk
  <2>2. QED
    BY <2>1 DEF Same, Shape, Fields, Placed
<1>4. QED
  BY <1>1, <1>2, <1>3 DEF DoMunmap, Unmap, Map
-----------------------------------------------------------------------------
\* All processes are as they should be after a step.
Good == DOMAIN proc' = Procs /\ \A x \in Procs : ProcInv(x, proc'[x])

LEMMA BecomesInv ==
  ASSUME EngineInv, NEW q \in Procs, NEW r, ProcInv(q, r), Becomes(q, r)
  PROVE  Good
  BY DEF Good, EngineInv, Becomes

\* A process that has run an operation other than mmap.
LEMMA DoneOf ==
  ASSUME prog \in Programs, NEW q, NEW r, ProcInv(q, r), r.ph \notin Over,
         Op(r).op \notin Mmaps
  PROVE  ProcInv(q, Done(r)) /\ ProcInv(q, After(r))
<1>1. ProcInv(q, Done(r))
  BY FinishedOf, DoneInv
<1>2. QED
  BY <1>1 DEF After, Over

LEMMA RunningFacts ==
  ASSUME EngineInv, NEW q \in Procs, NEW names, Running(q, names)
  PROVE  /\ prog \in Programs /\ ProcInv(q, proc[q]) /\ proc[q].ph = "run"
         /\ Op(proc[q]).op \in names /\ Shape(proc[q]) /\ ~proc[q].wait_after
         /\ proc[q].ph \notin Over
  BY DEF EngineInv, Running, ProcInv, AtStart, Over, Ended

LEMMA FetchGood ==
  ASSUME EngineInv, NEW q \in Procs, Fetch(q)
  PROVE  Good
<1> DEFINE ph == IF Op(proc[q]).before THEN "before" ELSE "run"
<1>1. /\ prog \in Programs /\ ProcInv(q, proc[q]) /\ proc[q].ph = "fetch"
      /\ Shape(proc[q]) /\ ~proc[q].wait_after /\ proc[q].ph \notin Over \cup {"stress"}
  BY DEF EngineInv, Fetch, ProcInv, AtStart, Over, Ended
<1>2. Turns(proc[q], Ends(proc[q], ph), ph) /\ ph \in {"before", "run"}
  BY <1>1, EndsTurns
<1>3. AtOp(Ends(proc[q], ph))
  BY <1>2 DEF AtOp, Turns
<1>4. ProcInv(q, Ends(proc[q], ph))
  <2> HIDE DEF ph
  <2>1. QED
    BY <1>1, <1>2, <1>3, PhaseInv
<1>5. QED
  BY <1>4, BecomesInv DEF Fetch

LEMMA PlainGood ==
  ASSUME EngineInv, NEW q \in Procs, Plain(q)
  PROVE  Good
<1>1. Running(q, Others \cup {"split_thp"})
  BY DEF Plain, Running
<1>2. ProcInv(q, Done(proc[q]))
  BY <1>1, RunningFacts, DoneOf DEF Others, Mmaps
<1>3. QED
  BY <1>2, BecomesInv DEF Plain

LEMMA MmapGood ==
  ASSUME EngineInv, NEW q \in Procs, Mmap(q)
  PROVE  Good
<1> DEFINE r == proc[q]  s == DoMmap(proc[q])
<1>1. /\ prog \in Programs /\ ProcInv(q, r) /\ r.ph = "run" /\ Shape(r)
  BY RunningFacts DEF Mmap
<1>2. CASE s = Ends(r, "failed")
  <2>1. ProcInv(q, s) /\ s.ph = "failed"
    BY <1>1, <1>2, EndsInv, EndsTurns DEF Ended, Turns
  <2>2. QED
    BY <2>1, BecomesInv DEF Mmap, After, Ended
<1>3. CASE Same(r, s) /\ Placed(s) /\ Whole(s)
  <2>1. Finished(q, s)
    BY <1>1, <1>3 DEF Finished, Same, Shape, ProcInv, Memory, Over, Ended
  <2>2. ProcInv(q, Done(s)) /\ s.ph = "run"
    BY <1>1, <1>3, <2>1, DoneInv DEF Same
  <2>3. QED
    BY <2>2, BecomesInv DEF Mmap, After, Ended
<1>4. QED
  BY <1>1, <1>2, <1>3, MmapInv

LEMMA AllocateMoreGood ==
  ASSUME EngineInv, NEW q \in Procs, AllocateMore(q)
  PROVE  Good
<1> DEFINE r == proc[q]  s == Map(proc[q], Area(nr_p, nr_p))
<1>1. /\ prog \in Programs /\ ProcInv(q, r) /\ r.ph \notin Over /\ Shape(r)
      /\ Op(r).op = "allocate_more"
  BY RunningFacts DEF AllocateMore
<1>2. ProcInv(q, Ends(r, "failed"))
  BY <1>1, EndsInv DEF Ended
<1>3. Finished(q, r)
  BY <1>1, FinishedOf DEF Mmaps
<1>4. ProcInv(q, Done(s))
  <2>1. Finished(q, s)
    BY <1>1, <1>3, MemoryOnly, GrowInv
  <2>2. QED
    BY <1>1, <2>1, DoneInv
<1>5. Becomes(q, Ends(r, "failed")) \/ proc' = [proc EXCEPT ![q] = Done(s)]
  BY DEF AllocateMore
<1>6. QED
  BY <1>2, <1>4, <1>5, BecomesInv DEF Good, EngineInv

LEMMA AccessGood ==
  ASSUME EngineInv, NEW q \in Procs, Access(q)
  PROVE  Good
<1>1. /\ prog \in Programs /\ ProcInv(q, proc[q]) /\ proc[q].ph \notin Over
      /\ Op(proc[q]).op = "access"
  BY RunningFacts DEF Access
<1>2. PICK s \in DoAccessOp(proc[q]) : Becomes(q, After(s))
  BY DEF Access
<1>3. s = proc[q] \/ (s.ph \in Ended /\ ProcInv(q, s))
  BY <1>1, <1>2, AccessInv DEF DoAccessOp, Uses
<1>4. ProcInv(q, After(s))
  BY <1>1, <1>3, DoneOf DEF After, Mmaps
<1>5. QED
  BY <1>2, <1>4, BecomesInv

LEMMA MunmapGood ==
  ASSUME EngineInv, NEW q \in Procs, Munmap(q) \/ Mremap(q)
  PROVE  Good
<1>1. /\ prog \in Programs /\ ProcInv(q, proc[q]) /\ proc[q].ph = "run" /\ Shape(proc[q])
      /\ Op(proc[q]).op \in GivesAway
  BY RunningFacts DEF Munmap, Mremap, GivesAway
<1>2. PICK s : Same(proc[q], s) /\ (Becomes(q, Done(s)) \/ Becomes(q, s))
  <2>1. CASE Munmap(q)
    BY <1>1, <2>1, MemoryOnly DEF Munmap
  <2>2. CASE Mremap(q)
    <3>1. PICK r \in MremapChunk(proc[q], FALSE) :
            Becomes(q, IF Walked(r) THEN Done([r EXCEPT !.k = 0]) ELSE r)
      BY <2>2 DEF Mremap
    <3>2. Same(proc[q], r) /\ Same(proc[q], [r EXCEPT !.k = 0])
      BY <1>1, MemoryOnly
    <3>3. QED
      BY <3>1, <3>2
  <2>3. QED
    BY <2>1, <2>2
<1>3. ProcInv(q, Done(s)) /\ ProcInv(q, s)
  BY <1>1, <1>2, LoseInv, DoneInv
<1>4. QED
  BY <1>2, <1>3, BecomesInv

\* split_thp leaves the process alone or ends it.
LEMMA SplitInv ==
  ASSUME NEW q, NEW r, Shape(r), NEW K
  PROVE  SplitChunks(r, K) = r
         \/ (SplitChunks(r, K).ph \in Ended /\ ProcInv(q, SplitChunks(r, K)))
  BY EndsInv, EndsTurns DEF SplitChunks, Ended, Turns

LEMMA WorkGood ==
  ASSUME EngineInv, NEW q \in Procs, Work(q)
  PROVE  Good
<1>1. /\ prog \in Programs /\ ProcInv(q, proc[q]) /\ proc[q].ph \notin Over /\ Shape(proc[q])
      /\ Op(proc[q]).op \in Works
  BY RunningFacts DEF Work
<1>2. ProcInv(q, Done(proc[q])) /\ ProcInv(q, After(proc[q]))
  BY <1>1, DoneOf DEF Works, Mmaps
<1>3. PICK K : \/ Becomes(q, After(SplitChunks(proc[q], K)))
               \/ Becomes(q, Done(proc[q]))
  BY DEF Work
<1>4. ProcInv(q, After(SplitChunks(proc[q], K)))
  BY <1>1, <1>2, SplitInv DEF After
<1>5. QED
  BY <1>2, <1>3, <1>4, BecomesInv

\* Operations that wait in the middle.
LEMMA InnerGood ==
  ASSUME EngineInv, NEW q \in Procs, Inject(q) \/ WaitOp(q) \/ Hotremove(q) \/ memblock_check(q)
  PROVE  Good
<1>1. /\ prog \in Programs /\ ProcInv(q, proc[q]) /\ Shape(proc[q])
      /\ proc[q].ph \notin Over \cup {"stress"}
      /\ Op(proc[q]).op \in Waiters \cup {"memory_error_injection", "hotremove"}
      /\ Op(proc[q]).op = "memory_error_injection" => ~proc[q].wait_after
  <2>1. CASE memblock_check(q)
    BY <2>1 DEF EngineInv, memblock_check, ProcInv, AtOp, Over, Ended
  <2>2. CASE ~memblock_check(q)
    BY <2>2, RunningFacts DEF Inject, WaitOp, Hotremove
  <2>3. QED
    BY <2>1, <2>2
<1>2. PICK s, ph : /\ proc' = [proc EXCEPT ![q] = s]
                   /\ s = Ends(proc[q], "failed") \/ Turns(proc[q], s, ph)
                   /\ ph = "inner" \/ (ph = "scan" /\ Op(proc[q]).op = "hotremove")
  <2>1. CASE Inject(q) \/ WaitOp(q)
    BY <1>1, <2>1, EndsTurns DEF Inject, WaitOp, Becomes
  <2>2. CASE Hotremove(q)
    <3>1. PICK f, sc : \/ Becomes(q, Ends(proc[q], "failed"))
                       \/ Becomes(q, [proc[q] EXCEPT !.filters = f, !.scan = sc, !.ph = "scan"])
      BY <2>2 DEF Hotremove
    <3>2. Turns(proc[q], [proc[q] EXCEPT !.filters = f, !.scan = sc, !.ph = "scan"], "scan")
      BY <1>1 DEF Turns, Shape, Fields
    <3>3. QED
      BY <2>2, <3>1, <3>2 DEF Becomes, Hotremove, Running
  <2>3. CASE memblock_check(q)
    <3>1. PICK sc : \/ proc' = [proc EXCEPT ![q].scan = sc]
                    \/ Becomes(q, Ends(proc[q], "failed"))
                    \/ Becomes(q, [proc[q] EXCEPT !.scan = NoScan, !.ph = "inner"])
      BY <2>3 DEF memblock_check
    <3>2. /\ Turns(proc[q], [proc[q] EXCEPT !.scan = sc], "scan")
          /\ Turns(proc[q], [proc[q] EXCEPT !.scan = NoScan, !.ph = "inner"], "inner")
      BY <1>1, <2>3 DEF Turns, Shape, Fields, memblock_check
    <3>3. Op(proc[q]).op = "hotremove"
      BY <1>1, <2>3 DEF memblock_check, ProcInv, AtOp
    <3>4. QED
      BY <3>1, <3>2, <3>3 DEF Becomes, EngineInv
  <2>4. QED
    BY <2>1, <2>2, <2>3
<1>3. ProcInv(q, s)
  <2>1. CASE s = Ends(proc[q], "failed")
    BY <1>1, <2>1, EndsInv DEF Ended
  <2>2. CASE Turns(proc[q], s, ph)
    <3>1. AtOp(s)
      BY <1>1, <1>2, <2>2 DEF AtOp, Turns, Op
    <3>2. QED
      BY <1>1, <1>2, <2>2, <3>1, PhaseInv
  <2>3. QED
    BY <1>2, <2>1, <2>2
<1>4. QED
  BY <1>2, <1>3 DEF Good, EngineInv

LEMMA BusyGood ==
  ASSUME EngineInv, NEW q \in Procs, BusyDies(q)
  PROVE  Good
<1>1. /\ prog \in Programs /\ ProcInv(q, proc[q]) /\ proc[q].ph \notin Over
      /\ Uses(Op(proc[q]))
  BY DEF EngineInv, BusyDies, Uses, Over, Ended
<1>2. PICK s \in DoAccess(proc[q]) : s.ph \in Ended /\ Becomes(q, s)
  BY DEF BusyDies
<1>3. ProcInv(q, s)
  BY <1>1, <1>2, AccessInv DEF Over
<1>4. QED
  BY <1>2, <1>3, BecomesInv
-----------------------------------------------------------------------------
LEMMA ForkGood ==
  ASSUME EngineInv, NEW q \in Procs, Fork(q)
  PROVE  Good
<1> DEFINE r == proc[q]
<1>1. /\ prog \in Programs /\ ProcInv(q, r) /\ r.ph = "run" /\ Shape(r)
      /\ r.ph \notin Over \cup {"stress"} /\ ~r.wait_after /\ Op(r).op \in Forks
  BY RunningFacts DEF Fork
<1>2. PICK c \in Procs : /\ FreeSlot(c)
        /\ \/ Op(r).op = "process_vm_access"
              /\ proc' = [proc EXCEPT ![q] = Ends(r, "inner"), ![c] = Child(r)]
           \/ proc' = [proc EXCEPT ![q] = Done(r), ![c] = Child(r)]
  BY DEF Fork
<1>3. ProcInv(q, Done(r))
  BY <1>1, DoneOf DEF Forks, Mmaps
<1>4. ASSUME Op(r).op = "process_vm_access"
      PROVE  ProcInv(q, Ends(r, "inner"))
  <2>1. Turns(r, Ends(r, "inner"), "inner")
    BY <1>1, EndsTurns
  <2>2. AtOp(Ends(r, "inner"))
    BY <1>4, <2>1 DEF AtOp, Turns, Op
  <2>3. QED
    BY <1>1, <1>4, <2>1, <2>2, PhaseInv
<1>5. ProcInv(c, Child(r))
  <2> DEFINE s == Child(r)
  <2>1. /\ DOMAIN s = Fields /\ s.pc = r.pc /\ s.ph = "child" /\ s.testpipe = FALSE
        /\ s.wait_after = TRUE /\ s.p = r.p /\ s.mem = r.mem
    BY <1>1 DEF Child, Shape, Fields
  <2> HIDE DEF s
  <2>2. Shape(s) /\ s.pc <= Len(prog.ops)
    BY <1>1, <2>1 DEF ProcInv, Shape, Phases
  <2>3. Memory(s, s.pc - 1)
    BY <1>1, <2>1 DEF ProcInv, Memory, Placed, Whole
  <2>4. AtOp(s)
    BY <1>1, <2>1 DEF AtOp, Op
  <2>5. ~AtStart(s)
    BY <2>1 DEF AtStart
  <2>6. QED
    BY <2>1, <2>2, <2>3, <2>4, <2>5 DEF ProcInv, s
<1>6. q # c
  BY <1>1, <1>2 DEF FreeSlot
<1>7. QED
  BY <1>2, <1>3, <1>4, <1>5, <1>6 DEF Good, EngineInv

LEMMA ChildRunsGood ==
  ASSUME EngineInv, NEW q \in Procs, ChildRuns(q)
  PROVE  Good
<1> DEFINE r == proc[q]
           Out(s) == s = r \/ (s.ph \in Ended /\ ProcInv(q, s))
<1>1. /\ prog \in Programs /\ ProcInv(q, r) /\ r.ph = "child" /\ Shape(r)
      /\ r.ph \notin Over \cup {"stress"} /\ Op(r).op \in Forks
  BY DEF EngineInv, ChildRuns, ProcInv, AtOp, Over, Ended
<1>2. \A s \in DoAccess(r) : Out(s)
  BY <1>1, AccessInv DEF Uses
<1>3. \A K : Out(SplitChunks(r, K))
  BY <1>1, SplitInv
<1>4. PICK s : /\ Out(s)
               /\ Becomes(q, IF s.ph \in Ended THEN s
                             ELSE IF Op(s).op = "process_vm_access" THEN Ends(s, "inner")
                             ELSE Done(s))
  <2>1. PICK r1 \in DoAccess(r) :
          \E r2 \in IF r1.ph = "child" /\ Op(r1).op = "fork_pmd_split"
                    THEN {SplitChunks(r1, K) : K \in Reached} ELSE {r1} :
          \E r3 \in IF r2.ph = "child" /\ Op(r2).op = "fork_pmd_split" THEN DoAccess(r2) ELSE {r2} :
            Becomes(q, IF r3.ph \in Ended THEN r3
                       ELSE IF Op(r3).op = "process_vm_access" THEN Ends(r3, "inner")
                       ELSE Done(r3))
    BY DEF ChildRuns
  <2>2. PICK r2 \in IF r1.ph = "child" /\ Op(r1).op = "fork_pmd_split"
                    THEN {SplitChunks(r1, K) : K \in Reached} ELSE {r1} :
          \E r3 \in IF r2.ph = "child" /\ Op(r2).op = "fork_pmd_split" THEN DoAccess(r2) ELSE {r2} :
            Becomes(q, IF r3.ph \in Ended THEN r3
                       ELSE IF Op(r3).op = "process_vm_access" THEN Ends(r3, "inner")
                       ELSE Done(r3))
    BY <2>1
  <2>3. Out(r1)
    BY <1>2, <2>1
  <2>4. Out(r2)
    <3>1. CASE r1 = r
      BY <1>3, <2>2, <2>3, <3>1
    <3>2. CASE r1.ph \in Ended /\ ProcInv(q, r1)
      BY <2>2, <3>2 DEF Ended
    <3>3. QED
      BY <2>3, <3>1, <3>2
  <2>5. PICK r3 \in IF r2.ph = "child" /\ Op(r2).op = "fork_pmd_split" THEN DoAccess(r2) ELSE {r2} :
            Becomes(q, IF r3.ph \in Ended THEN r3
                       ELSE IF Op(r3).op = "process_vm_access" THEN Ends(r3, "inner")
                       ELSE Done(r3))
    BY <2>2
  <2>6. Out(r3)
    <3>1. CASE r2 = r
      BY <1>2, <2>4, <2>5, <3>1
    <3>2. CASE r2.ph \in Ended /\ ProcInv(q, r2)
      BY <2>5, <3>2 DEF Ended
    <3>3. QED
      BY <2>4, <3>1, <3>2
  <2>7. QED
    BY <2>5, <2>6
<1>5. CASE s.ph \in Ended
  BY <1>1, <1>4, <1>5, BecomesInv DEF Over
<1>6. CASE s = r /\ Op(r).op = "process_vm_access"
  <2>1. Turns(r, Ends(r, "inner"), "inner")
    BY <1>1, EndsTurns
  <2>2. AtOp(Ends(r, "inner"))
    BY <1>6, <2>1 DEF AtOp, Turns, Op
  <2>3. ProcInv(q, Ends(r, "inner"))
    BY <1>1, <1>6, <2>1, <2>2, PhaseInv
  <2>4. QED
    BY <1>1, <1>4, <1>6, <2>3, BecomesInv DEF Ended
<1>7. CASE s = r /\ Op(r).op # "process_vm_access"
  <2>1. ProcInv(q, Done(r))
    BY <1>1, DoneOf DEF Forks, Mmaps
  <2>2. QED
    BY <1>1, <1>4, <1>7, <2>1, BecomesInv DEF Ended
<1>8. QED
  BY <1>4, <1>5, <1>6, <1>7

LEMMA ForkStressGood ==
  ASSUME EngineInv, NEW q \in Procs, ForkStress(q)
  PROVE  Good
<1> DEFINE r == proc[q]
<1>1. /\ prog \in Programs /\ ProcInv(q, r) /\ r.ph = "run" /\ Shape(r)
      /\ r.ph \notin Over \cup {"stress"} /\ ~r.wait_after /\ Op(r).op = "fork_stress"
  BY RunningFacts DEF ForkStress
<1>2. PICK c \in Procs :
        /\ FreeSlot(c)
        /\ proc' = [proc EXCEPT ![q].ph = "waitpid", ![q].child = c, ![c] = Ends(r, "stress")]
  BY DEF ForkStress
<1>3. q # c
  BY <1>1, <1>2 DEF FreeSlot
<1> DEFINE s == [[r EXCEPT !.ph = "waitpid"] EXCEPT !.child = c]
<1>4. proc' = [[proc EXCEPT ![q] = s] EXCEPT ![c] = Ends(r, "stress")]
  BY <1>2, <1>3 DEF EngineInv
<1>5. ProcInv(q, s)
  <2>1. Turns(r, s, "waitpid")
    BY <1>1 DEF Turns, Shape, Fields
  <2>2. AtOp(s)
    BY <1>1, <2>1 DEF AtOp, Turns, Op
  <2> HIDE DEF s
  <2>3. QED
    BY <1>1, <2>1, <2>2, PhaseInv
<1>6. ProcInv(c, Ends(r, "stress"))
  <2> DEFINE t == Ends(r, "stress")
  <2>1. Turns(r, t, "stress")
    BY <1>1, EndsTurns
  <2> HIDE DEF t
  <2>2. Shape(t) /\ t.pc <= Len(prog.ops) /\ ~t.wait_after
    BY <1>1, <2>1 DEF ProcInv, Shape, Phases, Turns
  <2>3. Memory(t, t.pc - 1)
    BY <1>1, <2>1 DEF ProcInv, Memory, Placed, Whole, Turns
  <2>4. AtOp(t)
    BY <1>1, <2>1 DEF AtOp, Op, Turns
  <2>5. t.ph = "stress"
    BY <2>1 DEF Turns
  <2>6. QED
    BY <2>2, <2>3, <2>4, <2>5 DEF ProcInv, t
<1> HIDE DEF s
<1>7. QED
  BY <1>3, <1>4, <1>5, <1>6 DEF Good, EngineInv

LEMMA StressChildGood ==
  ASSUME EngineInv, NEW q \in Procs, StressChild(q)
  PROVE  Good
<1>1. /\ prog \in Programs /\ ProcInv(q, proc[q]) /\ proc[q].ph \notin Over
      /\ Op(proc[q]).op = "fork_stress"
  BY DEF EngineInv, StressChild, ProcInv, AtOp, Over, Ended
<1>2. PICK s \in DoAccess(proc[q]) : Becomes(q, After(s))
  BY DEF StressChild
<1>3. s = proc[q] \/ (s.ph \in Ended /\ ProcInv(q, s))
  BY <1>1, <1>2, AccessInv DEF Uses
<1>4. ProcInv(q, After(s))
  BY <1>1, <1>3, DoneOf DEF After, Mmaps
<1>5. QED
  BY <1>2, <1>4, BecomesInv

LEMMA WaitpidGood ==
  ASSUME EngineInv, NEW q \in Procs, Waitpid(q)
  PROVE  Good
<1> DEFINE r == proc[q]
           c == proc[q].child
           s == [[r EXCEPT !.ph = "run"] EXCEPT !.child = NULL]
<1>1. /\ prog \in Programs /\ ProcInv(q, r) /\ r.ph = "waitpid" /\ Shape(r)
      /\ r.ph \notin Over \cup {"stress"} /\ Op(r).op = "fork_stress" /\ ~r.wait_after
  BY DEF EngineInv, Waitpid, ProcInv, AtStart, AtOp, Over, Ended
<1>2. q # c
  BY <1>1 DEF Waitpid, Ended
<1>3. proc' = [[proc EXCEPT ![q] = s] EXCEPT ![c] = Unborn]
  BY <1>2 DEF EngineInv, Waitpid
<1>4. ProcInv(q, s)
  <2>1. Turns(r, s, "run")
    BY <1>1 DEF Turns, Shape, Fields
  <2>2. AtOp(s)
    BY <1>1, <2>1 DEF AtOp, Turns, Op
  <2> HIDE DEF s
  <2>3. QED
    BY <1>1, <2>1, <2>2, PhaseInv
<1>5. \A x : ProcInv(x, Unborn)
  <2>1. 1 \in 1 .. (Len(prog.ops) + 1)
    BY <1>1, ProgramSizes
  <2>2. Unborn.ph = "unborn" /\ Shape(Unborn)
    BY <2>1 DEF Unborn, Fresh, Shape, Fields, Phases, Over
  <2>3. QED
    BY <2>2 DEF ProcInv, Over
<1> HIDE DEF s
<1>6. QED
  BY <1>2, <1>3, <1>4, <1>5 DEF Good, EngineInv

-----------------------------------------------------------------------------
LEMMA IterateMappingGood ==
  ASSUME EngineInv, NEW q \in Procs, IterateMapping(q)
  PROVE  Good
<1> DEFINE r == proc[q]  r1 == DoMmap(proc[q])
<1>1. /\ prog \in Programs /\ ProcInv(q, r) /\ r.ph = "run" /\ Shape(r)
      /\ Op(r).op = "iterate_mapping"
  BY RunningFacts DEF IterateMapping
<1>2. CASE r1 = Ends(r, "failed")
  <2>1. ProcInv(q, r1) /\ r1.ph = "failed"
    BY <1>1, <1>2, EndsInv, EndsTurns DEF Ended, Turns
  <2>2. QED
    BY <2>1, BecomesInv DEF IterateMapping
<1>3. CASE Same(r, r1) /\ Placed(r1) /\ Whole(r1)
  <2>1. ProcInv(q, r1) /\ r1.ph = "run" /\ Shape(r1) /\ Op(r1) = Op(r) /\ r1.ph \notin Over
    BY <1>1, <1>3, LoseInv DEF GivesAway, Same, ProcInv, Op, Over, Ended
  <2>2. PICK r2 \in DoAccess(r1) :
          IF r2.ph \in Ended THEN Becomes(q, r2) ELSE \E r3 \in DoMunmap(r2) : Becomes(q, r3)
    BY <2>1 DEF IterateMapping
  <2>3. r2 = r1 \/ (r2.ph \in Ended /\ ProcInv(q, r2))
    BY <1>1, <1>3, <2>1, <2>2, AccessInv
  <2>4. CASE r2.ph \in Ended
    BY <2>1, <2>2, <2>3, <2>4, BecomesInv
  <2>5. CASE r2 = r1 /\ r2.ph \notin Ended
    <3>1. PICK r3 \in DoMunmap(r1) : Becomes(q, r3)
      BY <2>2, <2>5
    <3>2. Same(r1, r3)
      BY <2>1, <3>1, MemoryOnly
    <3>3. ProcInv(q, r3)
      BY <1>1, <2>1, <3>2, LoseInv DEF GivesAway
    <3>4. QED
      BY <3>1, <3>3, BecomesInv
  <2>6. QED
    BY <2>3, <2>4, <2>5
<1>4. QED
  BY <1>1, <1>2, <1>3, MmapInv

LEMMA MremapStressGood ==
  ASSUME EngineInv, NEW q \in Procs, MremapStress(q)
  PROVE  Good
<1> DEFINE r == proc[q]
<1>1. /\ prog \in Programs /\ ProcInv(q, r) /\ r.ph \in {"run", "back"} /\ Shape(r)
      /\ Op(r).op = "mremap_stress" /\ ~r.wait_after /\ r.ph \notin Over \cup {"stress"}
  BY DEF EngineInv, MremapStress, Running, ProcInv, AtStart, AtOp, Over, Ended
<1>2. PICK m \in MremapChunk(r, r.ph = "back") :
        Becomes(q, IF Walked(m)
                   THEN [m EXCEPT !.k = 0, !.ph = IF @ = "run" THEN "back" ELSE "run"] ELSE m)
  BY DEF MremapStress
<1>3. Same(r, m) /\ Shape(m)
  BY <1>1, MemoryOnly
<1>4. ProcInv(q, m) /\ m.ph \in {"run", "back"} /\ ~m.wait_after /\ Op(m).op = "mremap_stress"
  BY <1>1, <1>3, LoseInv DEF GivesAway, ProcInv, Same, Op
<1> DEFINE ph == IF m.ph = "run" THEN "back" ELSE "run"
           s == [m EXCEPT !.k = 0, !.ph = IF @ = "run" THEN "back" ELSE "run"]
<1>5. Turns(m, s, ph) /\ ph \in {"run", "back"}
  BY <1>3 DEF Turns, Shape, Fields
<1>6. ProcInv(q, s)
  <2> HIDE DEF s, ph
  <2>1. AtOp(s)
    BY <1>4, <1>5 DEF AtOp, Turns, Op
  <2>2. QED
    BY <1>1, <1>4, <1>5, <2>1, PhaseInv DEF Over, Ended
<1>7. QED
  BY <1>2, <1>4, <1>6, BecomesInv

LEMMA IterateFaultGood ==
  ASSUME EngineInv, NEW q \in Procs, IterateFault(q)
  PROVE  Good
<1> DEFINE r == proc[q]  m == DoMmap(proc[q])
<1>1. /\ prog \in Programs /\ ProcInv(q, r) /\ r.ph \in {"run", "rounds"} /\ Shape(r)
      /\ r.ph \notin Over /\ Op(r).op = "iterate_fault_dontneed"
  BY DEF EngineInv, IterateFault, Running, ProcInv, AtOp, Over, Ended
<1>2. CASE r.ph = "rounds"
  <2>1. PICK s \in DoAccess(r) : Becomes(q, s)
    BY <1>2 DEF IterateFault, Running
  <2>2. Placed(r) /\ Whole(r)
    BY <1>1, <1>2 DEF ProcInv, AtOp
  <2>3. s = r \/ ProcInv(q, s)
    BY <1>1, <2>1, <2>2, AccessInv
  <2>4. QED
    BY <1>1, <2>1, <2>3, BecomesInv
<1>3. CASE r.ph = "run" /\ m = Ends(r, "failed")
  <2>1. ProcInv(q, m) /\ m.ph = "failed"
    BY <1>1, <1>3, EndsInv, EndsTurns DEF Ended, Turns
  <2>2. QED
    BY <1>3, <2>1, BecomesInv DEF IterateFault
<1>4. CASE r.ph = "run" /\ Same(r, m) /\ Placed(m) /\ Whole(m)
  <2> DEFINE s == Ends(m, "rounds")
  <2>1. Becomes(q, s)
    BY <1>4 DEF IterateFault, Same
  <2>2. Shape(m)
    BY <1>1, <1>4 DEF Shape, Same
  <2>3. Turns(m, s, "rounds")
    BY <2>2, EndsTurns
  <2> HIDE DEF m, s
  <2>4. Shape(s) /\ s.pc <= Len(prog.ops) /\ Placed(s) /\ Whole(s)
        /\ s.ph = "rounds" /\ s.testpipe = r.testpipe
    BY <1>1, <1>4, <2>2, <2>3 DEF ProcInv, Shape, Phases, Turns, Same, Placed, Whole
  <2>5. AtOp(s)
    BY <1>1, <1>4, <2>3, <2>4 DEF AtOp, Op, Turns, Same
  <2>6. Memory(s, s.pc - 1) /\ ~AtStart(s)
    BY <2>4 DEF Memory, AtStart
  <2>7. ProcInv(q, s)
    BY <1>1, <1>4, <2>4, <2>5, <2>6 DEF ProcInv
  <2>8. QED
    BY <2>1, <2>7, BecomesInv
<1>5. QED
  BY <1>1, <1>2, <1>3, <1>4, MmapInv

LEMMA AnswerGood ==
  ASSUME EngineInv, NEW q \in Procs, Answer(q)
  PROVE  Good
<1> DEFINE r == proc[q]
<1>1. /\ prog \in Programs /\ ProcInv(q, r) /\ r.ph \in Waits /\ Shape(r) /\ AtOp(r)
      /\ r.ph \notin Over \cup {"stress"}
  BY DEF EngineInv, Answer, ProcInv, Waits, Over, Ended
<1>2. PICK s \in CASE r.ph = "before" -> {Ends(r, "run")}
                   [] r.ph = "inner" -> AfterInner(r)
                   [] r.ph = "inner2" -> {After(x) : x \in DoAccess(Ends(r, "run"))}
                   [] OTHER -> {Advance(r)} : Becomes(q, s)
  BY DEF Answer
<1>3. ASSUME r.ph \in {"before", "inner2"}
      PROVE  /\ ProcInv(q, Ends(r, "run")) /\ Op(Ends(r, "run")) = Op(r)
             /\ Ends(r, "run").ph = "run"
  <2>1. Turns(r, Ends(r, "run"), "run")
    BY <1>1, EndsTurns
  <2>2. AtOp(Ends(r, "run")) /\ Op(Ends(r, "run")) = Op(r)
    BY <2>1 DEF AtOp, Turns, Op
  <2>3. ~r.wait_after
    BY <1>1, <1>3 DEF ProcInv, AtStart, AtOp
  <2>4. QED
    BY <1>1, <2>1, <2>2, <2>3, PhaseInv DEF Turns
<1>4. CASE r.ph = "before"
  BY <1>2, <1>3, <1>4, BecomesInv
<1>5. CASE r.ph = "inner"
  <2>1. Op(r).op \notin Mmaps
    BY <1>1, <1>5 DEF AtOp, Mmaps, Waiters
  <2>2. ProcInv(q, Done(r))
    BY <1>1, <2>1, DoneOf
  <2>3. ASSUME Op(r).op = "memory_error_injection"
        PROVE  ProcInv(q, Ends(r, "inner2"))
    <3>1. Turns(r, Ends(r, "inner2"), "inner2")
      BY <1>1, EndsTurns
    <3>2. AtOp(Ends(r, "inner2"))
      BY <2>3, <3>1 DEF AtOp, Turns, Op
    <3>3. ~r.wait_after
      BY <1>1, <1>5, <2>3 DEF ProcInv, AtStart
    <3>4. QED
      BY <1>1, <3>1, <3>2, <3>3, PhaseInv
  <2>4. s \in AfterInner(r)
    BY <1>2, <1>5
  <2>5. ProcInv(q, s)
    BY <2>2, <2>3, <2>4 DEF AfterInner
  <2>6. QED
    BY <1>2, <2>5, BecomesInv
<1>6. CASE r.ph = "inner2"
  <2> DEFINE t == Ends(r, "run")
  <2>1. Op(t).op = "memory_error_injection" /\ ProcInv(q, t) /\ t.ph \notin Over
    BY <1>1, <1>3, <1>6 DEF AtOp, Over, Ended
  <2>2. PICK x \in DoAccess(t) : s = After(x)
    BY <1>2, <1>6
  <2> HIDE DEF t
  <2>3. x = t \/ (x.ph \in Ended /\ ProcInv(q, x))
    BY <1>1, <2>1, <2>2, AccessInv DEF Uses
  <2>4. ProcInv(q, s)
    BY <1>1, <2>1, <2>2, <2>3, DoneOf DEF After, Mmaps
  <2>5. QED
    BY <1>2, <2>4, BecomesInv
<1>7. CASE r.ph = "after"
  <2>1. ProcInv(q, Advance(r))
    BY <1>1, <1>7, FinishedOf, AdvanceInv
  <2>2. QED
    BY <1>2, <1>7, <2>1, BecomesInv
<1>8. QED
  BY <1>1, <1>4, <1>5, <1>6, <1>7 DEF Waits

LEMMA KillGood ==
  ASSUME EngineInv, NEW q \in Procs, Kill(q)
  PROVE  Good
<1>1. ProcInv(q, Ends(proc[q], "killed"))
  <2>1. Shape(proc[q])
    BY DEF EngineInv, ProcInv
  <2>2. QED
    BY <2>1, EndsInv DEF Ended
<1>2. proc' = [proc EXCEPT ![q] = Ends(proc[q], "killed")] \/ proc' = proc
  <2>1. proc' = [proc EXCEPT ![q].ph = "killed"] \/ proc' = proc
    BY DEF Kill
  <2>2. QED
    BY <2>1 DEF Ends
<1>3. QED
  BY <1>1, <1>2 DEF Good, EngineInv

\* A step leaves every process as it should be.
LEMMA StepGood ==
  ASSUME EngineInv, [Next]_vars
  PROVE  Good
<1>1. CASE Snapshot \/ UNCHANGED vars
  BY <1>1 DEF Snapshot, vars, Good, EngineInv
<1>2. ASSUME NEW q \in Procs, Step(q)
      PROVE  Good
  <2>1. CASE IterateFile(q) \/ MbindFuzz(q)
    BY <2>1 DEF IterateFile, MbindFuzz, Good, EngineInv
  <2>2. QED
    BY <1>2, <2>1, FetchGood, PlainGood, MmapGood, AllocateMoreGood, AccessGood,
       MunmapGood, WorkGood, InnerGood, BusyGood, ForkGood, ChildRunsGood,
       ForkStressGood, StressChildGood, WaitpidGood, IterateMappingGood,
       MremapStressGood, IterateFaultGood DEF Step
<1>3. QED
  BY <1>1, <1>2, AnswerGood, KillGood DEF Next

\* The list, and the machine, are fixed when the program starts.
LEMMA ProgFixed ==
  ASSUME [Next]_vars
  PROVE  prog' = prog /\ blocks' = blocks
<1>1. ASSUME NEW q \in Procs, Step(q)
      PROVE  prog' = prog /\ blocks' = blocks
  BY <1>1 DEF Step, Fetch, Plain, Mmap, AllocateMore, Access, Munmap, Mremap, Work,
     Inject, WaitOp, Hotremove, memblock_check, BusyDies, Fork, ChildRuns, ForkStress,
     StressChild, Waitpid, IterateMapping, MremapStress, IterateFault, IterateFile, MbindFuzz, envvars
<1>2. ASSUME NEW q \in Procs, Answer(q) \/ Kill(q)
      PROVE  prog' = prog /\ blocks' = blocks
  BY <1>2 DEF Answer, Kill, envvars
<1>3. QED
  BY <1>1, <1>2 DEF Next, Snapshot, vars

\* Every process is where its list, its phase and the operations it has run put
\* it: in particular its memory is where do_mmap put it, and whole until an
\* operation gave it away; a process whose testpipe is set is the one the recipe
\* started, or a child of fork_stress that is about to end.
THEOREM EngineInvariant == Spec => []EngineInv
<1>1. EngineInit => EngineInv
  <2>1. SUFFICES ASSUME EngineInit PROVE EngineInv
    OBVIOUS
  <2>2. prog \in Programs /\ 1 \in 1 .. (Len(prog.ops) + 1) /\ 1 <= Len(prog.ops)
    BY <2>1, ProgramSizes DEF EngineInit
  <2>3. /\ DOMAIN Fresh = Fields /\ Fresh.pc = 1 /\ Fresh.ph = "fetch" /\ Fresh.testpipe = TRUE
        /\ Fresh.wait_after = FALSE
    BY DEF Fresh, Fields
  <2>4. Shape(Fresh) /\ Unborn.ph = "unborn" /\ Shape(Unborn)
    BY <2>2, <2>3 DEF Unborn, Shape, Fields, Phases, Over
  <2>5. AtOp(Fresh) /\ Memory(Fresh, Fresh.pc - 1)
    BY <2>3 DEF AtOp, Memory, Among
  <2>6. ProcInv(0, Fresh)
    BY <2>2, <2>3, <2>4, <2>5 DEF ProcInv
  <2>7. \A q : ProcInv(q, Unborn)
    BY <2>4 DEF ProcInv, Over
  <2>8. QED
    BY <2>1, <2>2, <2>6, <2>7 DEF EngineInit, EngineInv
<1>2. EngineInv /\ [Next]_vars => EngineInv'
  <2>1. SUFFICES ASSUME EngineInv, [Next]_vars PROVE EngineInv'
    OBVIOUS
  <2>2. Good /\ prog' = prog
    BY <2>1, StepGood, ProgFixed
  <2>3. ASSUME NEW q \in Procs
        PROVE  ProcInv(q, proc[q])'
    BY <2>2 DEF Good, ProcInv, AtStart, Shape, AtOp, Memory, Among, Placed, Whole, Op,
       Chunks, nr_chunk, nr_p
  <2>4. QED
    BY <2>1, <2>2, <2>3 DEF EngineInv, Good
<1>3. QED
  BY <1>1, <1>2, PTL DEF Spec

\* No process touches an address that is not mapped, the children included that
\* fork off anywhere in the list and run the rest of it: for every list that maps
\* before it uses and gives nothing away before the last use, every number of
\* pages, backends and processes (do_access, include.h:528).
THEOREM NoUnmappedAccess ==
  ASSUME UsedWhileMapped
  PROVE  Spec => []NoSegv
<1>1. EngineInv => NoSegv
  BY DEF EngineInv, ProcInv, NoSegv
<1>2. QED
  BY <1>1, EngineInvariant, PTL

-----------------------------------------------------------------------------
\* A process that prints a line is one the controller may hear.
Speaker(q, r) == ProcInv(q, r) /\ r.ph \notin Over \cup {"stress"}

\* What a step adds to the fifo.
LEMMA WhoSpeaks ==
  ASSUME EngineInv, [Next]_vars
  PROVE  spoke' = spoke \/ \E q \in Procs : \E r : Speaker(q, r) /\ spoke' = pprintf(q, r)
<1>1. Good
  BY StepGood
<1>2. ASSUME NEW q \in Procs, proc'[q].ph \in Waits
      PROVE  Speaker(q, proc'[q])
  BY <1>1, <1>2 DEF Good, Speaker, Waits, Over, Ended
<1>3. ASSUME NEW q \in Procs, NEW r, Becomes(q, r)
      PROVE  spoke' = spoke \/ (Speaker(q, r) /\ spoke' = pprintf(q, r))
  <2>1. proc'[q] = r
    BY <1>3 DEF Becomes, EngineInv
  <2>2. QED
    BY <1>2, <1>3, <2>1 DEF Becomes
<1>4. ASSUME NEW q \in Procs, proc[q].ph \in {"run", "scan"}
      PROVE  Speaker(q, proc[q])
  BY <1>4 DEF EngineInv, Speaker, Over, Ended
<1>5. ASSUME NEW q \in Procs, Fork(q)
      PROVE  spoke' = spoke \/ (Speaker(q, proc'[q]) /\ spoke' = pprintf(q, proc'[q]))
  <2> DEFINE r == IF Op(proc[q]).op = "process_vm_access" THEN Ends(proc[q], "inner")
                                                          ELSE Done(proc[q])
  <2>1. PICK c \in Procs : /\ FreeSlot(c)
                           /\ proc' = [proc EXCEPT ![q] = r, ![c] = Child(proc[q])]
                           /\ spoke' = IF r.ph \in Waits THEN pprintf(q, r) ELSE spoke
    BY <1>5 DEF Fork
  <2>2. q # c
    BY <1>5, <2>1 DEF Fork, Running, FreeSlot
  <2> HIDE DEF r
  <2>3. proc'[q] = r
    BY <2>1, <2>2 DEF EngineInv
  <2>4. QED
    BY <1>2, <2>1, <2>3
<1>6. ASSUME NEW q \in Procs, Step(q) \/ Answer(q)
      PROVE  spoke' = spoke \/ \E r : Speaker(q, r) /\ spoke' = pprintf(q, r)
  <2>1. CASE AllocateMore(q) \/ MbindFuzz(q) \/ memblock_check(q)
    BY <1>3, <1>4, <2>1 DEF AllocateMore, MbindFuzz, memblock_check, Running
  <2>2. CASE Fork(q)
    BY <1>5, <2>2
  <2>3. CASE ForkStress(q) \/ Waitpid(q) \/ IterateFile(q)
    BY <2>3 DEF ForkStress, Waitpid, IterateFile
  <2>4. CASE \E r : Becomes(q, r)
    BY <1>3, <2>4
  <2>5. QED
    BY <1>6, <2>1, <2>2, <2>3, <2>4 DEF Step, Answer, Fetch, Plain, Mmap, Access, Munmap,
       Mremap, Work, Inject, WaitOp, Hotremove, BusyDies, ChildRuns, StressChild,
       IterateMapping, MremapStress, IterateFault
<1>7. CASE Snapshot \/ UNCHANGED vars \/ \E q \in Procs : Kill(q)
  BY <1>7 DEF Snapshot, Kill, vars
<1>8. QED
  BY <1>6, <1>7 DEF Next

\* Only the process the recipe started writes to the fifo, whatever the children
\* of fork, fork_pmd_split, process_vm_access and fork_stress do with the rest of
\* the list: the controller never answers a line of a child's (testpipe = NULL,
\* do_fork; the children of fork_stress keep testpipe, and say nothing only
\* because fork_stress is the last operation of its lists).
THEOREM ChildrenAreSilent ==
  ASSUME StressIsLast
  PROVE  Spec => []OnlyMainSpeaks
<1>1. EngineInit => OnlyMainSpeaks
  BY DEF EngineInit, OnlyMainSpeaks
<1>2. EngineInv /\ OnlyMainSpeaks /\ [Next]_vars => OnlyMainSpeaks'
  <2>1. SUFFICES ASSUME EngineInv, OnlyMainSpeaks, [Next]_vars PROVE OnlyMainSpeaks'
    OBVIOUS
  <2>2. ASSUME NEW q \in Procs, NEW r, Speaker(q, r)
        PROVE  pprintf(q, r) \subseteq {0}
    <3>1. q = 0 \/ ~r.testpipe
      BY <2>2 DEF Speaker, ProcInv
    <3>2. QED
      BY <2>1, <3>1 DEF OnlyMainSpeaks, pprintf
  <2>3. QED
    BY <2>1, <2>2, WhoSpeaks DEF OnlyMainSpeaks
<1>3. QED
  BY <1>1, <1>2, EngineInvariant, PTL DEF Spec
-----------------------------------------------------------------------------
\* Where the pages of a chunk's operation are.
LEMMA WindowIsOwn ==
  ASSUME EngineInv, WorkIsMapped, NEW q \in Procs, NEW k \in Chunks,
         Running(q, Works \cup {"iterate_mlock", "iterate_write_fsync"}),
         Op(proc[q]).op = "split_thp" => Op(proc[q]).arg = "only_pmd"
  PROVE  /\ WorkWindow(proc[q], k) \subseteq Stride(k)
         /\ Op(proc[q]).arg \notin {"hp_partial", "only_pmd"}
              => WorkWindow(proc[q], k) \subseteq ChunkArea(nr_p, k)
<1> DEFINE r == proc[q]  o == Op(proc[q])
           b == BaseAddr(k)  n == SizeOfChunk(nr_p, k)
<1>1. /\ prog \in Programs /\ ProcInv(q, r) /\ r.ph = "run" /\ r.ph \notin Over
      /\ o.op \in Works \cup {"iterate_mlock", "iterate_write_fsync"}
  BY RunningFacts
<1>2. /\ r.pc \in 1 .. Len(prog.ops) /\ r.pc \in DOMAIN prog.ops /\ o \in Operations
      /\ nr_p \in Nat \ {0} /\ k \in Nat
  BY <1>1, ProgramSizes DEF ProcInv, Shape, Op
<1>3. Among(r.pc - 1, Mmaps) /\ (o.arg = "hp_partial" => o.win.length <= HP)
  BY <1>1, <1>2 DEF WorkIsMapped, Op, Among
<1>4. r.p[k] = b
  BY <1>1, <1>3 DEF ProcInv, Memory, Placed
<1>5. n \in 1 .. CHUNKSIZE /\ b \in Int /\ CHUNKSIZE \in Nat /\ HP \in Nat /\ HP > 1
  <2>1. n \in 1 .. CHUNKSIZE
    BY <1>2, SizeBounds
  <2>2. CHUNKSIZE \in Nat /\ HP \in Nat /\ HP > 1
    BY ChunkAssumption
  <2>3. b \in Int
    BY <1>2, <2>2 DEF BaseAddr
  <2>4. QED
    BY <2>1, <2>2, <2>3
<1>6. o.win \in [offset : Nat, length : Nat, step : Nat] /\ o.win.length \in Nat
  BY <1>2 DEF Operations
<1>7. /\ ChunkArea(nr_p, k) = Area(b, n) /\ Area(b, n) \subseteq Stride(k)
      /\ b \in Area(b, n)
  BY <1>5 DEF ChunkArea, Area, Stride
<1>8. MadviseSteps(b, n, o.win) \subseteq Area(b, n)
  BY <1>5, <1>6, AdviceStaysInChunk
<1>9. /\ SplitWindows(b, n) \subseteq Stride(k)
      /\ HeadWindows(b, n, 1) \subseteq Stride(k)
      /\ o.arg = "hp_partial" => HeadWindows(b, n, o.win.length) \subseteq Stride(k)
  <2> HIDE DEF b, n, o
  <2>1. 1 \in 0 .. HP /\ (o.arg = "hp_partial" => o.win.length \in 0 .. HP)
    BY <1>3, <1>5, <1>6
  <2>2. ASSUME NEW len \in 0 .. HP
        PROVE  HeadWindows(b, n, len) \subseteq Stride(k) /\ SplitWindows(b, n) \subseteq Stride(k)
    BY <1>2, <1>5, <2>2, WindowsStayInStride DEF b
  <2>3. QED
    BY <2>1, <2>2
<1>10. WorkWindow(r, k) =
         CASE o.op = "split_thp" -> SplitWindows(b, n)
           [] o.op = "madv_soft" \/ o.arg = "size" -> {b}
           [] o.op = "madvise" /\ o.arg = "step" -> MadviseSteps(b, n, o.win)
           [] o.op = "madvise" /\ o.arg = "hp_partial" -> HeadWindows(b, n, o.win.length)
           [] o.arg = "hp_partial" -> HeadWindows(b, n, 1)
           [] OTHER -> Area(b, n)
  BY <1>4 DEF WorkWindow, Size
<1> HIDE DEF b, n, o, r
<1>11. QED
  BY <1>7, <1>8, <1>9, <1>10 DEF o, r

\* What an operation does for a chunk stays in that chunk's stride, and in the
\* chunk unless it works on whole hugepages: for every list of operations, every
\* number of pages and backends and every hugepage size
\* (do_work_memory, __mlock_chunk, __do_madvise_chunk, __do_split_thp_chunk).
THEOREM ChunkWorkStaysHome ==
  ASSUME WorkIsMapped
  PROVE  Spec => []TouchedIsOwn
<1>1. EngineInit => TouchedIsOwn
  BY DEF EngineInit, TouchedIsOwn
<1>2. EngineInv /\ TouchedIsOwn /\ [Next]_vars => TouchedIsOwn'
  <2>1. SUFFICES ASSUME EngineInv, TouchedIsOwn, [Next]_vars, ~Has({"mbind_fuzz"})
                 PROVE  \A t \in touched' :
                          /\ t[2] \in Stride(t[1])
                          /\ (\A i \in DOMAIN prog.ops :
                                prog.ops[i].arg \notin {"hp_partial", "only_pmd"})
                               => t[2] \in ChunkArea(nr_p, t[1])
    BY ProgFixed DEF TouchedIsOwn, Has, nr_p
  <2>2. CASE touched' = touched
    BY <2>1, <2>2 DEF TouchedIsOwn
  <2>3. ASSUME NEW q \in Procs, Work(q) \/ IterateFile(q)
        PROVE  \A t \in touched' :
                 /\ t[2] \in Stride(t[1])
                 /\ (\A i \in DOMAIN prog.ops :
                       prog.ops[i].arg \notin {"hp_partial", "only_pmd"})
                      => t[2] \in ChunkArea(nr_p, t[1])
    <3>1. /\ Running(q, Works \cup {"iterate_mlock", "iterate_write_fsync"})
          /\ Op(proc[q]).op = "split_thp" => Op(proc[q]).arg = "only_pmd"
      BY <2>3 DEF Work, IterateFile, Running
    <3>2. PICK K \in Reached : touched' = UNION {{k} \X WorkWindow(proc[q], k) : k \in K}
      BY <2>3 DEF Work, IterateFile
    <3>3. K \subseteq Chunks
      BY <3>2 DEF Reached
    <3>4. (\A i \in DOMAIN prog.ops : prog.ops[i].arg \notin {"hp_partial", "only_pmd"})
            => Op(proc[q]).arg \notin {"hp_partial", "only_pmd"}
      BY <2>1, <3>1, RunningFacts, ProgramSizes DEF ProcInv, Shape, Op
    <3>5. ASSUME NEW t \in touched'
          PROVE  \E k \in Chunks : t[1] = k /\ t[2] \in WorkWindow(proc[q], k)
      BY <3>2, <3>3, <3>5
    <3>6. QED
      BY <2>1, <3>1, <3>4, <3>5, WindowIsOwn
  <2>4. ASSUME NEW q \in Procs, MbindFuzz(q)
        PROVE  FALSE
    <3>1. proc[q].pc \in DOMAIN prog.ops /\ Op(proc[q]).op = "mbind_fuzz"
      BY <2>1, <2>4, RunningFacts, ProgramSizes DEF MbindFuzz, ProcInv, Shape
    <3>2. QED
      BY <2>1, <3>1 DEF Has, Op
  <2>5. QED
    BY <2>1, <2>2, <2>3, <2>4 DEF Next, Step, Snapshot, Kill, Answer, vars, Fetch, Plain, Mmap,
       AllocateMore, Access, Munmap, Mremap, Inject, WaitOp, Hotremove, memblock_check, BusyDies,
       Fork, ChildRuns, ForkStress, StressChild, Waitpid, IterateMapping, MremapStress, IterateFault
<1>3. QED
  BY <1>1, <1>2, EngineInvariant, PTL DEF Spec
-----------------------------------------------------------------------------
(* What the filters of lib/pfn.h select, for every filter text.            *)

\* A filter: the bits looked at and the bits to find there.
Filter == [mask : SUBSET KPF_ALL_BITS, bits : SUBSET KPF_ALL_BITS]

\* The bits of all names, of those without and of those with '~'.
All(S) == UNION {parse_flag_name(n) : n \in S}
Plus(S) == {n \in S : ~n.neg}
Minus(S) == {n \in S : n.neg}

LEMMA NamesOfAll ==
  ASSUME NEW S, \A n \in S : n.neg \in BOOLEAN
  PROVE  parse_flag_names(S, TRUE) = All(S)
BY DEF parse_flag_names, All

LEMMA NamesOfPlus ==
  ASSUME NEW S, \A n \in S : n.neg \in BOOLEAN
  PROVE  parse_flag_names(S, FALSE) = All(Plus(S))
BY DEF parse_flag_names, All, Plus

\* Names from the table and numbers below 2^64 stand for bits of the flag word.
Words(S) == \A n \in S : n.neg \in BOOLEAN /\ parse_flag_name(n) \subseteq KPF_ALL_BITS

\* "mask=bits" lets a page through exactly when it has the flags on the right and
\* none of those on the left only, as long as the right side names nothing the
\* left side does not (parse_bits_mask and bit_mask_ok): the filters of
\* get_backend_pageflags mean what they say.
THEOREM MaskMeansItsText ==
  ASSUME NEW t, t.eq = TRUE, t.left # {}, Words(t.left), Words(t.right),
         Minus(t.left) = {}, Minus(t.right) = {},
         All(t.right) \subseteq All(t.left), All(t.right) # KPF_ALL_BITS,
         NEW flags \in SUBSET KPF_ALL_BITS
  PROVE  Passes(parse_bits_mask(t), flags)
           <=> /\ All(t.right) \subseteq flags
               /\ flags \cap (All(t.left) \ All(t.right)) = {}
<1>1. Plus(t.left) = t.left /\ Plus(t.right) = t.right
  BY DEF Plus, Minus, Words
<1>2. /\ parse_flag_names(t.left, FALSE) = All(t.left)
      /\ parse_flag_names(t.right, FALSE) = All(t.right)
  BY <1>1, NamesOfPlus DEF Words
<1>3. parse_bits_mask(t) = [mask |-> All(t.left), bits |-> All(t.right)]
  BY <1>2 DEF parse_bits_mask
<1>4. Passes(parse_bits_mask(t), flags) <=> flags \cap All(t.left) = All(t.right)
  BY <1>3 DEF Passes
<1> QED
  BY <1>4

\* "a,b": a page with one of the flags passes.
THEOREM ListMeansAny ==
  ASSUME NEW t, t.eq = FALSE, Words(t.left), Minus(t.left) = {},
         NEW flags \in SUBSET KPF_ALL_BITS
  PROVE  Passes(parse_bits_mask(t), flags) <=> flags \cap All(t.left) # {}
<1>1. Plus(t.left) = t.left /\ ~(\E n \in t.left : n.neg)
  BY DEF Plus, Minus, Words
<1>2. parse_flag_names(t.left, FALSE) = All(t.left)
  BY <1>1, NamesOfPlus DEF Words
<1>3. parse_bits_mask(t) = [mask |-> All(t.left), bits |-> KPF_ALL_BITS]
  BY <1>1, <1>2 DEF parse_bits_mask
<1> QED
  BY <1>3 DEF Passes

\* "a,~b": a page with all plain flags and none of the others passes.
THEOREM TildeMeansNot ==
  ASSUME NEW t, t.eq = FALSE, Words(t.left), Minus(t.left) # {},
         All(Plus(t.left)) # KPF_ALL_BITS,
         NEW flags \in SUBSET KPF_ALL_BITS
  PROVE  Passes(parse_bits_mask(t), flags)
           <=> /\ All(Plus(t.left)) \subseteq flags
               /\ flags \cap (All(Minus(t.left)) \ All(Plus(t.left))) = {}
<1>1. (\E n \in t.left : n.neg) /\ \A n \in t.left : n.neg \in BOOLEAN
  BY DEF Minus, Words
<1>2. /\ parse_flag_names(t.left, TRUE) = All(t.left)
      /\ parse_flag_names(t.left, FALSE) = All(Plus(t.left))
  BY <1>1, NamesOfPlus, NamesOfAll
<1>3. parse_bits_mask(t) = [mask |-> All(t.left), bits |-> All(Plus(t.left))]
  BY <1>1, <1>2 DEF parse_bits_mask
<1>4. All(t.left) = All(Plus(t.left)) \cup All(Minus(t.left))
  BY <1>1 DEF All, Plus, Minus
<1>5. Passes(parse_bits_mask(t), flags) <=> flags \cap All(t.left) = All(Plus(t.left))
  BY <1>3 DEF Passes
<1> QED
  BY <1>4, <1>5

\* A filter that wants a bit it does not look at, or a bit from 48 on (file), lets
\* no page of /proc/kpageflags through: the filters of the pagecache backends.
THEOREM OverloadedNeverPasses ==
  ASSUME NEW f \in Filter, f.bits # KPF_ALL_BITS, ~(f.bits \subseteq f.mask \cap RawBits),
         NEW flags \in SUBSET RawBits
  PROVE  ~Passes(f, flags)
BY DEF Passes, Filter

\* check_kpflags answers for the page behind the address whether it has the flag,
\* for every bit up to 30, although both operands are cut to int.
THEOREM ChecksTheBit ==
  ASSUME NEW entry, NEW kpageflags, NEW kpf \in 0 .. 30,
         kpageflags[pagemap_pfn(entry)] \subseteq KPF_ALL_BITS
  PROVE  check_kpflags(entry, kpageflags, kpf) <=> kpf \in kpageflags[pagemap_pfn(entry)]
<1>1. kpf < 31
  OBVIOUS
<1>2. kpf \notin 32 .. 63
  OBVIOUS
<1> QED
  BY <1>1, <1>2 DEF check_kpflags, get_my_pflags, KPF_ALL_BITS
=============================================================================
