---------------------------- MODULE MemoryProofs ----------------------------
(***************************************************************************)
(* Proofs about AllocEngine, continued: what becomes of the memory of a    *)
(* process in every step, that no page is lost or mapped twice, and that   *)
(* memblock_check picks the block it should.                               *)
(*                                                                         *)
(* Every step of the program leaves each process as it was, or as one of   *)
(* the few relations below says (StepTraced); each invariant is then       *)
(* shown to be kept by those relations rather than by the actions.         *)
(***************************************************************************)
EXTENDS EngineProofs, FiniteSetTheorems
-----------------------------------------------------------------------------
(* What a step does to the memory of a process.                            *)

\* s is r further on, with the same memory.
Keeps(r, s) ==
  /\ s.mem = r.mem /\ s.p = r.p /\ s.k = r.k /\ s.filters = r.filters /\ s.scan = r.scan
  /\ s.pc \in {r.pc, r.pc + 1} /\ s.ph \notin {"unborn", "scan"}
  /\ s.child \in {r.child, NULL} \cup Procs

\* The operations that change something, each as far as the invariants below
\* tell apart.
Maps(r, s) ==
  /\ Op(r).op \in Mmaps \cup {"iterate_fault_dontneed"}
  /\ \A k \in Chunks : ChunkArea(nr_p, k) \cap Mapped(r) = {}
  /\ Keeps([Map(r, UNION {ChunkArea(nr_p, k) : k \in Chunks})
              EXCEPT !.p = [k \in Chunks |-> BaseAddr(k)]], s)
Allocates(r, s) ==
  /\ Op(r).op = "allocate_more" /\ Area(nr_p, nr_p) \cap Mapped(r) = {}
  /\ Keeps(Map(r, Area(nr_p, nr_p)), s)
Unmaps(r, s) ==
  /\ Op(r).op \in {"munmap", "iterate_mapping"}
  /\ \E t \in {r, [Map(r, UNION {ChunkArea(nr_p, k) : k \in Chunks})
                     EXCEPT !.p = [k \in Chunks |-> BaseAddr(k)]]} :
       Keeps(t, s) \/ \E S : Keeps(Unmap(t, S), s)
MovesTo(r, s) ==
  /\ Op(r).op \in Moves
  /\ \E m \in MremapChunk(r, r.ph = "back") :
       (~Walked(m) /\ Keeps(m, s)) \/ Keeps([m EXCEPT !.k = 0], s)
StartsScan(r, s) ==
  /\ Op(r).op = "hotremove" /\ ~(Len(r.filters) >= MAX_BIT_FILTERS)
  /\ s = [r EXCEPT !.filters = Append(@, parse_bits_mask(Op(r).pageflags)),
                   !.scan = StartScan, !.ph = "scan"]
Scans(r, s) ==
  /\ Op(r).op = "hotremove" /\ r.ph = "scan"
  /\ \/ /\ r.scan.i < get_max_memblock(blocks.zones)
        /\ s = [r EXCEPT !.scan = ScanBlock(r.filters, r.scan)]
     \/ s = [r EXCEPT !.scan = NoScan, !.ph = "inner"]

\* Where a process can come from in a step.
Follows(x, s) ==
  \/ s = proc[x] \/ s = Unborn
  \/ \E q \in Procs : proc[q].ph # "unborn" /\ Keeps(proc[q], s)
  \/ /\ proc[x].ph \notin Over
     /\ \/ Maps(proc[x], s) \/ Allocates(proc[x], s) \/ Unmaps(proc[x], s)
        \/ MovesTo(proc[x], s) \/ StartsScan(proc[x], s) \/ Scans(proc[x], s)
Traced == \A x \in Procs : Follows(x, proc'[x])
-----------------------------------------------------------------------------
(* The invariants.                                                         *)

\* The values of a process.
ProcData(r) ==
  /\ \A k \in Chunks : r.p[k] \in {NULL, BaseAddr(k)}
  /\ r.k \in Chunks /\ r.child \in Procs \cup {NULL}
  /\ r.filters = <<>> \/ \E f : r.filters = <<f>>
  /\ DOMAIN r.scan = {"i", "blk", "matched", "buf"}
  /\ r.scan.i \in Nat /\ r.scan.blk \in Nat \cup {NULL}
  /\ DOMAIN r.mem \subseteq Int /\ \A a \in DOMAIN r.mem : r.mem[a] \in Nat

DataInv ==
  /\ \A q \in Procs : ProcData(proc[q])
  /\ blocks \in BlockMaps \/ ~Has({"hotremove"})
  /\ UsedWhileMapped => poison \subseteq Nat
  /\ pmemblk \in Nat /\ spoke \subseteq Procs

\* The pages of the chunk set.
Page(a) == \E k \in Chunks : a \in ChunkArea(nr_p, k)

\* A page is where do_mmap put it or where do_mremap moves it, not both.
Either(mem, a, W) ==
  ~((a \in DOMAIN mem /\ mem[a] = a) <=> (a + W \in DOMAIN mem /\ mem[a + W] = a))
Once(r) == \A a \in Int : Page(a) => Either(r.mem, a, Away)

PageProc(r) ==
  r.ph # "unborn" /\ ~Past(r, {"munmap", "iterate_mapping"}) =>
    /\ \A a \in Mapped(r) : r.mem[a] \in {a, a - Away}
    /\ ~Past(r, Moves) => \A a \in Mapped(r) : r.mem[a] = a
    /\ Has(Moves) => \A a \in Mapped(r) : Page(r.mem[a])
    /\ \/ Placed(r) /\ Once(r)
       \/ (\A k \in Chunks : r.p[k] = NULL) /\ (Has(Moves) => Mapped(r) = {})
PageInv == \A q \in Procs : PageProc(proc[q])

\* How many pages of block b the text t asks for.
Count(t, b) == Cardinality({j \in DOMAIN blocks.dump[b] : Wanted(t, blocks.dump[b][j])})

\* Where the scan ends: it starts at 2 in any case.
ScanMax == IF get_max_memblock(blocks.zones) > 2 THEN get_max_memblock(blocks.zones) ELSE 2

\* memblock_check before block i: the buffer holds a block it has read, and of
\* the blocks before none has more pages than the preferred one.
Scanned(t, sc) ==
  LET W == Weight(<<parse_bits_mask(t)>>)
      max == ScanMax
      B == Len(blocks.dump[2])
  IN /\ sc.i \in 2 .. max
     /\ DOMAIN sc.buf = 1 .. B
     /\ sc.i = 2 \/ \E b \in 2 .. (max - 1) : /\ b < sc.i /\ Len(blocks.dump[b]) = B
                                             /\ sc.buf = blocks.dump[b]
     /\ \/ sc.blk = NULL /\ sc.matched = 0
        \/ /\ sc.blk \in 2 .. (max - 1) /\ sc.matched > 0
           /\ sc.matched = Count(t, sc.blk) * W
     /\ \A b \in 2 .. (max - 1) : b < sc.i => Count(t, b) * W <= sc.matched
ScanProc(r) ==
  r.ph = "scan" => /\ r.filters = <<parse_bits_mask(Op(r).pageflags)>>
                   /\ Scanned(Op(r).pageflags, r.scan)
ScanInv == PicksFullestBlock /\ \A q \in Procs : ScanProc(proc[q])
-----------------------------------------------------------------------------
(* Every step is one of these.                                             *)

LEMMA KeepsEnds ==
  ASSUME NEW r, Shape(r), NEW ph, ph \notin {"unborn", "scan"}
  PROVE  Keeps(r, Ends(r, ph))
  BY DEF Keeps, Ends, Shape, Fields

LEMMA KeepsSame ==
  ASSUME NEW r, Shape(r), r.ph \notin {"unborn", "scan"}
  PROVE  Keeps(r, r)
  BY DEF Keeps

LEMMA KeepsAdvance ==
  ASSUME NEW r, Shape(r)
  PROVE  Keeps(r, Advance(r))
  BY DEF Keeps, Advance, Shape, Fields

LEMMA KeepsDone ==
  ASSUME NEW r, Shape(r)
  PROVE  Keeps(r, Done(r))
  BY KeepsEnds, KeepsAdvance DEF Done

LEMMA KeepsAfter ==
  ASSUME NEW r, Shape(r), r.ph \notin {"unborn", "scan"}
  PROVE  Keeps(r, After(r))
  BY KeepsDone, KeepsSame DEF After

\* do_access and split_thp leave the process alone or end it.
LEMMA KeepsAccess ==
  ASSUME NEW r, Shape(r), NEW s \in DoAccess(r)
  PROVE  s = r \/ (s.ph \in Ended /\ Keeps(r, s) /\ After(s) = s)
<1>1. s = r \/ \E how \in {"segv", "sigbus"} : s = Ends(r, how)
  BY DEF DoAccess
<1>2. ASSUME NEW how \in {"segv", "sigbus"}, s = Ends(r, how)
      PROVE  s.ph \in Ended /\ Keeps(r, s) /\ After(s) = s
  BY <1>2, KeepsEnds, EndsTurns DEF Turns, Ended, After
<1>3. QED
  BY <1>1, <1>2

LEMMA KeepsSplit ==
  ASSUME NEW r, Shape(r), NEW K
  PROVE  LET s == SplitChunks(r, K) IN
           s = r \/ (s.ph \in Ended /\ Keeps(r, s) /\ After(s) = s)
  BY KeepsEnds, EndsTurns DEF SplitChunks, Turns, Ended, After

\* A process whose step ends in Becomes, and the others.
LEMMA BecomesTraced ==
  ASSUME EngineInv, NEW q \in Procs, NEW s, proc' = [proc EXCEPT ![q] = s], Follows(q, s)
  PROVE  Traced
<1>1. ASSUME NEW x \in Procs PROVE Follows(x, proc'[x])
  <2>1. CASE x = q
    BY <2>1 DEF EngineInv
  <2>2. CASE x # q
    BY <2>2 DEF EngineInv, Follows
  <2>3. QED
    BY <2>1, <2>2
<1>2. QED
  BY <1>1 DEF Traced

LEMMA KeepsTraced ==
  ASSUME EngineInv, NEW q \in Procs, NEW s, proc' = [proc EXCEPT ![q] = s],
         proc[q].ph # "unborn", Keeps(proc[q], s)
  PROVE  Traced
<1>1. Follows(q, s)
  BY DEF Follows
<1>2. QED
  BY <1>1, BecomesTraced

\* Steps of the list that leave the memory alone.
LEMMA QuietTraced ==
  ASSUME EngineInv, NEW q \in Procs,
         Fetch(q) \/ Plain(q) \/ Access(q) \/ Work(q) \/ Inject(q) \/ WaitOp(q)
           \/ BusyDies(q) \/ StressChild(q)
  PROVE  Traced
<1> DEFINE r == proc[q]
<1>1. Shape(r) /\ r.ph \in {"fetch", "run", "inner", "stress"}
  BY DEF EngineInv, ProcInv, Fetch, Plain, Access, Work, Inject, WaitOp, BusyDies,
     StressChild, Running
<1>2. Keeps(r, r) /\ Keeps(r, Done(r)) /\ Keeps(r, After(r))
  BY <1>1, KeepsSame, KeepsDone, KeepsAfter
<1>3. \A s \in DoAccess(r) : Keeps(r, s) /\ Keeps(r, After(s))
  BY <1>1, <1>2, KeepsAccess
<1>4. \A K : Keeps(r, After(SplitChunks(r, K)))
  BY <1>1, <1>2, KeepsSplit
<1>5. \A ph \in {"before", "run", "inner"} : Keeps(r, Ends(r, ph))
  BY <1>1, KeepsEnds
<1>6. \E s : Keeps(r, s) /\ Becomes(q, s)
  <2>1. CASE Fetch(q) \/ Plain(q) \/ Inject(q) \/ WaitOp(q)
    BY <1>2, <1>5, <2>1 DEF Fetch, Plain, Inject, WaitOp
  <2>2. CASE Access(q) \/ BusyDies(q) \/ StressChild(q)
    BY <1>2, <1>3, <2>2 DEF Access, DoAccessOp, BusyDies, StressChild
  <2>3. CASE Work(q)
    BY <1>2, <1>4, <2>3 DEF Work
  <2>4. QED
    BY <2>1, <2>2, <2>3
<1>7. QED
  BY <1>1, <1>6, KeepsTraced DEF Becomes

LEMMA AnswerTraced ==
  ASSUME EngineInv, NEW q \in Procs, Answer(q)
  PROVE  Traced
<1> DEFINE r == proc[q]
<1>1. Shape(r) /\ r.ph \in Waits
  BY DEF EngineInv, ProcInv, Answer
<1>2. Keeps(r, Advance(r)) /\ Keeps(r, Done(r)) /\ Keeps(r, Ends(r, "run")) /\ Keeps(r, Ends(r, "inner2"))
  BY <1>1, KeepsAdvance, KeepsDone, KeepsEnds
<1>3. ASSUME NEW s \in DoAccess(Ends(r, "run"))
      PROVE  Keeps(r, After(s))
  <2> DEFINE t == Ends(r, "run")
  <2>1. Turns(r, t, "run") /\ Shape(t)
    BY <1>1, EndsTurns DEF Turns, Shape, Phases
  <2>2. Keeps(t, After(s))
    BY <2>1, <1>3, KeepsAccess, KeepsAfter DEF Turns
  <2>3. t.k = r.k /\ t.filters = r.filters /\ t.scan = r.scan /\ t.child = r.child
    BY <1>1 DEF Ends, Shape, Fields
  <2> HIDE DEF t
  <2>4. QED
    BY <2>1, <2>2, <2>3 DEF Keeps, Turns
<1>4. \E s : Keeps(r, s) /\ Becomes(q, s)
  <2>1. PICK s \in CASE r.ph = "before" -> {Ends(r, "run")}
                     [] r.ph = "inner" -> AfterInner(r)
                     [] r.ph = "inner2" -> {After(x) : x \in DoAccess(Ends(r, "run"))}
                     [] OTHER -> {Advance(r)} : Becomes(q, s)
    BY DEF Answer
  <2>2. s \in {Ends(r, "run"), Ends(r, "inner2"), Done(r), Advance(r)}
        \/ \E x \in DoAccess(Ends(r, "run")) : s = After(x)
    BY <1>1, <2>1 DEF AfterInner, Waits
  <2>3. QED
    BY <1>2, <1>3, <2>1, <2>2
<1>5. QED
  BY <1>1, <1>4, KeepsTraced DEF Becomes, Waits

LEMMA ChildTraced ==
  ASSUME EngineInv, NEW q \in Procs, ChildRuns(q)
  PROVE  Traced
<1> DEFINE r == proc[q]
           Out(s) == s = r \/ (s.ph \in Ended /\ Keeps(r, s))
<1>1. Shape(r) /\ r.ph = "child"
  BY DEF EngineInv, ProcInv, ChildRuns
<1>2. \A s \in DoAccess(r) : Out(s)
  BY <1>1, KeepsAccess
<1>3. \A K : Out(SplitChunks(r, K))
  BY <1>1, KeepsSplit
<1>4. PICK r1 \in DoAccess(r) :
        \E r2 \in IF r1.ph = "child" /\ Op(r1).op = "fork_pmd_split"
                  THEN {SplitChunks(r1, K) : K \in Reached} ELSE {r1} :
        \E r3 \in IF r2.ph = "child" /\ Op(r2).op = "fork_pmd_split" THEN DoAccess(r2) ELSE {r2} :
          Becomes(q, IF r3.ph \in Ended THEN r3
                     ELSE IF Op(r3).op = "process_vm_access" THEN Ends(r3, "inner")
                     ELSE Done(r3))
  BY DEF ChildRuns
<1>5. PICK r2 \in IF r1.ph = "child" /\ Op(r1).op = "fork_pmd_split"
                  THEN {SplitChunks(r1, K) : K \in Reached} ELSE {r1} :
        \E r3 \in IF r2.ph = "child" /\ Op(r2).op = "fork_pmd_split" THEN DoAccess(r2) ELSE {r2} :
          Becomes(q, IF r3.ph \in Ended THEN r3
                     ELSE IF Op(r3).op = "process_vm_access" THEN Ends(r3, "inner")
                     ELSE Done(r3))
  BY <1>4
<1>6. Out(r1)
  BY <1>2, <1>4
<1>7. Out(r2)
  <2>1. CASE r1 = r
    BY <1>3, <1>5, <1>6, <2>1
  <2>2. CASE r1.ph \in Ended
    BY <1>5, <1>6, <2>2 DEF Ended
  <2>3. QED
    BY <1>6, <2>1, <2>2
<1>8. PICK r3 \in IF r2.ph = "child" /\ Op(r2).op = "fork_pmd_split" THEN DoAccess(r2) ELSE {r2} :
        Becomes(q, IF r3.ph \in Ended THEN r3
                   ELSE IF Op(r3).op = "process_vm_access" THEN Ends(r3, "inner")
                   ELSE Done(r3))
  BY <1>5
<1>9. Out(r3)
  <2>1. CASE r2 = r
    BY <1>2, <1>7, <1>8, <2>1
  <2>2. CASE r2.ph \in Ended
    BY <1>7, <1>8, <2>2 DEF Ended
  <2>3. QED
    BY <1>7, <2>1, <2>2
<1>10. \E s : Keeps(r, s) /\ Becomes(q, s)
  <2>1. Keeps(r, Ends(r, "inner")) /\ Keeps(r, Done(r))
    BY <1>1, KeepsEnds, KeepsDone
  <2>2. r.ph \notin Ended
    BY <1>1 DEF Ended
  <2>3. QED
    BY <1>8, <1>9, <2>1, <2>2
<1>11. QED
  BY <1>1, <1>10, KeepsTraced DEF Becomes

\* do_mmap fails, or gives the process its chunks.
Remapped(r) ==
  [Map(r, UNION {ChunkArea(nr_p, k) : k \in Chunks}) EXCEPT !.p = [k \in Chunks |-> BaseAddr(k)]]

LEMMA RemappedFacts ==
  ASSUME NEW r, Shape(r)
  PROVE  /\ \/ DoMmap(r) = Ends(r, "failed") /\ DoMmap(r).ph = "failed"
            \/ DoMmap(r) = Remapped(r) /\ \A k \in Chunks : ChunkArea(nr_p, k) \cap Mapped(r) = {}
         /\ Shape(Remapped(r)) /\ Remapped(r).ph = r.ph /\ Remapped(r).pc = r.pc
<1> DEFINE m == Map(r, UNION {ChunkArea(nr_p, k) : k \in Chunks})
<1>1. Shape(m) /\ m.ph = r.ph /\ m.pc = r.pc
  BY DEF Map, Shape, Fields
<1>2. Ends(r, "failed").ph = "failed"
  BY EndsTurns DEF Turns
<1> HIDE DEF m
<1>3. /\ Shape([m EXCEPT !.p = [k \in Chunks |-> BaseAddr(k)]])
      /\ [m EXCEPT !.p = [k \in Chunks |-> BaseAddr(k)]].ph = r.ph
      /\ [m EXCEPT !.p = [k \in Chunks |-> BaseAddr(k)]].pc = r.pc
  BY <1>1 DEF Shape, Fields
<1>4. QED
  BY <1>2, <1>3 DEF DoMmap, Remapped, m

LEMMA MapShape ==
  ASSUME NEW r, Shape(r), NEW S
  PROVE  /\ Shape(Map(r, S)) /\ Map(r, S).ph = r.ph
         /\ Shape(Unmap(r, S)) /\ Unmap(r, S).ph = r.ph
  BY DEF Map, Unmap, Shape, Fields

\* Operations that change the mappings.
LEMMA MappingTraced ==
  ASSUME EngineInv, NEW q \in Procs,
         Mmap(q) \/ AllocateMore(q) \/ Munmap(q) \/ IterateMapping(q) \/ IterateFault(q)
  PROVE  Traced
<1> DEFINE r == proc[q]
<1>1. Shape(r) /\ r.ph \in {"run", "rounds"} /\ r.ph \notin Over
  BY DEF EngineInv, ProcInv, Mmap, AllocateMore, Munmap, IterateMapping, IterateFault,
     Running, Over, Ended
<1>2. Keeps(r, Ends(r, "failed"))
  BY <1>1, KeepsEnds
<1>3. /\ Shape(Remapped(r)) /\ Remapped(r).ph = r.ph
      /\ \/ DoMmap(r) = Ends(r, "failed") /\ DoMmap(r).ph = "failed"
         \/ DoMmap(r) = Remapped(r) /\ \A k \in Chunks : ChunkArea(nr_p, k) \cap Mapped(r) = {}
  BY <1>1, RemappedFacts
<1>4. ASSUME NEW s, Becomes(q, s), Keeps(r, s) \/ Maps(r, s) \/ Unmaps(r, s) PROVE Traced
  <2>1. Follows(q, s)
    BY <1>1, <1>4 DEF Follows, Over
  <2>2. QED
    BY <1>4, <2>1, BecomesTraced DEF Becomes
<1>5. CASE Mmap(q)
  <2>1. Becomes(q, After(DoMmap(r))) /\ Op(r).op \in Mmaps
    BY <1>5 DEF Mmap, Running, Mmaps
  <2>2. CASE DoMmap(r) = Ends(r, "failed") /\ DoMmap(r).ph = "failed"
    BY <1>2, <1>4, <2>1, <2>2 DEF After, Ended
  <2>3. CASE DoMmap(r) = Remapped(r) /\ \A k \in Chunks : ChunkArea(nr_p, k) \cap Mapped(r) = {}
    <3>1. Keeps(Remapped(r), After(Remapped(r)))
      BY <1>1, <1>3, KeepsAfter DEF Over
    <3>2. QED
      BY <1>4, <2>1, <2>3, <3>1 DEF Maps, Remapped
  <2>4. QED
    BY <1>3, <2>2, <2>3
<1>6. CASE AllocateMore(q)
  <2>1. CASE Area(nr_p, nr_p) \cap Mapped(r) # {}
    BY <1>2, <1>4, <1>6, <2>1 DEF AllocateMore
  <2>2. CASE Area(nr_p, nr_p) \cap Mapped(r) = {}
    <3>1. proc' = [proc EXCEPT ![q] = Done(Map(r, Area(nr_p, nr_p)))] /\ Op(r).op = "allocate_more"
      BY <1>6, <2>2 DEF AllocateMore, Running
    <3>2. Keeps(Map(r, Area(nr_p, nr_p)), Done(Map(r, Area(nr_p, nr_p))))
      BY <1>1, MapShape, KeepsDone
    <3>3. Follows(q, Done(Map(r, Area(nr_p, nr_p))))
      BY <1>1, <2>2, <3>1, <3>2 DEF Follows, Allocates
    <3>4. QED
      BY <3>1, <3>3, BecomesTraced
  <2>3. QED
    BY <2>1, <2>2
<1>7. ASSUME NEW t, Shape(t), t.ph = r.ph, NEW u \in DoMunmap(t)
      PROVE  \E S : u = Unmap(t, S) /\ Keeps(u, u) /\ Keeps(u, Done(u))
  <2>1. PICK S : u = Unmap(t, S)
    BY <1>7 DEF DoMunmap
  <2>2. Shape(u) /\ u.ph = r.ph
    BY <1>7, <2>1, MapShape
  <2>3. Keeps(u, u) /\ Keeps(u, Done(u))
    BY <1>1, <2>2, KeepsSame, KeepsDone
  <2>4. QED
    BY <2>1, <2>3
<1>8. CASE Munmap(q)
  <2>1. PICK u \in DoMunmap(r) : Becomes(q, Done(u))
    BY <1>8 DEF Munmap
  <2>2. Op(r).op = "munmap"
    BY <1>8 DEF Munmap, Running
  <2>3. Unmaps(r, Done(u))
    BY <1>1, <1>7, <2>1, <2>2 DEF Unmaps
  <2>4. QED
    BY <1>4, <2>1, <2>3
<1>9. CASE IterateMapping(q)
  <2>1. Op(r).op = "iterate_mapping"
    BY <1>9 DEF IterateMapping, Running
  <2>2. CASE DoMmap(r) = Ends(r, "failed") /\ DoMmap(r).ph = "failed"
    BY <1>2, <1>4, <1>9, <2>2 DEF IterateMapping
  <2>3. CASE DoMmap(r) = Remapped(r)
    <3> DEFINE t == Remapped(r)
    <3>1. t.ph # "failed" /\ t.ph \notin {"unborn", "scan"} /\ t.ph \notin Ended
      BY <1>1, <1>3 DEF Over, Ended
    <3>2. PICK s \in DoAccess(t) :
            IF s.ph \in Ended THEN Becomes(q, s) ELSE \E u \in DoMunmap(s) : Becomes(q, u)
      BY <1>9, <2>3, <3>1 DEF IterateMapping
    <3>3. s = t \/ (s.ph \in Ended /\ Keeps(t, s))
      BY <1>3, KeepsAccess
    <3>4. \E u : Becomes(q, u) /\ (Keeps(t, u) \/ \E S : Keeps(Unmap(t, S), u))
      <4>1. CASE s.ph \in Ended
        BY <3>1, <3>2, <3>3, <4>1
      <4>2. CASE s = t /\ s.ph \notin Ended
        BY <1>3, <1>7, <3>2, <4>2
      <4>3. QED
        BY <3>3, <4>1, <4>2
    <3>5. QED
      BY <1>4, <2>1, <3>4 DEF Unmaps, Remapped
  <2>4. QED
    BY <1>3, <2>2, <2>3
<1>10. CASE IterateFault(q) /\ r.ph = "rounds"
  <2>1. PICK s \in DoAccess(r) : Becomes(q, s)
    BY <1>10 DEF IterateFault, Running
  <2>2. Keeps(r, s)
    BY <1>1, KeepsAccess, KeepsSame
  <2>3. QED
    BY <1>4, <2>1, <2>2
<1>11. CASE IterateFault(q) /\ r.ph = "run"
  <2>1. /\ Becomes(q, IF DoMmap(r).ph = "failed" THEN DoMmap(r) ELSE Ends(DoMmap(r), "rounds"))
        /\ Op(r).op = "iterate_fault_dontneed"
    BY <1>11 DEF IterateFault, Running
  <2>2. CASE DoMmap(r) = Ends(r, "failed") /\ DoMmap(r).ph = "failed"
    BY <1>2, <1>4, <2>1, <2>2
  <2>3. CASE DoMmap(r) = Remapped(r) /\ \A k \in Chunks : ChunkArea(nr_p, k) \cap Mapped(r) = {}
    <3>1. Keeps(Remapped(r), Ends(Remapped(r), "rounds")) /\ Remapped(r).ph # "failed"
      BY <1>3, <1>11, KeepsEnds
    <3>2. QED
      BY <1>4, <2>1, <2>3, <3>1 DEF Maps, Remapped
  <2>4. QED
    BY <1>3, <2>2, <2>3
<1>12. QED
  BY <1>1, <1>5, <1>6, <1>8, <1>9, <1>10, <1>11

\* mremap, chunk by chunk.
LEMMA MovingTraced ==
  ASSUME EngineInv, NEW q \in Procs, Mremap(q) \/ MremapStress(q)
  PROVE  Traced
<1> DEFINE r == proc[q]
<1>1. Shape(r) /\ r.ph \in {"run", "back"} /\ r.ph \notin Over /\ Op(r).op \in Moves
  BY DEF EngineInv, ProcInv, AtOp, Mremap, MremapStress, Running, Over, Ended, Moves
<1>2. PICK m \in MremapChunk(r, r.ph = "back") :
        \/ Walked(m) /\ Becomes(q, Done([m EXCEPT !.k = 0]))
        \/ Walked(m) /\ Becomes(q, [m EXCEPT !.k = 0, !.ph = IF @ = "run" THEN "back" ELSE "run"])
        \/ ~Walked(m) /\ Becomes(q, m)
  <2>1. CASE Mremap(q)
    <3>1. (r.ph = "back") = FALSE
      BY <2>1 DEF Mremap, Running
    <3>2. QED
      BY <2>1, <3>1 DEF Mremap
  <2>2. CASE MremapStress(q)
    BY <2>2 DEF MremapStress
  <2>3. QED
    BY <2>1, <2>2
<1>3. Shape(m) /\ m.ph = r.ph
  <2>1. Same(r, m) /\ Shape(m)
    BY <1>1, MemoryOnly
  <2>2. QED
    BY <2>1 DEF Same
<1> DEFINE z == [m EXCEPT !.k = 0]
           y == [m EXCEPT !.k = 0, !.ph = IF @ = "run" THEN "back" ELSE "run"]
<1>4. Shape(z) /\ Keeps(z, y)
  BY <1>1, <1>3 DEF Shape, Fields, Keeps
<1>5. Keeps(z, Done(z)) /\ Keeps(m, m)
  BY <1>1, <1>3, <1>4, KeepsDone, KeepsSame
<1>6. \E s : Becomes(q, s) /\ MovesTo(r, s)
  BY <1>1, <1>2, <1>4, <1>5 DEF MovesTo
<1>7. QED
  BY <1>1, <1>6, BecomesTraced DEF Follows, Becomes

\* hotremove.
LEMMA HotTraced ==
  ASSUME EngineInv, NEW q \in Procs, Hotremove(q) \/ memblock_check(q)
  PROVE  Traced
<1> DEFINE r == proc[q]
<1>1. Shape(r) /\ r.ph \in {"run", "scan"} /\ r.ph \notin Over /\ Op(r).op = "hotremove"
  BY DEF EngineInv, ProcInv, AtOp, Hotremove, memblock_check, Running, Over, Ended
<1>2. Keeps(r, Ends(r, "failed"))
  BY <1>1, KeepsEnds
<1>3. PICK s : proc' = [proc EXCEPT ![q] = s] /\ (Keeps(r, s) \/ StartsScan(r, s) \/ Scans(r, s))
  <2>1. CASE Hotremove(q)
    BY <1>1, <1>2, <2>1 DEF Hotremove, Becomes, StartsScan
  <2>2. CASE memblock_check(q)
    <3>1. CASE r.scan.i < get_max_memblock(blocks.zones)
      <4>1. proc' = [proc EXCEPT ![q] = [r EXCEPT !.scan = ScanBlock(r.filters, r.scan)]]
        BY <2>2, <3>1 DEF memblock_check
      <4>2. QED
        BY <1>1, <2>2, <3>1, <4>1 DEF Scans, memblock_check
    <3>2. CASE ~(r.scan.i < get_max_memblock(blocks.zones))
      BY <1>1, <1>2, <2>2, <3>2 DEF memblock_check, Becomes, Scans
    <3>3. QED
      BY <3>1, <3>2
  <2>3. QED
    BY <2>1, <2>2
<1>4. Follows(q, s)
  BY <1>1, <1>3 DEF Follows, Over
<1>5. QED
  BY <1>3, <1>4, BecomesTraced

\* fork, waitpid and kill.
LEMMA ForkTraced ==
  ASSUME EngineInv, NEW q \in Procs, Fork(q) \/ ForkStress(q)
  PROVE  Traced
<1> DEFINE r == proc[q]
<1>1. Shape(r) /\ r.ph = "run"
  BY DEF EngineInv, ProcInv, Fork, ForkStress, Running
<1>2. Keeps(r, Done(r)) /\ Keeps(r, Ends(r, "inner")) /\ Keeps(r, Ends(r, "stress")) /\ Keeps(r, Child(r))
  <2>1. Keeps(r, Child(r))
    BY <1>1 DEF Keeps, Child, Shape, Fields
  <2>2. QED
    BY <1>1, <2>1, KeepsDone, KeepsEnds
<1>3. PICK c \in Procs : \E s, t : /\ FreeSlot(c) /\ Keeps(r, s) /\ Keeps(r, t)
                                    /\ proc' = [[proc EXCEPT ![q] = s] EXCEPT ![c] = t]
  <2>1. CASE Fork(q)
    BY <1>2, <2>1 DEF Fork
  <2>2. CASE ForkStress(q)
    <3>1. PICK c \in Procs : /\ FreeSlot(c)
            /\ proc' = [proc EXCEPT ![q].ph = "waitpid", ![q].child = c, ![c] = Ends(r, "stress")]
      BY <2>2 DEF ForkStress
    <3>2. q # c
      BY <1>1, <3>1 DEF FreeSlot
    <3> DEFINE s == [[r EXCEPT !.ph = "waitpid"] EXCEPT !.child = c]
    <3>3. Keeps(r, s)
      BY <1>1 DEF Keeps, Shape, Fields
    <3>4. proc' = [[proc EXCEPT ![q] = s] EXCEPT ![c] = Ends(r, "stress")]
      BY <3>1, <3>2 DEF EngineInv
    <3> HIDE DEF s
    <3>5. QED
      BY <1>2, <3>1, <3>3, <3>4
  <2>3. QED
    BY <2>1, <2>2
<1>4. PICK s, t : /\ Keeps(r, s) /\ Keeps(r, t)
                  /\ proc' = [[proc EXCEPT ![q] = s] EXCEPT ![c] = t]
  BY <1>3
<1>5. ASSUME NEW x \in Procs PROVE Follows(x, proc'[x])
  <2>1. proc'[x] = proc[x] \/ Keeps(r, proc'[x])
    BY <1>4 DEF EngineInv
  <2>2. QED
    BY <1>1, <2>1 DEF Follows
<1>6. QED
  BY <1>5 DEF Traced

LEMMA EndTraced ==
  ASSUME EngineInv, NEW q \in Procs, Waitpid(q) \/ Kill(q)
  PROVE  Traced
<1> DEFINE r == proc[q]
<1>1. Shape(r)
  BY DEF EngineInv, ProcInv
<1>2. CASE Waitpid(q)
  <2> DEFINE c == proc[q].child
             s == [[r EXCEPT !.ph = "run"] EXCEPT !.child = NULL]
  <2>1. r.ph = "waitpid" /\ q # c
    BY <1>2 DEF Waitpid, Ended
  <2>2. proc' = [[proc EXCEPT ![q] = s] EXCEPT ![c] = Unborn]
    BY <1>2, <2>1 DEF EngineInv, Waitpid
  <2>3. Keeps(r, s)
    BY <1>1 DEF Keeps, Shape, Fields
  <2> HIDE DEF s
  <2>4. ASSUME NEW x \in Procs PROVE Follows(x, proc'[x])
    <3>1. proc'[x] = proc[x] \/ Keeps(r, proc'[x]) \/ proc'[x] = Unborn
      BY <2>2, <2>3 DEF EngineInv
    <3>2. QED
      BY <2>1, <3>1 DEF Follows
  <2>5. QED
    BY <2>4 DEF Traced
<1>3. CASE Kill(q)
  <2>1. \/ r.ph # "unborn" /\ proc' = [proc EXCEPT ![q] = Ends(r, "killed")]
        \/ proc' = proc
    BY <1>3 DEF Kill, Ends, Alive
  <2>2. Keeps(r, Ends(r, "killed"))
    BY <1>1, KeepsEnds
  <2>3. QED
    BY <2>1, <2>2, KeepsTraced DEF Traced, Follows
<1>4. QED
  BY <1>2, <1>3

LEMMA StepTraced ==
  ASSUME EngineInv, [Next]_vars
  PROVE  Traced
<1>1. CASE proc' = proc
  BY <1>1 DEF Traced, Follows
<1>2. ASSUME NEW q \in Procs, Step(q) PROVE Traced
  <2>1. CASE IterateFile(q) \/ MbindFuzz(q)
    BY <1>1, <2>1 DEF IterateFile, MbindFuzz
  <2>2. QED
    BY <1>2, <2>1, QuietTraced, ChildTraced, MappingTraced, MovingTraced, HotTraced,
       ForkTraced, EndTraced DEF Step
<1>3. QED
  BY <1>1, <1>2, AnswerTraced, EndTraced DEF Next, Snapshot, vars
-----------------------------------------------------------------------------
(* The values.                                                             *)

\* Facts about the chunks of a program.
LEMMA ChunkFacts ==
  ASSUME prog \in Programs
  PROVE  /\ 0 \in Chunks /\ Away \in Nat \ {0} /\ CHUNKSIZE \in Nat \ {0}
         /\ \A k \in Chunks : /\ k \in Nat /\ Size(k) \in 1 .. CHUNKSIZE /\ BaseAddr(k) \in Nat
                              /\ ChunkArea(nr_p, k) = Area(BaseAddr(k), Size(k))
<1>1. /\ nr_p \in Nat \ {0} /\ nr_chunk \in Nat \ {0} /\ prog.types \in Nat \ {0}
      /\ Chunks \subseteq Nat /\ CHUNKSIZE \in Nat \ {0}
  BY ProgramSizes, ChunkAssumption
<1> DEFINE n == prog.types * nr_chunk
<1>2. n \in Nat \ {0} /\ nr_chunk * CHUNKSIZE \in Nat \ {0}
  <2>1. \A a, b \in Nat \ {0} : a * b \in Nat \ {0}
    BY Z3
  <2>2. QED
    BY <1>1, <2>1
<1>3. 0 \in Chunks
  <2>1. Chunks = 0 .. (n - 1)
    BY DEF Chunks
  <2> HIDE DEF n
  <2>2. QED
    BY <1>2, <2>1
<1>4. ASSUME NEW k \in Chunks
      PROVE  /\ k \in Nat /\ Size(k) \in 1 .. CHUNKSIZE /\ BaseAddr(k) \in Nat
             /\ ChunkArea(nr_p, k) = Area(BaseAddr(k), Size(k))
  <2>1. k \in Nat /\ k * CHUNKSIZE \in Nat
    <3>1. \A a, b \in Nat : a * b \in Nat
      BY Z3
    <3>2. QED
      BY <1>1, <3>1
  <2>2. QED
    BY <1>1, <2>1, SizeBounds DEF Size, BaseAddr, ChunkArea
<1>5. QED
  BY <1>1, <1>2, <1>3, <1>4 DEF Away

\* mremap changes addresses and no contents.
LEMMA MoveFacts ==
  ASSUME NEW mem, NEW from \in Int, NEW to \in Int, NEW size \in Nat,
         Area(from, size) \subseteq DOMAIN mem, NEW new, new = Move(mem, from, to, size)
  PROVE  /\ DOMAIN new = (DOMAIN mem \ Area(from, size)) \cup Area(to, size)
         /\ \A a \in Area(to, size) : /\ a \in Int /\ a - to + from \in Area(from, size)
                                      /\ new[a] = mem[a - to + from]
         /\ \A a \in DOMAIN new \ Area(to, size) : a \in DOMAIN mem /\ new[a] = mem[a]
<1>1. \A a \in Area(to, size) : a \in Int /\ a - to + from \in Area(from, size)
  BY DEF Area
<1>2. QED
  BY <1>1 DEF Move

LEMMA MoveData ==
  ASSUME NEW mem, NEW from \in Int, NEW to \in Int, NEW size \in Nat,
         Area(from, size) \subseteq DOMAIN mem, NEW new, new = Move(mem, from, to, size),
         DOMAIN mem \subseteq Int, \A a \in DOMAIN mem : mem[a] \in Nat
  PROVE  DOMAIN new \subseteq Int /\ \A a \in DOMAIN new : new[a] \in Nat
<1>1. ASSUME NEW a \in DOMAIN new PROVE a \in Int /\ new[a] \in Nat
  <2>1. CASE a \in Area(to, size)
    <3>1. a \in Int /\ a - to + from \in Area(from, size)
      BY <2>1 DEF Area
    <3>2. new[a] = mem[a - to + from]
      BY <2>1 DEF Move
    <3>3. QED
      BY <3>1, <3>2
  <2>2. CASE a \notin Area(to, size)
    BY <2>2 DEF Move
  <2>3. QED
    BY <2>1, <2>2
<1>2. QED
  BY <1>1

\* What a call of __mremap_chunk leaves.
LEMMA MremapCases ==
  ASSUME prog \in Programs, NEW r, Shape(r), ProcData(r), NEW back, NEW m \in MremapChunk(r, back)
  PROVE  LET k == r.k  from == From(back, r.p[k])  to == To(back, r.p[k]) IN
           /\ from \in Int /\ to \in Int /\ k \in Chunks
           /\ m.p = r.p /\ m.child = r.child /\ m.filters = r.filters /\ m.scan = r.scan
           /\ m.pc = r.pc /\ DOMAIN m = Fields
           /\ \/ m.mem = r.mem
              \/ Area(from, Size(k)) \subseteq DOMAIN r.mem /\ m.mem = Move(r.mem, from, to, Size(k))
<1> DEFINE k == r.k  from == From(back, r.p[k])  to == To(back, r.p[k])
<1>1. k \in Chunks /\ r.p[k] \in Int /\ Away \in Int
  BY ChunkFacts DEF ProcData, NULL
<1>2. from \in Int /\ to \in Int
  BY <1>1 DEF From, To
<1>3. \/ m = [r EXCEPT !.k = (TypeOf(@) + 1) * nr_chunk]
      \/ /\ Area(from, Size(k)) \subseteq DOMAIN r.mem
         /\ m = [r EXCEPT !.mem = Move(r.mem, from, to, Size(k)), !.k = @ + 1]
  BY DEF MremapChunk, Mapped
<1> HIDE DEF k, from, to
<1>4. QED
  BY <1>1, <1>2, <1>3 DEF Shape, Fields, k, from, to

LEMMA MremapData ==
  ASSUME prog \in Programs, NEW r, Shape(r), ProcData(r), NEW back, NEW m \in MremapChunk(r, back)
  PROVE  DOMAIN m.mem \subseteq Int /\ \A a \in DOMAIN m.mem : m.mem[a] \in Nat
<1> DEFINE k == r.k  from == From(back, r.p[k])  to == To(back, r.p[k])
<1>1. /\ from \in Int /\ to \in Int /\ k \in Chunks
      /\ \/ m.mem = r.mem
         \/ Area(from, Size(k)) \subseteq DOMAIN r.mem /\ m.mem = Move(r.mem, from, to, Size(k))
  BY MremapCases
<1>2. Size(k) \in Nat
  BY <1>1, ChunkFacts
<1> HIDE DEF k, from, to
<1>3. CASE m.mem = r.mem
  BY <1>3 DEF ProcData
<1>4. CASE Area(from, Size(k)) \subseteq DOMAIN r.mem /\ m.mem = Move(r.mem, from, to, Size(k))
  <2>1. DOMAIN r.mem \subseteq Int /\ \A a \in DOMAIN r.mem : r.mem[a] \in Nat
    BY DEF ProcData
  <2>2. QED
    BY <1>1, <1>2, <1>4, <2>1, MoveData
<1>5. QED
  BY <1>1, <1>3, <1>4

\* A step leaves every process with good values.
LEMMA KeepsData ==
  ASSUME NEW r, ProcData(r), NEW s, Keeps(r, s)
  PROVE  ProcData(s)
  BY DEF ProcData, Keeps

LEMMA RemappedData ==
  ASSUME prog \in Programs, NEW r, Shape(r), ProcData(r)
  PROVE  ProcData(Remapped(r))
<1> DEFINE S == UNION {ChunkArea(nr_p, k) : k \in Chunks}
           m == Map(r, S)
           s == [m EXCEPT !.p = [k \in Chunks |-> BaseAddr(k)]]
<1>1. S \subseteq Nat
  BY ChunkFacts DEF Area
<1> HIDE DEF S
<1>2. /\ DOMAIN m = Fields /\ m.k = r.k /\ m.child = r.child /\ m.filters = r.filters
      /\ m.scan = r.scan /\ m.mem = [a \in DOMAIN r.mem \cup S |-> IF a \in S THEN a ELSE r.mem[a]]
  BY DEF Map, Shape, Fields
<1> HIDE DEF m
<1>3. /\ s.k = r.k /\ s.child = r.child /\ s.filters = r.filters /\ s.scan = r.scan
      /\ s.mem = m.mem /\ s.p = [k \in Chunks |-> BaseAddr(k)]
  BY <1>2 DEF Fields
<1>4. DOMAIN s.mem \subseteq Int /\ \A a \in DOMAIN s.mem : s.mem[a] \in Nat
  BY <1>1, <1>2, <1>3 DEF ProcData
<1> HIDE DEF s
<1>5. ProcData(s)
  BY <1>3, <1>4 DEF ProcData
<1>6. QED
  BY <1>5 DEF s, m, S, Remapped

LEMMA MapData ==
  ASSUME NEW r, Shape(r), ProcData(r), NEW S
  PROVE  /\ S \subseteq Nat => ProcData(Map(r, S))
         /\ ProcData(Unmap(r, S))
<1>1. ASSUME S \subseteq Nat PROVE ProcData(Map(r, S))
  <2> DEFINE m == Map(r, S)
  <2>1. /\ m.p = r.p /\ m.k = r.k /\ m.child = r.child /\ m.filters = r.filters
        /\ m.scan = r.scan /\ m.mem = [a \in DOMAIN r.mem \cup S |-> IF a \in S THEN a ELSE r.mem[a]]
    BY DEF Map, Shape, Fields
  <2> HIDE DEF m
  <2>2. DOMAIN m.mem \subseteq Int /\ \A a \in DOMAIN m.mem : m.mem[a] \in Nat
    <3>1. DOMAIN r.mem \subseteq Int /\ \A a \in DOMAIN r.mem : r.mem[a] \in Nat
      BY DEF ProcData
    <3>2. DOMAIN m.mem = DOMAIN r.mem \cup S
      BY <2>1
    <3>3. ASSUME NEW a \in DOMAIN m.mem PROVE a \in Int /\ m.mem[a] \in Nat
      <4>1. m.mem[a] = IF a \in S THEN a ELSE r.mem[a]
        BY <2>1, <3>2
      <4>2. CASE a \in S
        <5>1. a \in Nat
          BY <1>1, <4>2
        <5>2. m.mem[a] = a
          BY <4>1, <4>2
        <5>3. QED
          BY <5>1, <5>2
      <4>3. CASE a \notin S
        BY <3>1, <3>2, <4>1, <4>3
      <4>4. QED
        BY <4>2, <4>3
    <3>4. QED
      BY <3>3
  <2>3. ProcData(m)
    BY <2>1, <2>2 DEF ProcData
  <2>4. QED
    BY <2>3 DEF m
<1>2. ProcData(Unmap(r, S))
  <2> DEFINE m == Unmap(r, S)
  <2>1. /\ m.p = r.p /\ m.k = r.k /\ m.child = r.child /\ m.filters = r.filters
        /\ m.scan = r.scan /\ m.mem = [a \in DOMAIN r.mem \ S |-> r.mem[a]]
    BY DEF Unmap, Shape, Fields
  <2> HIDE DEF m
  <2>2. DOMAIN m.mem \subseteq Int /\ \A a \in DOMAIN m.mem : m.mem[a] \in Nat
    BY <2>1 DEF ProcData
  <2>3. ProcData(m)
    BY <2>1, <2>2 DEF ProcData
  <2>4. QED
    BY <2>3 DEF m
<1>3. QED
  BY <1>1, <1>2

\* hotremove looks at the blocks of the machine.
LEMMA HotBlocks ==
  ASSUME EngineInv, DataInv, NEW q \in Procs, proc[q].ph \notin Over, Op(proc[q]).op = "hotremove"
  PROVE  blocks \in BlockMaps /\ get_max_memblock(blocks.zones) \in Nat
<1>1. proc[q].pc \in DOMAIN prog.ops
  BY ProgramSizes DEF EngineInv, ProcInv, Shape
<1>2. QED
  BY <1>1, BlocksAssumption DEF DataInv, Has, Op

LEMMA FollowsData ==
  ASSUME EngineInv, DataInv, NEW x \in Procs, NEW s, Follows(x, s)
  PROVE  ProcData(s)
<1> DEFINE r == proc[x]
<1>1. prog \in Programs /\ Shape(r) /\ ProcData(r)
  BY DEF EngineInv, ProcInv, DataInv
<1>2. CASE s = r \/ \E q \in Procs : Keeps(proc[q], s)
  BY <1>1, <1>2, KeepsData DEF DataInv
<1>3. CASE s = Unborn
  <2>1. /\ Unborn.p = [k \in Chunks |-> NULL] /\ Unborn.k = 0 /\ Unborn.child = NULL
        /\ Unborn.filters = <<>> /\ Unborn.scan = NoScan /\ Unborn.mem = [a \in {} |-> a]
    BY DEF Unborn, Fresh
  <2>2. NoScan.i = 2 /\ NoScan.blk = NULL /\ DOMAIN NoScan = {"i", "blk", "matched", "buf"}
    BY DEF NoScan
  <2>3. QED
    BY <1>1, <1>3, <2>1, <2>2, ChunkFacts DEF ProcData
<1>4. CASE Maps(r, s)
  BY <1>1, <1>4, RemappedData, KeepsData DEF Maps, Remapped
<1>5. CASE Allocates(r, s)
  <2>1. Area(nr_p, nr_p) \subseteq Nat
    BY <1>1, ProgramSizes DEF Area
  <2>2. QED
    BY <1>1, <1>5, <2>1, MapData, KeepsData DEF Allocates
<1>6. CASE Unmaps(r, s)
  <2>1. PICK t \in {r, Remapped(r)} : Keeps(t, s) \/ \E S : Keeps(Unmap(t, S), s)
    BY <1>6 DEF Unmaps, Remapped
  <2>2. Shape(t) /\ ProcData(t)
    BY <1>1, <2>1, RemappedData, RemappedFacts
  <2>3. QED
    BY <2>1, <2>2, MapData, KeepsData
<1>7. CASE MovesTo(r, s)
  <2>1. PICK m \in MremapChunk(r, r.ph = "back") :
          (~Walked(m) /\ Keeps(m, s)) \/ Keeps([m EXCEPT !.k = 0], s)
    BY <1>7 DEF MovesTo
  <2>2. /\ m.p = r.p /\ m.child = r.child /\ m.filters = r.filters /\ m.scan = r.scan
        /\ DOMAIN m = Fields
    BY <1>1, MremapCases
  <2>3. DOMAIN m.mem \subseteq Int /\ \A a \in DOMAIN m.mem : m.mem[a] \in Nat
    BY <1>1, MremapData
  <2>4. ~Walked(m) => ProcData(m)
    BY <1>1, <2>2, <2>3 DEF ProcData, Walked
  <2>5. ProcData([m EXCEPT !.k = 0])
    <3> DEFINE z == [m EXCEPT !.k = 0]
    <3>1. /\ z.p = m.p /\ z.child = m.child /\ z.filters = m.filters /\ z.scan = m.scan
          /\ z.mem = m.mem /\ z.k = 0
      BY <2>2 DEF Fields
    <3> HIDE DEF z
    <3>2. ProcData(z)
      BY <1>1, <2>2, <2>3, <3>1, ChunkFacts DEF ProcData
    <3>3. QED
      BY <3>2 DEF z
  <2>6. QED
    BY <2>1, <2>4, <2>5, KeepsData
<1>8. CASE StartsScan(r, s)
  <2>1. r.filters = <<>>
    <3>1. \A f : Len(<<f>>) = 1
      OBVIOUS
    <3>2. QED
      BY <1>1, <1>8, <3>1 DEF StartsScan, ProcData, MAX_BIT_FILTERS
  <2>2. s.filters = <<parse_bits_mask(Op(r).pageflags)>>
    BY <1>1, <1>8, <2>1 DEF StartsScan, Shape, Fields
  <2>3. /\ s.p = r.p /\ s.k = r.k /\ s.child = r.child /\ s.scan = StartScan /\ s.mem = r.mem
    BY <1>1, <1>8 DEF StartsScan, Shape, Fields
  <2>4. StartScan.i = 2 /\ StartScan.blk = NULL /\ DOMAIN StartScan = {"i", "blk", "matched", "buf"}
    BY DEF StartScan, NoScan
  <2>5. QED
    BY <1>1, <2>2, <2>3, <2>4 DEF ProcData
<1>9. CASE r.ph \notin Over /\ Scans(r, s)
  <2>1. /\ s.p = r.p /\ s.k = r.k /\ s.child = r.child /\ s.filters = r.filters /\ s.mem = r.mem
        /\ s.scan \in {NoScan, ScanBlock(r.filters, r.scan)}
    <3>1. CASE s = [r EXCEPT !.scan = ScanBlock(r.filters, r.scan)]
      BY <1>1, <3>1 DEF Shape, Fields
    <3>2. CASE s = [r EXCEPT !.scan = NoScan, !.ph = "inner"]
      BY <1>1, <3>2 DEF Shape, Fields
    <3>3. QED
      BY <1>9, <3>1, <3>2 DEF Scans
  <2>2. NoScan.i = 2 /\ NoScan.blk = NULL /\ DOMAIN NoScan = {"i", "blk", "matched", "buf"}
    BY DEF NoScan
  <2>3. get_max_memblock(blocks.zones) \in Nat
    BY <1>9, HotBlocks DEF Scans
  <2> DEFINE sc == ScanBlock(r.filters, r.scan)
  <2>4. /\ sc.i \in {get_max_memblock(blocks.zones), r.scan.i + 1}
        /\ sc.blk \in {r.scan.blk, r.scan.i} /\ DOMAIN sc = {"i", "blk", "matched", "buf"}
    BY <1>1 DEF ScanBlock, ProcData
  <2> HIDE DEF sc
  <2>5. s.scan = NoScan \/ s.scan = sc
    BY <2>1 DEF sc
  <2>6. s.scan.i \in Nat /\ s.scan.blk \in Nat \cup {NULL} /\ DOMAIN s.scan = {"i", "blk", "matched", "buf"}
    BY <1>1, <2>2, <2>3, <2>4, <2>5 DEF ProcData
  <2>7. QED
    BY <1>1, <2>1, <2>6 DEF ProcData
<1>10. QED
  BY <1>2, <1>3, <1>4, <1>5, <1>6, <1>7, <1>8, <1>9 DEF Follows

\* Where a memory error is, and which block is printed.
LEMMA WhatIsPoisoned ==
  ASSUME EngineInv, DataInv, UsedWhileMapped, [Next]_vars
  PROVE  poison' = poison \/ \E pg \in Nat : poison' = poison \cup {pg}
<1>1. ASSUME NEW q \in Procs, Inject(q)
      PROVE  poison' = poison \/ \E pg \in Nat : poison' = poison \cup {pg}
  <2> DEFINE r == proc[q]
  <2>1. prog \in Programs /\ ProcInv(q, r) /\ r.ph \notin Over /\ Uses(Op(r))
    BY <1>1, RunningFacts DEF Inject, Uses
  <2>2. Placed(r) /\ Whole(r)
    BY <2>1, UseIsMapped
  <2>3. r.p[0] \in ChunkArea(nr_p, 0) /\ 0 \in Chunks
    BY <2>1, <2>2, ChunkFacts DEF Placed, Area
  <2>4. InjectedPage(r) \in Nat
    BY <2>2, <2>3 DEF Whole, InjectedPage, DataInv, ProcData
  <2>5. QED
    BY <1>1, <2>4 DEF Inject
<1>2. ASSUME NEW q \in Procs, Answer(q)
      PROVE  poison' = poison \/ \E pg \in Nat : poison' = poison \cup {pg}
  <2> DEFINE r == proc[q]
  <2>1. prog \in Programs /\ ProcInv(q, r) /\ r.ph \notin Over
    BY <1>2 DEF EngineInv, Answer, Waits, Over, Ended
  <2>2. r.pc \in 1 .. Len(prog.ops)
    BY <2>1, ProgramSizes DEF ProcInv, Shape
  <2>3. Op(r).win.offset \in Nat
    BY <2>1, <2>2, ProgramSizes DEF Op, Operations
  <2>4. QED
    BY <1>2, <2>3 DEF Answer
<1>3. ASSUME NEW q \in Procs, Step(q), ~Inject(q)
      PROVE  poison' = poison
  BY <1>3 DEF Step, Fetch, Plain, Mmap, AllocateMore, Access, Munmap, Mremap, Work,
     WaitOp, Hotremove, memblock_check, BusyDies, Fork, ChildRuns, ForkStress,
     StressChild, Waitpid, IterateMapping, MremapStress, IterateFault, IterateFile, MbindFuzz
<1>4. CASE Snapshot \/ UNCHANGED vars \/ \E q \in Procs : Kill(q)
  BY <1>4 DEF Snapshot, Kill, vars
<1>5. QED
  BY <1>1, <1>2, <1>3, <1>4 DEF Next

\* What do_hotremove prints in the end is the block the scan preferred.
LEMMA WhichBlock ==
  ASSUME [Next]_vars
  PROVE  \/ pmemblk' = pmemblk
         \/ \E q \in Procs : /\ proc[q].ph = "scan" /\ proc[q].scan.blk # NULL
                             /\ ~(proc[q].scan.i < get_max_memblock(blocks.zones))
                             /\ pmemblk' = proc[q].scan.blk
<1>1. ASSUME NEW q \in Procs, Step(q), ~memblock_check(q)
      PROVE  pmemblk' = pmemblk
  BY <1>1 DEF Step, Fetch, Plain, Mmap, AllocateMore, Access, Munmap, Mremap, Work, Inject,
     WaitOp, Hotremove, BusyDies, Fork, ChildRuns, ForkStress,
     StressChild, Waitpid, IterateMapping, MremapStress, IterateFault, IterateFile, MbindFuzz
<1>2. ASSUME NEW q \in Procs, memblock_check(q)
      PROVE  \/ pmemblk' = pmemblk
             \/ /\ proc[q].ph = "scan" /\ proc[q].scan.blk # NULL
                /\ ~(proc[q].scan.i < get_max_memblock(blocks.zones))
                /\ pmemblk' = proc[q].scan.blk
  BY <1>2 DEF memblock_check
<1>3. CASE Snapshot \/ UNCHANGED vars \/ \E q \in Procs : Kill(q) \/ Answer(q)
  BY <1>3 DEF Snapshot, Kill, Answer, vars
<1>4. QED
  BY <1>1, <1>2, <1>3 DEF Next

LEMMA DataInvariant == Spec => []DataInv
<1>1. EngineInit => DataInv
  <2>1. SUFFICES ASSUME EngineInit PROVE DataInv
    OBVIOUS
  <2>2. prog \in Programs
    BY <2>1 DEF EngineInit
  <2>3. \A r \in {Fresh, Unborn} :
          /\ r.p = [k \in Chunks |-> NULL] /\ r.k = 0 /\ r.child = NULL
          /\ r.filters = <<>> /\ r.scan = NoScan /\ r.mem = [a \in {} |-> a]
    BY DEF Unborn, Fresh
  <2>4. NoScan.i = 2 /\ NoScan.blk = NULL /\ DOMAIN NoScan = {"i", "blk", "matched", "buf"}
    BY DEF NoScan
  <2>5. \A r \in {Fresh, Unborn} : ProcData(r)
    BY <2>2, <2>3, <2>4, ChunkFacts DEF ProcData
  <2>6. \A q \in Procs : ProcData(proc[q])
    BY <2>1, <2>5 DEF EngineInit
  <2>7. blocks \in BlockMaps \/ ~Has({"hotremove"})
    BY <2>1 DEF EngineInit, Has
  <2>8. QED
    BY <2>1, <2>6, <2>7 DEF EngineInit, DataInv
<1>2. EngineInv /\ DataInv /\ [Next]_vars => DataInv'
  <2>1. SUFFICES ASSUME EngineInv, DataInv, [Next]_vars PROVE DataInv'
    OBVIOUS
  <2>2. prog' = prog /\ blocks' = blocks
    BY <2>1, ProgFixed
  <2>3. \A q \in Procs : ProcData(proc'[q])
    BY <2>1, StepTraced, FollowsData DEF Traced
  <2>4. \A q \in Procs : ProcData(proc[q])'
    BY <2>2, <2>3 DEF ProcData, Chunks, nr_chunk, nr_p
  <2>5. (blocks \in BlockMaps \/ ~Has({"hotremove"}))'
    BY <2>1, <2>2 DEF DataInv, Has
  <2>6. (UsedWhileMapped => poison \subseteq Nat)'
    BY <2>1, WhatIsPoisoned DEF DataInv
  <2>7. pmemblk' \in Nat
    BY <2>1, WhichBlock DEF DataInv, ProcData
  <2>8. spoke' \subseteq Procs
    BY <2>1, WhoSpeaks DEF DataInv, pprintf
  <2>9. QED
    BY <2>4, <2>5, <2>6, <2>7, <2>8 DEF DataInv
<1>3. QED
  BY <1>1, <1>2, EngineInvariant, PTL DEF Spec

\* Every process is an include.h process at any time: its index is in the list or
\* right behind it, its chunks are where do_mmap puts them or not yet mapped, the
\* page with a memory error is a page of the chunk set, and the block handed to
\* the controller is one that memblock_check looked at.
THEOREM EngineTypes ==
  ASSUME UsedWhileMapped
  PROVE  Spec => []TypeOK
<1>1. EngineInv /\ DataInv => TypeOK
  BY DEF EngineInv, DataInv, ProcInv, Shape, Phases, Over, ProcData, TypeOK
<1>2. QED
  BY <1>1, EngineInvariant, DataInvariant, PTL
-----------------------------------------------------------------------------
(* No page is lost or mapped twice.                                        *)

\* A page of a backend is a page of one of its chunks.
LEMMA PageOfBackend ==
  ASSUME prog \in Programs, NEW t \in Types, NEW n \in 0 .. (nr_p - 1)
  PROVE  t * nr_chunk * CHUNKSIZE + n \in Int /\ Page(t * nr_chunk * CHUNKSIZE + n)
<1> DEFINE C == CHUNKSIZE
           N == nr_chunk
           i == n \div C
           k == t * N + i
<1>1. /\ nr_p \in Nat \ {0} /\ N \in Nat \ {0} /\ C \in Nat \ {0} /\ prog.types \in Nat \ {0}
      /\ t \in Nat /\ n \in Nat /\ t + 1 <= prog.types
  BY ProgramSizes, ChunkAssumption DEF Types
<1>2. i \in Nat /\ n % C \in 0 .. (C - 1) /\ n = i * C + (n % C)
  BY <1>1, DivMod
<1>3. (nr_p - 1) % C \in 0 .. (C - 1) /\ nr_p - 1 = (N - 1) * C + ((nr_p - 1) % C)
  BY <1>1, LastPage DEF nr_chunk
<1>4. i <= N - 1
  <2> SUFFICES ASSUME N <= i PROVE FALSE
    BY <1>1, <1>2
  <2>1. N * C <= i * C
    BY <1>1, <1>2, MulMono
  <2>2. N * C = (N - 1) * C + C
    BY <1>1, Z3
  <2> DEFINE x == N * C  y == i * C  z == (N - 1) * C  u == n % C  v == (nr_p - 1) % C
  <2>3. x \in Int /\ y \in Int /\ z \in Int
    BY <1>1, <1>2, Z3
  <2>4. x <= y /\ x = z + C /\ n = y + u /\ nr_p - 1 = z + v /\ u \in 0 .. (C - 1) /\ v \in 0 .. (C - 1)
    BY <1>2, <1>3, <2>1, <2>2
  <2> HIDE DEF x, y, z, u, v
  <2>5. QED
    BY <1>1, <2>3, <2>4
<1>5. k \in Chunks
  <2>1. (t + 1) * N <= prog.types * N /\ (t + 1) * N = t * N + N
    <3>1. (t + 1) * N <= prog.types * N
      BY <1>1, MulMono
    <3>2. (t + 1) * N = t * N + N
      BY <1>1, Z3
    <3>3. QED
      BY <3>1, <3>2
  <2> DEFINE x == t * N  y == prog.types * N  w == (t + 1) * N
  <2>2. x \in Nat /\ y \in Int /\ w \in Int
    BY <1>1, Z3
  <2>3. w <= y /\ w = x + N /\ k = x + i /\ Chunks = 0 .. (y - 1)
    BY <2>1 DEF Chunks
  <2> HIDE DEF x, y, w, k, i
  <2>4. QED
    BY <1>1, <1>2, <1>4, <2>2, <2>3
<1>6. t * N * C + n \in ChunkArea(nr_p, k)
  BY <1>1, ChunksTile DEF nr_chunk
<1>7. t * N * C + n \in Int
  <2>1. t * N * C \in Int
    BY <1>1, Z3
  <2> DEFINE x == t * N * C
  <2> HIDE DEF x
  <2>2. x + n \in Int
    BY <1>1, <2>1 DEF x
  <2>3. QED
    BY <2>2 DEF x
<1>8. QED
  BY <1>5, <1>6, <1>7 DEF Page

\* The chunks of the only backend are all below the place they are moved to.
LEMMA ChunksBelow ==
  ASSUME prog \in Programs, prog.types = 1
  PROVE  /\ \A k \in Chunks : BaseAddr(k) + Size(k) <= Away
         /\ \A a : Page(a) => a \in 0 .. (Away - 1)
<1>1. /\ nr_chunk \in Nat \ {0} /\ CHUNKSIZE \in Nat \ {0} /\ Away \in Nat
  BY ProgramSizes, ChunkFacts
<1>2. ASSUME NEW k \in Chunks PROVE BaseAddr(k) + Size(k) <= Away
  <2>1. k \in Nat /\ k + 1 <= nr_chunk /\ Size(k) \in 1 .. CHUNKSIZE /\ BaseAddr(k) \in Nat
    BY <1>1, ChunkFacts DEF Chunks
  <2>2. (k + 1) * CHUNKSIZE <= nr_chunk * CHUNKSIZE
    BY <1>1, <2>1, MulMono
  <2>3. (k + 1) * CHUNKSIZE = k * CHUNKSIZE + CHUNKSIZE
    BY <1>1, <2>1, Z3
  <2>4. BaseAddr(k) + CHUNKSIZE <= Away
    BY <2>2, <2>3 DEF BaseAddr, Away
  <2>5. QED
    BY <1>1, <2>1, <2>4
<1>3. ASSUME NEW a, Page(a) PROVE a \in 0 .. (Away - 1)
  <2>1. PICK k \in Chunks : a \in Area(BaseAddr(k), Size(k))
    BY <1>3, ChunkFacts DEF Page
  <2>2. BaseAddr(k) \in Nat /\ Size(k) \in Nat
    BY ChunkFacts
  <2>3. QED
    BY <1>1, <1>2, <2>1, <2>2 DEF Area
<1>4. QED
  BY <1>2, <1>3

\* Moving a chunk away, or back, when no page is above and below at once.
Sound(mem, P, W) == \A a \in DOMAIN mem : mem[a] \in {a, a - W} /\ mem[a] \in P

LEMMA MovedAway ==
  ASSUME NEW W \in Nat, NEW P, P \subseteq 0 .. (W - 1), NEW mem, DOMAIN mem \subseteq Int,
         NEW base \in Nat, NEW size \in Nat, base + size <= W, Area(base, size) \subseteq P,
         Sound(mem, P, W), Area(base, size) \subseteq DOMAIN mem,
         NEW new, new = Move(mem, base, base + W, size)
  PROVE  /\ Sound(new, P, W)
         /\ \A a \in P : Either(mem, a, W) => Either(new, a, W)
<1>1. \A a \in Area(base, size) : mem[a] = a /\ a \in P /\ a \in Int /\ a < W
  BY DEF Sound, Area
<1>2. /\ DOMAIN new = (DOMAIN mem \ Area(base, size)) \cup Area(base + W, size)
      /\ \A a \in DOMAIN mem \ Area(base, size) : a \notin Area(base + W, size) => new[a] = mem[a]
  BY DEF Move
<1>3. \A a \in Area(base + W, size) : a \in Int /\ a - W \in Area(base, size)
  BY DEF Area
<1>4. \A a \in Area(base + W, size) : new[a] = a - W
  <2>1. ASSUME NEW a \in Area(base + W, size) PROVE new[a] = a - W
    <3>1. new[a] = mem[a - (base + W) + base]
      BY DEF Move
    <3>2. a \in Int /\ a - (base + W) + base = a - W
      BY <1>3
    <3>3. QED
      BY <1>1, <1>3, <3>1, <3>2
  <2>2. QED
    BY <2>1
<1>5. Sound(new, P, W)
  <2>1. ASSUME NEW a \in DOMAIN new PROVE new[a] \in {a, a - W} /\ new[a] \in P
    <3>1. CASE a \in Area(base + W, size)
      BY <1>1, <1>3, <1>4, <3>1
    <3>2. CASE a \notin Area(base + W, size)
      BY <1>2, <3>2 DEF Sound
    <3>3. QED
      BY <3>1, <3>2
  <2>2. QED
    BY <2>1 DEF Sound
<1>6. ASSUME NEW a \in P, Either(mem, a, W) PROVE Either(new, a, W)
  <2>1. a \in Int /\ 0 <= a /\ a < W /\ a \notin Area(base + W, size) /\ a + W \notin Area(base, size)
    BY DEF Area
  <2>2. CASE a \in Area(base, size)
    <3>1. a \notin DOMAIN new
      BY <1>2, <2>1, <2>2
    <3>2. a + W \in Area(base + W, size) /\ (a + W) - W = a
      BY <2>1, <2>2 DEF Area
    <3>3. a + W \in DOMAIN new /\ new[a + W] = a
      BY <1>2, <1>4, <3>2
    <3>4. QED
      BY <3>1, <3>3 DEF Either
  <2>3. CASE a \notin Area(base, size)
    <3>1. a + W \notin Area(base + W, size)
      BY <2>1, <2>3 DEF Area
    <3>2. /\ a \in DOMAIN new <=> a \in DOMAIN mem
          /\ a + W \in DOMAIN new <=> a + W \in DOMAIN mem
      BY <1>2, <2>1, <2>3, <3>1
    <3>3. /\ a \in DOMAIN mem => new[a] = mem[a]
          /\ a + W \in DOMAIN mem => new[a + W] = mem[a + W]
      BY <1>2, <2>1, <2>3, <3>1
    <3>4. QED
      BY <1>6, <3>2, <3>3 DEF Either
  <2>4. QED
    BY <2>2, <2>3
<1>7. QED
  BY <1>5, <1>6

LEMMA MovedBack ==
  ASSUME NEW W \in Nat, NEW P, P \subseteq 0 .. (W - 1), NEW mem, DOMAIN mem \subseteq Int,
         NEW base \in Nat, NEW size \in Nat, base + size <= W, Area(base, size) \subseteq P,
         Sound(mem, P, W), Area(base + W, size) \subseteq DOMAIN mem,
         NEW new, new = Move(mem, base + W, base, size)
  PROVE  /\ Sound(new, P, W)
         /\ \A a \in P : Either(mem, a, W) => Either(new, a, W)
<1>1. \A a \in Area(base + W, size) : a \in Int /\ a >= W /\ mem[a] = a - W
  <2>1. ASSUME NEW a \in Area(base + W, size) PROVE a \in Int /\ a >= W /\ mem[a] = a - W
    <3>1. a \in Int /\ a >= W
      BY DEF Area
    <3>2. mem[a] \in {a, a - W} /\ mem[a] \in 0 .. (W - 1)
      BY DEF Sound
    <3>3. QED
      BY <3>1, <3>2
  <2>2. QED
    BY <2>1
<1>2. /\ DOMAIN new = (DOMAIN mem \ Area(base + W, size)) \cup Area(base, size)
      /\ \A a \in DOMAIN mem \ Area(base + W, size) : a \notin Area(base, size) => new[a] = mem[a]
  BY DEF Move
<1>3. \A a \in Area(base, size) : a \in Int /\ a \in P /\ a + W \in Area(base + W, size)
  BY DEF Area
<1>4. \A a \in Area(base, size) : new[a] = a
  <2>1. ASSUME NEW a \in Area(base, size) PROVE new[a] = a
    <3>1. new[a] = mem[a - base + (base + W)]
      BY DEF Move
    <3>2. a \in Int /\ a - base + (base + W) = a + W /\ (a + W) - W = a
      BY <1>3
    <3>3. QED
      BY <1>1, <1>3, <3>1, <3>2
  <2>2. QED
    BY <2>1
<1>5. Sound(new, P, W)
  <2>1. ASSUME NEW a \in DOMAIN new PROVE new[a] \in {a, a - W} /\ new[a] \in P
    <3>1. CASE a \in Area(base, size)
      BY <1>3, <1>4, <3>1
    <3>2. CASE a \notin Area(base, size)
      BY <1>2, <3>2 DEF Sound
    <3>3. QED
      BY <3>1, <3>2
  <2>2. QED
    BY <2>1 DEF Sound
<1>6. ASSUME NEW a \in P, Either(mem, a, W) PROVE Either(new, a, W)
  <2>1. a \in Int /\ 0 <= a /\ a < W /\ a \notin Area(base + W, size) /\ a + W \notin Area(base, size)
    BY DEF Area
  <2>2. CASE a \in Area(base, size)
    <3>1. a \in DOMAIN new /\ new[a] = a
      BY <1>2, <1>4, <2>2
    <3>2. a + W \notin DOMAIN new
      BY <1>2, <1>3, <2>1, <2>2
    <3>3. QED
      BY <3>1, <3>2 DEF Either
  <2>3. CASE a \notin Area(base, size)
    <3>1. a + W \notin Area(base + W, size)
      BY <2>1, <2>3 DEF Area
    <3>2. /\ a \in DOMAIN new <=> a \in DOMAIN mem
          /\ a + W \in DOMAIN new <=> a + W \in DOMAIN mem
      BY <1>2, <2>1, <2>3, <3>1
    <3>3. /\ a \in DOMAIN mem => new[a] = mem[a]
          /\ a + W \in DOMAIN mem => new[a + W] = mem[a + W]
      BY <1>2, <2>1, <2>3, <3>1
    <3>4. QED
      BY <1>6, <3>2, <3>3 DEF Either
  <2>4. QED
    BY <2>2, <2>3
<1>7. QED
  BY <1>5, <1>6

\* What a process has been through does not go away.
LEMMA PastStays ==
  ASSUME NEW r, NEW s, r.pc \in Int, s.pc \in {r.pc, r.pc + 1}, NEW names, prog \in Programs
  PROVE  Past(r, names) => Past(s, names)
<1>1. DOMAIN prog.ops \subseteq Int
  BY ProgramSizes
<1>2. QED
  BY <1>1 DEF Past

LEMMA PageKeeps ==
  ASSUME prog \in Programs, NEW r, r.pc \in Int, PageProc(r), r.ph # "unborn",
         NEW s, s.mem = r.mem, s.p = r.p, s.pc \in {r.pc, r.pc + 1}
  PROVE  PageProc(s)
<1>1. \A names : Past(r, names) => Past(s, names)
  BY PastStays
<1>2. QED
  BY <1>1 DEF PageProc, Mapped, Placed, Once

\* A process is at an operation of its list.
LEMMA AtAnOp ==
  ASSUME prog \in Programs, NEW q, NEW r, ProcInv(q, r), r.ph \notin Over
  PROVE  /\ r.pc \in DOMAIN prog.ops /\ r.pc \in Int /\ DOMAIN prog.ops \subseteq Int
         /\ r.ph # "unborn" /\ Shape(r)
         /\ \A names : Op(r).op \in names => Past(r, names) /\ Has(names)
<1>1. r.pc \in DOMAIN prog.ops /\ r.pc \in Int /\ DOMAIN prog.ops \subseteq Int
  BY ProgramSizes DEF ProcInv, Shape
<1>2. QED
  BY <1>1 DEF Past, Has, Op, Over, ProcInv

\* do_mmap, when nothing has moved yet.
LEMMA PageMaps ==
  ASSUME prog \in Programs, MovesAreSafe, NEW q, NEW r, ProcInv(q, r), r.ph \notin Over,
         ProcData(r), PageProc(r), NEW s, Maps(r, s)
  PROVE  PageProc(s)
<1> DEFINE S == UNION {ChunkArea(nr_p, k) : k \in Chunks}
           t == Remapped(r)
           o == Op(r).op
<1>1. /\ r.pc \in DOMAIN prog.ops /\ r.pc \in Int /\ DOMAIN prog.ops \subseteq Int
      /\ r.ph # "unborn" /\ Shape(r)
  BY AtAnOp
<1>2. o \in Mmaps \cup {"iterate_fault_dontneed"} /\ Keeps(t, s)
  BY DEF Maps, Remapped
<1>3. t.ph = r.ph /\ t.pc = r.pc
  BY <1>1, RemappedFacts
<1>4. ~Past(r, Moves)
  <2> SUFFICES ASSUME NEW i \in DOMAIN prog.ops, i <= r.pc, prog.ops[i].op \in Moves PROVE FALSE
    BY DEF Past
  <2>1. i # r.pc
    BY <1>2 DEF Op, Moves, Mmaps
  <2>2. r.pc > i
    BY <1>1, <2>1
  <2>3. QED
    BY <1>1, <1>2, <2>2 DEF MovesAreSafe, Op
<1>5. /\ t.mem = [a \in DOMAIN r.mem \cup S |-> IF a \in S THEN a ELSE r.mem[a]]
      /\ t.p = [k \in Chunks |-> BaseAddr(k)]
  <2> DEFINE m == Map(r, S)
  <2>1. DOMAIN m = Fields /\ m.mem = [a \in DOMAIN r.mem \cup S |-> IF a \in S THEN a ELSE r.mem[a]]
    BY <1>1 DEF Map, Shape, Fields
  <2> HIDE DEF m
  <2>2. LET z == [m EXCEPT !.p = [k \in Chunks |-> BaseAddr(k)]] IN
          z.mem = m.mem /\ z.p = [k \in Chunks |-> BaseAddr(k)]
    BY <2>1 DEF Fields
  <2>3. QED
    BY <2>1, <2>2 DEF Remapped, m
<1>6. S \subseteq Int /\ \A a : Page(a) <=> a \in S
  BY ChunkFacts DEF Page, Area
<1>7. Away \in Nat \ {0}
  BY ChunkFacts
<1> HIDE DEF S, t
<1>8. ASSUME ~Past(r, {"munmap", "iterate_mapping"})
      PROVE  /\ \A a \in Mapped(t) : t.mem[a] = a
             /\ Has(Moves) => \A a \in Mapped(t) : Page(t.mem[a])
             /\ Placed(t) /\ Once(t)
  <2>1. /\ \A a \in DOMAIN r.mem : r.mem[a] = a
        /\ Has(Moves) => \A a \in DOMAIN r.mem : Page(r.mem[a])
    BY <1>1, <1>4, <1>8 DEF PageProc, Mapped
  <2>2. \A a \in DOMAIN t.mem : t.mem[a] = a
    BY <1>5, <2>1
  <2>3. Has(Moves) => \A a \in DOMAIN t.mem : Page(t.mem[a])
    BY <1>5, <1>6, <2>1, <2>2
  <2>4. ASSUME NEW a \in Int, Page(a) PROVE Either(t.mem, a, Away)
    <3>1. a \in DOMAIN t.mem /\ t.mem[a] = a
      BY <1>5, <1>6, <2>2, <2>4
    <3>2. a + Away \in DOMAIN t.mem => t.mem[a + Away] = a + Away
      BY <2>2
    <3>3. a + Away # a
      BY <1>7
    <3>4. QED
      BY <3>1, <3>2, <3>3 DEF Either
  <2>5. QED
    BY <1>5, <2>2, <2>3, <2>4 DEF Mapped, Placed, Once
<1>9. PageProc(t)
  BY <1>3, <1>8 DEF PageProc, Past
<1>10. QED
  BY <1>1, <1>2, <1>3, <1>9, PageKeeps DEF Keeps

\* allocate_more, in a list that moves nothing.
LEMMA PageAllocates ==
  ASSUME prog \in Programs, MovesAreSafe, NEW q, NEW r, ProcInv(q, r), r.ph \notin Over,
         ProcData(r), PageProc(r), NEW s, Allocates(r, s)
  PROVE  PageProc(s)
<1> DEFINE S == Area(nr_p, nr_p)
           t == Map(r, S)
<1>1. /\ r.pc \in DOMAIN prog.ops /\ r.pc \in Int /\ r.ph # "unborn" /\ Shape(r)
  BY AtAnOp
<1>2. Op(r).op = "allocate_more" /\ Keeps(t, s)
  BY DEF Allocates
<1>3. t.ph = r.ph /\ t.pc = r.pc /\ t.p = r.p
      /\ t.mem = [a \in DOMAIN r.mem \cup S |-> IF a \in S THEN a ELSE r.mem[a]]
  BY <1>1 DEF Map, Shape, Fields
<1>4. ~Has(Moves)
  BY <1>1, <1>2 DEF MovesAreSafe, Has, Op
<1>5. ~Past(r, Moves)
  BY <1>4 DEF Past, Has
<1>6. Away \in Nat \ {0}
  BY ChunkFacts
<1> HIDE DEF S, t
<1>7. ASSUME ~Past(r, {"munmap", "iterate_mapping"})
      PROVE  /\ \A a \in Mapped(t) : t.mem[a] = a
             /\ Placed(r) /\ Once(r) => Placed(t) /\ Once(t)
  <2>1. \A a \in DOMAIN r.mem : r.mem[a] = a
    BY <1>1, <1>5, <1>7 DEF PageProc, Mapped
  <2>2. \A a \in DOMAIN t.mem : t.mem[a] = a
    BY <1>3, <2>1
  <2>3. ASSUME NEW a \in Int, Page(a), Either(r.mem, a, Away) PROVE Either(t.mem, a, Away)
    <3>1. a + Away # a
      BY <1>6
    <3>2. a \in DOMAIN r.mem
      BY <2>1, <2>3, <3>1 DEF Either
    <3>3. a \in DOMAIN t.mem /\ t.mem[a] = a
      BY <1>3, <2>2, <3>2
    <3>4. a + Away \in DOMAIN t.mem => t.mem[a + Away] = a + Away
      BY <2>2
    <3>5. QED
      BY <3>1, <3>3, <3>4 DEF Either
  <2>4. QED
    BY <1>3, <2>2, <2>3 DEF Mapped, Placed, Once
<1>8. PageProc(t)
  BY <1>1, <1>3, <1>4, <1>7 DEF PageProc, Past
<1>9. QED
  BY <1>1, <1>2, <1>3, <1>8, PageKeeps DEF Keeps

\* __mremap_chunk, the chunks of one backend.
LEMMA PageMoves ==
  ASSUME prog \in Programs, MovesAreSafe, NEW q, NEW r, ProcInv(q, r), r.ph \notin Over,
         ProcData(r), PageProc(r), Op(r).op \in Moves,
         NEW back \in BOOLEAN, NEW m \in MremapChunk(r, back), NEW s,
         s.mem = m.mem, s.p = m.p, s.pc \in {r.pc, r.pc + 1}
  PROVE  PageProc(s)
<1> DEFINE k == r.k
           W == Away
           base == BaseAddr(k)
           P == {a \in Int : Page(a)}
<1>1. /\ r.pc \in DOMAIN prog.ops /\ r.pc \in Int /\ r.ph # "unborn" /\ Shape(r)
      /\ Past(r, Moves) /\ Has(Moves)
  BY AtAnOp
<1>2. prog.types = 1
  BY <1>1 DEF MovesAreSafe, Op
<1>3. /\ k \in Chunks /\ m.p = r.p
      /\ \/ m.mem = r.mem
         \/ /\ Area(From(back, r.p[k]), Size(k)) \subseteq DOMAIN r.mem
            /\ m.mem = Move(r.mem, From(back, r.p[k]), To(back, r.p[k]), Size(k))
  BY <1>1, MremapCases
<1>4. CASE m.mem = r.mem
  BY <1>1, <1>3, <1>4, PageKeeps
<1>5. CASE /\ Area(From(back, r.p[k]), Size(k)) \subseteq DOMAIN r.mem
           /\ m.mem = Move(r.mem, From(back, r.p[k]), To(back, r.p[k]), Size(k))
  <2>1. SUFFICES ASSUME ~Past(s, {"munmap", "iterate_mapping"})
                 PROVE  /\ \A a \in Mapped(s) : s.mem[a] \in {a, a - Away} /\ Page(s.mem[a])
                        /\ Placed(s) /\ Once(s) /\ Past(s, Moves)
    BY DEF PageProc
  <2>2. Past(s, Moves) /\ ~Past(r, {"munmap", "iterate_mapping"})
    BY <1>1, <2>1, PastStays
  <2>3. /\ base \in Nat /\ Size(k) \in Nat \ {0} /\ W \in Nat /\ base + Size(k) <= W
        /\ Area(base, Size(k)) = ChunkArea(nr_p, k)
    BY <1>2, <1>3, ChunkFacts, ChunksBelow
  <2>4. DOMAIN r.mem # {}
    <3>1. From(back, r.p[k]) \in Int
      BY <1>1, MremapCases
    <3>2. Area(From(back, r.p[k]), Size(k)) # {}
      BY <2>3, <3>1 DEF Area
    <3>3. QED
      BY <1>5, <3>2
  <2>5. Placed(r) /\ Once(r) /\ \A a \in DOMAIN r.mem : r.mem[a] \in {a, a - Away} /\ Page(r.mem[a])
    BY <1>1, <2>2, <2>4 DEF PageProc, Mapped
  <2>6. r.p[k] = base
    BY <1>3, <2>5 DEF Placed
  <2>7. P \subseteq 0 .. (W - 1) /\ Area(base, Size(k)) \subseteq P
    BY <1>2, <1>3, <2>3, ChunksBelow DEF Page, Area
  <2>8. DOMAIN r.mem \subseteq Int /\ \A a \in DOMAIN r.mem : r.mem[a] \in Int
    BY DEF ProcData
  <2>9. Sound(r.mem, P, W) /\ \A a \in P : Either(r.mem, a, W)
    BY <2>5, <2>8 DEF Sound, Once
  <2> HIDE DEF k, W, base, P
  <2>10. Sound(m.mem, P, W) /\ \A a \in P : Either(m.mem, a, W)
    <3>1. CASE back
      <4>1. From(back, r.p[k]) = base + W /\ To(back, r.p[k]) = base
        BY <2>6, <3>1 DEF From, To, W
      <4>2. QED
        BY <1>5, <2>3, <2>7, <2>8, <2>9, <4>1, MovedBack
    <3>2. CASE ~back
      <4>1. From(back, r.p[k]) = base /\ To(back, r.p[k]) = base + W
        BY <2>6, <3>2 DEF From, To, W
      <4>2. QED
        BY <1>5, <2>3, <2>7, <2>8, <2>9, <4>1, MovedAway
    <3>3. QED
      BY <3>1, <3>2
  <2>11. \A a \in Mapped(s) : s.mem[a] \in {a, a - Away} /\ Page(s.mem[a])
    BY <2>10 DEF Sound, Mapped, P, W
  <2>12. Placed(s) /\ Once(s)
    BY <1>3, <2>5, <2>10 DEF Placed, Once, P, W
  <2>13. QED
    BY <2>2, <2>11, <2>12
<1>6. QED
  BY <1>3, <1>4, <1>5

LEMMA FollowsPage ==
  ASSUME EngineInv, DataInv, PageInv, MovesAreSafe, NEW x \in Procs, NEW s, Follows(x, s)
  PROVE  PageProc(s)
<1> DEFINE r == proc[x]
<1>1. prog \in Programs /\ ProcInv(x, r) /\ ProcData(r) /\ PageProc(r) /\ Shape(r)
  BY DEF EngineInv, ProcInv, DataInv, PageInv
<1>2. CASE s = r \/ s = Unborn
  <2>1. Unborn.ph = "unborn"
    BY DEF Unborn, Fresh
  <2>2. QED
    BY <1>1, <1>2, <2>1 DEF PageProc
<1>3. ASSUME NEW q \in Procs, proc[q].ph # "unborn", Keeps(proc[q], s) PROVE PageProc(s)
  <2>1. PageProc(proc[q]) /\ proc[q].pc \in Int
    BY <1>1, ProgramSizes DEF EngineInv, ProcInv, Shape, PageInv
  <2>2. QED
    BY <1>1, <1>3, <2>1, PageKeeps DEF Keeps
<1>4. CASE r.ph \notin Over /\ (Maps(r, s) \/ Allocates(r, s))
  BY <1>1, <1>4, PageMaps, PageAllocates
<1>5. CASE r.ph \notin Over /\ Unmaps(r, s)
  <2>1. Past(r, {"munmap", "iterate_mapping"}) /\ r.pc \in Int
    BY <1>1, <1>5, AtAnOp DEF Unmaps
  <2>2. PICK t \in {r, Remapped(r)} : Keeps(t, s) \/ \E S : Keeps(Unmap(t, S), s)
    BY <1>5 DEF Unmaps, Remapped
  <2>3. Shape(t) /\ t.pc = r.pc
    BY <1>1, <2>2, RemappedFacts
  <2>4. \A S : Unmap(t, S).pc = r.pc
    BY <2>3 DEF Unmap, Shape, Fields
  <2>5. s.pc \in {r.pc, r.pc + 1}
    BY <2>2, <2>3, <2>4 DEF Keeps
  <2>6. Past(s, {"munmap", "iterate_mapping"})
    BY <1>1, <2>1, <2>5, PastStays
  <2>7. QED
    BY <2>6 DEF PageProc
<1>6. CASE r.ph \notin Over /\ MovesTo(r, s)
  <2>1. PICK m \in MremapChunk(r, r.ph = "back") :
          (~Walked(m) /\ Keeps(m, s)) \/ Keeps([m EXCEPT !.k = 0], s)
    BY <1>6 DEF MovesTo
  <2>2. m.pc = r.pc /\ DOMAIN m = Fields
    BY <1>1, MremapCases
  <2>3. [m EXCEPT !.k = 0].mem = m.mem /\ [m EXCEPT !.k = 0].p = m.p /\ [m EXCEPT !.k = 0].pc = m.pc
    BY <2>2 DEF Fields
  <2>4. s.mem = m.mem /\ s.p = m.p /\ s.pc \in {r.pc, r.pc + 1}
    BY <2>1, <2>2, <2>3 DEF Keeps
  <2>5. Op(r).op \in Moves /\ (r.ph = "back") \in BOOLEAN
    BY <1>6 DEF MovesTo
  <2>6. QED
    BY <1>1, <1>6, <2>4, <2>5, PageMoves
<1>7. CASE r.ph \notin Over /\ (StartsScan(r, s) \/ Scans(r, s))
  <2>1. s.mem = r.mem /\ s.p = r.p /\ s.pc = r.pc
    <3>1. CASE StartsScan(r, s)
      BY <1>1, <3>1 DEF StartsScan, Shape, Fields
    <3>2. CASE s = [r EXCEPT !.scan = ScanBlock(r.filters, r.scan)]
      BY <1>1, <3>2 DEF Shape, Fields
    <3>3. CASE s = [r EXCEPT !.scan = NoScan, !.ph = "inner"]
      BY <1>1, <3>3 DEF Shape, Fields
    <3>4. QED
      BY <1>7, <3>1, <3>2, <3>3 DEF Scans
  <2>2. r.ph # "unborn" /\ r.pc \in Int
    BY <1>1, <1>7, AtAnOp
  <2>3. QED
    BY <1>1, <2>1, <2>2, PageKeeps
<1>8. QED
  BY <1>2, <1>3, <1>4, <1>5, <1>6, <1>7 DEF Follows

LEMMA PageInvariant ==
  ASSUME MovesAreSafe
  PROVE  Spec => []PageInv
<1>1. EngineInit => PageInv
  <2>1. SUFFICES ASSUME EngineInit, NEW q \in Procs PROVE PageProc(proc[q])
    BY DEF PageInv
  <2>2. /\ Unborn.ph = "unborn" /\ Fresh.p = [k \in Chunks |-> NULL] /\ Mapped(Fresh) = {}
    BY DEF Unborn, Fresh, Mapped
  <2>3. PageProc(Fresh) /\ PageProc(Unborn)
    BY <2>2 DEF PageProc
  <2>4. QED
    BY <2>1, <2>3 DEF EngineInit
<1>2. EngineInv /\ DataInv /\ PageInv /\ [Next]_vars => PageInv'
  <2>1. SUFFICES ASSUME EngineInv, DataInv, PageInv, [Next]_vars PROVE PageInv'
    OBVIOUS
  <2>2. prog' = prog
    BY <2>1, ProgFixed
  <2>3. \A q \in Procs : PageProc(proc'[q])
    BY <2>1, StepTraced, FollowsPage DEF Traced
  <2>4. \A q \in Procs : PageProc(proc[q])'
    BY <2>2, <2>3 DEF PageProc, Past, Has, Mapped, Page, Placed, Once, Either, Away, Chunks,
       nr_chunk, nr_p
  <2>5. QED
    BY <2>4 DEF PageInv
<1>3. QED
  BY <1>1, <1>2, EngineInvariant, DataInvariant, PTL DEF Spec

\* No sequence of operations loses a page or maps one twice, whichever calls of
\* mremap fail, in one process and in the children that run the rest of the list:
\* until the memory is unmapped every page is mapped once, where do_mmap put it
\* or nr_chunk chunks above (include.h:459, 1067, 1070).
THEOREM PagesAreConserved ==
  ASSUME MovesAreSafe
  PROVE  Spec => []PagesConserved
<1>1. EngineInv /\ DataInv /\ PageInv => PagesConserved
  <2>1. SUFFICES ASSUME EngineInv, DataInv, PageInv, NEW q \in Procs, proc[q].ph # "unborn",
                        proc[q].p[0] # NULL, ~Past(proc[q], {"munmap", "iterate_mapping"}),
                        NEW t \in Types, NEW n \in 0 .. (nr_p - 1)
                 PROVE  LET r == proc[q]
                            pg == t * nr_chunk * CHUNKSIZE + n IN
                          /\ Cardinality({a \in Mapped(r) : r.mem[a] = pg}) = 1
                          /\ \A a \in Mapped(r) : r.mem[a] = pg => a \in {pg, pg + Away}
    BY DEF PagesConserved
  <2> DEFINE r == proc[q]
             pg == t * nr_chunk * CHUNKSIZE + n
             S == {a \in Mapped(r) : r.mem[a] = pg}
  <2>2. pg \in Int /\ Page(pg) /\ Away \in Int /\ 0 \in Chunks
    BY <2>1, PageOfBackend, ChunkFacts DEF EngineInv
  <2>3. (\A a \in Mapped(r) : r.mem[a] \in {a, a - Away}) /\ Once(r)
    BY <2>1, <2>2 DEF PageInv, PageProc
  <2>4. Mapped(r) \subseteq Int
    BY <2>1 DEF DataInv, ProcData, Mapped
  <2> HIDE DEF pg, r
  <2>5. \A a \in Mapped(r) : r.mem[a] = pg => a \in {pg, pg + Away}
    BY <2>2, <2>3, <2>4
  <2>6. Either(r.mem, pg, Away)
    BY <2>2, <2>3 DEF Once
  <2>7. S = {pg} \/ S = {pg + Away}
    <3>1. pg \in S <=> ~(pg + Away \in S)
      BY <2>6 DEF Either, Mapped
    <3>2. S \subseteq {pg, pg + Away}
      BY <2>5
    <3>3. QED
      BY <3>1, <3>2
  <2>8. Cardinality(S) = 1
    BY <2>7, FS_Singleton
  <2>9. QED
    BY <2>5, <2>8 DEF r, pg
<1>2. QED
  BY <1>1, EngineInvariant, DataInvariant, PageInvariant, PTL
-----------------------------------------------------------------------------
(* hotremove picks the fullest block.                                      *)

\* The bits named on one side of a filter text.
Bits(S) == UNION {n.bits : n \in S}

\* The filter parsed from a plain text lets through the pages the text asks for.
LEMMA FilterMeans ==
  ASSUME PlainFilters, prog \in Programs, NEW i \in DOMAIN prog.ops, prog.ops[i].op = "hotremove",
         NEW t, t = prog.ops[i].pageflags
  PROVE  /\ parse_bits_mask(t).bits = Bits(t.right)
         /\ KPF.COMPOUND_HEAD \in Bits(t.right) => Bits(t.right) \cap HugeBits # {}
         /\ \A flags \in SUBSET KPF_ALL_BITS : Passes(parse_bits_mask(t), flags) <=> Wanted(t, flags)
<1>1. /\ t.eq /\ t.left # {} /\ t.right \subseteq t.left /\ Bits(t.right) # KPF_ALL_BITS
      /\ \A n \in t.left : ~n.neg /\ ~n.compound /\ \E b \in KPF_ALL_BITS : n.bits = {b}
      /\ KPF.COMPOUND_HEAD \in Bits(t.right) => Bits(t.right) \cap HugeBits # {}
  BY DEF PlainFilters, Bits
<1>2. t.eq = TRUE /\ \A n \in t.left : n.neg \in BOOLEAN
  <2>1. prog.ops[i] \in Operations
    BY ProgramSizes
  <2>2. t \in [eq : BOOLEAN, left : SUBSET FlagNames, right : SUBSET FlagNames]
    BY <2>1 DEF Operations
  <2>3. QED
    BY <1>1, <2>2 DEF FlagNames
<1>3. ASSUME NEW n \in t.left PROVE parse_flag_name(n) = n.bits /\ n.bits \subseteq KPF_ALL_BITS
  <2>1. PICK b \in KPF_ALL_BITS : n.bits = {b}
    BY <1>1
  <2>2. {c \in n.bits : \A d \in n.bits : c <= d} = n.bits
    BY <2>1 DEF KPF_ALL_BITS
  <2>3. QED
    BY <1>1, <2>1, <2>2 DEF parse_flag_name
<1>4. All(t.left) = Bits(t.left) /\ All(t.right) = Bits(t.right)
  BY <1>1, <1>3 DEF All, Bits
<1>5. Words(t.left) /\ Words(t.right) /\ Minus(t.left) = {} /\ Minus(t.right) = {}
  BY <1>1, <1>2, <1>3 DEF Words, Minus
<1>6. All(t.right) \subseteq All(t.left)
  BY <1>1 DEF All
<1>7. parse_bits_mask(t).bits = Bits(t.right)
  <2>1. Plus(t.right) = t.right
    BY <1>1, <1>2 DEF Plus
  <2>2. parse_flag_names(t.right, FALSE) = All(t.right)
    BY <1>1, <1>2, <2>1, NamesOfPlus
  <2>3. QED
    BY <1>1, <1>4, <2>2 DEF parse_bits_mask
<1>8. ASSUME NEW flags \in SUBSET KPF_ALL_BITS
      PROVE  Passes(parse_bits_mask(t), flags) <=> Wanted(t, flags)
  <2>1. Passes(parse_bits_mask(t), flags)
           <=> /\ All(t.right) \subseteq flags
               /\ flags \cap (All(t.left) \ All(t.right)) = {}
    BY <1>1, <1>2, <1>4, <1>5, <1>6, MaskMeansItsText
  <2>2. Wanted(t, flags) <=> /\ Bits(t.right) \subseteq flags
                             /\ flags \cap (Bits(t.left) \ Bits(t.right)) = {}
    BY DEF Wanted, Bits
  <2>3. QED
    BY <1>4, <2>1, <2>2
<1>9. QED
  BY <1>1, <1>7, <1>8

\* The facts about the machine.
LEMMA BlockFacts ==
  ASSUME WholeBlocks, blocks \in BlockMaps
  PROVE  LET max == ScanMax  B == Len(blocks.dump[2]) IN
           /\ max \in Nat /\ max >= 2 /\ B \in Nat \ {0} /\ get_max_memblock(blocks.zones) \in Nat
           /\ DOMAIN blocks.dump[2] = 1 .. B
           /\ InScan = 2 .. (max - 1)
           /\ \A b \in 2 .. (max - 1) :
                /\ blocks.dump[b] \in Seq(SUBSET KPF_ALL_BITS) /\ Len(blocks.dump[b]) \in {0, B}
                /\ HP * Cardinality(HugeHeads(blocks.dump[b])) <= Len(blocks.dump[b])
<1> DEFINE g == get_max_memblock(blocks.zones)
<1>1. g \in Nat
  BY BlocksAssumption
<1>2. 2 \in DOMAIN blocks.dump /\ 2 .. (g - 1) \subseteq DOMAIN blocks.dump
  BY DEF WholeBlocks
<1>3. Len(blocks.dump[2]) \in Nat \ {0} /\ DOMAIN blocks.dump[2] = 1 .. Len(blocks.dump[2])
  <2>1. blocks.dump[2] \in Seq(SUBSET KPF_ALL_BITS)
    BY <1>2 DEF WholeBlocks
  <2>2. QED
    BY <2>1 DEF WholeBlocks
<1>4. \A b \in DOMAIN blocks.dump : b \in Nat /\ b >= 2
  BY DEF WholeBlocks
<1>5. ScanMax \in Nat /\ ScanMax >= 2 /\ 2 .. (ScanMax - 1) \subseteq DOMAIN blocks.dump
  BY <1>1, <1>2 DEF ScanMax
<1>6. InScan = 2 .. (ScanMax - 1)
  <2>1. ASSUME NEW b \in InScan PROVE b \in 2 .. (ScanMax - 1)
    BY <1>1, <1>4, <2>1 DEF InScan, ScanMax
  <2>2. ASSUME NEW b \in 2 .. (ScanMax - 1) PROVE b \in InScan
    BY <1>1, <1>5, <2>2 DEF InScan, ScanMax
  <2>3. QED
    BY <2>1, <2>2
<1>7. \A b \in DOMAIN blocks.dump :
        /\ blocks.dump[b] \in Seq(SUBSET KPF_ALL_BITS) /\ Len(blocks.dump[b]) \in {0, Len(blocks.dump[2])}
        /\ HP * Cardinality(HugeHeads(blocks.dump[b])) <= Len(blocks.dump[b])
  BY DEF WholeBlocks
<1>8. QED
  BY <1>1, <1>3, <1>5, <1>6, <1>7

LEMMA WeightFacts ==
  ASSUME NEW f
  PROVE  /\ Weight(<<f>>) \in Nat \ {0}
         /\ Weight(<<f>>) = IF KPF.COMPOUND_HEAD \in f.bits THEN HP ELSE 1
  BY ChunkAssumption DEF Weight

\* Counting the pages of a dump that have a property.
LEMMA PagesOfDump ==
  ASSUME NEW d, d \in Seq(SUBSET KPF_ALL_BITS), NEW T, T \subseteq DOMAIN d
  PROVE  IsFiniteSet(T) /\ Cardinality(T) \in Nat /\ Cardinality(T) <= Len(d)
<1>1. DOMAIN d = 1 .. Len(d) /\ Len(d) \in Nat
  OBVIOUS
<1>2. IsFiniteSet(1 .. Len(d)) /\ Cardinality(1 .. Len(d)) = Len(d)
  <2> DEFINE n == Len(d)
  <2>1. n \in Nat
    BY <1>1
  <2> HIDE DEF n
  <2>2. IsFiniteSet(1 .. n) /\ Cardinality(1 .. n) = IF 1 > n THEN 0 ELSE n - 1 + 1
    BY <2>1, FS_Interval
  <2>3. Cardinality(1 .. n) = n
    BY <2>1, <2>2
  <2>4. QED
    BY <2>2, <2>3 DEF n
<1>3. IsFiniteSet(T) /\ Cardinality(T) <= Cardinality(1 .. Len(d))
  BY <1>1, <1>2, FS_Subset
<1>4. QED
  BY <1>2, <1>3, FS_CardinalityType

\* A block has no more matching pages than pages.
LEMMA CountBound ==
  ASSUME PlainFilters, WholeBlocks, blocks \in BlockMaps, prog \in Programs,
         NEW i \in DOMAIN prog.ops, prog.ops[i].op = "hotremove",
         NEW t, t = prog.ops[i].pageflags, NEW b \in 2 .. (ScanMax - 1)
  PROVE  /\ Count(t, b) \in Nat
         /\ Count(t, b) * Weight(<<parse_bits_mask(t)>>) \in Nat
         /\ Count(t, b) * Weight(<<parse_bits_mask(t)>>) <= Len(blocks.dump[b])
         /\ Len(blocks.dump[b]) = 0 => Count(t, b) * Weight(<<parse_bits_mask(t)>>) = 0
<1> DEFINE d == blocks.dump[b]
           T == {j \in DOMAIN d : Wanted(t, d[j])}
           H == HugeHeads(d)
           W == Weight(<<parse_bits_mask(t)>>)
<1>1. d \in Seq(SUBSET KPF_ALL_BITS) /\ Len(d) \in Nat /\ HP * Cardinality(H) <= Len(d)
  <2>1. d \in Seq(SUBSET KPF_ALL_BITS) /\ HP * Cardinality(H) <= Len(d)
    BY BlockFacts
  <2>2. QED
    BY <2>1
<1>2. Count(t, b) = Cardinality(T)
  BY DEF Count
<1>3. /\ IsFiniteSet(H) /\ Cardinality(H) \in Nat
      /\ IsFiniteSet(T) /\ Cardinality(T) \in Nat /\ Cardinality(T) <= Len(d)
  <2>1. H \subseteq DOMAIN d /\ T \subseteq DOMAIN d
    BY DEF HugeHeads
  <2>2. QED
    BY <1>1, <2>1, PagesOfDump
<1>4. HP \in Nat /\ W = IF KPF.COMPOUND_HEAD \in Bits(t.right) THEN HP ELSE 1
  BY FilterMeans, WeightFacts, ChunkAssumption
<1>5. CASE KPF.COMPOUND_HEAD \in Bits(t.right)
  <2>1. T \subseteq H
    <3>1. Bits(t.right) \cap HugeBits # {}
      BY <1>5, FilterMeans
    <3>2. \A j \in T : Bits(t.right) \subseteq d[j]
      BY DEF Wanted, Bits
    <3>3. QED
      BY <1>5, <3>1, <3>2 DEF HugeHeads
  <2>2. Cardinality(T) <= Cardinality(H)
    BY <1>3, <2>1, FS_Subset
  <2> DEFINE x == Cardinality(T)  y == Cardinality(H)
  <2> HIDE DEF x, y
  <2>3. x * HP <= y * HP /\ y * HP = HP * y /\ x * HP \in Nat
    <3>1. x \in Nat /\ y \in Nat /\ x <= y
      BY <1>3, <2>2 DEF x, y
    <3>2. x * HP <= y * HP
      BY <1>4, <3>1, MulMono
    <3>3. y * HP = HP * y /\ x * HP \in Nat
      BY <1>4, <3>1, Z3
    <3>4. QED
      BY <3>2, <3>3
  <2>4. x * HP <= Len(d) /\ HP * y \in Int
    <3>1. HP * y \in Int
      BY <1>3, <1>4, Z3 DEF y
    <3> DEFINE u == x * HP  v == HP * y  w == y * HP
    <3>2. u <= w /\ w = v /\ u \in Nat /\ v <= Len(d) /\ v \in Int
      BY <1>1, <2>3, <3>1 DEF y
    <3> HIDE DEF u, v, w
    <3>3. u <= Len(d)
      BY <1>1, <3>2
    <3>4. QED
      BY <3>1, <3>3 DEF u
  <2>5. x * HP = Count(t, b) * W
    BY <1>2, <1>4, <1>5 DEF x
  <2> DEFINE u == x * HP
  <2>6. u \in Nat /\ u <= Len(d) /\ u = Count(t, b) * W
    BY <2>3, <2>4, <2>5
  <2> HIDE DEF u, W
  <2>7. Len(d) = 0 => u = 0
    BY <2>6
  <2>8. QED
    BY <1>2, <1>3, <2>6, <2>7 DEF W
<1>6. CASE KPF.COMPOUND_HEAD \notin Bits(t.right)
  <2>1. Count(t, b) * W = Count(t, b)
    BY <1>2, <1>3, <1>4, <1>6
  <2> HIDE DEF W, T
  <2>2. QED
    BY <1>1, <1>2, <1>3, <2>1 DEF W
<1>7. QED
  BY <1>5, <1>6

\* do_u64_read of a whole block replaces the buffer, of an empty one leaves it.
LEMMA ReadBlock ==
  ASSUME NEW B \in Nat, NEW buf, DOMAIN buf = 1 .. B,
         NEW d, d \in Seq(SUBSET KPF_ALL_BITS), Len(d) \in {0, B}
  PROVE  /\ DOMAIN do_u64_read(buf, d) = 1 .. B
         /\ Len(d) = B => do_u64_read(buf, d) = d
         /\ Len(d) = 0 => \A j \in 1 .. B : do_u64_read(buf, d)[j] = buf[j]
<1>1. DOMAIN do_u64_read(buf, d) = 1 .. B
  BY DEF do_u64_read
<1>2. ASSUME Len(d) = B PROVE do_u64_read(buf, d) = d
  <2>1. d = [j \in 1 .. B |-> d[j]]
    BY <1>2
  <2>2. do_u64_read(buf, d) = [j \in 1 .. B |-> d[j]]
    BY <1>2 DEF do_u64_read
  <2>3. QED
    BY <2>1, <2>2
<1>3. ASSUME Len(d) = 0 PROVE \A j \in 1 .. B : do_u64_read(buf, d)[j] = buf[j]
  BY <1>3 DEF do_u64_read
<1>4. QED
  BY <1>1, <1>2, <1>3

\* Matched counts the pages the text asks for.
LEMMA MatchedFacts ==
  ASSUME PlainFilters, prog \in Programs, NEW i \in DOMAIN prog.ops, prog.ops[i].op = "hotremove",
         NEW t, t = prog.ops[i].pageflags, NEW b, blocks.dump[b] \in Seq(SUBSET KPF_ALL_BITS)
  PROVE  Matched(<<parse_bits_mask(t)>>, blocks.dump[b])
           = Count(t, b) * Weight(<<parse_bits_mask(t)>>)
<1> DEFINE f == parse_bits_mask(t)
           d == blocks.dump[b]
<1>1. \A flags : bit_mask_ok(<<f>>, flags) <=> Passes(f, flags)
  <2> HIDE DEF f
  <2>1. DOMAIN <<f>> = {1} /\ <<f>>[1] = f
    OBVIOUS
  <2>2. QED
    BY <2>1 DEF bit_mask_ok
<1>2. \A j \in DOMAIN d : d[j] \in SUBSET KPF_ALL_BITS
  OBVIOUS
<1>3. \A j \in DOMAIN d : bit_mask_ok(<<f>>, d[j]) <=> Wanted(t, d[j])
  BY <1>1, <1>2, FilterMeans
<1> HIDE DEF f, d
<1>4. {j \in DOMAIN d : bit_mask_ok(<<f>>, d[j])} = {j \in DOMAIN d : Wanted(t, d[j])}
  BY <1>3
<1>5. Matched(<<f>>, d) = Count(t, b) * Weight(<<f>>)
  BY <1>4 DEF Matched, Count, d
<1>6. QED
  BY <1>5 DEF f, d

\* One round of memblock_check's loop.
LEMMA ScanRound ==
  ASSUME PlainFilters, WholeBlocks, blocks \in BlockMaps, prog \in Programs,
         NEW i \in DOMAIN prog.ops, prog.ops[i].op = "hotremove", NEW t, t = prog.ops[i].pageflags,
         NEW sc, DOMAIN sc = {"i", "blk", "matched", "buf"}, Scanned(t, sc),
         sc.i < get_max_memblock(blocks.zones)
  PROVE  Scanned(t, ScanBlock(<<parse_bits_mask(t)>>, sc))
<1> DEFINE fs == <<parse_bits_mask(t)>>
           W == Weight(fs)
           max == ScanMax
           B == Len(blocks.dump[2])
           d == blocks.dump[sc.i]
           buf == do_u64_read(sc.buf, d)
           n == Matched(fs, buf)
           C(b) == Count(t, b) * W
           new == ScanBlock(fs, sc)
<1>0. max = get_max_memblock(blocks.zones) /\ sc.i \in 2 .. (max - 1)
  <2>1. sc.i \in 2 .. max /\ max \in Nat /\ get_max_memblock(blocks.zones) \in Nat
    BY BlockFacts DEF Scanned
  <2>2. QED
    BY <2>1 DEF ScanMax
<1>1. /\ max \in Nat /\ max > 2 /\ B \in Nat \ {0} /\ sc.i \in 2 .. (max - 1)
      /\ \A b \in 2 .. (max - 1) : /\ blocks.dump[b] \in Seq(SUBSET KPF_ALL_BITS)
                                   /\ Len(blocks.dump[b]) \in {0, B}
  BY <1>0, BlockFacts
<1>2. /\ DOMAIN sc.buf = 1 .. B
      /\ sc.i = 2 \/ \E b \in 2 .. (max - 1) : /\ b < sc.i /\ Len(blocks.dump[b]) = B
                                              /\ sc.buf = blocks.dump[b]
      /\ \/ sc.blk = NULL /\ sc.matched = 0
         \/ sc.blk \in 2 .. (max - 1) /\ sc.matched > 0 /\ sc.matched = C(sc.blk)
      /\ \A b \in 2 .. (max - 1) : b < sc.i => C(b) <= sc.matched
  BY DEF Scanned
<1>3. \A b \in 2 .. (max - 1) : /\ C(b) \in Nat /\ C(b) <= Len(blocks.dump[b])
                                /\ Len(blocks.dump[b]) = 0 => C(b) = 0
  BY CountBound
<1>4. \A b \in 2 .. (max - 1) : Matched(fs, blocks.dump[b]) = C(b)
  BY <1>1, MatchedFacts
<1>5. sc.matched \in Nat
  BY <1>2, <1>3
<1>6. new = IF sc.matched < n
            THEN [i |-> IF n = Len(buf) THEN max ELSE sc.i + 1, blk |-> sc.i, matched |-> n, buf |-> buf]
            ELSE [sc EXCEPT !.i = @ + 1, !.buf = buf]
  BY <1>0 DEF ScanBlock
<1>7. d \in Seq(SUBSET KPF_ALL_BITS) /\ Len(d) \in {0, B}
  BY <1>1
<1> SUFFICES Scanned(t, new)
  OBVIOUS
<1> HIDE DEF W, fs, max, B, buf, n, C, new
<1>8. ASSUME NEW x, new.i = x, x \in 2 .. max, new.buf = buf, DOMAIN buf = 1 .. B,
              \E b \in 2 .. (max - 1) : b < x /\ Len(blocks.dump[b]) = B /\ buf = blocks.dump[b],
              \/ new.blk = NULL /\ new.matched = 0
              \/ new.blk \in 2 .. (max - 1) /\ new.matched > 0 /\ new.matched = C(new.blk),
              \A b \in 2 .. (max - 1) : b < x => C(b) <= new.matched
       PROVE  Scanned(t, new)
  BY <1>8 DEF Scanned, W, fs, max, B, C
<1>9. CASE Len(d) = B
  <2>1. buf = d
    BY <1>1, <1>2, <1>7, <1>9, ReadBlock DEF buf
  <2>2. n = C(sc.i) /\ n \in Nat /\ n <= B /\ Len(buf) = B /\ DOMAIN buf = 1 .. B
    BY <1>1, <1>3, <1>4, <1>7, <1>9, <2>1 DEF n
  <2>3. \E b \in 2 .. (max - 1) : b < sc.i + 1 /\ Len(blocks.dump[b]) = B /\ buf = blocks.dump[b]
    BY <1>1, <1>9, <2>1
  <2>4. CASE sc.matched < n /\ n = B
    <3>1. new.i = max /\ new.blk = sc.i /\ new.matched = n /\ new.buf = buf
      BY <1>6, <2>2, <2>4
    <3>2. \A b \in 2 .. (max - 1) : C(b) <= n
      BY <1>1, <1>3, <2>4
    <3>3. \E b \in 2 .. (max - 1) : b < max /\ Len(blocks.dump[b]) = B /\ buf = blocks.dump[b]
      BY <1>1, <1>9, <2>1
    <3>4. QED
      <4>1. max \in 2 .. max /\ new.blk \in 2 .. (max - 1) /\ new.matched > 0 /\ new.matched = C(new.blk)
        <5>1. max \in 2 .. max /\ n > 0
          BY <1>1, <1>5, <2>2, <2>4
        <5>2. QED
          BY <1>1, <2>2, <3>1, <5>1
      <4>2. \A b \in 2 .. (max - 1) : b < max => C(b) <= new.matched
        BY <3>1, <3>2
      <4>3. QED
        BY <1>8, <2>2, <3>1, <3>3, <4>1, <4>2
  <2>5. CASE sc.matched < n /\ n # B
    <3>1. new.i = sc.i + 1 /\ new.blk = sc.i /\ new.matched = n /\ new.buf = buf
      BY <1>6, <2>2, <2>5
    <3>2. \A b \in 2 .. (max - 1) : b < sc.i + 1 => C(b) <= n
      BY <1>1, <1>2, <1>3, <1>5, <2>2, <2>5
    <3>3. QED
      <4>1. /\ sc.i + 1 \in 2 .. max /\ new.blk \in 2 .. (max - 1)
            /\ new.matched > 0 /\ new.matched = C(new.blk)
        BY <1>1, <1>5, <2>2, <2>5, <3>1
      <4>2. \A b \in 2 .. (max - 1) : b < sc.i + 1 => C(b) <= new.matched
        BY <3>1, <3>2
      <4>3. QED
        BY <1>8, <2>2, <2>3, <3>1, <4>1, <4>2
  <2>6. CASE ~(sc.matched < n)
    <3>1. new.i = sc.i + 1 /\ new.blk = sc.blk /\ new.matched = sc.matched /\ new.buf = buf
      BY <1>6, <2>6
    <3>2. \A b \in 2 .. (max - 1) : b < sc.i + 1 => C(b) <= sc.matched
      <4>1. C(sc.i) <= sc.matched
        BY <1>5, <2>2, <2>6
      <4>2. QED
        BY <1>1, <1>2, <4>1
    <3>3. QED
      <4>1. sc.i + 1 \in 2 .. max
        BY <1>1
      <4>2. \/ new.blk = NULL /\ new.matched = 0
            \/ new.blk \in 2 .. (max - 1) /\ new.matched > 0 /\ new.matched = C(new.blk)
        BY <1>2, <3>1
      <4>3. \A b \in 2 .. (max - 1) : b < sc.i + 1 => C(b) <= new.matched
        BY <3>1, <3>2
      <4>4. QED
        BY <1>8, <2>2, <2>3, <3>1, <4>1, <4>2, <4>3
  <2>7. QED
    BY <2>4, <2>5, <2>6
<1>10. CASE Len(d) = 0
  <2>1. sc.i # 2
    BY <1>1, <1>10 DEF B
  <2>2. PICK b \in 2 .. (max - 1) : b < sc.i /\ Len(blocks.dump[b]) = B /\ sc.buf = blocks.dump[b]
    BY <1>2, <2>1
  <2>3. buf = sc.buf
    <3>1. DOMAIN buf = 1 .. B /\ \A j \in 1 .. B : buf[j] = sc.buf[j]
      BY <1>1, <1>2, <1>7, <1>10, ReadBlock DEF buf
    <3>2. sc.buf \in Seq(SUBSET KPF_ALL_BITS)
      BY <1>1, <2>2
    <3>3. sc.buf = [j \in 1 .. B |-> sc.buf[j]]
      <4>1. Len(sc.buf) = B
        BY <2>2
      <4>2. QED
        BY <3>2, <4>1
    <3>4. buf = [j \in 1 .. B |-> buf[j]]
      BY <1>2 DEF buf, do_u64_read
    <3>5. QED
      BY <3>1, <3>3, <3>4
  <2>4. n = C(b) /\ C(b) <= sc.matched /\ C(b) \in Nat
    BY <1>1, <1>2, <1>3, <1>4, <2>2, <2>3 DEF n
  <2>5. ~(sc.matched < n)
    BY <1>5, <2>4
  <2>6. new.i = sc.i + 1 /\ new.blk = sc.blk /\ new.matched = sc.matched /\ new.buf = buf
    BY <1>6, <2>5
  <2>7. C(sc.i) <= sc.matched
    BY <1>1, <1>3, <1>5, <1>10
  <2>8. \A c \in 2 .. (max - 1) : c < sc.i + 1 => C(c) <= sc.matched
    BY <1>1, <1>2, <2>7
  <2>9. \E c \in 2 .. (max - 1) : c < sc.i + 1 /\ Len(blocks.dump[c]) = B /\ buf = blocks.dump[c]
    BY <1>1, <2>2, <2>3
  <2>10. QED
    <3>1. sc.i + 1 \in 2 .. max /\ DOMAIN buf = 1 .. B
      BY <1>1, <1>2, <2>3
    <3>2. \/ new.blk = NULL /\ new.matched = 0
          \/ new.blk \in 2 .. (max - 1) /\ new.matched > 0 /\ new.matched = C(new.blk)
      BY <1>2, <2>6
    <3>3. \A c \in 2 .. (max - 1) : c < sc.i + 1 => C(c) <= new.matched
      BY <2>6, <2>8
    <3>4. QED
      BY <1>8, <2>6, <2>9, <3>1, <3>2, <3>3
<1>11. QED
  BY <1>7, <1>9, <1>10

LEMMA FollowsScan ==
  ASSUME EngineInv, DataInv, \A q \in Procs : ScanProc(proc[q]), PlainFilters, WholeBlocks,
         NEW x \in Procs, NEW s, Follows(x, s)
  PROVE  ScanProc(s)
<1> DEFINE r == proc[x]
           t == Op(r).pageflags
<1>1. prog \in Programs /\ ProcInv(x, r) /\ Shape(r) /\ ProcData(r) /\ ScanProc(r)
  BY DEF EngineInv, ProcInv, DataInv
<1>2. CASE s = r
  BY <1>1, <1>2
<1>3. CASE s.ph # "scan"
  BY <1>3 DEF ScanProc
<1>4. CASE r.ph \notin Over /\ StartsScan(r, s)
  <2>1. blocks \in BlockMaps
    BY <1>4, HotBlocks DEF StartsScan
  <2>2. /\ r.filters = <<>> /\ s.filters = Append(r.filters, parse_bits_mask(t))
        /\ s.scan = StartScan /\ s.pc = r.pc
    <3>1. \A f : Len(<<f>>) = 1
      OBVIOUS
    <3>2. r.filters = <<>>
      BY <1>1, <1>4, <3>1 DEF StartsScan, ProcData, MAX_BIT_FILTERS
    <3>3. QED
      BY <1>1, <1>4, <3>2 DEF StartsScan, Shape, Fields
  <2>3. s.filters = <<parse_bits_mask(t)>>
    BY <2>2
  <2>4. /\ StartScan.i = 2 /\ StartScan.blk = NULL /\ StartScan.matched = 0
        /\ StartScan.buf = [j \in DOMAIN blocks.dump[2] |-> {}]
    BY DEF StartScan, NoScan
  <2>5. ScanMax \in Nat /\ ScanMax >= 2 /\ DOMAIN blocks.dump[2] = 1 .. Len(blocks.dump[2])
    BY <2>1, BlockFacts
  <2>6. Scanned(t, StartScan)
    BY <2>4, <2>5 DEF Scanned
  <2>7. QED
    BY <2>2, <2>3, <2>6 DEF ScanProc, Op
<1>5. CASE /\ r.ph \notin Over /\ Op(r).op = "hotremove" /\ r.ph = "scan"
           /\ r.scan.i < get_max_memblock(blocks.zones)
           /\ s = [r EXCEPT !.scan = ScanBlock(r.filters, r.scan)]
  <2>1. blocks \in BlockMaps
    BY <1>5, HotBlocks
  <2>2. r.pc \in DOMAIN prog.ops /\ prog.ops[r.pc].op = "hotremove" /\ t = prog.ops[r.pc].pageflags
    BY <1>1, <1>5, AtAnOp DEF Op
  <2>3. /\ s.scan = ScanBlock(r.filters, r.scan) /\ s.filters = r.filters /\ s.pc = r.pc
    BY <1>1, <1>5 DEF Shape, Fields
  <2>4. r.filters = <<parse_bits_mask(t)>> /\ Scanned(t, r.scan)
    BY <1>1, <1>5 DEF ScanProc
  <2>5. DOMAIN r.scan = {"i", "blk", "matched", "buf"}
    BY <1>1 DEF ProcData
  <2> HIDE DEF r, t
  <2>6. Scanned(t, ScanBlock(<<parse_bits_mask(t)>>, r.scan))
    BY <1>1, <1>5, <2>1, <2>2, <2>4, <2>5, ScanRound
  <2>7. QED
    BY <2>3, <2>4, <2>6 DEF ScanProc, Op, t
<1>6. \/ s = r \/ s.ph # "scan" \/ (r.ph \notin Over /\ StartsScan(r, s))
      \/ /\ r.ph \notin Over /\ Op(r).op = "hotremove" /\ r.ph = "scan"
         /\ r.scan.i < get_max_memblock(blocks.zones)
         /\ s = [r EXCEPT !.scan = ScanBlock(r.filters, r.scan)]
  <2>1. Unborn.ph # "scan"
    BY DEF Unborn, Fresh
  <2>2. ASSUME NEW u, Keeps(u, s) PROVE s.ph # "scan"
    BY <2>2 DEF Keeps
  <2>3. s = [r EXCEPT !.scan = NoScan, !.ph = "inner"] => s.ph # "scan"
    BY <1>1 DEF Shape, Fields
  <2>4. QED
    BY <2>1, <2>2, <2>3 DEF Follows, Maps, Allocates, Unmaps, MovesTo, Scans
<1>7. QED
  BY <1>2, <1>3, <1>4, <1>5, <1>6

\* The block printed at the end of the scan.
LEMMA ScanEnds ==
  ASSUME EngineInv, DataInv, PlainFilters, WholeBlocks, NEW q \in Procs, ScanProc(proc[q]),
         proc[q].ph = "scan", proc[q].scan.blk # NULL,
         ~(proc[q].scan.i < get_max_memblock(blocks.zones))
  PROVE  \E i \in DOMAIN prog.ops :
           LET t == prog.ops[i].pageflags IN
             /\ prog.ops[i].op = "hotremove" /\ Count(t, proc[q].scan.blk) > 0
             /\ \A b \in InScan : Count(t, b) <= Count(t, proc[q].scan.blk)
<1> DEFINE r == proc[q]
           t == prog.ops[r.pc].pageflags
           W == Weight(<<parse_bits_mask(t)>>)
           max == ScanMax
           m == r.scan.blk
<1>1. /\ prog \in Programs /\ ProcInv(q, r) /\ r.ph \notin Over
  BY DEF EngineInv, Over, Ended
<1>2. r.pc \in DOMAIN prog.ops /\ prog.ops[r.pc].op = "hotremove" /\ t = Op(r).pageflags
  BY <1>1, AtAnOp DEF Op, ProcInv, AtOp
<1>3. blocks \in BlockMaps /\ Scanned(t, r.scan)
  BY <1>1, <1>2, HotBlocks DEF ScanProc, Op
<1>4. /\ max \in Nat /\ InScan = 2 .. (max - 1) /\ W \in Nat \ {0}
      /\ get_max_memblock(blocks.zones) \in Nat
  BY <1>3, BlockFacts, WeightFacts
<1>5. /\ r.scan.i = max /\ m \in 2 .. (max - 1) /\ Count(t, m) * W > 0
      /\ \A b \in 2 .. (max - 1) : b < max => Count(t, b) * W <= Count(t, m) * W
  <2>1. r.scan.i \in 2 .. max
    BY <1>3 DEF Scanned
  <2>2. r.scan.i = max
    BY <1>4, <2>1 DEF ScanMax
  <2>3. QED
    BY <1>3, <2>2 DEF Scanned
<1>6. \A b \in 2 .. (max - 1) : Count(t, b) \in Nat
  BY <1>1, <1>2, <1>3, CountBound
<1> HIDE DEF W, max, t, m
<1>7. Count(t, m) > 0
  <2>1. \A a, b \in Nat : a * b > 0 => a > 0
    BY Z3
  <2>2. QED
    BY <1>4, <1>5, <1>6, <2>1
<1>8. ASSUME NEW b \in 2 .. (max - 1) PROVE Count(t, b) <= Count(t, m)
  <2>1. Count(t, b) * W <= Count(t, m) * W
    BY <1>4, <1>5
  <2> SUFFICES ASSUME Count(t, m) + 1 <= Count(t, b) PROVE FALSE
    BY <1>5, <1>6
  <2> DEFINE x == Count(t, m)  y == Count(t, b)
  <2>2. x \in Nat /\ y \in Nat /\ x + 1 <= y /\ y * W <= x * W
    BY <1>5, <1>6, <2>1
  <2> HIDE DEF x, y
  <2>3. (x + 1) * W <= y * W
    BY <1>4, <2>2, MulMono
  <2>4. (x + 1) * W = x * W + W /\ x * W \in Int /\ y * W \in Int
    BY <1>4, <2>2, Z3
  <2> DEFINE u == x * W  v == y * W  w == (x + 1) * W
  <2>5. w <= v /\ v <= u /\ w = u + W /\ u \in Int /\ v \in Int
    BY <2>2, <2>3, <2>4
  <2> HIDE DEF u, v, w
  <2>6. QED
    BY <1>4, <2>5
<1>9. QED
  BY <1>2, <1>4, <1>7, <1>8 DEF t, m

LEMMA ScanInvariant ==
  ASSUME PlainFilters, WholeBlocks
  PROVE  Spec => []ScanInv
<1>1. EngineInit => ScanInv
  <2>1. SUFFICES ASSUME EngineInit PROVE ScanInv
    OBVIOUS
  <2>2. Unborn.ph # "scan" /\ Fresh.ph # "scan"
    BY DEF Unborn, Fresh
  <2>3. \A q \in Procs : proc[q].ph # "scan"
    BY <2>1, <2>2 DEF EngineInit
  <2>4. QED
    BY <2>1, <2>3 DEF EngineInit, ScanInv, ScanProc, PicksFullestBlock
<1>2. EngineInv /\ DataInv /\ ScanInv /\ [Next]_vars => ScanInv'
  <2>1. SUFFICES ASSUME EngineInv, DataInv, ScanInv, [Next]_vars PROVE ScanInv'
    OBVIOUS
  <2>2. prog' = prog /\ blocks' = blocks
    BY <2>1, ProgFixed
  <2>3. \A q \in Procs : ScanProc(proc'[q])
    BY <2>1, StepTraced, FollowsScan DEF Traced, ScanInv
  <2>4. \A q \in Procs : ScanProc(proc[q])'
    BY <2>2, <2>3 DEF ScanProc, Scanned, ScanMax, Count, Op
  <2>5. PicksFullestBlock'
    <3>1. CASE pmemblk' = pmemblk
      BY <2>1, <2>2, <3>1 DEF ScanInv, PicksFullestBlock, InScan
    <3>2. ASSUME NEW q \in Procs, proc[q].ph = "scan", proc[q].scan.blk # NULL,
                 ~(proc[q].scan.i < get_max_memblock(blocks.zones)),
                 pmemblk' = proc[q].scan.blk
          PROVE  PicksFullestBlock'
      <4>1. ScanProc(proc[q])
        BY <2>1 DEF ScanInv
      <4>2. PICK i \in DOMAIN prog.ops :
              LET t == prog.ops[i].pageflags IN
                /\ prog.ops[i].op = "hotremove" /\ Count(t, pmemblk') > 0
                /\ \A b \in InScan : Count(t, b) <= Count(t, pmemblk')
        BY <2>1, <3>2, <4>1, ScanEnds
      <4>3. QED
        BY <2>2, <4>2 DEF PicksFullestBlock, InScan, Count
    <3>3. QED
      BY <2>1, <3>1, <3>2, WhichBlock
  <2>6. QED
    BY <2>4, <2>5 DEF ScanInv
<1>3. QED
  BY <1>1, <1>2, EngineInvariant, DataInvariant, PTL DEF Spec

\* The block handed to the controller for offlining has pages the filter text of a
\* hotremove of the list asks for, and no block that memblock_check is to look at has
\* more, for every machine, one with an empty last zone included: the buffer
\* do_u64_read leaves as it is at a hole does not count twice, and the scan that ends
\* early at a full block hides no better one (include.h:781, pfn.h:375).
THEOREM FullestBlock ==
  ASSUME PlainFilters, WholeBlocks
  PROVE  Spec => []PicksFullestBlock
<1>1. ScanInv => PicksFullestBlock
  BY DEF ScanInv
<1>2. QED
  BY <1>1, ScanInvariant, PTL
=============================================================================
