---------------------------- MODULE AllocEngine ----------------------------
(***************************************************************************)
(* test_alloc_generic: main and do_operation_loop of lib/include.h run a   *)
(* list of operations on the chunk set, and some operations fork.  A       *)
(* forked child returns into do_operation_loop and goes on with the rest   *)
(* of the list, in an address space of its own.                            *)
(*                                                                         *)
(* The handshake at a wait (PipeSession) is one step here: the process     *)
(* prints its line when it enters the wait and leaves it when SIGUSR1      *)
(* comes.  Of a page the model keeps where it is mapped and which page of  *)
(* the chunk set it is, not what is written in it; a poisoned page is one  *)
(* an access may be killed for.                                            *)
(***************************************************************************)
EXTENDS ChunkSet, PageFlags, FiniteSetsExt

CONSTANTS
  Programs,   \* [ops, nr_p, types]: -L, -n and the number of -B options
  MaxProc,    \* processes are 0 (the one the recipe started) .. MaxProc
  BlockMaps   \* [zones, dump]: zoneinfo and, per memory block, kpageflags

Procs == 0 .. MaxProc

\* Operations that loop while (flag), which nothing clears.
Endless == {"iterate_mapping", "iterate_fault_dontneed", "iterate_mlock",
            "iterate_write_fsync", "mremap_stress", "mbind_fuzz", "fork_stress"}
\* Operations that only wait, or do something over and over while they wait.
Waiters == {"busyloop", "migratepages", "auto_numa", "change_cpuset",
            "memory_compaction", "mbind_pingpong", "move_pages_pingpong"}
\* Operations that call one function for every chunk.
Works == {"mbind", "move_pages", "mlock", "mlock2", "mprotect", "madvise",
          "madv_soft", "split_thp"}
\* Operations that do not touch the chunk set.
Others == {"start", "noop", "exit", "open", "prctl", "vm86", "set_mempolicy"}
Forks == {"fork", "fork_pmd_split", "process_vm_access"}
OpNames == Endless \cup Waiters \cup Works \cup Others \cup Forks
             \cup {"mmap", "mmap_numa", "access", "munmap", "mremap", "hotremove",
                   "allocate_more", "memory_error_injection"}

\* An operation of the list: its name, wait_before and wait_after, the argument
\* that changes what it does, the window of madvise, access_after_injection and
\* the filter text.
Operations == [op : OpNames, before : BOOLEAN, after : BOOLEAN, arg : STRING,
               win : [offset : Nat, length : Nat, step : Nat], later : BOOLEAN,
               pageflags : [eq : BOOLEAN, left : SUBSET FlagNames, right : SUBSET FlagNames]]

ASSUME EngineAssumption ==
  /\ MaxProc \in Nat
  /\ \A g \in Programs : /\ g.nr_p \in Nat \ {0} /\ g.types \in Nat \ {0}
                         /\ g.ops \in Seq(Operations) /\ g.ops # <<>>

VARIABLES
  prog,     \* the program run, a member of Programs
  proc,     \* process -> its state
  poison,   \* pages of the chunk set that hold a memory error
  blocks,   \* what memblock_check reads
  snap,     \* what kill_all_subprograms listed and has still to kill
  pmemblk,  \* the memory block do_hotremove printed, 0 before
  touched,  \* history: <<chunk, page>> the last per-chunk operation addressed
  spoke     \* history: processes that wrote to the fifo

envvars == <<prog, blocks, snap>>
vars == <<prog, proc, poison, blocks, snap, pmemblk, touched, spoke>>

nr_p == prog.nr_p
nr_chunk == NrChunk(nr_p)
Types == 0 .. (prog.types - 1)
Chunks == 0 .. (prog.types * nr_chunk - 1)
Size(k) == SizeOfChunk(nr_p, k)
TypeOf(k) == k \div nr_chunk
\* int offset of __mremap_chunk
Away == nr_chunk * CHUNKSIZE
NULL == -1

\* Phases in which a process waits for SIGUSR1.
Waits == {"before", "inner", "inner2", "after"}
\* main returned; err or errmsg; SIGSEGV; SIGBUS; SIGKILL.
Ended == {"gone", "failed", "segv", "sigbus", "killed"}

\* A process: its index in the list, its phase, whether testpipe is set, the
\* wait_after do_fork sets, its mappings (address -> page of the chunk set),
\* the addresses in chunkset, the chunk an mremap is at, the child waitpid waits
\* for, the page filters, and where memblock_check is.
NoScan == [i |-> 2, blk |-> NULL, matched |-> 0, buf |-> <<>>]
Fresh == [pc |-> 1, ph |-> "fetch", testpipe |-> TRUE, wait_after |-> FALSE,
          mem |-> [a \in {} |-> a], p |-> [k \in Chunks |-> NULL], k |-> 0,
          child |-> NULL, filters |-> <<>>, scan |-> NoScan]
Unborn == [Fresh EXCEPT !.ph = "unborn"]

Op(r) == prog.ops[r.pc]
Ends(r, how) == [r EXCEPT !.ph = how]

EngineInit ==
  /\ prog \in Programs
  /\ proc = [q \in Procs |-> IF q = 0 THEN Fresh ELSE Unborn]
  /\ poison = {} /\ pmemblk = 0 /\ touched = {} /\ spoke = {}
  /\ snap = [taken |-> FALSE, pids |-> {}]
  /\ blocks \in IF \E i \in DOMAIN prog.ops : prog.ops[i].op = "hotremove"
                THEN BlockMaps ELSE {<<>>}
-----------------------------------------------------------------------------
(* The operations, as functions from a process to its possible results.    *)

\* The next operation, or the end of the list and of main.
Advance(r) ==
  [r EXCEPT !.pc = @ + 1, !.wait_after = FALSE,
            !.ph = IF r.pc = Len(prog.ops) THEN "gone" ELSE "fetch"]

\* The operation is done: do_wait_after, or the next one.
Done(r) ==
  IF Op(r).after \/ r.wait_after THEN Ends(r, "after") ELSE Advance(r)

\* Mapping pages to the pages of the chunk set they stand for.
Mapped(r) == DOMAIN r.mem
Map(r, S) == [r EXCEPT !.mem = [a \in DOMAIN r.mem \cup S |->
                                  IF a \in S THEN a ELSE r.mem[a]]]
Unmap(r, S) == [r EXCEPT !.mem = [a \in DOMAIN r.mem \ S |-> r.mem[a]]]

\* A mutant: the next chunk starts where the one before it ends.
DoMmapPacked(r) ==
  [Map(r, 0 .. (prog.types * nr_p - 1))
     EXCEPT !.p = [k \in Chunks |-> TypeOf(k) * nr_p + (k % nr_chunk) * CHUNKSIZE]]

\* do_mmap: every chunk at its address; checked_mmap gives up when the kernel
\* put a chunk elsewhere because something is in the way.
DoMmap(r) ==
  IF \E k \in Chunks : ChunkArea(nr_p, k) \cap Mapped(r) # {}
  THEN Ends(r, "failed")
  ELSE [Map(r, UNION {ChunkArea(nr_p, k) : k \in Chunks})
          EXCEPT !.p = [k \in Chunks |-> BaseAddr(k)]]

\* A mutant: the walk does not stop at the end of a truncated chunk.
AccessedFull(r) == UNION {Area(r.p[k], CHUNKSIZE) : k \in Chunks}

\* do_access: every page of every chunk, where chunkset says it is.  An access
\* to a poisoned page is killed unless the kernel could drop the page.
Accessed(r) == UNION {Area(r.p[k], Size(k)) : k \in Chunks}
DoAccess(r) ==
  IF ~(Accessed(r) \subseteq Mapped(r)) THEN {Ends(r, "segv")}
  ELSE IF {r.mem[a] : a \in Accessed(r)} \cap poison # {}
       THEN {r, Ends(r, "sigbus")} ELSE {r}

\* access:type=syswrite goes through the file descriptor, not the mapping.
DoAccessOp(r) == IF Op(r).arg = "syswrite" THEN {r} ELSE DoAccess(r)

\* do_work_memory: a nonzero result ends the walk over the chunks of one
\* backend only.  Most chunk functions return no value, so any chunk may be
\* the last one of its backend that is reached.
Reached == {{k \in Chunks : k % nr_chunk <= c[TypeOf(k)]} :
              c \in [Types -> 0 .. (nr_chunk - 1)]}

\* The pages __munmap_chunk unmaps.
MunmapWindow(r, k) ==
  IF Op(r).arg = "hp_partial" THEN MunmapPartial(r.p[k], Size(k))
                              ELSE Area(r.p[k], Size(k))
DoMunmap(r) == {Unmap(r, UNION {MunmapWindow(r, k) : k \in K}) : K \in Reached}

\* The pages the other chunk functions address.
WorkWindow(r, k) ==
  LET p == r.p[k]  o == Op(r) IN
    CASE o.op = "split_thp" -> SplitWindows(p, Size(k))
      [] o.op = "madv_soft" \/ o.arg = "size" -> {p}
      [] o.op = "madvise" /\ o.arg = "step" -> MadviseSteps(p, Size(k), o.win)
      [] o.op = "madvise" /\ o.arg = "hp_partial" -> HeadWindows(p, Size(k), o.win.length)
      [] o.arg = "hp_partial" -> HeadWindows(p, Size(k), 1)
      [] OTHER -> Area(p, Size(k))

\* __do_split_thp_chunk gives up when madvise fails on a page that is not
\* mapped: a chunk that is not a whole number of hugepages.
SplitChunks(r, K) ==
  IF UNION {SplitWindows(r.p[k], Size(k)) : k \in K} \subseteq Mapped(r)
  THEN r ELSE Ends(r, "failed")
-----------------------------------------------------------------------------
(* mremap.                                                                 *)

\* mremap(MAYMOVE|FIXED) of size pages: what was at the new place is gone.
Move(mem, from, to, size) ==
  [a \in (DOMAIN mem \ Area(from, size)) \cup Area(to, size) |->
     IF a \in Area(to, size) THEN mem[a - to + from] ELSE mem[a]]

\* Where __mremap_chunk takes a chunk from, and where it puts it.
From(back, p) == IF back THEN p + Away ELSE p
To(back, p) == IF back THEN p ELSE p + Away

\* A mutant: the walk goes on after a chunk that could not be moved, and the
\* area it should have left is taken for its contents.
MremapChunkBlind(r, back) ==
  {[r EXCEPT !.mem = [a \in (DOMAIN @ \ Area(From(back, r.p[r.k]), Size(r.k)))
                               \cup Area(To(back, r.p[r.k]), Size(r.k)) |->
                         IF a \in Area(To(back, r.p[r.k]), Size(r.k)) THEN a ELSE @[a]],
             !.k = @ + 1]}

\* __mremap_chunk of the chunk do_work_memory is at.  It fails when part of the
\* source is not mapped, or when the kernel cannot move it, and the rest of the
\* backend is skipped.  mc->p stays what it was.
MremapChunk(r, back) ==
  LET from == From(back, r.p[r.k])  to == To(back, r.p[r.k])  size == Size(r.k)
      skipped == [r EXCEPT !.k = (TypeOf(@) + 1) * nr_chunk]
      moved == [r EXCEPT !.mem = Move(@, from, to, size), !.k = @ + 1]
  IN IF Area(from, size) \subseteq Mapped(r) THEN {skipped, moved} ELSE {skipped}

\* do_work_memory is through with all backends.
Walked(r) == r.k \notin Chunks
-----------------------------------------------------------------------------
(* hotremove.                                                              *)

\* get_max_memblock: what the last lines of /proc/zoneinfo that speak of it say.
\* An empty zone has a spanned line and no start_pfn line.
get_max_memblock(z) ==
  z[Len(z)].spanned + z[Max({i \in DOMAIN z : z[i].spanned > 0})].start_pfn

ASSUME BlocksAssumption == \A m \in BlockMaps : get_max_memblock(m.zones) \in Nat

\* check_compound: a head page stands for a hugepage.
Weight(filters) == IF KPF.COMPOUND_HEAD \in filters[1].bits THEN HP ELSE 1
Matched(filters, buf) ==
  Cardinality({j \in DOMAIN buf : bit_mask_ok(filters, buf[j])}) * Weight(filters)

\* memblock_check starts at block 2, with a buffer of the size of a block.
StartScan == [NoScan EXCEPT !.buf = [j \in DOMAIN blocks.dump[2] |-> {}]]

\* One round of its loop: the buffer is kept between blocks; a block replaces
\* the preferred one only when it has more matching pages, and a full one ends
\* the loop.
ScanBlock(filters, sc) ==
  LET buf == do_u64_read(sc.buf, blocks.dump[sc.i])
      n == Matched(filters, buf)
  IN IF sc.matched < n
     THEN [i |-> IF n = Len(buf) THEN get_max_memblock(blocks.zones) ELSE sc.i + 1,
           blk |-> sc.i, matched |-> n, buf |-> buf]
     ELSE [sc EXCEPT !.i = @ + 1, !.buf = buf]
-----------------------------------------------------------------------------
(* The steps of a process.                                                 *)

\* pprintf: the line goes to the fifo if testpipe is set, to stdout otherwise.
pprintf(q, r) == IF r.testpipe THEN spoke \cup {q} ELSE spoke

\* Process q is now r; it prints a line when it enters a wait.
Becomes(q, r) ==
  /\ proc' = [proc EXCEPT ![q] = r]
  /\ spoke' = IF r.ph \in Waits THEN pprintf(q, r) ELSE spoke

\* What follows an operation that may have ended the process.
After(r) == IF r.ph \in Ended THEN r ELSE Done(r)

Running(q, names) == proc[q].ph = "run" /\ Op(proc[q]).op \in names

\* parse_operation_args, then do_wait_before.
Fetch(q) ==
  /\ proc[q].ph = "fetch"
  /\ Becomes(q, Ends(proc[q], IF Op(proc[q]).before THEN "before" ELSE "run"))
  /\ UNCHANGED <<envvars, poison, pmemblk, touched>>

\* start, noop, exit, open, prctl, vm86, set_mempolicy; and split_thp through
\* debugfs.
Plain(q) ==
  /\ \/ Running(q, Others)
     \/ Running(q, {"split_thp"}) /\ Op(proc[q]).arg # "only_pmd"
  /\ Becomes(q, Done(proc[q]))
  /\ UNCHANGED <<envvars, poison, pmemblk, touched>>

Mmap(q) ==
  /\ Running(q, {"mmap", "mmap_numa"})
  /\ Becomes(q, After(DoMmap(proc[q])))
  /\ UNCHANGED <<envvars, poison, pmemblk, touched>>

\* do_allocate_more: nr_p anonymous pages right above the first nr_p, and a
\* line with their address.
AllocateMore(q) ==
  /\ Running(q, {"allocate_more"})
  /\ LET S == Area(nr_p, nr_p)  r == proc[q] IN
       IF S \cap Mapped(r) # {} THEN Becomes(q, Ends(r, "failed"))
       ELSE /\ proc' = [proc EXCEPT ![q] = Done(Map(r, S))]
            /\ spoke' = pprintf(q, r)
  /\ UNCHANGED <<envvars, poison, pmemblk, touched>>

Access(q) ==
  /\ Running(q, {"access"})
  /\ \E r \in DoAccessOp(proc[q]) : Becomes(q, After(r))
  /\ UNCHANGED <<envvars, poison, pmemblk, touched>>

Munmap(q) ==
  /\ Running(q, {"munmap"})
  /\ \E r \in DoMunmap(proc[q]) : Becomes(q, Done(r))
  /\ UNCHANGED <<envvars, poison, pmemblk, touched>>

Mremap(q) ==
  /\ Running(q, {"mremap"})
  /\ \E r \in MremapChunk(proc[q], FALSE) :
       Becomes(q, IF Walked(r) THEN Done([r EXCEPT !.k = 0]) ELSE r)
  /\ UNCHANGED <<envvars, poison, pmemblk, touched>>

\* do_mbind, do_move_pages, do_mlock, do_mlock2, do_mprotect, do_madvise,
\* do_madv_soft, do_split_thp.
Work(q) ==
  /\ Running(q, Works) /\ (Op(proc[q]).op = "split_thp" => Op(proc[q]).arg = "only_pmd")
  /\ \E K \in Reached :
       /\ touched' = UNION {{k} \X WorkWindow(proc[q], k) : k \in K}
       /\ Becomes(q, IF Op(proc[q]).op = "split_thp" THEN After(SplitChunks(proc[q], K))
                                                    ELSE Done(proc[q]))
  /\ UNCHANGED <<envvars, poison, pmemblk>>

\* memory_error_injection: madvise injects at the first page (the number
\* strtol reads from error_offset is dropped); the other types are injected
\* by the controller.
InjectedPage(r) == r.mem[r.p[0]]
Inject(q) ==
  /\ Running(q, {"memory_error_injection"})
  /\ poison' = IF Op(proc[q]).arg = "madv_hard" THEN poison \cup {InjectedPage(proc[q])}
                                                ELSE poison
  /\ Becomes(q, Ends(proc[q], "inner"))
  /\ UNCHANGED <<envvars, pmemblk, touched>>

\* The operations that print a line and wait.
WaitOp(q) ==
  /\ Running(q, Waiters)
  /\ Becomes(q, Ends(proc[q], "inner"))
  /\ UNCHANGED <<envvars, poison, pmemblk, touched>>

\* do_hotremove: a second filter is one too many.
Hotremove(q) ==
  /\ Running(q, {"hotremove"})
  /\ LET r == proc[q] IN
       Becomes(q, IF Len(r.filters) >= MAX_BIT_FILTERS THEN Ends(r, "failed")
                  ELSE [r EXCEPT !.filters = Append(@, parse_bits_mask(Op(r).pageflags)),
                                 !.scan = StartScan, !.ph = "scan"])
  /\ UNCHANGED <<envvars, poison, pmemblk, touched>>

\* memblock_check: a line for every block with matching pages, and in the end
\* the one the process waits with; no block at all ends the program.
memblock_check(q) ==
  /\ proc[q].ph = "scan"
  /\ LET r == proc[q] IN
       IF r.scan.i < get_max_memblock(blocks.zones)
       THEN LET sc == ScanBlock(r.filters, r.scan) IN
              /\ proc' = [proc EXCEPT ![q].scan = sc]
              /\ spoke' = IF Matched(r.filters, sc.buf) > 0 THEN pprintf(q, r) ELSE spoke
              /\ UNCHANGED pmemblk
       ELSE IF r.scan.blk = NULL THEN Becomes(q, Ends(r, "failed")) /\ UNCHANGED pmemblk
       ELSE Becomes(q, [r EXCEPT !.scan = NoScan, !.ph = "inner"]) /\ pmemblk' = r.scan.blk
  /\ UNCHANGED <<envvars, poison, touched>>

\* The busy loop of a wait touches all memory: it may end in a signal.
BusyDies(q) ==
  /\ proc[q].ph = "inner"
  /\ Op(proc[q]).op = "busyloop" \/ Op(proc[q]).arg = "busyloop"
  /\ \E r \in DoAccess(proc[q]) : r.ph \in Ended /\ Becomes(q, r)
  /\ UNCHANGED <<envvars, poison, pmemblk, touched>>
-----------------------------------------------------------------------------
(* fork.                                                                   *)

FreeSlot(c) == proc[c].ph = "unborn"

\* A mutant: the child keeps testpipe.
ChildWithPipe(r) == [r EXCEPT !.ph = "child", !.wait_after = TRUE]

\* The child of do_fork and do_fork_pmd_split.
Child(r) == [r EXCEPT !.ph = "child", !.wait_after = TRUE, !.testpipe = FALSE]

\* do_fork, do_fork_pmd_split, do_process_vm_access: the parent's side.
Fork(q) ==
  /\ Running(q, Forks)
  /\ \E c \in Procs :
       /\ FreeSlot(c)
       /\ LET r == IF Op(proc[q]).op = "process_vm_access" THEN Ends(proc[q], "inner")
                                                           ELSE Done(proc[q]) IN
            /\ proc' = [proc EXCEPT ![q] = r, ![c] = Child(proc[q])]
            /\ spoke' = IF r.ph \in Waits THEN pprintf(q, r) ELSE spoke
  /\ UNCHANGED <<envvars, poison, pmemblk, touched>>

\* The child's side: it reads the memory, splits it and reads it again, and
\* returns into the loop, where its wait_after is set.
ChildRuns(q) ==
  /\ proc[q].ph = "child"
  /\ \E r1 \in DoAccess(proc[q]) :
     \E r2 \in IF r1.ph = "child" /\ Op(r1).op = "fork_pmd_split"
              THEN {SplitChunks(r1, K) : K \in Reached} ELSE {r1} :
     \E r3 \in IF r2.ph = "child" /\ Op(r2).op = "fork_pmd_split" THEN DoAccess(r2) ELSE {r2} :
       Becomes(q, IF r3.ph \in Ended THEN r3
                  ELSE IF Op(r3).op = "process_vm_access" THEN Ends(r3, "inner")
                  ELSE Done(r3))
  /\ UNCHANGED <<envvars, poison, pmemblk, touched>>

\* do_fork_stress: fork, then waitpid.
ForkStress(q) ==
  /\ Running(q, {"fork_stress"})
  /\ \E c \in Procs :
       /\ FreeSlot(c)
       /\ proc' = [proc EXCEPT ![q].ph = "waitpid", ![q].child = c,
                               ![c] = Ends(proc[q], "stress")]
  /\ UNCHANGED <<envvars, poison, pmemblk, touched, spoke>>

\* A mutant: the child is left waiting, as do_fork leaves its own.
StressChildWaits(q) ==
  /\ proc[q].ph = "stress"
  /\ \E r \in DoAccess([proc[q] EXCEPT !.wait_after = TRUE]) : Becomes(q, After(r))
  /\ UNCHANGED <<envvars, poison, pmemblk, touched>>

\* The child of fork_stress returns into the loop after its access.
StressChild(q) ==
  /\ proc[q].ph = "stress"
  /\ \E r \in DoAccess(proc[q]) : Becomes(q, After(r))
  /\ UNCHANGED <<envvars, poison, pmemblk, touched>>

Waitpid(q) ==
  /\ proc[q].ph = "waitpid" /\ proc[proc[q].child].ph \in Ended
  /\ proc' = [proc EXCEPT ![q].ph = "run", ![q].child = NULL, ![proc[q].child] = Unborn]
  /\ snap' = [snap EXCEPT !.pids = @ \ {proc[q].child}]
  /\ UNCHANGED <<prog, blocks, poison, pmemblk, touched, spoke>>
-----------------------------------------------------------------------------
(* Operations that loop for ever.                                          *)

\* do_iterate_mapping: map, touch, unmap.
IterateMapping(q) ==
  /\ Running(q, {"iterate_mapping"})
  /\ LET r1 == DoMmap(proc[q]) IN
       IF r1.ph = "failed" THEN Becomes(q, r1)
       ELSE \E r2 \in DoAccess(r1) :
              IF r2.ph \in Ended THEN Becomes(q, r2)
              ELSE \E r3 \in DoMunmap(r2) : Becomes(q, r3)
  /\ UNCHANGED <<envvars, poison, pmemblk, touched>>

\* do_mremap_stress: away, and back.
MremapStress(q) ==
  /\ \/ Running(q, {"mremap_stress"})
     \/ proc[q].ph = "back"
  /\ \E r \in MremapChunk(proc[q], proc[q].ph = "back") :
       Becomes(q, IF Walked(r)
                  THEN [r EXCEPT !.k = 0, !.ph = IF @ = "run" THEN "back" ELSE "run"] ELSE r)
  /\ UNCHANGED <<envvars, poison, pmemblk, touched>>

\* do_iterate_fault_dontneed maps once; its rounds touch and drop the pages.
IterateFault(q) ==
  /\ \/ /\ Running(q, {"iterate_fault_dontneed"})
        /\ LET r == DoMmap(proc[q]) IN
             Becomes(q, IF r.ph = "failed" THEN r ELSE Ends(r, "rounds"))
     \/ /\ proc[q].ph = "rounds"
        /\ \E r \in DoAccess(proc[q]) : Becomes(q, r)
  /\ UNCHANGED <<envvars, poison, pmemblk, touched>>

\* do_iterate_mlock and do_iterate_write_fsync go over the chunks through
\* mlock and the file.
IterateFile(q) ==
  /\ Running(q, {"iterate_mlock", "iterate_write_fsync"})
  /\ \E K \in Reached : touched' = UNION {{k} \X WorkWindow(proc[q], k) : k \in K}
  /\ UNCHANGED <<envvars, proc, poison, pmemblk, spoke>>

\* do_mbind_fuzz: a line, and then for ever a random offset below nr_p pages
\* and a random length, which the size of the chunk is added to.
MbindFuzz(q) ==
  /\ Running(q, {"mbind_fuzz"})
  /\ \E K \in Reached, off \in 0 .. (nr_p - 1) :
     \E len \in 0 .. (nr_p - off - 1) :
       touched' = UNION {{k} \X Area(proc[q].p[k] + off, Size(k) + len) : k \in K}
  /\ spoke' = pprintf(q, proc[q])
  /\ UNCHANGED <<envvars, proc, poison, pmemblk>>
-----------------------------------------------------------------------------
(* SIGUSR1.                                                                *)

\* A mutant: an operation that waited is started again.
AfterInnerAgain(r) == {Ends(r, "run")}

\* The rest of an operation after its wait.
AfterInner(r) ==
  IF Op(r).op = "memory_error_injection" /\ Op(r).later THEN {Ends(r, "inner2")}
                                                        ELSE {Done(r)}

\* SIGUSR1 reaches a process that waits.  The controller answers the process
\* the recipe started, and may have injected an error first; a
\* `pkill -SIGUSR1 -f test_alloc_generic` reaches the children too.
Answer(q) ==
  /\ proc[q].ph \in Waits
  /\ \E r \in CASE proc[q].ph = "before" -> {Ends(proc[q], "run")}
               [] proc[q].ph = "inner" -> AfterInner(proc[q])
               [] proc[q].ph = "inner2" -> {After(x) : x \in DoAccess(Ends(proc[q], "run"))}
               [] OTHER -> {Advance(proc[q])} :
       Becomes(q, r)
  /\ poison' \in IF proc[q].ph = "inner" /\ Op(proc[q]).arg = "hard-offline"
                  THEN {poison, poison \cup {Op(proc[q]).win.offset}} ELSE {poison}
  /\ UNCHANGED <<envvars, pmemblk, touched>>

Step(q) ==
  \/ Fetch(q) \/ Plain(q) \/ Mmap(q) \/ AllocateMore(q) \/ Access(q) \/ Munmap(q)
  \/ Mremap(q) \/ Work(q) \/ Inject(q) \/ WaitOp(q) \/ Hotremove(q) \/ memblock_check(q)
  \/ BusyDies(q) \/ Fork(q) \/ ChildRuns(q) \/ ForkStress(q) \/ StressChild(q) \/ Waitpid(q)
  \/ IterateMapping(q) \/ MremapStress(q) \/ IterateFault(q) \/ IterateFile(q)
  \/ MbindFuzz(q)

Has(names) == \E i \in DOMAIN prog.ops : prog.ops[i].op \in names
Alive == {q \in Procs : proc[q].ph \notin Ended \cup {"unborn"}}

\* kill_all_subprograms, with which the recipe ends a program that never does:
\* ps jx lists the processes, and kill -9 takes them one after the other while
\* those it has not reached go on.
Snapshot ==
  /\ Has(Endless) /\ ~snap.taken
  /\ snap' = [taken |-> TRUE, pids |-> Alive]
  /\ UNCHANGED <<prog, blocks, proc, poison, pmemblk, touched, spoke>>

Kill(q) ==
  /\ q \in snap.pids
  /\ snap' = [snap EXCEPT !.pids = @ \ {q}]
  /\ proc' = IF q \in Alive THEN [proc EXCEPT ![q].ph = "killed"] ELSE proc
  /\ UNCHANGED <<prog, blocks, poison, pmemblk, touched, spoke>>

Next == Snapshot \/ \E q \in Procs : Step(q) \/ Answer(q) \/ Kill(q)

\* A process that can go on does; the controller answers the process it
\* started, nobody has to signal a child, and kill gets through its list.
Fairness == (\A q \in Procs : WF_vars(Step(q)) /\ WF_vars(Kill(q))) /\ WF_vars(Answer(0))

Spec == EngineInit /\ [][Next]_vars /\ Fairness
-----------------------------------------------------------------------------
\* A process has run, or is running, one of these operations.
Past(r, names) == \E i \in DOMAIN prog.ops : i <= r.pc /\ prog.ops[i].op \in names

\* The chunk set and every process have the shape of include.h's structures.
TypeOK ==
  /\ prog \in Programs
  /\ \A q \in Procs :
       /\ proc[q].pc \in 1 .. (Len(prog.ops) + 1)
       /\ proc[q].ph \in Waits \cup Ended \cup
            {"unborn", "fetch", "run", "child", "stress", "waitpid", "back",
             "rounds", "scan"}
       /\ \A k \in Chunks : proc[q].p[k] \in {NULL, BaseAddr(k)}
       /\ proc[q].k \in Chunks /\ proc[q].scan.blk \in Nat \cup {NULL}
       /\ proc[q].child \in Procs \cup {NULL}
  /\ poison \subseteq Nat /\ pmemblk \in Nat /\ spoke \subseteq Procs

\* do_mmap gives every page of every backend an address of its own, and until
\* the memory is unmapped no sequence of operations, whatever mremap calls
\* fail in do_mremap_stress, loses a page or maps it twice: it is where
\* do_mmap put it or, moved, nr_chunk chunks above (include.h:459, 1067, 1070).
PagesConserved ==
  \A q \in Procs : LET r == proc[q] IN
    r.ph # "unborn" /\ r.p[0] # NULL /\ ~Past(r, {"munmap", "iterate_mapping"})
      => \A t \in Types, n \in 0 .. (nr_p - 1) :
           LET pg == t * nr_chunk * CHUNKSIZE + n IN
             /\ Cardinality({a \in Mapped(r) : r.mem[a] = pg}) = 1
             /\ \A a \in Mapped(r) : r.mem[a] = pg => a \in {pg, pg + Away}

\* No process, forked children that run the rest of the list included, touches
\* an address that is not mapped (do_access walks chunkset, include.h:528).
NoSegv == \A q \in Procs : proc[q].ph # "segv"

\* Only the process the recipe started writes to the fifo: the controller would
\* answer a child's line by signalling its parent (testpipe = NULL in do_fork).
OnlyMainSpeaks == spoke \subseteq {0}

\* What a per-chunk operation does for a chunk stays in that chunk's stride,
\* hp_partial windows of a truncated chunk included; a stepped madvise stays in
\* the chunk itself.  (mbind_fuzz goes beyond on purpose.)
TouchedIsOwn ==
  ~Has({"mbind_fuzz"}) => \A t \in touched :
    /\ t[2] \in Stride(t[1])
    /\ (\A i \in DOMAIN prog.ops : prog.ops[i].arg \notin {"hp_partial", "only_pmd"})
         => t[2] \in ChunkArea(nr_p, t[1])

\* The pages a filter text asks for: those with all the flags named on its right
\* and none of the flags named on its left only.
Wanted(t, flags) ==
  LET All(S) == UNION {n.bits : n \in S} IN
    /\ All(t.right) \subseteq flags
    /\ flags \cap (All(t.left) \ All(t.right)) = {}

\* The blocks below the one get_max_memblock ends the scan at, from 2 on.  Where
\* the last zone is empty that leaves out the last populated zone (include.h:742).
InScan == {b \in DOMAIN blocks.dump : b < get_max_memblock(blocks.zones)}

\* The block whose number is handed to the controller for offlining has pages
\* the recipe's filter text asks for, and no block of the scan has more of them: the
\* parsed filter means what the text says, and neither the buffer kept between
\* blocks nor the end of the scan at a full block hides a better one
\* (include.h:781, pfn.h:375).
PicksFullestBlock ==
  pmemblk # 0 =>
    \E i \in DOMAIN prog.ops :
      LET t == prog.ops[i].pageflags
          Count(b) == Cardinality({j \in DOMAIN blocks.dump[b] : Wanted(t, blocks.dump[b][j])})
      IN /\ prog.ops[i].op = "hotremove" /\ Count(pmemblk) > 0
         /\ \A b \in InScan : Count(b) <= Count(pmemblk)

\* A memory error is where error_offset asked for it (include.h:866).
InjectsWhereAsked ==
  \A pg \in poison : \E i \in DOMAIN prog.ops :
    /\ prog.ops[i].op = "memory_error_injection"
    /\ pg = prog.ops[i].win.offset

\* When the controller answers every wait, a program without an endless
\* operation ends.
MainEnds == ~Has(Endless) => <>(proc[0].ph \in Ended)

\* Once kill_all_subprograms has its list, nothing of a program that never ends
\* by itself is left for good, although fork_stress may fork between the ps and
\* the kill a child that is on no list (common.sh:74).
RacersAreCleaned == snap.taken ~> [](Alive = {})
-----------------------------------------------------------------------------
(* What the operation lists of the recipes have in common, the hypotheses  *)
(* of the theorems.                                                        *)

\* Operations that map the chunk set, and those after which it is not all where
\* do_mmap put it.
Mmaps == {"mmap", "mmap_numa"}
GivesAway == {"munmap", "mremap", "mremap_stress", "iterate_mapping"}

\* Operations that touch the memory of the chunk set.
Uses(o) ==
  \/ o.op \in Forks \cup {"access", "memory_error_injection", "fork_stress", "busyloop"}
  \/ o.arg = "busyloop"

\* Memory is mapped before it is used, and not used after it was given away.
UsedWhileMapped ==
  \A g \in Programs : \A i \in DOMAIN g.ops : Uses(g.ops[i]) =>
    /\ \E j \in 1 .. (i - 1) : g.ops[j].op \in Mmaps
    /\ \A j \in 1 .. i : g.ops[j].op \notin GivesAway

\* fork_stress ends the list and does not wait.
StressIsLast ==
  \A g \in Programs : \A i \in DOMAIN g.ops :
    g.ops[i].op = "fork_stress" => i = Len(g.ops) /\ ~g.ops[i].after

\* Operations on the chunks come after mmap, and hp_partial asks for no more
\* than a hugepage.
WorkIsMapped ==
  \A g \in Programs : \A i \in DOMAIN g.ops :
    g.ops[i].op \in Works \cup {"iterate_mlock", "iterate_write_fsync"} =>
      /\ \E j \in 1 .. (i - 1) : g.ops[j].op \in Mmaps
      /\ g.ops[i].arg = "hp_partial" => g.ops[i].win.length <= HP

\* A list that moves the chunks has one backend, so that nothing is moved onto the
\* chunks of another; it allocates nothing beside them and maps nothing later.
Moves == {"mremap", "mremap_stress"}
MovesAreSafe ==
  \A g \in Programs : \A i \in DOMAIN g.ops : g.ops[i].op \in Moves =>
    /\ g.types = 1
    /\ \A j \in DOMAIN g.ops :
         /\ g.ops[j].op # "allocate_more"
         /\ j > i => g.ops[j].op \notin Mmaps \cup {"iterate_fault_dontneed"}

\* A filter is "mask=bits" of names that stand for one bit each, the right ones among
\* the left; one that asks for head pages asks for huge ones.
HugeBits == {KPF.HUGE, KPF.THP}
PlainFilters ==
  \A g \in Programs : \A i \in DOMAIN g.ops : g.ops[i].op = "hotremove" =>
    LET t == g.ops[i].pageflags
        right == UNION {n.bits : n \in t.right} IN
      /\ t.eq /\ t.left # {} /\ t.right \subseteq t.left /\ right # KPF_ALL_BITS
      /\ \A n \in t.left : ~n.neg /\ ~n.compound /\ \E b \in KPF_ALL_BITS : n.bits = {b}
      /\ KPF.COMPOUND_HEAD \in right => right \cap HugeBits # {}

\* The dump is a block long for each block from 2 on, or has nothing of it, and a
\* block has no more huge heads than hugepages fit in.  There may be blocks beyond
\* the end of the scan.
HugeHeads(d) == {j \in DOMAIN d : KPF.COMPOUND_HEAD \in d[j] /\ d[j] \cap HugeBits # {}}
WholeBlocks ==
  \A m \in BlockMaps :
    /\ 2 .. (get_max_memblock(m.zones) - 1) \subseteq DOMAIN m.dump
    /\ 2 \in DOMAIN m.dump /\ DOMAIN m.dump \subseteq Nat \ {0, 1} /\ Len(m.dump[2]) > 0
    /\ \A b \in DOMAIN m.dump :
         /\ m.dump[b] \in Seq(SUBSET KPF_ALL_BITS) /\ Len(m.dump[b]) \in {0, Len(m.dump[2])}
         /\ HP * Cardinality(HugeHeads(m.dump[b])) <= Len(m.dump[b])
=============================================================================
