--------------------------- MODULE MCAllocEngine ---------------------------
EXTENDS AllocEngine

NoWin == [offset |-> 0, length |-> 0, step |-> 0]
O(op) == [op |-> op, before |-> FALSE, after |-> FALSE, arg |-> "", win |-> NoWin,
          later |-> FALSE, pageflags |-> [eq |-> FALSE, left |-> {}, right |-> {}]]
B(o) == [o EXCEPT !.before = TRUE]
A(o) == [o EXCEPT !.after = TRUE]
Arg(op, arg) == [O(op) EXCEPT !.arg = arg]
Madv(off, len, step) ==
  [Arg("madvise", "step") EXCEPT !.win = [offset |-> off, length |-> len, step |-> step]]
Err(type, off, later) ==
  [Arg("memory_error_injection", type) EXCEPT !.win.offset = off, !.later = later]

\* hotremove:pageflags=left=right
Hot(left, right) ==
  [O("hotremove") EXCEPT !.pageflags = [eq |-> TRUE, left |-> {Name({b}) : b \in left},
                                        right |-> {Name({b}) : b \in right}]]

\* start:wait_after mmap access:wait_after ... munmap:wait_before exit:wait_before
Frame(mid) == <<A(O("start")), O("mmap"), A(O("access"))>> \o mid
                \o <<B(O("munmap")), B(O("exit"))>>

P(ops, n, t) == [ops |-> ops, nr_p |-> n, types |-> t]

\* Operation lists of the recipes under cases/, on backends of one chunk, of a
\* truncated chunk and of two chunks.
Middles ==
  { <<O("mbind")>>, <<Arg("mbind", "hp_partial")>>, <<O("move_pages")>>,
    <<O("mlock")>>, <<O("mprotect")>>, <<O("madv_soft")>>, <<O("busyloop")>>,
    <<Arg("migratepages", "busyloop")>>, <<O("set_mempolicy"), O("split_thp"), O("access")>>,
    <<Madv(1, 2, 2)>>, <<Madv(2, 4, 0)>>, <<Madv(0, 1, 3)>> }
Linear == {P(Frame(m), n, t) : m \in Middles, n \in {3, 4, 6}, t \in {1, 2}}

Forking ==
  { P(Frame(<<f, A(O("noop")), O("mbind")>>), n, 1) :
      f \in {A(O("fork")), A(O("fork_pmd_split")), Arg("process_vm_access", "busyloop")},
      n \in {3, 4, 6} }
    \cup {P(Frame(<<A(O("fork")), Arg("split_thp", "only_pmd"), O("access")>>), 6, 1)}

Racing ==
  { P(<<O("mmap"), O("access"), O(e)>>, n, t) :
      e \in {"iterate_mlock", "iterate_write_fsync", "mbind_fuzz"}, n \in {3, 6}, t \in {1, 2} }
    \cup {P(<<O(e)>>, n, t) : e \in {"iterate_mapping", "iterate_fault_dontneed"},
                              n \in {3, 6}, t \in {1, 2}}
    \cup {P(<<O("start"), O("mmap"), O("access"), O(e)>>, n, 1) :
            e \in {"mremap_stress", "fork_stress"}, n \in {3, 6, 9}}

Injecting ==
  { P(Frame(<<Err(e, 0, l)>>), 3, 1) : e \in {"madv_hard", "madv_soft", "hard-offline"},
                                       l \in BOOLEAN }
    \cup {P(Frame(<<Err("hard-offline", 1, TRUE), A(O("fork"))>>), 3, 1)}
    \cup {P(Frame(<<Err("madv_hard", 0, FALSE), O("busyloop"), O("fork")>>), 3, 1)}

Single ==
  { P(<<O("mmap"), A(O("access")), O("mremap"), B(O("munmap")), B(O("exit"))>>, n, 1) :
      n \in {3, 6} }
    \cup {P(Frame(<<O("allocate_more")>>), n, 1) : n \in {3, 6}}
    \cup {P(<<O("mmap"), A(O("access")), Arg("munmap", "hp_partial")>>, n, t) :
            n \in {3, 6}, t \in {1, 2}}
    \cup {P(<<O("mmap_numa"), O("access"), A(O("noop"))>>, 6, 2)}

\* The filters of get_backend_pageflags (lib/mm.sh) that recipes hot-remove with, and
\* that of pagecache, which names file.
Filters ==
  { Hot({KPF.HUGE, KPF.THP, KPF.MMAP, KPF.ANON}, {KPF.ANON, KPF.MMAP}),
    Hot({KPF.THP, KPF.MMAP, KPF.ANON, KPF.COMPOUND_HEAD},
        {KPF.THP, KPF.MMAP, KPF.ANON, KPF.COMPOUND_HEAD}),
    Hot({KPF.THP, KPF.MMAP, KPF.ANON, KPF.COMPOUND_HEAD},
        {KPF.THP, KPF.MMAP, KPF.COMPOUND_HEAD}),
    Hot({KPF.THP, KPF.MMAP, KPF.SWAPBACKED}, {KPF.MMAP, KPF.SWAPBACKED}),
    Hot({KPF.HUGE, KPF.COMPOUND_HEAD, KPF.MMAP}, {KPF.HUGE, KPF.COMPOUND_HEAD, KPF.MMAP}),
    Hot({KPF.MMAP, KPF.ANON, KPF.FILE}, {KPF.MMAP, KPF.FILE}) }
Hotplug == {P(<<h, B(O("exit"))>>, 3, 1) : h \in Filters}
             \cup {P(<<h, h>>, 3, 1) : h \in Filters}

AllRecipes == Linear \cup Forking \cup Racing \cup Injecting \cup Single \cup Hotplug

\* The madv_hard and tail cases of cases/mm/hwpoison/base.set3.
TailInjection == {P(Frame(<<Err(e, 1, l)>>), 3, 1) : e \in {"madv_hard", "hard-offline"},
                                                     l \in BOOLEAN}

\* Two hugepages per block: anonymous THPs, shared THPs, hugetlb, small pages.
ThpAnon == <<{KPF.MMAP, KPF.ANON, KPF.COMPOUND_HEAD, KPF.THP}, {KPF.COMPOUND_TAIL, KPF.THP}>>
ThpShmem == <<{KPF.MMAP, KPF.COMPOUND_HEAD, KPF.THP, KPF.SWAPBACKED}, {KPF.COMPOUND_TAIL, KPF.THP}>>
Hugetlb == <<{KPF.MMAP, KPF.ANON, KPF.COMPOUND_HEAD, KPF.HUGE}, {KPF.COMPOUND_TAIL, KPF.HUGE}>>
Small == <<{KPF.MMAP, KPF.ANON, KPF.SWAPBACKED}, {KPF.MMAP, KPF.SWAPBACKED}>>
Free == <<{}, {}>>
Contents == {Free \o Free, ThpAnon \o Free, ThpAnon \o ThpAnon, ThpShmem \o Hugetlb,
             Hugetlb \o Hugetlb, Small \o ThpShmem, Small \o Small}
\* Three blocks from 2 on; the dump may end one block before.
Dumps == {f \in [2 .. 4 -> Contents \cup {<<>>}] : f[2] # <<>> /\ f[3] # <<>>}

\* Two zones that end at a block boundary.
Zones == <<[spanned |-> 2, start_pfn |-> 0], [spanned |-> 3, start_pfn |-> 2]>>

\* The last zone is empty, as Movable often is, and the one before starts at block n.
EmptyLast(n) == <<[spanned |-> n, start_pfn |-> 0], [spanned |-> 5 - n, start_pfn |-> n],
                  [spanned |-> 0, start_pfn |-> 0]>>

MCBlocks == [zones : {Zones}, dump : Dumps]
              \cup [zones : {EmptyLast(2), EmptyLast(4)},
                    dump : {d \in Dumps : d[2] \in {ThpAnon \o Free, Small \o Small}}]

\* The hypotheses of EngineProofs hold of the recipes.
ASSUME RecipesAsExpected ==
  /\ UsedWhileMapped /\ StressIsLast /\ WorkIsMapped
  /\ MovesAreSafe /\ PlainFilters /\ WholeBlocks
=============================================================================
