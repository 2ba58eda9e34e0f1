--------------------------- MODULE MCHugetlbProgs ---------------------------
(* The recipes of cases/mm/hugetlb/1GB_*.set3 and of                       *)
(* cases/mm/hwpoison/hugetlb_fork_rw.set3.                                 *)
EXTENDS HugetlbProgs

\* name, name:tag=.., name:key=value
O(name) == <<<<name, "">>>>
With(o, key, value) == Append(o, <<key, value>>)
Sleeps(o) == With(o, "wait_after", "1000")
Pauses(o) == With(o, "wait_after", "")
Tagged(o, tag) == With(o, "tag", tag)
Pause(tag) == Tagged(O("pause"), tag)
Madvise1(how) == With(O("madvise"), "advice", how)
Inject == Madvise1("hwpoison")
Alloc == <<O("allocate"), O("access")>>
Again == Tagged(With(O("access"), "type", "memwrite"), "after_injection")

R(arms, type, ops, expected, tested) ==
  [prog |-> "hugetlb_1gb", type |-> type, pipe |-> TRUE, stdout |-> FALSE, ops |-> ops, arms |-> arms,
   soft |-> FALSE, expected |-> expected, hwcheck |-> TRUE, tested |-> tested \cup {"inject", "alloc"}]

\* 1GB_hwp_entry_manipulate
Change(mid, code, fault) ==
  R("manipulate", "anon",
    Alloc \o <<Tagged(Pauses(Inject), "hwpoison_inject")>>
      \o mid \o <<Again, O("pause")>>, <<"HWPOISONED", code, "EXIT">>, {fault})
Manipulations ==
  { Change(<<O("fork"), Pause("after_fork")>>, "CHILD_HAS_HWPOISON_ENTRY", "copy"),
    Change(<<O("mremap"), Pause("after_mremap")>>, "MREMAP_PASS", "mremap"),
    Change(<<Madvise1("dontneed"), Pause("after_dontneed")>>, "DONTNEED_PASS", "dontneed") }

\* 1GB_inj
Inj2(type, inj, code, soft, access) ==
  [R("inj", type, Alloc \o <<inj>> \o (IF access THEN <<Again>> ELSE <<>>),
     <<code>> \o (IF access THEN <<IF soft THEN "ACCESS_ERROR_ADDRESS" ELSE "SIGBUS">> ELSE <<>>) \o <<"EXIT">>,
     IF access /\ ~soft THEN {"sigbus"} ELSE {}) EXCEPT !.soft = soft]
Injections ==
  { [Inj2(t, Sleeps(Madvise1(IF s THEN "soft-offline" ELSE "hwpoison")), "MADV_PASS", s, a)
       EXCEPT !.stdout = TRUE] :
      t \in {"anon", "file"}, s \in BOOLEAN, a \in BOOLEAN }
    \cup {Inj2(t, Pause("wait_injection"), "OFFLINE_PASS", s, a) :
            t \in {"anon", "shmem"}, s \in BOOLEAN, a \in BOOLEAN}

\* 1GB_hwp_entry
Entries == {R("entry", t, Alloc \o <<Sleeps(Inject), O("pause"), Again, O("pause")>>,
              <<"HWPOISONED", "EXIT">>, {}) : t \in {"anon", "file"}}

\* 1GB_hwpoison_race
Races == {[R("race", t, <<O("iterate_mapping")>>, <<"EXIT">>, {})
             EXCEPT !.pipe = FALSE, !.hwcheck = FALSE, !.soft = s, !.tested = {}] :
            t \in {"anon", "file"}, s \in BOOLEAN}

\* hugetlb_fork_rw
Rw(how, type, code, faults) ==
  [R("status", type, <<how>>, <<code>>, faults)
     EXCEPT !.prog = "hugetlb_fork_rw", !.pipe = FALSE, !.hwcheck = FALSE]
ForkRw == { Rw("mmap", "file", "CHILD_KILLED", {"sigbus"}), Rw("mmap", "shmem", "CHILD_KILLED", {"sigbus"}),
            Rw("mmap_again", "file", "CHILD_KILLED", {"sigbus", "remap"}),
            Rw("sysrw", "file", "CHILD_EXITED_PASS", {"sigbus", "punch"}) }

AllRecipes == Manipulations \cup Injections \cup Entries \cup Races \cup ForkRw

Faults == {"alloc", "inject", "sigbus", "copy", "mremap", "dontneed", "remap", "punch"}
OneFault == {{}} \cup {{f} : f \in Faults}
=============================================================================
