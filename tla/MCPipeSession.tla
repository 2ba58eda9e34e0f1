--------------------------- MODULE MCPipeSession ---------------------------
EXTENDS PipeSession

CP(s, a, f) == [sync |-> s, arm |-> a, fate |-> f]

Step == [sync : {"wait"}, arm : Arms, fate : Fates]
          \cup [sync : {"loop"}, arm : {"go", "exit"}, fate : {"lives"}]
          \cup {CP("say", "silent", "lives")}

\* Every program of up to three checkpoints, whatever its controller does.
AllPrograms == UNION {[1..n -> Step] : n \in 1..3}

\* test_mincore (lib/test_mincore.c) under the controller of
\* cases/mm/mincore.set3, test_alloc_generic with a memory error and an access
\* to it under control_mce_test, test_sample, which pauses at its end, and a program
\* that control_hugepage_migration leaves without an answer when it cannot set
\* cpuset.mems.
RepoPrograms ==
  { <<CP("wait", "go", "lives"), CP("say", "silent", "lives"),
      CP("say", "silent", "lives"), CP("loop", "go", "lives"),
      CP("wait", "exit", "lives")>>,
    <<CP("wait", "go", "lives"), CP("wait", "inject", "lives"),
      CP("wait", "access", "dies"), CP("wait", "exit", "lives")>>,
    <<CP("wait", "go", "lives"), CP("wait", "inject", "lives"),
      CP("wait", "access", "lives"), CP("wait", "exit", "lives")>>,
    <<CP("loop", "go", "lives"), CP("pause", "exit", "lives")>>,
    <<CP("wait", "go", "lives"), CP("wait", "go", "lives"),
      CP("wait", "silent", "lives"), CP("wait", "exit", "lives")>> }
=============================================================================
