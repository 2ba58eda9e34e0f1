--------------------------- MODULE HugetlbProofs ---------------------------
(***************************************************************************)
(* Proofs about HugetlbProgs, for every recipe, kernel and list of         *)
(* operations: types, and that a process which writes alone to the fifo is *)
(* heard although the controller opens and closes it for every line.       *)
(*                                                                         *)
(* The lists of steps are sequences whose elements have no common set to   *)
(* be typed with, so the proofs speak of their shape: IsSeq, and what may  *)
(* stand next to what.                                                     *)
(***************************************************************************)
EXTENDS HugetlbProgs, SequenceTheorems, TLAPS
-----------------------------------------------------------------------------
(* Lists of steps.                                                         *)

\* t is a sequence of whatever it holds.
IsSeq(t) == t \in Seq(Range(t))

\* exit() has a status, and an argument has its number.
StepOK(s) == (s.k = "exit" => s.a = "1") /\ (s.k = "arg" => s.a \in Nat /\ s.a >= 1)
Listed(t) == IsSeq(t) /\ \A i \in 1 .. Len(t) : StepOK(t[i])

\* What one process without a child may still do: a write comes right after its
\* open and is followed by a nap, and a failed allocation of do_iterate_mapping
\* skips no half of a pprintf.
Talks(t) ==
  /\ Listed(t)
  /\ \A i \in 1 .. Len(t) :
       /\ t[i].k # "fork"
       /\ t[i].k = "open" => i < Len(t) /\ t[i + 1].k = "write"
       /\ t[i].k = "write" => i < Len(t) /\ t[i + 1].k = "nap" /\ (i > 1 => t[i - 1].k = "open")
       /\ t[i].k = "alloc_it" => i + 3 <= Len(t) /\ t[i + 3].k # "open"

\* What a program that does not know the fifo may still do.
Mute(t) == Listed(t) /\ \A i \in 1 .. Len(t) : t[i].k \notin {"open", "write", "arg"}

-----------------------------------------------------------------------------
(* The inductive invariant.                                                *)

Statuses == {"unborn", "alive", "0", "1", "2", "255"} \cup Signals
IsProc(r) ==
  /\ DOMAIN r = {"st", "todo", "at", "ghp", "ret", "flag"}
  /\ r.st \in Statuses /\ Listed(r.todo) /\ (r.st # "alive" => r.todo = <<>>)
  /\ DOMAIN r.at = 1 .. 2 /\ r.at[1] \in Mem /\ r.at[2] \in Mem

IsCtl(c) ==
  /\ DOMAIN c = {"todo", "codes", "ph"} /\ c.ph \in {"loop", "over", "killed", "clean"}
IsEnv == recipe \in Recipes /\ slow \in BOOLEAN

TypeInv ==
  /\ IsEnv /\ DOMAIN proc = P /\ \A q \in P : IsProc(proc[q])
  /\ page \in {"ok", "poisoned"} /\ IsCtl(ctl) /\ rdr \in BOOLEAN /\ lost \in BOOLEAN
  /\ fifo # <<>> => rdr \/ Opened(proc)

\* hugetlb_fork_rw leaves the fifo alone.
RwInv ==
  recipe.prog = "hugetlb_fork_rw" => Mute(proc[0].todo) /\ Mute(proc[1].todo) /\ fifo = <<>> /\ ~lost

\* One process of hugetlb_1gb: while it has the fifo open the controller reads
\* and the fifo is empty, and while a line is in the fifo the process naps.
LoneInv ==
  recipe.prog = "hugetlb_1gb" /\ ~slow /\ ~TwoWriters =>
    /\ Talks(proc[0].todo) /\ proc[1].st = "unborn" /\ ~lost
    /\ rdr => Reading
    /\ At(0, {"write"}) => rdr /\ fifo = <<>>
    /\ fifo # <<>> => rdr /\ fifo = <<Head(fifo)>> /\ At(0, {"nap"})
IInv == TypeInv /\ RwInv /\ LoneInv
-----------------------------------------------------------------------------
(* Sequences.                                                              *)

LEMMA SeqIs == ASSUME NEW S0, NEW t \in Seq(S0) PROVE IsSeq(t)
BY SeqOfRange DEF IsSeq

LEMMA SeqFacts ==
  ASSUME NEW t, IsSeq(t)
  PROVE  /\ Len(t) \in Nat /\ DOMAIN t = 1 .. Len(t) /\ (t # <<>> <=> Len(t) >= 1)
         /\ t # <<>> => Head(t) = t[1]
<1>1. t \in Seq(Range(t)) BY DEF IsSeq
<1> QED BY <1>1, EmptySeq, LenProperties

LEMMA TailFacts ==
  ASSUME NEW t, IsSeq(t), t # <<>>
  PROVE  /\ IsSeq(Tail(t)) /\ Len(Tail(t)) = Len(t) - 1
         /\ \A i \in 1 .. Len(t) - 1 : Tail(t)[i] = t[i + 1]
<1>1. t \in Seq(Range(t)) BY DEF IsSeq
<1>2. Tail(t) \in Seq(Range(t)) BY <1>1, HeadTailProperties
<1> QED BY <1>1, <1>2, HeadTailProperties, SeqIs

LEMMA ConcatFacts ==
  ASSUME NEW s, NEW t, IsSeq(s), IsSeq(t)
  PROVE  /\ IsSeq(s \o t) /\ Len(s \o t) = Len(s) + Len(t)
         /\ \A i \in 1 .. Len(s) : (s \o t)[i] = s[i]
         /\ \A i \in Len(s) + 1 .. Len(s) + Len(t) : (s \o t)[i] = t[i - Len(s)]
         /\ s = <<>> => s \o t = t
         /\ t = <<>> => s \o t = s
<1> DEFINE U == Range(s) \cup Range(t)
<1>1. s \in Seq(U) /\ t \in Seq(U) BY SeqMonotonic DEF IsSeq
<1> HIDE DEF U
<1>2. s \o t \in Seq(U) /\ Len(s) \in Nat /\ Len(t) \in Nat BY <1>1, ConcatProperties, LenProperties
<1>3. IsSeq(s \o t) BY <1>2, SeqIs
<1>4. /\ Len(s \o t) = Len(s) + Len(t)
      /\ \A i \in 1 .. Len(s) + Len(t) : (s \o t)[i] = IF i <= Len(s) THEN s[i] ELSE t[i - Len(s)]
  BY <1>1, ConcatProperties
<1>5. (s = <<>> => s \o t = t) /\ (t = <<>> => s \o t = s) BY <1>1, ConcatEmptySeq
<1> QED BY <1>2, <1>3, <1>4, <1>5

LEMMA SubSeqFacts ==
  ASSUME NEW t, IsSeq(t), Len(t) >= 4
  PROVE  /\ IsSeq(SubSeq(t, 5, Len(t))) /\ Len(SubSeq(t, 5, Len(t))) = Len(t) - 4
         /\ \A i \in 1 .. Len(t) - 4 : SubSeq(t, 5, Len(t))[i] = t[i + 4]
<1>1. t \in Seq(Range(t)) BY DEF IsSeq
<1>2. PICK n \in Nat : n = Len(t) BY SeqFacts
<1>3. \A i \in 5 .. n : t[i] \in Range(t) BY <1>1, <1>2, ElementOfSeq
<1>4. /\ SubSeq(t, 5, n) \in Seq(Range(t))
      /\ Len(SubSeq(t, 5, n)) = IF 5 <= n THEN n - 5 + 1 ELSE 0
      /\ \A i \in 1 .. n - 5 + 1 : SubSeq(t, 5, n)[i] = t[5 + i - 1]
  BY <1>3, SubSeqProperties
<1>5. IsSeq(SubSeq(t, 5, n)) BY <1>4, SeqIs
<1> QED BY <1>2, <1>4, <1>5

LEMMA Tuples ==
  ASSUME NEW a, NEW b, NEW c, NEW d
  PROVE  /\ IsSeq(<<>>) /\ Len(<<>>) = 0
         /\ IsSeq(<<a>>) /\ Len(<<a>>) = 1 /\ <<a>>[1] = a
         /\ IsSeq(<<a, b>>) /\ Len(<<a, b>>) = 2 /\ <<a, b>>[1] = a /\ <<a, b>>[2] = b
         /\ IsSeq(<<a, b, c>>) /\ Len(<<a, b, c>>) = 3
         /\ <<a, b, c>>[1] = a /\ <<a, b, c>>[2] = b /\ <<a, b, c>>[3] = c
         /\ IsSeq(<<a, b, c, d>>) /\ Len(<<a, b, c, d>>) = 4
         /\ <<a, b, c, d>>[1] = a /\ <<a, b, c, d>>[2] = b
         /\ <<a, b, c, d>>[3] = c /\ <<a, b, c, d>>[4] = d
<1> DEFINE U == {a, b, c, d}
<1>1. /\ <<>> \in Seq(U) /\ <<a>> \in Seq(U) /\ <<a, b>> \in Seq(U)
      /\ <<a, b, c>> \in Seq(U) /\ <<a, b, c, d>> \in Seq(U)
  OBVIOUS
<1>2. /\ IsSeq(<<>>) /\ IsSeq(<<a>>) /\ IsSeq(<<a, b>>)
      /\ IsSeq(<<a, b, c>>) /\ IsSeq(<<a, b, c, d>>)
  BY <1>1, SeqIs
<1> QED BY <1>2

(* What keeps the shape of a list.                                         *)

\* No half of a pprintf at the front.
Whole(t) == Talks(t) /\ (t # <<>> => t[1].k # "write")

LEMMA ListedTail == ASSUME NEW t, Listed(t), t # <<>> PROVE Listed(Tail(t))
BY TailFacts, SeqFacts DEF Listed

LEMMA ListedConcat == ASSUME NEW s, NEW t, Listed(s), Listed(t) PROVE Listed(s \o t)
<1>1. IsSeq(s) /\ IsSeq(t) BY DEF Listed
<1>2. Len(s) \in Nat /\ Len(t) \in Nat BY <1>1, SeqFacts
<1>3. SUFFICES ASSUME NEW i \in 1 .. Len(s) + Len(t) PROVE StepOK((s \o t)[i])
  BY <1>1, ConcatFacts DEF Listed
<1>4. CASE i <= Len(s) BY <1>1, <1>2, <1>4, ConcatFacts DEF Listed
<1>5. CASE i > Len(s)
  <2>1. i - Len(s) \in 1 .. Len(t) /\ (s \o t)[i] = t[i - Len(s)] BY <1>1, <1>2, <1>5, ConcatFacts
  <2> QED BY <2>1 DEF Listed
<1> QED BY <1>2, <1>4, <1>5

LEMMA ListedSub ==
  ASSUME NEW t, Listed(t), Len(t) >= 4 PROVE Listed(SubSeq(t, 5, Len(t)))
BY SubSeqFacts, SeqFacts DEF Listed

LEMMA MuteTail == ASSUME NEW t, Mute(t), t # <<>> PROVE Mute(Tail(t))
BY TailFacts, SeqFacts, ListedTail DEF Mute, Listed

LEMMA MuteConcat == ASSUME NEW s, NEW t, Mute(s), Mute(t) PROVE Mute(s \o t)
<1>1. IsSeq(s) /\ IsSeq(t) BY DEF Mute, Listed
<1>2. Len(s) \in Nat /\ Len(t) \in Nat BY <1>1, SeqFacts
<1>3. SUFFICES ASSUME NEW i \in 1 .. Len(s) + Len(t) PROVE (s \o t)[i].k \notin {"open", "write", "arg"}
  BY <1>1, ConcatFacts, ListedConcat DEF Mute
<1>4. CASE i <= Len(s) BY <1>1, <1>2, <1>4, ConcatFacts DEF Mute
<1>5. CASE i > Len(s)
  <2>1. i - Len(s) \in 1 .. Len(t) /\ (s \o t)[i] = t[i - Len(s)] BY <1>1, <1>2, <1>5, ConcatFacts
  <2> QED BY <2>1 DEF Mute
<1> QED BY <1>2, <1>4, <1>5

LEMMA MuteSub ==
  ASSUME NEW t, Mute(t), Len(t) >= 4 PROVE Mute(SubSeq(t, 5, Len(t)))
BY SubSeqFacts, SeqFacts, ListedSub DEF Mute, Listed

LEMMA TalksTail ==
  ASSUME NEW t, Talks(t), t # <<>>
  PROVE  Talks(Tail(t)) /\ (t[1].k # "open" => Whole(Tail(t)))
<1>1. Listed(t) /\ IsSeq(t) /\ Len(t) \in Nat /\ Len(t) >= 1 BY SeqFacts DEF Talks, Listed
<1> DEFINE u == Tail(t)
<1>2. /\ Len(u) = Len(t) - 1 /\ Listed(u) /\ IsSeq(u)
      /\ \A i \in 1 .. Len(t) - 1 : u[i] = t[i + 1]
  BY <1>1, TailFacts, ListedTail
<1> HIDE DEF u
<1>3. ASSUME NEW i \in 1 .. Len(u)
      PROVE  /\ u[i].k # "fork"
             /\ u[i].k = "open" => i < Len(u) /\ u[i + 1].k = "write"
             /\ u[i].k = "write" => i < Len(u) /\ u[i + 1].k = "nap" /\ (i > 1 => u[i - 1].k = "open")
             /\ u[i].k = "alloc_it" => i + 3 <= Len(u) /\ u[i + 3].k # "open"
  <2>1. i + 1 \in 1 .. Len(t) /\ u[i] = t[i + 1] BY <1>1, <1>2, <1>3
  <2>2. i < Len(u) => u[i + 1] = t[i + 2] BY <1>1, <1>2, <1>3
  <2>3. i > 1 => u[i - 1] = t[i] BY <1>1, <1>2, <1>3
  <2>4. i + 3 <= Len(u) => u[i + 3] = t[i + 4] BY <1>1, <1>2, <1>3
  <2>5. /\ t[i + 1].k # "fork"
        /\ t[i + 1].k = "open" => i + 1 < Len(t) /\ t[i + 2].k = "write"
        /\ t[i + 1].k = "write" => i + 1 < Len(t) /\ t[i + 2].k = "nap" /\ (i + 1 > 1 => t[i].k = "open")
        /\ t[i + 1].k = "alloc_it" => i + 4 <= Len(t) /\ t[i + 4].k # "open"
    <3>1. PICK j \in 1 .. Len(t) : j = i + 1 BY <2>1
    <3>2. j + 1 = i + 2 /\ j - 1 = i /\ j + 3 = i + 4 BY <3>1, <1>3
    <3> QED BY <3>1, <3>2 DEF Talks
  <2> QED BY <1>1, <1>2, <1>3, <2>1, <2>2, <2>3, <2>4, <2>5
<1>4. Talks(u) BY <1>2, <1>3 DEF Talks
<1>5. ASSUME t[1].k # "open", u # <<>> PROVE u[1].k # "write"
  <2>1. Len(u) >= 1 /\ u[1] = t[2] /\ 2 \in 1 .. Len(t) BY <1>1, <1>2, <1>5, SeqFacts
  <2>2. t[2].k = "write" => t[2 - 1].k = "open" BY <2>1 DEF Talks
  <2> QED BY <1>5, <2>1, <2>2
<1> QED BY <1>4, <1>5 DEF u, Whole

LEMMA WholeConcat ==
  ASSUME NEW s, NEW t, Whole(s), Whole(t) PROVE Whole(s \o t)
<1>1. Listed(s) /\ IsSeq(s) /\ Len(s) \in Nat /\ Listed(t) /\ IsSeq(t) /\ Len(t) \in Nat
  BY SeqFacts DEF Whole, Talks, Listed
<1> DEFINE u == s \o t
<1>2. /\ Len(u) = Len(s) + Len(t) /\ Listed(u) /\ IsSeq(u)
      /\ \A i \in 1 .. Len(s) : u[i] = s[i]
      /\ \A i \in Len(s) + 1 .. Len(s) + Len(t) : u[i] = t[i - Len(s)]
  BY <1>1, ConcatFacts, ListedConcat
<1> HIDE DEF u
<1>3. t # <<>> => t[1].k # "write" BY DEF Whole
<1>4. ASSUME NEW i \in 1 .. Len(u)
      PROVE  /\ u[i].k # "fork"
             /\ u[i].k = "open" => i < Len(u) /\ u[i + 1].k = "write"
             /\ u[i].k = "write" => i < Len(u) /\ u[i + 1].k = "nap" /\ (i > 1 => u[i - 1].k = "open")
             /\ u[i].k = "alloc_it" => i + 3 <= Len(u) /\ u[i + 3].k # "open"
  <2>1. CASE i <= Len(s)
    <3>1. i \in 1 .. Len(s) /\ u[i] = s[i] BY <1>1, <1>2, <2>1
    <3>2. i < Len(s) => i < Len(u) /\ u[i + 1] = s[i + 1] BY <1>1, <1>2, <2>1
    <3>3. i > 1 => u[i - 1] = s[i - 1] BY <1>1, <1>2, <2>1
    <3>4. i + 3 <= Len(s) => i + 3 <= Len(u) /\ u[i + 3] = s[i + 3] BY <1>1, <1>2, <2>1
    <3> QED BY <3>1, <3>2, <3>3, <3>4 DEF Whole, Talks
  <2>2. CASE i > Len(s)
    <3> DEFINE j == i - Len(s)
    <3>1. j \in 1 .. Len(t) /\ u[i] = t[j] BY <1>1, <1>2, <2>2
    <3>2. j < Len(t) => i < Len(u) /\ u[i + 1] = t[j + 1] BY <1>1, <1>2, <2>2
    <3>3. j > 1 => u[i - 1] = t[j - 1] BY <1>1, <1>2, <2>2
    <3>4. j + 3 <= Len(t) => i + 3 <= Len(u) /\ u[i + 3] = t[j + 3] BY <1>1, <1>2, <2>2
    <3>5. j = 1 => t[j].k # "write" BY <1>1, <1>3, <3>1, SeqFacts
    <3> HIDE DEF j
    <3>6. j \in Nat BY <3>1
    <3>7. /\ t[j].k # "fork"
          /\ t[j].k = "open" => j < Len(t) /\ t[j + 1].k = "write"
          /\ t[j].k = "write" => j < Len(t) /\ t[j + 1].k = "nap" /\ (j > 1 => t[j - 1].k = "open")
          /\ t[j].k = "alloc_it" => j + 3 <= Len(t) /\ t[j + 3].k # "open"
      BY <3>1 DEF Whole, Talks
    <3>8. j = 1 \/ j > 1 BY <3>1, <3>6
    <3> QED BY <3>1, <3>2, <3>3, <3>4, <3>5, <3>7, <3>8
  <2> QED BY <1>1, <2>1, <2>2
<1>5. Talks(u) BY <1>2, <1>4 DEF Talks
<1>6. u # <<>> => u[1].k # "write"
  <2>1. CASE Len(s) >= 1 BY <1>1, <1>2, <2>1, SeqFacts DEF Whole
  <2>2. CASE Len(s) = 0
    <3>1. s = <<>> BY <1>1, <2>2, SeqFacts
    <3>2. u = t BY <1>1, <3>1, ConcatFacts DEF u
    <3> QED BY <1>3, <3>2
  <2> QED BY <1>1, <2>1, <2>2
<1> QED BY <1>5, <1>6 DEF u, Whole

LEMMA WholeSub ==
  ASSUME NEW t, Talks(t), t # <<>>, t[1].k = "alloc_it"
  PROVE  Len(t) >= 4 /\ Whole(SubSeq(t, 5, Len(t)))
<1>1. Listed(t) /\ IsSeq(t) /\ Len(t) \in Nat /\ Len(t) >= 1 BY SeqFacts DEF Talks, Listed
<1>2. 1 + 3 <= Len(t) /\ t[1 + 3].k # "open" BY <1>1 DEF Talks
<1> DEFINE u == SubSeq(t, 5, Len(t))
<1>3. /\ Len(u) = Len(t) - 4 /\ Listed(u) /\ IsSeq(u)
      /\ \A i \in 1 .. Len(t) - 4 : u[i] = t[i + 4]
  BY <1>1, <1>2, SubSeqFacts, ListedSub
<1> HIDE DEF u
<1>4. ASSUME NEW i \in 1 .. Len(u)
      PROVE  /\ u[i].k # "fork"
             /\ u[i].k = "open" => i < Len(u) /\ u[i + 1].k = "write"
             /\ u[i].k = "write" => i < Len(u) /\ u[i + 1].k = "nap" /\ (i > 1 => u[i - 1].k = "open")
             /\ u[i].k = "alloc_it" => i + 3 <= Len(u) /\ u[i + 3].k # "open"
  <2>1. i + 4 \in 1 .. Len(t) /\ u[i] = t[i + 4] BY <1>1, <1>3, <1>4
  <2>2. i < Len(u) => u[i + 1] = t[i + 5] BY <1>1, <1>3, <1>4
  <2>3. i > 1 => u[i - 1] = t[i + 3] BY <1>1, <1>3, <1>4
  <2>4. i + 3 <= Len(u) => u[i + 3] = t[i + 7] BY <1>1, <1>3, <1>4
  <2>5. /\ t[i + 4].k # "fork"
        /\ t[i + 4].k = "open" => i + 4 < Len(t) /\ t[i + 5].k = "write"
        /\ t[i + 4].k = "write" => i + 4 < Len(t) /\ t[i + 5].k = "nap" /\ (i + 4 > 1 => t[i + 3].k = "open")
        /\ t[i + 4].k = "alloc_it" => i + 7 <= Len(t) /\ t[i + 7].k # "open"
    <3>1. PICK j \in 1 .. Len(t) : j = i + 4 BY <2>1
    <3>2. j + 1 = i + 5 /\ j - 1 = i + 3 /\ j + 3 = i + 7 BY <3>1, <1>4
    <3> QED BY <3>1, <3>2 DEF Talks
  <2> QED BY <1>1, <1>3, <1>4, <2>1, <2>2, <2>3, <2>4, <2>5
<1>5. Talks(u) BY <1>3, <1>4 DEF Talks
<1>6. ASSUME u # <<>> PROVE u[1].k # "write"
  <2>1. Len(u) >= 1 /\ u[1] = t[5] /\ 5 \in 1 .. Len(t) BY <1>1, <1>2, <1>3, <1>6, SeqFacts
  <2>2. t[5].k = "write" => t[5 - 1].k = "open" BY <2>1 DEF Talks
  <2> QED BY <1>2, <2>1, <2>2
<1> QED BY <1>1, <1>2, <1>5, <1>6 DEF u, Whole
-----------------------------------------------------------------------------
(* The programs of HugetlbProgs.                                           *)

\* Steps that neither touch the fifo nor need company.
Mild(s) == StepOK(s) /\ s.k \notin {"fork", "open", "write", "alloc_it", "arg"}

LEMMA WholeIsListed == ASSUME NEW t, Whole(t) PROVE Listed(t) /\ Talks(t)
BY DEF Whole, Talks

LEMMA MildLists ==
  ASSUME NEW a, NEW b, NEW c, NEW d, Mild(a), Mild(b), Mild(c), Mild(d)
  PROVE  /\ Whole(<<>>) /\ Mute(<<>>)
         /\ Whole(<<a>>) /\ Mute(<<a>>)
         /\ Whole(<<a, b>>) /\ Mute(<<a, b>>)
         /\ Whole(<<a, b, c>>) /\ Mute(<<a, b, c>>)
         /\ Whole(<<a, b, c, d>>) /\ Mute(<<a, b, c, d>>)
<1>1. ASSUME NEW t, IsSeq(t), Len(t) \in Nat, \A i \in 1 .. Len(t) : Mild(t[i])
      PROVE  Whole(t) /\ Mute(t)
  <2>1. Listed(t) BY <1>1 DEF Listed, Mild
  <2>2. Talks(t) BY <1>1, <2>1 DEF Talks, Mild
  <2>3. t # <<>> => t[1].k # "write" BY <1>1, SeqFacts DEF Mild
  <2> QED BY <1>1, <2>1, <2>2, <2>3 DEF Whole, Mute, Mild
<1>2. ASSUME NEW t, IsSeq(t), Len(t) \in 0 .. 4,
             Len(t) >= 1 => Mild(t[1]), Len(t) >= 2 => Mild(t[2]),
             Len(t) >= 3 => Mild(t[3]), Len(t) >= 4 => Mild(t[4])
      PROVE  Whole(t) /\ Mute(t)
  <2>1. ASSUME NEW i \in 1 .. Len(t) PROVE Mild(t[i])
    <3>0. PICK n \in 0 .. 4 : n = Len(t) BY <1>2
    <3>1. i \in 1 .. n /\ i \in 1 .. 4 BY <3>0, <2>1
    <3>2. i = 1 \/ i = 2 \/ i = 3 \/ i = 4 BY <3>1
    <3> QED BY <1>2, <2>1, <3>0, <3>1, <3>2
  <2> QED BY <1>1, <1>2, <2>1
<1>3. Whole(<<>>) /\ Mute(<<>>)
  <2>1. PICK t : t = <<>> OBVIOUS
  <2>2. IsSeq(t) /\ Len(t) = 0 BY <2>1, Tuples
  <2> QED BY <2>1, <2>2, <1>2
<1>4. Whole(<<a>>) /\ Mute(<<a>>)
  <2>1. PICK t : t = <<a>> OBVIOUS
  <2>2. IsSeq(t) /\ Len(t) = 1 /\ t[1] = a BY <2>1, Tuples
  <2> QED BY <2>1, <2>2, <1>2
<1>5. Whole(<<a, b>>) /\ Mute(<<a, b>>)
  <2>1. PICK t : t = <<a, b>> OBVIOUS
  <2>2. IsSeq(t) /\ Len(t) = 2 /\ t[1] = a /\ t[2] = b BY <2>1, Tuples
  <2> QED BY <2>1, <2>2, <1>2
<1>6. Whole(<<a, b, c>>) /\ Mute(<<a, b, c>>)
  <2>1. PICK t : t = <<a, b, c>> OBVIOUS
  <2>2. IsSeq(t) /\ Len(t) = 3 /\ t[1] = a /\ t[2] = b /\ t[3] = c BY <2>1, Tuples
  <2> QED BY <2>1, <2>2, <1>2
<1>7. Whole(<<a, b, c, d>>) /\ Mute(<<a, b, c, d>>)
  <2>1. PICK t : t = <<a, b, c, d>> OBVIOUS
  <2>2. IsSeq(t) /\ Len(t) = 4 /\ t[1] = a /\ t[2] = b /\ t[3] = c /\ t[4] = d BY <2>1, Tuples
  <2> QED BY <2>1, <2>2, <1>2
<1> QED BY <1>3, <1>4, <1>5, <1>6, <1>7

LEMMA EmptyList == Whole(<<>>) /\ Mute(<<>>)
<1>1. Mild(S("nap", "")) BY DEF Mild, StepOK, S
<1> QED BY <1>1, MildLists

LEMMA MildStep ==
  ASSUME NEW k, NEW a, k \notin {"fork", "open", "write", "alloc_it", "arg", "exit"}
  PROVE  Mild(S(k, a)) /\ Whole(<<S(k, a)>>) /\ Mute(<<S(k, a)>>)
<1>1. Mild(S(k, a)) BY DEF Mild, StepOK, S
<1> QED BY <1>1, MildLists

LEMMA ExitStep == Mild(S("exit", "1")) /\ Whole(<<S("exit", "1")>>) /\ Mute(<<S("exit", "1")>>)
<1>1. Mild(S("exit", "1")) BY DEF Mild, StepOK, S
<1> QED BY <1>1, MildLists

LEMMA ArgStep ==
  ASSUME NEW i \in Nat, i >= 1 PROVE Whole(<<S("arg", i)>>)
<1>1. PICK t : t = <<S("arg", i)>> OBVIOUS
<1>2. IsSeq(t) /\ Len(t) = 1 /\ t[1] = S("arg", i) BY <1>1, Tuples
<1>3. t[1].k = "arg" /\ t[1].a = i BY <1>2 DEF S
<1>4. Listed(t) BY <1>2, <1>3 DEF Listed, StepOK
<1> QED BY <1>1, <1>2, <1>3, <1>4 DEF Whole, Talks

LEMMA SayWhole == ASSUME NEW text, NEW val PROVE Whole(Say(text, val))
<1>1. CASE ~recipe.pipe BY <1>1, EmptyList DEF Say
<1>2. CASE recipe.pipe
  <2>1. PICK a, b, c : a = S("open", "") /\ b = S("write", <<text, val>>) /\ c = S("nap", "")
    OBVIOUS
  <2>0. a.k = "open" /\ b.k = "write" /\ c.k = "nap" BY <2>1 DEF S
  <2>7. PICK t : t = <<a, b, c>> OBVIOUS
  <2>2. IsSeq(t) /\ Len(t) = 3 /\ t[1].k = "open" /\ t[2].k = "write" /\ t[3].k = "nap"
    BY <2>0, <2>7, Tuples
  <2>3. ASSUME NEW i \in 1 .. Len(t) PROVE i = 1 \/ i = 2 \/ i = 3 BY <2>2
  <2>4. Listed(t) BY <2>2, <2>3 DEF Listed, StepOK
  <2>5. Talks(t) BY <2>2, <2>3, <2>4 DEF Talks
  <2>6. Whole(t) BY <2>2, <2>5 DEF Whole
  <2> QED BY <1>2, <2>1, <2>6, <2>7 DEF Say
<1> QED BY <1>1, <1>2

LEMMA SayMute == ASSUME NEW text, NEW val, ~recipe.pipe PROVE Say(text, val) = <<>>
BY DEF Say

LEMMA WaitWhole ==
  ASSUME NEW opc PROVE Whole(do_wait_before(opc)) /\ Whole(do_wait_after(opc))
<1>1. ASSUME NEW w, NEW key PROVE Whole(Wait(opc, w, key))
  <2>1. Whole(<<S("nap", "")>>) /\ Whole(<<S("pause", "")>>) BY MildStep
  <2>2. Whole(Say(<<w>> \o tag_string(opc), "")) BY SayWhole
  <2>3. Whole(Say(<<w>> \o tag_string(opc), "") \o <<S("pause", "")>>) BY <2>1, <2>2, WholeConcat
  <2> QED BY <2>1, <2>3 DEF Wait
<1> QED BY <1>1, EmptyList DEF do_wait_before, do_wait_after

LEMMA BodyWhole ==
  ASSUME NEW opc, opc.name \in Operations
  PROVE  Listed(Body(opc)) /\ (opc.name # "fork" => Whole(Body(opc)))
<1>1. CASE opc.name = "pause"
  <2>1. Mild(S("pause", "")) /\ Mild(S("ret", "0")) BY MildStep
  <2>2. Whole(<<S("pause", ""), S("ret", "0")>>) BY <2>1, MildLists
  <2>3. Whole(Say(tag_string(opc), "")) BY SayWhole
  <2>4. Whole(Say(tag_string(opc), "") \o <<S("pause", ""), S("ret", "0")>>) BY <2>2, <2>3, WholeConcat
  <2>5. Body(opc) = Say(tag_string(opc), "") \o <<S("pause", ""), S("ret", "0")>> BY <1>1 DEF Body
  <2> QED BY <2>4, <2>5, WholeIsListed
<1>2. CASE opc.name = "mremap"
  <2>1. Whole(<<S("mremap", "")>>) BY MildStep
  <2>2. Whole(Say(<<"mremap">>, "")) /\ Whole(Say(<<"new">>, "")) BY SayWhole
  <2>3. Whole(Say(<<"mremap">>, "") \o <<S("mremap", "")>>) BY <2>1, <2>2, WholeConcat
  <2>4. Whole((Say(<<"mremap">>, "") \o <<S("mremap", "")>>) \o Say(<<"new">>, ""))
    BY <2>2, <2>3, WholeConcat
  <2>5. Body(opc) = (Say(<<"mremap">>, "") \o <<S("mremap", "")>>) \o Say(<<"new">>, "") BY <1>2 DEF Body
  <2> QED BY <2>4, <2>5, WholeIsListed
<1>3. CASE opc.name = "iterate_mapping"
  <2>1. Mild(S("flag", TRUE)) /\ Mild(S("iterate", "")) BY MildStep
  <2>2. Whole(<<S("flag", TRUE), S("iterate", "")>>) BY <2>1, MildLists
  <2>3. Body(opc) = <<S("flag", TRUE), S("iterate", "")>> BY <1>3 DEF Body
  <2> QED BY <2>2, <2>3, WholeIsListed
<1>4. CASE opc.name = "madvise"
  <2>1. PICK v : v = opc_get_value(opc, "advice") OBVIOUS
  <2>2. Whole(<<S("madvise", v)>>) BY MildStep
  <2>3. Body(opc) = <<S("madvise", v)>> BY <1>4, <2>1 DEF Body
  <2> QED BY <2>2, <2>3, WholeIsListed
<1>5. CASE opc.name \in {"allocate", "access"}
  <2>1. PICK v : v = opc_get_value(opc, "type") OBVIOUS
  <2>2. Whole(<<S(opc.name, v)>>) BY <1>5, MildStep
  <2>3. Body(opc) = <<S(opc.name, v)>> BY <1>5, <2>1 DEF Body
  <2> QED BY <2>2, <2>3, WholeIsListed
<1>6. CASE opc.name = "fork"
  <2>1. PICK v : v = opc_get_value(opc, "type") OBVIOUS
  <2>2. PICK s : s = S("fork", v) OBVIOUS
  <2>3. Body(opc) = <<s>> BY <1>6, <2>1, <2>2 DEF Body
  <2>4. s.k = "fork" BY <2>2 DEF S
  <2>5. Listed(<<s>>)
    <3>1. PICK t : t = <<s>> OBVIOUS
    <3>2. IsSeq(t) /\ Len(t) = 1 /\ t[1] = s BY <3>1, Tuples
    <3> QED BY <2>4, <3>1, <3>2 DEF Listed, StepOK
  <2> QED BY <1>6, <2>3, <2>5
<1> QED BY <1>1, <1>2, <1>3, <1>4, <1>5, <1>6 DEF Operations

LEMMA CodeWhole ==
  ASSUME NEW opc, opc.name \in Operations
  PROVE  Listed(Code(opc)) /\ (opc.name # "fork" => Whole(Code(opc)))
<1> DEFINE b == do_wait_before(opc)
           m == Body(opc)
           r == <<S("returned", tag_string(opc))>>
           z == do_wait_after(opc)
<1>1. Whole(b) /\ Whole(z) /\ Listed(b) /\ Listed(z) BY WaitWhole, WholeIsListed
<1>2. Whole(r) /\ Listed(r)
  <2>1. PICK v : v = tag_string(opc) OBVIOUS
  <2>2. Whole(<<S("returned", v)>>) BY MildStep
  <2> QED BY <2>1, <2>2, WholeIsListed
<1>3. Listed(m) /\ (opc.name # "fork" => Whole(m)) BY BodyWhole
<1>4. Code(opc) = ((b \o m) \o r) \o z BY DEF Code
<1> HIDE DEF b, m, r, z
<1>5. Listed(((b \o m) \o r) \o z)
  <2>1. Listed(b \o m) BY <1>1, <1>3, ListedConcat
  <2>2. Listed((b \o m) \o r) BY <1>2, <2>1, ListedConcat
  <2> QED BY <1>1, <2>2, ListedConcat
<1>6. ASSUME opc.name # "fork" PROVE Whole(((b \o m) \o r) \o z)
  <2>1. Whole(b \o m) BY <1>1, <1>3, <1>6, WholeConcat
  <2>2. Whole((b \o m) \o r) BY <1>2, <2>1, WholeConcat
  <2> QED BY <1>1, <2>2, WholeConcat
<1> QED BY <1>4, <1>5, <1>6

\* The next argument of hugetlb_1gb, with its number behind it.
LEMMA ArgCode ==
  ASSUME recipe \in Recipes, recipe.prog = "hugetlb_1gb",
         NEW i \in Nat, i >= 1, i <= Len(recipe.ops)
  PROVE  LET code == Code(parse_operation_args(recipe.ops[i])) \o <<S("arg", i + 1)>>
         IN  Listed(code) /\ (~TwoWriters => Whole(code))
<1>1. /\ Len(recipe.ops) \in Nat /\ DOMAIN recipe.ops = 1 .. Len(recipe.ops)
      /\ \A j \in DOMAIN recipe.ops : recipe.ops[j][1][1] \in Operations
  BY RecipesAssumption
<1>2. i \in DOMAIN recipe.ops BY <1>1
<1>3. PICK opc : opc = parse_operation_args(recipe.ops[i]) OBVIOUS
<1>4. opc.name = recipe.ops[i][1][1] BY <1>3 DEF parse_operation_args
<1>5. opc.name \in Operations BY <1>1, <1>2, <1>4
<1>6. Listed(Code(opc)) /\ (opc.name # "fork" => Whole(Code(opc))) BY <1>5, CodeWhole
<1>7. Whole(<<S("arg", i + 1)>>) /\ Listed(<<S("arg", i + 1)>>)
  <2>1. i + 1 \in Nat /\ i + 1 >= 1 OBVIOUS
  <2> QED BY <2>1, ArgStep, WholeIsListed
<1>8. Listed(Code(opc) \o <<S("arg", i + 1)>>) BY <1>6, <1>7, ListedConcat
<1>9. ASSUME ~TwoWriters PROVE Whole(Code(opc) \o <<S("arg", i + 1)>>)
  <2>1. opc.name # "fork" BY <1>2, <1>4, <1>9 DEF TwoWriters
  <2> QED BY <1>6, <1>7, <2>1, WholeConcat
<1> QED BY <1>3, <1>8, <1>9

LEMMA HandlerWhole == Whole(SigbusHandler) /\ Listed(SigbusHandler)
<1>1. Whole(Say(<<"Received SIGBUS">>, "")) /\ Whole(Say(<<"SIGBUS:">>, "")) BY SayWhole
<1>2. Whole(Say(<<"Received SIGBUS">>, "") \o Say(<<"SIGBUS:">>, "")) BY <1>1, WholeConcat
<1>3. Whole((Say(<<"Received SIGBUS">>, "") \o Say(<<"SIGBUS:">>, "")) \o <<S("exit", "1")>>)
  BY <1>2, ExitStep, WholeConcat
<1> QED BY <1>3, WholeIsListed DEF SigbusHandler

LEMMA ForkWhole == Whole(ForkParent) /\ Whole(ForkChild)
<1>1. Whole(Say(<<"forked">>, "")) /\ Whole(Say(<<"child exited">>, "")) BY SayWhole
<1>2. Whole(<<S("wait", "")>>) /\ Mild(S("access", "memread")) /\ Mild(S("pause", "")) BY MildStep
<1>3. Whole(Say(<<"forked">>, "") \o <<S("wait", "")>>) BY <1>1, <1>2, WholeConcat
<1>4. Whole((Say(<<"forked">>, "") \o <<S("wait", "")>>) \o Say(<<"child exited">>, ""))
  BY <1>1, <1>3, WholeConcat
<1>5. Whole(<<S("access", "memread"), S("pause", "")>>) BY <1>2, MildLists
<1> QED BY <1>4, <1>5 DEF ForkParent, ForkChild

LEMMA RwMute == ASSUME NEW how PROVE Mute(RwParent) /\ Mute(RwChild(how))
<1>1. /\ Mild(S("access", "memwrite")) /\ Mild(S("madvise", "hwpoison")) /\ Mild(S("wait", ""))
      /\ Mild(S("exitby", "")) /\ Mild(S("sleep1", "")) /\ Mild(S("pread", "fails"))
      /\ Mild(S("punch", "")) /\ Mild(S("pread", "passes")) /\ Mild(S("mapagain", ""))
  BY MildStep
<1>2. Mute(RwParent) BY <1>1, MildLists DEF RwParent
<1>3. /\ Mute(<<S("sleep1", "")>>)
      /\ Mute(<<S("pread", "fails"), S("punch", ""), S("pread", "passes")>>)
      /\ Mute(<<S("mapagain", ""), S("access", "memwrite")>>)
      /\ Mute(<<S("access", "memwrite")>>)
  BY <1>1, MildLists
<1>4. PICK t : /\ t = (CASE how = "sysrw" -> <<S("pread", "fails"), S("punch", ""), S("pread", "passes")>>
                         [] how = "mmap_again" -> <<S("mapagain", ""), S("access", "memwrite")>>
                         [] OTHER -> <<S("access", "memwrite")>>)
  OBVIOUS
<1>5. Mute(t)
  <2>1. CASE how = "sysrw" BY <1>3, <1>4, <2>1
  <2>2. CASE how = "mmap_again" BY <1>3, <1>4, <2>2
  <2>3. CASE how # "sysrw" /\ how # "mmap_again" BY <1>3, <1>4, <2>3
  <2> QED BY <2>1, <2>2, <2>3
<1>6. RwChild(how) = <<S("sleep1", "")>> \o t BY <1>4 DEF RwChild
<1> QED BY <1>2, <1>3, <1>5, <1>6, MuteConcat

LEMMA MainLists ==
  ASSUME recipe \in Recipes
  PROVE  /\ Listed(main)
         /\ recipe.prog = "hugetlb_1gb" => Whole(main)
         /\ recipe.prog = "hugetlb_fork_rw" => Mute(main)
<1>1. CASE recipe.prog = "hugetlb_1gb"
  <2>1. Whole(<<S("arg", 1)>>) BY ArgStep
  <2> QED BY <1>1, <2>1, WholeIsListed DEF main
<1>2. CASE recipe.prog = "hugetlb_fork_rw"
  <2>1. PICK a, b : a = S("alloc_rw", "") /\ b = S("fork", recipe.ops[1]) OBVIOUS
  <2>2. a.k = "alloc_rw" /\ b.k = "fork" BY <2>1 DEF S
  <2>3. PICK t : t = <<a, b>> OBVIOUS
  <2>4. IsSeq(t) /\ Len(t) = 2 /\ t[1] = a /\ t[2] = b BY <2>3, Tuples
  <2>5. ASSUME NEW i \in 1 .. Len(t) PROVE i = 1 \/ i = 2 BY <2>4
  <2>6. Mute(t) BY <2>2, <2>4, <2>5 DEF Mute, Listed, StepOK
  <2>7. t = main BY <1>2, <2>1, <2>3 DEF main
  <2> QED BY <1>2, <2>6, <2>7 DEF Mute
<1> QED BY <1>1, <1>2, RecipesAssumption
-----------------------------------------------------------------------------
(* One process.                                                            *)

LEMMA NextProc ==
  ASSUME NEW r, IsProc(r), r.st = "alive", r.todo # <<>>
  PROVE  /\ IsProc(Next1(r)) /\ Next1(r).st = "alive" /\ Next1(r).todo = Tail(r.todo)
         /\ Next1(r).at = r.at /\ Next1(r).ret = r.ret /\ Next1(r).flag = r.flag
<1>1. Listed(Tail(r.todo)) BY ListedTail DEF IsProc
<1> QED BY <1>1 DEF IsProc, Next1

LEMMA DiesProc ==
  ASSUME NEW r, IsProc(r), NEW how \in Statuses, how # "alive"
  PROVE  IsProc(Dies(r, how)) /\ Dies(r, how).st = how /\ Dies(r, how).todo = <<>>
<1>1. Listed(<<>>) BY EmptyList, WholeIsListed
<1> QED BY <1>1 DEF IsProc, Dies

LEMMA ListProc ==
  ASSUME NEW r, IsProc(r), r.st = "alive", NEW t, Listed(t)
  PROVE  /\ IsProc([r EXCEPT !.todo = t]) /\ [r EXCEPT !.todo = t].todo = t
         /\ [r EXCEPT !.todo = t].st = "alive" /\ [r EXCEPT !.todo = t].at = r.at
BY DEF IsProc

LEMMA FieldProc ==
  ASSUME NEW r, IsProc(r), NEW v
  PROVE  /\ IsProc([r EXCEPT !.ret = v]) /\ [r EXCEPT !.ret = v].todo = r.todo /\ [r EXCEPT !.ret = v].st = r.st
         /\ IsProc([r EXCEPT !.ghp = v]) /\ [r EXCEPT !.ghp = v].todo = r.todo /\ [r EXCEPT !.ghp = v].st = r.st
         /\ IsProc([r EXCEPT !.flag = v]) /\ [r EXCEPT !.flag = v].todo = r.todo /\ [r EXCEPT !.flag = v].st = r.st
BY DEF IsProc

LEMMA MapProc ==
  ASSUME NEW r, IsProc(r), NEW m \in Mem
  PROVE  /\ IsProc([r EXCEPT !.at[1] = m]) /\ [r EXCEPT !.at[1] = m].todo = r.todo
         /\ [r EXCEPT !.at[1] = m].st = r.st
BY DEF IsProc

LEMMA PoisonedProcs ==
  ASSUME NEW pr, DOMAIN pr = P, \A q \in P : IsProc(pr[q])
  PROVE  /\ DOMAIN Poisoned(pr) = P
         /\ \A q \in P : /\ IsProc(Poisoned(pr)[q]) /\ Poisoned(pr)[q].st = pr[q].st
                         /\ Poisoned(pr)[q].todo = pr[q].todo
<1>1. DOMAIN Poisoned(pr) = P BY DEF Poisoned
<1>2. ASSUME NEW q \in P
      PROVE  /\ IsProc(Poisoned(pr)[q]) /\ Poisoned(pr)[q].st = pr[q].st
             /\ Poisoned(pr)[q].todo = pr[q].todo
  <2>1. PICK a : a = [i \in 1 .. 2 |-> IF pr[q].at[i] = "page" THEN "hw" ELSE pr[q].at[i]] OBVIOUS
  <2>2. Poisoned(pr)[q] = [pr[q] EXCEPT !.at = a] BY <1>2, <2>1 DEF Poisoned
  <2>3. IsProc(pr[q]) BY <1>2
  <2>4. DOMAIN a = 1 .. 2 /\ a[1] \in Mem /\ a[2] \in Mem BY <2>1, <2>3 DEF IsProc, Mem
  <2> QED BY <2>2, <2>3, <2>4 DEF IsProc
<1> QED BY <1>1, <1>2
-----------------------------------------------------------------------------
(* The steps of a process that leave the fifo alone.                       *)

\* What becomes of the list t of a process.
Follows(t, u) ==
  /\ recipe.prog = "hugetlb_1gb" /\ ~TwoWriters /\ Talks(t) => Whole(u)
  /\ recipe.prog = "hugetlb_fork_rw" /\ Mute(t) => Mute(u)

Head0(q) == proc[q].st = "alive" /\ (proc[q].todo # <<>> => Head1(q).k \notin {"open", "write"})
Moves(q) ==
  /\ Head0(q) /\ (At(q, {"nap"}) => slow \/ fifo = <<>>)
  /\ UNCHANGED <<recipe, kernel, slow, rdr, ctl>> /\ page' \in {"ok", "poisoned"}
  /\ DOMAIN proc' = P /\ (\A p \in P : IsProc(proc'[p]))
  /\ \A p \in P : p # q => proc'[p].st = proc[p].st /\ proc'[p].todo = proc[p].todo
  /\ Follows(proc[q].todo, proc'[q].todo)
  /\ fifo' = Keep(fifo, proc', rdr) /\ lost' = (lost \/ fifo # Keep(fifo, proc', rdr))

LEMMA FollowsLists ==
  ASSUME NEW t, Listed(t)
  PROVE  /\ Follows(t, <<>>)
         /\ t # <<>> /\ t[1].k # "open" => Follows(t, Tail(t))
<1>1. Follows(t, <<>>) BY EmptyList DEF Follows
<1>2. ASSUME t # <<>>, t[1].k # "open" PROVE Follows(t, Tail(t))
  BY <1>2, TalksTail, MuteTail DEF Follows
<1> QED BY <1>1, <1>2

LEMMA Install ==
  ASSUME TypeInv, NEW q \in P, NEW r, Becomes(q, r), IsProc(r), Head0(q),
         Follows(proc[q].todo, r.todo), At(q, {"nap"}) => slow \/ fifo = <<>>,
         UNCHANGED <<recipe, kernel, slow, rdr, ctl>>, page' \in {"ok", "poisoned"}
  PROVE  Moves(q)
<1>1. DOMAIN proc = P /\ \A p \in P : IsProc(proc[p]) BY DEF TypeInv
<1>2. PICK pr : pr = [proc EXCEPT ![q] = r] OBVIOUS
<1>3. /\ proc' = pr /\ fifo' = Keep(fifo, pr, rdr) /\ lost' = (lost \/ fifo # Keep(fifo, pr, rdr))
  BY <1>2 DEF Becomes, Settle
<1>4. DOMAIN proc' = P /\ proc'[q] = r /\ \A p \in P : p # q => proc'[p] = proc[p]
  BY <1>1, <1>2, <1>3
<1>5. \A p \in P : IsProc(proc'[p]) BY <1>1, <1>4
<1>6. \A p \in P : p # q => proc'[p].st = proc[p].st /\ proc'[p].todo = proc[p].todo BY <1>4
<1>7. Follows(proc[q].todo, proc'[q].todo) BY <1>4
<1>8. fifo' = Keep(fifo, proc', rdr) /\ lost' = (lost \/ fifo # Keep(fifo, proc', rdr)) BY <1>3
<1> QED BY <1>4, <1>5, <1>6, <1>7, <1>8 DEF Moves

\* A process at a step that is neither open nor write.
LEMMA AtFacts ==
  ASSUME TypeInv, NEW q \in P, NEW ks, At(q, ks)
  PROVE  /\ IsProc(proc[q]) /\ proc[q].st = "alive" /\ proc[q].todo # <<>>
         /\ Listed(proc[q].todo) /\ IsSeq(proc[q].todo) /\ Head1(q) = proc[q].todo[1] /\ Head1(q).k \in ks
         /\ "open" \notin ks /\ "write" \notin ks =>
              Head0(q) /\ Follows(proc[q].todo, Tail(proc[q].todo))
<1>1. IsProc(proc[q]) /\ proc[q].st = "alive" /\ proc[q].todo # <<>> /\ Head1(q).k \in ks
  BY DEF TypeInv, At
<1>2. Listed(proc[q].todo) /\ IsSeq(proc[q].todo) BY <1>1 DEF IsProc, Listed
<1>3. Head1(q) = proc[q].todo[1] BY <1>1, <1>2, SeqFacts DEF Head1
<1>4. ASSUME "open" \notin ks, "write" \notin ks
      PROVE  Head0(q) /\ Follows(proc[q].todo, Tail(proc[q].todo))
  <2>1. Head1(q).k # "open" /\ Head1(q).k # "write" BY <1>1, <1>4
  <2> QED BY <1>1, <1>2, <1>3, <2>1, FollowsLists DEF Head0
<1> QED BY <1>1, <1>2, <1>3, <1>4

LEMMA AllocateMoves == ASSUME IInv, NEW q \in P, Allocate(q) PROVE Moves(q)
<1> DEFINE r == proc[q]
           k == Head1(q).k
<1>1. TypeInv /\ At(q, {"allocate", "alloc_rw", "alloc_it"}) BY DEF IInv, Allocate
<1>2. /\ IsProc(r) /\ r.st = "alive" /\ r.todo # <<>> /\ Listed(r.todo) /\ IsSeq(r.todo)
      /\ k \in {"allocate", "alloc_rw", "alloc_it"} /\ Head1(q) = r.todo[1]
      /\ Head0(q) /\ Follows(r.todo, Tail(r.todo))
  BY <1>1, AtFacts
<1>3. IsProc(Next1(r)) /\ Next1(r).todo = Tail(r.todo) BY <1>2, NextProc
<1>4. UNCHANGED <<recipe, kernel, slow, rdr, ctl>> /\ page' \in {"ok", "poisoned"}
  BY <1>1 DEF Allocate, TypeInv, env
<1>5. At(q, {"nap"}) => slow \/ fifo = <<>> BY <1>2 DEF At
<1>6. CASE k = "alloc_rw" /\ Becomes(q, Dies(r, "255"))
  <2>1. Becomes(q, Dies(r, "255")) BY <1>6
  <2>2. IsProc(Dies(r, "255")) /\ Dies(r, "255").todo = <<>> BY <1>2, DiesProc DEF Statuses
  <2> QED BY <1>1, <1>2, <1>4, <1>5, <2>1, <2>2, FollowsLists, Install
<1>7. CASE Faulty("alloc") /\ k = "alloc_it"
  <2> DEFINE u == SubSeq(r.todo, 5, Len(r.todo))
             x == [r EXCEPT !.ghp = FALSE, !.todo = u]
  <2>1. Becomes(q, x) BY <1>7 DEF Allocate
  <2>2. Listed(u) /\ Follows(r.todo, u)
    <3>1. CASE Len(r.todo) >= 4
      <4>1. Listed(u) BY <1>2, <3>1, ListedSub
      <4>2. Mute(r.todo) => Mute(u) BY <3>1, MuteSub
      <4>3. Talks(r.todo) => Whole(u) BY <1>2, <1>7, WholeSub
      <4> QED BY <4>1, <4>2, <4>3 DEF Follows
    <3>2. CASE ~(Len(r.todo) >= 4)
      <4>1. Len(r.todo) \in Nat /\ Len(r.todo) < 5 BY <1>2, <3>2, SeqFacts
      <4>2. u = <<>> BY <4>1, SubSeqEmpty
      <4> QED BY <1>2, <4>2, EmptyList, WholeIsListed, FollowsLists
    <3> QED BY <3>1, <3>2
  <2> HIDE DEF u
  <2>3. IsProc(x) /\ x.todo = u BY <1>2, <2>2 DEF IsProc
  <2> QED BY <1>1, <1>2, <1>4, <1>5, <2>1, <2>2, <2>3, Install
<1>8. CASE Becomes(q, [Next1(r) EXCEPT !.ghp = FALSE, !.ret = "1"])
  <2> DEFINE x == [Next1(r) EXCEPT !.ghp = FALSE, !.ret = "1"]
  <2>1. Becomes(q, x) BY <1>8
  <2>2. IsProc(x) /\ x.todo = Tail(r.todo) BY <1>3 DEF IsProc
  <2> QED BY <1>1, <1>2, <1>4, <1>5, <2>1, <2>2, Install
<1>9. CASE ~Faulty("alloc")
  <2> DEFINE x == [Next1(r) EXCEPT !.ghp = TRUE, !.at[1] = "lazy", !.ret = "0"]
  <2>1. Becomes(q, x) BY <1>9 DEF Allocate
  <2>2. IsProc(x) /\ x.todo = Tail(r.todo)
    <3>1. PICK n : n = Next1(r) OBVIOUS
    <3>2. PICK a : a = [n.at EXCEPT ![1] = "lazy"] OBVIOUS
    <3>3. DOMAIN a = 1 .. 2 /\ a[1] = "lazy" /\ a[2] \in Mem BY <1>3, <3>1, <3>2 DEF IsProc
    <3>4. x = [n EXCEPT !.ghp = TRUE, !.at = a, !.ret = "0"] BY <3>1, <3>2, <1>3 DEF IsProc
    <3> QED BY <1>3, <3>1, <3>3, <3>4 DEF IsProc, Mem
  <2> QED BY <1>1, <1>2, <1>4, <1>5, <2>1, <2>2, Install
<1> QED BY <1>2, <1>6, <1>7, <1>8, <1>9 DEF Allocate

LEMMA NextArgMoves == ASSUME IInv, NEW q \in P, NextArg(q) PROVE Moves(q)
<1> DEFINE r == proc[q]
           i == Head1(q).a
           u == Code(parse_operation_args(recipe.ops[i])) \o <<S("arg", i + 1)>>
<1>1. TypeInv /\ RwInv /\ At(q, {"arg"}) BY DEF IInv, NextArg
<1>2. /\ IsProc(r) /\ r.st = "alive" /\ r.todo # <<>> /\ Listed(r.todo) /\ IsSeq(r.todo)
      /\ Head1(q).k = "arg" /\ Head1(q) = r.todo[1] /\ Head0(q)
  BY <1>1, AtFacts
<1>3. 1 \in 1 .. Len(r.todo) BY <1>2, SeqFacts
<1>4. i \in Nat /\ i >= 1 BY <1>2, <1>3 DEF Listed, StepOK
<1>5. recipe \in Recipes BY <1>1 DEF TypeInv, IsEnv
<1>6. recipe.prog = "hugetlb_1gb" /\ Len(recipe.ops) \in Nat
  <2>1. recipe.prog # "hugetlb_fork_rw"
    <3>1. SUFFICES ASSUME Mute(r.todo) PROVE FALSE BY <1>1 DEF RwInv, P
    <3> QED BY <1>2, <1>3, <3>1 DEF Mute
  <2> QED BY <1>5, <2>1, RecipesAssumption
<1>7. PICK t : t = IF i > Len(recipe.ops) THEN <<>> ELSE u OBVIOUS
<1>8. Listed(t) /\ Follows(r.todo, t)
  <2>1. CASE i > Len(recipe.ops)
    <3>1. t = <<>> BY <1>7, <2>1
    <3> QED BY <1>2, <3>1, FollowsLists, EmptyList, WholeIsListed
  <2>2. CASE i <= Len(recipe.ops)
    <3>1. t = u BY <1>4, <1>6, <1>7, <2>2
    <3>2. Listed(u) /\ (~TwoWriters => Whole(u)) BY <1>4, <1>5, <1>6, <2>2, ArgCode
    <3> QED BY <1>6, <3>1, <3>2 DEF Follows
  <2> QED BY <1>4, <1>6, <2>1, <2>2
<1>9. IsProc([r EXCEPT !.todo = t]) /\ [r EXCEPT !.todo = t].todo = t BY <1>2, <1>8, ListProc
<1>10. Becomes(q, [r EXCEPT !.todo = t]) BY <1>7 DEF NextArg, Local
<1>11. UNCHANGED <<recipe, kernel, slow, rdr, ctl>> /\ page' \in {"ok", "poisoned"}
  BY <1>1 DEF NextArg, Local, TypeInv, env
<1>12. At(q, {"nap"}) => slow \/ fifo = <<>> BY <1>2 DEF At
<1> QED BY <1>1, <1>2, <1>8, <1>9, <1>10, <1>11, <1>12, Install

LEMMA LocalMoves ==
  ASSUME IInv, NEW q \in P, NEW ks, At(q, ks), "open" \notin ks, "write" \notin ks,
         At(q, {"nap"}) => slow \/ fifo = <<>>,
         NEW r, Local(q, r), IsProc(r), Follows(proc[q].todo, r.todo)
  PROVE  Moves(q)
<1>1. TypeInv BY DEF IInv
<1>2. Head0(q) BY <1>1, AtFacts
<1>3. Becomes(q, r) /\ UNCHANGED <<recipe, kernel, slow, rdr, ctl>> /\ page' \in {"ok", "poisoned"}
  BY <1>1 DEF Local, TypeInv, env
<1> QED BY <1>1, <1>2, <1>3, Install

LEMMA TouchProc ==
  ASSUME IInv, NEW q \in P, At(q, {"access"})
  PROVE  IsProc(Touch(proc[q])) /\ Follows(proc[q].todo, Touch(proc[q]).todo)
<1> DEFINE r == proc[q]
<1>1. TypeInv BY DEF IInv
<1>2. /\ IsProc(r) /\ r.st = "alive" /\ r.todo # <<>> /\ Listed(r.todo)
      /\ Follows(r.todo, Tail(r.todo)) /\ Follows(r.todo, <<>>)
  BY <1>1, AtFacts, FollowsLists
<1>3. \A how \in {"SIGSEGV", "SIGBUS"} : IsProc(Dies(r, how)) /\ Dies(r, how).todo = <<>>
  BY <1>2, DiesProc DEF Statuses, Signals
<1>4. CASE Touch(r) = Dies(r, "SIGSEGV") BY <1>2, <1>3, <1>4
<1>5. CASE Touch(r) = Sigbus(r)
  <2>1. CASE recipe.prog = "hugetlb_1gb"
    <3>1. PICK t : t = SigbusHandler OBVIOUS
    <3>2. Whole(t) /\ Listed(t) BY <3>1, HandlerWhole
    <3>3. IsProc([r EXCEPT !.todo = t]) /\ [r EXCEPT !.todo = t].todo = t BY <1>2, <3>2, ListProc
    <3>4. Sigbus(r) = [r EXCEPT !.todo = t] BY <2>1, <3>1 DEF Sigbus
    <3>5. Follows(r.todo, t) BY <2>1, <3>2 DEF Follows
    <3> QED BY <1>5, <3>3, <3>4, <3>5
  <2>2. CASE recipe.prog # "hugetlb_1gb"
    <3>1. Sigbus(r) = Dies(r, "SIGBUS") BY <2>2 DEF Sigbus
    <3> QED BY <1>2, <1>3, <1>5, <3>1
  <2> QED BY <2>1, <2>2
<1>6. CASE Touch(r) = [Next1(r) EXCEPT !.at[1] = IF @ = "lazy" THEN "page" ELSE @, !.ret = "0"]
  <2>1. PICK n : n = Next1(r) OBVIOUS
  <2>2. IsProc(n) /\ n.todo = Tail(r.todo) BY <1>2, <2>1, NextProc
  <2>3. PICK a : a = [n.at EXCEPT ![1] = IF @ = "lazy" THEN "page" ELSE @] OBVIOUS
  <2>4. DOMAIN a = 1 .. 2 /\ a[1] \in Mem /\ a[2] \in Mem BY <2>2, <2>3 DEF IsProc, Mem
  <2>5. Touch(r) = [n EXCEPT !.at = a, !.ret = "0"] BY <1>6, <2>1, <2>2, <2>3 DEF IsProc
  <2>6. IsProc(Touch(r)) /\ Touch(r).todo = Tail(r.todo) BY <2>2, <2>4, <2>5 DEF IsProc
  <2> QED BY <1>2, <2>6
<1> QED BY <1>4, <1>5, <1>6 DEF Touch

LEMMA AccessMoves == ASSUME IInv, NEW q \in P, Access(q) PROVE Moves(q)
<1>1. At(q, {"access"}) /\ Local(q, Touch(proc[q])) BY DEF Access
<1>2. IsProc(Touch(proc[q])) /\ Follows(proc[q].todo, Touch(proc[q]).todo) BY <1>1, TouchProc
<1>3. ~At(q, {"nap"}) BY <1>1 DEF At
<1> QED BY <1>1, <1>2, <1>3, LocalMoves

LEMMA MremapMoves == ASSUME IInv, NEW q \in P, Mremap(q) PROVE Moves(q)
<1> DEFINE r == proc[q]
<1>1. PICK m : m = IF r.at[1] = "hw" /\ Faulty("mremap") THEN "lazy" ELSE r.at[1] OBVIOUS
<1>2. PICK a : a = <<"none", m>> OBVIOUS
<1>3. TypeInv /\ At(q, {"mremap"}) BY DEF IInv, Mremap
<1>4. /\ IsProc(r) /\ r.st = "alive" /\ r.todo # <<>> /\ Follows(r.todo, Tail(r.todo))
  BY <1>3, AtFacts
<1>5. PICK n : n = Next1(r) OBVIOUS
<1>6. IsProc(n) /\ n.todo = Tail(r.todo) BY <1>4, <1>5, NextProc
<1>7. m \in Mem BY <1>1, <1>4 DEF IsProc, Mem
<1>8. DOMAIN a = 1 .. 2 /\ a[1] \in Mem /\ a[2] \in Mem BY <1>2, <1>7 DEF Mem
<1>9. PICK x : x = [n EXCEPT !.ret = "0", !.at = a] OBVIOUS
<1>10. IsProc(x) /\ x.todo = Tail(r.todo) BY <1>6, <1>8, <1>9 DEF IsProc
<1>11. Local(q, x) BY <1>1, <1>2, <1>5, <1>9 DEF Mremap
<1>12. ~At(q, {"nap"}) BY <1>3 DEF At
<1> QED BY <1>3, <1>4, <1>10, <1>11, <1>12, LocalMoves

LEMMA MadviseMoves == ASSUME IInv, NEW q \in P, Madvise(q) PROVE Moves(q)
<1> DEFINE r == proc[q]
           how == Head1(q).a
<1>1. TypeInv /\ At(q, {"madvise"}) BY DEF IInv, Madvise
<1>2. /\ IsProc(r) /\ r.st = "alive" /\ r.todo # <<>> /\ Follows(r.todo, Tail(r.todo)) /\ Head0(q)
  BY <1>1, AtFacts
<1>3. PICK n : n = Next1(r) OBVIOUS
<1>4. IsProc(n) /\ n.todo = Tail(r.todo) BY <1>2, <1>3, NextProc
<1>5. UNCHANGED <<recipe, kernel, slow, rdr, ctl>> /\ page \in {"ok", "poisoned"}
  BY <1>1 DEF Madvise, TypeInv, env
<1>6. ~At(q, {"nap"}) BY <1>1 DEF At
<1>7. \A v : IsProc([n EXCEPT !.ret = v]) /\ [n EXCEPT !.ret = v].todo = n.todo
             /\ [n EXCEPT !.ret = v].st = n.st
  BY <1>4, FieldProc
<1>8. CASE how = "dontneed"
  <2>1. PICK a : a = [n.at EXCEPT ![1] = IF Faulty("dontneed") THEN @ ELSE "lazy"] OBVIOUS
  <2>2. DOMAIN a = 1 .. 2 /\ a[1] \in Mem /\ a[2] \in Mem BY <1>4, <2>1 DEF IsProc, Mem
  <2>3. PICK x : x = [n EXCEPT !.ret = "0", !.at[1] = IF Faulty("dontneed") THEN @ ELSE "lazy"]
    OBVIOUS
  <2>4. x = [n EXCEPT !.ret = "0", !.at = a] BY <1>4, <2>1, <2>3 DEF IsProc
  <2>5. IsProc(x) /\ x.todo = Tail(r.todo) BY <1>4, <2>2, <2>4 DEF IsProc
  <2>6. Becomes(q, x) /\ page' = page BY <1>3, <1>8, <2>3 DEF Madvise
  <2> QED BY <1>1, <1>2, <1>5, <1>6, <2>5, <2>6, Install
<1>9. CASE how # "dontneed" /\ Faulty("inject")
  <2>1. Becomes(q, [n EXCEPT !.ret = "-1"]) /\ page' = page BY <1>3, <1>9 DEF Madvise
  <2> QED BY <1>1, <1>2, <1>4, <1>5, <1>6, <1>7, <2>1, Install
<1>10. CASE how \notin {"dontneed", "hwpoison"} /\ ~Faulty("inject")
  <2>1. Becomes(q, [n EXCEPT !.ret = "0"]) /\ page' = page BY <1>3, <1>10 DEF Madvise
  <2> QED BY <1>1, <1>2, <1>4, <1>5, <1>6, <1>7, <2>1, Install
<1>11. CASE how = "hwpoison" /\ ~Faulty("inject")
  <2>1. PICK x : x = [n EXCEPT !.ret = "0"] OBVIOUS
  <2>2. IsProc(x) /\ x.todo = Tail(r.todo) BY <1>4, <1>7, <2>1
  <2>3. PICK pr : pr = [proc EXCEPT ![q] = x] OBVIOUS
  <2>4. PICK po : po = Poisoned(pr) OBVIOUS
  <2>5. Settle(po) /\ page' = "poisoned" BY <1>3, <1>11, <2>1, <2>3, <2>4 DEF Madvise
  <2>6. DOMAIN proc = P /\ \A p \in P : IsProc(proc[p]) BY <1>1 DEF TypeInv
  <2>7. DOMAIN pr = P /\ pr[q] = x /\ \A p \in P : p # q => pr[p] = proc[p] BY <2>3, <2>6
  <2>8. \A p \in P : IsProc(pr[p]) BY <2>2, <2>6, <2>7
  <2>9. /\ DOMAIN po = P
        /\ \A p \in P : IsProc(po[p]) /\ po[p].st = pr[p].st /\ po[p].todo = pr[p].todo
    BY <2>4, <2>7, <2>8, PoisonedProcs
  <2>10. /\ proc' = po /\ fifo' = Keep(fifo, proc', rdr)
         /\ lost' = (lost \/ fifo # Keep(fifo, proc', rdr))
    BY <2>5 DEF Settle
  <2>11. \A p \in P : p # q => proc'[p].st = proc[p].st /\ proc'[p].todo = proc[p].todo
    BY <2>7, <2>9, <2>10
  <2>12. Follows(r.todo, proc'[q].todo) BY <1>2, <2>2, <2>7, <2>9, <2>10
  <2>13. DOMAIN proc' = P /\ (\A p \in P : IsProc(proc'[p])) BY <2>9, <2>10
  <2> QED BY <1>2, <1>5, <1>6, <2>5, <2>10, <2>11, <2>12, <2>13 DEF Moves
<1> QED BY <1>8, <1>9, <1>10, <1>11

LEMMA IterateMoves == ASSUME IInv, NEW q \in P, Iterate(q) PROVE Moves(q)
<1> DEFINE r == proc[q]
<1>1. TypeInv /\ At(q, {"iterate"}) BY DEF IInv, Iterate
<1>2. /\ IsProc(r) /\ r.st = "alive" /\ r.todo # <<>> /\ Listed(r.todo) /\ IsSeq(r.todo)
      /\ Follows(r.todo, Tail(r.todo)) /\ Head1(q) = r.todo[1] /\ Head1(q).k = "iterate"
  BY <1>1, AtFacts
<1>3. ~At(q, {"nap"}) BY <1>1 DEF At
<1>4. CASE ~r.flag
  <2>1. Local(q, Next1(r)) BY <1>4 DEF Iterate
  <2>2. IsProc(Next1(r)) /\ Next1(r).todo = Tail(r.todo) BY <1>2, NextProc
  <2> QED BY <1>1, <1>2, <1>3, <2>1, <2>2, LocalMoves
<1>5. CASE r.flag
  <2>1. PICK a, b, c : a = S("alloc_it", "") /\ b = S("access", "memwrite") /\ c = S("munmap", "")
    OBVIOUS
  <2>2. a.k = "alloc_it" /\ b.k = "access" /\ c.k = "munmap" BY <2>1 DEF S
  <2>3. PICK s : s = <<a, b, c>> OBVIOUS
  <2>4. IsSeq(s) /\ Len(s) = 3 /\ s[1] = a /\ s[2] = b /\ s[3] = c BY <2>3, Tuples
  <2>5. PICK u : u = s \o r.todo OBVIOUS
  <2>6. PICK n \in Nat : n = Len(r.todo) /\ n >= 1 BY <1>2, SeqFacts
  <2>7. /\ IsSeq(u) /\ Len(u) = 3 + n /\ u[1] = a /\ u[2] = b /\ u[3] = c
        /\ \A i \in 4 .. 3 + n : u[i] = r.todo[i - 3]
    <3>1. PICK t : t = r.todo OBVIOUS
    <3>2. IsSeq(t) /\ u = s \o t BY <1>2, <2>5, <3>1
    <3>3. /\ IsSeq(u) /\ Len(u) = Len(s) + Len(t)
          /\ \A i \in 1 .. Len(s) : u[i] = s[i]
          /\ \A i \in Len(s) + 1 .. Len(s) + Len(t) : u[i] = t[i - Len(s)]
      BY <2>4, <3>2, ConcatFacts
    <3> QED BY <2>4, <2>6, <3>1, <3>3
  <2>8. ASSUME NEW i \in 1 .. Len(u)
        PROVE  \/ i = 1 /\ u[i].k = "alloc_it"
               \/ i = 2 /\ u[i].k = "access"
               \/ i = 3 /\ u[i].k = "munmap"
               \/ i >= 4 /\ i - 3 \in 1 .. n /\ u[i] = r.todo[i - 3]
    BY <2>2, <2>6, <2>7, <2>8
  <2>9. Listed(u) BY <1>2, <2>6, <2>7, <2>8 DEF Listed, StepOK
  <2>10. Mute(r.todo) => Mute(u) BY <2>6, <2>8, <2>9 DEF Mute
  <2>11. ASSUME Talks(r.todo) PROVE Whole(u)
    <3>1. u[4] = r.todo[1] /\ u[4].k = "iterate" BY <1>2, <2>6, <2>7
    <3>2. ASSUME NEW i \in 1 .. Len(u)
          PROVE  /\ u[i].k # "fork"
                 /\ u[i].k = "open" => i < Len(u) /\ u[i + 1].k = "write"
                 /\ u[i].k = "write" => i < Len(u) /\ u[i + 1].k = "nap" /\ (i > 1 => u[i - 1].k = "open")
                 /\ u[i].k = "alloc_it" => i + 3 <= Len(u) /\ u[i + 3].k # "open"
      <4>1. CASE i = 1 BY <2>2, <2>6, <2>7, <3>1, <4>1
      <4>2. CASE i = 2 \/ i = 3 BY <2>2, <2>7, <4>2
      <4>3. CASE i = 4 BY <3>1, <4>3
      <4>4. CASE i > 4
        <5> DEFINE j == i - 3
        <5>1. j \in 2 .. n /\ u[i] = r.todo[j] BY <2>6, <2>7, <3>2, <4>4
        <5>2. j < n => i < Len(u) /\ u[i + 1] = r.todo[j + 1] BY <2>6, <2>7, <3>2, <4>4
        <5>3. u[i - 1] = r.todo[j - 1]
          <6>1. i - 1 \in 4 .. 3 + n /\ (i - 1) - 3 = j - 1 BY <2>6, <2>7, <3>2, <4>4
          <6> QED BY <2>7, <6>1
        <5>4. j + 3 <= n => i + 3 <= Len(u) /\ u[i + 3] = r.todo[j + 3] BY <2>6, <2>7, <3>2, <4>4
        <5> HIDE DEF j
        <5>5. j \in 1 .. n /\ j > 1 BY <2>6, <5>1
        <5>6. /\ r.todo[j].k # "fork"
              /\ r.todo[j].k = "open" => j < n /\ r.todo[j + 1].k = "write"
              /\ r.todo[j].k = "write" => j < n /\ r.todo[j + 1].k = "nap" /\ r.todo[j - 1].k = "open"
              /\ r.todo[j].k = "alloc_it" => j + 3 <= n /\ r.todo[j + 3].k # "open"
          BY <2>6, <2>11, <5>5 DEF Talks
        <5> QED BY <5>1, <5>2, <5>3, <5>4, <5>6
      <4> QED BY <2>6, <2>7, <3>2, <4>1, <4>2, <4>3, <4>4
    <3>3. Talks(u) BY <2>9, <3>2 DEF Talks
    <3> QED BY <2>2, <2>7, <3>3 DEF Whole
  <2>12. Follows(r.todo, u) BY <2>10, <2>11 DEF Follows
  <2>13. IsProc([r EXCEPT !.todo = u]) /\ [r EXCEPT !.todo = u].todo = u BY <1>2, <2>9, ListProc
  <2>14. Local(q, [r EXCEPT !.todo = u]) BY <1>5, <2>1, <2>3, <2>5 DEF Iterate
  <2> QED BY <1>1, <1>3, <2>12, <2>13, <2>14, LocalMoves
<1> QED BY <1>4, <1>5

LEMMA MunmapMoves == ASSUME IInv, NEW q \in P, Munmap(q) PROVE Moves(q)
<1> DEFINE r == proc[q]
<1>1. TypeInv /\ At(q, {"munmap"}) BY DEF IInv, Munmap
<1>2. /\ IsProc(r) /\ r.st = "alive" /\ r.todo # <<>> /\ Follows(r.todo, Tail(r.todo)) /\ Head0(q)
  BY <1>1, AtFacts
<1>3. PICK n : n = Next1(r) OBVIOUS
<1>4. IsProc(n) /\ n.todo = Tail(r.todo) BY <1>2, <1>3, NextProc
<1>5. PICK x : x = [n EXCEPT !.at[1] = "none"] OBVIOUS
<1>6. IsProc(x) /\ x.todo = n.todo BY <1>4, <1>5, MapProc DEF Mem
<1>7. Becomes(q, x) /\ UNCHANGED <<recipe, kernel, slow, rdr, ctl>> BY <1>3, <1>5 DEF Munmap, env
<1>8. page' \in {"ok", "poisoned"} BY <1>1 DEF Munmap, TypeInv
<1>9. ~At(q, {"nap"}) BY <1>1 DEF At
<1> QED BY <1>1, <1>2, <1>4, <1>6, <1>7, <1>8, <1>9, Install

\* wait() and the second of hugetlb_fork_rw: the next step, and nothing else.
LEMMA NextMoves == ASSUME IInv, NEW q \in P, WaitChild(q) \/ Sleep1(q) PROVE Moves(q)
<1> DEFINE r == proc[q]
<1>1. TypeInv /\ At(q, {"wait", "sleep1"}) /\ Local(q, Next1(r)) BY DEF IInv, WaitChild, Sleep1, At
<1>2. /\ IsProc(r) /\ r.st = "alive" /\ r.todo # <<>> /\ Follows(r.todo, Tail(r.todo))
  BY <1>1, AtFacts
<1>3. IsProc(Next1(r)) /\ Next1(r).todo = Tail(r.todo) BY <1>2, NextProc
<1>4. ~At(q, {"nap"}) BY <1>1 DEF At
<1> QED BY <1>1, <1>2, <1>3, <1>4, LocalMoves

LEMMA ExitMoves == ASSUME IInv, NEW q \in P, Exit(q) PROVE Moves(q)
<1> DEFINE r == proc[q]
<1>1. TypeInv /\ r.st = "alive" BY DEF IInv, Exit
<1>2. IsProc(r) /\ Listed(r.todo) /\ Follows(r.todo, <<>>) BY <1>1, FollowsLists DEF TypeInv, IsProc
<1>3. PICK how \in Statuses \ {"alive"} :
        /\ Local(q, Dies(r, how))
        /\ r.todo = <<>> \/ At(q, {"exit", "exitby"})
  <2>1. CASE r.todo = <<>> /\ Local(q, Dies(r, "0")) BY <2>1 DEF Statuses
  <2>2. CASE At(q, {"exit"}) /\ Local(q, Dies(r, Head1(q).a))
    <3>1. r.todo # <<>> /\ IsSeq(r.todo) /\ Head1(q) = r.todo[1] /\ Head1(q).k = "exit"
      BY <1>1, <2>2, AtFacts
    <3>2. 1 \in 1 .. Len(r.todo) BY <3>1, SeqFacts
    <3>3. Head1(q).a = "1" BY <1>2, <3>1, <3>2 DEF Listed, StepOK
    <3>4. At(q, {"exit", "exitby"}) BY <2>2 DEF At
    <3> QED BY <2>2, <3>3, <3>4 DEF Statuses
  <2>3. CASE At(q, {"exitby"}) /\ Local(q, Dies(r, StatusOf(proc[1].st)))
    <3>1. StatusOf(proc[1].st) \in Statuses \ {"alive"} BY DEF StatusOf, Statuses
    <3>2. At(q, {"exit", "exitby"}) BY <2>3 DEF At
    <3> QED BY <2>3, <3>1, <3>2
  <2> QED BY <2>1, <2>2, <2>3 DEF Exit
<1>4. IsProc(Dies(r, how)) /\ Dies(r, how).todo = <<>> BY <1>2, <1>3, DiesProc
<1>5. Becomes(q, Dies(r, how)) /\ UNCHANGED <<recipe, kernel, slow, rdr, ctl>> /\ page' \in {"ok", "poisoned"}
  BY <1>1, <1>3 DEF Local, TypeInv, env
<1>6. Head0(q) /\ ~At(q, {"nap"}) BY <1>1, <1>3 DEF Head0, At
<1> QED BY <1>1, <1>2, <1>4, <1>5, <1>6, Install

LEMMA ChildRwMoves == ASSUME IInv, NEW q \in P, ChildRw(q) PROVE Moves(q)
<1> DEFINE r == proc[q]
<1>1. TypeInv /\ At(q, {"pread", "punch", "mapagain"}) BY DEF IInv, ChildRw
<1>2. /\ IsProc(r) /\ r.st = "alive" /\ r.todo # <<>> /\ Listed(r.todo) /\ Head0(q)
      /\ Follows(r.todo, Tail(r.todo)) /\ Follows(r.todo, <<>>)
  BY <1>1, AtFacts, FollowsLists
<1>3. PICK n : n = Next1(r) OBVIOUS
<1>4. IsProc(n) /\ n.todo = Tail(r.todo) BY <1>2, <1>3, NextProc
<1>5. PICK m : m = [n EXCEPT !.at[1] = "lazy", !.ghp = TRUE] OBVIOUS
<1>6. IsProc(m) /\ m.todo = Tail(r.todo)
  <2>1. PICK l : l = [n EXCEPT !.at[1] = "lazy"] OBVIOUS
  <2>2. IsProc(l) /\ l.todo = Tail(r.todo) BY <1>4, <2>1, MapProc DEF Mem
  <2> QED BY <1>5, <2>1, <2>2 DEF IsProc
<1>7. PICK d : d = Dies(r, "255") OBVIOUS
<1>8. IsProc(d) /\ d.todo = <<>> BY <1>2, <1>7, DiesProc DEF Statuses
<1>9. PICK x \in {n, m, d} : Becomes(q, x) BY <1>3, <1>5, <1>7 DEF ChildRw
<1>10. IsProc(x) /\ Follows(r.todo, x.todo) BY <1>2, <1>4, <1>6, <1>8, <1>9
<1>11. UNCHANGED <<recipe, kernel, slow, rdr, ctl>> BY DEF ChildRw, env
<1>12. page' \in {"ok", "poisoned"} BY <1>1 DEF ChildRw, TypeInv
<1>13. ~At(q, {"nap"}) BY <1>1 DEF At
<1> QED BY <1>1, <1>2, <1>9, <1>10, <1>11, <1>12, <1>13, Install

LEMMA PlainMoves == ASSUME IInv, NEW q \in P, Plain(q) PROVE Moves(q)
<1> DEFINE r == proc[q]
           h == Head1(q)
<1>1. TypeInv /\ RwInv /\ At(q, {"flag", "ret", "nap", "returned"}) BY DEF IInv, Plain
<1>2. /\ IsProc(r) /\ r.st = "alive" /\ r.todo # <<>> /\ Listed(r.todo) /\ IsSeq(r.todo)
      /\ h = r.todo[1] /\ h.k \in {"flag", "ret", "nap", "returned"}
      /\ Follows(r.todo, Tail(r.todo)) /\ Listed(Tail(r.todo))
  BY <1>1, AtFacts, ListedTail
<1>3. PICK n : n = Next1(r) OBVIOUS
<1>4. IsProc(n) /\ n.todo = Tail(r.todo) /\ n.st = "alive" BY <1>2, <1>3, NextProc
<1>5. At(q, {"nap"}) => slow \/ fifo = <<>> BY DEF Plain
<1>6. CASE h.k \in {"flag", "ret", "nap"}
  <2>1. PICK x \in {n, [n EXCEPT !.flag = h.a], [n EXCEPT !.ret = h.a]} : Local(q, x)
    BY <1>3, <1>6 DEF Plain
  <2>2. IsProc(x) /\ x.todo = n.todo
    <3>1. PICK v : v = h.a OBVIOUS
    <3>2. /\ IsProc([n EXCEPT !.ret = v]) /\ [n EXCEPT !.ret = v].todo = n.todo
          /\ IsProc([n EXCEPT !.flag = v]) /\ [n EXCEPT !.flag = v].todo = n.todo
      BY <1>4, FieldProc
    <3>3. x = n \/ x = [n EXCEPT !.flag = v] \/ x = [n EXCEPT !.ret = v] BY <2>1, <3>1
    <3> QED BY <1>4, <3>2, <3>3
  <2> QED BY <1>1, <1>2, <1>4, <1>5, <2>1, <2>2, LocalMoves
<1>7. CASE h.k = "returned"
  <2>1. PICK s : s = Say(h.a, n.ret) OBVIOUS
  <2>2. Whole(s) /\ Listed(s) BY <2>1, SayWhole, WholeIsListed
  <2>3. PICK u : u = s \o n.todo OBVIOUS
  <2>4. Listed(u) BY <1>2, <1>4, <2>2, <2>3, ListedConcat
  <2>5. IsProc([n EXCEPT !.todo = u]) /\ [n EXCEPT !.todo = u].todo = u BY <1>4, <2>4, ListProc
  <2>6. Local(q, [n EXCEPT !.todo = u]) BY <1>3, <1>7, <2>1, <2>3 DEF Plain
  <2>7. Follows(r.todo, u)
    <3>1. ASSUME Talks(r.todo) PROVE Whole(u)
      <4>1. Whole(n.todo) BY <1>2, <1>4, <1>7, <3>1, TalksTail
      <4> QED BY <2>2, <2>3, <4>1, WholeConcat
    <3>2. ASSUME recipe.prog = "hugetlb_fork_rw", Mute(r.todo) PROVE Mute(u)
      <4>1. Mute(n.todo) BY <1>2, <1>4, <3>2, MuteTail
      <4>2. ~recipe.pipe BY <1>1, <3>2, RecipesAssumption DEF TypeInv, IsEnv
      <4>3. Mute(s) BY <2>1, <4>2, SayMute, EmptyList
      <4> QED BY <2>3, <4>1, <4>3, MuteConcat
    <3> QED BY <3>1, <3>2 DEF Follows
  <2> QED BY <1>1, <1>5, <2>5, <2>6, <2>7, LocalMoves
<1> QED BY <1>2, <1>6, <1>7

(* The invariant and the steps of the processes.                           *)

LEMMA SettledType ==
  ASSUME TypeInv, UNCHANGED <<recipe, kernel, slow, rdr, ctl>>, page' \in {"ok", "poisoned"},
         DOMAIN proc' = P, \A p \in P : IsProc(proc'[p]),
         fifo' = Keep(fifo, proc', rdr), lost' \in BOOLEAN
  PROVE  TypeInv'
<1>1. ASSUME fifo' # <<>> PROVE rdr' \/ Opened(proc)'
  <2>1. rdr \/ Opened(proc') BY <1>1 DEF Keep
  <2>2. Opened(proc') => Opened(proc)' BY DEF Opened
  <2> QED BY <2>1, <2>2
<1>2. IsEnv' /\ IsCtl(ctl)' /\ rdr' \in BOOLEAN BY DEF TypeInv, IsEnv
<1> QED BY <1>1, <1>2 DEF TypeInv

LEMMA KeepEmpty == ASSUME NEW pr, NEW open, fifo = <<>> PROVE Keep(fifo, pr, open) = <<>>
BY DEF Keep

LEMMA MovesKeep == ASSUME IInv, NEW q \in P, Moves(q) PROVE IInv'
<1>1. TypeInv /\ RwInv /\ LoneInv BY DEF IInv
<1>2. UNCHANGED <<recipe, kernel, slow, rdr, ctl>> BY DEF Moves
<1>3. TypeInv'
  <2>1. lost' \in BOOLEAN BY DEF Moves
  <2> QED BY <1>1, <2>1, SettledType DEF Moves
<1>4. RwInv'
  <2>1. SUFFICES ASSUME recipe.prog = "hugetlb_fork_rw"
                 PROVE  Mute(proc'[0].todo) /\ Mute(proc'[1].todo) /\ fifo' = <<>> /\ ~lost'
    BY <1>2 DEF RwInv
  <2>2. Mute(proc[0].todo) /\ Mute(proc[1].todo) /\ fifo = <<>> /\ ~lost BY <1>1, <2>1 DEF RwInv
  <2>3. Keep(fifo, proc', rdr) = <<>> BY <2>2, KeepEmpty
  <2>4. fifo' = <<>> /\ ~lost' BY <2>2, <2>3 DEF Moves
  <2>5. \A p \in P : Mute(proc[p].todo) BY <2>2 DEF P
  <2>6. \A p \in P : Mute(proc'[p].todo) BY <2>1, <2>5 DEF Moves, Follows
  <2> QED BY <2>4, <2>6 DEF P
<1>5. LoneInv'
  <2>1. SUFFICES ASSUME recipe.prog = "hugetlb_1gb", ~slow, ~TwoWriters
                 PROVE  /\ Talks(proc'[0].todo) /\ proc'[1].st = "unborn" /\ ~lost' /\ fifo' = <<>>
                        /\ rdr => Reading
                        /\ ~At(0, {"write"})'
    BY <1>2 DEF LoneInv, TwoWriters, Reading
  <2>2. /\ Talks(proc[0].todo) /\ proc[1].st = "unborn" /\ ~lost /\ (rdr => Reading)
        /\ fifo # <<>> => At(0, {"nap"})
    BY <1>1, <2>1 DEF LoneInv
  <2>3. q = 0 BY <2>2 DEF Moves, Head0, P
  <2>4. fifo = <<>> BY <2>1, <2>2, <2>3 DEF Moves
  <2>5. Keep(fifo, proc', rdr) = <<>> BY <2>4, KeepEmpty
  <2>6. fifo' = <<>> /\ ~lost' BY <2>2, <2>4, <2>5 DEF Moves
  <2>7. Whole(proc'[0].todo) BY <2>1, <2>2, <2>3 DEF Moves, Follows
  <2>8. proc'[1].st = "unborn" BY <2>2, <2>3 DEF Moves, P
  <2>9. ~At(0, {"write"})'
    <3>1. PICK t : t = proc'[0].todo OBVIOUS
    <3>2. IsSeq(t) BY <2>7, <3>1, WholeIsListed DEF Listed
    <3>3. t # <<>> => Head(t).k # "write" BY <2>7, <3>1, <3>2, SeqFacts DEF Whole
    <3> QED BY <3>1, <3>3 DEF At, Head1
  <2> QED BY <2>2, <2>6, <2>7, <2>8, <2>9, WholeIsListed
<1> QED BY <1>3, <1>4, <1>5 DEF IInv

LEMMA ForkKeeps == ASSUME IInv, NEW q \in P, Fork(q) PROVE IInv'
<1> DEFINE r == Next1(proc[q])
           c == [r EXCEPT !.at[1] = IF @ = "hw" /\ Faulty("copy") THEN "lazy" ELSE @]
<1>1. TypeInv /\ RwInv /\ LoneInv /\ At(q, {"fork"}) BY DEF IInv, Fork
<1>2. /\ IsProc(proc[q]) /\ proc[q].st = "alive" /\ proc[q].todo # <<>> /\ Listed(proc[q].todo)
      /\ IsSeq(proc[q].todo) /\ Head1(q) = proc[q].todo[1] /\ Head1(q).k = "fork"
      /\ Listed(Tail(proc[q].todo))
  BY <1>1, AtFacts, ListedTail
<1>3. IsProc(r) /\ r.st = "alive" /\ r.todo = Tail(proc[q].todo) BY <1>2, NextProc
<1>4. IsProc(c) /\ c.st = "alive" /\ c.todo = r.todo
  <2>1. PICK n : n = r OBVIOUS
  <2>2. PICK m : m = IF n.at[1] = "hw" /\ Faulty("copy") THEN "lazy" ELSE n.at[1] OBVIOUS
  <2>3. IsProc(n) /\ m \in Mem BY <1>3, <2>1, <2>2 DEF IsProc, Mem
  <2>4. c = [n EXCEPT !.at[1] = m] BY <2>1, <2>2, <2>3 DEF IsProc
  <2> QED BY <1>3, <2>1, <2>3, <2>4, MapProc
<1>5. PICK tp, tc : /\ recipe.prog = "hugetlb_1gb" => tp = ForkParent \o r.todo /\ tc = ForkChild \o c.todo
                    /\ recipe.prog # "hugetlb_1gb" => tp = RwParent /\ tc = RwChild(Head1(q).a)
  <2>1. CASE recipe.prog = "hugetlb_1gb" BY <2>1
  <2>2. CASE recipe.prog # "hugetlb_1gb" BY <2>2
  <2> QED BY <2>1, <2>2
<1>6. /\ Listed(tp) /\ Listed(tc)
      /\ recipe.prog # "hugetlb_1gb" => Mute(tp) /\ Mute(tc)
  <2>1. CASE recipe.prog = "hugetlb_1gb"
    <3>1. Listed(ForkParent) /\ Listed(ForkChild) BY ForkWhole, WholeIsListed
    <3>2. PICK t : t = Tail(proc[q].todo) OBVIOUS
    <3>3. Listed(t) /\ tp = ForkParent \o t /\ tc = ForkChild \o t BY <1>2, <1>3, <1>4, <1>5, <2>1, <3>2
    <3>4. Listed(ForkParent \o t) /\ Listed(ForkChild \o t) BY <3>1, <3>3, ListedConcat
    <3> QED BY <2>1, <3>3, <3>4
  <2>2. CASE recipe.prog # "hugetlb_1gb"
    <3>1. Mute(tp) /\ Mute(tc) BY <1>5, <2>2, RwMute
    <3> QED BY <2>2, <3>1 DEF Mute
  <2> QED BY <2>1, <2>2
<1>7. PICK x, y : x = [r EXCEPT !.todo = tp] /\ y = [c EXCEPT !.todo = tc] OBVIOUS
<1>8. IsProc(x) /\ x.todo = tp /\ IsProc(y) /\ y.todo = tc
  <2>1. PICK n, m : n = r /\ m = c OBVIOUS
  <2>2. IsProc(n) /\ n.st = "alive" /\ IsProc(m) /\ m.st = "alive" BY <1>3, <1>4, <2>1
  <2>3. x = [n EXCEPT !.todo = tp] /\ y = [m EXCEPT !.todo = tc] BY <1>7, <2>1
  <2> QED BY <1>6, <2>2, <2>3, ListProc
<1>9. PICK pr : pr = [proc EXCEPT ![q] = x, ![1] = y] OBVIOUS
<1>10. Settle(pr) BY <1>5, <1>7, <1>9 DEF Fork
<1>11. UNCHANGED <<recipe, kernel, slow, rdr, ctl>> /\ page' = page BY DEF Fork, env
<1>12. DOMAIN proc = P /\ \A p \in P : IsProc(proc[p]) BY <1>1 DEF TypeInv
<1>13. DOMAIN pr = P /\ pr[1] = y /\ \A p \in P : pr[p] \in {x, y, proc[p]} BY <1>9, <1>12 DEF P
<1>14. /\ proc' = pr /\ fifo' = Keep(fifo, proc', rdr)
       /\ lost' = (lost \/ fifo # Keep(fifo, proc', rdr))
  BY <1>10 DEF Settle
<1>15. TypeInv'
  <2>1. DOMAIN proc' = P /\ \A p \in P : IsProc(proc'[p]) BY <1>8, <1>12, <1>13, <1>14
  <2>2. page' \in {"ok", "poisoned"} /\ lost' \in BOOLEAN BY <1>1, <1>11, <1>14 DEF TypeInv
  <2> QED BY <1>1, <1>11, <1>14, <2>1, <2>2, SettledType
<1>16. RwInv'
  <2>1. SUFFICES ASSUME recipe.prog = "hugetlb_fork_rw"
                 PROVE  Mute(proc'[0].todo) /\ Mute(proc'[1].todo) /\ fifo' = <<>> /\ ~lost'
    BY <1>11 DEF RwInv
  <2>2. Mute(proc[0].todo) /\ Mute(proc[1].todo) /\ fifo = <<>> /\ ~lost BY <1>1, <2>1 DEF RwInv
  <2>3. Keep(fifo, proc', rdr) = <<>> BY <2>2, KeepEmpty
  <2>4. fifo' = <<>> /\ ~lost' BY <1>14, <2>2, <2>3
  <2>5. \A p \in P : Mute(proc[p].todo) BY <2>2 DEF P
  <2>6. \A p \in P : Mute(proc'[p].todo) BY <1>6, <1>8, <1>13, <1>14, <2>1, <2>5
  <2> QED BY <2>4, <2>6 DEF P
<1>17. LoneInv'
  <2>1. SUFFICES ASSUME recipe.prog = "hugetlb_1gb", ~slow, ~TwoWriters PROVE FALSE
    BY <1>11 DEF LoneInv, TwoWriters
  <2>2. Talks(proc[0].todo) /\ proc[1].st = "unborn" BY <1>1, <2>1 DEF LoneInv
  <2>3. q = 0 BY <1>2, <2>2 DEF P
  <2>4. 1 \in 1 .. Len(proc[q].todo) BY <1>2, SeqFacts
  <2> QED BY <1>2, <2>2, <2>3, <2>4 DEF Talks
<1> QED BY <1>15, <1>16, <1>17 DEF IInv

LEMMA OpenKeeps == ASSUME IInv, NEW q \in P, Open(q) PROVE IInv'
<1> DEFINE r == proc[q]
           n == Next1(r)
<1>1. TypeInv /\ RwInv /\ LoneInv /\ At(q, {"open"}) /\ rdr BY DEF IInv, Open, MayOpen
<1>2. /\ IsProc(r) /\ r.st = "alive" /\ r.todo # <<>> /\ Listed(r.todo)
      /\ IsSeq(r.todo) /\ Head1(q) = r.todo[1] /\ Head1(q).k = "open"
  BY <1>1, AtFacts
<1>3. IsProc(n) /\ n.st = "alive" /\ n.todo = Tail(r.todo) BY <1>2, NextProc
<1>4. PICK pr : pr = [proc EXCEPT ![q] = n] OBVIOUS
<1>5. /\ proc' = pr /\ fifo' = Keep(fifo, proc', rdr)
      /\ lost' = (lost \/ fifo # Keep(fifo, proc', rdr))
  BY <1>4 DEF Open, Local, Becomes, Settle
<1>6. UNCHANGED <<recipe, kernel, slow, rdr, ctl>> /\ page' = page BY DEF Open, Local, env
<1>7. DOMAIN proc = P /\ \A p \in P : IsProc(proc[p]) BY <1>1 DEF TypeInv
<1>8. DOMAIN proc' = P /\ proc'[q] = n /\ \A p \in P : p # q => proc'[p] = proc[p] BY <1>4, <1>5, <1>7
<1>9. fifo' = fifo /\ lost' = lost BY <1>1, <1>5 DEF Keep, TypeInv
<1>10. TypeInv'
  <2>1. \A p \in P : IsProc(proc'[p]) BY <1>3, <1>7, <1>8
  <2>2. page' \in {"ok", "poisoned"} /\ lost' \in BOOLEAN BY <1>1, <1>6, <1>9 DEF TypeInv
  <2> QED BY <1>1, <1>5, <1>6, <1>8, <2>1, <2>2, SettledType
<1>11. RwInv'
  <2>1. SUFFICES ASSUME recipe.prog = "hugetlb_fork_rw", Mute(r.todo) PROVE FALSE
    BY <1>1, <1>6 DEF RwInv, P
  <2>2. 1 \in 1 .. Len(r.todo) BY <1>2, SeqFacts
  <2> QED BY <1>2, <2>1, <2>2 DEF Mute
<1>12. LoneInv'
  <2>1. SUFFICES ASSUME recipe.prog = "hugetlb_1gb", ~slow, ~TwoWriters
                 PROVE  /\ Talks(proc'[0].todo) /\ proc'[1].st = "unborn" /\ ~lost'
                        /\ (rdr => Reading) /\ fifo' = <<>>
    BY <1>1, <1>6 DEF LoneInv, TwoWriters, Reading
  <2>2. /\ Talks(proc[0].todo) /\ proc[1].st = "unborn" /\ ~lost /\ (rdr => Reading)
        /\ fifo # <<>> => At(0, {"nap"})
    BY <1>1, <2>1 DEF LoneInv
  <2>3. q = 0 BY <1>2, <2>2 DEF P
  <2>4. fifo = <<>> BY <1>2, <2>2, <2>3 DEF At
  <2>5. Talks(proc'[0].todo) BY <1>2, <1>3, <1>8, <2>2, <2>3, TalksTail
  <2>6. proc'[1].st = "unborn" BY <1>8, <2>2, <2>3 DEF P
  <2> QED BY <1>9, <2>2, <2>4, <2>5, <2>6
<1> QED BY <1>10, <1>11, <1>12 DEF IInv

LEMMA WriteKeeps == ASSUME IInv, NEW q \in P, Write(q) PROVE IInv'
<1> DEFINE r == proc[q]
<1>1. TypeInv /\ RwInv /\ LoneInv /\ At(q, {"write"}) BY DEF IInv, Write
<1>2. /\ IsProc(r) /\ r.st = "alive" /\ r.todo # <<>> /\ Listed(r.todo)
      /\ IsSeq(r.todo) /\ Head1(q) = r.todo[1] /\ Head1(q).k = "write"
  BY <1>1, AtFacts
<1>3. PICK x, line : x = (IF rdr THEN Next1(r) ELSE Dies(r, "SIGPIPE")) /\ line = Head1(q).a
  OBVIOUS
<1>4. IsProc(x) BY <1>2, <1>3, NextProc, DiesProc DEF Statuses, Signals
<1>5. PICK pr : pr = [proc EXCEPT ![q] = x] OBVIOUS
<1>6. PICK lines : lines = IF rdr THEN Append(fifo, line) ELSE fifo OBVIOUS
<1>7. DOMAIN proc = P /\ \A p \in P : IsProc(proc[p]) BY <1>1 DEF TypeInv
<1>8. /\ proc' = pr /\ fifo' = Keep(lines, proc', rdr) /\ lost' = (lost \/ ~rdr)
  <2>1. pr = [proc EXCEPT ![q] = IF rdr THEN Next1(@) ELSE Dies(@, "SIGPIPE")] BY <1>3, <1>5, <1>7
  <2> QED BY <1>3, <1>6, <2>1 DEF Write
<1>9. UNCHANGED <<recipe, kernel, slow, rdr, ctl>> /\ page' = page BY DEF Write, env
<1>10. DOMAIN proc' = P /\ proc'[q] = x /\ \A p \in P : p # q => proc'[p] = proc[p] BY <1>5, <1>7, <1>8
<1>11. TypeInv'
  <2>1. \A p \in P : IsProc(proc'[p]) BY <1>4, <1>7, <1>10
  <2>2. ASSUME fifo' # <<>> PROVE rdr' \/ Opened(proc)'
    <3>1. rdr \/ Opened(proc') BY <1>8, <2>2 DEF Keep
    <3>2. Opened(proc') => Opened(proc)' BY <1>9 DEF Opened
    <3> QED BY <1>9, <3>1, <3>2
  <2>3. IsEnv' /\ IsCtl(ctl)' /\ rdr' \in BOOLEAN /\ lost' \in BOOLEAN /\ page' \in {"ok", "poisoned"}
    BY <1>1, <1>8, <1>9 DEF TypeInv, IsEnv
  <2> QED BY <1>10, <2>1, <2>2, <2>3 DEF TypeInv
<1>12. RwInv'
  <2>1. SUFFICES ASSUME recipe.prog = "hugetlb_fork_rw", Mute(r.todo) PROVE FALSE
    BY <1>1, <1>9 DEF RwInv, P
  <2>2. 1 \in 1 .. Len(r.todo) BY <1>2, SeqFacts
  <2> QED BY <1>2, <2>1, <2>2 DEF Mute
<1>13. LoneInv'
  <2>1. SUFFICES ASSUME recipe.prog = "hugetlb_1gb", ~slow, ~TwoWriters
                 PROVE  /\ Talks(proc'[0].todo) /\ proc'[1].st = "unborn" /\ ~lost'
                        /\ rdr /\ Reading /\ ~At(0, {"write"})' /\ At(0, {"nap"})'
                        /\ fifo' = <<Head(fifo')>>
    BY <1>9 DEF LoneInv, TwoWriters, Reading
  <2>2. /\ Talks(proc[0].todo) /\ proc[1].st = "unborn" /\ ~lost /\ (rdr => Reading)
        /\ At(0, {"write"}) => rdr /\ fifo = <<>>
    BY <1>1, <2>1 DEF LoneInv
  <2>3. q = 0 BY <1>2, <2>2 DEF P
  <2>4. rdr /\ fifo = <<>> /\ Reading BY <1>1, <2>2, <2>3
  <2>5. x = Next1(r) /\ x.st = "alive" /\ x.todo = Tail(r.todo) BY <1>2, <1>3, <2>4, NextProc
  <2>6. Talks(x.todo) BY <1>2, <2>2, <2>3, <2>5, TalksTail
  <2>7. x.todo # <<>> /\ Head(x.todo).k = "nap"
    <3>1. Len(r.todo) \in Nat /\ 1 \in 1 .. Len(r.todo) BY <1>2, SeqFacts
    <3>2. 1 < Len(r.todo) /\ r.todo[1 + 1].k = "nap" BY <1>2, <2>2, <2>3, <3>1 DEF Talks
    <3>3. IsSeq(x.todo) /\ Len(x.todo) = Len(r.todo) - 1 /\ x.todo[1] = r.todo[1 + 1]
      BY <1>2, <2>5, <3>1, <3>2, TailFacts
    <3> QED BY <3>1, <3>2, <3>3, SeqFacts
  <2>8. ~At(0, {"write"})' /\ At(0, {"nap"})' BY <1>10, <2>3, <2>5, <2>7 DEF At, Head1
  <2>9. fifo' = <<line>>
    <3>1. lines = <<line>> BY <1>6, <2>4
    <3> QED BY <1>8, <2>4, <3>1 DEF Keep
  <2>10. fifo' = <<Head(fifo')>> BY <2>9
  <2>11. ~lost' BY <1>8, <2>2, <2>4
  <2>12. proc'[1].st = "unborn" BY <1>10, <2>2, <2>3 DEF P
  <2> QED BY <1>10, <2>3, <2>4, <2>6, <2>8, <2>10, <2>11, <2>12
<1> QED BY <1>11, <1>12, <1>13 DEF IInv
-----------------------------------------------------------------------------
(* SIGUSR1.                                                                *)

\* Somewhere in t is a write that has been opened.
Open1(t) == \E i \in DOMAIN t : t[i].k = "write" /\ (i > 1 => t[i - 1].k # "open")

LEMMA OpenedBy ==
  ASSUME NEW pr PROVE Opened(pr) <=> (recipe.stdout /\ pr[0].st = "alive") \/ \E q \in P : Open1(pr[q].todo)
BY DEF Opened, Open1

LEMMA OpenTail ==
  ASSUME NEW t, IsSeq(t), t # <<>>, t[1].k # "write", Open1(t) PROVE Open1(Tail(t))
<1>1. Len(t) \in Nat /\ DOMAIN t = 1 .. Len(t) BY SeqFacts
<1>2. PICK u : u = Tail(t) OBVIOUS
<1>3. /\ IsSeq(u) /\ Len(u) = Len(t) - 1
      /\ \A i \in 1 .. Len(t) - 1 : u[i] = t[i + 1]
  BY <1>2, TailFacts
<1>4. DOMAIN u = 1 .. Len(u) BY <1>3, SeqFacts
<1>5. PICK i \in 1 .. Len(t) : t[i].k = "write" /\ (i > 1 => t[i - 1].k # "open") BY <1>1 DEF Open1
<1>6. i # 1 BY <1>5
<1>7. PICK j \in 1 .. Len(t) - 1 : i = j + 1 BY <1>1, <1>5, <1>6
<1>8. u[j] = t[i] BY <1>3, <1>7
<1>9. ASSUME j > 1 PROVE u[j - 1] = t[i - 1]
  <2>1. j - 1 \in 1 .. Len(t) - 1 /\ (j - 1) + 1 = i - 1 BY <1>1, <1>7, <1>9
  <2> QED BY <1>3, <2>1
<1>10. j \in DOMAIN u /\ u[j].k = "write" /\ (j > 1 => u[j - 1].k # "open")
  BY <1>1, <1>3, <1>4, <1>5, <1>7, <1>8, <1>9
<1> QED BY <1>2, <1>10 DEF Open1

LEMMA OpenConcat ==
  ASSUME NEW s, NEW t, IsSeq(s), IsSeq(t), s # <<>>, s[Len(s)].k # "open", Open1(t)
  PROVE  Open1(s \o t)
<1>1. Len(s) \in Nat /\ Len(s) >= 1 /\ Len(t) \in Nat /\ DOMAIN t = 1 .. Len(t) BY SeqFacts
<1>2. PICK n, m \in Nat : n = Len(s) /\ m = Len(t) BY <1>1
<1>3. PICK u : u = s \o t OBVIOUS
<1>4. /\ IsSeq(u) /\ Len(u) = n + m
      /\ \A i \in 1 .. n : u[i] = s[i]
      /\ \A i \in n + 1 .. n + m : u[i] = t[i - n]
  BY <1>2, <1>3, ConcatFacts
<1>5. DOMAIN u = 1 .. Len(u) BY <1>4, SeqFacts
<1>6. PICK i \in 1 .. m : t[i].k = "write" /\ (i > 1 => t[i - 1].k # "open") BY <1>1, <1>2 DEF Open1
<1>7. PICK j \in n + 1 .. n + m : j = n + i BY <1>2, <1>6
<1>8. u[j] = t[i]
  <2>1. j - n = i BY <1>2, <1>6, <1>7
  <2> QED BY <1>4, <1>7, <2>1
<1>9. u[j - 1].k # "open"
  <2>1. CASE i = 1
    <3>1. j - 1 = n /\ n \in 1 .. n BY <1>1, <1>2, <1>7, <2>1
    <3> QED BY <1>2, <1>4, <3>1
  <2>2. CASE i > 1
    <3>1. j - 1 \in n + 1 .. n + m /\ (j - 1) - n = i - 1 BY <1>2, <1>6, <1>7, <2>2
    <3> QED BY <1>4, <1>6, <2>2, <3>1
  <2> QED BY <1>6, <2>1, <2>2
<1>10. j \in DOMAIN u BY <1>1, <1>2, <1>4, <1>5, <1>7
<1> QED BY <1>3, <1>6, <1>8, <1>9, <1>10 DEF Open1

LEMMA SignalledProc ==
  ASSUME NEW r, IsProc(r)
  PROVE  /\ IsProc(Signalled(r)) /\ Signalled(r).st = r.st
         /\ Open1(r.todo) => Open1(Signalled(r).todo)
         /\ Talks(r.todo) /\ (r.todo # <<>> => Head(r.todo).k # "write") => Whole(Signalled(r).todo)
         /\ ~recipe.pipe /\ Mute(r.todo) => Mute(Signalled(r).todo)
<1> DEFINE t == r.todo
<1>1. Listed(t) /\ IsSeq(t) BY DEF IsProc, Listed
<1>2. t # <<>> => Head(t) = t[1] BY <1>1, SeqFacts
<1>3. CASE r.st # "alive"
  <2>1. Signalled(r) = r /\ t = <<>> BY <1>3 DEF Signalled, IsProc
  <2>2. Whole(t) BY <2>1, EmptyList
  <2> QED BY <2>1, <2>2
<1>4. CASE r.st = "alive"
  <2>1. PICK w : w = IF t # <<>> /\ Head(t).k \in {"pause", "nap"} THEN Tail(t) ELSE t OBVIOUS
  <2>2. PICK y : y = Say(<<"Received SIGUSR1">>, "") OBVIOUS
  <2>3. PICK f : f = S("flag", FALSE) OBVIOUS
  <2>4. PICK s : s = y \o <<f>> OBVIOUS
  <2>5. PICK u : u = s \o w OBVIOUS
  <2>6. Signalled(r) = [r EXCEPT !.todo = u] BY <1>4, <2>1, <2>2, <2>3, <2>4, <2>5 DEF Signalled, IsProc
  <2>7. Whole(y) BY <2>2, SayWhole
  <2>8. f.k = "flag" BY <2>3 DEF S
  <2>9. Whole(<<f>>) /\ Mute(<<f>>) BY <2>3, MildStep
  <2>10. Whole(s) BY <2>4, <2>7, <2>9, WholeConcat
  <2>11. Listed(s) /\ IsSeq(s) /\ Listed(y) /\ IsSeq(y) BY <2>7, <2>10, WholeIsListed DEF Listed
  <2>12. s # <<>> /\ s[Len(s)] = f
    <3>1. IsSeq(<<f>>) /\ Len(<<f>>) = 1 /\ <<f>>[1] = f BY Tuples
    <3>2. PICK n \in Nat : n = Len(y) BY <2>11, SeqFacts
    <3>3. /\ Len(s) = n + 1
          /\ \A i \in n + 1 .. n + 1 : s[i] = <<f>>[i - n]
      BY <2>4, <2>11, <3>1, <3>2, ConcatFacts
    <3>4. s[n + 1] = <<f>>[1]
      <4>1. n + 1 \in n + 1 .. n + 1 /\ (n + 1) - n = 1 BY <3>2
      <4> QED BY <3>3, <4>1
    <3> QED BY <2>11, <3>1, <3>2, <3>3, <3>4, SeqFacts
  <2>13. Listed(w) /\ IsSeq(w) BY <1>1, <2>1, ListedTail DEF Listed
  <2>14. Open1(t) => Open1(w) BY <1>1, <1>2, <2>1, OpenTail
  <2>15. ASSUME Talks(t), t # <<>> => Head(t).k # "write" PROVE Whole(w)
    <3>1. CASE w = t BY <1>2, <2>15, <3>1 DEF Whole
    <3>2. CASE t # <<>> /\ Head(t).k \in {"pause", "nap"} BY <1>2, <2>1, <2>15, <3>2, TalksTail
    <3> QED BY <2>1, <3>1, <3>2
  <2>16. Mute(t) => Mute(w) BY <2>1, MuteTail
  <2>17. Listed(u) BY <2>5, <2>11, <2>13, ListedConcat
  <2>18. IsProc([r EXCEPT !.todo = u]) /\ [r EXCEPT !.todo = u].todo = u /\ [r EXCEPT !.todo = u].st = "alive"
    BY <1>4, <2>17, ListProc
  <2>19. Open1(t) => Open1(u)
    <3>1. s[Len(s)].k # "open" BY <2>8, <2>12
    <3> QED BY <2>5, <2>11, <2>12, <2>13, <2>14, <3>1, OpenConcat
  <2>20. Talks(t) /\ (t # <<>> => Head(t).k # "write") => Whole(u) BY <2>5, <2>10, <2>15, WholeConcat
  <2>21. ASSUME ~recipe.pipe, Mute(t) PROVE Mute(u)
    <3>1. Mute(y) BY <2>2, <2>21, SayMute, EmptyList
    <3>2. Mute(s) BY <2>4, <2>9, <3>1, MuteConcat
    <3> QED BY <2>5, <2>16, <2>21, <3>2, MuteConcat
  <2> QED BY <1>4, <2>6, <2>18, <2>19, <2>20, <2>21
<1> QED BY <1>3, <1>4

(* The invariant and the steps of the controller.                          *)

LEMMA CommandFacts ==
  ASSUME TypeInv, Command
  PROVE  /\ ctl.todo # <<>> /\ IsCtl(ctl') /\ page' \in {"ok", "poisoned"} /\ DOMAIN proc' = P
         /\ \A p \in P : proc'[p] \in {proc[p], Signalled(proc[p]), Poisoned(proc)[p]}
         /\ UNCHANGED <<recipe, kernel, slow, rdr, fifo, lost>>
<1> DEFINE c == Head(ctl.todo)
           Coded(x) == [ctl EXCEPT !.todo = Tail(@), !.codes = Append(@, x)]
           skip == [ctl EXCEPT !.todo = Tail(@)]
<1>1. IsCtl(ctl) /\ DOMAIN proc = P /\ page \in {"ok", "poisoned"} BY DEF TypeInv
<1>2. ctl.todo # <<>> /\ UNCHANGED <<recipe, kernel, slow, rdr, fifo, lost>> BY DEF Command, env
<1>3. IsCtl(ctl')
  <2>1. \/ \E x : ctl' = Coded(x)
        \/ ctl' = skip
        \/ ctl' = [ctl EXCEPT !.ph = "over", !.todo = <<>>]
    BY DEF Command
  <2>2. ASSUME NEW x PROVE IsCtl(Coded(x)) BY <1>1 DEF IsCtl
  <2>3. IsCtl(skip) BY <1>1 DEF IsCtl
  <2>4. IsCtl([ctl EXCEPT !.ph = "over", !.todo = <<>>]) BY <1>1 DEF IsCtl
  <2> QED BY <2>1, <2>2, <2>3, <2>4
<1>4. \/ proc' = proc
      \/ proc' = [proc EXCEPT ![c.a] = Signalled(@)]
      \/ proc' = Poisoned(proc)
  BY DEF Command
<1>5. page' \in {"ok", "poisoned"} BY <1>1 DEF Command
<1>6. CASE proc' = proc BY <1>1, <1>2, <1>3, <1>5, <1>6
<1>7. CASE proc' = [proc EXCEPT ![c.a] = Signalled(@)]
  <2>1. DOMAIN proc' = P /\ \A p \in P : proc'[p] = proc[p] \/ proc'[p] = Signalled(proc[p])
    BY <1>1, <1>7
  <2> QED BY <1>2, <1>3, <1>5, <2>1
<1>8. CASE proc' = Poisoned(proc)
  <2>1. DOMAIN proc' = P BY <1>8 DEF Poisoned
  <2> QED BY <1>2, <1>3, <1>5, <1>8, <2>1
<1> QED BY <1>4, <1>6, <1>7, <1>8

LEMMA CommandKeeps == ASSUME IInv, Command PROVE IInv'
<1>1. TypeInv /\ RwInv /\ LoneInv BY DEF IInv
<1>2. /\ ctl.todo # <<>> /\ IsCtl(ctl') /\ page' \in {"ok", "poisoned"} /\ DOMAIN proc' = P
      /\ \A p \in P : proc'[p] \in {proc[p], Signalled(proc[p]), Poisoned(proc)[p]}
      /\ UNCHANGED <<recipe, kernel, slow, rdr, fifo, lost>>
  BY <1>1, CommandFacts
<1>3. DOMAIN proc = P /\ \A p \in P : IsProc(proc[p]) BY <1>1 DEF TypeInv
<1>4. \A p \in P : IsProc(Poisoned(proc)[p]) /\ Poisoned(proc)[p].st = proc[p].st
                   /\ Poisoned(proc)[p].todo = proc[p].todo
  BY <1>3, PoisonedProcs
<1>5. ASSUME NEW p \in P
      PROVE  /\ IsProc(proc'[p]) /\ proc'[p].st = proc[p].st
             /\ Open1(proc[p].todo) => Open1(proc'[p].todo)
             /\ proc'[p].todo = proc[p].todo \/ proc'[p].todo = Signalled(proc[p]).todo
  <2>1. CASE proc'[p] = proc[p] BY <1>3, <2>1
  <2>2. CASE proc'[p] = Signalled(proc[p]) BY <1>3, <2>2, SignalledProc
  <2>3. CASE proc'[p] = Poisoned(proc)[p] BY <1>4, <2>3
  <2> QED BY <1>2, <2>1, <2>2, <2>3
<1>6. TypeInv'
  <2>1. ASSUME fifo' # <<>> PROVE rdr' \/ Opened(proc)'
    <3>1. rdr \/ Opened(proc) BY <1>1, <1>2, <2>1 DEF TypeInv
    <3>2. ASSUME Opened(proc) PROVE Opened(proc')
      <4>1. CASE recipe.stdout /\ proc[0].st = "alive" BY <1>5, <4>1, OpenedBy DEF P
      <4>2. CASE \E q \in P : Open1(proc[q].todo) BY <1>5, <4>2, OpenedBy
      <4> QED BY <3>2, <4>1, <4>2, OpenedBy
    <3>3. Opened(proc') => Opened(proc)' BY <1>2 DEF Opened
    <3> QED BY <1>2, <3>1, <3>2, <3>3
  <2>2. IsEnv' /\ rdr' \in BOOLEAN /\ lost' \in BOOLEAN BY <1>1, <1>2 DEF TypeInv, IsEnv
  <2> QED BY <1>2, <1>5, <2>1, <2>2 DEF TypeInv
<1>7. RwInv'
  <2>1. SUFFICES ASSUME recipe.prog = "hugetlb_fork_rw"
                 PROVE  Mute(proc'[0].todo) /\ Mute(proc'[1].todo) /\ fifo' = <<>> /\ ~lost'
    BY <1>2 DEF RwInv
  <2>2. Mute(proc[0].todo) /\ Mute(proc[1].todo) /\ fifo = <<>> /\ ~lost BY <1>1, <2>1 DEF RwInv
  <2>3. ~recipe.pipe BY <1>1, <2>1, RecipesAssumption DEF TypeInv, IsEnv
  <2>4. \A p \in P : Mute(proc[p].todo) BY <2>2 DEF P
  <2>5. \A p \in P : Mute(proc'[p].todo) BY <1>3, <1>5, <2>3, <2>4, SignalledProc
  <2> QED BY <1>2, <2>2, <2>5 DEF P
<1>8. LoneInv'
  <2>1. SUFFICES ASSUME recipe.prog = "hugetlb_1gb", ~slow, ~TwoWriters
                 PROVE  /\ Talks(proc'[0].todo) /\ proc'[1].st = "unborn" /\ ~lost' /\ fifo' = <<>>
                        /\ ~rdr' /\ ~At(0, {"write"})'
    BY <1>2 DEF LoneInv, TwoWriters
  <2>2. /\ Talks(proc[0].todo) /\ proc[1].st = "unborn" /\ ~lost /\ (rdr => Reading)
        /\ At(0, {"write"}) => rdr
        /\ fifo # <<>> => rdr
    BY <1>1, <2>1 DEF LoneInv
  <2>3. ~rdr /\ fifo = <<>> /\ ~At(0, {"write"}) BY <1>2, <2>2 DEF Reading
  <2>4. IsProc(proc[0]) BY <1>3 DEF P
  <2>5. proc[0].todo # <<>> => Head(proc[0].todo).k # "write" BY <2>3, <2>4 DEF At, Head1, IsProc
  <2>6. Whole(proc[0].todo) /\ Whole(Signalled(proc[0]).todo)
    <3>1. IsSeq(proc[0].todo) BY <2>4 DEF IsProc, Listed
    <3>2. Whole(proc[0].todo) BY <2>2, <2>5, <3>1, SeqFacts DEF Whole
    <3> QED BY <2>2, <2>4, <2>5, <3>2, SignalledProc
  <2>7. Whole(proc'[0].todo) BY <1>5, <2>6 DEF P
  <2>8. ~At(0, {"write"})'
    <3>1. PICK t : t = proc'[0].todo OBVIOUS
    <3>2. IsSeq(t) BY <2>7, <3>1, WholeIsListed DEF Listed
    <3>3. t # <<>> => Head(t).k # "write" BY <2>7, <3>1, <3>2, SeqFacts DEF Whole
    <3> QED BY <3>1, <3>3 DEF At, Head1
  <2>9. proc'[1].st = "unborn" BY <1>5, <2>2 DEF P
  <2> QED BY <1>2, <2>2, <2>3, <2>7, <2>8, <2>9, WholeIsListed
<1> QED BY <1>6, <1>7, <1>8 DEF IInv

\* A step of the controller that leaves the processes alone.
LEMMA ReadKeeps == ASSUME IInv, OpenRead \/ TakeLine \/ Timeout PROVE IInv'
<1>1. TypeInv /\ RwInv /\ LoneInv BY DEF IInv
<1>2. UNCHANGED <<recipe, kernel, slow, proc, page>> BY DEF OpenRead, TakeLine, Timeout, env
<1>3. IsCtl(ctl')
  <2>1. IsCtl(ctl) BY <1>1 DEF TypeInv
  <2>2. ASSUME NEW t PROVE IsCtl([ctl EXCEPT !.todo = t]) BY <2>1 DEF IsCtl
  <2> QED BY <2>1, <2>2 DEF OpenRead, TakeLine, Timeout
<1>4. Reading BY DEF OpenRead, TakeLine, Timeout
<1>5. rdr' \in BOOLEAN /\ lost' \in BOOLEAN BY <1>1 DEF OpenRead, TakeLine, Timeout, TypeInv
<1>6. fifo' # <<>> => rdr' \/ Opened(proc)'
  <2>1. Opened(proc) => Opened(proc)' BY <1>2 DEF Opened
  <2>2. CASE OpenRead
    <3>1. fifo' = fifo /\ (rdr => rdr') BY <2>2 DEF OpenRead
    <3> QED BY <1>1, <2>1, <3>1 DEF TypeInv
  <2>3. CASE TakeLine BY <2>1, <2>3 DEF TakeLine, Keep
  <2>4. CASE Timeout BY <2>4 DEF Timeout
  <2> QED BY <2>2, <2>3, <2>4
<1>7. TypeInv'
  <2>1. IsEnv' BY <1>1, <1>2 DEF TypeInv, IsEnv
  <2> QED BY <1>1, <1>2, <1>3, <1>5, <1>6, <2>1 DEF TypeInv
<1>8. RwInv'
  <2>1. SUFFICES ASSUME recipe.prog = "hugetlb_fork_rw" PROVE fifo' = <<>> /\ ~lost'
    BY <1>1, <1>2 DEF RwInv
  <2>2. fifo = <<>> /\ ~lost BY <1>1, <2>1 DEF RwInv
  <2>3. CASE OpenRead BY <2>2, <2>3 DEF OpenRead
  <2>4. CASE TakeLine BY <2>2, <2>4 DEF TakeLine
  <2>5. CASE Timeout BY <2>2, <2>5 DEF Timeout
  <2> QED BY <2>3, <2>4, <2>5
<1>9. LoneInv'
  <2>1. SUFFICES ASSUME recipe.prog = "hugetlb_1gb", ~slow, ~TwoWriters
                 PROVE  /\ ~lost' /\ fifo' = <<>>
                        /\ rdr' => Reading'
                        /\ At(0, {"write"}) => rdr'
    BY <1>1, <1>2 DEF LoneInv, TwoWriters, At, Head1
  <2>2. /\ ~lost
        /\ At(0, {"write"}) => rdr /\ fifo = <<>>
        /\ fifo # <<>> => rdr /\ fifo = <<Head(fifo)>> /\ At(0, {"nap"})
    BY <1>1, <2>1 DEF LoneInv
  <2>3. CASE OpenRead
    <3>1. ~rdr /\ fifo' = fifo /\ lost' = lost BY <2>3 DEF OpenRead
    <3>2. rdr' => ctl' = ctl BY <2>3, <3>1 DEF OpenRead
    <3> QED BY <1>4, <2>2, <3>1, <3>2 DEF Reading
  <2>4. CASE TakeLine
    <3>1. fifo # <<>> /\ ~rdr' BY <2>4 DEF TakeLine
    <3>2. PICK x : fifo = <<x>> BY <2>2, <3>1
    <3>3. Tail(fifo) = <<>> BY <3>2
    <3>4. fifo' = <<>> /\ ~lost' BY <2>2, <2>4, <3>3 DEF TakeLine, Keep
    <3> QED BY <2>2, <3>1, <3>4
  <2>5. CASE Timeout
    <3>1. fifo = <<>> /\ fifo' = fifo /\ lost' = lost /\ ~rdr' /\ Quiet BY <2>1, <2>5 DEF Timeout
    <3>2. ASSUME At(0, {"write"}) PROVE FALSE
      <4>1. CanMove(0) BY <3>2 DEF At, CanMove
      <4> QED BY <3>1, <4>1 DEF Quiet, P
    <3> QED BY <2>2, <3>1, <3>2
  <2> QED BY <2>3, <2>4, <2>5
<1> QED BY <1>7, <1>8, <1>9 DEF IInv

LEMMA KillAllKeeps == ASSUME IInv, KillAll PROVE IInv'
<1>1. TypeInv /\ RwInv /\ LoneInv BY DEF IInv
<1>2. UNCHANGED <<recipe, kernel, slow, page, rdr, lost>> /\ fifo' = <<>> BY DEF KillAll, env
<1>3. DOMAIN proc = P /\ \A p \in P : IsProc(proc[p]) BY <1>1 DEF TypeInv
<1>4. DOMAIN proc' = P BY DEF KillAll
<1>5. ASSUME NEW p \in P
      PROVE  IsProc(proc'[p]) /\ proc'[p].st # "alive" /\ proc'[p].todo = <<>>
             /\ (proc[p].st = "unborn" => proc'[p].st = "unborn")
  <2>1. IsProc(proc[p]) BY <1>3
  <2>2. CASE proc[p].st = "alive"
    <3>1. proc'[p] = Dies(proc[p], "SIGKILL") BY <2>2 DEF KillAll
    <3>2. IsProc(Dies(proc[p], "SIGKILL")) /\ Dies(proc[p], "SIGKILL").st = "SIGKILL"
          /\ Dies(proc[p], "SIGKILL").todo = <<>>
      BY <2>1, DiesProc DEF Statuses, Signals
    <3> QED BY <2>2, <3>1, <3>2
  <2>3. CASE proc[p].st # "alive"
    <3>1. proc'[p] = proc[p] BY <2>3 DEF KillAll
    <3> QED BY <2>1, <2>3, <3>1 DEF IsProc
  <2> QED BY <2>2, <2>3
<1>6. IsCtl(ctl')
  <2>1. IsCtl(ctl) /\ ctl' = [ctl EXCEPT !.ph = "killed"] BY <1>1 DEF TypeInv, KillAll
  <2> QED BY <2>1 DEF IsCtl
<1>7. TypeInv'
  <2>1. IsEnv' /\ rdr' \in BOOLEAN /\ lost' \in BOOLEAN /\ page' \in {"ok", "poisoned"}
    BY <1>1, <1>2 DEF TypeInv, IsEnv
  <2> QED BY <1>2, <1>4, <1>5, <1>6, <2>1 DEF TypeInv
<1>8. RwInv'
  <2>1. Mute(proc'[0].todo) /\ Mute(proc'[1].todo) BY <1>5, EmptyList DEF P
  <2> QED BY <1>1, <1>2, <2>1 DEF RwInv
<1>9. LoneInv'
  <2>1. SUFFICES ASSUME recipe.prog = "hugetlb_1gb", ~slow, ~TwoWriters
                 PROVE  /\ Talks(proc'[0].todo) /\ proc'[1].st = "unborn" /\ ~lost /\ ~rdr
                        /\ proc'[0].st # "alive"
    BY <1>2 DEF LoneInv, TwoWriters, At
  <2>2. proc[1].st = "unborn" /\ ~lost /\ (rdr => Reading) BY <1>1, <2>1 DEF LoneInv
  <2>3. ~rdr BY <2>2 DEF Reading, KillAll
  <2>4. Talks(proc'[0].todo) /\ proc'[0].st # "alive" BY <1>5, EmptyList, WholeIsListed DEF P
  <2> QED BY <1>5, <2>2, <2>3, <2>4 DEF P
<1> QED BY <1>7, <1>8, <1>9 DEF IInv

LEMMA CleanupKeeps == ASSUME IInv, Cleanup PROVE IInv'
<1>1. TypeInv /\ RwInv /\ LoneInv BY DEF IInv
<1>2. UNCHANGED <<recipe, kernel, slow, proc, rdr, fifo, lost>> /\ page' = "ok" BY DEF Cleanup, env
<1>3. IsCtl(ctl')
  <2>1. IsCtl(ctl) /\ ctl' = [ctl EXCEPT !.ph = "clean"] BY <1>1 DEF TypeInv, Cleanup
  <2> QED BY <2>1 DEF IsCtl
<1>4. TypeInv'
  <2>1. Opened(proc) => Opened(proc)' BY <1>2 DEF Opened
  <2>2. IsEnv' BY <1>1, <1>2 DEF TypeInv, IsEnv
  <2> QED BY <1>1, <1>2, <1>3, <2>1, <2>2 DEF TypeInv
<1>5. RwInv' BY <1>1, <1>2 DEF RwInv
<1>6. LoneInv'
  <2>1. SUFFICES ASSUME recipe.prog = "hugetlb_1gb", ~slow, ~TwoWriters PROVE ~rdr
    BY <1>1, <1>2 DEF LoneInv, TwoWriters, At, Head1
  <2>2. rdr => Reading BY <1>1, <2>1 DEF LoneInv
  <2> QED BY <2>2 DEF Reading, Cleanup
<1> QED BY <1>4, <1>5, <1>6 DEF IInv
-----------------------------------------------------------------------------
(* Results.                                                                *)

LEMMA InitIInv == Init => IInv
<1>1. SUFFICES ASSUME Init PROVE IInv OBVIOUS
<1>2. recipe \in Recipes /\ slow \in BOOLEAN BY <1>1 DEF Init
<1>3. /\ Listed(main)
      /\ recipe.prog = "hugetlb_1gb" => Whole(main)
      /\ recipe.prog = "hugetlb_fork_rw" => Mute(main)
  BY <1>2, MainLists
<1>4. Whole(<<>>) /\ Mute(<<>>) /\ Listed(<<>>) BY EmptyList, WholeIsListed
<1>5. PICK t : t = main OBVIOUS
<1>6. /\ proc[0] = [Newborn EXCEPT !.todo = t] /\ proc[1] = [Newborn EXCEPT !.st = "unborn"]
      /\ DOMAIN proc = P
  BY <1>1, <1>5 DEF Init, P
<1>7. /\ proc[0].todo = t /\ proc[0].st = "alive" /\ IsProc(proc[0])
      /\ proc[1].todo = <<>> /\ proc[1].st = "unborn" /\ IsProc(proc[1])
  BY <1>3, <1>4, <1>5, <1>6 DEF Newborn, IsProc, Statuses, Mem
<1>8. /\ page = "ok" /\ rdr = FALSE /\ fifo = <<>> /\ lost = FALSE BY <1>1 DEF Init
<1>9. IsCtl(ctl) BY <1>1 DEF Init, IsCtl
<1>10. TypeInv BY <1>2, <1>6, <1>7, <1>8, <1>9 DEF TypeInv, IsEnv, P
<1>11. RwInv BY <1>3, <1>4, <1>5, <1>7, <1>8 DEF RwInv
<1>12. LoneInv
  <2>1. SUFFICES ASSUME recipe.prog = "hugetlb_1gb" PROVE Talks(t) /\ ~At(0, {"write"})
    BY <1>7, <1>8 DEF LoneInv
  <2>2. Whole(t) BY <1>3, <1>5, <2>1
  <2>3. IsSeq(t) BY <2>2, WholeIsListed DEF Listed
  <2>4. t # <<>> => Head(t).k # "write" BY <2>2, <2>3, SeqFacts DEF Whole
  <2> QED BY <1>7, <2>2, <2>4, WholeIsListed DEF At, Head1
<1> QED BY <1>10, <1>11, <1>12 DEF IInv

LEMMA NextIInv == IInv /\ [Next]_vars => IInv'
<1>1. SUFFICES ASSUME IInv, [Next]_vars PROVE IInv' OBVIOUS
<1>2. ASSUME NEW q \in P, Step(q) PROVE IInv'
  <2>1. CASE Fork(q) BY <1>1, <2>1, ForkKeeps
  <2>2. CASE Open(q) BY <1>1, <2>2, OpenKeeps
  <2>3. CASE Write(q) BY <1>1, <2>3, WriteKeeps
  <2>4. CASE NextArg(q) \/ Allocate(q) \/ Access(q) \/ Madvise(q) \/ Mremap(q) \/ Iterate(q) \/ Munmap(q)
    <3>1. Moves(q)
      BY <1>1, <2>4, NextArgMoves, AllocateMoves, AccessMoves, MadviseMoves, MremapMoves, IterateMoves,
         MunmapMoves
    <3> QED BY <1>1, <3>1, MovesKeep
  <2>5. CASE WaitChild(q) \/ Exit(q) \/ ChildRw(q) \/ Plain(q) \/ Sleep1(q)
    <3>1. Moves(q) BY <1>1, <2>5, NextMoves, ExitMoves, ChildRwMoves, PlainMoves
    <3> QED BY <1>1, <3>1, MovesKeep
  <2> QED BY <1>2, <2>1, <2>2, <2>3, <2>4, <2>5 DEF Step
<1>3. CASE OpenRead \/ TakeLine \/ Timeout BY <1>1, <1>3, ReadKeeps
<1>4. CASE Command BY <1>1, <1>4, CommandKeeps
<1>5. CASE KillAll BY <1>1, <1>5, KillAllKeeps
<1>6. CASE Cleanup BY <1>1, <1>6, CleanupKeeps
<1>7. CASE UNCHANGED vars
  <2>1. UNCHANGED <<recipe, kernel, slow, proc, page, rdr, fifo, lost, ctl>> BY <1>7 DEF vars
  <2>2. TypeInv'
    <3>1. TypeInv BY <1>1 DEF IInv
    <3>2. Opened(proc) => Opened(proc)' BY <2>1 DEF Opened
    <3> QED BY <2>1, <3>1, <3>2 DEF TypeInv, IsEnv
  <2>3. RwInv' BY <1>1, <2>1 DEF IInv, RwInv
  <2>4. LoneInv' BY <1>1, <2>1 DEF IInv, LoneInv, TwoWriters, Reading, At, Head1
  <2> QED BY <2>2, <2>3, <2>4 DEF IInv
<1> QED BY <1>1, <1>2, <1>3, <1>4, <1>5, <1>6, <1>7 DEF Next

(* SIGBUS: an invariant of its own, on top of IInv.                        *)

SigInv == \A q \in P : proc[q].st = "SIGBUS" => recipe.prog = "hugetlb_fork_rw"

LEMMA SigBecomes ==
  ASSUME IInv, SigInv, NEW q \in P, NEW x, Becomes(q, x), recipe' = recipe,
         x.st = "SIGBUS" => recipe.prog = "hugetlb_fork_rw"
  PROVE  SigInv'
<1>1. DOMAIN proc = P BY DEF IInv, TypeInv
<1>2. proc' = [proc EXCEPT ![q] = x] BY DEF Becomes, Settle
<1>3. \A p \in P : proc'[p] = IF p = q THEN x ELSE proc[p] BY <1>1, <1>2
<1> QED BY <1>3 DEF SigInv

LEMMA SigPoisoned ==
  ASSUME NEW pr, NEW p \in P, IsProc(pr[p]) PROVE Poisoned(pr)[p].st = pr[p].st
BY DEF Poisoned, IsProc

\* The steps after which the process is alive, or has ended by itself.
LEMMA SigPlain ==
  ASSUME IInv, SigInv, NEW q \in P,
         \/ NextArg(q) \/ Allocate(q) \/ Mremap(q) \/ Iterate(q) \/ Munmap(q) \/ WaitChild(q)
         \/ Exit(q) \/ ChildRw(q) \/ Plain(q) \/ Sleep1(q) \/ Open(q)
  PROVE  SigInv'
<1> DEFINE r == proc[q]
<1>1. IsProc(r) BY DEF IInv, TypeInv
<1>2. PICK n : n = Next1(r) OBVIOUS
<1>3. DOMAIN n = DOMAIN r /\ n.st = r.st /\ n.at = r.at BY <1>1, <1>2 DEF Next1, IsProc
<1>4. ASSUME NEW how, how # "SIGBUS" PROVE Dies(r, how).st # "SIGBUS" BY <1>1, <1>4 DEF Dies, IsProc
<1>5. ASSUME NEW x, Becomes(q, x), recipe' = recipe, x.st # "SIGBUS" PROVE SigInv'
  BY <1>5, SigBecomes
<1>6. CASE NextArg(q)
  <2>1. PICK t : Local(q, [r EXCEPT !.todo = t]) /\ r.st = "alive" BY <1>6 DEF NextArg, At
  <2>2. [r EXCEPT !.todo = t].st = "alive" BY <1>1, <2>1 DEF IsProc
  <2> QED BY <1>5, <2>1, <2>2 DEF Local, env
<1>7. CASE Allocate(q)
  <2>1. r.st = "alive" /\ recipe' = recipe BY <1>7 DEF Allocate, At, env
  <2>2. CASE Becomes(q, Dies(r, "255")) BY <1>4, <1>5, <2>1, <2>2
  <2>3. CASE Becomes(q, [r EXCEPT !.ghp = FALSE, !.todo = SubSeq(@, 5, Len(@))])
    <3>1. [r EXCEPT !.ghp = FALSE, !.todo = SubSeq(@, 5, Len(@))].st = "alive" BY <1>1, <2>1 DEF IsProc
    <3> QED BY <1>5, <2>1, <2>3, <3>1
  <2>4. CASE Becomes(q, [n EXCEPT !.ghp = FALSE, !.ret = "1"])
    <3>1. [n EXCEPT !.ghp = FALSE, !.ret = "1"].st = "alive" BY <1>1, <1>3, <2>1 DEF IsProc
    <3> QED BY <1>5, <2>1, <2>4, <3>1
  <2>5. CASE Becomes(q, [n EXCEPT !.ghp = TRUE, !.at[1] = "lazy", !.ret = "0"])
    <3>1. [n EXCEPT !.ghp = TRUE, !.at[1] = "lazy", !.ret = "0"].st = "alive" BY <1>1, <1>3, <2>1 DEF IsProc
    <3> QED BY <1>5, <2>1, <2>5, <3>1
  <2> QED BY <1>2, <1>7, <2>2, <2>3, <2>4, <2>5 DEF Allocate
<1>8. CASE Mremap(q)
  <2>1. PICK a : Local(q, [n EXCEPT !.ret = "0", !.at = a]) /\ r.st = "alive" BY <1>2, <1>8 DEF Mremap, At
  <2>2. [n EXCEPT !.ret = "0", !.at = a].st = "alive" BY <1>1, <1>3, <2>1 DEF IsProc
  <2> QED BY <1>5, <2>1, <2>2 DEF Local, env
<1>9. CASE Iterate(q)
  <2>1. r.st = "alive" BY <1>9 DEF Iterate, At
  <2>2. CASE r.flag
    <3>1. PICK t : Local(q, [r EXCEPT !.todo = t]) BY <1>9, <2>2 DEF Iterate
    <3>2. [r EXCEPT !.todo = t].st = "alive" BY <1>1, <2>1 DEF IsProc
    <3> QED BY <1>5, <3>1, <3>2 DEF Local, env
  <2>3. CASE ~r.flag
    <3>1. Local(q, n) BY <1>2, <1>9, <2>3 DEF Iterate
    <3> QED BY <1>3, <1>5, <2>1, <3>1 DEF Local, env
  <2> QED BY <2>2, <2>3
<1>10. CASE Munmap(q)
  <2>1. Becomes(q, [n EXCEPT !.at[1] = "none"]) /\ r.st = "alive" /\ recipe' = recipe
    BY <1>2, <1>10 DEF Munmap, At, env
  <2>2. [n EXCEPT !.at[1] = "none"].st = "alive" BY <1>1, <1>3, <2>1 DEF IsProc
  <2> QED BY <1>5, <2>1, <2>2
<1>11. CASE WaitChild(q) \/ Sleep1(q) \/ Open(q)
  <2>1. Local(q, n) /\ r.st = "alive" BY <1>2, <1>11 DEF WaitChild, Sleep1, Open, At
  <2> QED BY <1>3, <1>5, <2>1 DEF Local, env
<1>12. CASE Exit(q)
  <2>1. CASE Local(q, Dies(r, "0")) BY <1>4, <1>5, <2>1 DEF Local, env
  <2>2. CASE At(q, {"exit"}) /\ Local(q, Dies(r, Head1(q).a))
    <3>1. IInv /\ TypeInv /\ IsProc(r) /\ Listed(r.todo) BY <1>1 DEF IInv, IsProc
    <3>2. r.todo # <<>> /\ IsSeq(r.todo) /\ Head1(q) = r.todo[1] /\ Head1(q).k = "exit"
      BY <3>1, <2>2, AtFacts
    <3>3. 1 \in 1 .. Len(r.todo) BY <3>2, SeqFacts
    <3>4. Head1(q).a # "SIGBUS" BY <3>1, <3>2, <3>3 DEF Listed, StepOK
    <3> QED BY <1>4, <1>5, <2>2, <3>4 DEF Local, env
  <2>3. CASE Local(q, Dies(r, StatusOf(proc[1].st)))
    <3>1. StatusOf(proc[1].st) # "SIGBUS" BY DEF StatusOf
    <3> QED BY <1>4, <1>5, <2>3, <3>1 DEF Local, env
  <2> QED BY <1>12, <2>1, <2>2, <2>3 DEF Exit
<1>13. CASE ChildRw(q)
  <2>1. r.st = "alive" /\ recipe' = recipe BY <1>13 DEF ChildRw, At, env
  <2>2. PICK m : m = [n EXCEPT !.at[1] = "lazy", !.ghp = TRUE] OBVIOUS
  <2>3. m.st = "alive" /\ n.st = "alive" BY <1>1, <1>3, <2>1, <2>2 DEF IsProc
  <2>4. PICK x \in {n, m, Dies(r, "255")} : Becomes(q, x) BY <1>2, <1>13, <2>2 DEF ChildRw
  <2> QED BY <1>4, <1>5, <2>1, <2>3, <2>4
<1>14. CASE Plain(q)
  <2>1. r.st = "alive" BY <1>14 DEF Plain, At
  <2>2. PICK f, a, t : \/ Local(q, [n EXCEPT !.flag = f]) \/ Local(q, [n EXCEPT !.ret = a])
                       \/ Local(q, n) \/ Local(q, [n EXCEPT !.todo = t])
    BY <1>2, <1>14 DEF Plain
  <2>3. /\ [n EXCEPT !.flag = f].st = "alive" /\ [n EXCEPT !.ret = a].st = "alive"
        /\ n.st = "alive" /\ [n EXCEPT !.todo = t].st = "alive"
    BY <1>1, <1>3, <2>1 DEF IsProc
  <2> QED BY <1>5, <2>2, <2>3 DEF Local, env
<1> QED BY <1>6, <1>7, <1>8, <1>9, <1>10, <1>11, <1>12, <1>13, <1>14

\* The steps that touch memory, poison pages or make a process.
LEMMA SigOthers ==
  ASSUME IInv, SigInv, NEW q \in P, Access(q) \/ Madvise(q) \/ Fork(q) \/ Write(q)
  PROVE  SigInv'
<1> DEFINE r == proc[q]
<1>1. /\ DOMAIN proc = P /\ \A p \in P : IsProc(proc[p])
      /\ recipe.prog \in {"hugetlb_1gb", "hugetlb_fork_rw"}
  BY RecipesAssumption DEF IInv, TypeInv, IsEnv
<1>2. PICK n : n = Next1(r) OBVIOUS
<1>3. DOMAIN n = DOMAIN r /\ n.st = r.st /\ n.at = r.at BY <1>1, <1>2 DEF Next1, IsProc
<1>4. CASE Access(q)
  <2>1. r.st = "alive" /\ Becomes(q, Touch(r)) /\ recipe' = recipe BY <1>4 DEF Access, At, Local, env
  <2>2. \A b : [n EXCEPT !.at[1] = b, !.ret = "0"].st = "alive" BY <1>1, <1>3, <2>1 DEF IsProc
  <2>3. Touch(r).st = "SIGBUS" => recipe.prog = "hugetlb_fork_rw"
    <3>1. Dies(r, "SIGSEGV").st = "SIGSEGV" BY <1>1 DEF Dies, IsProc
    <3>2. Sigbus(r).st = "SIGBUS" => recipe.prog = "hugetlb_fork_rw"
      <4>1. [r EXCEPT !.todo = SigbusHandler].st = "alive" BY <1>1, <2>1 DEF IsProc
      <4> QED BY <1>1, <4>1 DEF Sigbus
    <3>3. PICK b : b = IF n.at[1] = "lazy" THEN "page" ELSE n.at[1] OBVIOUS
    <3>4. [n EXCEPT !.at[1] = b, !.ret = "0"] = [n EXCEPT !.at[1] = IF @ = "lazy" THEN "page" ELSE @, !.ret = "0"]
      BY <3>3
    <3> QED BY <1>2, <2>2, <3>1, <3>2, <3>4 DEF Touch
  <2> QED BY <2>1, <2>3, SigBecomes
<1>5. CASE Madvise(q)
  <2>1. r.st = "alive" /\ recipe' = recipe BY <1>5 DEF Madvise, At, env
  <2>2. \A a, b : [n EXCEPT !.ret = a].st = "alive" /\ [n EXCEPT !.ret = a, !.at[1] = b].st = "alive"
    BY <1>1, <1>3, <2>1 DEF IsProc
  <2>3. ASSUME NEW a, Becomes(q, [n EXCEPT !.ret = a]) PROVE SigInv' BY <2>1, <2>2, <2>3, SigBecomes
  <2>4. CASE Head1(q).a = "dontneed"
    <3>1. PICK b : Becomes(q, [n EXCEPT !.ret = "0", !.at[1] = b])
      BY <1>2, <1>5, <2>4 DEF Madvise
    <3> QED BY <2>1, <2>2, <3>1, SigBecomes
  <2>5. CASE Head1(q).a = "hwpoison" /\ ~Faulty("inject")
    <3> DEFINE pr == [proc EXCEPT ![q] = [n EXCEPT !.ret = "0"]]
    <3>1. proc' = Poisoned(pr) BY <1>2, <1>5, <2>5 DEF Madvise, Settle
    <3>2. IsProc([n EXCEPT !.ret = "0"]) BY <1>2, FieldProc, <1>1, <2>1, NextProc, <1>5, AtFacts DEF Madvise, IInv
    <3>3. \A p \in P : pr[p] = IF p = q THEN [n EXCEPT !.ret = "0"] ELSE proc[p] BY <1>1
    <3> HIDE DEF pr
    <3>4. \A p \in P : IsProc(pr[p]) BY <1>1, <3>2, <3>3
    <3>5. \A p \in P : proc'[p].st = pr[p].st BY <3>1, <3>4, SigPoisoned
    <3>6. ASSUME NEW p \in P, proc'[p].st = "SIGBUS" PROVE recipe'.prog = "hugetlb_fork_rw"
      <4>1. pr[p].st = "SIGBUS" BY <3>5, <3>6
      <4>2. p # q BY <2>2, <3>3, <4>1
      <4> QED BY <2>1, <3>3, <4>1, <4>2 DEF SigInv
    <3> QED BY <3>6 DEF SigInv
  <2>6. CASE Head1(q).a # "dontneed" /\ ~(Head1(q).a = "hwpoison" /\ ~Faulty("inject"))
    <3>1. PICK a : Becomes(q, [n EXCEPT !.ret = a]) BY <1>2, <1>5, <2>6 DEF Madvise
    <3> QED BY <2>3, <3>1
  <2> QED BY <2>4, <2>5, <2>6
<1>6. CASE Fork(q)
  <2>1. r.st = "alive" /\ recipe' = recipe BY <1>6 DEF Fork, At, env
  <2>2. PICK b : b = IF n.at[1] = "hw" /\ Faulty("copy") THEN "lazy" ELSE n.at[1] OBVIOUS
  <2>3. \A t : [n EXCEPT !.todo = t].st = "alive" /\ [[n EXCEPT !.at[1] = b] EXCEPT !.todo = t].st = "alive"
    BY <1>1, <1>3, <2>1 DEF IsProc
  <2>4. PICK s, t : proc' = [proc EXCEPT ![q] = [n EXCEPT !.todo = s],
                                         ![1] = [[n EXCEPT !.at[1] = b] EXCEPT !.todo = t]]
    <3>1. CASE recipe.prog = "hugetlb_1gb"
      <4>1. proc' = [proc EXCEPT ![q] = [n EXCEPT !.todo = ForkParent \o n.todo],
                                 ![1] = [[n EXCEPT !.at[1] = b] EXCEPT !.todo = ForkChild \o [n EXCEPT !.at[1] = b].todo]]
        BY <1>2, <1>6, <2>2, <3>1 DEF Fork, Settle
      <4> QED BY <4>1
    <3>2. CASE recipe.prog # "hugetlb_1gb"
      <4>1. proc' = [proc EXCEPT ![q] = [n EXCEPT !.todo = RwParent],
                                 ![1] = [[n EXCEPT !.at[1] = b] EXCEPT !.todo = RwChild(Head1(q).a)]]
        BY <1>2, <1>6, <2>2, <3>2 DEF Fork, Settle
      <4> QED BY <4>1
    <3> QED BY <3>1, <3>2
  <2>5. \A p \in P : proc'[p].st = "alive" \/ proc'[p] = proc[p] BY <1>1, <2>3, <2>4 DEF P
  <2> QED BY <2>1, <2>5 DEF SigInv
<1>7. CASE Write(q)
  <2>1. r.st = "alive" /\ recipe' = recipe BY <1>7 DEF Write, At, env
  <2>2. proc' = [proc EXCEPT ![q] = IF rdr THEN n ELSE Dies(r, "SIGPIPE")] BY <1>2, <1>7 DEF Write
  <2>3. Dies(r, "SIGPIPE").st = "SIGPIPE" BY <1>1 DEF Dies, IsProc
  <2>4. proc'[q].st # "SIGBUS" /\ \A p \in P : p # q => proc'[p] = proc[p] BY <1>1, <1>3, <2>1, <2>2, <2>3
  <2> QED BY <2>1, <2>4 DEF SigInv
<1> QED BY <1>4, <1>5, <1>6, <1>7

\* The controller kills with SIGUSR1 and SIGKILL only.
LEMMA SigController ==
  ASSUME IInv, SigInv, OpenRead \/ TakeLine \/ Timeout \/ Command \/ KillAll \/ Cleanup
  PROVE  SigInv'
<1>1. DOMAIN proc = P /\ \A p \in P : IsProc(proc[p]) BY DEF IInv, TypeInv
<1>2. recipe' = recipe BY DEF OpenRead, TakeLine, Timeout, Command, KillAll, Cleanup, env
<1>3. ASSUME NEW p \in P PROVE Signalled(proc[p]).st = proc[p].st
  <2>1. \A t : [proc[p] EXCEPT !.todo = t].st = proc[p].st BY <1>1 DEF IsProc
  <2>2. PICK t : Signalled(proc[p]) = proc[p] \/ Signalled(proc[p]) = [proc[p] EXCEPT !.todo = t]
    BY DEF Signalled
  <2> QED BY <2>1, <2>2
<1>4. CASE Command
  <2>1. CASE UNCHANGED proc BY <1>2, <2>1 DEF SigInv
  <2>2. CASE proc' = Poisoned(proc) BY <1>1, <1>2, <2>2, SigPoisoned DEF SigInv
  <2>3. CASE \E p : proc' = [proc EXCEPT ![p] = Signalled(@)]
    <3>1. PICK p : proc' = [proc EXCEPT ![p] = Signalled(proc[p])] BY <2>3
    <3>2. \A z \in P : proc'[z].st = proc[z].st BY <1>1, <1>3, <3>1
    <3> QED BY <1>2, <3>2 DEF SigInv
  <2> QED BY <1>4, <2>1, <2>2, <2>3 DEF Command
<1>5. CASE KillAll
  <2>1. \A p \in P : proc'[p] = IF proc[p].st = "alive" THEN Dies(proc[p], "SIGKILL") ELSE proc[p]
    BY <1>5 DEF KillAll
  <2>2. \A p \in P : Dies(proc[p], "SIGKILL").st = "SIGKILL" BY <1>1 DEF Dies, IsProc
  <2> QED BY <1>2, <2>1, <2>2 DEF SigInv
<1>6. CASE OpenRead \/ TakeLine \/ Timeout \/ Cleanup
  <2>1. UNCHANGED proc BY <1>6 DEF OpenRead, TakeLine, Timeout, Cleanup
  <2> QED BY <1>2, <2>1 DEF SigInv
<1> QED BY <1>4, <1>5, <1>6

LEMMA NextSigInv == IInv /\ SigInv /\ [Next]_vars => SigInv'
<1>1. SUFFICES ASSUME IInv, SigInv, [Next]_vars PROVE SigInv' OBVIOUS
<1>2. ASSUME NEW q \in P, Step(q) PROVE SigInv' BY <1>1, <1>2, SigPlain, SigOthers DEF Step
<1>3. CASE UNCHANGED vars BY <1>1, <1>3 DEF vars, SigInv
<1> QED BY <1>1, <1>2, <1>3, SigController DEF Next

\* hugetlb_1gb.c, hugetlb_fork_rw.c and __do_test_async: statuses, mappings and
\* phases have their types, a dead process has nothing to do, and hugetlb_1gb,
\* whose handler is in place before anything else, never dies of SIGBUS.
THEOREM HugetlbTypes == Spec => []TypeOK
<1>0. Init => SigInv
  <2>1. SUFFICES ASSUME Init, NEW q \in P PROVE proc[q].st # "SIGBUS" BY DEF SigInv
  <2> QED BY <2>1 DEF Init, Newborn
<1>1. IInv /\ SigInv => TypeOK
  <2>1. SUFFICES ASSUME IInv, SigInv PROVE TypeOK OBVIOUS
  <2>2. TypeInv /\ \A q \in P : proc[q].st = "SIGBUS" => recipe.prog = "hugetlb_fork_rw"
    BY <2>1 DEF IInv, SigInv
  <2>3. ASSUME NEW q \in P
        PROVE  /\ proc[q].st \in {"unborn", "alive", "0", "1", "2", "255"} \cup Signals
               /\ \A i \in 1 .. 2 : proc[q].at[i] \in Mem
               /\ proc[q].st # "alive" => proc[q].todo = <<>>
    <3>1. IsProc(proc[q]) BY <2>2 DEF TypeInv
    <3>2. \A i \in 1 .. 2 : i = 1 \/ i = 2 OBVIOUS
    <3> QED BY <3>1, <3>2 DEF IsProc, Statuses
  <2> QED BY <2>2, <2>3 DEF TypeOK, TypeInv, IsCtl
<1> QED BY <1>0, <1>1, InitIInv, NextIInv, NextSigInv, PTL DEF Spec

\* pprintf (test_core/lib/include.h:224) and `read line <> $PIPE`: while one
\* process at a time writes and the sleeps are long enough, no line is lost and
\* no writer dies of SIGPIPE, for every list of operations, recipe and kernel.
THEOREM LoneWriter == Spec => []LoneWriterIsHeard
<1>1. IInv => LoneWriterIsHeard
  <2>1. SUFFICES ASSUME IInv, ~slow, ~TwoWriters PROVE ~lost BY DEF LoneWriterIsHeard
  <2>2. recipe.prog \in {"hugetlb_1gb", "hugetlb_fork_rw"}
    BY <2>1, RecipesAssumption DEF IInv, TypeInv, IsEnv
  <2> QED BY <2>1, <2>2 DEF IInv, RwInv, LoneInv
<1> QED BY <1>1, InitIInv, NextIInv, PTL DEF Spec
=============================================================================
