----------------------------- MODULE PageFlags -----------------------------
(***************************************************************************)
(* Page flags as lib/pfn.h handles them: a flag word is the set of its     *)
(* bits.  A filter text of hotremove:pageflags= is a record of the names   *)
(* on the left and on the right of its '='; a name is what the table       *)
(* page_flag_names makes of it.                                            *)
(***************************************************************************)
EXTENDS Integers, FiniteSets, Sequences

\* Bits of the kernel interface that the recipes' filters speak of.
KPF == [MMAP |-> 11, ANON |-> 12, SWAPBACKED |-> 14, COMPOUND_HEAD |-> 15,
        COMPOUND_TAIL |-> 16, HUGE |-> 17, THP |-> 22, FILE |-> 61]

KPF_ALL_BITS == 0 .. 63
BITS_COMPOUND == {KPF.COMPOUND_HEAD, KPF.COMPOUND_TAIL}

\* What /proc/kpageflags can deliver: bits 48 and up (file, swap, ...) are
\* page-types' own.
RawBits == 0 .. 47
-----------------------------------------------------------------------------
(* Filter texts.                                                           *)

\* A name: whether '~' stands before it, whether it is a prefix of "compound",
\* the bits whose names it is a prefix of, and the bits of the number it is
\* when it is none.
FlagNames == [neg : BOOLEAN, compound : BOOLEAN, bits : SUBSET KPF_ALL_BITS,
              number : SUBSET KPF_ALL_BITS]
Name(bits) == [neg |-> FALSE, compound |-> FALSE, bits |-> bits, number |-> {}]

\* The first name of the table that starts with the text counts.
parse_flag_name(n) ==
  IF n.compound THEN BITS_COMPOUND
  ELSE IF n.bits # {} THEN {b \in n.bits : \A c \in n.bits : b <= c} ELSE n.number

parse_flag_names(S, all) == UNION {parse_flag_name(n) : n \in {x \in S : x.neg => all}}

\* A mutant: the bits to compare with are read from the left side too.
parse_bits_left(t) ==
  [mask |-> parse_flag_names(t.left, FALSE), bits |-> parse_flag_names(t.left, FALSE)]

\* parse_bits_mask: "=bits", "mask=bits", "a,~b", "a,b".
parse_bits_mask(t) ==
  [mask |-> IF t.eq /\ t.left = {} THEN KPF_ALL_BITS
            ELSE parse_flag_names(t.left, ~t.eq /\ \E n \in t.left : n.neg),
   bits |-> IF t.eq THEN parse_flag_names(t.right, FALSE)
            ELSE IF \E n \in t.left : n.neg THEN parse_flag_names(t.left, FALSE)
            ELSE KPF_ALL_BITS]

\* opt_bits of KPF_ALL_BITS asks for any bit of the mask.
Passes(f, flags) ==
  IF f.bits = KPF_ALL_BITS THEN flags \cap f.mask # {} ELSE flags \cap f.mask = f.bits

\* add_bits_filter keeps at most one filter; bit_mask_ok asks all of them.
MAX_BIT_FILTERS == 1
bit_mask_ok(filters, flags) == \A i \in DOMAIN filters : Passes(filters[i], flags)
-----------------------------------------------------------------------------
(* Reading flags.                                                          *)

\* do_u64_read: at the end of the dump it delivers less than was asked for,
\* and the rest of the buffer keeps what was in it.
do_u64_read(buf, dump) == [j \in DOMAIN buf |-> IF j <= Len(dump) THEN dump[j] ELSE buf[j]]

\* pagemap_pfn: page 0 for a page that is not present.
pagemap_pfn(entry) == IF entry.present THEN entry.pfn ELSE 0

\* get_my_pflags returns an int, which widens with its sign again.
get_my_pflags(flags) ==
  {b \in flags : b < 32} \cup (IF 31 \in flags THEN 32 .. 63 ELSE {})

\* check_kpflags tests 1 << kpf: an int, so bit 31 is tested as 31 and up.
check_kpflags(entry, kpageflags, kpf) ==
  get_my_pflags(kpageflags[pagemap_pfn(entry)])
    \cap (IF kpf = 31 THEN 31 .. 63 ELSE {kpf}) # {}
=============================================================================
