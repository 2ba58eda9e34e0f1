------------------------------ MODULE ChunkSet ------------------------------
(***************************************************************************)
(* Where test_alloc_generic puts its memory, and which pages an operation  *)
(* addresses: the address arithmetic of lib/include.h and of setup() in    *)
(* lib/test_alloc_generic.c, in base pages above ADDR_INPUT.               *)
(*                                                                         *)
(* nr_p pages per backend are cut into chunks of CHUNKSIZE pages; chunk k  *)
(* of all backends together starts at k * CHUNKSIZE, so each chunk has a   *)
(* stride of its own, which the last chunk of a backend may fill only in   *)
(* part.                                                                   *)
(***************************************************************************)
EXTENDS Integers

CONSTANTS
  CHUNKSIZE,  \* pages of a chunk (4096)
  HP          \* base pages of a hugepage, HPS / PS (512)

ASSUME ChunkAssumption ==
  /\ HP \in Nat /\ HP > 1
  /\ CHUNKSIZE \in Nat \ {0} /\ CHUNKSIZE % HP = 0

\* size pages from address p on.
Area(p, size) == p .. (p + size - 1)

NrChunk(nr_p) == (nr_p - 1) \div CHUNKSIZE + 1

\* get_size_of_chunked_mmap_area
SizeOfChunk(nr_p, i) ==
  IF i % NrChunk(nr_p) = NrChunk(nr_p) - 1 THEN ((nr_p - 1) % CHUNKSIZE) + 1
                                           ELSE CHUNKSIZE

\* baseaddr of do_mmap
BaseAddr(k) == k * CHUNKSIZE

\* The addresses no other chunk starts in.
Stride(k) == Area(BaseAddr(k), CHUNKSIZE)

\* The pages of chunk k.
ChunkArea(nr_p, k) == Area(BaseAddr(k), SizeOfChunk(nr_p, k))
-----------------------------------------------------------------------------
(* The pages one call of a per-chunk function addresses, for a chunk of    *)
(* size pages at p.                                                        *)

\* i < (size - 1) / HPS + 1: the hugepages the chunk has a page of.
Hugepages(size) == 0 .. ((size - 1) \div HP)

\* A mutant: one iteration too many.
WindowsOneMore(p, size, len) == UNION {Area(p + i * HP, len) : i \in 0 .. (size \div HP)}

\* hp_partial: len pages at the head of each hugepage.
HeadWindows(p, size, len) == UNION {Area(p + i * HP, len) : i \in Hugepages(size)}

\* munmap:hp_partial leaves the last page of each hugepage.
MunmapPartial(p, size) == HeadWindows(p, size, HP - 1)

\* __do_split_thp_chunk: the last page of each hugepage, i * THPS < size.
SplitWindows(p, size) == {p + (i + 1) * HP - 1 : i \in Hugepages(size)}

\* madvise with offset, length and step: windows of length pages, every step
\* pages while i * PS <= size, each cut at the end of the chunk.  An offset
\* beyond the chunk gives a negative length, which madvise refuses.
MadviseSteps(p, size, win) ==
  UNION {Area(p + i, IF i + win.length > size THEN size - i ELSE win.length) :
           i \in {win.offset + m * win.step : m \in 0 .. size} \cap (0 .. size)}
=============================================================================
