-------------------------------- MODULE Heap --------------------------------
(***************************************************************************)
(* What malloc_1.cpp and malloc_2.cpp share: the memory of the process,    *)
(* the metadata in front of each block, the lists of blocks and the        *)
(* statistics, and the client that calls the library.                      *)
(*                                                                         *)
(* Memory is a function from mapped addresses to cells.  A cell is the 32  *)
(* bytes of one MallocMetadata: a header takes one cell and a size counts  *)
(* cells, so sizes are multiples of 32 bytes.  A cell holds a header or    *)
(* data, and keeps what it holds until something else is written there:    *)
(* the header of a block that was combined away stays until it is          *)
(* overwritten.  Reading data as a header, or an address that is not       *)
(* mapped, is a fault, after which nothing more is said.                   *)
(***************************************************************************)
EXTENDS Integers, Sequences, FiniteSets, FiniteSetsExt

CONSTANTS
  Slots,           \* the client's pointer variables
  Sizes,           \* the sizes it asks for
  Counts,          \* the counts it passes to scalloc()
  MaxAllocation,   \* MAX_ALLOCATION, in cells
  MaxBrk,          \* bound: cells that sbrk() can give
  Word,            \* size_t arithmetic is modulo Word
  Avoid            \* paths of the code that the client's calls do not take

ASSUME SizesAssumption == Sizes \cup Counts \subseteq Nat /\ MaxAllocation \in Nat
ASSUME MemoryAssumption == MaxBrk \in Nat /\ Word \in Nat \ {0}

VARIABLES
  heap,   \* the process: see Empty
  ptr,    \* what each slot points to
  len     \* how many cells the client asked for there

NULL == 0
Data(x) == [data |-> x]
Junk == Data(<<>>)
Zero == Data(<<0>>)
Header(size, free, prev, next) ==
  [size |-> size, is_free |-> free, prev |-> prev, next |-> next]

\* The process at start.  "took" is history: the paths in question taken so far.
Empty ==
  [mem |-> [a \in {} |-> Junk], brk |-> 0, root |-> NULL, end |-> NULL,
   mmap_head |-> NULL, mmap_end |-> NULL, fault |-> FALSE, took |-> {}]

Fault(h) == [h EXCEPT !.fault = TRUE]
Took(h, path) == [h EXCEPT !.took = @ \cup {path}]
Ret(h, p) == [h |-> h, ret |-> p]

\* Address a holds a header.
Hdr(h, a) == a \in DOMAIN h.mem /\ "size" \in DOMAIN h.mem[a]

\* Following pointer a is a stray access.
Stray(h, a) == a # NULL /\ ~Hdr(h, a)

IsFree(h, a) == Hdr(h, a) /\ h.mem[a].is_free

\* a->f = v
Set(h, a, f, v) == IF Hdr(h, a) THEN [h EXCEPT !.mem[a][f] = v] ELSE Fault(h)

\* The cells of A become mapped, with nothing known of what they hold.
Map(h, A) ==
  [h EXCEPT !.mem = [a \in DOMAIN @ \cup A |-> IF a \in DOMAIN @ THEN @[a] ELSE Junk]]

\* sbrk(n): the old break, or NULL for (void*)-1.
sbrk(h, n) ==
  IF h.brk + n > MaxBrk THEN Ret(h, NULL)
  ELSE Ret([Map(h, h.brk + 1 .. h.brk + n) EXCEPT !.brk = @ + n], h.brk + 1)

\* memmove(to, from, n)
memmove(h, to, from, n) ==
  IF (to .. to + n - 1) \cup (from .. from + n - 1) \subseteq DOMAIN h.mem
    THEN [h EXCEPT !.mem = [a \in DOMAIN @ |-> IF a \in to .. to + n - 1
                                                 THEN @[from + (a - to)] ELSE @[a]]]
    ELSE Fault(h)

\* memset(p, 0, n)
memset(h, p, n) ==
  IF p .. p + n - 1 \subseteq DOMAIN h.mem
    THEN [h EXCEPT !.mem = [a \in DOMAIN @ |-> IF a \in p .. p + n - 1 THEN Zero ELSE @[a]]]
    ELSE Fault(h)

\* The blocks of the list that starts at a, in order; <<>> if it never ends
\* or leaves the memory.
RECURSIVE ListFrom(_, _, _)
ListFrom(h, a, seen) ==
  IF a = NULL THEN seen
  ELSE IF ~Hdr(h, a) \/ \E i \in DOMAIN seen : seen[i] = a THEN <<>>
  ELSE ListFrom(h, h.mem[a].next, Append(seen, a))

\* A walk of the list that starts at a goes astray.
Broken(h, a) == a # NULL /\ ListFrom(h, a, <<>>) = <<>>

\* Mutant: a free block of exactly the size asked for is passed over.
FirstFitStrict(h, a, size) ==
  LET l == ListFrom(h, a, <<>>)
      fit == {i \in DOMAIN l : h.mem[l[i]].size > size /\ h.mem[l[i]].is_free}
  IN IF fit = {} THEN NULL ELSE l[Min(fit)]

\* The first free block of the list that has room for size, or NULL.
FirstFit(h, a, size) ==
  LET l == ListFrom(h, a, <<>>)
      fit == {i \in DOMAIN l : h.mem[l[i]].size >= size /\ h.mem[l[i]].is_free}
  IN IF fit = {} THEN NULL ELSE l[Min(fit)]

-----------------------------------------------------------------------------
(* The statistics: each is a walk of the list from root, and in malloc_2   *)
(* of the one from mmap_head in step with it.                              *)

Blocks(h) == LET r == ListFrom(h, h.root, <<>>) IN {r[i] : i \in DOMAIN r}
MmapBlocks(h) == LET r == ListFrom(h, h.mmap_head, <<>>) IN {r[i] : i \in DOMAIN r}

SumSizes(h, A) == MapThenSumSet(LAMBDA a : h.mem[a].size, A)

_num_free_blocks(h) == Cardinality({a \in Blocks(h) : IsFree(h, a)})

_num_free_bytes(h) == SumSizes(h, {a \in Blocks(h) : IsFree(h, a)})

_num_allocated_blocks(h) == Cardinality(Blocks(h)) + Cardinality(MmapBlocks(h))

_num_allocated_bytes(h) == SumSizes(h, Blocks(h)) + SumSizes(h, MmapBlocks(h))

_num_meta_data_bytes(h) == _num_allocated_blocks(h)

-----------------------------------------------------------------------------
(* The client.                                                             *)

\* It writes its pattern into cells first..n of its block at p.
Fill(h, p, first, n, s) ==
  LET A == p + first - 1 .. p + n - 1
  IN IF A \subseteq DOMAIN h.mem
       THEN [h EXCEPT !.mem = [a \in DOMAIN @ |-> IF a \in A THEN Data(<<s, a - p + 1>>)
                                                             ELSE @[a]]]
       ELSE Fault(h)

\* The headers that the code can still come to from the addresses in A.
RECURSIVE Reach(_, _)
Reach(h, A) ==
  LET B == A \cup UNION {{h.mem[a].prev, h.mem[a].next} : a \in {x \in A : Hdr(h, x)}}
  IN IF B = A THEN A ELSE Reach(h, B)

\* Nothing reads a cell that no slot owns and no pointer leads to before it is
\* written again: what it holds is not told apart.
Forget(h, p, n) ==
  LET used == {s \in Slots : p[s] # NULL}
      owned == UNION {p[s] .. p[s] + n[s] - 1 : s \in used}
      live == Reach(h, {h.root, h.end, h.mmap_head, h.mmap_end} \cup {p[s] - 1 : s \in used})
  IN [h EXCEPT !.mem = [a \in DOMAIN @ |-> IF a \in live \cup owned THEN @[a] ELSE Junk]]

\* What slot s reads in its block.
Contents(s) ==
  IF ptr[s] = NULL THEN <<>>
  ELSE [i \in 1..len[s] |-> LET a == ptr[s] + i - 1
                            IN IF a \in DOMAIN heap.mem /\ ~Hdr(heap, a)
                                 THEN heap.mem[a].data ELSE <<>>]

Init ==
  /\ heap = Empty
  /\ ptr = [s \in Slots |-> NULL]
  /\ len = [s \in Slots |-> 0]

Unused(s) == ~heap.fault /\ ptr[s] = NULL
InUse(s) == ~heap.fault /\ ptr[s] # NULL

\* The call has left the process in state h and slot s with n cells at p.
Returned(s, h, p, n) ==
  /\ h.took \cap Avoid = {}
  /\ ptr' = [ptr EXCEPT ![s] = p]
  /\ len' = [len EXCEPT ![s] = n]
  /\ heap' = Forget(h, ptr', len')

\* An allocation of n cells for slot s returned r.  A null pointer leaves the
\* slot as it was.
Allocated(s, r, n) ==
  IF r.ret = NULL \/ r.h.fault THEN Returned(s, r.h, ptr[s], len[s])
  ELSE Returned(s, r.h, r.ret, n)

\* ... and the client writes the cells it did not have before.
Written(s, r, n) ==
  IF r.ret = NULL \/ r.h.fault THEN r
  ELSE [r EXCEPT !.h = Fill(@, r.ret, len[s] + 1, n, s)]

vars == <<heap, ptr, len>>

\* Sizes, flags and pointers of the metadata have their types, and sbrk() gives
\* no more than there is; no block is longer than the library allows.
TypeOK ==
  /\ heap.brk \in 0..MaxBrk
  /\ heap.fault \in BOOLEAN
  /\ {heap.root, heap.end, heap.mmap_head, heap.mmap_end} \subseteq Nat
  /\ \A a \in DOMAIN heap.mem :
       Hdr(heap, a) => /\ heap.mem[a].size \in Nat /\ heap.mem[a].is_free \in BOOLEAN
                       /\ {heap.mem[a].prev, heap.mem[a].next} \subseteq Nat
  /\ ptr \in [Slots -> Nat]
  /\ len \in [Slots -> 0..MaxAllocation]

-----------------------------------------------------------------------------
(* Properties of both libraries.                                           *)

\* The list from root covers the whole of what sbrk() gave, in address order,
\* without gaps or overlaps; prev is the inverse of next and end is its last
\* block.  split() and combine() rest on it: they compute addresses from sizes.
Tiled ==
  LET l == ListFrom(heap, heap.root, <<>>)
      last == Len(l)
  IN ~heap.fault =>
     IF heap.root = NULL THEN heap.brk = 0 /\ heap.end = NULL
     ELSE /\ last > 0 /\ l[1] = 1 /\ heap.end = l[last]
          /\ \A i \in 1..last :
               LET m == heap.mem[l[i]]
               IN /\ l[i] + m.size + 1 = IF i = last THEN heap.brk + 1 ELSE l[i + 1]
                  /\ m.prev = IF i = 1 THEN NULL ELSE l[i - 1]

\* A block that is not free belongs to exactly one slot of the client, and has
\* the room the client asked for: sfree() and srealloc() leak no block and
\* give none out twice.
Owned ==
  ~heap.fault =>
    /\ \A s \in Slots : ptr[s] # NULL =>
         /\ ptr[s] - 1 \in Blocks(heap) \cup MmapBlocks(heap)
         /\ ~IsFree(heap, ptr[s] - 1)
         /\ len[s] <= heap.mem[ptr[s] - 1].size
    /\ \A a \in Blocks(heap) \cup MmapBlocks(heap) :
         ~IsFree(heap, a) => Cardinality({s \in Slots : ptr[s] = a + 1}) = 1

\* The break moves only when no free block could hold the request, and what
\* sbrk() gave ends in a block in use: the search of the list comes first.
GrowsOnlyWhenNeeded ==
  [][heap'.brk > heap.brk /\ ~heap'.fault =>
       /\ ~IsFree(heap', heap'.end)
       /\ \A a \in Blocks(heap) :
            IsFree(heap, a) => heap.mem[a].size < heap'.mem[heap'.end].size]_vars

\* The statistics account for every cell that the system gave and for every
\* block that the client holds.
StatsAgree ==
  ~heap.fault =>
    /\ _num_allocated_blocks(heap) - _num_free_blocks(heap)
         = Cardinality({s \in Slots : ptr[s] # NULL})
    /\ _num_allocated_bytes(heap) - _num_free_bytes(heap)
         = SumSizes(heap, {ptr[s] - 1 : s \in {x \in Slots : ptr[x] # NULL}})
    /\ _num_allocated_bytes(heap) + _num_meta_data_bytes(heap)
         = heap.brk + SumSizes(heap, MmapBlocks(heap)) + Cardinality(MmapBlocks(heap))

\* No call the client makes ends in a stray read or write.
NoFault == ~heap.fault

\* Every call of the library leaves to the next a well-formed heap: no stray
\* access, metadata of the right types that tile what sbrk() gave, each block
\* free or held by one slot, and statistics that tell so.
WellFormed == NoFault /\ TypeOK /\ Tiled /\ Owned /\ StatsAgree
=============================================================================
