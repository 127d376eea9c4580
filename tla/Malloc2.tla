------------------------------ MODULE Malloc2 -------------------------------
(***************************************************************************)
(* malloc_2.cpp: blocks are split and combined, the topmost block grows,   *)
(* and requests of Limit or more are served by mmap().  The functions of   *)
(* the library are operators from one state of the process to the next.    *)
(*                                                                         *)
(* Paths recorded in heap.took, on which the code goes wrong:              *)
(*   "wrap"   scalloc(): num*size does not fit in size_t                   *)
(*   "oom"    srealloc(): smalloc() fails, and memmove() gets nullptr      *)
(*   "low"    srealloc() combines with the block below (1.b and 1.d)       *)
(*   "mmap2"  smallocMmap() with a block already mapped and none to reuse  *)
(*   "tag"    sfree() takes an sbrk block for a mapped one, or conversely  *)
(*   "cut"    srealloc() splits a mapped block                             *)
(*   "beside" srealloc() shrinks a block that has a free one above it      *)
(***************************************************************************)
EXTENDS Heap

CONSTANTS
  Limit,      \* MMAP_ALLOCATION_LIMIT, in cells
  SplitMin,   \* the 128 bytes that a block split off has at least, in cells
  Page,       \* the page size, in cells
  MaxMmap     \* bound: pages that mmap() can give

ASSUME LimitAssumption == {Limit, SplitMin, Page} \subseteq Nat \ {0} /\ MaxMmap \in Nat

MmapBase == Page * (MaxBrk \div Page + 1) + 1
PageOf(k) == MmapBase + k * Page .. MmapBase + (k + 1) * Page - 1
Pages(n) == (n + Page - 1) \div Page

\* mmap(n): the lowest pages that are free; NULL stands for (void*)-1.
mmap(h, n) ==
  LET area(k) == UNION {PageOf(j) : j \in k .. k + Pages(n) - 1}
      room == {k \in 0 .. MaxMmap - Pages(n) : area(k) \cap DOMAIN h.mem = {}}
  IN IF room = {} THEN Ret(h, NULL)
     ELSE Ret(Map(h, area(Min(room))), MmapBase + Min(room) * Page)

\* munmap(a, n) works on whole pages, and fails if a does not start one.
munmap(h, a, n) ==
  IF a % Page # 1 % Page THEN h
  ELSE [h EXCEPT !.mem = [x \in DOMAIN @ \ (a .. a + Pages(n) * Page - 1) |-> @[x]]]

-----------------------------------------------------------------------------

split(h, place, size) ==
  LET p == h.mem[place]
      new == place + size + 1
      g == [h EXCEPT !.mem[new] = Header(p.size - size - 1, TRUE, place, p.next)]
      k == IF p.next = NULL THEN g ELSE Set(g, p.next, "prev", new)
  IN [k EXCEPT !.mem[place] = Header(size, p.is_free, p.prev, new),
               !.end = IF place = @ THEN new ELSE @]

\* Mutant: the metadata of the second block is not counted.
combineShort(h, first, second) ==
  LET s == h.mem[second]
      g == [h EXCEPT !.mem[first].size = @ + s.size, !.mem[first].next = s.next,
                     !.mem[first].is_free = TRUE, !.end = IF second = @ THEN first ELSE @]
  IN IF s.next = NULL THEN g ELSE Set(g, s.next, "prev", first)

combine(h, first, second) ==
  IF ~Hdr(h, first) \/ ~Hdr(h, second) THEN Fault(h)
  ELSE LET f == h.mem[first]
           s == h.mem[second]
           g == [h EXCEPT !.mem[first] = Header(f.size + s.size + 1, TRUE, f.prev, s.next),
                          !.end = IF second = @ THEN first ELSE @]
       IN IF s.next = NULL THEN g ELSE Set(g, s.next, "prev", first)

\* A free block that has room: its rest is split off if it is large enough.
reuse(h, fit, size) ==
  LET g == IF h.mem[fit].size >= SplitMin + 1 + size THEN split(h, fit, size) ELSE h
  IN Ret(Set(g, fit, "is_free", FALSE), fit + 1)

smallocSbrk(h, size) ==
  LET fit == FirstFit(h, h.root, size)
      grow == h.root # NULL /\ IsFree(h, h.end)
      s == sbrk(h, IF grow THEN size - h.mem[h.end].size ELSE size + 1)
      g == [s.h EXCEPT !.mem[s.ret] = Header(size, FALSE, h.end, NULL), !.end = s.ret]
  IN IF Broken(h, h.root) THEN Ret(Fault(h), NULL)
     ELSE IF fit # NULL THEN reuse(h, fit, size)
     ELSE IF s.ret = NULL THEN Ret(h, NULL)
     ELSE IF grow
       THEN Ret(Set(Set(s.h, h.end, "size", size), h.end, "is_free", FALSE), h.end + 1)
     ELSE IF h.root = NULL THEN Ret([g EXCEPT !.root = s.ret], s.ret + 1)
     ELSE Ret(Set(g, h.end, "next", s.ret), s.ret + 1)

\* The last two cases use "end", the last block of the other list.
smallocMmap(h, size) ==
  LET fit == FirstFit(h, h.mmap_head, size)
      m == mmap(h, size + 1)
      g == [m.h EXCEPT !.mem[m.ret] = Header(size, FALSE, NULL, NULL),
                       !.mmap_head = m.ret, !.mmap_end = m.ret]
      more == h.mem[h.end].size
      e == IF more >= size THEN Ret(h, NULL) ELSE mmap(h, size - more)
      k == [m.h EXCEPT !.mem[m.ret] = Header(size, FALSE, h.end, NULL), !.end = m.ret]
      wrong(r) == Ret(Took(r.h, "mmap2"), r.ret)
  IN IF h.mmap_head = NULL THEN IF m.ret = NULL THEN Ret(h, NULL) ELSE Ret(g, m.ret + 1)
     ELSE IF Broken(h, h.mmap_head) THEN Ret(Fault(h), NULL)
     ELSE IF fit # NULL THEN reuse(h, fit, size)
     ELSE IF Stray(h, h.mmap_end) THEN Ret(Fault(h), NULL)
     ELSE IF IsFree(h, h.mmap_end)
       THEN wrong(IF ~Hdr(h, h.end) THEN Ret(Fault(h), NULL)
                  ELSE IF e.ret = NULL THEN Ret(h, NULL)
                  ELSE Ret(Set(Set(e.h, h.mmap_end, "size", size), h.mmap_end, "is_free", FALSE),
                           h.mmap_end + 1))
     ELSE wrong(IF m.ret = NULL THEN Ret(h, NULL)
                ELSE Ret(Set(k, h.end, "next", m.ret), m.ret + 1))

smalloc(h, size) ==
  IF size = 0 \/ size > MaxAllocation THEN Ret(h, NULL)
  ELSE IF size < Limit THEN smallocSbrk(h, size) ELSE smallocMmap(h, size)

scalloc(h, num, size) ==
  LET product == (num * size) % Word
      r == smalloc(h, product)
      g == IF num * size # product THEN Took(r.h, "wrap") ELSE r.h
  IN IF r.ret = NULL THEN Ret(g, NULL) ELSE Ret(memset(g, r.ret, product), r.ret)

-----------------------------------------------------------------------------

\* Mutant: only the block below is combined.
freeSbrkDown(h, b) ==
  LET m == h.mem[b]
  IN Set(IF m.prev # NULL /\ IsFree(h, m.prev) THEN combine(h, m.prev, b) ELSE h,
         b, "is_free", TRUE)

\* sfree() of a block that is on the list from root.
freeSbrk(h, b) ==
  LET m == h.mem[b]
      up == m.next # NULL /\ IsFree(h, m.next) /\ (b = h.root \/ b # h.end)
      down == m.prev # NULL /\ IsFree(h, m.prev)
      g == IF up THEN combine(h, b, m.next) ELSE h
      k == IF down THEN combine(g, m.prev, b) ELSE g
  IN IF Stray(h, m.next) \/ Stray(h, m.prev) THEN Fault(h)
     ELSE Set([k EXCEPT !.end = IF b = h.root /\ m.next = NULL THEN b ELSE @],
              b, "is_free", TRUE)

\* sfree() of a block that is on the list from mmap_head.
freeMmap(h, b) ==
  LET m == h.mem[b]
      g == IF m.prev = NULL
             THEN LET k == [h EXCEPT !.mmap_head = m.next]
                  IN IF m.next = NULL THEN k ELSE Set(k, m.next, "prev", NULL)
           ELSE IF m.next = NULL
             THEN IF ~Hdr(h, h.mmap_end) THEN Fault(h)
                  ELSE LET e == h.mem[h.mmap_end].prev
                       IN Set([h EXCEPT !.mmap_end = e], e, "next", NULL)
           ELSE Set(Set(h, m.prev, "next", m.next), m.next, "prev", m.prev)
  IN IF g.fault THEN g ELSE munmap(g, b, m.size + 1)

sfree(h, p) ==
  LET b == p - 1
  IN IF p = NULL \/ IsFree(h, b) THEN h
     ELSE IF ~Hdr(h, b) THEN Fault(h)
     ELSE LET mmaped == h.mem[b].size >= Limit
              g == IF mmaped # (b >= MmapBase) THEN Took(h, "tag") ELSE h
          IN IF mmaped THEN freeMmap(g, b) ELSE freeSbrk(g, b)

-----------------------------------------------------------------------------

\* The block that srealloc() makes large enough by combining (1.b to 1.d), or
\* NULL, and the state of the process after that.
merge(h, b, size) ==
  LET m == h.mem[b]
      sz(a) == h.mem[a].size
      low == m.prev # NULL /\ IsFree(h, m.prev)
      high == m.next # NULL /\ IsFree(h, m.next)
      joined(g, a) == Ret(Set(g, a, "is_free", FALSE), a)
  IN IF Stray(h, m.prev) \/ Stray(h, m.next) THEN Ret(Fault(h), b)
     ELSE IF low /\ sz(m.prev) + m.size + 1 >= size
       THEN joined(Took(combine(h, m.prev, b), "low"), m.prev)
     ELSE IF high /\ sz(m.next) + m.size + 1 >= size
       THEN joined(combine(h, b, m.next), b)
     ELSE IF low /\ high /\ sz(m.prev) + sz(m.next) + m.size + 2 >= size
       THEN joined(Took(combine(combine(h, m.prev, b), m.prev, m.next), "low"), m.prev)
     ELSE Ret(h, NULL)

\* Split the rest of block b off if it is large enough.
trim(h, b, size) ==
  IF h.mem[b].size - size >= SplitMin + 1 THEN split(h, b, size) ELSE h

\* Mutant: the data is not copied.
moveEmpty(h, to, oldp, tocopy) == Ret(IF to = oldp THEN h ELSE sfree(h, oldp), to)

\* The data is copied, and the block it came from is freed if it is another.
move(h, to, oldp, tocopy) ==
  LET g == memmove(h, to, oldp, tocopy)
  IN Ret(IF g.fault \/ to = oldp THEN g ELSE sfree(g, oldp), to)

\* 1.a: the block is large enough.
shrink(h, b, size) ==
  LET g == trim(h, b, size)
      k == IF IsFree(g, b) THEN Set(g, b, "size", size) ELSE g
      paths == (IF g # h /\ b >= MmapBase THEN {"cut"} ELSE {})
               \cup (IF g # h /\ IsFree(h, h.mem[b].next) THEN {"beside"} ELSE {})
  IN [Set(k, b, "is_free", FALSE) EXCEPT !.took = @ \cup paths]

\* smalloc() returns nullptr when it fails, and the code tests for (void*)-1.
srealloc(h, oldp, size) ==
  LET b == oldp - 1
      tocopy == h.mem[b].size
      d == merge(h, b, size)
      r == smalloc(h, size)
  IN IF size = 0 \/ size > MaxAllocation THEN Ret(h, NULL)
     ELSE IF oldp = NULL THEN smalloc(h, size)
     ELSE IF ~Hdr(h, b) THEN Ret(Fault(h), NULL)
     ELSE IF size <= tocopy THEN Ret(shrink(h, b, size), oldp)
     ELSE IF d.ret # NULL THEN move(trim(d.h, d.ret, size), d.ret + 1, oldp, tocopy)
     ELSE IF r.ret = NULL THEN Ret(Fault(Took(r.h, "oom")), NULL)
     ELSE move(r.h, r.ret, oldp, tocopy)

-----------------------------------------------------------------------------
(* The calls of the client.                                                *)

Malloc(s, n) == Unused(s) /\ Allocated(s, Written(s, smalloc(heap, n), n), n)

Calloc(s, k, n) == Unused(s) /\ Allocated(s, scalloc(heap, k, n), k * n)

Free(s) == InUse(s) /\ Returned(s, sfree(heap, ptr[s]), NULL, 0)

Realloc(s, n) ==
  InUse(s) /\ Allocated(s, Written(s, srealloc(heap, ptr[s], n), n), n)

Next ==
  \E s \in Slots :
    \/ Free(s)
    \/ \E n \in Sizes : Malloc(s, n) \/ Realloc(s, n)
    \/ \E k \in Counts, n \in Sizes : Calloc(s, k, n)

Spec == Init /\ [][Next]_vars

-----------------------------------------------------------------------------

\* No two free blocks are neighbours: sfree() combines them.
NoAdjacentFree ==
  \A a \in Blocks(heap) :
    IsFree(heap, a) /\ heap.mem[a].next # NULL => ~IsFree(heap, heap.mem[a].next)

\* ... as long as srealloc() has not split a block below a free one.
FreeCombined == "beside" \notin heap.took /\ ~heap.fault => NoAdjacentFree

\* A block in use has less to spare than a split would need, whatever sequence
\* of reuse, shrinking, merging and growing it went through.
LittleWaste ==
  ~heap.fault =>
    \A s \in Slots : ptr[s] # NULL => heap.mem[ptr[s] - 1].size - len[s] < SplitMin + 1

\* The two answers of malloc_2.cpp to fragmentation hold together: sfree() leaves
\* no free neighbours, and no block in use keeps what could be split off.
Unfragmented == FreeCombined /\ LittleWaste

Abstract ==
  INSTANCE Allocator WITH blocks <- [s \in Slots |-> Contents(s)],
                          MaxLen <- MaxAllocation

\* malloc_2.cpp keeps the promises of an allocator to a client whose calls
\* stay off the paths in Avoid.
ImplementsAllocator == Abstract!Spec
=============================================================================
