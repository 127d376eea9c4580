------------------------------ MODULE Malloc1 -------------------------------
(***************************************************************************)
(* malloc_1.cpp: first fit over one list of blocks, grown by sbrk().       *)
(* A block is never split, combined or given back.                         *)
(***************************************************************************)
EXTENDS Heap

\* Mutant: end stays at the first block.
appendOldEnd(h, size) ==
  LET s == sbrk(h, size + 1)
      g == [s.h EXCEPT !.mem[s.ret] = Header(size, FALSE, h.end, NULL),
                       !.root = IF @ = NULL THEN s.ret ELSE @,
                       !.end = IF @ = NULL THEN s.ret ELSE @]
  IN IF s.ret = NULL THEN Ret(h, NULL)
     ELSE Ret(IF h.end = NULL THEN g ELSE Set(g, h.end, "next", s.ret), s.ret + 1)

\* A new block at the end of the list.
append(h, size) ==
  LET s == sbrk(h, size + 1)
      g == [s.h EXCEPT !.mem[s.ret] = Header(size, FALSE, h.end, NULL),
                       !.root = IF @ = NULL THEN s.ret ELSE @,
                       !.end = s.ret]
  IN IF s.ret = NULL THEN Ret(h, NULL)
     ELSE Ret(IF h.end = NULL THEN g ELSE Set(g, h.end, "next", s.ret), s.ret + 1)

smalloc(h, size) ==
  LET fit == FirstFit(h, h.root, size)
  IN IF size = 0 \/ size > MaxAllocation THEN Ret(h, NULL)
     ELSE IF Broken(h, h.root) THEN Ret(Fault(h), NULL)
     ELSE IF fit = NULL THEN append(h, size)
     ELSE Ret(Set(h, fit, "is_free", FALSE), fit + 1)

scalloc(h, num, size) ==
  LET product == (num * size) % Word
      r == smalloc(h, product)
      g == IF num * size # product THEN Took(r.h, "wrap") ELSE r.h
  IN IF r.ret = NULL THEN Ret(g, NULL) ELSE Ret(memset(g, r.ret, product), r.ret)

sfree(h, p) ==
  IF p = NULL THEN h
  ELSE IF IsFree(h, p - 1) THEN h ELSE Set(h, p - 1, "is_free", TRUE)

\* Mutant: the data stays behind.
sreallocNoCopy(h, oldp, size) ==
  IF size = 0 \/ size > MaxAllocation THEN Ret(h, NULL)
  ELSE IF oldp = NULL THEN smalloc(h, size)
  ELSE IF size <= h.mem[oldp - 1].size THEN Ret(h, oldp)
  ELSE LET r == smalloc(h, size)
       IN IF r.ret = NULL THEN r ELSE Ret(sfree(r.h, oldp), r.ret)

\* memmove copies size bytes, more than the old block has.  smalloc() returns
\* nullptr when it fails, and the code tests for (void*)-1.
srealloc(h, oldp, size) ==
  IF size = 0 \/ size > MaxAllocation THEN Ret(h, NULL)
  ELSE IF oldp = NULL THEN smalloc(h, size)
  ELSE IF ~Hdr(h, oldp - 1) THEN Ret(Fault(h), NULL)
  ELSE IF size <= h.mem[oldp - 1].size THEN Ret(h, oldp)
  ELSE LET r == smalloc(h, size)
           past == oldp + size - 1 > r.h.brk
           g == IF r.ret = NULL THEN Took(h, "oom")
                ELSE IF past THEN Took(r.h, "overread") ELSE r.h
       IN Ret(sfree(memmove(g, r.ret, oldp, size), oldp), r.ret)

-----------------------------------------------------------------------------
(* The calls of the client.                                                *)

Malloc(s, n) == Unused(s) /\ Allocated(s, Written(s, smalloc(heap, n), n), n)

Calloc(s, k, n) == Unused(s) /\ Allocated(s, scalloc(heap, k, n), k * n)

Free(s) == InUse(s) /\ Returned(s, sfree(heap, ptr[s]), NULL, 0)

Realloc(s, n) ==
  InUse(s) /\ Allocated(s, Written(s, srealloc(heap, ptr[s], n), n), n)

Next ==
  \E s \in Slots :
    \/ Free(s)
    \/ \E n \in Sizes : Malloc(s, n) \/ Realloc(s, n)
    \/ \E k \in Counts, n \in Sizes : Calloc(s, k, n)

Spec == Init /\ [][Next]_vars

-----------------------------------------------------------------------------

Abstract ==
  INSTANCE Allocator WITH blocks <- [s \in Slots |-> Contents(s)],
                          MaxLen <- MaxAllocation

\* malloc_1.cpp keeps the promises of an allocator.
ImplementsAllocator == Abstract!Spec
=============================================================================
