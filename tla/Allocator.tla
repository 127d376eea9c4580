----------------------------- MODULE Allocator ------------------------------
(***************************************************************************)
(* What malloc(), free(), calloc() and realloc() promise a client: the     *)
(* block it was given keeps the bytes it wrote there until it gives the    *)
(* block back, whatever is done to other blocks, and realloc() keeps the   *)
(* part that fits.  The client of slot s writes <<s, i>> into cell i of    *)
(* its block, which makes every block's contents unlike any other's.       *)
(***************************************************************************)
EXTENDS Naturals, Sequences

CONSTANTS
  Slots,    \* the client's pointer variables
  MaxLen    \* the longest block

VARIABLE blocks   \* what each slot reads in its block, <<>> when it has none

Pattern(s, n) == [i \in 1..n |-> <<s, i>>]

Init == blocks = [s \in Slots |-> <<>>]

\* malloc into a slot that has no block; the client writes its pattern.
Allocate(s, n) ==
  /\ blocks[s] = <<>>
  /\ blocks' = [blocks EXCEPT ![s] = Pattern(s, n)]

\* calloc: the client finds zeros.
AllocateZeroed(s, n) ==
  /\ blocks[s] = <<>>
  /\ blocks' = [blocks EXCEPT ![s] = [i \in 1..n |-> <<0>>]]

Release(s) == blocks' = [blocks EXCEPT ![s] = <<>>]

\* realloc keeps what fits; the client writes what it has gained.
Resize(s, n) ==
  /\ blocks[s] # <<>>
  /\ blocks' = [blocks EXCEPT ![s] = [i \in 1..n |-> IF i \in DOMAIN @ THEN @[i]
                                                                      ELSE <<s, i>>]]

Next ==
  \E s \in Slots :
    \/ Release(s)
    \/ \E n \in 1..MaxLen : Allocate(s, n) \/ AllocateZeroed(s, n) \/ Resize(s, n)

Spec == Init /\ [][Next]_blocks
=============================================================================
