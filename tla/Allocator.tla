----------------------------- MODULE Allocator -----------------------------
(***************************************************************************)
(* What malloc, free, calloc and realloc of the emulated BIOS promise      *)
(* (src/libpcsxcore/psxbios.cpp; BiosHeap is how they keep it): a block    *)
(* that is handed out lies in the heap and apart from every block that has *)
(* not been freed, and none is refused while there is room for it.         *)
(* Addresses and sizes count words; a block has a header before it.        *)
(***************************************************************************)
EXTENDS Integers, Functions

CONSTANTS Size, Requests, NULL

VARIABLES
  blocks,  \* the blocks in use: where each begins, and its size
  v0       \* what the last call returned

vars == <<blocks, v0>>

Span(a, n) == (a-1)..(a+n-1)

Fits(bs, a, n, last) ==
  /\ Span(a, n) \subseteq 0..last
  /\ \A b \in DOMAIN bs : Span(a, n) \cap Span(b, bs[b]) = {}

Init == blocks = <<>> /\ v0 = NULL

Reset == blocks' = <<>> /\ v0' = v0

(* A heap of Size words that has a header before it ends at word Size.     *)
(* That last word may become the header of an empty chunk, which is never  *)
(* used again.                                                             *)
Allocate(bs, n) ==
  \/ \E a \in 1..Size+1 :
       /\ Fits(bs, a, n, Size)
       /\ blocks' = [b \in DOMAIN bs \union {a} |-> IF b = a THEN n ELSE bs[b]]
       /\ v0' = a
  \/ /\ \A a \in 1..Size : ~Fits(bs, a, n, Size - 1)
     /\ blocks' = bs /\ v0' = NULL

Without(a) == Restrict(blocks, DOMAIN blocks \ {a})

Free(a) == blocks' = Without(a) /\ v0' = v0

Next ==
  \/ Reset
  \/ \E n \in Requests : Allocate(blocks, n)
  \/ \E a \in DOMAIN blocks : Free(a) \/ \E n \in Requests : Allocate(Without(a), n)

Spec == Init /\ [][Next]_vars
=============================================================================
