------------------------------ MODULE BiosHeap ------------------------------
(***************************************************************************)
(* The heap of the emulated BIOS (src/libpcsxcore/psxbios.cpp): InitHeap,  *)
(* malloc, free, calloc and realloc.  The heap is a chain of chunks in the *)
(* guest's memory, each with a header that holds its size and whether it   *)
(* is free; free only marks a chunk, and malloc joins what is free before  *)
(* it takes the first chunk that is big enough.                            *)
(*                                                                         *)
(* Addresses and sizes count words from heap_addr.  The guest frees only   *)
(* what it was given, writes only there, and calls InitHeap first.         *)
(***************************************************************************)
EXTENDS Integers, FiniteSetsExt, Functions

CONSTANTS
  Size,      \* what InitHeap is called with, in words: heap_end
  Requests   \* the sizes that are asked for, rounded up to words

ASSUME HeapAssumption == Size \in Nat \ {0} /\ Requests \subseteq Nat

Refused == 0

VARIABLES
  ram,     \* the heap's words, each as the header it would be
  low,     \* is the memory at address 0 as the guest left it?
  blocks,  \* history: the blocks in use, where each begins and its size
  v0       \* what the last call returned

heapVars == <<ram, low, blocks, v0>>

Header(size, free) == [size |-> size, free |-> free]
Data == Header(0, FALSE)

HeapTypeOK ==
  /\ ram \in [0..Size+1 -> [size : 0..Size, free : BOOLEAN]]
  /\ low \in BOOLEAN
  /\ DOMAIN blocks \subseteq 1..Size+1 /\ v0 \in 0..Size+1

(* InitHeap: one free chunk, whose header is not taken off its size.       *)
Fresh(m) == [m EXCEPT ![0] = Header(Size, TRUE)]

HeapInit ==
  /\ ram = Fresh([w \in 0..Size+1 |-> Data]) /\ low = TRUE
  /\ blocks = <<>> /\ v0 = Refused

InitHeap ==
  /\ ram' = Fresh(ram) /\ blocks' = <<>>
  /\ UNCHANGED <<low, v0>>

(* Where the chunks begin, and where the chain leaves the heap.            *)
Following(m, c) == IF c < Size THEN c + m[c].size + 1 ELSE c

Chunks(m) ==
  LET chunk[i \in 0..Size+1] == IF i = 0 THEN 0 ELSE Following(m, chunk[i-1])
  IN  {chunk[i] : i \in 0..Size+1}

(* The first loop of malloc: every run of free chunks becomes one.         *)
IsFree(m, c) == c < Size /\ m[c].free

(* Variant: the headers inside a run are not added.                        *)
RunSizeWithoutHeaders(m, chain, c) ==
  LET end == Min({d \in chain : d > c /\ ~IsFree(m, d)})
  IN  end - Cardinality({d \in chain : c <= d /\ d < end}) - c

RunSize(m, chain, c) == Min({d \in chain : d > c /\ ~IsFree(m, d)}) - c - 1

Combined(m) ==
  LET chain == Chunks(m)
  IN  [w \in DOMAIN m |->
         IF w \in chain /\ IsFree(m, w) THEN Header(RunSize(m, chain, w), TRUE) ELSE m[w]]

(* The second: chunks that are free and big enough.                        *)
Fitting(m, n) == {c \in Chunks(m) : IsFree(m, c) /\ m[c].size >= n}

(* The chunk's words go to the guest, which writes into them; what is left *)
(* of them becomes a chunk.                                                *)
Taken(m, c, n) ==
  [w \in DOMAIN m |->
     CASE w = c -> Header(n, FALSE)
       [] w \in c+1..c+n -> Data
       [] w = c+n+1 /\ m[c].size # n -> Header(m[c].size - n - 1, TRUE)
       [] OTHER -> m[w]]

Allocate(m, bs, n) ==
  LET joined == Combined(m)
      fits   == Fitting(joined, n)
      c      == Min(fits)
  IN IF fits = {} THEN ram' = joined /\ blocks' = bs /\ v0' = Refused
     ELSE /\ ram' = Taken(joined, c, n)
          /\ blocks' = [b \in DOMAIN bs \union {c+1} |-> IF b = c+1 THEN n ELSE bs[b]]
          /\ v0' = c + 1

malloc(n) == Allocate(ram, blocks, n) /\ UNCHANGED low

(* calloc clears the block, or what lies at address 0 if there is none.    *)
calloc(n) ==
  /\ Allocate(ram, blocks, n)
  /\ low' = (low /\ (v0' # Refused \/ n = 0))

Marked(a)  == [ram EXCEPT ![a-1].free = TRUE]
Without(a) == Restrict(blocks, DOMAIN blocks \ {a})

free(a) ==
  /\ ram' = Marked(a) /\ blocks' = Without(a)
  /\ UNCHANGED <<low, v0>>

(* free and malloc: nothing is copied, and the block is lost if there is   *)
(* no room.                                                                *)
realloc(a, n) == Allocate(Marked(a), Without(a), n) /\ UNCHANGED low

HeapNext ==
  \/ InitHeap
  \/ \E n \in Requests : malloc(n) \/ calloc(n)
  \/ \E a \in DOMAIN blocks : free(a) \/ \E n \in Requests : realloc(a, n)

HeapSpec == HeapInit /\ [][HeapNext]_heapVars

-----------------------------------------------------------------------------
(* Over any sequence of calls the chain keeps the promise of Allocator:    *)
(* blocks never overlap or leave the heap, however chunks were split and   *)
(* joined, and a block is refused only if no room of its size lies between *)
(* the blocks that are in use.                                             *)
HeapPromise == INSTANCE Allocator WITH NULL <- Refused
RefinesAllocator == HeapPromise!Spec
=============================================================================
