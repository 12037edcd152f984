-------------------------------- MODULE Heap --------------------------------
(***************************************************************************)
(* The kernel heap (kernel/mem/kmalloc.c).  Addresses are byte offsets     *)
(* from HEAP_BASE.  The two walks over the headers are modelled one header *)
(* at a time; the kernel calls them with interrupts off, so no other call  *)
(* comes in between.  kmapanon and kunmapanon are taken at what their      *)
(* iterator reaches (mmap.c:13-96, in full in Paging): a range that goes   *)
(* on past the tables counted for it loses its tail.                       *)
(***************************************************************************)
EXTENDS Integers

CONSTANTS
  HDR,       \* sizeof(HeapBlock) (32)
  PAGESIZE,  \* (4096)
  F,         \* entries of a page table (512): kmapanon loses what a range has past it
  Sizes,     \* the sizes callers ask for
  MaxHeap    \* bound of the model: the heap is not asked to grow past it

ASSUME HeapAssumption ==
  /\ HDR \in Nat \ {0} /\ PAGESIZE \in Nat \ {0} /\ F \in Nat \ {0} /\ MaxHeap \in Nat
  /\ Sizes \subseteq Nat

\* bound of the model: the heap stays within one page directory (1 GiB)
ASSUME DirectoryAssumption == MaxHeap <= F * F * PAGESIZE

VARIABLES
  heap_size,  \* gKernel.heap_size
  hdr,        \* header address |-> [used, size], for the headers in memory
  mapped,     \* pages of the heap mapped by kmapanon and not unmapped since
  pc,         \* "idle", the walk in progress ("kmalloc" or "shrink"), or "wild" once
              \* kmapanon has written through a frame it did not get
  blk, best, newSize,  \* the locals of the two walks
  req,        \* kmalloc's argument
  live        \* ghost: address returned |-> size asked for, until kfree

vars == <<heap_size, hdr, mapped, pc, blk, best, newSize, req, live>>

NULL == -1

Ceil(a, b) == (a + b - 1) \div b

page_round(n) == Ceil(n, PAGESIZE) * PAGESIZE

\* how many of n pages from page v on the iterator reaches: no more than the
\* Ceil(n, F) tables it counts have from v on
Reach(v, n) ==
  LET room == (Ceil(n, F) * F) - (v % F)
  IN  IF n < room THEN n ELSE room

\* the pages kmapanon or kunmapanon works on, called for size bytes at a
Walked(a, size) ==
  LET v == a \div PAGESIZE
  IN  v..(v + Reach(v, Ceil(size, PAGESIZE)) - 1)

\* the address of the header after the one at a
After(a) == a + HDR + hdr[a].size
----------------------------------------------------------------------------
\* the first block, at HEAP_BASE
WalkStart == 0

(* kmalloc *)
kmalloc(n) ==
  /\ pc = "idle" /\ heap_size + page_round(n + HDR) <= MaxHeap
  /\ pc' = "kmalloc" /\ req' = n /\ blk' = WalkStart /\ best' = NULL
  /\ UNCHANGED <<heap_size, hdr, mapped, newSize, live>>

\* mutant: the first block that fits is kept
BetterFirst(a) == ~hdr[a].used /\ hdr[a].size >= req /\ best = NULL

\* mutant: a block in use may be chosen
BetterUsed(a) == hdr[a].size >= req /\ (best = NULL \/ hdr[best].size > hdr[a].size)

Better(a) ==
  /\ ~hdr[a].used /\ hdr[a].size >= req
  /\ best = NULL \/ hdr[best].size > hdr[a].size

KmallocStep ==
  /\ pc = "kmalloc" /\ blk < heap_size
  /\ best' = IF Better(blk) THEN blk ELSE best
  /\ blk' = After(blk)
  /\ UNCHANGED <<heap_size, hdr, mapped, pc, newSize, req, live>>

Grant(a) ==
  /\ live' = [b \in DOMAIN live \cup {a} |-> IF b = a THEN req ELSE live[b]]
  /\ pc' = "idle"
  /\ UNCHANGED <<blk, best, newSize, req>>

TakeBest ==
  /\ pc = "kmalloc" /\ blk >= heap_size /\ best # NULL
  /\ hdr' = [hdr EXCEPT ![best] = [used |-> TRUE, size |-> @.size]]
  /\ Grant(best + HDR)
  /\ UNCHANGED <<heap_size, mapped>>

\* mutant: the heap grows by the bytes asked for, not by pages
ExtraSizeBytes == req + HDR

\* make_new_block's extra_size
ExtraSize == page_round(req + HDR)

make_new_block ==
  /\ pc = "kmalloc" /\ blk >= heap_size /\ best = NULL
  /\ heap_size' = heap_size + ExtraSize
  /\ mapped' = mapped \cup Walked(heap_size, ExtraSize)
  /\ hdr' = [b \in DOMAIN hdr \cup {heap_size} |->
               IF b = heap_size THEN [used |-> TRUE, size |-> ExtraSize - HDR] ELSE hdr[b]]
  /\ Grant(heap_size + HDR)

\* kmapanon finds no frame for a page of the new block, and clears it at the
\* address BADPAGE stands for
NoFrame ==
  /\ pc = "kmalloc" /\ blk >= heap_size /\ best = NULL
  /\ pc' = "wild"
  /\ UNCHANGED <<heap_size, hdr, mapped, blk, best, newSize, req, live>>
----------------------------------------------------------------------------
IsLast(a) == a + hdr[a - HDR].size = heap_size

(* kfree of a block handed out; kfree(NULL) changes nothing *)
kfree(a) ==
  /\ pc = "idle" /\ a \in DOMAIN live
  /\ hdr' = [hdr EXCEPT ![a - HDR] = [used |-> FALSE, size |-> @.size]]
  /\ live' = [b \in DOMAIN live \ {a} |-> live[b]]
  /\ IF IsLast(a)
     THEN pc' = "shrink" /\ newSize' = 0 /\ blk' = WalkStart
     ELSE UNCHANGED <<pc, newSize, blk>>
  /\ UNCHANGED <<heap_size, mapped, best, req>>

\* mutant: the walk does not go past a free block
ShrinkStepStuck ==
  /\ pc = "shrink" /\ blk < heap_size
  /\ newSize' = IF hdr[blk].used THEN After(blk) ELSE newSize
  /\ blk' = IF hdr[blk].used THEN After(blk) ELSE blk
  /\ UNCHANGED <<heap_size, hdr, mapped, pc, best, req, live>>

\* mutant: the heap is cut at the start of the last block in use
ShrinkStepStart ==
  /\ pc = "shrink" /\ blk < heap_size
  /\ newSize' = IF hdr[blk].used THEN blk ELSE newSize
  /\ blk' = After(blk)
  /\ UNCHANGED <<heap_size, hdr, mapped, pc, best, req, live>>

ShrinkStep ==
  /\ pc = "shrink" /\ blk < heap_size
  /\ newSize' = IF hdr[blk].used THEN After(blk) ELSE newSize
  /\ blk' = After(blk)
  /\ UNCHANGED <<heap_size, hdr, mapped, pc, best, req, live>>

\* The headers past newSize are out of the heap; the pages that held them go,
\* but for those kunmapanon does not reach.
ShrinkDone ==
  /\ pc = "shrink" /\ blk >= heap_size
  /\ mapped' = mapped \ Walked(newSize, heap_size - newSize)
  /\ hdr' = [b \in {c \in DOMAIN hdr : c < newSize} |-> hdr[b]]
  /\ heap_size' = newSize
  /\ pc' = "idle"
  /\ UNCHANGED <<blk, best, newSize, req, live>>
----------------------------------------------------------------------------
Init ==
  /\ heap_size = 0 /\ hdr = [b \in {} |-> [used |-> FALSE, size |-> 0]] /\ mapped = {}
  /\ pc = "idle" /\ blk = 0 /\ best = NULL /\ newSize = 0 /\ req = 0
  /\ live = [b \in {} |-> 0]

Walk == KmallocStep \/ TakeBest \/ make_new_block \/ NoFrame \/ ShrinkStep \/ ShrinkDone

\* nothing is said of the kernel once it is wild
Stopped == pc = "wild" /\ UNCHANGED vars

Next ==
  \/ \E n \in Sizes : kmalloc(n)
  \/ \E a \in DOMAIN live : kfree(a)
  \/ Walk
  \/ Stopped

Spec == Init /\ [][Next]_vars

\* A call, once made, runs: the kernel is not preempted inside it.
FairSpec == Spec /\ WF_vars(Walk)
----------------------------------------------------------------------------
\* Type invariant (kmalloc.c:5-9, gKernel.heap_size).
TypeOK ==
  /\ heap_size \in Nat /\ newSize \in Nat /\ blk \in Nat /\ req \in Nat
  /\ best \in Nat \cup {NULL}
  /\ pc \in {"idle", "kmalloc", "shrink", "wild"}
  /\ DOMAIN hdr \subseteq Nat /\ hdr \in [DOMAIN hdr -> [used : BOOLEAN, size : Nat]]
  /\ DOMAIN live \subseteq Nat /\ live \in [DOMAIN live -> Nat]
  /\ mapped \subseteq Nat

\* The headers tile the heap: the first is at 0, each is followed by another
\* or by the end, and no header lies inside a block.  The walks depend on it
\* at every step (kmalloc.c:41,69).
Tiling ==
  /\ heap_size > 0 => 0 \in DOMAIN hdr
  /\ \A a \in DOMAIN hdr :
       /\ a < heap_size
       /\ After(a) \in DOMAIN hdr \cup {heap_size}
       /\ \A b \in DOMAIN hdr : a < b => After(a) <= b

\* A walk never leaves the headers, and stops at the end of the heap.
WalkInHeap ==
  pc # "idle" => blk \in DOMAIN hdr \cup {heap_size}

\* Each block handed out has a header in use, large enough, and no header is
\* in use for nobody (between calls, and during shrink's walk too).
LiveIsUsed ==
  /\ \A a \in DOMAIN live : /\ a - HDR \in DOMAIN hdr
                            /\ hdr[a - HDR].used /\ hdr[a - HDR].size >= live[a]
  /\ \A b \in DOMAIN hdr : hdr[b].used => b + HDR \in DOMAIN live

\* a growth at a for this block stays within the tables its walk counts
InTables(a) ==
  LET n == Ceil(HDR + hdr[a].size, PAGESIZE)
  IN  ((a \div PAGESIZE) % F) + n <= Ceil(n, F) * F

\* shrink never unmaps, and no growth leaves out, a page that is used: the
\* pages of all headers, which every walk reads, and all bytes of the blocks
\* handed out, but for those past the end of the tables their growth counted
\* (kmalloc.c:19,44, mmap.c:24).
BlocksBacked ==
  /\ \A a \in DOMAIN hdr : a \div PAGESIZE \in mapped
  /\ \A b \in DOMAIN live : InTables(b - HDR) =>
       \A x \in b..(b + live[b] - 1) : x \div PAGESIZE \in mapped

\* Except while shrink is at work the heap never ends in a free block: kfree
\* of the last block trims every free block before it (kmalloc.c:91-92).
NoFreeTail ==
  pc # "shrink" /\ heap_size > 0 =>
    \E a \in DOMAIN hdr : hdr[a].used /\ After(a) = heap_size

\* kmalloc takes a smallest free block that fits, and grows the heap only
\* when none fits (kmalloc.c:60-78).
BestFit ==
  [][ /\ TakeBest => \A a \in DOMAIN hdr : ~hdr[a].used /\ hdr[a].size >= req =>
                        hdr[best].size <= hdr[a].size
      /\ make_new_block => \A a \in DOMAIN hdr : ~hdr[a].used => hdr[a].size < req ]_vars

\* Half way through kmalloc's walk: best is the smallest free block that fits
\* of those passed (kmalloc.c:62-67).
BestSoFar ==
  pc = "kmalloc" =>
    /\ req \in Sizes /\ heap_size + ExtraSize <= MaxHeap
    /\ best # NULL => best \in DOMAIN hdr /\ ~hdr[best].used /\ hdr[best].size >= req
    /\ \A a \in DOMAIN hdr : a < blk /\ ~hdr[a].used /\ hdr[a].size >= req =>
                               best # NULL /\ hdr[best].size <= hdr[a].size

\* Half way through shrink's walk: newSize is the end of the last block in use
\* of those passed (kmalloc.c:37-42).
KeepsUsed ==
  pc = "shrink" =>
    /\ newSize \in DOMAIN hdr \cup {heap_size} /\ newSize <= blk
    /\ \A a \in DOMAIN hdr : a < blk /\ hdr[a].used => After(a) <= newSize
    /\ newSize > 0 => \E a \in DOMAIN hdr : hdr[a].used /\ After(a) = newSize

\* The inductive invariant of the heap.
IInv ==
  /\ TypeOK /\ heap_size <= MaxHeap
  /\ Tiling /\ WalkInHeap /\ LiveIsUsed /\ NoFreeTail
  /\ BestSoFar /\ KeepsUsed

\* Every call of kmalloc or kfree comes back, or runs out of frames
\* (kmalloc.c:37-42,60-70, mmap.c:102).
CallsReturn == pc # "idle" ~> pc \in {"idle", "wild"}

A == INSTANCE Arena WITH Addrs <- 0..MaxHeap

\* The heap implements the arena its callers rely on: no block kmalloc hands
\* out meets one that was not freed (kmalloc.c:48-93).
RefinesArena == A!Spec
=============================================================================
