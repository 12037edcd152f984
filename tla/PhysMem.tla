------------------------------ MODULE PhysMem ------------------------------
(***************************************************************************)
(* The physical page allocator of the kernel (kernel/mem/alloc_page.c) and *)
(* the early allocations that precede it (arch/x86/mem.c).                 *)
(*                                                                         *)
(* Addresses are page-frame numbers: a region is [base, n], n the number   *)
(* of whole pages in it.  A bitmap is the set of its CLEAR bits, because a *)
(* clear bit is what "free" means to the code (memset 0xff = no element).  *)
(* The machine word sizes the code depends on are constants, so that a     *)
(* small instance meets the same boundaries as the real one.               *)
(***************************************************************************)
EXTENDS Integers, Sequences, FiniteSets, FiniteSetsExt

CONSTANTS
  PMB_COUNT,      \* size of PhysicalMemoryAllocator.blocks (16)
  PMB_MAX_ORDER,  \* bitmaps kept per zone (8)
  BYTE, INT, WORD,\* bits in a uint8_t, an int and a uint64_t (8, 32, 64)
  PAGE_BITS,      \* PAGESIZE * 8
  UINT_PAGES,     \* 2^32 / PAGESIZE: j * PAGESIZE is unsigned int arithmetic
  MemMap,         \* gBootParams.mem_map, a sequence of [base, n]
  MemFree,        \* gBootParams.mem_free as the boot loader leaves it
  EarlyPages,     \* pages arch_init_physical_mapping may need ({1, 1 + 512})
  InitramFrame,   \* the (virtual) page number init_mem frees the initram at
  InitramPages,   \* page_count(gBootParams.initram_size)
  MaxRun          \* bound on the npages of alloc_phys_pages/free_phys_pages

Zones  == DOMAIN MemMap
Orders == 0..(PMB_MAX_ORDER - 1)

FramesOf(reg) == reg.base..(reg.base + reg.n - 1)
ZoneFrames    == UNION {FramesOf(MemMap[z]) : z \in Zones}

\* bitmap_off after j halvings
Up(off, j) == off \div 2^j

RegionType == [base : Nat, n : Nat]

ASSUME SizeAssumption ==
  /\ PMB_MAX_ORDER \in 1..8 /\ PMB_COUNT \in Nat /\ UINT_PAGES \in Nat \ {0}
  /\ BYTE \in Nat \ {0} /\ INT \in Nat /\ WORD \in Nat \ {0} /\ PAGE_BITS \in Nat \ {0}
  /\ MaxRun \in Nat /\ InitramPages \in Nat /\ InitramFrame \in Nat
  /\ EarlyPages \subseteq Nat

\* What memory_detect hands over: zones that do not overlap, fewer than
\* PMB_COUNT, for alloc_phys_pages looks for the empty block after the last one
\* (alloc_page.c:105-110), and free regions that are disjoint parts of the zones.
ASSUME MapAssumption ==
  /\ MemMap \in Seq(RegionType) /\ MemFree \in Seq(RegionType)
  /\ Len(MemMap) < PMB_COUNT
  /\ \A y, z \in Zones : y # z => FramesOf(MemMap[y]) \cap FramesOf(MemMap[z]) = {}
  /\ \A r \in DOMAIN MemFree : FramesOf(MemFree[r]) \subseteq ZoneFrames
  /\ \A r, s \in DOMAIN MemFree :
        r # s => FramesOf(MemFree[r]) \cap FramesOf(MemFree[s]) = {}

\* The initram is freed by its address in the top 4 GiB of virtual memory,
\* which lies in no zone of physical memory.
ASSUME InitramAssumption ==
  /\ InitramFrame \notin ZoneFrames
  /\ FramesOf([base |-> InitramFrame, n |-> InitramPages]) \cap ZoneFrames = {}

VARIABLES
  pc,          \* the phase of boot the allocator is in
  todo,        \* pages arch_init_physical_mapping still allocates
  z, j, bsp,   \* init_physical_memory: zone i, order j, bitmap_size_pages
  r, k,        \* init_physical_memory: region i, page j
  mem_free,    \* gBootParams.mem_free
  cap,         \* bits each bitmap has room for
  bitmap,      \* clear bits of mblock->bitmap[order], per zone
  pages_total, pages_free,
  job,         \* the free_phys_pages call in progress: page, npages and its i
  ret,         \* the last alloc_phys_pages call: its argument and result
  initram,     \* "mapped" until init_mem frees it
  taken,       \* ghost: frames alloc_phys_early gave away
  owned        \* ghost: frames given by alloc_phys_pages and not freed

bootvars == <<todo, z, j, bsp, r, k, mem_free, cap, pages_total, taken>>
vars == <<pc, bootvars, bitmap, pages_free, job, ret, initram, owned>>

BADPAGE == -1
NoCall  == [npages |-> 0, page |-> -2]
NoJob   == [page |-> 0, npages |-> 0, i |-> 0]

FreeFrames == UNION {{MemMap[y].base + o : o \in bitmap[y][0]} : y \in Zones}
InFlight   == (job.page + job.i)..(job.page + job.npages - 1)
EarlyPool  == UNION {FramesOf(mem_free[s]) : s \in DOMAIN mem_free}
CeilDiv(a, b) == (a + b - 1) \div b
----------------------------------------------------------------------------
(* alloc_phys_early: the first region large enough, bumped *)
FirstFit(n, i) ==
  /\ i \in DOMAIN mem_free /\ mem_free[i].n >= n
  /\ \A h \in DOMAIN mem_free : h < i => mem_free[h].n < n

\* mutant: the search gives up after the first region
NoFitFirst(n) == mem_free[1].n < n

NoFit(n) == \A i \in DOMAIN mem_free : mem_free[i].n < n

Bump(n, i) ==
  /\ FirstFit(n, i)
  /\ mem_free' = [mem_free EXCEPT ![i] = [base |-> @.base + n, n |-> @.n - n]]
  /\ taken' = taken \cup FramesOf([base |-> mem_free[i].base, n |-> n])

alloc_phys_early(n) == \E i \in DOMAIN mem_free : Bump(n, i)

\* Nothing fits: 0 is returned, no caller checks it, and what it writes next
\* lands in frame 0.  Nothing is claimed of the machine from here on.
EarlyFails(n) == NoFit(n) /\ pc' = "wild" /\ UNCHANGED <<mem_free, taken>>
----------------------------------------------------------------------------
(* mark_page_free / mark_page_used *)
InZone(f, y) == f \in FramesOf(MemMap[y])

\* The test of line 20 after bit o was cleared in bits.  The byte is the one
\* o is in, but the mask 3 << (o & ~1) is not reduced to a byte: it is exact
\* in the first byte, empty up to the width of int, and undefined past it.
BuddyClear(bits, o, ub) ==
  LET s == o - (o % 2) IN
    CASE s < BYTE -> {s, s + 1} \subseteq bits
      [] s >= BYTE /\ s < INT -> TRUE
      [] OTHER -> ub \/ {s, s + 1} \subseteq bits

\* The orders whose bit is cleared for offset off: every one up to the first
\* whose buddy test fails.  ub holds the orders whose undefined test passes.
ClimbFree(bm, off, ub) ==
  {l \in Orders : \A h \in 0..(l - 1) :
                    BuddyClear(bm[h] \cup {Up(off, h)}, Up(off, h), h \in ub)}

\* mutant: the early return is one order too eager
ClimbUsedShort(bm, off) == {l \in Orders : l = 0 /\ Up(off, l) \in bm[l]}

\* mutant: the page's own bit is not set
ClimbUsedAbove(bm, off) == {l \in Orders : l > 0 /\ \A h \in 0..l : Up(off, h) \in bm[h]}

\* The orders whose bit is set: every one up to the first already set.
ClimbUsed(bm, off) == {l \in Orders : \A h \in 0..l : Up(off, h) \in bm[h]}

mark_page_free(bm, f, ub) ==
  [y \in Zones |->
     IF InZone(f, y)
     THEN LET off == f - MemMap[y].base IN
          [l \in Orders |-> IF l \in ClimbFree(bm[y], off, ub)
                            THEN bm[y][l] \cup {Up(off, l)} ELSE bm[y][l]]
     ELSE bm[y]]

mark_page_used(bm, f) ==
  [y \in Zones |->
     IF InZone(f, y)
     THEN LET off == f - MemMap[y].base IN
          [l \in Orders |-> IF l \in ClimbUsed(bm[y], off)
                            THEN bm[y][l] \ {Up(off, l)} ELSE bm[y][l]]
     ELSE bm[y]]
----------------------------------------------------------------------------
(* arch_init_physical_mapping: one page, and 512 more without 1 GiB pages *)
MapPhysical ==
  /\ pc = "mapping" /\ todo > 0
  /\ \/ alloc_phys_early(1) /\ todo' = todo - 1 /\ pc' = pc
     \/ EarlyFails(1) /\ todo' = todo
  /\ UNCHANGED <<z, j, bsp, r, k, cap, bitmap, pages_total, pages_free, job, ret, initram, owned>>

MappingDone ==
  /\ pc = "mapping" /\ todo = 0
  /\ pc' = "zones"
  /\ UNCHANGED <<bootvars, bitmap, pages_free, job, ret, initram, owned>>

(* init_physical_memory, first loop: one bitmap per step *)

\* mutant: whole pages of bits only
BitmapPagesFloor == IF j = 0 THEN MemMap[z].n \div PAGE_BITS ELSE bsp

BitmapPages == IF j = 0 THEN CeilDiv(MemMap[z].n, PAGE_BITS) ELSE bsp

\* the last bitmap of a zone
LastOrder == j + 1 \notin Orders

InitBitmap ==
  /\ pc = "zones" /\ z \in Zones
  /\ alloc_phys_early(BitmapPages)
  /\ cap' = [cap EXCEPT ![z][j] = BitmapPages * PAGE_BITS]
  /\ bitmap' = [bitmap EXCEPT ![z][j] = {}]
  /\ pages_total' = IF j = 0 THEN pages_total + MemMap[z].n ELSE pages_total
  /\ bsp' = (BitmapPages + 1) \div 2
  /\ IF LastOrder THEN j' = 0 /\ z' = z + 1 ELSE j' = j + 1 /\ z' = z
  /\ UNCHANGED <<pc, todo, r, k, pages_free, job, ret, initram, owned>>

BitmapFails ==
  /\ pc = "zones" /\ z \in Zones
  /\ EarlyFails(BitmapPages)
  /\ UNCHANGED <<todo, z, j, bsp, r, k, cap, bitmap, pages_total, pages_free, job, ret, initram, owned>>

ZonesDone ==
  /\ pc = "zones" /\ z \notin Zones
  /\ pc' = "unmark"
  /\ UNCHANGED <<bootvars, bitmap, pages_free, job, ret, initram, owned>>

(* init_physical_memory, second loop: one page per step.  The offset *)
(* j * PAGESIZE wraps at 2^32 bytes.                                 *)
UnmarkOffset(h) == h % UINT_PAGES

UnmarkPage ==
  /\ pc = "unmark" /\ r \in DOMAIN mem_free /\ k < mem_free[r].n
  /\ \E ub \in SUBSET Orders :
       bitmap' = mark_page_free(bitmap, mem_free[r].base + UnmarkOffset(k), ub)
  /\ pages_free' = pages_free + 1
  /\ k' = k + 1
  /\ UNCHANGED <<pc, todo, z, j, bsp, r, mem_free, cap, pages_total, taken, job, ret, initram, owned>>

NextRegion ==
  /\ pc = "unmark" /\ r \in DOMAIN mem_free /\ k >= mem_free[r].n
  /\ r' = r + 1 /\ k' = 0
  /\ UNCHANGED <<pc, todo, z, j, bsp, mem_free, cap, bitmap, pages_total, taken, pages_free, job, ret, initram, owned>>

UnmarkDone ==
  /\ pc = "unmark" /\ r \notin DOMAIN mem_free
  /\ pc' = "up"
  /\ UNCHANGED <<bootvars, bitmap, pages_free, job, ret, initram, owned>>
----------------------------------------------------------------------------
(* alloc_phys_pages *)

\* The scan stops at the first zone without a page.
Scanned(y) == \A x \in 1..y : MemMap[x].n # 0

\* mutant: the last, partial word is not scanned
CandidatesTruncated(y) == {o \in bitmap[y][0] : o < (MemMap[y].n \div WORD) * WORD}

\* Zone y holds a clear bit in the words the scan looks at.
Candidates(y) == {o \in bitmap[y][0] : o < CeilDiv(MemMap[y].n, WORD) * WORD}

\* The page found: the lowest clear bit of the first zone that has one.
Found(y, o) ==
  /\ y \in Zones /\ Scanned(y) /\ o \in Candidates(y)
  /\ \A q \in Candidates(y) : o <= q
  /\ \A x \in 1..(y - 1) : Candidates(x) = {}

NoneFound == \A y \in Zones : Scanned(y) => Candidates(y) = {}

AllocPage ==
  /\ pc = "up"
  /\ \E y \in Zones : \E o \in 0..(MemMap[y].n - 1) :
       /\ Found(y, o)
       /\ bitmap' = mark_page_used(bitmap, MemMap[y].base + o)
       /\ owned' = owned \cup {MemMap[y].base + o}
       /\ ret' = [npages |-> 1, page |-> MemMap[y].base + o]
  /\ pages_free' = pages_free - 1
  /\ UNCHANGED <<pc, bootvars, job, initram>>

AllocFails(n) ==
  /\ pc = "up" /\ (n # 1 \/ NoneFound)
  /\ ret' = [npages |-> n, page |-> BADPAGE]
  /\ UNCHANGED <<pc, bootvars, bitmap, pages_free, job, initram, owned>>

alloc_phys_pages(n) == (n = 1 /\ AllocPage) \/ AllocFails(n)
----------------------------------------------------------------------------
(* free_phys_pages: one mark_page_free per step, then the counter *)
FreeOwned(p, n) ==
  /\ pc = "up" /\ p..(p + n - 1) \subseteq owned
  /\ owned' = owned \ (p..(p + n - 1))
  /\ job' = [page |-> p, npages |-> n, i |-> 0]
  /\ ret' = NoCall
  /\ pc' = "freeing"
  /\ UNCHANGED <<bootvars, bitmap, pages_free, initram>>

\* init_mem frees the initram by its virtual address
FreeInitram ==
  /\ pc = "up" /\ initram = "mapped"
  /\ initram' = "freed"
  /\ job' = [page |-> InitramFrame, npages |-> InitramPages, i |-> 0]
  /\ ret' = NoCall
  /\ pc' = "freeing"
  /\ UNCHANGED <<bootvars, bitmap, pages_free, owned>>

FreeStep ==
  /\ pc = "freeing" /\ job.i < job.npages
  /\ \E ub \in SUBSET Orders :
       bitmap' = mark_page_free(bitmap, job.page + job.i, ub)
  /\ job' = [job EXCEPT !.i = @ + 1]
  /\ UNCHANGED <<pc, bootvars, pages_free, ret, initram, owned>>

\* mutant: the counter moves by one whatever the length of the run
FreedPagesOne == 1

FreedPages == job.npages

FreeDone ==
  /\ pc = "freeing" /\ job.i >= job.npages
  /\ pages_free' = pages_free + FreedPages
  /\ job' = NoJob
  /\ pc' = "up"
  /\ UNCHANGED <<bootvars, bitmap, ret, initram, owned>>

\* Once an early allocation has failed, nothing is modelled.
Wild == pc = "wild" /\ UNCHANGED vars
----------------------------------------------------------------------------
Init ==
  /\ pc = "mapping" /\ todo \in EarlyPages
  /\ z = 1 /\ j = 0 /\ bsp = 0 /\ r = 1 /\ k = 0
  /\ mem_free = MemFree
  /\ cap = [y \in Zones |-> [l \in Orders |-> 0]]
  /\ bitmap = [y \in Zones |-> [l \in Orders |-> {}]]
  /\ pages_total = 0 /\ pages_free = 0
  /\ job = NoJob /\ ret = NoCall /\ initram = "mapped"
  /\ taken = {} /\ owned = {}

Next ==
  \/ MapPhysical \/ MappingDone
  \/ InitBitmap \/ BitmapFails \/ ZonesDone
  \/ UnmarkPage \/ NextRegion \/ UnmarkDone
  \/ \E n \in 0..MaxRun : alloc_phys_pages(n)
  \/ \E p \in owned, n \in 1..MaxRun : FreeOwned(p, n)
  \/ FreeInitram
  \/ FreeStep \/ FreeDone
  \/ Wild

Spec == Init /\ [][Next]_vars
----------------------------------------------------------------------------
Alive == pc \in {"up", "freeing"}

\* Type invariant of the allocator's state (alloc_page.c, mem.h:33-45).  A bit
\* that is ever touched lies inside the pages its bitmap was given, although
\* each order gets only half of the pages of the one below (alloc_page.c:71-78).
TypeOK ==
  /\ \A y \in Zones : \A l \in Orders : \A o \in bitmap[y][l] : o < cap[y][l]
  /\ pc \in {"mapping", "zones", "unmark", "up", "freeing", "wild"}
  /\ todo \in Nat /\ z \in Nat /\ j \in Orders /\ bsp \in Nat /\ r \in Nat \ {0} /\ k \in Nat
  /\ mem_free \in [DOMAIN MemFree -> RegionType]
  /\ cap \in [Zones -> [Orders -> Nat]]
  /\ bitmap \in [Zones -> [Orders -> SUBSET Nat]]
  /\ pages_total \in Nat /\ pages_free \in Int
  /\ job \in [page : Nat, npages : Nat, i : Nat]
  /\ ret \in [npages : Nat, page : Nat \cup {BADPAGE, -2}]
  /\ initram \in {"mapped", "freed"}
  /\ taken \in SUBSET Nat /\ owned \in SUBSET Nat

\* The frames of a free region of 2^32 bytes or more that line 89 never names.
Lost ==
  UNION {FramesOf([base |-> mem_free[s].base + UINT_PAGES, n |-> mem_free[s].n - UINT_PAGES]) :
           s \in DOMAIN mem_free}

\* Every frame of the memory the boot loader left free is, once the allocator
\* is up, exactly one of: given away early (page tables, bitmaps), free in an
\* order-0 bitmap, handed out, being freed, or past the first 4 GiB of a free
\* region.  So alloc_phys_pages never returns a frame twice, nor one of the
\* bitmaps or of reserved memory, and no other frame is lost
\* (alloc_page.c:84-92,115-131,162-169).
PoolPartition ==
  Alive =>
    LET Pool == UNION {FramesOf(MemFree[s]) : s \in DOMAIN MemFree} IN
      /\ Pool = taken \cup FreeFrames \cup owned \cup (InFlight \cap ZoneFrames) \cup Lost
      /\ taken \cap FreeFrames = {} /\ taken \cap owned = {}
      /\ FreeFrames \cap owned = {} /\ Lost \cap (taken \cup FreeFrames \cup owned) = {}
      /\ InFlight \cap (taken \cup FreeFrames \cup owned) = {}

\* pages_free counts the clear order-0 bits, except for the frames a free in
\* progress has marked but not counted, for the pages of the initram, which
\* are counted and belong to no zone, and for those past the first 4 GiB of a
\* region, which are counted and never unmarked (mem.c:44, alloc_page.c:89-90,126,168).
FreeCount ==
  Alive =>
    LET foreign == IF initram = "freed" THEN InitramPages ELSE 0 IN
    pages_free + (IF job.page = InitramFrame THEN job.npages ELSE job.i)
      = Cardinality(FreeFrames) + foreign + Cardinality(Lost)

\* A bit of an order is clear if both its buddies one order down are: no free
\* pair is missed by an order above.  In the first byte of a bitmap, where the
\* mask of the buddy test is in range, it is clear only then
\* (alloc_page.c:14-27,43-49).
Summary ==
  Alive => \A y \in Zones : \A l \in Orders : l + 1 \in Orders =>
    /\ \A o \in bitmap[y][l] :
         (o % 2 = 0 /\ o + 1 \in bitmap[y][l]) => (o \div 2) \in bitmap[y][l + 1]
    /\ \A o \in bitmap[y][l + 1] : 2 * o < BYTE => {2 * o, 2 * o + 1} \subseteq bitmap[y][l]

\* The same for every pair: what "Check if the buddy is clear" promises.
SummarySound ==
  Alive => \A y \in Zones : \A l \in Orders : l + 1 \in Orders =>
    \A o \in bitmap[y][l + 1] : {2 * o, 2 * o + 1} \subseteq bitmap[y][l]

\* alloc_phys_pages(1) answers BADPAGE only when every page still free is
\* past the zone without a page at which the scan stops (alloc_page.c:110).
ExhaustedOnly ==
  (pc = "up" /\ ret.npages = 1 /\ ret.page = BADPAGE) =>
     \A y \in Zones : Scanned(y) => FreeFrames \cap FramesOf(MemMap[y]) = {}

\* the pages of bitmap l of zone y
BitmapSize(y, l) == CeilDiv(CeilDiv(MemMap[y].n, PAGE_BITS), 2^l)

\* the bitmaps not made yet, page by page
BitmapsDue ==
  UNION {{<<y, h>> : h \in 0..(BitmapSize(y[1], y[2]) - 1)} :
           y \in {x \in Zones \X Orders : x[1] > z \/ (x[1] = z /\ x[2] >= j)}}

\* the pages boot has taken, and those it still needs
EarlyNeed == Cardinality(taken) + todo + Cardinality(BitmapsDue)

\* If one region holds all the pages boot needs, no early allocation fails,
\* although first fit may spread them over several regions
\* (alloc_page.c:141-160).
EarlySuffices ==
  (\E s \in DOMAIN MemFree : MemFree[s].n >= EarlyNeed) => pc # "wild"
=============================================================================
