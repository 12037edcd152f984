----------------------------- MODULE PhysProofs -----------------------------
(***************************************************************************)
(* Proofs about the physical page allocator, for every map of memory and   *)
(* every word size, with at most the eight orders of the code.             *)
(***************************************************************************)
EXTENDS PhysMem, FiniteSetTheorems, TLAPS

\* The memory the boot loader left free.
Pool == UNION {FramesOf(MemFree[s]) : s \in DOMAIN MemFree}

\* Every clear bit of an order stands for a page of the zone.
IsBitmap(bm) ==
  /\ bm \in [Zones -> [Orders -> SUBSET Nat]]
  /\ \A y \in Zones : \A l \in Orders : \A o \in bm[y][l] :
        \E off \in 0..(MemMap[y].n - 1) : o = Up(off, l)

\* The frames whose order-0 bit is clear.
FreeIn(bm) == UNION {{MemMap[y].base + o : o \in bm[y][0]} : y \in Zones}

\* An order agrees with the one below it, as Summary states it.
Linked(bm) ==
  \A y \in Zones : \A l \in Orders : l + 1 \in Orders =>
    /\ \A o \in bm[y][l] :
         (o % 2 = 0 /\ o + 1 \in bm[y][l]) => (o \div 2) \in bm[y][l + 1]
    /\ \A o \in bm[y][l + 1] : 2 * o < BYTE => {2 * o, 2 * o + 1} \subseteq bm[y][l]

\* That many bits are enough for order l of zone y.
Holds(y, l, bits) == \A off \in 0..(MemMap[y].n - 1) : Up(off, l) < bits

\* What the early allocations leave and what they took make up the pool.
EarlyParts ==
  /\ \A s \in DOMAIN MemFree : FramesOf(mem_free[s]) \subseteq FramesOf(MemFree[s])
  /\ taken \cup EarlyPool = Pool
  /\ taken \cap EarlyPool = {}

\* Every bitmap made so far has room for the bits of its order, and the next
\* one of the zone in hand will have.
Room ==
  /\ \A y \in Zones : \A l \in Orders :
       (y < z \/ (y = z /\ l < j)) => Holds(y, l, cap[y][l])
  /\ (z \in Zones /\ j > 0) => Holds(z, j, bsp * PAGE_BITS)
  /\ pc \in {"unmark", "up", "freeing"} => z \notin Zones

\* Until the bitmaps are made, nothing is free and nothing was asked for.
Before ==
  pc \in {"mapping", "zones", "wild"} =>
    /\ \A y \in Zones : \A l \in Orders : bitmap[y][l] = {}
    /\ r = 1 /\ k = 0 /\ pages_free = 0

NotServing ==
  ~Alive => owned = {} /\ job = NoJob /\ ret = NoCall /\ initram = "mapped"

\* The pages of region s the unmark loop has passed at page b of region a.
Seen(s, a, b) == IF s < a THEN mem_free[s].n ELSE IF s = a THEN b ELSE 0

\* Those it named, and those past the first 4 GiB of their region.
Marked(a, b) ==
  UNION {{mem_free[s].base + h : h \in {x \in 0..(Seen(s, a, b) - 1) : x < UINT_PAGES}} :
           s \in DOMAIN mem_free}
Passed(a, b) ==
  UNION {{mem_free[s].base + h : h \in {x \in 0..(Seen(s, a, b) - 1) : x >= UINT_PAGES}} :
           s \in DOMAIN mem_free}

Unmarking ==
  pc = "unmark" =>
    /\ r \in DOMAIN mem_free => k <= mem_free[r].n
    /\ FreeFrames = Marked(r, k)
    /\ IsFiniteSet(Marked(r, k)) /\ IsFiniteSet(Passed(r, k))
    /\ pages_free = Cardinality(Marked(r, k)) + Cardinality(Passed(r, k))

\* The free call in progress is of pages that were handed out, or of the
\* initram; no answer is pending meanwhile.
JobKnown ==
  Alive =>
    /\ pc = "up" => job = NoJob
    /\ pc = "freeing" => ret = NoCall /\ job.i <= job.npages
    /\ pc = "freeing" =>
         \/ /\ job.page # InitramFrame /\ InFlight \subseteq ZoneFrames
         \/ /\ job.page = InitramFrame /\ job.npages = InitramPages /\ initram = "freed"

\* The frames the unmark loop named are free, handed out or being freed.
Parts ==
  Alive =>
    /\ FreeFrames \cup owned \cup (InFlight \cap ZoneFrames) = EarlyPool \ Lost
    /\ FreeFrames \cap owned = {}
    /\ InFlight \cap FreeFrames = {} /\ InFlight \cap owned = {}

\* Pages marked and not counted yet, or counted and in no zone.
Pending == IF job.page = InitramFrame THEN job.npages ELSE job.i
Foreign == IF initram = "freed" THEN InitramPages ELSE 0

Counted ==
  Alive =>
    /\ IsFiniteSet(FreeFrames) /\ IsFiniteSet(Lost)
    /\ pages_free + Pending = Cardinality(FreeFrames) + Foreign + Cardinality(Lost)

\* TypeOK but for the room of the bitmaps, which follows from the rest.
Types ==
  /\ pc \in {"mapping", "zones", "unmark", "up", "freeing", "wild"}
  /\ todo \in Nat /\ z \in Nat \ {0} /\ j \in Orders /\ bsp \in Nat
  /\ r \in Nat \ {0} /\ k \in Nat
  /\ mem_free \in [DOMAIN MemFree -> RegionType]
  /\ cap \in [Zones -> [Orders -> Nat]]
  /\ pages_total \in Nat /\ pages_free \in Int
  /\ job \in [page : Nat, npages : Nat, i : Nat]
  /\ ret \in [npages : Nat, page : Nat \cup {BADPAGE, -2}]
  /\ initram \in {"mapped", "freed"}
  /\ taken \in SUBSET Nat /\ owned \in SUBSET Nat

PhysInv ==
  /\ Types /\ IsBitmap(bitmap) /\ Linked(bitmap)
  /\ EarlyParts /\ Room /\ Before /\ NotServing /\ Unmarking
  /\ JobKnown /\ Parts /\ Counted /\ ExhaustedOnly
----------------------------------------------------------------------------
(* Bits, orders and bitmaps *)

\* The powers of two of the code's orders.
LEMMA Powers ==
  /\ 2^0 = 1 /\ 2^1 = 2 /\ 2^2 = 4 /\ 2^3 = 8 /\ 2^4 = 16 /\ 2^5 = 32
  /\ 2^6 = 64 /\ 2^7 = 128
OBVIOUS

\* Order 0 exists, and there are at most eight orders (mem.h:33).
LEMMA OrderRange ==
  /\ 0 \in Orders
  /\ \A l \in Orders : l \in Nat /\ l \in 0..7 /\ (l > 0 => l - 1 \in Orders)
BY SizeAssumption DEF Orders

\* Halving no times leaves the offset (alloc_page.c:8).
LEMMA UpZero ==
  ASSUME NEW off \in Int
  PROVE  Up(off, 0) = off
BY Powers, Z3 DEF Up

\* A halved offset is a bit number (alloc_page.c:25).
LEMMA UpNat ==
  ASSUME NEW off \in Nat, NEW l \in Orders
  PROVE  Up(off, l) \in Nat
<1>1. l \in 0..7
  BY OrderRange
<1>2. CASE l = 0
  BY <1>2, Powers, Z3 DEF Up
<1>3. CASE l = 1
  BY <1>3, Powers, Z3 DEF Up
<1>4. CASE l = 2
  BY <1>4, Powers, Z3 DEF Up
<1>5. CASE l = 3
  BY <1>5, Powers, Z3 DEF Up
<1>6. CASE l = 4
  BY <1>6, Powers, Z3 DEF Up
<1>7. CASE l = 5
  BY <1>7, Powers, Z3 DEF Up
<1>8. CASE l = 6
  BY <1>8, Powers, Z3 DEF Up
<1>9. CASE l = 7
  BY <1>9, Powers, Z3 DEF Up
<1> QED
  BY <1>1, <1>2, <1>3, <1>4, <1>5, <1>6, <1>7, <1>8, <1>9

\* One order up is one halving more (alloc_page.c:25,48).
LEMMA UpHalf ==
  ASSUME NEW off \in Nat, NEW l \in Orders, l + 1 \in Orders
  PROVE  Up(off, l + 1) = Up(off, l) \div 2
<1>1. l \in 0..6
  BY OrderRange
<1>2. CASE l = 0
  BY <1>2, Powers, Z3 DEF Up
<1>3. CASE l = 1
  BY <1>3, Powers, Z3 DEF Up
<1>4. CASE l = 2
  BY <1>4, Powers, Z3 DEF Up
<1>5. CASE l = 3
  BY <1>5, Powers, Z3 DEF Up
<1>6. CASE l = 4
  BY <1>6, Powers, Z3 DEF Up
<1>7. CASE l = 5
  BY <1>7, Powers, Z3 DEF Up
<1>8. CASE l = 6
  BY <1>8, Powers, Z3 DEF Up
<1> QED
  BY <1>1, <1>2, <1>3, <1>4, <1>5, <1>6, <1>7, <1>8

\* The zones are regions, numbered from 1.
LEMMA ZoneType ==
  /\ Zones = 1..Len(MemMap) /\ Len(MemMap) \in Nat
  /\ \A y \in Zones : MemMap[y].base \in Nat /\ MemMap[y].n \in Nat
<1>1. MemMap \in Seq(RegionType)
  BY MapAssumption
<1>2. \A y \in Zones : MemMap[y] \in RegionType
  BY <1>1 DEF Zones
<1> QED
  BY <1>1, <1>2 DEF Zones, RegionType

\* A frame of a zone has an offset in it (alloc_page.c:8).
LEMMA OffsetInZone ==
  ASSUME NEW y \in Zones, NEW f, InZone(f, y)
  PROVE  /\ f - MemMap[y].base \in 0..(MemMap[y].n - 1)
         /\ f - MemMap[y].base \in Nat
         /\ MemMap[y].base + (f - MemMap[y].base) = f
<1>1. MemMap[y].base \in Nat /\ MemMap[y].n \in Nat
  BY ZoneType
<1> QED
  BY <1>1 DEF InZone, FramesOf

\* The bits of order 0 are offsets of the zone (alloc_page.c:115-131).
LEMMA BitInZone ==
  ASSUME NEW bm, IsBitmap(bm), NEW y \in Zones, NEW o \in bm[y][0]
  PROVE  o \in 0..(MemMap[y].n - 1) /\ InZone(MemMap[y].base + o, y)
<1>1. PICK off \in 0..(MemMap[y].n - 1) : o = Up(off, 0)
  BY OrderRange DEF IsBitmap
<1>2. MemMap[y].base \in Nat /\ MemMap[y].n \in Nat
  BY ZoneType
<1>3. o = off
  BY <1>1, <1>2, UpZero
<1> QED
  BY <1>1, <1>2, <1>3 DEF InZone, FramesOf

\* What is free is what the order-0 bitmaps of the zones say.
LEMMA FreeInMember ==
  ASSUME NEW bm, NEW f
  PROVE  f \in FreeIn(bm) <=> \E y \in Zones : \E o \in bm[y][0] : f = MemMap[y].base + o
BY DEF FreeIn

\* Only frames of the zones are free.
LEMMA FreeInZones ==
  ASSUME NEW bm, IsBitmap(bm), NEW f \in FreeIn(bm)
  PROVE  f \in ZoneFrames
<1>1. PICK y \in Zones : \E o \in bm[y][0] : f = MemMap[y].base + o
  BY FreeInMember
<1>2. PICK o \in bm[y][0] : f = MemMap[y].base + o
  BY <1>1
<1>3. InZone(f, y)
  BY <1>2, BitInZone
<1> QED
  BY <1>3 DEF InZone, ZoneFrames

\* A frame of a zone is free exactly if its own bit is clear, for the zones
\* do not overlap.
LEMMA FreeBit ==
  ASSUME NEW bm, IsBitmap(bm), NEW y \in Zones, NEW f, InZone(f, y)
  PROVE  f \in FreeIn(bm) <=> f - MemMap[y].base \in bm[y][0]
<1>1. f = MemMap[y].base + (f - MemMap[y].base)
  BY OffsetInZone
<1>2. ASSUME f - MemMap[y].base \in bm[y][0]
      PROVE  f \in FreeIn(bm)
  BY <1>1, <1>2, FreeInMember, Zenon
<1>3. ASSUME f \in FreeIn(bm)
      PROVE  f - MemMap[y].base \in bm[y][0]
  <2>1. PICK x \in Zones : \E o \in bm[x][0] : f = MemMap[x].base + o
    BY <1>3, FreeInMember
  <2>2. PICK o \in bm[x][0] : f = MemMap[x].base + o
    BY <2>1
  <2>3. InZone(f, x)
    BY <2>2, BitInZone
  <2>4. x = y
    BY <2>3, MapAssumption DEF InZone
  <2>5. o \in 0..(MemMap[x].n - 1) /\ MemMap[x].base \in Nat /\ MemMap[x].n \in Nat
    BY BitInZone, ZoneType
  <2>6. f - MemMap[x].base = o
    BY <2>2, <2>5
  <2> QED
    BY <2>4, <2>6
<1> QED
  BY <1>2, <1>3

----------------------------------------------------------------------------
(* mark_page_free and mark_page_used *)

\* The page's own bit is always cleared: the climb starts at order 0
\* (alloc_page.c:40-42).
LEMMA ClimbsFrom0 ==
  ASSUME NEW b, NEW off, NEW ub
  PROVE  0 \in ClimbFree(b, off, ub)
BY OrderRange DEF ClimbFree

\* The zones without the page are left alone (alloc_page.c:9-10,30-31).
LEMMA MarkOutside ==
  ASSUME NEW bm, NEW f, NEW ub, NEW y \in Zones, ~InZone(f, y)
  PROVE  mark_page_free(bm, f, ub)[y] = bm[y] /\ mark_page_used(bm, f)[y] = bm[y]
BY DEF mark_page_free, mark_page_used

\* The bits mark_page_free leaves clear in the zone of its page
\* (alloc_page.c:35-52).
LEMMA MarkFreeBit ==
  ASSUME NEW bm, NEW f, NEW ub, NEW y \in Zones, InZone(f, y), NEW l \in Orders, NEW o
  PROVE  o \in mark_page_free(bm, f, ub)[y][l] <=>
           \/ o \in bm[y][l]
           \/ l \in ClimbFree(bm[y], f - MemMap[y].base, ub) /\ o = Up(f - MemMap[y].base, l)
BY DEF mark_page_free

\* The bits mark_page_used leaves clear (alloc_page.c:14-32).
LEMMA MarkUsedBit ==
  ASSUME NEW bm, NEW f, NEW y \in Zones, InZone(f, y), NEW l \in Orders, NEW o
  PROVE  o \in mark_page_used(bm, f)[y][l] <=>
           /\ o \in bm[y][l]
           /\ ~(l \in ClimbUsed(bm[y], f - MemMap[y].base) /\ o = Up(f - MemMap[y].base, l))
BY DEF mark_page_used

\* Marking keeps the bitmaps bitmaps (alloc_page.c:8,25,48).
LEMMA MarkFreeShape ==
  ASSUME NEW bm, IsBitmap(bm), NEW f, NEW ub
  PROVE  IsBitmap(mark_page_free(bm, f, ub))
<1> DEFINE nb == mark_page_free(bm, f, ub)
<1>1. \A y \in Zones : InZone(f, y) => \A l \in Orders : Up(f - MemMap[y].base, l) \in Nat
  BY OffsetInZone, UpNat
<1>2. nb \in [Zones -> [Orders -> SUBSET Nat]]
  BY <1>1 DEF mark_page_free, IsBitmap
<1>3. ASSUME NEW y \in Zones, NEW l \in Orders, NEW o \in nb[y][l]
      PROVE  \E off \in 0..(MemMap[y].n - 1) : o = Up(off, l)
  <2>1. CASE o \in bm[y][l]
    BY <2>1 DEF IsBitmap
  <2>2. CASE o \notin bm[y][l]
    <3>1. InZone(f, y)
      BY <2>2, <1>3, MarkOutside
    <3>2. o = Up(f - MemMap[y].base, l)
      BY <2>2, <1>3, <3>1, MarkFreeBit
    <3>3. f - MemMap[y].base \in 0..(MemMap[y].n - 1)
      BY <3>1, OffsetInZone
    <3> QED
      BY <3>2, <3>3
  <2> QED
    BY <2>1, <2>2
<1> QED
  BY <1>2, <1>3 DEF IsBitmap

\* Marking a page used sets bits and clears none: a bitmap stays one
\* (alloc_page.c:32-52).
LEMMA MarkUsedShape ==
  ASSUME NEW bm, IsBitmap(bm), NEW f
  PROVE  IsBitmap(mark_page_used(bm, f))
<1> DEFINE nb == mark_page_used(bm, f)
<1>1. nb \in [Zones -> [Orders -> SUBSET Nat]]
  BY DEF mark_page_used, IsBitmap
<1>2. ASSUME NEW y \in Zones, NEW l \in Orders, NEW o \in nb[y][l]
      PROVE  \E off \in 0..(MemMap[y].n - 1) : o = Up(off, l)
  <2>1. o \in bm[y][l]
    BY <1>2, MarkOutside, MarkUsedBit
  <2> QED
    BY <2>1 DEF IsBitmap
<1> QED
  BY <1>1, <1>2 DEF IsBitmap

\* mark_page_free frees its page, if it is in a zone, and no other
\* (alloc_page.c:35-52).
LEMMA MarkFreeAdds ==
  ASSUME NEW bm, IsBitmap(bm), NEW f, NEW ub
  PROVE  FreeIn(mark_page_free(bm, f, ub)) = FreeIn(bm) \cup ({f} \cap ZoneFrames)
<1> DEFINE nb == mark_page_free(bm, f, ub)
<1>1. IsBitmap(nb)
  BY MarkFreeShape
<1>2. ASSUME NEW y \in Zones, NEW g, InZone(g, y)
      PROVE  g \in FreeIn(nb) <=> g \in FreeIn(bm) \/ g = f
  <2>1. g \in FreeIn(bm) <=> g - MemMap[y].base \in bm[y][0]
    BY <1>2, FreeBit
  <2>2. g \in FreeIn(nb) <=> g - MemMap[y].base \in nb[y][0]
    BY <1>1, <1>2, FreeBit
  <2>3. CASE ~InZone(f, y)
    <3>1. nb[y] = bm[y]
      BY <2>3, MarkOutside
    <3> QED
      BY <2>1, <2>2, <3>1, <2>3, <1>2
  <2>4. CASE InZone(f, y)
    <3>1. Up(f - MemMap[y].base, 0) = f - MemMap[y].base
      BY <2>4, OffsetInZone, UpZero
    <3>2. \A o : o \in nb[y][0] <=> o \in bm[y][0] \/ o = f - MemMap[y].base
      BY <2>4, <3>1, MarkFreeBit, ClimbsFrom0, OrderRange
    <3>3. g - MemMap[y].base = f - MemMap[y].base <=> g = f
      BY <2>4, <1>2, OffsetInZone
    <3> QED
      BY <2>1, <2>2, <3>2, <3>3
  <2> QED
    BY <2>3, <2>4
<1>3. \A g : g \in ZoneFrames <=> \E y \in Zones : InZone(g, y)
  BY DEF ZoneFrames, InZone
<1>4. \A g : (g \in FreeIn(nb) \/ g \in FreeIn(bm)) => g \in ZoneFrames
  BY <1>1, FreeInZones
<1>5. \A g : g \in FreeIn(nb) <=> g \in FreeIn(bm) \/ (g = f /\ g \in ZoneFrames)
  BY <1>2, <1>3, <1>4
<1> QED
  BY <1>5

\* mark_page_used takes its page and no other from the free ones
\* (alloc_page.c:14-32).
LEMMA MarkUsedRemoves ==
  ASSUME NEW bm, IsBitmap(bm), NEW f
  PROVE  FreeIn(mark_page_used(bm, f)) = FreeIn(bm) \ {f}
<1> DEFINE nb == mark_page_used(bm, f)
<1>1. IsBitmap(nb)
  BY MarkUsedShape
<1>2. ASSUME NEW y \in Zones, NEW g, InZone(g, y)
      PROVE  g \in FreeIn(nb) <=> g \in FreeIn(bm) /\ g # f
  <2>1. g \in FreeIn(bm) <=> g - MemMap[y].base \in bm[y][0]
    BY <1>2, FreeBit
  <2>2. g \in FreeIn(nb) <=> g - MemMap[y].base \in nb[y][0]
    BY <1>1, <1>2, FreeBit
  <2>3. CASE ~InZone(f, y)
    <3>1. nb[y] = bm[y]
      BY <2>3, MarkOutside
    <3> QED
      BY <2>1, <2>2, <3>1, <2>3, <1>2
  <2>4. CASE InZone(f, y)
    <3>1. Up(f - MemMap[y].base, 0) = f - MemMap[y].base
      BY <2>4, OffsetInZone, UpZero
    <3>2. \A o : o \in nb[y][0] <=> o \in bm[y][0] /\ o # f - MemMap[y].base
      <4>1. \A o : o \in nb[y][0] <=>
               /\ o \in bm[y][0]
               /\ ~(0 \in ClimbUsed(bm[y], f - MemMap[y].base) /\ o = f - MemMap[y].base)
        BY <2>4, <3>1, MarkUsedBit, OrderRange
      <4>2. f - MemMap[y].base \in bm[y][0] => 0 \in ClimbUsed(bm[y], f - MemMap[y].base)
        BY <3>1, OrderRange DEF ClimbUsed
      <4> QED
        BY <4>1, <4>2
    <3>3. g - MemMap[y].base = f - MemMap[y].base <=> g = f
      BY <2>4, <1>2, OffsetInZone
    <3> QED
      BY <2>1, <2>2, <3>2, <3>3
  <2> QED
    BY <2>3, <2>4
<1>3. \A g : g \in ZoneFrames <=> \E y \in Zones : InZone(g, y)
  BY DEF ZoneFrames, InZone
<1>4. \A g : (g \in FreeIn(nb) \/ g \in FreeIn(bm)) => g \in ZoneFrames
  BY <1>1, FreeInZones
<1>5. \A g : g \in FreeIn(nb) <=> g \in FreeIn(bm) /\ g # f
  BY <1>2, <1>3, <1>4
<1> QED
  BY <1>5

----------------------------------------------------------------------------
(* The orders above the first *)

\* A free pair has its bit one order up (alloc_page.c:14-27,43-49).
PairUp(b, l) ==
  \A o \in b[l] : (o % 2 = 0 /\ o + 1 \in b[l]) => (o \div 2) \in b[l + 1]

\* A bit of the first byte stands for a free pair.
PairDown(b, l) ==
  \A o \in b[l + 1] : 2 * o < BYTE => {2 * o, 2 * o + 1} \subseteq b[l]

\* Two orders agree when every pair of theirs does.
LEMMA LinkedPairs ==
  ASSUME NEW bm
  PROVE  Linked(bm) <=> \A y \in Zones : \A l \in Orders :
                          l + 1 \in Orders => PairUp(bm[y], l) /\ PairDown(bm[y], l)
BY DEF Linked, PairUp, PairDown

\* The climb reaches the next order exactly if the buddy test passes.
LEMMA ClimbFreeNext ==
  ASSUME NEW b, NEW off \in Nat, NEW ub, NEW l \in Orders, l + 1 \in Orders
  PROVE  l + 1 \in ClimbFree(b, off, ub) <=>
           /\ l \in ClimbFree(b, off, ub)
           /\ BuddyClear(b[l] \cup {Up(off, l)}, Up(off, l), l \in ub)
<1>1. l \in Nat
  BY OrderRange
<1>2. \A h : h \in 0..((l + 1) - 1) <=> h \in 0..(l - 1) \/ h = l
  BY <1>1
<1> QED
  BY <1>2 DEF ClimbFree

\* mark_page_used climbs from an order to the next while the bit above is
\* still clear (alloc_page.c:43-49).
LEMMA ClimbUsedNext ==
  ASSUME NEW b, NEW off \in Nat, NEW l \in Orders, l + 1 \in Orders
  PROVE  l + 1 \in ClimbUsed(b, off) <=>
           l \in ClimbUsed(b, off) /\ Up(off, l + 1) \in b[l + 1]
<1>1. l \in Nat
  BY OrderRange
<1>2. \A h : h \in 0..(l + 1) <=> h \in 0..l \/ h = l + 1
  BY <1>1
<1> QED
  BY <1>2 DEF ClimbUsed

\* The two bits of a pair share a bit one order up.
LEMMA HalfOfPair ==
  ASSUME NEW u \in Nat, NEW o \in Nat
  PROVE  /\ u \div 2 \in Nat
         /\ (o % 2 = 0 /\ (u = o \/ u = o + 1)) => u \div 2 = o \div 2 /\ u - (u % 2) = o
         /\ u \div 2 = o <=> (u = 2 * o \/ u = 2 * o + 1)
         /\ u \div 2 = o => u - (u % 2) = 2 * o
<1>1. u = 2 * (u \div 2) + (u % 2) /\ u \div 2 \in Nat /\ u % 2 \in 0..1
  BY Z3
<1>2. o = 2 * (o \div 2) + (o % 2) /\ o \div 2 \in Nat /\ o % 2 \in 0..1
  BY Z3
<1> QED
  BY <1>1, <1>2

\* What the buddy test of a pair says (alloc_page.c:47).
LEMMA BuddyOfPair ==
  ASSUME NEW bits, NEW u \in Nat, NEW s \in Nat, u - (u % 2) = s, NEW l, NEW ub
  PROVE  /\ {s, s + 1} \subseteq bits => BuddyClear(bits, u, l \in ub)
         /\ (BuddyClear(bits, u, l \in ub) /\ s < BYTE) => {s, s + 1} \subseteq bits
<1>1. BYTE \in Nat /\ INT \in Nat
  BY SizeAssumption
<1> DEFINE both == {s, s + 1} \subseteq bits
<1>2. BuddyClear(bits, u, l \in ub) =
        CASE s < BYTE -> both
          [] s >= BYTE /\ s < INT -> TRUE
          [] OTHER -> l \in ub \/ both
  BY DEF BuddyClear
<1>3. both \in BOOLEAN
  OBVIOUS
<1> HIDE DEF both
<1>4. CASE s < BYTE
  BY <1>1, <1>4 DEF BuddyClear, both
<1>5. CASE ~(s < BYTE)
  <2>1. CASE s < INT
    <3>1. s >= BYTE /\ s < INT
      BY <1>1, <1>5, <2>1
    <3>2. BuddyClear(bits, u, l \in ub) = TRUE
      BY <1>2, <1>5, <3>1
    <3> QED
      BY <1>5, <3>2
  <2>2. CASE ~(s < INT)
    <3>1. BuddyClear(bits, u, l \in ub) = (l \in ub \/ both)
      BY <1>1, <1>2, <1>3, <1>5, <2>2
    <3> QED
      BY <1>5, <3>1 DEF both
  <2> QED
    BY <2>1, <2>2
<1> QED
  BY <1>4, <1>5

\* Freeing a page keeps the orders linked (alloc_page.c:35-52).
LEMMA MarkFreeLinked ==
  ASSUME NEW bm, IsBitmap(bm), Linked(bm), NEW f, NEW ub
  PROVE  Linked(mark_page_free(bm, f, ub))
<1> DEFINE nb == mark_page_free(bm, f, ub)
<1> SUFFICES ASSUME NEW y \in Zones, NEW l \in Orders, l + 1 \in Orders
             PROVE  PairUp(nb[y], l) /\ PairDown(nb[y], l)
  BY LinkedPairs
<1>1. PairUp(bm[y], l) /\ PairDown(bm[y], l)
  BY LinkedPairs
<1>2. CASE ~InZone(f, y)
  <2>1. nb[y] = bm[y]
    BY <1>2, MarkOutside
  <2> QED
    BY <1>1, <2>1
<1>3. CASE InZone(f, y)
  <2>1. PICK off \in Nat : off = f - MemMap[y].base
    BY <1>3, OffsetInZone
  <2>2. PICK C : C = ClimbFree(bm[y], off, ub)
    OBVIOUS
  <2>3. PICK u \in Nat : u = Up(off, l)
    BY UpNat
  <2>4. Up(off, l + 1) = u \div 2
    BY <2>3, UpHalf
  <2>5. \A o : o \in nb[y][l] <=> o \in bm[y][l] \/ (l \in C /\ o = u)
    BY <1>3, <2>1, <2>2, <2>3, MarkFreeBit
  <2>6. \A o : o \in nb[y][l + 1] <=> o \in bm[y][l + 1] \/ (l + 1 \in C /\ o = u \div 2)
    BY <1>3, <2>1, <2>2, <2>4, MarkFreeBit
  <2>11. PICK bits : bits = bm[y][l] \cup {u}
    OBVIOUS
  <2>7. l + 1 \in C <=> l \in C /\ BuddyClear(bits, u, l \in ub)
    BY <2>2, <2>3, <2>11, ClimbFreeNext
  <2>8. bm[y][l] \subseteq Nat /\ bm[y][l + 1] \subseteq Nat
    BY DEF IsBitmap
  <2>9. PairUp(nb[y], l)
    <3> SUFFICES ASSUME NEW o \in nb[y][l], o % 2 = 0, o + 1 \in nb[y][l]
                 PROVE  o \div 2 \in nb[y][l + 1]
      BY DEF PairUp
    <3>1. o \in Nat
      BY <2>5, <2>8
    <3>2. CASE o \in bm[y][l] /\ o + 1 \in bm[y][l]
      BY <3>2, <1>1, <2>6 DEF PairUp
    <3>3. CASE ~(o \in bm[y][l] /\ o + 1 \in bm[y][l])
      <4>1. l \in C /\ (u = o \/ u = o + 1)
        BY <3>3, <2>5
      <4>2. u \div 2 = o \div 2 /\ u - (u % 2) = o
        BY <4>1, <3>1, HalfOfPair
      <4>3. {o, o + 1} \subseteq bits
        BY <2>5, <2>11
      <4>4. BuddyClear(bits, u, l \in ub)
        BY <4>2, <4>3, <3>1, BuddyOfPair
      <4> QED
        BY <4>1, <4>2, <4>4, <2>6, <2>7
    <3> QED
      BY <3>2, <3>3
  <2>10. PairDown(nb[y], l)
    <3> SUFFICES ASSUME NEW o \in nb[y][l + 1], 2 * o < BYTE
                 PROVE  {2 * o, 2 * o + 1} \subseteq nb[y][l]
      BY DEF PairDown
    <3>1. CASE o \in bm[y][l + 1]
      BY <3>1, <1>1, <2>5 DEF PairDown
    <3>2. CASE o \notin bm[y][l + 1]
      <4>1. l + 1 \in C /\ o = u \div 2
        BY <3>2, <2>6
      <4>2. o \in Nat /\ u - (u % 2) = 2 * o
        BY <4>1, HalfOfPair
      <4>3. PICK s \in Nat : s = 2 * o
        BY <4>2
      <4>4. {s, s + 1} \subseteq bits
        BY <4>1, <4>2, <4>3, <2>7, BuddyOfPair
      <4> QED
        BY <4>1, <4>3, <4>4, <2>5, <2>7, <2>11
    <3> QED
      BY <3>1, <3>2
  <2> QED
    BY <2>9, <2>10
<1> QED
  BY <1>2, <1>3

\* Using a page keeps the orders linked (alloc_page.c:14-32).
LEMMA MarkUsedLinked ==
  ASSUME NEW bm, IsBitmap(bm), Linked(bm), NEW f
  PROVE  Linked(mark_page_used(bm, f))
<1> DEFINE nb == mark_page_used(bm, f)
<1> SUFFICES ASSUME NEW y \in Zones, NEW l \in Orders, l + 1 \in Orders
             PROVE  PairUp(nb[y], l) /\ PairDown(nb[y], l)
  BY LinkedPairs
<1>1. PairUp(bm[y], l) /\ PairDown(bm[y], l)
  BY LinkedPairs
<1>2. CASE ~InZone(f, y)
  <2>1. nb[y] = bm[y]
    BY <1>2, MarkOutside
  <2> QED
    BY <1>1, <2>1
<1>3. CASE InZone(f, y)
  <2>1. PICK off \in Nat : off = f - MemMap[y].base
    BY <1>3, OffsetInZone
  <2>2. PICK C : C = ClimbUsed(bm[y], off)
    OBVIOUS
  <2>3. PICK u \in Nat : u = Up(off, l)
    BY UpNat
  <2>4. Up(off, l + 1) = u \div 2
    BY <2>3, UpHalf
  <2>5. \A o : o \in nb[y][l] <=> o \in bm[y][l] /\ ~(l \in C /\ o = u)
    BY <1>3, <2>1, <2>2, <2>3, MarkUsedBit
  <2>6. \A o : o \in nb[y][l + 1] <=> o \in bm[y][l + 1] /\ ~(l + 1 \in C /\ o = u \div 2)
    BY <1>3, <2>1, <2>2, <2>4, MarkUsedBit
  <2>7. l + 1 \in C <=> l \in C /\ u \div 2 \in bm[y][l + 1]
    BY <2>2, <2>4, ClimbUsedNext
  <2>8. bm[y][l] \subseteq Nat /\ bm[y][l + 1] \subseteq Nat
    BY DEF IsBitmap
  <2>9. l \in C => u \in bm[y][l]
    <3>1. l \in 0..l
      BY OrderRange
    <3> QED
      BY <3>1, <2>2, <2>3 DEF ClimbUsed
  <2>10. PairUp(nb[y], l)
    <3> SUFFICES ASSUME NEW o \in nb[y][l], o % 2 = 0, o + 1 \in nb[y][l]
                 PROVE  o \div 2 \in nb[y][l + 1]
      BY DEF PairUp
    <3>1. o \in bm[y][l] /\ o + 1 \in bm[y][l] /\ o \in Nat
      BY <2>5, <2>8
    <3>2. o \div 2 \in bm[y][l + 1] /\ o \div 2 \in Nat
      BY <3>1, <1>1, HalfOfPair DEF PairUp
    <3>3. ASSUME l + 1 \in C, o \div 2 = u \div 2
          PROVE  FALSE
      <4>1. u = o \/ u = o + 1
        BY <3>1, <3>3, Z3
      <4> QED
        BY <4>1, <3>3, <2>5, <2>7
    <3> QED
      BY <3>2, <3>3, <2>6
  <2>11. PairDown(nb[y], l)
    <3> SUFFICES ASSUME NEW o \in nb[y][l + 1], 2 * o < BYTE
                 PROVE  {2 * o, 2 * o + 1} \subseteq nb[y][l]
      BY DEF PairDown
    <3>1. o \in bm[y][l + 1] /\ o \in Nat
      BY <2>6, <2>8
    <3>2. {2 * o, 2 * o + 1} \subseteq bm[y][l]
      BY <3>1, <1>1 DEF PairDown
    <3>3. ASSUME l \in C, u = 2 * o \/ u = 2 * o + 1
          PROVE  FALSE
      <4>1. u \div 2 = o
        BY <3>1, <3>3, HalfOfPair
      <4> QED
        BY <4>1, <3>1, <3>3, <2>6, <2>7
    <3> QED
      BY <3>2, <3>3, <2>5
  <2> QED
    BY <2>10, <2>11
<1> QED
  BY <1>2, <1>3

----------------------------------------------------------------------------
(* The early allocations and the sizes of the bitmaps *)

\* The regions of the free map have numbers from 1.
LEMMA RegionRange ==
  ASSUME Types
  PROVE  /\ DOMAIN mem_free = DOMAIN MemFree
         /\ DOMAIN MemFree = 1..Len(MemFree) /\ Len(MemFree) \in Nat
         /\ \A s \in DOMAIN MemFree : mem_free[s].base \in Nat /\ mem_free[s].n \in Nat
<1>1. MemFree \in Seq(RegionType)
  BY MapAssumption
<1>2. \A s \in DOMAIN MemFree : mem_free[s] \in RegionType
  BY DEF Types
<1> QED
  BY <1>1, <1>2 DEF Types, RegionType

\* A frame the early allocator can still give lies in what is left of a region
\* (alloc_page.c:141-160).
LEMMA EarlyPoolMember ==
  ASSUME Types, NEW f
  PROVE  f \in EarlyPool <=> \E s \in DOMAIN MemFree : f \in FramesOf(mem_free[s])
BY RegionRange DEF EarlyPool

\* No frame of the pool is in two regions.
LEMMA OneRegion ==
  ASSUME Types, EarlyParts, NEW s \in DOMAIN MemFree, NEW t \in DOMAIN MemFree,
         NEW f, f \in FramesOf(mem_free[s]), f \in FramesOf(mem_free[t])
  PROVE  s = t
BY MapAssumption DEF EarlyParts

\* The pool is memory of the zones.
LEMMA PoolInZones == Pool \subseteq ZoneFrames
BY MapAssumption DEF Pool

\* Bumping a region moves its first pages from what is left to what is taken
\* (alloc_page.c:141-160).
LEMMA BumpKeeps ==
  ASSUME Types, EarlyParts, NEW n \in Nat, NEW i, Bump(n, i)
  PROVE  /\ EarlyParts'
         /\ mem_free' \in [DOMAIN MemFree -> RegionType] /\ taken' \in SUBSET Nat
<1>1. /\ i \in DOMAIN MemFree /\ mem_free[i].n >= n
      /\ mem_free[i].base \in Nat /\ mem_free[i].n \in Nat
  BY RegionRange DEF Bump, FirstFit
<1>2. PICK b \in Nat, m \in Nat : b = mem_free[i].base /\ m = mem_free[i].n
  BY <1>1
<1>3. m >= n /\ m - n \in Nat /\ b + n \in Nat
  BY <1>1, <1>2
<1> DEFINE F == b..(b + n - 1)
<1>4. /\ DOMAIN mem_free' = DOMAIN MemFree
      /\ mem_free'[i] = [base |-> b + n, n |-> m - n]
      /\ \A s \in DOMAIN MemFree : s # i => mem_free'[s] = mem_free[s]
  BY <1>1, <1>2, RegionRange DEF Bump
<1>5. taken' = taken \cup F
  BY <1>2 DEF Bump, FramesOf
<1>6. FramesOf(mem_free[i]) = b..(b + m - 1)
  BY <1>2 DEF FramesOf
<1>7. FramesOf(mem_free'[i]) = (b + n)..(b + m - 1)
  <2>1. mem_free'[i].base = b + n /\ mem_free'[i].n = m - n
    BY <1>4
  <2>2. (b + n) + (m - n) - 1 = b + m - 1
    BY <1>3
  <2> QED
    BY <2>1, <2>2 DEF FramesOf
<1>8. /\ F \subseteq FramesOf(mem_free[i])
      /\ FramesOf(mem_free'[i]) = FramesOf(mem_free[i]) \ F
  BY <1>3, <1>6, <1>7
<1> HIDE DEF F
<1>9. ASSUME NEW s \in DOMAIN MemFree, s # i
      PROVE  FramesOf(mem_free'[s]) = FramesOf(mem_free[s]) /\ FramesOf(mem_free[s]) \cap F = {}
  <2>1. FramesOf(mem_free[s]) \cap FramesOf(mem_free[i]) = {}
    BY <1>1, <1>9, OneRegion
  <2> QED
    BY <1>4, <1>8, <1>9, <2>1
<1>10. \A s \in DOMAIN MemFree : FramesOf(mem_free'[s]) = FramesOf(mem_free[s]) \ F
  BY <1>8, <1>9
<1>11. \A f : f \in EarlyPool' <=> f \in EarlyPool /\ f \notin F
  <2>1. \A f : f \in EarlyPool' <=> \E s \in DOMAIN MemFree : f \in FramesOf(mem_free'[s])
    BY <1>4 DEF EarlyPool
  <2>2. \A f : f \in EarlyPool <=> \E s \in DOMAIN MemFree : f \in FramesOf(mem_free[s])
    BY EarlyPoolMember
  <2> QED
    BY <1>10, <2>1, <2>2
<1>12. F \subseteq EarlyPool
  BY <1>1, <1>8, EarlyPoolMember
<1>13. EarlyParts'
  BY <1>5, <1>10, <1>11, <1>12 DEF EarlyParts
<1>14. mem_free' \in [DOMAIN MemFree -> RegionType]
  BY <1>3, <1>2, <1>1 DEF Bump, Types, RegionType
<1>15. taken' \in SUBSET Nat
  <2>1. F \subseteq Nat
    BY DEF F
  <2> QED
    BY <1>5, <2>1 DEF Types
<1> QED
  BY <1>13, <1>14, <1>15

\* Rounding up to whole pages of bits loses none (alloc_page.c:71).
LEMMA CeilBits ==
  ASSUME NEW n \in Nat, NEW w \in Nat \ {0}
  PROVE  CeilDiv(n, w) \in Nat /\ n <= CeilDiv(n, w) * w
<1> DEFINE q == (n + w - 1) \div w
<1>1. q \in Int /\ q * w <= n + w - 1 /\ n + w - 1 < (q + 1) * w
  BY Z3
<1>2. q >= 0
  BY <1>1, Z3
<1>3. (q + 1) * w = q * w + w /\ q * w \in Int
  BY <1>1, Z3
<1> QED
  BY <1>1, <1>2, <1>3 DEF CeilDiv

\* Half of the pages are enough for half of the bits (alloc_page.c:77).
LEMMA HalfBits ==
  ASSUME NEW b \in Nat, NEW w \in Nat \ {0}, NEW x \in Nat, x < b * w
  PROVE  (b + 1) \div 2 \in Nat /\ x \div 2 < ((b + 1) \div 2) * w
<1>1. PICK d \in Nat : d = (b + 1) \div 2
  BY Z3
<1>2. b <= 2 * d
  BY <1>1, Z3
<1>3. b * w <= (2 * d) * w
  BY <1>2, Z3
<1>4. (2 * d) * w = 2 * (d * w) /\ d * w \in Nat /\ b * w \in Nat
  BY Z3
<1>5. PICK p \in Nat : p = d * w
  BY <1>4
<1>6. x < 2 * p
  BY <1>3, <1>4, <1>5
<1>7. x \div 2 < p
  BY <1>6, Z3
<1> QED
  BY <1>1, <1>5, <1>7

----------------------------------------------------------------------------
(* The initial states and the steps of boot *)

\* The frames named in the free bitmaps of the state.
LEMMA FreeFramesAre == FreeFrames = FreeIn(bitmap)
BY DEF FreeFrames, FreeIn

\* Bitmaps without a clear bit are well-formed and free nothing.
LEMMA EmptyBitmaps ==
  ASSUME NEW bm \in [Zones -> [Orders -> SUBSET Nat]],
         \A y \in Zones : \A l \in Orders : bm[y][l] = {}
  PROVE  IsBitmap(bm) /\ Linked(bm) /\ FreeIn(bm) = {}
BY OrderRange DEF IsBitmap, Linked, FreeIn

\* The invariant holds when the kernel starts: nothing is taken, every bit is set.
LEMMA InitKeeps == Init => PhysInv
<1> SUFFICES ASSUME Init PROVE PhysInv
  OBVIOUS
<1>1. Types
  BY OrderRange, SizeAssumption, MapAssumption DEF Init, Types, NoJob, NoCall
<1>2. IsBitmap(bitmap) /\ Linked(bitmap)
  BY EmptyBitmaps DEF Init
<1>3. EarlyParts
  <2>1. mem_free = MemFree /\ taken = {}
    BY DEF Init
  <2>2. EarlyPool = Pool
    BY <2>1 DEF EarlyPool, Pool
  <2> QED
    BY <2>1, <2>2 DEF EarlyParts
<1>4. Room
  BY ZoneType, OrderRange DEF Init, Room
<1>5. Before /\ NotServing /\ Unmarking /\ JobKnown /\ Parts /\ Counted /\ ExhaustedOnly
  BY ZoneType DEF Init, Before, NotServing, Unmarking, JobKnown, Parts, Counted, ExhaustedOnly, Alive
<1> QED
  BY <1>1, <1>2, <1>3, <1>4, <1>5 DEF PhysInv

\* An early allocation, or its failure, keeps what the early phases rely on.
LEMMA EarlyAlloc ==
  ASSUME PhysInv, NEW n \in Nat,
         alloc_phys_early(n) \/ (NoFit(n) /\ UNCHANGED <<mem_free, taken>>)
  PROVE  /\ EarlyParts'
         /\ mem_free' \in [DOMAIN MemFree -> RegionType] /\ taken' \in SUBSET Nat
<1>1. Types /\ EarlyParts
  BY DEF PhysInv
<1>2. CASE alloc_phys_early(n)
  BY <1>1, <1>2, BumpKeeps DEF alloc_phys_early
<1>3. CASE UNCHANGED <<mem_free, taken>>
  BY <1>1, <1>3 DEF Types, EarlyParts, EarlyPool
<1> QED
  BY <1>2, <1>3

\* Mapping the physical memory keeps the invariant (mem.c:137-151).
LEMMA MapPhysicalKeeps ==
  ASSUME PhysInv, MapPhysical
  PROVE  PhysInv'
<1>1. Types /\ pc = "mapping"
  BY DEF PhysInv, MapPhysical
<1>2. pc' \in {"mapping", "wild"} /\ todo' \in Nat
  BY <1>1 DEF MapPhysical, EarlyFails, Types
<1>3. /\ EarlyParts'
      /\ mem_free' \in [DOMAIN MemFree -> RegionType] /\ taken' \in SUBSET Nat
  <2>1. alloc_phys_early(1) \/ (NoFit(1) /\ UNCHANGED <<mem_free, taken>>)
    BY DEF MapPhysical, EarlyFails
  <2> QED
    BY <2>1, EarlyAlloc
<1>4. Types'
  BY <1>1, <1>2, <1>3 DEF MapPhysical, Types
<1>5. (IsBitmap(bitmap) /\ Linked(bitmap))'
  BY DEF PhysInv, MapPhysical
<1>6. Room'
  BY <1>1, <1>2 DEF PhysInv, MapPhysical, Room
<1>7. Before' /\ NotServing'
  BY <1>1, <1>2 DEF PhysInv, MapPhysical, Before, NotServing, Alive
<1>8. Unmarking' /\ JobKnown' /\ Parts' /\ Counted' /\ ExhaustedOnly'
  BY <1>2 DEF Unmarking, JobKnown, Parts, Counted, ExhaustedOnly, Alive
<1> QED
  BY <1>3, <1>4, <1>5, <1>6, <1>7, <1>8 DEF PhysInv

\* The physical mapping is made: its pages are taken, the bitmaps come next.
LEMMA MappingDoneKeeps ==
  ASSUME PhysInv, MappingDone
  PROVE  PhysInv'
<1>1. Types /\ pc = "mapping" /\ pc' = "zones" /\ UNCHANGED bootvars
  BY DEF PhysInv, MappingDone
<1>2. Types'
  BY <1>1 DEF MappingDone, Types, bootvars
<1>3. (IsBitmap(bitmap) /\ Linked(bitmap))'
  BY DEF PhysInv, MappingDone
<1>4. EarlyParts'
  BY <1>1 DEF PhysInv, EarlyParts, EarlyPool, bootvars
<1>5. Room'
  BY <1>1 DEF PhysInv, bootvars, Room
<1>6. Before' /\ NotServing'
  BY <1>1 DEF PhysInv, MappingDone, bootvars, Before, NotServing, Alive
<1>7. Unmarking' /\ JobKnown' /\ Parts' /\ Counted' /\ ExhaustedOnly'
  BY <1>1 DEF Unmarking, JobKnown, Parts, Counted, ExhaustedOnly, Alive
<1> QED
  BY <1>2, <1>3, <1>4, <1>5, <1>6, <1>7 DEF PhysInv

\* The bitmap made next is large enough, and so will be the one after it
\* (alloc_page.c:71,77).
LEMMA BitmapFits ==
  ASSUME PhysInv, z \in Zones
  PROVE  /\ BitmapPages \in Nat /\ (BitmapPages + 1) \div 2 \in Nat
         /\ Holds(z, j, BitmapPages * PAGE_BITS)
         /\ j + 1 \in Orders => Holds(z, j + 1, ((BitmapPages + 1) \div 2) * PAGE_BITS)
<1>1. j \in Orders /\ bsp \in Nat /\ j \in Nat
  BY OrderRange DEF PhysInv, Types
<1>2. MemMap[z].n \in Nat
  BY ZoneType
<1>3. PAGE_BITS \in Nat \ {0}
  BY SizeAssumption
<1>4. BitmapPages \in Nat /\ Holds(z, j, BitmapPages * PAGE_BITS)
  <2>1. CASE j = 0
    <3>1. BitmapPages = CeilDiv(MemMap[z].n, PAGE_BITS)
      BY <2>1 DEF BitmapPages
    <3>2. BitmapPages \in Nat /\ MemMap[z].n <= BitmapPages * PAGE_BITS
      BY <1>2, <1>3, <3>1, CeilBits
    <3>3. PICK c \in Nat : c = BitmapPages * PAGE_BITS
      BY <1>3, <3>2, Z3
    <3>4. \A off \in 0..(MemMap[z].n - 1) : Up(off, j) = off /\ off < c
      BY <1>2, <2>1, <3>2, <3>3, UpZero
    <3> QED
      BY <3>2, <3>3, <3>4 DEF Holds
  <2>2. CASE j # 0
    BY <1>1, <2>2 DEF BitmapPages, PhysInv, Room
  <2> QED
    BY <2>1, <2>2
<1>5. PICK b \in Nat : b = BitmapPages
  BY <1>4
<1>6. (b + 1) \div 2 \in Nat
  BY Z3
<1>7. ASSUME j + 1 \in Orders
      PROVE  Holds(z, j + 1, ((b + 1) \div 2) * PAGE_BITS)
  <2> SUFFICES ASSUME NEW off \in 0..(MemMap[z].n - 1)
               PROVE  Up(off, j + 1) < ((b + 1) \div 2) * PAGE_BITS
    BY DEF Holds
  <2>1. off \in Nat
    BY <1>2
  <2>2. PICK x \in Nat : x = Up(off, j)
    BY <1>1, <2>1, UpNat
  <2>3. x < b * PAGE_BITS
    BY <1>4, <1>5, <2>2 DEF Holds
  <2>4. Up(off, j + 1) = x \div 2
    BY <1>1, <1>7, <2>1, <2>2, UpHalf
  <2> QED
    BY <1>3, <2>3, <2>4, HalfBits
<1> QED
  BY <1>4, <1>5, <1>6, <1>7

\* Making a bitmap keeps the invariant (alloc_page.c:65-81).
LEMMA InitBitmapKeeps ==
  ASSUME PhysInv, InitBitmap
  PROVE  PhysInv'
<1>1. Types /\ pc = "zones" /\ z \in Zones /\ j \in Orders /\ j \in Nat /\ z \in Nat
  BY OrderRange DEF PhysInv, InitBitmap, Types
<1>2. PICK b \in Nat : b = BitmapPages
  BY <1>1, BitmapFits
<1>3. /\ (b + 1) \div 2 \in Nat
      /\ Holds(z, j, b * PAGE_BITS)
      /\ j + 1 \in Orders => Holds(z, j + 1, ((b + 1) \div 2) * PAGE_BITS)
  BY <1>1, <1>2, BitmapFits
<1>4. pc' = "zones"
  BY <1>1 DEF InitBitmap
<1>5. /\ EarlyParts'
      /\ mem_free' \in [DOMAIN MemFree -> RegionType] /\ taken' \in SUBSET Nat
  <2>1. alloc_phys_early(b)
    BY <1>2 DEF InitBitmap
  <2> QED
    BY <2>1, EarlyAlloc
<1>6. PICK c \in Nat : c = b * PAGE_BITS
  BY SizeAssumption, Z3
<1>7. cap' = [cap EXCEPT ![z][j] = c]
  BY <1>2, <1>6 DEF InitBitmap
<1>8. /\ bsp' = (b + 1) \div 2
      /\ LastOrder => j' = 0 /\ z' = z + 1
      /\ ~LastOrder => j' = j + 1 /\ z' = z
  BY <1>2 DEF InitBitmap
<1>9. pages_total' \in Nat
  <2>1. pages_total \in Nat /\ MemMap[z].n \in Nat
    BY <1>1, ZoneType DEF Types
  <2>2. pages_total' = IF j = 0 THEN pages_total + MemMap[z].n ELSE pages_total
    BY DEF InitBitmap
  <2>3. CASE j = 0
    BY <2>1, <2>2, <2>3
  <2>4. CASE j # 0
    BY <2>1, <2>2, <2>4
  <2> QED
    BY <2>3, <2>4
<1>10. Types'
  <2>1. z' \in Nat \ {0} /\ j' \in Orders /\ bsp' \in Nat
    <3>1. z \in Nat \ {0} /\ 0 \in Orders
      BY <1>1, OrderRange DEF Types
    <3>2. CASE LastOrder
      BY <1>3, <1>8, <3>1, <3>2
    <3>3. CASE ~LastOrder
      BY <1>3, <1>8, <3>1, <3>3 DEF LastOrder
    <3> QED
      BY <3>2, <3>3
  <2>2. cap' \in [Zones -> [Orders -> Nat]]
    BY <1>1, <1>6, <1>7 DEF Types
  <2> QED
    BY <1>1, <1>4, <1>5, <1>9, <2>1, <2>2 DEF InitBitmap, Types
<1>11. /\ bitmap' \in [Zones -> [Orders -> SUBSET Nat]]
       /\ \A y \in Zones : \A l \in Orders : bitmap'[y][l] = {}
  <2>1. /\ bitmap \in [Zones -> [Orders -> SUBSET Nat]]
        /\ \A y \in Zones : \A l \in Orders : bitmap[y][l] = {}
    BY <1>1 DEF PhysInv, IsBitmap, Before
  <2> QED
    BY <2>1 DEF InitBitmap
<1>12. (IsBitmap(bitmap) /\ Linked(bitmap))'
  BY <1>11, EmptyBitmaps
<1>13. Room'
  <2>1. ASSUME NEW y \in Zones, NEW l \in Orders, y < z' \/ (y = z' /\ l < j')
        PROVE  Holds(y, l, cap'[y][l])
    <3>1. y \in Nat /\ l \in Nat
      BY OrderRange, ZoneType
    <3>2. y < z \/ (y = z /\ l < j) \/ (y = z /\ l = j)
      <4>1. CASE LastOrder
        <5>1. ~(l > j)
          BY <1>1, <3>1, <4>1, SizeAssumption DEF LastOrder, Orders
        <5> QED
          BY <1>1, <1>8, <2>1, <3>1, <4>1, <5>1
      <4>2. CASE ~LastOrder
        BY <1>1, <1>8, <2>1, <3>1, <4>2
      <4> QED
        BY <4>1, <4>2
    <3>3. CASE y = z /\ l = j
      BY <1>1, <1>3, <1>6, <1>7, <3>3 DEF Types
    <3>4. CASE ~(y = z /\ l = j)
      <4>1. cap'[y][l] = cap[y][l]
        BY <1>1, <1>7, <3>4 DEF Types
      <4> QED
        BY <3>2, <3>4, <4>1 DEF PhysInv, Room
    <3> QED
      BY <3>3, <3>4
  <2>2. ASSUME z' \in Zones, j' > 0
        PROVE  Holds(z', j', bsp' * PAGE_BITS)
    <3>1. ~LastOrder
      BY <1>8, <2>2
    <3> QED
      BY <1>3, <1>8, <3>1 DEF LastOrder
  <2> QED
    BY <1>4, <2>1, <2>2 DEF Room
<1>14. Before' /\ NotServing'
  BY <1>1, <1>4, <1>11 DEF PhysInv, InitBitmap, Before, NotServing, Alive
<1>15. Unmarking' /\ JobKnown' /\ Parts' /\ Counted' /\ ExhaustedOnly'
  BY <1>4 DEF Unmarking, JobKnown, Parts, Counted, ExhaustedOnly, Alive
<1> QED
  BY <1>5, <1>10, <1>12, <1>13, <1>14, <1>15 DEF PhysInv

\* Nor does one that finds no memory (alloc_page.c:71-78,141-160).
LEMMA BitmapFailsKeeps ==
  ASSUME PhysInv, BitmapFails
  PROVE  PhysInv'
<1>1. /\ Types /\ pc = "zones" /\ pc' = "wild"
      /\ UNCHANGED <<bootvars, bitmap, pages_free, job, ret, initram, owned>>
  BY DEF PhysInv, BitmapFails, EarlyFails, bootvars
<1>2. Types'
  BY <1>1 DEF Types, bootvars
<1>3. (IsBitmap(bitmap) /\ Linked(bitmap))'
  BY <1>1 DEF PhysInv
<1>4. EarlyParts'
  BY <1>1 DEF PhysInv, EarlyParts, EarlyPool, bootvars
<1>5. Room'
  BY <1>1 DEF PhysInv, bootvars, Room
<1>6. Before' /\ NotServing'
  BY <1>1 DEF PhysInv, bootvars, Before, NotServing, Alive
<1>7. Unmarking' /\ JobKnown' /\ Parts' /\ Counted' /\ ExhaustedOnly'
  BY <1>1 DEF Unmarking, JobKnown, Parts, Counted, ExhaustedOnly, Alive
<1> QED
  BY <1>2, <1>3, <1>4, <1>5, <1>6, <1>7 DEF PhysInv

----------------------------------------------------------------------------
(* The unmark loop *)

\* A frame was named if its offset was passed and did not wrap.
LEMMA MarkedMember ==
  ASSUME Types, NEW a, NEW b, NEW f
  PROVE  /\ f \in Marked(a, b) <=>
              \E s \in DOMAIN MemFree : \E h \in 0..(Seen(s, a, b) - 1) :
                 h < UINT_PAGES /\ f = mem_free[s].base + h
         /\ f \in Passed(a, b) <=>
              \E s \in DOMAIN MemFree : \E h \in 0..(Seen(s, a, b) - 1) :
                 h >= UINT_PAGES /\ f = mem_free[s].base + h
BY RegionRange DEF Marked, Passed

\* The frames of a region are its base and the offsets below its size.
LEMMA FrameOffset ==
  ASSUME Types, NEW s \in DOMAIN MemFree, NEW f
  PROVE  f \in FramesOf(mem_free[s]) <=>
           \E h \in 0..(mem_free[s].n - 1) : f = mem_free[s].base + h
<1>1. mem_free[s].base \in Nat /\ mem_free[s].n \in Nat
  BY RegionRange
<1>2. PICK b \in Nat, n \in Nat : b = mem_free[s].base /\ n = mem_free[s].n
  BY <1>1
<1>3. ASSUME f \in b..(b + n - 1)
      PROVE  f - b \in 0..(n - 1) /\ f = b + (f - b)
  BY <1>3
<1>4. ASSUME NEW h \in 0..(n - 1)
      PROVE  b + h \in b..(b + n - 1)
  OBVIOUS
<1> QED
  BY <1>2, <1>3, <1>4 DEF FramesOf

\* An offset names one page of one region.
LEMMA OneOffset ==
  ASSUME Types, EarlyParts,
         NEW s \in DOMAIN MemFree, NEW h \in 0..(mem_free[s].n - 1),
         NEW t \in DOMAIN MemFree, NEW g \in 0..(mem_free[t].n - 1),
         mem_free[s].base + h = mem_free[t].base + g
  PROVE  s = t /\ h = g
<1>1. mem_free[s].base + h \in FramesOf(mem_free[s])
  BY FrameOffset
<1>2. mem_free[t].base + g \in FramesOf(mem_free[t])
  BY FrameOffset
<1>3. s = t
  BY <1>1, <1>2, OneRegion
<1>4. mem_free[s].base \in Nat /\ mem_free[s].n \in Nat
  BY RegionRange
<1> QED
  BY <1>3, <1>4

\* What the frames past the first 4 GiB of a region are.
LEMMA LostMember ==
  ASSUME Types, NEW f
  PROVE  f \in Lost <=>
           \E s \in DOMAIN MemFree : \E h \in 0..(mem_free[s].n - 1) :
              h >= UINT_PAGES /\ f = mem_free[s].base + h
<1>1. UINT_PAGES \in Nat
  BY SizeAssumption
<1> DEFINE Past(s) == [base |-> mem_free[s].base + UINT_PAGES, n |-> mem_free[s].n - UINT_PAGES]
<1>2. f \in Lost <=> \E s \in DOMAIN MemFree : f \in FramesOf(Past(s))
  BY RegionRange DEF Lost
<1>3. ASSUME NEW s \in DOMAIN MemFree
      PROVE  f \in FramesOf(Past(s)) <=>
               \E h \in 0..(mem_free[s].n - 1) : h >= UINT_PAGES /\ f = mem_free[s].base + h
  <2>1. mem_free[s].base \in Nat /\ mem_free[s].n \in Nat
    BY RegionRange
  <2>2. PICK b \in Nat, n \in Nat : b = mem_free[s].base /\ n = mem_free[s].n
    BY <2>1
  <2>3. FramesOf(Past(s)) = (b + UINT_PAGES)..(b + UINT_PAGES + (n - UINT_PAGES) - 1)
    BY <2>2 DEF FramesOf
  <2>4. ASSUME f \in FramesOf(Past(s))
        PROVE  f - b \in 0..(n - 1) /\ f - b >= UINT_PAGES /\ f = b + (f - b)
    BY <1>1, <2>3, <2>4
  <2>5. ASSUME NEW h \in 0..(n - 1), h >= UINT_PAGES
        PROVE  b + h \in FramesOf(Past(s))
    BY <1>1, <2>3, <2>5
  <2> QED
    BY <2>2, <2>4, <2>5
<1> QED
  BY <1>2, <1>3

\* The page named next is new, unless its offset wraps: then it was named
\* already (alloc_page.c:89-90).
LEMMA SeenStep ==
  ASSUME Types, EarlyParts, NEW a \in DOMAIN MemFree, NEW b \in Nat, b < mem_free[a].n
  PROVE  /\ b < UINT_PAGES => /\ Marked(a, b + 1) = Marked(a, b) \cup {mem_free[a].base + b}
                              /\ mem_free[a].base + b \notin Marked(a, b)
                              /\ Passed(a, b + 1) = Passed(a, b)
         /\ b >= UINT_PAGES => /\ Marked(a, b + 1) = Marked(a, b)
                               /\ Passed(a, b + 1) = Passed(a, b) \cup {mem_free[a].base + b}
                               /\ mem_free[a].base + b \notin Passed(a, b)
<1>1. UINT_PAGES \in Nat /\ a \in Nat
  BY SizeAssumption, RegionRange
<1>2. \A s \in DOMAIN MemFree : s \in Nat /\ mem_free[s].base \in Nat /\ mem_free[s].n \in Nat
  BY RegionRange
<1>3. ASSUME NEW s \in DOMAIN MemFree, NEW h
      PROVE  h \in 0..(Seen(s, a, b + 1) - 1) <=>
               h \in 0..(Seen(s, a, b) - 1) \/ (s = a /\ h = b)
  BY <1>1, <1>2 DEF Seen
<1>4. ASSUME NEW s \in DOMAIN MemFree, NEW h \in 0..(Seen(s, a, b) - 1)
      PROVE  h \in 0..(mem_free[s].n - 1) /\ ~(s = a /\ h = b)
  BY <1>1, <1>2 DEF Seen
<1>5. b \in 0..(mem_free[a].n - 1)
  BY <1>2
<1>6. ASSUME NEW s \in DOMAIN MemFree, NEW h \in 0..(Seen(s, a, b) - 1)
      PROVE  mem_free[a].base + b # mem_free[s].base + h
  BY <1>4, <1>5, OneOffset
<1>7. mem_free[a].base + b \notin Marked(a, b) /\ mem_free[a].base + b \notin Passed(a, b)
  BY <1>6, MarkedMember
<1>8. \A f : f \in Marked(a, b + 1) <=>
               f \in Marked(a, b) \/ (b < UINT_PAGES /\ f = mem_free[a].base + b)
  BY <1>3, MarkedMember
<1>9. \A f : f \in Passed(a, b + 1) <=>
               f \in Passed(a, b) \/ (b >= UINT_PAGES /\ f = mem_free[a].base + b)
  BY <1>3, MarkedMember
<1> QED
  BY <1>1, <1>7, <1>8, <1>9

\* The end of a region is the start of the next (alloc_page.c:85-92).
LEMMA SeenNext ==
  ASSUME Types, NEW a \in DOMAIN MemFree
  PROVE  /\ Marked(a + 1, 0) = Marked(a, mem_free[a].n)
         /\ Passed(a + 1, 0) = Passed(a, mem_free[a].n)
<1>1. \A s \in DOMAIN MemFree : s \in Nat /\ mem_free[s].n \in Nat
  BY RegionRange
<1>2. \A s \in DOMAIN MemFree : Seen(s, a + 1, 0) = Seen(s, a, mem_free[a].n)
  BY <1>1 DEF Seen
<1>3. \A f : /\ f \in Marked(a + 1, 0) <=> f \in Marked(a, mem_free[a].n)
             /\ f \in Passed(a + 1, 0) <=> f \in Passed(a, mem_free[a].n)
  BY <1>2, MarkedMember
<1> QED
  BY <1>3

\* Before the first page, none has been named.
LEMMA SeenNone ==
  ASSUME Types
  PROVE  Marked(1, 0) = {} /\ Passed(1, 0) = {}
<1>1. \A s \in DOMAIN MemFree : 0..(Seen(s, 1, 0) - 1) = {}
  BY RegionRange DEF Seen
<1> QED
  BY <1>1, MarkedMember

\* After the last region, all of the free memory is named, but for what lies
\* past the first 4 GiB of a region.
LEMMA SeenAll ==
  ASSUME Types, EarlyParts, NEW a \in Nat \ {0}, a \notin DOMAIN MemFree, NEW b
  PROVE  Marked(a, b) = EarlyPool \ Lost /\ Passed(a, b) = Lost
<1>1. \A s \in DOMAIN MemFree : s \in Nat /\ s < a /\ mem_free[s].n \in Nat
  BY RegionRange
<1>2. \A s \in DOMAIN MemFree : Seen(s, a, b) = mem_free[s].n
  BY <1>1 DEF Seen
<1>3. \A f : f \in Passed(a, b) <=> f \in Lost
  BY <1>2, MarkedMember, LostMember
<1>4. \A f : f \in EarlyPool <=> f \in Marked(a, b) \/ f \in Passed(a, b)
  <2>1. \A f : f \in EarlyPool <=>
          \E s \in DOMAIN MemFree : \E h \in 0..(mem_free[s].n - 1) : f = mem_free[s].base + h
    BY EarlyPoolMember, FrameOffset
  <2>2. \A h \in Nat : h < UINT_PAGES \/ h >= UINT_PAGES
    BY SizeAssumption
  <2> QED
    BY <1>1, <1>2, <2>1, <2>2, MarkedMember
<1>5. \A f : ~(f \in Marked(a, b) /\ f \in Passed(a, b))
  <2> SUFFICES ASSUME NEW f \in Marked(a, b), f \in Passed(a, b)
               PROVE  FALSE
    OBVIOUS
  <2>1. PICK s \in DOMAIN MemFree : \E h \in 0..(mem_free[s].n - 1) :
          h < UINT_PAGES /\ f = mem_free[s].base + h
    BY <1>2, MarkedMember
  <2>2. PICK h \in 0..(mem_free[s].n - 1) :
          h < UINT_PAGES /\ f = mem_free[s].base + h
    BY <2>1
  <2>3. PICK t \in DOMAIN MemFree : \E g \in 0..(mem_free[t].n - 1) :
          g >= UINT_PAGES /\ f = mem_free[t].base + g
    BY <1>2, MarkedMember
  <2>4. PICK g \in 0..(mem_free[t].n - 1) :
          g >= UINT_PAGES /\ f = mem_free[t].base + g
    BY <2>3
  <2>5. h = g
    BY <2>2, <2>4, OneOffset
  <2> QED
    BY <1>1, <2>2, <2>4, <2>5, SizeAssumption
<1> QED
  BY <1>3, <1>4, <1>5

\* A step that leaves the early allocations and the bitmaps' sizes alone keeps
\* what was said of them.
LEMMA EarlySame ==
  ASSUME PhysInv, UNCHANGED <<z, j, bsp, cap, mem_free, taken>>,
         pc' \in {"unmark", "up", "freeing"} => z \notin Zones
  PROVE  /\ EarlyParts' /\ Room' /\ EarlyPool' = EarlyPool /\ Lost' = Lost
         /\ \A a, b : Marked(a, b)' = Marked(a, b) /\ Passed(a, b)' = Passed(a, b)
<1>1. EarlyParts' /\ EarlyPool' = EarlyPool
  BY DEF PhysInv, EarlyParts, EarlyPool
<1>2. Room'
  BY DEF PhysInv, Room
<1>3. Lost' = Lost
  BY DEF Lost
<1>4. \A a, b : Marked(a, b)' = Marked(a, b) /\ Passed(a, b)' = Passed(a, b)
  BY DEF Marked, Passed, Seen
<1> QED
  BY <1>1, <1>2, <1>3, <1>4

\* After the last zone every bitmap has room for its order (alloc_page.c:56-80).
LEMMA ZonesDoneKeeps ==
  ASSUME PhysInv, ZonesDone
  PROVE  PhysInv'
<1>1. /\ Types /\ EarlyParts /\ pc = "zones" /\ pc' = "unmark" /\ z \notin Zones
      /\ UNCHANGED <<bootvars, bitmap, pages_free, job, ret, initram, owned>>
  BY DEF PhysInv, ZonesDone
<1>2. UNCHANGED <<z, j, bsp, cap, mem_free, taken, r, k>>
  BY <1>1 DEF bootvars
<1>3. Types'
  BY <1>1 DEF Types, bootvars
<1>4. (IsBitmap(bitmap) /\ Linked(bitmap))'
  BY <1>1 DEF PhysInv
<1>5. EarlyParts' /\ Room'
  BY <1>1, <1>2, EarlySame
<1>6. Unmarking'
  <2>1. /\ \A y \in Zones : \A l \in Orders : bitmap[y][l] = {}
        /\ r = 1 /\ k = 0 /\ pages_free = 0
    BY <1>1 DEF PhysInv, Before
  <2>2. FreeFrames' = {}
    BY <1>1, <2>1, OrderRange DEF FreeFrames
  <2>3. Marked(r, k)' = {} /\ Passed(r, k)' = {}
    <3>1. Marked(r, k)' = Marked(r, k) /\ Passed(r, k)' = Passed(r, k)
      BY <1>2 DEF Marked, Passed, Seen
    <3> QED
      BY <1>1, <2>1, <3>1, SeenNone
  <2>4. (r \in DOMAIN mem_free => k <= mem_free[r].n)'
    <3>1. \A s \in DOMAIN mem_free : 0 <= mem_free[s].n
      BY <1>1, RegionRange
    <3> QED
      BY <1>2, <2>1, <3>1
  <2>5. IsFiniteSet({}) /\ Cardinality({}) = 0
    BY FS_EmptySet
  <2>6. pages_free' = 0
    BY <1>1, <2>1
  <2> QED
    BY <2>2, <2>3, <2>4, <2>5, <2>6 DEF Unmarking
<1>7. Before' /\ JobKnown' /\ Parts' /\ Counted' /\ ExhaustedOnly'
  BY <1>1 DEF Before, JobKnown, Parts, Counted, ExhaustedOnly, Alive
<1>8. NotServing'
  BY <1>1 DEF PhysInv, NotServing, Alive
<1> QED
  BY <1>3, <1>4, <1>5, <1>6, <1>7, <1>8 DEF PhysInv

\* A new element of a finite set counts one.
LEMMA AddNew ==
  ASSUME NEW S, IsFiniteSet(S), NEW x, x \notin S
  PROVE  IsFiniteSet(S \cup {x}) /\ Cardinality(S \cup {x}) = Cardinality(S) + 1
BY FS_AddElement

\* An element taken from a finite set counted one.
LEMMA DropOne ==
  ASSUME NEW S, IsFiniteSet(S), NEW x \in S
  PROVE  IsFiniteSet(S \ {x}) /\ Cardinality(S \ {x}) = Cardinality(S) - 1
BY FS_RemoveElement

\* The offset computed in 32 bits (alloc_page.c:89).
LEMMA WrappedOffset ==
  ASSUME NEW h \in Nat
  PROVE  /\ UnmarkOffset(h) \in Nat /\ UnmarkOffset(h) < UINT_PAGES
         /\ UnmarkOffset(h) <= h
         /\ h < UINT_PAGES => UnmarkOffset(h) = h
<1>1. PICK w \in Nat \ {0} : w = UINT_PAGES
  BY SizeAssumption
<1>2. h % w \in 0..(w - 1) /\ h % w <= h /\ (h < w => h % w = h)
  BY Z3
<1> QED
  BY <1>1, <1>2 DEF UnmarkOffset

\* Unmarking a page keeps the invariant (alloc_page.c:84-92).
LEMMA UnmarkPageKeeps ==
  ASSUME PhysInv, UnmarkPage
  PROVE  PhysInv'
<1>1. /\ Types /\ EarlyParts /\ pc = "unmark" /\ pc' = "unmark" /\ IsBitmap(bitmap)
      /\ r \in DOMAIN MemFree /\ k \in Nat /\ k < mem_free[r].n /\ z \notin Zones
      /\ k' = k + 1 /\ pages_free' = pages_free + 1 /\ r' = r
      /\ UNCHANGED <<z, j, bsp, cap, mem_free, taken>>
  BY RegionRange DEF PhysInv, UnmarkPage, Types, Room
<1>2. PICK b \in Nat, n \in Nat : b = mem_free[r].base /\ n = mem_free[r].n
  BY <1>1, RegionRange
<1>3. PICK off \in Nat : off = UnmarkOffset(k)
  BY <1>1, WrappedOffset
<1>4. off < UINT_PAGES /\ off <= k /\ (k < UINT_PAGES => off = k) /\ UINT_PAGES \in Nat
  BY <1>1, <1>3, WrappedOffset, SizeAssumption
<1>5. PICK ub : bitmap' = mark_page_free(bitmap, b + off, ub)
  BY <1>2, <1>3 DEF UnmarkPage
<1>6. (IsBitmap(bitmap) /\ Linked(bitmap))'
  BY <1>1, <1>5, MarkFreeShape, MarkFreeLinked DEF PhysInv
<1>7. EarlyParts' /\ Room' /\ \A x, y : Marked(x, y)' = Marked(x, y) /\ Passed(x, y)' = Passed(x, y)
  BY <1>1, EarlySame
<1>8. b + off \in ZoneFrames
  <2>1. off \in 0..(n - 1)
    BY <1>1, <1>2, <1>4
  <2>2. b + off \in EarlyPool
    BY <1>1, <1>2, <2>1, FrameOffset, EarlyPoolMember
  <2> QED
    BY <1>1, <2>2, PoolInZones DEF EarlyParts
<1>9. FreeFrames' = FreeFrames \cup {b + off}
  <2>1. FreeIn(bitmap') = FreeIn(bitmap) \cup ({b + off} \cap ZoneFrames)
    BY <1>1, <1>5, MarkFreeAdds
  <2> QED
    BY <1>8, <2>1 DEF FreeFrames, FreeIn
<1>10. /\ FreeFrames = Marked(r, k)
       /\ IsFiniteSet(Marked(r, k)) /\ IsFiniteSet(Passed(r, k))
       /\ pages_free = Cardinality(Marked(r, k)) + Cardinality(Passed(r, k))
  BY <1>1 DEF PhysInv, Unmarking
<1>11. Cardinality(Marked(r, k)) \in Nat /\ Cardinality(Passed(r, k)) \in Nat
  BY <1>10, FS_CardinalityType
<1>12. /\ FreeFrames' = Marked(r, k + 1)
       /\ IsFiniteSet(Marked(r, k + 1)) /\ IsFiniteSet(Passed(r, k + 1))
       /\ pages_free' = Cardinality(Marked(r, k + 1)) + Cardinality(Passed(r, k + 1))
  <2>1. CASE k < UINT_PAGES
    <3>1. /\ Marked(r, k + 1) = Marked(r, k) \cup {b + k} /\ b + k \notin Marked(r, k)
          /\ Passed(r, k + 1) = Passed(r, k)
      BY <1>1, <1>2, <2>1, SeenStep
    <3>2. /\ IsFiniteSet(Marked(r, k + 1))
          /\ Cardinality(Marked(r, k + 1)) = Cardinality(Marked(r, k)) + 1
      BY <1>10, <3>1, AddNew
    <3> QED
      BY <1>1, <1>4, <1>9, <1>10, <1>11, <2>1, <3>1, <3>2
  <2>2. CASE k >= UINT_PAGES
    <3>1. /\ Marked(r, k + 1) = Marked(r, k) /\ b + k \notin Passed(r, k)
          /\ Passed(r, k + 1) = Passed(r, k) \cup {b + k}
      BY <1>1, <1>2, <2>2, SeenStep
    <3>2. /\ IsFiniteSet(Passed(r, k + 1))
          /\ Cardinality(Passed(r, k + 1)) = Cardinality(Passed(r, k)) + 1
      BY <1>10, <3>1, AddNew
    <3>3. b + off \in Marked(r, k)
      <4>1. off \in 0..(Seen(r, r, k) - 1)
        BY <1>1, <1>4, <2>2 DEF Seen, Types
      <4> QED
        BY <1>1, <1>2, <1>4, <4>1, MarkedMember
    <3> QED
      BY <1>1, <1>9, <1>10, <1>11, <3>1, <3>2, <3>3
  <2> QED
    BY <1>1, <1>4, <2>1, <2>2
<1>13. Unmarking'
  <2>1. (r \in DOMAIN mem_free => k <= mem_free[r].n)'
    BY <1>1, <1>2
  <2>2. Marked(r, k)' = Marked(r, k + 1) /\ Passed(r, k)' = Passed(r, k + 1)
    BY <1>1 DEF Marked, Passed, Seen
  <2> QED
    BY <1>1, <1>12, <2>1, <2>2 DEF Unmarking
<1>14. Types'
  <2>1. k' \in Nat /\ pages_free' \in Int
    BY <1>1 DEF Types
  <2> QED
    BY <1>1, <2>1 DEF UnmarkPage, Types
<1>15. Before' /\ JobKnown' /\ Parts' /\ Counted' /\ ExhaustedOnly'
  BY <1>1 DEF Before, JobKnown, Parts, Counted, ExhaustedOnly, Alive
<1>16. NotServing'
  BY <1>1 DEF PhysInv, NotServing, UnmarkPage, Alive
<1> QED
  BY <1>6, <1>7, <1>13, <1>14, <1>15, <1>16 DEF PhysInv

\* The unmark loop goes on to the next region (alloc_page.c:84-92).
LEMMA NextRegionKeeps ==
  ASSUME PhysInv, NextRegion
  PROVE  PhysInv'
<1>1. /\ Types /\ EarlyParts /\ pc = "unmark" /\ pc' = "unmark" /\ z \notin Zones
      /\ r \in DOMAIN MemFree /\ k \in Nat /\ k >= mem_free[r].n
      /\ r' = r + 1 /\ k' = 0
      /\ UNCHANGED <<z, j, bsp, cap, mem_free, taken, bitmap, pages_free>>
  BY RegionRange DEF PhysInv, NextRegion, Types, Room
<1>2. EarlyParts' /\ Room'
  BY <1>1, EarlySame
<1>3. (IsBitmap(bitmap) /\ Linked(bitmap))'
  BY <1>1 DEF PhysInv
<1>4. k = mem_free[r].n
  <2>1. k <= mem_free[r].n
    BY <1>1, RegionRange DEF PhysInv, Unmarking
  <2> QED
    BY <1>1, <2>1, RegionRange
<1>5. Unmarking'
  <2>1. /\ FreeFrames = Marked(r, k)
        /\ IsFiniteSet(Marked(r, k)) /\ IsFiniteSet(Passed(r, k))
        /\ pages_free = Cardinality(Marked(r, k)) + Cardinality(Passed(r, k))
    BY <1>1 DEF PhysInv, Unmarking
  <2>2. Marked(r + 1, 0) = Marked(r, k) /\ Passed(r + 1, 0) = Passed(r, k)
    BY <1>1, <1>4, SeenNext
  <2>3. Marked(r, k)' = Marked(r + 1, 0) /\ Passed(r, k)' = Passed(r + 1, 0)
    BY <1>1 DEF Marked, Passed, Seen
  <2>4. FreeFrames' = FreeFrames
    BY <1>1 DEF FreeFrames
  <2>5. (r \in DOMAIN mem_free => k <= mem_free[r].n)'
    <3>1. \A s \in DOMAIN mem_free : 0 <= mem_free[s].n
      BY <1>1, RegionRange
    <3> QED
      BY <1>1, <3>1
  <2> QED
    BY <1>1, <2>1, <2>2, <2>3, <2>4, <2>5 DEF Unmarking
<1>6. Types'
  <2>1. k' \in Nat /\ r' \in Nat \ {0}
    BY <1>1 DEF Types
  <2> QED
    BY <1>1, <2>1 DEF NextRegion, Types
<1>7. Before' /\ JobKnown' /\ Parts' /\ Counted' /\ ExhaustedOnly'
  BY <1>1 DEF Before, JobKnown, Parts, Counted, ExhaustedOnly, Alive
<1>8. NotServing'
  BY <1>1 DEF PhysInv, NotServing, NextRegion, Alive
<1> QED
  BY <1>2, <1>3, <1>5, <1>6, <1>7, <1>8 DEF PhysInv

\* Without a call in progress, nothing is being freed.
LEMMA Idle ==
  ASSUME job = NoJob
  PROVE  /\ InFlight = {} /\ Pending = 0
         /\ job.page = 0 /\ job.npages = 0 /\ job.i = 0
<1>1. job.page = 0 /\ job.npages = 0 /\ job.i = 0
  BY DEF NoJob
<1>2. InFlight = {}
  BY <1>1 DEF InFlight
<1>3. Pending = 0
  BY <1>1 DEF Pending
<1> QED
  BY <1>1, <1>2, <1>3

\* The allocator comes up with all that the unmark loop named free.
LEMMA UnmarkDoneKeeps ==
  ASSUME PhysInv, UnmarkDone
  PROVE  PhysInv'
<1>1. /\ Types /\ EarlyParts /\ pc = "unmark" /\ pc' = "up" /\ z \notin Zones
      /\ r \in Nat \ {0} /\ r \notin DOMAIN MemFree
      /\ UNCHANGED <<bootvars, bitmap, pages_free, job, ret, initram, owned>>
  BY RegionRange DEF PhysInv, UnmarkDone, Types, Room
<1>2. UNCHANGED <<z, j, bsp, cap, mem_free, taken>>
  BY <1>1 DEF bootvars
<1>3. EarlyParts' /\ Room' /\ EarlyPool' = EarlyPool /\ Lost' = Lost
  BY <1>1, <1>2, EarlySame
<1>4. (IsBitmap(bitmap) /\ Linked(bitmap))'
  BY <1>1 DEF PhysInv
<1>5. owned = {} /\ job = NoJob /\ ret = NoCall /\ initram = "mapped"
  BY <1>1 DEF PhysInv, NotServing, Alive
<1>6. owned' = {} /\ job' = NoJob /\ ret' = NoCall /\ initram' = "mapped"
  BY <1>1, <1>5
<1>7. Marked(r, k) = EarlyPool \ Lost /\ Passed(r, k) = Lost
  BY <1>1, SeenAll
<1>8. /\ FreeFrames = Marked(r, k)
      /\ IsFiniteSet(Marked(r, k)) /\ IsFiniteSet(Passed(r, k))
      /\ pages_free = Cardinality(Marked(r, k)) + Cardinality(Passed(r, k))
  BY <1>1 DEF PhysInv, Unmarking
<1>9. FreeFrames' = FreeFrames
  BY <1>1 DEF FreeFrames
<1>10. InFlight' = {} /\ Pending' = 0
  <2>1. job'.page = 0 /\ job'.npages = 0 /\ job'.i = 0
    BY <1>6 DEF NoJob
  <2> QED
    BY <2>1 DEF InFlight, Pending
<1>11. Foreign' = 0
  BY <1>6 DEF Foreign
<1>12. Parts'
  BY <1>3, <1>6, <1>7, <1>8, <1>9, <1>10 DEF Parts
<1>13. Counted'
  <2>1. Cardinality(FreeFrames) \in Nat /\ Cardinality(Lost) \in Nat
    BY <1>7, <1>8, FS_CardinalityType
  <2>2. pages_free' = Cardinality(FreeFrames) + Cardinality(Lost)
    BY <1>1, <1>7, <1>8
  <2> QED
    BY <1>3, <1>7, <1>8, <1>9, <1>10, <1>11, <2>1, <2>2 DEF Counted
<1>14. JobKnown'
  BY <1>1, <1>6 DEF JobKnown
<1>15. ExhaustedOnly'
  BY <1>6 DEF ExhaustedOnly, NoCall
<1>16. Before' /\ NotServing' /\ Unmarking'
  BY <1>1 DEF Before, NotServing, Unmarking, Alive
<1>17. Types'
  BY <1>1 DEF Types, bootvars
<1> QED
  BY <1>3, <1>4, <1>12, <1>13, <1>14, <1>15, <1>16, <1>17 DEF PhysInv

----------------------------------------------------------------------------
(* alloc_phys_pages and free_phys_pages *)

\* The calls leave what boot set up alone.
LEMMA ServingSame ==
  ASSUME PhysInv, Alive, pc' \in {"up", "freeing"}, UNCHANGED bootvars
  PROVE  /\ EarlyParts' /\ Room' /\ EarlyPool' = EarlyPool /\ Lost' = Lost
         /\ Before' /\ NotServing' /\ Unmarking'
<1>1. UNCHANGED <<z, j, bsp, cap, mem_free, taken>>
  BY DEF bootvars
<1>2. z \notin Zones
  BY DEF PhysInv, Room, Alive
<1>3. EarlyParts' /\ Room' /\ EarlyPool' = EarlyPool /\ Lost' = Lost
  BY <1>1, <1>2, EarlySame
<1>4. Before' /\ NotServing' /\ Unmarking'
  BY DEF Before, NotServing, Unmarking, Alive
<1> QED
  BY <1>3, <1>4

\* What is handed out or being freed is memory of the zones.
LEMMA OwnedInZones ==
  ASSUME PhysInv, Alive
  PROVE  owned \subseteq ZoneFrames
BY PoolInZones DEF PhysInv, Parts, EarlyParts

\* Handing out a page keeps the invariant (alloc_page.c:100-131).
LEMMA AllocPageKeeps ==
  ASSUME PhysInv, AllocPage
  PROVE  PhysInv'
<1>1. /\ Types /\ IsBitmap(bitmap) /\ Linked(bitmap) /\ pc = "up" /\ pc' = "up" /\ Alive
      /\ job = NoJob /\ job' = NoJob /\ pages_free' = pages_free - 1 /\ initram' = initram
      /\ UNCHANGED bootvars
  BY DEF PhysInv, AllocPage, JobKnown, Alive
<1>2. PICK y \in Zones : \E o \in 0..(MemMap[y].n - 1) :
        /\ Found(y, o)
        /\ bitmap' = mark_page_used(bitmap, MemMap[y].base + o)
        /\ owned' = owned \cup {MemMap[y].base + o}
        /\ ret' = [npages |-> 1, page |-> MemMap[y].base + o]
  BY DEF AllocPage
<1>3. PICK o \in 0..(MemMap[y].n - 1) :
        /\ Found(y, o)
        /\ bitmap' = mark_page_used(bitmap, MemMap[y].base + o)
        /\ owned' = owned \cup {MemMap[y].base + o}
        /\ ret' = [npages |-> 1, page |-> MemMap[y].base + o]
  BY <1>2
<1>4. PICK f \in Nat : f = MemMap[y].base + o
  BY ZoneType
<1>5. f \in FreeIn(bitmap)
  <2>1. o \in bitmap[y][0]
    BY <1>3 DEF Found, Candidates
  <2> QED
    BY <1>4, <2>1, FreeInMember
<1>6. (IsBitmap(bitmap) /\ Linked(bitmap))'
  BY <1>1, <1>3, MarkUsedShape, MarkUsedLinked
<1>7. FreeFrames' = FreeFrames \ {f} /\ f \in FreeFrames
  <2>1. FreeIn(bitmap') = FreeIn(bitmap) \ {f}
    BY <1>1, <1>3, <1>4, MarkUsedRemoves
  <2> QED
    BY <1>5, <2>1 DEF FreeFrames, FreeIn
<1>8. /\ EarlyParts' /\ Room' /\ EarlyPool' = EarlyPool /\ Lost' = Lost
      /\ Before' /\ NotServing' /\ Unmarking'
  BY <1>1, ServingSame
<1>9. InFlight = {} /\ Pending = 0 /\ InFlight' = {} /\ Pending' = 0
  <2>1. InFlight' = InFlight /\ Pending' = Pending
    BY <1>1 DEF InFlight, Pending
  <2> QED
    BY <1>1, <2>1, Idle
<1>10. Parts'
  <2>1. /\ FreeFrames \cup owned \cup (InFlight \cap ZoneFrames) = EarlyPool \ Lost
        /\ FreeFrames \cap owned = {}
    BY <1>1 DEF PhysInv, Parts
  <2>2. owned' = owned \cup {f}
    BY <1>3, <1>4
  <2> QED
    BY <1>7, <1>8, <1>9, <2>1, <2>2 DEF Parts
<1>11. Counted'
  <2>1. /\ IsFiniteSet(FreeFrames) /\ IsFiniteSet(Lost)
        /\ pages_free + 0 = Cardinality(FreeFrames) + Foreign + Cardinality(Lost)
    BY <1>1, <1>9 DEF PhysInv, Counted
  <2>2. IsFiniteSet(FreeFrames') /\ Cardinality(FreeFrames') = Cardinality(FreeFrames) - 1
    BY <1>7, <2>1, DropOne
  <2>3. Cardinality(FreeFrames) \in Nat /\ Cardinality(Lost) \in Nat
    BY <2>1, FS_CardinalityType
  <2>4. Foreign' = Foreign /\ Foreign \in Nat /\ pages_free \in Int
    BY <1>1, SizeAssumption DEF Foreign, Types
  <2>5. pages_free' + 0 = Cardinality(FreeFrames') + Foreign' + Cardinality(Lost')
    BY <1>1, <1>8, <2>1, <2>2, <2>3, <2>4
  <2> QED
    BY <1>8, <1>9, <2>1, <2>2, <2>5 DEF Counted
<1>12. JobKnown'
  BY <1>1 DEF JobKnown
<1>13. ret' = [npages |-> 1, page |-> f]
  BY <1>3, <1>4
<1>14. ExhaustedOnly'
  BY <1>13 DEF ExhaustedOnly, BADPAGE
<1>15. Types'
  <2>1. ret' \in [npages : Nat, page : Nat \cup {BADPAGE, -2}]
    BY <1>13
  <2>2. owned' \in SUBSET Nat /\ pages_free' \in Int
    <3>1. owned \in SUBSET Nat /\ pages_free \in Int
      BY <1>1 DEF Types
    <3>2. owned' = owned \cup {f}
      BY <1>3, <1>4
    <3> QED
      BY <1>1, <3>1, <3>2
  <2> QED
    BY <1>1, <2>1, <2>2 DEF Types, bootvars
<1> QED
  BY <1>6, <1>8, <1>10, <1>11, <1>12, <1>14, <1>15 DEF PhysInv

\* BADPAGE for one page is answered only when every word the scan looks at is
\* full, and those hold every page of their zone (alloc_page.c:105-135).
LEMMA NoneFoundMeansNone ==
  ASSUME IsBitmap(bitmap), NoneFound, NEW y \in Zones, Scanned(y)
  PROVE  FreeFrames \cap FramesOf(MemMap[y]) = {}
<1> SUFFICES ASSUME NEW f \in FreeFrames, f \in FramesOf(MemMap[y])
             PROVE  FALSE
  OBVIOUS
<1>1. PICK o \in bitmap[y][0] : o = f - MemMap[y].base
  <2>1. f \in FreeIn(bitmap)
    BY FreeFramesAre
  <2> QED
    BY <2>1, FreeBit DEF InZone
<1>2. o \in 0..(MemMap[y].n - 1) /\ MemMap[y].n \in Nat
  BY BitInZone, ZoneType
<1>3. PICK w \in Nat \ {0} : w = WORD
  BY SizeAssumption
<1>4. MemMap[y].n <= CeilDiv(MemMap[y].n, w) * w /\ CeilDiv(MemMap[y].n, w) \in Nat
  BY <1>2, CeilBits
<1>5. PICK c \in Nat : c = CeilDiv(MemMap[y].n, w) * w
  BY <1>4, Z3
<1>6. o < CeilDiv(MemMap[y].n, WORD) * WORD
  BY <1>2, <1>3, <1>4, <1>5
<1>7. o \in Candidates(y)
  BY <1>6 DEF Candidates
<1> QED
  BY <1>7 DEF NoneFound

\* A failing call keeps the invariant (alloc_page.c:103,135).
LEMMA AllocFailsKeeps ==
  ASSUME PhysInv, NEW n \in 0..MaxRun, AllocFails(n)
  PROVE  PhysInv'
<1>1. /\ Types /\ IsBitmap(bitmap) /\ pc = "up" /\ pc' = "up" /\ Alive /\ n \in Nat
      /\ ret' = [npages |-> n, page |-> BADPAGE] /\ (n # 1 \/ NoneFound)
      /\ UNCHANGED <<bootvars, bitmap, pages_free, job, initram, owned>>
  BY SizeAssumption DEF PhysInv, AllocFails, Alive
<1>2. /\ EarlyParts' /\ Room' /\ EarlyPool' = EarlyPool /\ Lost' = Lost
      /\ Before' /\ NotServing' /\ Unmarking'
  BY <1>1, ServingSame
<1>3. (IsBitmap(bitmap) /\ Linked(bitmap))'
  BY <1>1 DEF PhysInv
<1>4. FreeFrames' = FreeFrames /\ InFlight' = InFlight /\ Pending' = Pending /\ Foreign' = Foreign
  BY <1>1 DEF FreeFrames, InFlight, Pending, Foreign
<1>5. Parts' /\ Counted'
  BY <1>1, <1>2, <1>4 DEF PhysInv, Parts, Counted
<1>6. JobKnown'
  BY <1>1 DEF PhysInv, JobKnown
<1>7. ExhaustedOnly'
  <2>1. ret'.npages = n
    BY <1>1
  <2>2. n = 1 => \A y \in Zones : Scanned(y) => FreeFrames \cap FramesOf(MemMap[y]) = {}
    BY <1>1, NoneFoundMeansNone
  <2>3. n = 1 => \A y \in Zones : Scanned(y)' => FreeFrames' \cap FramesOf(MemMap[y]) = {}
    BY <1>4, <2>2 DEF Scanned
  <2> QED
    BY <2>1, <2>3 DEF ExhaustedOnly
<1>8. Types'
  BY <1>1 DEF Types, bootvars
<1> QED
  BY <1>2, <1>3, <1>5, <1>6, <1>7, <1>8 DEF PhysInv

\* Starting to free pages that were handed out keeps the invariant
\* (alloc_page.c:162-165).
LEMMA FreeOwnedKeeps ==
  ASSUME PhysInv, NEW p \in owned, NEW n \in 1..MaxRun, FreeOwned(p, n)
  PROVE  PhysInv'
<1>1. /\ Types /\ pc = "up" /\ pc' = "freeing" /\ Alive /\ job = NoJob
      /\ p..(p + n - 1) \subseteq owned
      /\ owned' = owned \ (p..(p + n - 1))
      /\ job' = [page |-> p, npages |-> n, i |-> 0] /\ ret' = NoCall
      /\ UNCHANGED <<bootvars, bitmap, pages_free, initram>>
  BY DEF PhysInv, FreeOwned, JobKnown, Alive
<1>2. p \in Nat /\ n \in Nat
  BY <1>1, SizeAssumption DEF Types
<1>3. /\ EarlyParts' /\ Room' /\ EarlyPool' = EarlyPool /\ Lost' = Lost
      /\ Before' /\ NotServing' /\ Unmarking'
  BY <1>1, ServingSame
<1>4. (IsBitmap(bitmap) /\ Linked(bitmap))'
  BY <1>1 DEF PhysInv
<1>5. job'.page = p /\ job'.npages = n /\ job'.i = 0
  BY <1>1
<1>6. p # InitramFrame
  BY <1>1, OwnedInZones, InitramAssumption
<1>7. InFlight = {} /\ Pending = 0 /\ InFlight' = p..(p + n - 1) /\ Pending' = 0
  <2>1. InFlight' = p..(p + n - 1)
    BY <1>2, <1>5 DEF InFlight
  <2>2. Pending' = 0
    BY <1>5, <1>6 DEF Pending
  <2> QED
    BY <1>1, <2>1, <2>2, Idle
<1>8. FreeFrames' = FreeFrames /\ Foreign' = Foreign
  BY <1>1 DEF FreeFrames, Foreign
<1>9. InFlight' \subseteq owned /\ InFlight' \subseteq ZoneFrames
  BY <1>1, <1>7, OwnedInZones
<1>10. Parts'
  <2>1. /\ FreeFrames \cup owned \cup (InFlight \cap ZoneFrames) = EarlyPool \ Lost
        /\ FreeFrames \cap owned = {}
    BY <1>1 DEF PhysInv, Parts
  <2>2. owned' = owned \ InFlight'
    BY <1>1, <1>7
  <2> QED
    BY <1>3, <1>7, <1>8, <1>9, <2>1, <2>2 DEF Parts
<1>11. Counted'
  BY <1>1, <1>3, <1>7, <1>8 DEF PhysInv, Counted
<1>12. JobKnown'
  BY <1>1, <1>2, <1>5, <1>6, <1>9 DEF JobKnown
<1>13. ExhaustedOnly'
  BY <1>1 DEF ExhaustedOnly
<1>14. Types'
  <2>1. job' \in [page : Nat, npages : Nat, i : Nat]
    BY <1>1, <1>2
  <2>2. ret' \in [npages : Nat, page : Nat \cup {BADPAGE, -2}]
    BY <1>1 DEF NoCall
  <2> QED
    BY <1>1, <2>1, <2>2 DEF Types, bootvars
<1> QED
  BY <1>3, <1>4, <1>10, <1>11, <1>12, <1>13, <1>14 DEF PhysInv

\* Starting to free the initram keeps the invariant (mem.c:44).
LEMMA FreeInitramKeeps ==
  ASSUME PhysInv, FreeInitram
  PROVE  PhysInv'
<1>1. /\ Types /\ pc = "up" /\ pc' = "freeing" /\ Alive /\ job = NoJob
      /\ initram = "mapped" /\ initram' = "freed"
      /\ job' = [page |-> InitramFrame, npages |-> InitramPages, i |-> 0] /\ ret' = NoCall
      /\ UNCHANGED <<bootvars, bitmap, pages_free, owned>>
  BY DEF PhysInv, FreeInitram, JobKnown, Alive
<1>2. InitramFrame \in Nat /\ InitramPages \in Nat
  BY SizeAssumption
<1>3. /\ EarlyParts' /\ Room' /\ EarlyPool' = EarlyPool /\ Lost' = Lost
      /\ Before' /\ NotServing' /\ Unmarking'
  BY <1>1, ServingSame
<1>4. (IsBitmap(bitmap) /\ Linked(bitmap))'
  BY <1>1 DEF PhysInv
<1>5. job'.page = InitramFrame /\ job'.npages = InitramPages /\ job'.i = 0
  BY <1>1
<1>6. InFlight = {} /\ Pending = 0 /\ Pending' = InitramPages
  <2>1. Pending' = InitramPages
    BY <1>5 DEF Pending
  <2> QED
    BY <1>1, <2>1, Idle
<1>7. InFlight' \cap ZoneFrames = {}
  <2>1. InFlight' = FramesOf([base |-> InitramFrame, n |-> InitramPages])
    BY <1>2, <1>5 DEF InFlight, FramesOf
  <2> QED
    BY <2>1, InitramAssumption
<1>8. FreeFrames' = FreeFrames /\ Foreign = 0 /\ Foreign' = InitramPages
  BY <1>1 DEF FreeFrames, Foreign
<1>9. Parts'
  <2>1. /\ FreeFrames \cup owned \cup (InFlight \cap ZoneFrames) = EarlyPool \ Lost
        /\ FreeFrames \cap owned = {}
    BY <1>1 DEF PhysInv, Parts
  <2>2. FreeFrames \subseteq ZoneFrames /\ owned \subseteq ZoneFrames
    BY <1>1, OwnedInZones, FreeInZones, FreeFramesAre DEF PhysInv
  <2> QED
    BY <1>1, <1>3, <1>6, <1>7, <1>8, <2>1, <2>2 DEF Parts
<1>10. Counted'
  <2>1. /\ IsFiniteSet(FreeFrames) /\ IsFiniteSet(Lost)
        /\ pages_free + 0 = Cardinality(FreeFrames) + 0 + Cardinality(Lost)
    BY <1>1, <1>6, <1>8 DEF PhysInv, Counted
  <2>2. Cardinality(FreeFrames) \in Nat /\ Cardinality(Lost) \in Nat /\ pages_free \in Int
    BY <1>1, <2>1, FS_CardinalityType DEF Types
  <2>3. pages_free + InitramPages = Cardinality(FreeFrames) + InitramPages + Cardinality(Lost)
    BY <1>2, <2>1, <2>2
  <2> QED
    BY <1>1, <1>3, <1>6, <1>8, <2>1, <2>3 DEF Counted
<1>11. JobKnown'
  BY <1>1, <1>2, <1>5 DEF JobKnown
<1>12. ExhaustedOnly'
  BY <1>1 DEF ExhaustedOnly
<1>13. Types'
  <2>1. job' \in [page : Nat, npages : Nat, i : Nat]
    BY <1>1, <1>2
  <2>2. ret' \in [npages : Nat, page : Nat \cup {BADPAGE, -2}]
    BY <1>1 DEF NoCall
  <2> QED
    BY <1>1, <2>1, <2>2 DEF Types, bootvars
<1> QED
  BY <1>3, <1>4, <1>9, <1>10, <1>11, <1>12, <1>13 DEF PhysInv

\* Marking a page of the call in progress free keeps the invariant
\* (alloc_page.c:166-167).
LEMMA FreeStepKeeps ==
  ASSUME PhysInv, FreeStep
  PROVE  PhysInv'
<1>1. /\ Types /\ IsBitmap(bitmap) /\ Linked(bitmap)
      /\ pc = "freeing" /\ pc' = "freeing" /\ Alive /\ job.i < job.npages
      /\ job' = [job EXCEPT !.i = @ + 1] /\ ret = NoCall /\ ret' = NoCall
      /\ UNCHANGED <<bootvars, pages_free, ret, initram, owned>>
  BY DEF PhysInv, FreeStep, JobKnown, Alive
<1>2. PICK p \in Nat, n \in Nat, i \in Nat : p = job.page /\ n = job.npages /\ i = job.i
  BY <1>1 DEF Types
<1>3. /\ job'.page = p /\ job'.npages = n /\ job'.i = i + 1
      /\ job' \in [page : Nat, npages : Nat, i : Nat]
  <2>1. job \in [page : Nat, npages : Nat, i : Nat]
    BY <1>1 DEF Types
  <2> QED
    BY <1>1, <1>2, <2>1
<1>4. /\ EarlyParts' /\ Room' /\ EarlyPool' = EarlyPool /\ Lost' = Lost
      /\ Before' /\ NotServing' /\ Unmarking'
  BY <1>1, ServingSame
<1>5. PICK ub : bitmap' = mark_page_free(bitmap, p + i, ub)
  BY <1>2 DEF FreeStep
<1>6. (IsBitmap(bitmap) /\ Linked(bitmap))'
  BY <1>1, <1>5, MarkFreeShape, MarkFreeLinked
<1>7. FreeFrames' = FreeFrames \cup ({p + i} \cap ZoneFrames)
  <2>1. FreeIn(bitmap') = FreeIn(bitmap) \cup ({p + i} \cap ZoneFrames)
    BY <1>1, <1>5, MarkFreeAdds
  <2> QED
    BY <2>1 DEF FreeFrames, FreeIn
<1>8. i < n
  BY <1>1, <1>2
<1>9. /\ InFlight = (p + i)..(p + n - 1)
      /\ InFlight' = (p + (i + 1))..(p + n - 1)
  BY <1>2, <1>3 DEF InFlight
<1>10. p + i \in InFlight /\ InFlight' = InFlight \ {p + i}
  BY <1>8, <1>9
<1>11. /\ FreeFrames \cup owned \cup (InFlight \cap ZoneFrames) = EarlyPool \ Lost
       /\ FreeFrames \cap owned = {}
       /\ InFlight \cap FreeFrames = {} /\ InFlight \cap owned = {}
  BY <1>1 DEF PhysInv, Parts
<1>12. Parts'
  BY <1>1, <1>4, <1>7, <1>10, <1>11 DEF Parts
<1>13. /\ IsFiniteSet(FreeFrames) /\ IsFiniteSet(Lost)
       /\ pages_free + Pending = Cardinality(FreeFrames) + Foreign + Cardinality(Lost)
  BY <1>1 DEF PhysInv, Counted
<1>14. Foreign' = Foreign /\ Foreign \in Nat /\ pages_free \in Int
  BY <1>1, SizeAssumption DEF Foreign, Types
<1>15. \/ p # InitramFrame /\ InFlight \subseteq ZoneFrames
       \/ p = InitramFrame /\ n = InitramPages /\ initram = "freed"
  BY <1>1, <1>2 DEF PhysInv, JobKnown
<1>16. Counted'
  <2>1. CASE p # InitramFrame /\ InFlight \subseteq ZoneFrames
    <3>1. FreeFrames' = FreeFrames \cup {p + i} /\ p + i \notin FreeFrames
      BY <1>7, <1>10, <1>11, <2>1
    <3>2. IsFiniteSet(FreeFrames') /\ Cardinality(FreeFrames') = Cardinality(FreeFrames) + 1
      BY <1>13, <3>1, AddNew
    <3>3. Pending = i /\ Pending' = i + 1
      BY <1>2, <1>3, <2>1 DEF Pending
    <3>4. Cardinality(FreeFrames) \in Nat /\ Cardinality(Lost) \in Nat
      BY <1>13, FS_CardinalityType
    <3>5. pages_free + (i + 1) = (Cardinality(FreeFrames) + 1) + Foreign + Cardinality(Lost)
      <4>1. PICK q \in Int, c \in Nat, g \in Nat, m \in Nat :
              /\ q = pages_free /\ c = Cardinality(FreeFrames)
              /\ g = Foreign /\ m = Cardinality(Lost)
        BY <1>14, <3>4
      <4>2. q + i = c + g + m
        BY <1>13, <3>3, <4>1
      <4>3. q + (i + 1) = (c + 1) + g + m
        BY <4>2
      <4> QED
        BY <4>1, <4>3
    <3>6. pages_free' = pages_free /\ Lost' = Lost
      BY <1>1, <1>4
    <3>7. pages_free' + Pending' = Cardinality(FreeFrames') + Foreign' + Cardinality(Lost')
      BY <1>14, <3>2, <3>3, <3>5, <3>6
    <3> QED
      BY <1>13, <3>2, <3>6, <3>7 DEF Counted
  <2>2. CASE p = InitramFrame /\ n = InitramPages
    <3>1. p + i \notin ZoneFrames
      <4>1. p + i \in FramesOf([base |-> InitramFrame, n |-> InitramPages])
        BY <1>8, <2>2 DEF FramesOf
      <4> QED
        BY <4>1, InitramAssumption
    <3>2. FreeFrames' = FreeFrames
      BY <1>7, <3>1
    <3>3. Pending = n /\ Pending' = n
      BY <1>2, <1>3, <2>2 DEF Pending
    <3>4. pages_free' = pages_free /\ Lost' = Lost
      BY <1>1, <1>4
    <3> QED
      BY <1>13, <1>14, <3>2, <3>3, <3>4 DEF Counted
  <2> QED
    BY <1>15, <2>1, <2>2
<1>17. JobKnown'
  <2>1. job'.i <= job'.npages
    BY <1>3, <1>8
  <2>2. \/ job'.page # InitramFrame /\ InFlight' \subseteq ZoneFrames
        \/ job'.page = InitramFrame /\ job'.npages = InitramPages /\ initram' = "freed"
    BY <1>1, <1>3, <1>10, <1>15
  <2> QED
    BY <1>1, <2>1, <2>2 DEF JobKnown
<1>18. ExhaustedOnly'
  BY <1>1 DEF ExhaustedOnly
<1>19. Types'
  BY <1>1, <1>3 DEF Types, bootvars
<1> QED
  BY <1>4, <1>6, <1>12, <1>16, <1>17, <1>18, <1>19 DEF PhysInv

\* Counting the pages of a finished call keeps the invariant
\* (alloc_page.c:168).
LEMMA FreeDoneKeeps ==
  ASSUME PhysInv, FreeDone
  PROVE  PhysInv'
<1>1. /\ Types /\ pc = "freeing" /\ pc' = "up" /\ Alive /\ job.i >= job.npages
      /\ job.i <= job.npages /\ job' = NoJob /\ ret = NoCall /\ ret' = NoCall
      /\ pages_free' = pages_free + job.npages
      /\ UNCHANGED <<bootvars, bitmap, initram, owned>>
  BY DEF PhysInv, FreeDone, JobKnown, Alive, FreedPages
<1>2. PICK p \in Nat, n \in Nat, i \in Nat : p = job.page /\ n = job.npages /\ i = job.i
  BY <1>1 DEF Types
<1>3. i = n
  BY <1>1, <1>2
<1>4. /\ EarlyParts' /\ Room' /\ EarlyPool' = EarlyPool /\ Lost' = Lost
      /\ Before' /\ NotServing' /\ Unmarking'
  BY <1>1, ServingSame
<1>5. (IsBitmap(bitmap) /\ Linked(bitmap))'
  BY <1>1 DEF PhysInv
<1>6. InFlight = {} /\ InFlight' = {} /\ Pending = n /\ Pending' = 0
  <2>1. InFlight = {} /\ Pending = n
    BY <1>2, <1>3 DEF InFlight, Pending
  <2>2. job'.page = 0 /\ job'.npages = 0 /\ job'.i = 0
    BY <1>1 DEF NoJob
  <2> QED
    BY <2>1, <2>2 DEF InFlight, Pending
<1>7. FreeFrames' = FreeFrames /\ Foreign' = Foreign
  BY <1>1 DEF FreeFrames, Foreign
<1>8. Parts'
  BY <1>1, <1>4, <1>6, <1>7 DEF PhysInv, Parts
<1>9. Counted'
  <2>1. /\ IsFiniteSet(FreeFrames) /\ IsFiniteSet(Lost)
        /\ pages_free + n = Cardinality(FreeFrames) + Foreign + Cardinality(Lost)
    BY <1>1, <1>6 DEF PhysInv, Counted
  <2>2. pages_free' = pages_free + n /\ pages_free' + 0 = pages_free'
    BY <1>1, <1>2 DEF Types
  <2> QED
    BY <1>4, <1>6, <1>7, <2>1, <2>2 DEF Counted
<1>10. JobKnown'
  BY <1>1 DEF JobKnown
<1>11. ExhaustedOnly'
  BY <1>1 DEF ExhaustedOnly, NoCall
<1>12. Types'
  <2>1. job' \in [page : Nat, npages : Nat, i : Nat]
    BY <1>1 DEF NoJob
  <2>2. pages_free' \in Int
    BY <1>1, <1>2 DEF Types
  <2> QED
    BY <1>1, <2>1, <2>2 DEF Types, bootvars
<1> QED
  BY <1>4, <1>5, <1>8, <1>9, <1>10, <1>11, <1>12 DEF PhysInv

----------------------------------------------------------------------------
(* The theorems *)

\* Every step of the allocator keeps the invariant.
LEMMA NextKeeps == PhysInv /\ [Next]_vars => PhysInv'
<1> SUFFICES ASSUME PhysInv, [Next]_vars PROVE PhysInv'
  OBVIOUS
<1>1. CASE MapPhysical \/ MappingDone
  BY <1>1, MapPhysicalKeeps, MappingDoneKeeps
<1>2. CASE InitBitmap \/ BitmapFails \/ ZonesDone
  BY <1>2, InitBitmapKeeps, BitmapFailsKeeps, ZonesDoneKeeps
<1>3. CASE UnmarkPage \/ NextRegion \/ UnmarkDone
  BY <1>3, UnmarkPageKeeps, NextRegionKeeps, UnmarkDoneKeeps
<1>4. CASE \E n \in 0..MaxRun : alloc_phys_pages(n)
  BY <1>4, AllocPageKeeps, AllocFailsKeeps DEF alloc_phys_pages
<1>5. CASE \E p \in owned, n \in 1..MaxRun : FreeOwned(p, n)
  BY <1>5, FreeOwnedKeeps
<1>6. CASE FreeInitram
  BY <1>6, FreeInitramKeeps
<1>7. CASE FreeStep
  BY <1>7, FreeStepKeeps
<1>8. CASE FreeDone
  BY <1>8, FreeDoneKeeps
<1>9. CASE UNCHANGED vars
  <2>1. UNCHANGED <<pc, z, j, bsp, r, k, mem_free, cap, taken, bitmap, pages_free, job, ret,
                    initram, owned>>
    BY <1>9 DEF vars, bootvars
  <2>2. Types'
    BY <1>9 DEF PhysInv, Types, vars, bootvars
  <2>3. (IsBitmap(bitmap) /\ Linked(bitmap) /\ EarlyParts /\ Room /\ Before /\ NotServing)'
    BY <2>1 DEF PhysInv, EarlyParts, EarlyPool, Room, Before, NotServing, Alive
  <2>4. FreeFrames' = FreeFrames /\ EarlyPool' = EarlyPool /\ Lost' = Lost /\ InFlight' = InFlight
    BY <2>1 DEF FreeFrames, EarlyPool, Lost, InFlight
  <2>5. Marked(r, k)' = Marked(r, k) /\ Passed(r, k)' = Passed(r, k)
    BY <2>1 DEF Marked, Passed, Seen
  <2>6. Pending' = Pending /\ Foreign' = Foreign
    BY <2>1 DEF Pending, Foreign
  <2>7. (Unmarking /\ JobKnown /\ Parts /\ Counted)'
    BY <2>1, <2>4, <2>5, <2>6 DEF PhysInv, Unmarking, JobKnown, Parts, Counted, Alive
  <2>8. ExhaustedOnly'
    BY <2>1, <2>4 DEF PhysInv, ExhaustedOnly, Scanned
  <2> QED
    BY <2>2, <2>3, <2>7, <2>8 DEF PhysInv
<1> QED
  BY <1>1, <1>2, <1>3, <1>4, <1>5, <1>6, <1>7, <1>8, <1>9 DEF Next, Wild

\* The allocator's inductive invariant holds always: the bitmaps are as large
\* as their bits need, what is left and what is taken of the early memory make
\* up the pool, and the named frames are free, handed out or being freed
\* (alloc_page.c, mem.c:137-151).
THEOREM PhysInvariant == Spec => []PhysInv
BY InitKeeps, NextKeeps, PTL DEF Spec

\* No bit is touched outside the pages its bitmap was given, although each
\* order gets only half of the pages of the one below (alloc_page.c:71-78).
THEOREM BitmapsFit == Spec => []TypeOK
<1>1. PhysInv => TypeOK
  <2> SUFFICES ASSUME PhysInv PROVE TypeOK
    OBVIOUS
  <2>1. ASSUME NEW y \in Zones, NEW l \in Orders, NEW o \in bitmap[y][l]
        PROVE  o < cap[y][l]
    <3>1. pc \notin {"mapping", "zones", "wild"}
      BY <2>1 DEF PhysInv, Before
    <3>2. z \in Nat \ {0} /\ z \notin Zones
      BY <3>1 DEF PhysInv, Room, Types
    <3>3. y < z
      BY <3>2, ZoneType
    <3>4. PICK off \in 0..(MemMap[y].n - 1) : o = Up(off, l)
      BY <2>1 DEF PhysInv, IsBitmap
    <3> QED
      BY <3>3, <3>4 DEF PhysInv, Room, Holds
  <2>2. bitmap \in [Zones -> [Orders -> SUBSET Nat]] /\ Types
    BY DEF PhysInv, IsBitmap
  <2> QED
    BY <2>1, <2>2 DEF Types, TypeOK
<1> QED
  BY <1>1, PhysInvariant, PTL

\* Every frame of the free memory is, once the allocator is up, exactly one of
\* given away early, free, handed out, being freed, or past the first 4 GiB of
\* its region: no call returns a frame twice or one in use
\* (alloc_page.c:84-92,115-131,162-169).
THEOREM FramesPartitioned == Spec => []PoolPartition
<1>1. PhysInv => PoolPartition
  <2> SUFFICES ASSUME PhysInv, Alive PROVE PoolPartition
    BY DEF PoolPartition
  <2>1. /\ taken \cup EarlyPool = Pool /\ taken \cap EarlyPool = {}
        /\ FreeFrames \cup owned \cup (InFlight \cap ZoneFrames) = EarlyPool \ Lost
        /\ FreeFrames \cap owned = {}
        /\ InFlight \cap FreeFrames = {} /\ InFlight \cap owned = {}
    BY DEF PhysInv, EarlyParts, Parts
  <2>2. Lost \subseteq EarlyPool
    BY LostMember, EarlyPoolMember, FrameOffset DEF PhysInv
  <2>3. Pool \subseteq ZoneFrames
    BY PoolInZones
  <2>4. Pool = taken \cup FreeFrames \cup owned \cup (InFlight \cap ZoneFrames) \cup Lost
    BY <2>1, <2>2
  <2>5. /\ taken \cap FreeFrames = {} /\ taken \cap owned = {}
        /\ Lost \cap (taken \cup FreeFrames \cup owned) = {}
    BY <2>1, <2>2
  <2>6. InFlight \cap (taken \cup FreeFrames \cup owned) = {}
    BY <2>1, <2>3
  <2> QED
    BY <2>1, <2>4, <2>5, <2>6 DEF PoolPartition, Pool
<1> QED
  BY <1>1, PhysInvariant, PTL

\* pages_free is the number of free frames, up to what a free in progress, the
\* initram and regions of more than 4 GiB account for
\* (mem.c:44, alloc_page.c:89-90,126,168).
THEOREM FreeCounted == Spec => []FreeCount
<1>1. PhysInv => FreeCount
  BY DEF PhysInv, Counted, Pending, Foreign, FreeCount
<1> QED
  BY <1>1, PhysInvariant, PTL

\* The orders above the first never miss a free pair, and in the first byte of
\* a bitmap they never invent one (alloc_page.c:14-27,43-49).
THEOREM OrdersAgree == Spec => []Summary
<1>1. PhysInv => Summary
  BY DEF PhysInv, Linked, Summary
<1> QED
  BY <1>1, PhysInvariant, PTL

\* alloc_phys_pages(1) answers BADPAGE only when nothing is free up to the
\* zone its scan stops at (alloc_page.c:105-135).
THEOREM RefusesWhenFull == Spec => []ExhaustedOnly
<1>1. PhysInv => ExhaustedOnly
  BY DEF PhysInv
<1> QED
  BY <1>1, PhysInvariant, PTL
----------------------------------------------------------------------------
(* What boot needs *)

\* No region has lost more pages than were taken.
Spent ==
  /\ IsFiniteSet(taken)
  /\ \A s \in DOMAIN MemFree : MemFree[s].n <= mem_free[s].n + Cardinality(taken)

\* The bitmap made next has the pages EarlyNeed counts for it.
Sized == z \in Zones /\ j > 0 => bsp = BitmapSize(z, j)

EarlyInv == Spent /\ Sized /\ EarlySuffices

\* Of half as many pages, rounded up (alloc_page.c:77).
LEMMA HalfCeil ==
  ASSUME NEW n \in Nat, NEW l \in Orders, l + 1 \in Orders
  PROVE  (CeilDiv(n, 2^l) + 1) \div 2 = CeilDiv(n, 2^(l + 1))
<1>1. l \in 0..6
  BY OrderRange
<1>2. CASE l = 0
  BY <1>2, Powers, Z3 DEF CeilDiv
<1>3. CASE l = 1
  BY <1>3, Powers, Z3 DEF CeilDiv
<1>4. CASE l = 2
  BY <1>4, Powers, Z3 DEF CeilDiv
<1>5. CASE l = 3
  BY <1>5, Powers, Z3 DEF CeilDiv
<1>6. CASE l = 4
  BY <1>6, Powers, Z3 DEF CeilDiv
<1>7. CASE l = 5
  BY <1>7, Powers, Z3 DEF CeilDiv
<1>8. CASE l = 6
  BY <1>8, Powers, Z3 DEF CeilDiv
<1> QED
  BY <1>1, <1>2, <1>3, <1>4, <1>5, <1>6, <1>7, <1>8

\* A zone's first bitmap has a page for every PAGE_BITS pages (alloc_page.c:71).
LEMMA FirstSize ==
  ASSUME NEW y \in Zones
  PROVE  /\ CeilDiv(MemMap[y].n, PAGE_BITS) \in Nat
         /\ BitmapSize(y, 0) = CeilDiv(MemMap[y].n, PAGE_BITS)
<1>1. PICK c \in Nat : c = CeilDiv(MemMap[y].n, PAGE_BITS)
  BY ZoneType, CeilBits, SizeAssumption
<1>2. CeilDiv(c, 1) = c
  BY Z3 DEF CeilDiv
<1> QED
  BY <1>1, <1>2, Powers DEF BitmapSize

\* The size of the next bitmap is counted as it is (alloc_page.c:71-78).
LEMMA SizesAgree ==
  ASSUME Types, Sized, z \in Zones
  PROVE  /\ BitmapPages = BitmapSize(z, j)
         /\ j + 1 \in Orders => (BitmapPages + 1) \div 2 = BitmapSize(z, j + 1)
<1>1. j \in Orders /\ j \in Nat
  BY OrderRange DEF Types
<1>2. BitmapPages = BitmapSize(z, j)
  <2>1. CASE j = 0
    BY <2>1, FirstSize DEF BitmapPages
  <2>2. CASE j # 0
    BY <1>1, <2>2 DEF BitmapPages, Sized
  <2> QED
    BY <2>1, <2>2
<1>3. ASSUME j + 1 \in Orders
      PROVE  (BitmapPages + 1) \div 2 = BitmapSize(z, j + 1)
  <2>1. PICK c \in Nat : c = CeilDiv(MemMap[z].n, PAGE_BITS)
    BY FirstSize
  <2>2. (CeilDiv(c, 2^j) + 1) \div 2 = CeilDiv(c, 2^(j + 1))
    BY <1>1, <1>3, HalfCeil
  <2> QED
    BY <1>2, <2>1, <2>2 DEF BitmapSize
<1> QED
  BY <1>2, <1>3

\* The numbers below n are n.
LEMMA Below ==
  ASSUME NEW n \in Nat
  PROVE  IsFiniteSet(0..(n - 1)) /\ Cardinality(0..(n - 1)) = n
<1>1. PICK m \in Int : m = n - 1
  OBVIOUS
<1>2. 0 \in Int
  OBVIOUS
<1>3. IsFiniteSet(0..m) /\ Cardinality(0..m) = IF 0 > m THEN 0 ELSE m - 0 + 1
  BY <1>2, FS_Interval, Zenon
<1> QED
  BY <1>1, <1>3

\* The pages of a bitmap are as many as its size.
LEMMA PagesCounted ==
  ASSUME NEW y, NEW n \in Nat
  PROVE  IsFiniteSet({<<y, h>> : h \in 0..(n - 1)}) /\ Cardinality({<<y, h>> : h \in 0..(n - 1)}) = n
<1> DEFINE S == 0..(n - 1)
           T == {<<y, h>> : h \in S}
           f == [h \in S |-> <<y, h>>]
<1>1. f \in Injection(S, T)
  BY DEF Injection, IsInjective
<1>2. f \in Surjection(S, T)
  BY DEF Surjection
<1>3. IsFiniteSet(S) /\ Cardinality(S) = n
  BY Below
<1> HIDE DEF f, T, S
<1>4. IsFiniteSet(T) /\ Cardinality(T) = Cardinality(S)
  BY <1>1, <1>2, <1>3, FS_Surjection
<1> QED
  BY <1>3, <1>4 DEF S, T

\* The sizes of bitmaps are numbers (alloc_page.c:71-78).
LEMMA SizeNat ==
  ASSUME NEW y \in Zones, NEW l \in Orders
  PROVE  BitmapSize(y, l) \in Nat
<1>1. PICK c \in Nat : c = CeilDiv(MemMap[y].n, PAGE_BITS)
  BY FirstSize
<1>2. 2^l \in Nat \ {0}
  <2>1. l \in 0..7
    BY OrderRange
  <2>2. CASE l = 0
    BY <2>2, Powers
  <2>3. CASE l = 1
    BY <2>3, Powers
  <2>4. CASE l = 2
    BY <2>4, Powers
  <2>5. CASE l = 3
    BY <2>5, Powers
  <2>6. CASE l = 4
    BY <2>6, Powers
  <2>7. CASE l = 5
    BY <2>7, Powers
  <2>8. CASE l = 6
    BY <2>8, Powers
  <2>9. CASE l = 7
    BY <2>9, Powers
  <2> QED
    BY <2>1, <2>2, <2>3, <2>4, <2>5, <2>6, <2>7, <2>8, <2>9
<1>3. CeilDiv(c, 2^l) \in Nat
  BY <1>1, <1>2, CeilBits
<1> QED
  BY <1>1, <1>3 DEF BitmapSize

\* What boot needs includes what it took, and what it asks for next
\* (mem.c:137-151, alloc_page.c:71-78).
LEMMA NeedCounts ==
  ASSUME Types, IsFiniteSet(taken)
  PROVE  /\ Cardinality(taken) \in Nat
         /\ EarlyNeed \in Nat /\ EarlyNeed >= Cardinality(taken) + todo
         /\ z \in Zones => EarlyNeed >= Cardinality(taken) + BitmapSize(z, j)
<1> DEFINE X == {x \in Zones \X Orders : x[1] > z \/ (x[1] = z /\ x[2] >= j)}
           P(y) == {<<y, h>> : h \in 0..(BitmapSize(y[1], y[2]) - 1)}
           W == {P(y) : y \in X}
           f == [y \in X |-> P(y)]
<1>1. IsFiniteSet(X)
  <2>1. IsFiniteSet(Zones)
    <3>1. PICK m \in Nat : Zones = 1..m
      BY MapAssumption DEF Zones
    <3>2. IsFiniteSet(1..m)
      BY FS_Interval
    <3> QED
      BY <3>1, <3>2
  <2>2. IsFiniteSet(Orders)
    BY Below, SizeAssumption DEF Orders
  <2>3. IsFiniteSet(Zones \X Orders)
    BY <2>1, <2>2, FS_Product
  <2>4. X \in SUBSET (Zones \X Orders)
    OBVIOUS
  <2> HIDE DEF X
  <2> QED
    BY <2>3, <2>4, FS_Subset
<1>2. \A y \in X : BitmapSize(y[1], y[2]) \in Nat /\ IsFiniteSet(P(y))
  BY SizeNat, PagesCounted
<1>3. f \in Surjection(X, W)
  <2>1. f \in [X -> W]
    BY Zenon
  <2>2. \A S \in W : \E y \in X : f[y] = S
    BY Zenon
  <2> QED
    BY <2>1, <2>2, Zenon DEF Surjection
<1>4. BitmapsDue = UNION W
  BY DEF BitmapsDue
<1>5. z \in Zones => <<z, j>> \in X
  <2>1. j \in Orders /\ j \in Nat
    BY OrderRange DEF Types
  <2> QED
    BY <2>1
<1>6. \A S \in W : IsFiniteSet(S)
  BY <1>2
<1>7. z \in Zones => P(<<z, j>>) \in SUBSET BitmapsDue /\ Cardinality(P(<<z, j>>)) = BitmapSize(z, j)
  <2> SUFFICES ASSUME z \in Zones
               PROVE  P(<<z, j>>) \in SUBSET BitmapsDue
                      /\ Cardinality(P(<<z, j>>)) = BitmapSize(z, j)
    OBVIOUS
  <2>1. BitmapSize(z, j) \in Nat
    BY SizeNat DEF Types
  <2>2. Cardinality(P(<<z, j>>)) = BitmapSize(z, j)
    BY <2>1, PagesCounted
  <2>3. P(<<z, j>>) \in W
    BY <1>5
  <2> QED
    BY <1>4, <2>2, <2>3
<1> HIDE DEF X, W, f, P
<1>8. IsFiniteSet(W)
  BY <1>1, <1>3, FS_Surjection
<1>9. IsFiniteSet(BitmapsDue)
  BY <1>4, <1>6, <1>8, FS_UNION
<1>10. Cardinality(BitmapsDue) \in Nat /\ Cardinality(taken) \in Nat /\ todo \in Nat
  BY <1>9, FS_CardinalityType DEF Types
<1>11. z \in Zones => BitmapSize(z, j) <= Cardinality(BitmapsDue)
  BY <1>7, <1>9, FS_Subset
<1>12. z \in Zones => BitmapSize(z, j) \in Nat
  BY SizeNat DEF Types
<1> QED
  BY <1>10, <1>11, <1>12 DEF EarlyNeed

\* The regions left free have sizes.
LEMMA FreeType ==
  ASSUME NEW s \in DOMAIN MemFree
  PROVE  MemFree[s].n \in Nat
<1>1. MemFree \in Seq(RegionType)
  BY MapAssumption
<1>2. MemFree[s] \in RegionType
  BY <1>1
<1> QED
  BY <1>2 DEF RegionType

\* What a region loses is counted as taken (alloc_page.c:147-159).
LEMMA EarlyTakes ==
  ASSUME Types, EarlyParts, Spent, NEW n \in Nat, alloc_phys_early(n)
  PROVE  Spent'
<1>1. PICK i : Bump(n, i)
  BY DEF alloc_phys_early
<1>2. PICK b \in Nat, m \in Nat : b = mem_free[i].base /\ m = mem_free[i].n /\ m >= n
  BY <1>1, RegionRange DEF Bump, FirstFit
<1> DEFINE T == b..(b + n - 1)
<1>3. /\ i \in DOMAIN MemFree /\ taken' = taken \cup T
      /\ mem_free'[i].n = m - n
      /\ \A s \in DOMAIN MemFree : s # i => mem_free'[s] = mem_free[s]
  BY <1>1, <1>2, RegionRange DEF Bump, FirstFit, FramesOf
<1>4. T \subseteq FramesOf(mem_free[i])
  BY <1>2 DEF FramesOf
<1>5. T \cap taken = {}
  BY <1>3, <1>4, EarlyPoolMember DEF EarlyParts
<1>6. IsFiniteSet(T) /\ Cardinality(T) = n
  <2>1. PICK c \in Int : c = b + n - 1
    OBVIOUS
  <2>2. b \in Int
    OBVIOUS
  <2>3. IsFiniteSet(b..c) /\ Cardinality(b..c) = IF b > c THEN 0 ELSE c - b + 1
    BY <2>2, FS_Interval, Zenon
  <2> QED
    BY <2>1, <2>3
<1> HIDE DEF T
<1>7. IsFiniteSet(taken) /\ Cardinality(taken) \in Nat
  BY FS_CardinalityType DEF Spent
<1>8. taken \cap T = {} /\ Cardinality({}) = 0
  BY <1>5, FS_EmptySet
<1>9. IsFiniteSet(taken') /\ Cardinality(taken') = Cardinality(taken) + n
  <2>1. /\ IsFiniteSet(taken \cup T)
        /\ Cardinality(taken \cup T)
             = Cardinality(taken) + Cardinality(T) - Cardinality(taken \cap T)
    BY <1>6, <1>7, FS_Union, Zenon
  <2> QED
    BY <1>3, <1>6, <1>7, <1>8, <2>1
<1>10. ASSUME NEW s \in DOMAIN MemFree
       PROVE  MemFree[s].n <= mem_free'[s].n + Cardinality(taken')
  <2>1. MemFree[s].n \in Nat /\ mem_free[s].n \in Nat
    BY FreeType, RegionRange
  <2>2. MemFree[s].n <= mem_free[s].n + Cardinality(taken)
    BY DEF Spent
  <2>3. CASE s = i
    BY <1>2, <1>3, <1>7, <1>9, <2>1, <2>2, <2>3
  <2>4. CASE s # i
    BY <1>3, <1>7, <1>9, <2>1, <2>2, <2>4
  <2> QED
    BY <2>3, <2>4
<1> QED
  BY <1>9, <1>10 DEF Spent

\* A request that fits nowhere fits with what was taken in no region of the
\* beginning (alloc_page.c:147-159).
LEMMA NoFitMeans ==
  ASSUME Types, Spent, NEW n \in Nat, NoFit(n), EarlyNeed \in Nat,
         EarlyNeed >= Cardinality(taken) + n
  PROVE  \A s \in DOMAIN MemFree : MemFree[s].n < EarlyNeed
<1> SUFFICES ASSUME NEW s \in DOMAIN MemFree PROVE MemFree[s].n < EarlyNeed
  OBVIOUS
<1>1. MemFree[s].n \in Nat /\ mem_free[s].n \in Nat /\ s \in DOMAIN mem_free
  BY FreeType, RegionRange
<1>2. Cardinality(taken) \in Nat /\ MemFree[s].n <= mem_free[s].n + Cardinality(taken)
  BY FS_CardinalityType DEF Spent
<1>3. mem_free[s].n < n
  BY <1>1 DEF NoFit
<1> QED
  BY <1>1, <1>2, <1>3

\* What is counted does not depend on the rest of the state.
LEMMA EarlyKept ==
  ASSUME EarlyInv, UNCHANGED <<todo, z, j, bsp, mem_free, taken>>, pc' = "wild" => pc = "wild"
  PROVE  EarlyInv'
<1>1. Spent' /\ Sized'
  BY DEF EarlyInv, Spent, Sized
<1>2. EarlyNeed' = EarlyNeed
  BY DEF EarlyNeed, BitmapsDue
<1>3. EarlySuffices'
  BY <1>2 DEF EarlyInv, EarlySuffices
<1> QED
  BY <1>1, <1>3 DEF EarlyInv

\* A failure leaves what is counted as it is, and shows no region was enough.
LEMMA EarlyFailure ==
  ASSUME EarlyInv, UNCHANGED <<todo, z, j, bsp, mem_free, taken>>, EarlyNeed \in Nat,
         \A s \in DOMAIN MemFree : MemFree[s].n < EarlyNeed
  PROVE  EarlyInv'
<1>1. Spent' /\ Sized'
  BY DEF EarlyInv, Spent, Sized
<1>2. EarlyNeed' = EarlyNeed
  BY DEF EarlyNeed, BitmapsDue
<1>3. \A s \in DOMAIN MemFree : ~(MemFree[s].n >= EarlyNeed)
  <2> SUFFICES ASSUME NEW s \in DOMAIN MemFree PROVE ~(MemFree[s].n >= EarlyNeed)
    OBVIOUS
  <2>1. MemFree[s].n \in Nat
    BY FreeType
  <2> QED
    BY <2>1
<1>4. EarlySuffices'
  BY <1>2, <1>3 DEF EarlySuffices
<1> QED
  BY <1>1, <1>4 DEF EarlyInv

\* Mapping the physical memory (mem.c:137-151).
LEMMA MapPhysicalSuffices ==
  ASSUME PhysInv, EarlyInv, MapPhysical
  PROVE  EarlyInv'
<1>1. Types /\ EarlyParts /\ Spent /\ Sized /\ pc = "mapping" /\ todo > 0 /\ todo \in Nat
  BY DEF PhysInv, EarlyInv, MapPhysical, Types
<1>2. CASE alloc_phys_early(1) /\ todo' = todo - 1 /\ pc' = pc
  <2>1. Spent'
    BY <1>1, <1>2, EarlyTakes
  <2>2. Sized'
    BY <1>1 DEF Sized, MapPhysical
  <2>3. EarlySuffices'
    BY <1>1, <1>2 DEF EarlySuffices
  <2> QED
    BY <2>1, <2>2, <2>3 DEF EarlyInv
<1>3. CASE EarlyFails(1) /\ todo' = todo
  <2>1. NoFit(1) /\ UNCHANGED <<todo, z, j, bsp, mem_free, taken>>
    BY <1>3 DEF EarlyFails, MapPhysical
  <2>2. Cardinality(taken) \in Nat /\ EarlyNeed \in Nat /\ EarlyNeed >= Cardinality(taken) + todo
    BY <1>1, NeedCounts DEF Spent
  <2>3. EarlyNeed >= Cardinality(taken) + 1
    BY <1>1, <2>2
  <2>4. \A s \in DOMAIN MemFree : MemFree[s].n < EarlyNeed
    BY <1>1, <2>1, <2>2, <2>3, NoFitMeans
  <2> QED
    BY <2>1, <2>2, <2>4, EarlyFailure
<1> QED
  BY <1>2, <1>3 DEF MapPhysical

\* Making a bitmap, and finding no memory for it (alloc_page.c:60-81).
LEMMA InitBitmapSuffices ==
  ASSUME PhysInv, EarlyInv, InitBitmap \/ BitmapFails
  PROVE  EarlyInv'
<1>1. /\ Types /\ EarlyParts /\ Spent /\ Sized /\ pc = "zones" /\ z \in Zones
      /\ j \in Nat /\ j \in Orders /\ z \in Nat
  BY OrderRange DEF PhysInv, EarlyInv, InitBitmap, BitmapFails, Types
<1>2. PICK b \in Nat : b = BitmapPages
  BY <1>1, BitmapFits
<1>3. CASE InitBitmap
  <2>1. Spent'
    BY <1>1, <1>2, <1>3, EarlyTakes DEF InitBitmap
  <2>2. Sized'
    <3>1. /\ bsp' = (b + 1) \div 2
          /\ LastOrder => j' = 0 /\ z' = z + 1
          /\ ~LastOrder => j' = j + 1 /\ z' = z
      BY <1>2, <1>3 DEF InitBitmap
    <3>2. CASE LastOrder
      BY <3>1, <3>2 DEF Sized
    <3>3. CASE ~LastOrder
      <4>1. j + 1 \in Orders
        BY <3>3 DEF LastOrder
      <4>2. (b + 1) \div 2 = BitmapSize(z, j + 1)
        BY <1>1, <1>2, <4>1, SizesAgree
      <4>3. j' = j + 1 /\ z' = z /\ bsp' = BitmapSize(z, j + 1)
        BY <3>1, <3>3, <4>2
      <4>4. BitmapSize(z, j)' = BitmapSize(z', j')
        BY DEF BitmapSize
      <4>5. bsp' = BitmapSize(z, j)'
        BY <4>3, <4>4
      <4> QED
        BY <4>5 DEF Sized
    <3> QED
      BY <3>2, <3>3
  <2>3. EarlySuffices'
    BY <1>1, <1>3 DEF EarlySuffices, InitBitmap
  <2> QED
    BY <2>1, <2>2, <2>3 DEF EarlyInv
<1>4. CASE BitmapFails
  <2>1. NoFit(b) /\ UNCHANGED <<todo, z, j, bsp, mem_free, taken>>
    BY <1>2, <1>4 DEF EarlyFails, BitmapFails
  <2>2. Cardinality(taken) \in Nat /\ EarlyNeed \in Nat
        /\ EarlyNeed >= Cardinality(taken) + BitmapSize(z, j)
    BY <1>1, NeedCounts DEF Spent
  <2>3. b = BitmapSize(z, j)
    BY <1>1, <1>2, SizesAgree
  <2>4. \A s \in DOMAIN MemFree : MemFree[s].n < EarlyNeed
    BY <1>1, <2>1, <2>2, <2>3, NoFitMeans
  <2> QED
    BY <2>1, <2>2, <2>4, EarlyFailure
<1> QED
  BY <1>3, <1>4

\* Every step keeps what is counted.
LEMMA EarlyStep ==
  ASSUME PhysInv, EarlyInv, [Next]_vars
  PROVE  EarlyInv'
<1>1. CASE MapPhysical
  BY <1>1, MapPhysicalSuffices
<1>2. CASE InitBitmap \/ BitmapFails
  BY <1>2, InitBitmapSuffices
<1>3. CASE MappingDone \/ ZonesDone \/ UnmarkDone \/ NextRegion \/ UnmarkPage
  <2>1. UNCHANGED <<todo, z, j, bsp, mem_free, taken>>
    BY <1>3 DEF MappingDone, ZonesDone, UnmarkDone, NextRegion, UnmarkPage, bootvars
  <2>2. pc' = "wild" => pc = "wild"
    BY <1>3 DEF MappingDone, ZonesDone, UnmarkDone, NextRegion, UnmarkPage
  <2> QED
    BY <2>1, <2>2, EarlyKept
<1>4. CASE \/ \E n \in 0..MaxRun : alloc_phys_pages(n)
           \/ \E p \in owned, n \in 1..MaxRun : FreeOwned(p, n)
           \/ FreeInitram \/ FreeStep \/ FreeDone
  <2>1. UNCHANGED bootvars
    BY <1>4 DEF alloc_phys_pages, AllocPage, AllocFails, FreeOwned, FreeInitram, FreeStep, FreeDone
  <2>2. pc' = "wild" => pc = "wild"
    BY <1>4 DEF alloc_phys_pages, AllocPage, AllocFails, FreeOwned, FreeInitram, FreeStep, FreeDone
  <2> QED
    BY <2>1, <2>2, EarlyKept DEF bootvars
<1>5. CASE UNCHANGED vars
  BY <1>5, EarlyKept DEF vars, bootvars
<1> QED
  BY <1>1, <1>2, <1>3, <1>4, <1>5 DEF Next, Wild

\* If one region holds all the pages boot needs, no early allocation fails,
\* although first fit may spread them over several regions
\* (alloc_page.c:71-78,141-160, mem.c:137-151).
THEOREM EarlyPagesSuffice == Spec => []EarlySuffices
<1>1. Init => EarlyInv
  <2> SUFFICES ASSUME Init PROVE EarlyInv
    OBVIOUS
  <2>1. mem_free = MemFree /\ taken = {} /\ j = 0 /\ pc = "mapping"
    BY DEF Init
  <2>2. IsFiniteSet(taken) /\ Cardinality(taken) = 0
    BY <2>1, FS_EmptySet
  <2>3. \A s \in DOMAIN MemFree : MemFree[s].n \in Nat
    BY FreeType
  <2> QED
    BY <2>1, <2>2, <2>3 DEF EarlyInv, Spent, Sized, EarlySuffices
<1>2. PhysInv /\ EarlyInv /\ [Next]_vars => EarlyInv'
  BY EarlyStep
<1>3. EarlyInv => EarlySuffices
  BY DEF EarlyInv
<1> QED
  BY <1>1, <1>2, <1>3, PhysInvariant, PTL DEF Spec
=============================================================================
