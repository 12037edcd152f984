----------------------------- MODULE HeapProofs -----------------------------
(***************************************************************************)
(* Proofs about the kernel heap, for every page size, header size, set of  *)
(* request sizes and bound on the heap.                                    *)
(***************************************************************************)
EXTENDS Heap, TLAPS

\* Ceil rounds up: what it counts holds everything, and no less than one unit
\* of anything at all (mem.h:30-31, mmap.c:16-24).
LEMMA CeilHolds ==
  ASSUME NEW a \in Nat, NEW b \in Nat \ {0}
  PROVE  /\ Ceil(a, b) \in Nat /\ Ceil(a, b) * b \in Nat /\ Ceil(a, b) * b >= a
         /\ a > 0 => Ceil(a, b) > 0 /\ Ceil(a, b) * b >= b
<1> DEFINE q == (a + b - 1) \div b
<1>1. b \in Nat /\ b > 0
  OBVIOUS
<1>2. q \in Int /\ q * b <= a + b - 1 /\ a + b - 1 < (q + 1) * b
  BY <1>1, Z3
<1>3. q >= 0
  BY <1>1, <1>2, Z3
<1>4. (q + 1) * b = q * b + b
  BY <1>1, <1>2, Z3
<1>5. q * b \in Nat
  BY <1>1, <1>2, <1>3, Z3
<1>6. a > 0 => q > 0
  <2>1. q = 0 => q * b = 0
    BY <1>1, Z3
  <2> QED
    BY <1>1, <1>2, <1>3, <1>4, <2>1
<1>7. q > 0 => q * b >= b
  BY <1>1, <1>2, Z3
<1> QED
  BY <1>2, <1>3, <1>4, <1>5, <1>6, <1>7 DEF Ceil

\* Rounding up to pages never loses a byte (mem.h:30-31).
LEMMA PageRound ==
  ASSUME NEW n \in Nat
  PROVE  page_round(n) \in Nat /\ page_round(n) >= n
BY HeapAssumption, CeilHolds DEF page_round

\* The iterator reaches the first page of a range and none past its end; all
\* of it if the tables it counts have room for it (mmap.c:24,75).
LEMMA ReachHolds ==
  ASSUME NEW v \in Nat, NEW n \in Nat \ {0}
  PROVE  /\ Reach(v, n) \in Nat /\ 1 <= Reach(v, n) /\ Reach(v, n) <= n
         /\ (v % F) + n <= Ceil(n, F) * F => Reach(v, n) = n
<1>1. F \in Nat /\ F > 0 /\ v % F \in Nat /\ v % F < F
  BY HeapAssumption, Z3
<1>2. Ceil(n, F) * F \in Nat /\ Ceil(n, F) * F >= F
  BY <1>1, CeilHolds
<1> DEFINE room == (Ceil(n, F) * F) - (v % F)
<1>3. room \in Nat /\ room >= 1
  BY <1>1, <1>2
<1>4. Reach(v, n) = IF n < room THEN n ELSE room
  BY DEF Reach
<1>5. (v % F) + n <= Ceil(n, F) * F => n <= room
  BY <1>1, <1>2
<1> HIDE DEF room
<1> QED
  BY <1>3, <1>4, <1>5

\* The pages of an address and of a length in whole pages.
LEMMA WholePages ==
  ASSUME NEW k \in Nat
  PROVE  (k * PAGESIZE) \div PAGESIZE = k /\ Ceil(k * PAGESIZE, PAGESIZE) = k
<1>1. PAGESIZE \in Nat /\ PAGESIZE > 0 /\ k * PAGESIZE \in Nat
  BY HeapAssumption, Z3
<1> DEFINE d == (k * PAGESIZE) \div PAGESIZE
           e == (k * PAGESIZE + PAGESIZE - 1) \div PAGESIZE
<1>2. d \in Int /\ d * PAGESIZE <= k * PAGESIZE /\ k * PAGESIZE < (d + 1) * PAGESIZE
  BY <1>1, Z3
<1>3. e \in Int /\ e * PAGESIZE <= k * PAGESIZE + PAGESIZE - 1
      /\ k * PAGESIZE + PAGESIZE - 1 < (e + 1) * PAGESIZE
  BY <1>1, Z3
<1>4. d = k
  BY <1>1, <1>2, Z3
<1>5. e = k
  BY <1>1, <1>3, Z3
<1> QED
  BY <1>4, <1>5 DEF Ceil

\* Pages are ordered as their addresses.
LEMMA PagesOrdered ==
  ASSUME NEW j \in Nat, NEW k \in Nat
  PROVE  /\ j * PAGESIZE < k * PAGESIZE => j < k
         /\ j * PAGESIZE <= k * PAGESIZE => j <= k
<1>1. PAGESIZE \in Nat /\ PAGESIZE > 0
  BY HeapAssumption
<1> QED
  BY <1>1, Z3

\* The page of a byte between two page boundaries lies between their pages.
LEMMA PageBetween ==
  ASSUME NEW j \in Nat, NEW k \in Nat, NEW x \in Nat,
         j * PAGESIZE <= x, x < k * PAGESIZE
  PROVE  x \div PAGESIZE \in j..(k - 1)
<1>1. PAGESIZE \in Nat /\ PAGESIZE > 0
  BY HeapAssumption
<1> DEFINE d == x \div PAGESIZE
<1>2. d \in Int /\ d * PAGESIZE <= x /\ x < (d + 1) * PAGESIZE
  BY <1>1, Z3
<1>3. d < k
  BY <1>1, <1>2, Z3
<1>4. j < d + 1
  BY <1>1, <1>2, Z3
<1> QED
  BY <1>2, <1>3, <1>4

\* What a walk over whole pages works on.
LEMMA WalkedPages ==
  ASSUME NEW j \in Nat, NEW k \in Nat, j < k
  PROVE  /\ Walked(j * PAGESIZE, k * PAGESIZE - j * PAGESIZE) = j..(j + Reach(j, k - j) - 1)
         /\ Ceil(k * PAGESIZE - j * PAGESIZE, PAGESIZE) = k - j
         /\ Reach(j, k - j) \in 1..(k - j)
<1>1. k * PAGESIZE - j * PAGESIZE = (k - j) * PAGESIZE
  BY HeapAssumption, Z3
<1>2. k - j \in Nat \ {0}
  OBVIOUS
<1>3. (j * PAGESIZE) \div PAGESIZE = j /\ Ceil((k - j) * PAGESIZE, PAGESIZE) = k - j
  BY <1>2, WholePages
<1> QED
  BY <1>1, <1>2, <1>3, ReachHolds DEF Walked

\* A new block has room for its header and for the request.
LEMMA ExtraSizeRoom ==
  ASSUME req \in Nat
  PROVE  ExtraSize \in Nat /\ ExtraSize - HDR \in Nat /\ ExtraSize - HDR >= req
<1>1. HDR \in Nat /\ req + HDR \in Nat
  BY HeapAssumption
<1>2. page_round(req + HDR) \in Nat /\ page_round(req + HDR) >= req + HDR
  BY <1>1, PageRound
<1> QED
  BY <1>1, <1>2 DEF ExtraSize

\* The end of a block is at most the end of the heap.
LEMMA AfterBound ==
  ASSUME TypeOK, Tiling, NEW a \in DOMAIN hdr
  PROVE  After(a) \in Nat /\ a + HDR <= After(a) /\ After(a) <= heap_size
BY HeapAssumption DEF TypeOK, Tiling, After

\* The empty heap satisfies the invariant.
LEMMA InitHolds == Init => IInv
BY HeapAssumption
   DEF Init, IInv, TypeOK, Tiling, WalkInHeap, LiveIsUsed, NoFreeTail,
       BestSoFar, KeepsUsed, NULL

\* The start of kmalloc's walk keeps the invariant (kmalloc.c:48-58).
LEMMA KmallocHolds ==
  ASSUME IInv, NEW n \in Sizes, kmalloc(n)
  PROVE  IInv'
<1>1. TypeOK' /\ (heap_size <= MaxHeap)'
  BY HeapAssumption DEF IInv, TypeOK, kmalloc, WalkStart
<1>2. Tiling' /\ LiveIsUsed' /\ NoFreeTail'
  BY DEF IInv, kmalloc, Tiling, LiveIsUsed, NoFreeTail, After
<1>3. WalkInHeap'
  <2>1. heap_size = 0 \/ 0 \in DOMAIN hdr
    BY DEF IInv, TypeOK, Tiling
  <2> QED
    BY <2>1 DEF kmalloc, WalkInHeap, WalkStart
<1>4. BestSoFar' /\ KeepsUsed'
  BY DEF IInv, TypeOK, kmalloc, BestSoFar, KeepsUsed, ExtraSize, WalkStart, page_round
<1> QED
  BY <1>1, <1>2, <1>3, <1>4 DEF IInv

\* Passing a header in kmalloc keeps the invariant (kmalloc.c:60-70).
LEMMA KmallocStepHolds ==
  ASSUME IInv, KmallocStep
  PROVE  IInv'
<1>1. blk \in DOMAIN hdr
  BY DEF IInv, KmallocStep, WalkInHeap, TypeOK
<1>2. After(blk) \in Nat /\ blk < After(blk) /\ After(blk) \in DOMAIN hdr \cup {heap_size}
  BY <1>1, AfterBound, HeapAssumption DEF IInv, TypeOK, Tiling
<1>3. TypeOK' /\ (heap_size <= MaxHeap)' /\ WalkInHeap'
  BY <1>1, <1>2 DEF IInv, TypeOK, KmallocStep, WalkInHeap
<1>4. Tiling' /\ LiveIsUsed' /\ NoFreeTail' /\ KeepsUsed'
  BY DEF IInv, KmallocStep, Tiling, LiveIsUsed, NoFreeTail, KeepsUsed, After
<1>5. BestSoFar'
  <2>1. \A a \in DOMAIN hdr : a < After(blk) => a < blk \/ a = blk
    BY <1>1, <1>2 DEF IInv, Tiling, TypeOK
  <2> QED
    BY <1>1, <1>2, <2>1 DEF IInv, TypeOK, KmallocStep, BestSoFar, Better, ExtraSize, NULL
<1> QED
  BY <1>3, <1>4, <1>5 DEF IInv

\* Granting the best block found keeps the invariant (kmalloc.c:71-76).
LEMMA TakeBestHolds ==
  ASSUME IInv, TakeBest
  PROVE  IInv'
<1>1. best \in DOMAIN hdr /\ best \in Nat /\ ~hdr[best].used /\ hdr[best].size >= req
  BY DEF IInv, TypeOK, TakeBest, BestSoFar
<1>2. hdr' = [b \in DOMAIN hdr |-> IF b = best THEN [used |-> TRUE, size |-> hdr[b].size] ELSE hdr[b]]
  BY <1>1 DEF IInv, TypeOK, TakeBest
<1>3. \A b \in DOMAIN hdr : After(b)' = After(b)
  BY <1>2 DEF After
<1>4. TypeOK' /\ (heap_size <= MaxHeap)'
  BY <1>1, <1>2, HeapAssumption DEF IInv, TypeOK, TakeBest, Grant
<1>5. Tiling' /\ WalkInHeap' /\ BestSoFar' /\ KeepsUsed'
  BY <1>2, <1>3 DEF IInv, TakeBest, Grant, Tiling, WalkInHeap, BestSoFar, KeepsUsed
<1>6. LiveIsUsed'
  <2>1. best + HDR \in Nat /\ (best + HDR) - HDR = best
    BY <1>1, HeapAssumption
  <2>2. \A a \in DOMAIN live' : /\ a - HDR \in DOMAIN hdr'
                                 /\ hdr'[a - HDR].used /\ hdr'[a - HDR].size >= live'[a]
    BY <1>1, <1>2, <2>1 DEF IInv, TypeOK, LiveIsUsed, TakeBest, Grant
  <2>3. \A b \in DOMAIN hdr' : hdr'[b].used => b + HDR \in DOMAIN live'
    BY <1>1, <1>2 DEF IInv, LiveIsUsed, TakeBest, Grant
  <2> QED
    BY <2>2, <2>3 DEF LiveIsUsed
<1>7. NoFreeTail'
  BY <1>2, <1>3 DEF IInv, TakeBest, Grant, NoFreeTail
<1> QED
  BY <1>4, <1>5, <1>6, <1>7 DEF IInv

\* A new block at the end of the heap keeps the invariant (kmalloc.c:11-24).
LEMMA MakeNewBlockHolds ==
  ASSUME IInv, make_new_block
  PROVE  IInv'
<1>1. req \in Nat /\ heap_size \in Nat /\ heap_size \notin DOMAIN hdr
  BY DEF IInv, TypeOK, Tiling
<1>2. ExtraSize \in Nat /\ ExtraSize - HDR \in Nat /\ ExtraSize - HDR >= req /\ HDR \in Nat /\ HDR > 0
  BY <1>1, ExtraSizeRoom, HeapAssumption
<1> DEFINE nb == [used |-> TRUE, size |-> ExtraSize - HDR]
<1>3. /\ DOMAIN hdr' = DOMAIN hdr \cup {heap_size}
      /\ hdr'[heap_size] = nb
      /\ \A b \in DOMAIN hdr : hdr'[b] = hdr[b]
      /\ heap_size' = heap_size + ExtraSize
  BY <1>1 DEF make_new_block
<1>4. \A b \in DOMAIN hdr : b + HDR + hdr'[b].size = After(b) /\ After(b) <= heap_size
  BY <1>3, AfterBound DEF After, IInv
<1>5. heap_size + HDR + hdr'[heap_size].size = heap_size'
  BY <1>1, <1>2, <1>3
<1>6. TypeOK' /\ (heap_size <= MaxHeap)'
  <2>1. DOMAIN hdr' \subseteq Nat /\ hdr' \in [DOMAIN hdr' -> [used : BOOLEAN, size : Nat]]
    BY <1>1, <1>2 DEF make_new_block, IInv, TypeOK
  <2>2. DOMAIN live' \subseteq Nat /\ live' \in [DOMAIN live' -> Nat]
    BY <1>1, <1>2 DEF make_new_block, Grant, IInv, TypeOK
  <2>3. mapped' \subseteq Nat
    <3>1. heap_size \div PAGESIZE \in Nat
      BY <1>1, HeapAssumption, Z3
    <3>2. Walked(heap_size, ExtraSize) \subseteq Nat
      BY <3>1 DEF Walked
    <3> QED
      BY <3>2 DEF make_new_block, IInv, TypeOK
  <2>4. (heap_size <= MaxHeap)'
    BY <1>3 DEF IInv, BestSoFar, make_new_block
  <2> QED
    BY <1>1, <1>2, <1>3, <2>1, <2>2, <2>3, <2>4 DEF make_new_block, Grant, IInv, TypeOK
<1>7. Tiling'
  <2>1. 0 \in DOMAIN hdr'
    BY <1>1, <1>3 DEF IInv, Tiling
  <2>2. \A a \in DOMAIN hdr : a < heap_size /\ After(a) \in DOMAIN hdr \cup {heap_size}
    BY DEF IInv, Tiling
  <2>3. ASSUME NEW a \in DOMAIN hdr'
        PROVE  /\ a < heap_size'
               /\ After(a)' \in DOMAIN hdr' \cup {heap_size'}
               /\ \A b \in DOMAIN hdr' : a < b => After(a)' <= b
    <3>1. CASE a \in DOMAIN hdr
      BY <3>1, <1>1, <1>2, <1>3, <1>4, <2>2 DEF IInv, Tiling, TypeOK, After
    <3>2. CASE a = heap_size
      <4>1. After(a)' = heap_size'
        BY <3>2, <1>5 DEF After
      <4>2. \A b \in DOMAIN hdr' : ~(a < b)
        BY <3>2, <1>1, <1>3, <2>2 DEF IInv, TypeOK
      <4> QED
        BY <4>1, <4>2, <3>2, <1>1, <1>2, <1>3
    <3> QED
      BY <3>1, <3>2, <1>3
  <2> QED
    BY <2>1, <2>3 DEF Tiling
<1>8. WalkInHeap' /\ BestSoFar' /\ KeepsUsed'
  BY DEF make_new_block, Grant, WalkInHeap, BestSoFar, KeepsUsed
<1>9. LiveIsUsed'
  <2>1. (heap_size + HDR) - HDR = heap_size /\ heap_size + HDR \in Nat
    BY <1>1, <1>2
  <2>2. DOMAIN live' = DOMAIN live \cup {heap_size + HDR} /\ live'[heap_size + HDR] = req
    BY DEF make_new_block, Grant
  <2>3. \A a \in DOMAIN live : a # heap_size + HDR /\ live'[a] = live[a]
    BY <1>1, <2>1 DEF IInv, LiveIsUsed, make_new_block, Grant
  <2>4. \A a \in DOMAIN live' : /\ a - HDR \in DOMAIN hdr'
                                 /\ hdr'[a - HDR].used /\ hdr'[a - HDR].size >= live'[a]
    BY <1>2, <1>3, <2>1, <2>2, <2>3 DEF IInv, LiveIsUsed
  <2>5. \A b \in DOMAIN hdr' : hdr'[b].used => b + HDR \in DOMAIN live'
    BY <1>3, <2>2 DEF IInv, LiveIsUsed
  <2> QED
    BY <2>4, <2>5 DEF LiveIsUsed
<1>10. NoFreeTail'
  BY <1>3, <1>5 DEF NoFreeTail, After
<1> QED
  BY <1>6, <1>7, <1>8, <1>9, <1>10 DEF IInv

\* kfree, up to shrink's walk, keeps the invariant (kmalloc.c:81-93).
LEMMA KfreeHolds ==
  ASSUME IInv, NEW a \in DOMAIN live, kfree(a)
  PROVE  IInv'
<1> DEFINE h == a - HDR
<1>1. h \in DOMAIN hdr /\ h \in Nat /\ hdr[h].used /\ a \in Nat /\ HDR \in Nat /\ a = h + HDR
  BY HeapAssumption DEF IInv, TypeOK, LiveIsUsed
<1>2. hdr' = [b \in DOMAIN hdr |-> IF b = h THEN [used |-> FALSE, size |-> hdr[b].size] ELSE hdr[b]]
  BY <1>1 DEF IInv, TypeOK, kfree
<1>3. \A b \in DOMAIN hdr : After(b)' = After(b)
  BY <1>2 DEF After
<1>4. TypeOK' /\ (heap_size <= MaxHeap)'
  BY <1>1, <1>2 DEF IInv, TypeOK, kfree, WalkStart
<1>5. Tiling' /\ BestSoFar'
  BY <1>2, <1>3 DEF IInv, kfree, Tiling, BestSoFar
<1>6. LiveIsUsed'
  <2>1. \A c \in DOMAIN live' : /\ c - HDR \in DOMAIN hdr'
                                 /\ hdr'[c - HDR].used /\ hdr'[c - HDR].size >= live'[c]
    BY <1>1, <1>2 DEF IInv, TypeOK, LiveIsUsed, kfree
  <2>2. \A b \in DOMAIN hdr' : hdr'[b].used => b + HDR \in DOMAIN live'
    BY <1>1, <1>2 DEF IInv, TypeOK, LiveIsUsed, kfree
  <2> QED
    BY <2>1, <2>2 DEF LiveIsUsed
<1>7. After(h) = a + hdr[h].size
  BY <1>1 DEF After, IInv, TypeOK
<1>8. heap_size > 0 /\ 0 \in DOMAIN hdr
  <2>1. h < heap_size /\ (heap_size > 0 => 0 \in DOMAIN hdr)
    BY <1>1 DEF IInv, Tiling
  <2>2. heap_size \in Nat
    BY DEF IInv, TypeOK
  <2> QED
    BY <1>1, <2>1, <2>2
<1>9. WalkInHeap' /\ KeepsUsed'
  BY <1>2, <1>8 DEF IInv, TypeOK, kfree, WalkInHeap, KeepsUsed, WalkStart
<1>10. NoFreeTail'
  <2>1. CASE IsLast(a)
    BY <2>1 DEF kfree, NoFreeTail
  <2>2. CASE ~IsLast(a)
    <3>1. PICK b \in DOMAIN hdr : hdr[b].used /\ After(b) = heap_size
      BY <1>8, <2>2 DEF IInv, NoFreeTail, kfree
    <3>2. b # h
      BY <3>1, <2>2, <1>7 DEF IsLast
    <3> QED
      BY <3>1, <3>2, <1>2, <1>3, <2>2 DEF kfree, NoFreeTail
  <2> QED
    BY <2>1, <2>2
<1> QED
  BY <1>4, <1>5, <1>6, <1>9, <1>10 DEF IInv

\* Passing a header in shrink keeps the invariant (kmalloc.c:37-42).
LEMMA ShrinkStepHolds ==
  ASSUME IInv, ShrinkStep
  PROVE  IInv'
<1>1. blk \in DOMAIN hdr /\ blk \in Nat
  BY DEF IInv, ShrinkStep, WalkInHeap, TypeOK
<1>2. After(blk) \in Nat /\ blk < After(blk) /\ After(blk) \in DOMAIN hdr \cup {heap_size}
  BY <1>1, AfterBound, HeapAssumption DEF IInv, TypeOK, Tiling
<1>3. TypeOK' /\ (heap_size <= MaxHeap)' /\ WalkInHeap'
  BY <1>1, <1>2 DEF IInv, TypeOK, ShrinkStep, WalkInHeap
<1>4. Tiling' /\ LiveIsUsed' /\ NoFreeTail' /\ BestSoFar'
  BY DEF IInv, ShrinkStep, Tiling, LiveIsUsed, NoFreeTail, BestSoFar, After
<1>5. KeepsUsed'
  <2>1. \A a \in DOMAIN hdr : a < After(blk) => a < blk \/ a = blk
    BY <1>1, <1>2 DEF IInv, Tiling, TypeOK
  <2>2. \A a \in DOMAIN hdr : a < blk => After(a) <= blk
    BY <1>1 DEF IInv, Tiling
  <2>3. \A a \in DOMAIN hdr : After(a)' = After(a) /\ After(a) \in Nat
    BY AfterBound DEF ShrinkStep, After, IInv
  <2>4. CASE hdr[blk].used
    BY <1>1, <1>2, <2>1, <2>2, <2>3, <2>4 DEF IInv, TypeOK, ShrinkStep, KeepsUsed
  <2>5. CASE ~hdr[blk].used
    BY <1>1, <1>2, <2>1, <2>3, <2>5 DEF IInv, TypeOK, ShrinkStep, KeepsUsed
  <2> QED
    BY <2>4, <2>5
<1> QED
  BY <1>3, <1>4, <1>5 DEF IInv

\* The cut at the end of shrink keeps the invariant (kmalloc.c:44-45).
LEMMA ShrinkDoneHolds ==
  ASSUME IInv, ShrinkDone
  PROVE  IInv'
<1>1. /\ newSize \in DOMAIN hdr \cup {heap_size} /\ newSize \in Nat /\ newSize <= heap_size
      /\ \A a \in DOMAIN hdr : a < heap_size
  <2>1. newSize \in DOMAIN hdr \cup {heap_size}
    BY DEF IInv, KeepsUsed, ShrinkDone
  <2>2. newSize \in Nat /\ heap_size \in Nat
    BY DEF IInv, TypeOK
  <2>3. \A a \in DOMAIN hdr : a < heap_size
    BY DEF IInv, Tiling
  <2>4. newSize <= heap_size
    BY <2>1, <2>2, <2>3
  <2> QED
    BY <2>1, <2>2, <2>3, <2>4
<1>2. \A a \in DOMAIN hdr : hdr[a].used => After(a) <= newSize /\ a < newSize
  <2>1. \A a \in DOMAIN hdr : a < blk
    BY <1>1 DEF ShrinkDone, IInv, TypeOK
  <2> QED
    BY <1>1, <2>1, AfterBound, HeapAssumption DEF ShrinkDone, IInv, TypeOK, KeepsUsed
<1>3. \A a \in DOMAIN hdr : a < newSize => After(a) <= newSize
  BY <1>1, AfterBound DEF IInv, Tiling
<1>4. /\ DOMAIN hdr' = {c \in DOMAIN hdr : c < newSize}
      /\ \A a \in DOMAIN hdr' : hdr'[a] = hdr[a] /\ After(a)' = After(a)
      /\ heap_size' = newSize
  BY DEF ShrinkDone, After
<1>5. TypeOK' /\ (heap_size <= MaxHeap)'
  BY <1>1, HeapAssumption DEF IInv, TypeOK, ShrinkDone
<1>6. Tiling'
  <2>1. newSize > 0 => 0 \in DOMAIN hdr'
    BY <1>1, <1>4 DEF IInv, Tiling, TypeOK
  <2>2. ASSUME NEW a \in DOMAIN hdr'
        PROVE  After(a) \in DOMAIN hdr' \cup {newSize}
    <3>1. a \in DOMAIN hdr /\ After(a) <= newSize
      BY <1>3, <1>4
    <3>2. After(a) \in Nat /\ After(a) \in DOMAIN hdr \cup {heap_size} /\ heap_size \in Nat
      BY <3>1, AfterBound DEF IInv, Tiling, TypeOK
    <3>3. CASE After(a) = newSize
      BY <3>3
    <3>4. CASE After(a) < newSize
      BY <1>1, <1>4, <3>2, <3>4
    <3> QED
      BY <1>1, <3>1, <3>2, <3>3, <3>4
  <2> QED
    BY <1>4, <2>1, <2>2 DEF IInv, Tiling
<1>7. LiveIsUsed'
  <2>1. live' = live
    BY DEF ShrinkDone
  <2> QED
    BY <1>2, <1>4, <2>1 DEF IInv, LiveIsUsed
<1>8. WalkInHeap' /\ BestSoFar' /\ KeepsUsed'
  BY DEF ShrinkDone, WalkInHeap, BestSoFar, KeepsUsed
<1>9. NoFreeTail'
  BY <1>2, <1>4 DEF IInv, KeepsUsed, ShrinkDone, NoFreeTail
<1> QED
  BY <1>5, <1>6, <1>7, <1>8, <1>9 DEF IInv

\* Every step of the heap, and a stutter, keeps the invariant.
LEMMA StepHolds == IInv /\ [Next]_vars => IInv'
<1> SUFFICES ASSUME IInv, [Next]_vars PROVE IInv'
  OBVIOUS
<1>1. ASSUME NEW n \in Sizes, kmalloc(n) PROVE IInv'
  BY <1>1, KmallocHolds
<1>2. ASSUME NEW a \in DOMAIN live, kfree(a) PROVE IInv'
  BY <1>2, KfreeHolds
<1>3. CASE KmallocStep
  BY <1>3, KmallocStepHolds
<1>4. CASE TakeBest
  BY <1>4, TakeBestHolds
<1>5. CASE make_new_block
  BY <1>5, MakeNewBlockHolds
<1>6. CASE ShrinkStep
  BY <1>6, ShrinkStepHolds
<1>7. CASE ShrinkDone
  BY <1>7, ShrinkDoneHolds
<1>8. CASE NoFrame
  BY <1>8 DEF NoFrame, IInv, TypeOK, Tiling, WalkInHeap, LiveIsUsed, NoFreeTail,
              BestSoFar, KeepsUsed, After
<1>9. CASE Stopped \/ UNCHANGED vars
  BY <1>9 DEF Stopped, vars, IInv, TypeOK, Tiling, WalkInHeap, LiveIsUsed, NoFreeTail,
              BestSoFar, KeepsUsed, After, ExtraSize
<1> QED
  BY <1>1, <1>2, <1>3, <1>4, <1>5, <1>6, <1>7, <1>8, <1>9 DEF Next, Walk

\* The heap keeps its inductive invariant: the headers tile it, every block
\* handed out has a header in use of at least the size asked for, and no free
\* block ends it (kmalloc.c).
THEOREM HeapInvariant == Spec => []IInv
<1>1. Init => IInv
  BY InitHolds
<1>2. IInv /\ [Next]_vars => IInv'
  BY StepHolds
<1> QED
  BY <1>1, <1>2, PTL DEF Spec

\* Type correctness of the heap (kmalloc.c:5-9).
THEOREM HeapTypeCorrect == Spec => []TypeOK
<1>1. IInv => TypeOK
  BY DEF IInv
<1> QED
  BY <1>1, HeapInvariant, PTL

\* The walks of kmalloc and shrink always find a header or the end of the
\* heap under their cursor (kmalloc.c:41,69).
THEOREM HeapWellFormed == Spec => [](Tiling /\ WalkInHeap /\ NoFreeTail)
<1>1. IInv => Tiling /\ WalkInHeap /\ NoFreeTail
  BY DEF IInv
<1> QED
  BY <1>1, HeapInvariant, PTL

\* A block handed out keeps a header in use of at least its size until it is
\* freed, and no header is in use for nobody (kmalloc.c:26-29,74,88).
THEOREM HeapBlocksSafe == Spec => []LiveIsUsed
<1>1. IInv => LiveIsUsed
  BY DEF IInv
<1> QED
  BY <1>1, HeapInvariant, PTL

\* Blocks and the heap start and end on page boundaries.
Paged(x) == \E k \in Nat : x = k * PAGESIZE

Aligned == Paged(heap_size) /\ \A a \in DOMAIN hdr : Paged(a)

\* What the growth of a block reached is mapped.
Backed == \A a \in DOMAIN hdr : Walked(a, HDR + hdr[a].size) \subseteq mapped

\* A block is a range of whole pages, and its growth walked them as pages.
LEMMA BlockPages ==
  ASSUME IInv, Aligned, NEW a \in DOMAIN hdr
  PROVE  \E j \in Nat, k \in Nat :
           /\ a = j * PAGESIZE /\ After(a) = k * PAGESIZE /\ j < k
           /\ HDR + hdr[a].size = k * PAGESIZE - j * PAGESIZE
<1>1. PICK j \in Nat : a = j * PAGESIZE
  BY DEF Aligned, Paged
<1>2. After(a) \in DOMAIN hdr \cup {heap_size}
  BY DEF IInv, Tiling
<1>3. PICK k \in Nat : After(a) = k * PAGESIZE
  BY <1>2 DEF Aligned, Paged
<1>4. /\ a \in Nat /\ hdr[a].size \in Nat /\ HDR \in Nat /\ HDR > 0
      /\ After(a) \in Nat /\ After(a) = a + HDR + hdr[a].size
  BY AfterBound, HeapAssumption DEF IInv, TypeOK, After
<1>5. j * PAGESIZE < k * PAGESIZE
  BY <1>1, <1>3, <1>4
<1>6. j < k
  BY <1>5, PagesOrdered
<1>7. HDR + hdr[a].size = After(a) - a
  BY <1>4
<1> QED
  BY <1>1, <1>3, <1>6, <1>7

\* Growing the heap maps what the new block's walk reaches, and the block
\* ends on a page boundary again (kmalloc.c:16-24).
LEMMA MakeNewBlockBacked ==
  ASSUME IInv, Aligned, Backed, make_new_block
  PROVE  Aligned' /\ Backed'
<1>1. req \in Nat /\ heap_size \in Nat /\ HDR \in Nat /\ heap_size \notin DOMAIN hdr
  BY HeapAssumption DEF IInv, TypeOK, Tiling
<1>2. /\ DOMAIN hdr' = DOMAIN hdr \cup {heap_size}
      /\ hdr'[heap_size].size = ExtraSize - HDR
      /\ \A b \in DOMAIN hdr : hdr'[b] = hdr[b]
      /\ heap_size' = heap_size + ExtraSize
      /\ mapped' = mapped \cup Walked(heap_size, ExtraSize)
  BY <1>1 DEF make_new_block
<1>3. Paged(heap_size')
  <2>1. PICK j \in Nat : heap_size = j * PAGESIZE
    BY DEF Aligned, Paged
  <2> DEFINE e == Ceil(req + HDR, PAGESIZE)
  <2>2. e \in Nat /\ ExtraSize = e * PAGESIZE
    BY <1>1, CeilHolds, HeapAssumption DEF ExtraSize, page_round
  <2> HIDE DEF e
  <2>3. heap_size' = (j + e) * PAGESIZE
    BY <1>2, <2>1, <2>2, HeapAssumption, Z3
  <2> QED
    BY <2>2, <2>3 DEF Paged
<1>4. Aligned'
  BY <1>2, <1>3 DEF Aligned, Paged
<1>5. HDR + hdr'[heap_size].size = ExtraSize
  BY <1>1, <1>2, ExtraSizeRoom
<1>6. Backed'
  BY <1>2, <1>5 DEF Backed, Walked
<1> QED
  BY <1>4, <1>6

\* What shrink unmaps lies past every block it keeps (kmalloc.c:44-45).
LEMMA ShrinkDoneBacked ==
  ASSUME IInv, Aligned, Backed, ShrinkDone
  PROVE  Aligned' /\ Backed'
<1>1. newSize \in DOMAIN hdr \cup {heap_size} /\ newSize \in Nat /\ heap_size \in Nat
  BY DEF IInv, TypeOK, KeepsUsed, ShrinkDone
<1>2. /\ DOMAIN hdr' = {c \in DOMAIN hdr : c < newSize}
      /\ \A b \in DOMAIN hdr' : hdr'[b] = hdr[b]
      /\ heap_size' = newSize
      /\ mapped' = mapped \ Walked(newSize, heap_size - newSize)
  BY DEF ShrinkDone
<1>3. Paged(newSize)
  BY <1>1 DEF Aligned
<1>4. Aligned'
  BY <1>2, <1>3 DEF Aligned, Paged
<1>5. PICK m \in Nat : newSize = m * PAGESIZE
  BY <1>3 DEF Paged
<1>6. \A p \in Walked(newSize, heap_size - newSize) : p >= m
  <2>1. newSize \div PAGESIZE = m
    BY <1>5, WholePages
  <2> QED
    BY <2>1 DEF Walked
<1>7. ASSUME NEW a \in DOMAIN hdr'
      PROVE  Walked(a, HDR + hdr'[a].size) \subseteq mapped'
  <2>1. a \in DOMAIN hdr /\ a < newSize /\ hdr'[a] = hdr[a]
    BY <1>2
  <2>2. PICK j \in Nat, k \in Nat :
          /\ a = j * PAGESIZE /\ After(a) = k * PAGESIZE /\ j < k
          /\ HDR + hdr[a].size = k * PAGESIZE - j * PAGESIZE
    BY <2>1, BlockPages
  <2>3. After(a) <= newSize
    BY <1>1, <2>1, AfterBound DEF IInv, Tiling
  <2>4. k <= m
    BY <1>5, <2>2, <2>3, PagesOrdered
  <2>5. Walked(a, HDR + hdr[a].size) \subseteq j..(k - 1)
    <3>1. Walked(a, HDR + hdr[a].size) = j..(j + Reach(j, k - j) - 1) /\ Reach(j, k - j) \in 1..(k - j)
      BY <2>2, WalkedPages
    <3> QED
      BY <3>1
  <2>6. \A p \in Walked(a, HDR + hdr[a].size) : ~(p >= m)
    BY <2>4, <2>5
  <2>7. Walked(a, HDR + hdr[a].size) \subseteq mapped
    BY <2>1 DEF Backed
  <2> QED
    BY <1>2, <1>6, <2>1, <2>6, <2>7
<1>8. Backed'
  BY <1>7 DEF Backed, Walked
<1> QED
  BY <1>4, <1>8

\* Every step keeps blocks on page boundaries and mapped.
LEMMA BackedStep == IInv /\ Aligned /\ Backed /\ [Next]_vars => Aligned' /\ Backed'
<1> SUFFICES ASSUME IInv, Aligned, Backed, [Next]_vars PROVE Aligned' /\ Backed'
  OBVIOUS
<1>1. CASE make_new_block
  BY <1>1, MakeNewBlockBacked
<1>2. CASE ShrinkDone
  BY <1>2, ShrinkDoneBacked
<1>3. ASSUME DOMAIN hdr' = DOMAIN hdr, heap_size' = heap_size, mapped' = mapped,
             \A b \in DOMAIN hdr : hdr'[b].size = hdr[b].size
      PROVE  Aligned' /\ Backed'
  BY <1>3 DEF Aligned, Paged, Backed, Walked
<1>4. ASSUME NEW n \in Sizes, kmalloc(n) PROVE Aligned' /\ Backed'
  BY <1>3, <1>4 DEF kmalloc
<1>5. ASSUME NEW a \in DOMAIN live, kfree(a) PROVE Aligned' /\ Backed'
  BY <1>3, <1>5 DEF kfree, IInv, TypeOK
<1>6. CASE TakeBest
  BY <1>3, <1>6 DEF TakeBest, Grant, IInv, TypeOK
<1>7. CASE KmallocStep \/ NoFrame \/ ShrinkStep \/ Stopped \/ UNCHANGED vars
  BY <1>3, <1>7 DEF KmallocStep, NoFrame, ShrinkStep, Stopped, vars
<1> QED
  BY <1>1, <1>2, <1>4, <1>5, <1>6, <1>7 DEF Next, Walk

\* The headers' pages are mapped, and the bytes of a block whose growth stayed
\* within the tables counted.
LEMMA BackedBlocks == IInv /\ Aligned /\ Backed => BlocksBacked
<1> SUFFICES ASSUME IInv, Aligned, Backed PROVE BlocksBacked
  OBVIOUS
<1>1. ASSUME NEW a \in DOMAIN hdr
      PROVE  /\ a \div PAGESIZE \in mapped
             /\ InTables(a) => \A x \in a..(After(a) - 1) : x \div PAGESIZE \in mapped
  <2>1. PICK j \in Nat, k \in Nat :
          /\ a = j * PAGESIZE /\ After(a) = k * PAGESIZE /\ j < k
          /\ HDR + hdr[a].size = k * PAGESIZE - j * PAGESIZE
    BY BlockPages
  <2>2. /\ Walked(a, HDR + hdr[a].size) = j..(j + Reach(j, k - j) - 1)
        /\ Ceil(HDR + hdr[a].size, PAGESIZE) = k - j /\ Reach(j, k - j) \in 1..(k - j)
    BY <2>1, WalkedPages
  <2>3. j..(j + Reach(j, k - j) - 1) \subseteq mapped
    BY <2>2 DEF Backed
  <2>4. a \div PAGESIZE = j
    BY <2>1, WholePages
  <2>5. ASSUME InTables(a), NEW x \in a..(After(a) - 1)
        PROVE  x \div PAGESIZE \in mapped
    <3>1. (j % F) + (k - j) <= Ceil(k - j, F) * F
      BY <2>2, <2>4, <2>5 DEF InTables
    <3>2. Reach(j, k - j) = k - j
      BY <2>1, <3>1, ReachHolds
    <3>3. x \in Nat /\ j * PAGESIZE <= x /\ x < k * PAGESIZE
      BY <2>1, <2>5, AfterBound DEF IInv, TypeOK
    <3>4. x \div PAGESIZE \in j..(k - 1)
      BY <3>3, PageBetween
    <3>5. j + (k - j) - 1 = k - 1
      OBVIOUS
    <3> QED
      BY <2>3, <3>2, <3>4, <3>5
  <2>6. j \in j..(j + Reach(j, k - j) - 1)
    BY <2>2
  <2> QED
    BY <2>3, <2>4, <2>5, <2>6
<1>2. ASSUME NEW b \in DOMAIN live, InTables(b - HDR), NEW x \in b..(b + live[b] - 1)
      PROVE  x \div PAGESIZE \in mapped
  <2>1. /\ b \in Nat /\ live[b] \in Nat /\ HDR \in Nat /\ b - HDR \in DOMAIN hdr
        /\ b - HDR \in Nat /\ hdr[b - HDR].size >= live[b] /\ hdr[b - HDR].size \in Nat
    BY HeapAssumption DEF IInv, TypeOK, LiveIsUsed
  <2>2. After(b - HDR) = b + hdr[b - HDR].size
    BY <2>1 DEF After
  <2>3. x \in (b - HDR)..(After(b - HDR) - 1)
    BY <1>2, <2>1, <2>2
  <2> QED
    BY <1>1, <1>2, <2>1, <2>3
<1> QED
  BY <1>1, <1>2 DEF BlocksBacked

\* The pages of all headers are mapped and so are all bytes of every block
\* handed out, but for those past the end of the tables counted for its
\* growth, whatever was allocated, freed and trimmed (kmalloc.c:19,44,
\* mmap.c:24).
THEOREM HeapBlocksBacked == Spec => []BlocksBacked
<1>1. Init => Aligned /\ Backed
  <2>1. Paged(0)
    BY HeapAssumption, Z3 DEF Paged
  <2> QED
    BY <2>1 DEF Init, Aligned, Backed
<1>2. IInv /\ Aligned /\ Backed /\ [Next]_vars => Aligned' /\ Backed'
  BY BackedStep
<1>3. IInv /\ Aligned /\ Backed => BlocksBacked
  BY BackedBlocks
<1> QED
  BY <1>1, <1>2, <1>3, HeapInvariant, PTL DEF Spec

\* kmalloc takes a smallest free block that fits, and grows the heap only when
\* none fits (kmalloc.c:60-78).
THEOREM HeapBestFit == Spec => BestFit
<1> DEFINE Fit == /\ TakeBest => \A a \in DOMAIN hdr : ~hdr[a].used /\ hdr[a].size >= req =>
                                    hdr[best].size <= hdr[a].size
                  /\ make_new_block => \A a \in DOMAIN hdr : ~hdr[a].used => hdr[a].size < req
<1>1. IInv => Fit
  <2> SUFFICES ASSUME IInv PROVE Fit
    OBVIOUS
  <2>1. pc = "kmalloc" /\ blk >= heap_size => \A a \in DOMAIN hdr : a < blk
    BY DEF IInv, TypeOK, Tiling
  <2>2. TakeBest => \A a \in DOMAIN hdr : ~hdr[a].used /\ hdr[a].size >= req =>
                      hdr[best].size <= hdr[a].size
    BY <2>1 DEF IInv, BestSoFar, TakeBest
  <2>3. make_new_block => \A a \in DOMAIN hdr : ~hdr[a].used => hdr[a].size < req
    BY <2>1 DEF IInv, TypeOK, BestSoFar, make_new_block
  <2> QED
    BY <2>2, <2>3
<1>2. IInv => [Fit]_vars
  BY <1>1
<1> QED
  BY <1>2, HeapInvariant, PTL DEF BestFit

\* A live block's bytes lie between its header and the next one.
LEMMA LiveBlock ==
  ASSUME IInv, NEW b \in DOMAIN live
  PROVE  /\ b \in Nat /\ live[b] \in Nat /\ HDR \in Nat
         /\ b - HDR \in DOMAIN hdr /\ b - HDR \in Nat /\ hdr[b - HDR].used
         /\ b + live[b] <= After(b - HDR) /\ After(b - HDR) \in Nat
<1>1. /\ b \in Nat /\ live[b] \in Nat /\ HDR \in Nat /\ b - HDR \in DOMAIN hdr
      /\ b - HDR \in Nat /\ hdr[b - HDR].used /\ hdr[b - HDR].size >= live[b]
      /\ hdr[b - HDR].size \in Nat
  BY HeapAssumption DEF IInv, TypeOK, LiveIsUsed
<1>2. After(b - HDR) = b + hdr[b - HDR].size
  BY <1>1 DEF After
<1> QED
  BY <1>1, <1>2

\* The block kmalloc reuses meets no live block (kmalloc.c:72-75).
LEMMA TakeBestSeparate ==
  ASSUME IInv, TakeBest
  PROVE  A!Separate(best + HDR, req) /\ best + HDR \in 0..MaxHeap
<1>1. /\ best \in DOMAIN hdr /\ best \in Nat /\ ~hdr[best].used /\ hdr[best].size >= req
      /\ req \in Nat /\ HDR \in Nat /\ hdr[best].size \in Nat
  BY HeapAssumption DEF IInv, TypeOK, TakeBest, BestSoFar
<1>2. After(best) = best + HDR + hdr[best].size /\ After(best) <= heap_size
  BY <1>1, AfterBound DEF After, IInv
<1>3. ASSUME NEW b \in DOMAIN live
      PROVE  best + HDR # b /\ (best + HDR + req <= b \/ b + live[b] <= best + HDR)
  <2> DEFINE h == b - HDR
  <2>1. /\ b \in Nat /\ live[b] \in Nat /\ h \in DOMAIN hdr /\ h \in Nat /\ hdr[h].used
        /\ b + live[b] <= After(h) /\ After(h) \in Nat
    BY LiveBlock
  <2>2. h # best
    BY <1>1, <2>1
  <2>3. CASE h < best
    <3>1. After(h) <= best
      BY <1>1, <2>1, <2>3 DEF IInv, Tiling
    <3> QED
      BY <1>1, <2>1, <2>3, <3>1
  <2>4. CASE best < h
    <3>1. After(best) <= h
      BY <1>1, <2>1, <2>4 DEF IInv, Tiling
    <3> QED
      BY <1>1, <1>2, <2>1, <2>4, <3>1
  <2> QED
    BY <1>1, <2>1, <2>2, <2>3, <2>4
<1>4. best + HDR \in 0..MaxHeap
  BY <1>1, <1>2, HeapAssumption DEF IInv, TypeOK
<1> QED
  BY <1>3, <1>4 DEF A!Separate

\* A new block starts past every live block (kmalloc.c:16-29).
LEMMA NewBlockSeparate ==
  ASSUME IInv, make_new_block
  PROVE  A!Separate(heap_size + HDR, req) /\ heap_size + HDR \in 0..MaxHeap
<1>1. req \in Nat /\ heap_size \in Nat /\ HDR \in Nat /\ HDR > 0
  BY HeapAssumption DEF IInv, TypeOK
<1>2. ASSUME NEW b \in DOMAIN live
      PROVE  heap_size + HDR # b /\ b + live[b] <= heap_size + HDR
  <2>1. b \in Nat /\ live[b] \in Nat /\ b + live[b] <= After(b - HDR) /\ After(b - HDR) <= heap_size
    BY LiveBlock, AfterBound DEF IInv
  <2>2. After(b - HDR) \in Nat
    BY LiveBlock
  <2> QED
    BY <1>1, <2>1, <2>2
<1>3. heap_size + HDR \in 0..MaxHeap
  <2>1. ExtraSize \in Nat /\ ExtraSize - HDR \in Nat
    BY <1>1, ExtraSizeRoom
  <2>2. heap_size + ExtraSize <= MaxHeap /\ MaxHeap \in Nat
    BY HeapAssumption DEF IInv, BestSoFar, make_new_block
  <2> QED
    BY <1>1, <2>1, <2>2
<1> QED
  BY <1>2, <1>3 DEF A!Separate

\* Every step of the heap is a step of the arena or a stutter.
LEMMA StepRefines == IInv /\ [Next]_vars => [A!Next]_live
<1> SUFFICES ASSUME IInv, [Next]_vars PROVE [A!Next]_live
  OBVIOUS
<1>1. ASSUME NEW a \in DOMAIN live, kfree(a) PROVE A!Next
  BY <1>1 DEF kfree, A!Next, A!Release
<1>2. CASE TakeBest
  <2>1. A!Alloc(best + HDR, req)
    BY <1>2, TakeBestSeparate DEF A!Alloc, TakeBest, Grant
  <2>2. req \in Sizes /\ best + HDR \in 0..MaxHeap
    BY <1>2, TakeBestSeparate DEF IInv, BestSoFar, TakeBest
  <2> QED
    BY <2>1, <2>2 DEF A!Next
<1>3. CASE make_new_block
  <2>1. A!Alloc(heap_size + HDR, req)
    BY <1>3, NewBlockSeparate DEF A!Alloc, make_new_block, Grant
  <2>2. req \in Sizes /\ heap_size + HDR \in 0..MaxHeap
    BY <1>3, NewBlockSeparate DEF IInv, BestSoFar, make_new_block
  <2> QED
    BY <2>1, <2>2 DEF A!Next
<1>4. CASE KmallocStep \/ NoFrame \/ ShrinkStep \/ ShrinkDone \/ Stopped \/ UNCHANGED vars
  BY <1>4 DEF KmallocStep, NoFrame, ShrinkStep, ShrinkDone, Stopped, vars
<1>5. ASSUME NEW n \in Sizes, kmalloc(n) PROVE UNCHANGED live
  BY <1>5 DEF kmalloc
<1> QED
  BY <1>1, <1>2, <1>3, <1>4, <1>5 DEF Next, Walk

\* The heap implements the arena: a block handed out meets no other block
\* handed out and not yet freed, whatever was allocated, freed and trimmed
\* before (kmalloc.c).
THEOREM HeapRefinesArena == Spec => RefinesArena
<1>1. Init => A!Init
  BY DEF Init, A!Init
<1>2. IInv /\ [Next]_vars => [A!Next]_live
  BY StepRefines
<1> QED
  BY <1>1, <1>2, HeapInvariant, PTL DEF Spec, RefinesArena, A!Spec
=============================================================================
