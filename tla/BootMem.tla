------------------------------ MODULE BootMem ------------------------------
(***************************************************************************)
(* How the boot loader finds memory, maps it and loads the initram and the *)
(* kernel (boot/bootloader: memory.c, alloc.c, initram.c, elf.c, bmain.c). *)
(*                                                                         *)
(* Addresses are in units of which PAGE make a page; a page table has F    *)
(* entries, so that a "gigabyte", what one page directory maps, is F * F   *)
(* pages.  A table entry holds the page it points to or is NONE.           *)
(***************************************************************************)
EXTENDS Integers, Sequences, FiniteSets

CONSTANTS
  PAGE,      \* PAGESIZE (4096)
  F,         \* entries of a page table (512)
  WRAP,      \* 2^64: sizes are uint64_t
  LOMEM,     \* 0x1000000, the end of lomem
  LOPAGE,    \* number of the first page alloc_page_lo gives (0x100000)
  SCAN,      \* entries of mem_free that alloc_page_hi looks at (32, of 64)
  MAX_MEM_REGIONS,  \* entries of mem_map and mem_free (64)
  IDENT,     \* gigabytes that memory_identity_map maps (4)
  E820,      \* the memory maps a BIOS may report: sequences of [base, size, type]
  Images     \* what is loaded: the initram, then the segments of the kernel,
             \* each [vaddr, memsz, filesz]

NONE  == -1
\* pages that an entry of a table of level l stands for; all that there are
Span(l) == CASE l = 0 -> F * F * F [] l = 1 -> F * F [] l = 2 -> F [] OTHER -> 1
SPACE   == F * Span(0)
GIG     == F * F
Pages(img) == {v \in 0..(SPACE - 1) : \E s \in DOMAIN img :
                 v * PAGE < img[s].vaddr + img[s].memsz /\ (v + 1) * PAGE > img[s].vaddr}

ASSUME BootAssumption ==
  /\ PAGE \in Nat \ {0} /\ F \in Nat \ {0} /\ WRAP \in Nat \ {0} /\ SCAN \in Nat
  /\ LOMEM \in Nat /\ LOMEM % PAGE = 0 /\ LOPAGE \in Nat
  /\ E820 \subseteq Seq([base : Nat, size : 0..(WRAP - 1), type : Nat])
  \* memory_detect stores what the BIOS reports without looking at the end of its
  \* arrays, and what reads them looks for an entry of size 0 after the last
  /\ MAX_MEM_REGIONS \in Nat /\ \A m \in E820 : Len(m) < MAX_MEM_REGIONS
  /\ IDENT \in 1..F /\ (LOPAGE + 1 + IDENT) * PAGE <= LOMEM /\ LOMEM < GIG * PAGE
  /\ \A m \in E820 : \A i, h \in DOMAIN m : i # h =>
        m[i].base + m[i].size <= m[h].base \/ m[h].base + m[h].size <= m[i].base
  \* what is loaded lies in the address space, not in its identity-mapped part
  /\ Images \subseteq Seq([vaddr : Nat, memsz : Nat, filesz : Nat])
  /\ \A img \in Images : img # <<>> /\ \A s \in DOMAIN img :
        /\ img[s].vaddr >= Span(0) * PAGE /\ img[s].vaddr + img[s].memsz <= SPACE * PAGE
        /\ img[s].filesz <= img[s].memsz

VARIABLES
  pc,        \* the phase of bmain, or "wild" once a page that is not mapped, or the
             \* answer 0 of alloc_page_hi, is used as a page
  e820, e,   \* the map the BIOS reports, the entry it is asked for
  mem_map, mem_free,   \* gBootParams
  lo,        \* alloc_page_lo's next page
  tab,       \* page of a table |-> its entries
  root,      \* gBootParams.cr3 (NONE before it is set)
  cr3,       \* what the processor uses: NONE is the bootstrap mapping
  i, j,      \* memory_identity_map's loops
  img, s,    \* the image, the segment being loaded
  n, lvl, at,\* valloc's page, map_single's level and table
  data,      \* frame |-> set of <<segment, page>> whose bytes it holds
  given      \* ghost: pages alloc_page_hi gave

memvars  == <<e820, e, mem_map>>
vars == <<pc, memvars, mem_free, lo, tab, root, cr3, i, j, img, s, n, lvl, at, data, given>>

EmptyTable == [x \in 0..(F - 1) |-> NONE]
----------------------------------------------------------------------------
(* memory_detect *)
Usable(m) == m.size # 0 /\ m.type = 1

\* mutant: a region that straddles the end of lomem is kept whole
ClippedWhole(m) == [base |-> m.base, size |-> m.size]

\* the part of a region above lomem
Clipped(m) ==
  IF m.base < LOMEM THEN [base |-> LOMEM, size |-> m.size - (LOMEM - m.base)]
                    ELSE [base |-> m.base, size |-> m.size]

DetectEntry ==
  /\ pc = "detect" /\ e \in DOMAIN e820
  /\ LET m == e820[e] IN
       /\ mem_map' = IF Usable(m) THEN Append(mem_map, [base |-> m.base, size |-> m.size]) ELSE mem_map
       /\ mem_free' = IF Usable(m) /\ m.base + m.size > LOMEM THEN Append(mem_free, Clipped(m)) ELSE mem_free
  /\ e' = e + 1
  \* the continuation value may be 0 with the last entry
  /\ \/ pc' = "detect"
     \/ e = Len(e820) /\ pc' = "cr3"
  /\ UNCHANGED <<e820, lo, tab, root, cr3, i, j, img, s, n, lvl, at, data, given>>

\* The carry flag or a bad signature ends the list.
DetectStop ==
  /\ pc = "detect" /\ e \notin DOMAIN e820
  /\ pc' = "cr3"
  /\ UNCHANGED <<memvars, mem_free, lo, tab, root, cr3, i, j, img, s, n, lvl, at, data, given>>
----------------------------------------------------------------------------
(* the page tables in force *)
Index(v, l) == (v \div Span(l)) % F

\* the page that virtual page v is in, or NONE
Translate(v) ==
  IF cr3 = NONE THEN (IF v < GIG THEN v ELSE NONE)
  ELSE LET a == tab[cr3][Index(v, 0)]
           b == IF a = NONE THEN NONE ELSE tab[a][Index(v, 1)]
           c == IF b = NONE THEN NONE ELSE tab[b][Index(v, 2)]
       IN CASE c = NONE -> NONE
            \* the entries of the identity map are pages of F * PAGE
            [] v < Span(0) -> c + Index(v, 3)
            [] OTHER -> tab[c][Index(v, 3)]

Reachable(p) == Translate(p) = p
----------------------------------------------------------------------------
(* alloc_page_hi *)
\* mutant: only the first region is looked at
FirstOnly(r) == r = 1 /\ mem_free # <<>> /\ mem_free[1].size # 0

\* the region a page is taken from
First(r) ==
  /\ r \in DOMAIN mem_free /\ r <= SCAN /\ mem_free[r].size # 0
  /\ \A q \in 1..(r - 1) : mem_free[q].size = 0

\* a region may hold less than a page: its size wraps
Take(r) == [mem_free EXCEPT ![r] = [base |-> @.base + PAGE, size |-> (@.size - PAGE) % WRAP]]

\* page p comes from alloc_page_hi, and zero_page reaches it
alloc_page_hi(p) ==
  \E r \in DOMAIN mem_free :
    /\ First(r)
    /\ p = mem_free[r].base \div PAGE /\ Reachable(p)
    /\ mem_free' = Take(r)
    /\ given' = given \cup {p}

\* there is no page, and 0 is used for one, or it is not mapped
HiFails == \A r \in DOMAIN mem_free : First(r) => ~Reachable(mem_free[r].base \div PAGE)

Crash ==
  /\ HiFails /\ pc' = "wild"
  /\ UNCHANGED <<memvars, mem_free, lo, tab, root, cr3, i, j, img, s, n, lvl, at, data, given>>

\* the table p is all NONE, entry x of table t points to it
Linked(t, x, p) ==
  [q \in DOMAIN tab \cup {p} |->
     IF q = p THEN EmptyTable ELSE IF q = t THEN [tab[t] EXCEPT ![x] = p] ELSE tab[q]]
----------------------------------------------------------------------------
(* memory_identity_map: its tables lie in lomem, mapped since before bmain *)
NewCr3 ==
  /\ pc = "cr3"
  /\ \/ \E p \in 0..(WRAP \div PAGE) :
          /\ alloc_page_hi(p)
          /\ root' = p /\ tab' = [q \in {p} |-> EmptyTable]
          /\ pc' = "identity" /\ i' = 0 /\ j' = 0
          /\ data' = [q \in DOMAIN data \cup {p} |-> {}]
          /\ UNCHANGED <<memvars, lo, cr3, img, s, n, lvl, at>>
     \/ Crash

\* mutant: the page directory is not told apart by its gigabyte
BigPageFirst == j * F

\* the page the entry (i, j) maps
BigPage == (i * F + j) * F

\* map_identity_2mib: the two levels of tables come from alloc_page_lo
MapIdentity ==
  /\ pc = "identity" /\ i < IDENT /\ j < F
  /\ LET needPdp == tab[root][0] = NONE
         pdp     == IF needPdp THEN lo ELSE tab[root][0]
         needPd  == needPdp \/ tab[pdp][i] = NONE
         pd      == IF needPd THEN (IF needPdp THEN lo + 1 ELSE lo) ELSE tab[pdp][i]
         fresh   == (IF needPdp THEN {pdp} ELSE {}) \cup (IF needPd THEN {pd} ELSE {})
         old(q)  == IF q \in fresh THEN EmptyTable ELSE tab[q]
     IN /\ lo' = lo + Cardinality(fresh)
        /\ tab' = [q \in DOMAIN tab \cup fresh |->
             CASE q = root -> [old(q) EXCEPT ![0] = pdp]
               [] q = pdp  -> [old(q) EXCEPT ![i] = pd]
               [] q = pd   -> [old(q) EXCEPT ![j] = BigPage]
               [] OTHER    -> old(q)]
  /\ j' = j + 1
  /\ UNCHANGED <<pc, memvars, mem_free, root, cr3, i, img, s, n, lvl, at, data, given>>

\* "We need to apply the paging as we go"
ApplyPaging ==
  /\ pc = "identity" /\ i < IDENT /\ j = F
  /\ cr3' = root /\ i' = i + 1 /\ j' = 0
  /\ UNCHANGED <<pc, memvars, mem_free, lo, tab, root, img, s, n, lvl, at, data, given>>

\* mfs_init and initram_init: the first segment is the initram
IdentityDone ==
  /\ pc = "identity" /\ i = IDENT
  /\ pc' = "valloc" /\ s' = 1 /\ n' = 0 /\ lvl' = 0 /\ at' = root
  /\ UNCHANGED <<memvars, mem_free, lo, tab, root, cr3, i, j, img, data, given>>
----------------------------------------------------------------------------
(* valloc and map_single *)
FirstPage == img[s].vaddr \div PAGE

\* mutant: the offset in the first page is not counted
NPagesShort == (img[s].memsz + PAGE - 1) \div PAGE

NPages    == (img[s].memsz + (img[s].vaddr % PAGE) + PAGE - 1) \div PAGE
VPage     == FirstPage + n

\* the three upper levels: the table is there, or a page is taken for it
WalkDown ==
  /\ pc = "valloc" /\ n < NPages /\ lvl < 3 /\ tab[at][Index(VPage, lvl)] # NONE
  /\ at' = tab[at][Index(VPage, lvl)] /\ lvl' = lvl + 1
  /\ UNCHANGED <<pc, memvars, mem_free, lo, tab, root, cr3, i, j, img, s, n, data, given>>

NewTable ==
  /\ pc = "valloc" /\ n < NPages /\ lvl < 3 /\ tab[at][Index(VPage, lvl)] = NONE
  /\ \/ \E p \in 0..(WRAP \div PAGE) :
          /\ alloc_page_hi(p)
          /\ tab' = Linked(at, Index(VPage, lvl), p)
          /\ at' = p /\ lvl' = lvl + 1
          /\ data' = [q \in DOMAIN data \cup {p} |-> IF q = p THEN {} ELSE data[q]]
          /\ UNCHANGED <<pc, memvars, lo, root, cr3, i, j, img, s, n>>
     \/ Crash

\* the last level: a page whether or not one was mapped
MapPage ==
  /\ pc = "valloc" /\ n < NPages /\ lvl = 3
  /\ \/ \E p \in 0..(WRAP \div PAGE) :
          /\ alloc_page_hi(p)
          /\ tab' = [tab EXCEPT ![at][Index(VPage, 3)] = p]
          /\ n' = n + 1 /\ lvl' = 0 /\ at' = root
          /\ data' = [q \in DOMAIN data \cup {p} |-> IF q = p THEN {} ELSE data[q]]
          /\ UNCHANGED <<pc, memvars, lo, root, cr3, i, j, img, s>>
     \/ Crash

\* the virtual pages the copy (mfs_read, memcpy) writes
FilePages(sg) == {v \in 0..(SPACE - 1) : sg.filesz > 0 /\
                     sg.vaddr < (v + 1) * PAGE /\ v * PAGE < sg.vaddr + sg.filesz}

\* The last page is mapped and CR3 reloaded: the bytes are copied.
CopySegment ==
  /\ pc = "valloc" /\ n = NPages
  /\ pc' = "loaded"
  /\ data' = [q \in DOMAIN data |->
                data[q] \cup {<<s, v>> : v \in {w \in FilePages(img[s]) : Translate(w) = q}}]
  /\ UNCHANGED <<memvars, mem_free, lo, tab, root, cr3, i, j, img, s, n, lvl, at, given>>

\* elf_load's loop over the program headers
NextSegment ==
  /\ pc = "loaded" /\ s < Len(img)
  /\ pc' = "valloc" /\ s' = s + 1 /\ n' = 0 /\ lvl' = 0 /\ at' = root
  /\ UNCHANGED <<memvars, mem_free, lo, tab, root, cr3, i, j, img, data, given>>

\* entry(&gBootParams)
EnterKernel ==
  /\ pc = "loaded" /\ s = Len(img)
  /\ pc' = "kernel"
  /\ UNCHANGED <<memvars, mem_free, lo, tab, root, cr3, i, j, img, s, n, lvl, at, data, given>>

Stopped == pc \in {"wild", "kernel"} /\ UNCHANGED vars
----------------------------------------------------------------------------
Init ==
  /\ pc = "detect" /\ e820 \in E820 /\ e = 1 /\ mem_map = <<>> /\ mem_free = <<>>
  /\ lo = LOPAGE /\ tab = [q \in {} |-> EmptyTable] /\ root = NONE /\ cr3 = NONE
  /\ i = 0 /\ j = 0 /\ img \in Images /\ s = 0 /\ n = 0 /\ lvl = 0 /\ at = NONE
  /\ data = [q \in {} |-> {}] /\ given = {}

Next ==
  \/ DetectEntry \/ DetectStop
  \/ NewCr3 \/ MapIdentity \/ ApplyPaging \/ IdentityDone
  \/ WalkDown \/ NewTable \/ MapPage \/ CopySegment \/ NextSegment \/ EnterKernel
  \/ Stopped

Spec == Init /\ [][Next]_vars
----------------------------------------------------------------------------
Bytes(reg) == reg.base..(reg.base + reg.size - 1)
BytesIn(regs) == UNION {Bytes(regs[r]) : r \in DOMAIN regs}
GivenBytes == UNION {(p * PAGE)..(p * PAGE + PAGE - 1) : p \in given}

\* every region above lomem is whole pages
WholePages ==
  \A x \in DOMAIN e820 : Usable(e820[x]) /\ e820[x].base + e820[x].size > LOMEM =>
     e820[x].base % PAGE = 0 /\ e820[x].size % PAGE = 0

\* no page of the image belongs to two segments
SegmentsApart ==
  \A x, y \in DOMAIN img : x # y => Pages(<<img[x]>>) \cap Pages(<<img[y]>>) = {}

\* "Permanent space. Need to keep track of it": above lomem every byte the
\* BIOS reported usable is either in mem_free or in a page handed out, never
\* both, so the kernel's allocator is not given a page table, the initram or
\* its own image as free memory (alloc.c:18-33, memory.c:28-46).
Tracked ==
  WholePages =>
    /\ BytesIn(mem_free) \cup GivenBytes = {x \in BytesIn(mem_map) : x >= LOMEM}
    /\ BytesIn(mem_free) \cap GivenBytes = {}

\* Once it is built the identity map sends each page to itself, and it never
\* stops doing so while the image is loaded (memory.c:53-90).
IdentityMap ==
  pc \in {"valloc", "loaded", "kernel"} => \A p \in 0..(IDENT * GIG - 1) : Translate(p) = p

\* When the kernel is entered every page of the initram and of each segment
\* is mapped, to a page of its own above lomem that holds its bytes still
\* (alloc.c:43-86, elf.c:17-22).
LoadedIntact ==
  pc = "kernel" /\ SegmentsApart /\ WholePages =>
    /\ \A v \in Pages(img) : Translate(v) \in given /\ Translate(v) * PAGE >= LOMEM
    /\ \A v, w \in Pages(img) : v # w => Translate(v) # Translate(w)
    /\ \A x \in DOMAIN img : \A v \in FilePages(img[x]) : <<x, v>> \in data[Translate(v)]
    \* and no table was overwritten by them
    /\ \A v \in Pages(img) : Translate(v) \notin DOMAIN tab

\* the page tables below the root that the image needs
TablesNeeded == UNION {{<<l, v \div Span(l - 1)>> : v \in Pages(img)} : l \in 1..3}
\* the end of the identity map
Reach == (IDENT * GIG) * PAGE
\* Of the regions above lomem that are looked at, all lie below the end of the
\* identity map, the first starts in the first gigabyte, and together they have
\* a page for each page of the image, for each of its tables and for CR3.
Enough ==
  LET above == {x \in DOMAIN mem_map : mem_map[x].base + mem_map[x].size > LOMEM}
      high  == {x \in above : Cardinality({y \in above : y <= x}) <= SCAN}
      bytes == {a \in UNION {Bytes(mem_map[x]) : x \in high} : a >= LOMEM}
  IN /\ WholePages /\ high # {}
     /\ \A x \in high : mem_map[x].base + mem_map[x].size <= Reach
     /\ LET f == CHOOSE x \in high : \A y \in high : x <= y IN mem_map[f].base < GIG * PAGE
     /\ Cardinality(bytes) >= PAGE * (1 + Cardinality(TablesNeeded) + Cardinality(Pages(img)))

\* The loader reaches the kernel whenever the memory it can reach is enough
\* (memory.c:78, alloc.c:22-32).
BootSuffices == pc = "wild" => ~(SegmentsApart /\ Enough)
=============================================================================
