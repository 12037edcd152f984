------------------------------- MODULE Paging -------------------------------
(***************************************************************************)
(* The kernel's page tables (kernel/mem/mmap.c, alloc_io.c, create_cr3 of  *)
(* proc.c): the four-level walk of PageIterator, the operations built on   *)
(* it, and what init_mem (mem.c) does with them.                           *)
(*                                                                         *)
(* A page table is a frame; its content is a function from index to entry. *)
(* An entry is absent, or holds a frame and the flags W, U and NX.  The    *)
(* fan-out of a table (512) is a constant, the four levels are the code's. *)
(* Frames come from alloc_phys_pages, which gives the lowest free one.     *)
(* Addresses and sizes of a call are in pages: page_iter_create shifts the *)
(* address down and rounds the size up, each on its own.                   *)
(***************************************************************************)
EXTENDS Integers, FiniteSets, Sequences

CONSTANTS
  F,            \* entries of a table (512)
  Pool,         \* frames the physical allocator manages
  Root,         \* gKernel.cr3
  BootTables,   \* the tables the boot loader built: frame |-> entries
  BootLevels,   \* the level of each: 3 for the root, 0 for a page table
  BootFree,     \* frames free when init_mem runs
  HasNx,        \* what cpuid says of the NX bit
  Sections,     \* sections of the kernel image: sequence of [v, n, prot]
  Initram,      \* the range of the heap the initram is copied to
  VideoPages,   \* pages of the frame buffer
  AnonRanges,   \* ranges [v, n] kmapanon is asked for, at the kernel's choice
  IoSizes,      \* pages kmap is asked for, without an address
  IO_BASE,      \* first page of the kernel's device addresses
  IoFrame,      \* first device frame, outside Pool
  MaxProcs,     \* bound: processes created
  MaxCalls      \* bound: calls made once memory is initialised

Levels == 0..3
Index  == 0..(F - 1)
Kernel == (F \div 2)..(F - 1)   \* the kernel half of the root
PHYSICAL == F \div 2            \* PML4_PHYSICAL, its first entry: the physical map

\* Pages under one entry of a table of level l, and in the address space.
Span(l) == CASE l = 0 -> 1 [] l = 1 -> F [] l = 2 -> F * F [] OTHER -> F * F * F
Pages   == 0..(F * Span(3) - 1)
PagesOf(c) == c.v..(c.v + c.n - 1)

ASSUME TableAssumption == F \in Nat /\ F >= 2 /\ F % 2 = 0

\* The heap is in the kernel half, above the physical map and below the device
\* addresses (kmalloc.c:3, alloc_io.c:4).
ASSUME RangeAssumption ==
  /\ AnonRanges \cup {Initram} \subseteq [v : Nat, n : Nat]
  /\ \A g \in AnonRanges \cup {Initram} :
       g.v \div Span(3) > PHYSICAL /\ g.v + g.n <= IO_BASE
  /\ IoSizes \cup {VideoPages} \subseteq Nat /\ IO_BASE \in Pages

Flags     == {"W", "U", "NX"}
EntryType == [present : BOOLEAN, frame : Nat, flags : SUBSET Flags]
TableType == [Index -> EntryType]

\* L gives each table of T its level: the roots are at level 3, an entry of a
\* higher level points one level down.
Leveled(T, L, roots) ==
  /\ T \in [DOMAIN T -> TableType] /\ L \in [DOMAIN T -> Levels]
  /\ roots \subseteq DOMAIN T /\ \A t \in DOMAIN T : L[t] = 3 <=> t \in roots
  /\ \A t \in DOMAIN T, x \in Index : (L[t] > 0 /\ T[t][x].present) =>
       T[t][x].frame \in DOMAIN T /\ L[T[t][x].frame] = L[t] - 1

\* No table, and no frame of S, has two entries of tables of D that point to it.
PointedOnce(T, L, D, S) ==
  \A t, u \in D : \A x, y \in Index :
    (/\ T[t][x].present /\ T[u][y].present /\ T[t][x].frame = T[u][y].frame
     /\ (L[t] > 0 /\ L[u] > 0) \/ T[t][x].frame \in S) => t = u /\ x = y

\* The boot loader's tables are a tree, and map frames outside the pool.
ASSUME BootTreeAssumption ==
  /\ Leveled(BootTables, BootLevels, {Root})
  /\ PointedOnce(BootTables, BootLevels, DOMAIN BootTables, {})
  /\ \A t \in DOMAIN BootTables, x \in Index :
       BootTables[t][x].present => BootTables[t][x].frame \notin Pool

\* Device frames are outside the pool, as the boot loader's tables are.
ASSUME PoolAssumption ==
  /\ Pool \subseteq Nat /\ IoFrame \in Nat /\ \A f \in Pool : f < IoFrame
  /\ BootFree \subseteq Pool /\ Root \in Nat \ Pool
  /\ Root \in DOMAIN BootTables /\ DOMAIN BootTables \cap Pool = {}

VARIABLES
  pc,       \* "nx", "half": before init_kernel_mem_prot's calls; "idle";
            \* "iter": inside page_iter_next; "chunk": in the caller's loop; "wild"
  todo,     \* the call of init_mem that comes next
  nx,       \* gKernel.nx_mask is set
  io_size,  \* gKernel.io_size, in pages
  call,     \* the operation in progress: [op, v, n, prot, phys]
  dir, offset, len, len_current, index,   \* the PageIterator
  lvl,      \* the loop of page_iter_next that continues
  chunk,    \* what page_iter_next returned: depth, table, first entry, length
  i,        \* the caller's loop counter
  tab,      \* contents of the frames used as tables
  free,     \* frames free in the physical allocator
  procs,    \* root tables made by create_cr3
  calls,    \* calls made, up to MaxCalls
  want      \* ghost: vpn |-> the entry the calls so far should have produced

itervars == <<dir, offset, len, len_current, index, lvl>>
kvars == <<nx, io_size, procs, calls>>
tvars == <<pc, todo, kvars, call, itervars, chunk, i, tab, free, want>>

Absent == [present |-> FALSE, frame |-> 0, flags |-> {}]
Entry(f, fl) == [present |-> TRUE, frame |-> f, flags |-> fl]
ZeroTable == [x \in Index |-> Absent]
NoCallYet == [op |-> "none", v |-> 0, n |-> 0, prot |-> {}, phys |-> 0]
NoChunk   == [depth |-> 0, table |-> Root, first |-> 0, length |-> 0]

\* mutant: NX is set when execution is asked for
page_prot_flags_inverted(prot) ==
  (prot \cap {"W", "U"}) \cup (IF nx /\ "X" \in prot THEN {"NX"} ELSE {})

\* page_prot_flags; prot is a set of "W", "X", "U" (every range is readable)
page_prot_flags(prot) ==
  (prot \cap {"W", "U"}) \cup (IF nx /\ "X" \notin prot THEN {"NX"} ELSE {})

Ceil(a, b) == (a + b - 1) \div b
Lowest(S)  == CHOOSE x \in S : \A y \in S : x <= y

\* The translation of page v by the tables under root: its leaf entry.
At(root, v) ==
  LET e3 == tab[root][(v \div Span(3)) % F]
      e2 == tab[e3.frame][(v \div Span(2)) % F]
      e1 == tab[e2.frame][(v \div Span(1)) % F]
  IN IF e3.present /\ e2.present /\ e1.present THEN tab[e1.frame][v % F] ELSE Absent

MappedAt(root) == {v \in Pages : At(root, v).present}

\* The translation the processor makes: under PHYSICAL the entries are large
\* pages, writable and not NX, that no call of the kernel walks.
Translate(root, v) ==
  IF v \div Span(3) = PHYSICAL /\ tab[root][PHYSICAL].present
  THEN Entry(v % Span(3), tab[root][PHYSICAL].flags) ELSE At(root, v)
----------------------------------------------------------------------------
(* page_iter_create and page_iter_next *)
Offset0(v, l) == (v \div Span(l)) % F
\* mutant: one more than the whole tables
Len0Over(n, l) == (n \div Span(l)) + 1

Len0(n, l)    == Ceil(n, Span(l))

Start(c) ==
  /\ call' = c
  /\ offset' = [l \in Levels |-> Offset0(c.v, l)]
  /\ len' = [l \in Levels |-> Len0(c.n, l)]
  /\ dir' = [dir EXCEPT ![3] = Root]
  /\ chunk' = [depth |-> 3, table |-> Root, first |-> Offset0(c.v, 3), length |-> Len0(c.n, 3)]
  /\ i' = 0 /\ pc' = "chunk"
  /\ UNCHANGED <<len_current, index, lvl>>

\* iter_compute_len
iter_compute_len(n, off) == (IF n + off > F THEN F ELSE n + off) - off

\* A loop of level d has another turn: follow entry offset + index of its
\* table (iter_compute_dir) and return the chunk one level down.
Descend(d) ==
  /\ pc = "iter" /\ lvl = d /\ index[d] < len[d]
  /\ LET x == offset[d] + index[d]
         c == iter_compute_len(len[d - 1], offset[d - 1])
     IN \* An index past the table, or an absent entry, is read all the same;
        \* the walk goes on in a frame that is no table of this hierarchy.
        IF x \notin Index \/ ~tab[dir[d]][x].present
        THEN pc' = "wild" /\ UNCHANGED <<dir, len_current, chunk, i>>
        ELSE /\ dir' = [dir EXCEPT ![d - 1] = tab[dir[d]][x].frame]
             /\ len_current' = [len_current EXCEPT ![d - 1] = c]
             /\ chunk' = [depth |-> d - 1, table |-> tab[dir[d]][x].frame,
                          first |-> offset[d - 1], length |-> c]
             /\ pc' = "chunk" /\ i' = 0
  /\ UNCHANGED <<todo, call, offset, len, index, lvl, tab, free, kvars, want>>

\* mutant: the offset of the first chunk is kept for the next ones
ConsumeKeepOffset(d) ==
  /\ len' = [len EXCEPT ![d] = @ - len_current[d]]
  /\ index' = [index EXCEPT ![d + 1] = @ + 1]
  /\ lvl' = d + 1
  /\ UNCHANGED offset

\* mutant: the outer loop does not advance
ConsumeStuck(d) ==
  /\ len' = [len EXCEPT ![d] = @ - len_current[d]]
  /\ offset' = [offset EXCEPT ![d] = 0]
  /\ lvl' = d + 1
  /\ UNCHANGED index

\* The lines after the inner loop of level d: 85-86, 88-89, 91-92.
Consume(d) ==
  /\ len' = [len EXCEPT ![d] = @ - len_current[d]]
  /\ offset' = [offset EXCEPT ![d] = 0]
  /\ index' = [index EXCEPT ![d + 1] = @ + 1]
  /\ lvl' = d + 1

Ascend(d) ==
  /\ pc = "iter" /\ lvl = d /\ index[d] >= len[d]
  /\ Consume(d)
  /\ UNCHANGED <<pc, todo, call, dir, len_current, chunk, i, tab, free, kvars, want>>

\* page_iter_next returns 1, the caller flushes the TLB and returns; the
\* iterator was a local of its.
Fresh == [l \in Levels |-> 0]

Return ==
  /\ pc = "iter" /\ lvl = 3 /\ index[3] >= len[3]
  /\ pc' = "idle"
  /\ call' = NoCallYet /\ chunk' = NoChunk /\ i' = 0 /\ lvl' = 3
  /\ dir' = [l \in Levels |-> Root]
  /\ offset' = Fresh /\ len' = Fresh /\ len_current' = Fresh /\ index' = Fresh
  /\ UNCHANGED <<todo, tab, free, kvars, want>>

\* The caller's loop over the chunk has ended: page_iter_next is called again.
ChunkDone ==
  /\ pc = "chunk" /\ i >= chunk.length
  /\ pc' = "iter"
  /\ IF chunk.depth = 0
     THEN Consume(0)
     ELSE /\ lvl' = chunk.depth
          /\ index' = [index EXCEPT ![chunk.depth] = 0]
          /\ UNCHANGED <<len, offset>>
  /\ UNCHANGED <<todo, call, dir, len_current, chunk, i, tab, free, kvars, want>>
----------------------------------------------------------------------------
(* The callers' loops, one entry per step *)
Here == chunk.first + i

InChunk == pc = "chunk" /\ i < chunk.length

SetEntry(e) == tab' = [tab EXCEPT ![chunk.table][Here] = e]

Advance ==
  /\ i' = i + 1
  /\ UNCHANGED <<pc, todo, itervars, chunk, kvars, want>>

\* kmapanon and kmap, depth 1 to 3: make the missing table.  Without a free
\* frame alloc_zero_page clears the page at BADPAGE.
MakeTable ==
  /\ InChunk /\ call.op \in {"anon", "io"} /\ chunk.depth > 0
  /\ IF tab[chunk.table][Here].present
     THEN Advance /\ UNCHANGED <<tab, free, call>>
     ELSE /\ free # {}
          /\ LET f == Lowest(free) IN
             /\ tab' = [x \in DOMAIN tab \cup {f} |->
                          IF x = f THEN ZeroTable
                          ELSE IF x = chunk.table
                          THEN [tab[x] EXCEPT ![Here] = Entry(f, {"W", "U"})]
                          ELSE tab[x]]
             /\ free' = free \ {f}
          /\ Advance /\ UNCHANGED call

\* kmapanon, depth 0
MapAnon ==
  /\ InChunk /\ call.op = "anon" /\ chunk.depth = 0 /\ free # {}
  /\ SetEntry(Entry(Lowest(free), page_prot_flags(call.prot)))
  /\ free' = free \ {Lowest(free)}
  /\ Advance /\ UNCHANGED call

OutOfFrames ==
  /\ InChunk /\ free = {}
  /\ \/ call.op = "anon" /\ chunk.depth = 0
     \/ call.op \in {"anon", "io"} /\ chunk.depth > 0 /\ ~tab[chunk.table][Here].present
  /\ pc' = "wild"
  /\ UNCHANGED <<todo, call, itervars, chunk, i, tab, free, kvars, want>>

NextPhys == [call EXCEPT !.phys = @ + 1]

\* kmap, depth 0
MapIo ==
  /\ InChunk /\ call.op = "io" /\ chunk.depth = 0
  /\ SetEntry(Entry(call.phys, page_prot_flags(call.prot)))
  /\ call' = NextPhys
  /\ Advance /\ UNCHANGED free

\* mutant: the frame is not given back
UnmapLeak ==
  /\ InChunk /\ call.op = "unmap"
  /\ IF chunk.depth = 0 THEN SetEntry(Absent) ELSE UNCHANGED tab
  /\ Advance /\ UNCHANGED <<call, free>>

\* kunmapanon: the frame of the entry is freed whether it is present or not
Unmap ==
  /\ InChunk /\ call.op = "unmap"
  /\ IF chunk.depth = 0
     THEN /\ free' = free \cup ({tab[chunk.table][Here].frame} \cap Pool)
          /\ SetEntry(Absent)
     ELSE UNCHANGED <<free, tab>>
  /\ Advance /\ UNCHANGED call

\* kmprotect
Protect ==
  /\ InChunk /\ call.op = "protect"
  /\ IF chunk.depth = 0
     THEN SetEntry([tab[chunk.table][Here] EXCEPT !.flags = page_prot_flags(call.prot)])
     ELSE UNCHANGED tab
  /\ Advance /\ UNCHANGED <<call, free>>
----------------------------------------------------------------------------
(* init_mem: init_nx, then init_kernel_mem_prot *)
init_nx ==
  /\ pc = "nx" /\ pc' = "half" /\ nx' = HasNx
  /\ UNCHANGED <<todo, io_size, procs, calls, call, itervars, chunk, i, tab, free, want>>

Missing == {x \in Kernel : ~tab[Root][x].present}

set_kernel_half ==
  /\ pc = "half" /\ Missing # {}
  /\ IF free = {} THEN pc' = "wild" /\ UNCHANGED <<tab, free>>
     ELSE LET f == Lowest(free) IN
          /\ tab' = [x \in DOMAIN tab \cup {f} |->
                       IF x = f THEN ZeroTable
                       ELSE IF x = Root THEN [tab[x] EXCEPT ![Lowest(Missing)] = Entry(f, {"U"})]
                       ELSE tab[x]]
          /\ free' = free \ {f} /\ UNCHANGED pc
  /\ UNCHANGED <<todo, call, itervars, chunk, i, kvars, want>>

\* The tables under the last entry of the root, and every present entry of
\* them made writable (set_kernel_hierarchy_mem_prot, depth 2 to 0).
Below(S) == {tab[t][x].frame : t \in S, x \in Index} \cap DOMAIN tab
ImageTables ==
  LET t2 == {tab[Root][F - 1].frame}
      t1 == {f \in Below(t2) : \E t \in t2, x \in Index : tab[t][x] = Entry(f, tab[t][x].flags)}
      t0 == {f \in Below(t1) : \E t \in t1, x \in Index : tab[t][x] = Entry(f, tab[t][x].flags)}
  IN t2 \cup t1 \cup t0

set_kernel_hierarchy_mem_prot ==
  /\ pc = "half" /\ Missing = {}
  /\ tab' = [t \in DOMAIN tab |->
               IF t \notin ImageTables THEN tab[t]
               ELSE [x \in Index |-> IF tab[t][x].present
                                     THEN [tab[t][x] EXCEPT !.flags = @ \cup {"W"}]
                                     ELSE tab[t][x]]]
  /\ want' = [v \in DOMAIN want |-> IF v \div Span(3) = F - 1
                                    THEN [want[v] EXCEPT !.flags = @ \cup {"W"}] ELSE want[v]]
  /\ pc' = "idle"
  /\ UNCHANGED <<todo, call, itervars, chunk, i, free, kvars>>

Wanted(g, kind, frame, prot) ==
  want' = [v \in DOMAIN want \cup PagesOf(g) |->
             IF v \in PagesOf(g)
             THEN [kind |-> kind, frame |-> IF kind = "io" THEN frame + v - g.v ELSE 0,
                   flags |-> page_prot_flags(prot)]
             ELSE want[v]]

(* kmapanon, kmap without an address (io_alloc), kmprotect and kunmapanon *)
kmapanon(g, prot) ==
  /\ Start([op |-> "anon", v |-> g.v, n |-> g.n, prot |-> prot, phys |-> 0])
  /\ Wanted(g, "anon", 0, prot)
  /\ UNCHANGED <<tab, free, nx, io_size, procs>>

\* the bump pointer after io_alloc
io_alloc(n) == io_size + n

kmap(n, phys) ==
  LET g == [v |-> IO_BASE + io_size, n |-> n] IN
  /\ Start([op |-> "io", v |-> g.v, n |-> n, prot |-> {"W"}, phys |-> phys])
  /\ Wanted(g, "io", phys, {"W"})
  /\ io_size' = io_alloc(n)
  /\ UNCHANGED <<tab, free, nx, procs>>

kmprotect(s) ==
  /\ Start([op |-> "protect", v |-> s.v, n |-> s.n, prot |-> s.prot, phys |-> 0])
  /\ want' = [v \in DOMAIN want |->
                IF v \in PagesOf(s) THEN [want[v] EXCEPT !.flags = page_prot_flags(s.prot)]
                ELSE want[v]]
  /\ UNCHANGED <<tab, free, nx, io_size, procs>>

kunmapanon(g) ==
  /\ Start([op |-> "unmap", v |-> g.v, n |-> g.n, prot |-> {}, phys |-> 0])
  /\ want' = [v \in DOMAIN want \ PagesOf(g) |-> want[v]]
  /\ UNCHANGED <<tab, free, nx, io_size, procs>>

(* The rest of init_mem, a call at a time: the sections, the copy of the   *)
(* initram, the frame buffer                                               *)
InitStep(k) == pc = "idle" /\ todo = k /\ todo' = k + 1 /\ UNCHANGED calls

InitCall ==
  \/ \E k \in DOMAIN Sections : InitStep(k) /\ kmprotect(Sections[k])
  \/ InitStep(Len(Sections) + 1) /\ kmapanon(Initram, {"W"})
  \/ InitStep(Len(Sections) + 2) /\ kmap(VideoPages, IoFrame)

\* the entries unmap_lomem clears: 128 of the 256 of the lower half
Lomem == 0..(F \div 4 - 1)

unmap_lomem ==
  /\ InitStep(Len(Sections) + 3)
  /\ tab' = [tab EXCEPT ![Root] = [x \in Index |-> IF x \in Lomem THEN Absent ELSE @[x]]]
  /\ want' = [v \in {u \in DOMAIN want : u \div Span(3) \notin Lomem} |-> want[v]]
  /\ UNCHANGED <<pc, nx, io_size, procs, call, itervars, chunk, i, free>>
----------------------------------------------------------------------------
(* The calls the rest of the kernel makes, once memory is initialised *)
Ready == pc = "idle" /\ todo > Len(Sections) + 3
Callable == Ready /\ calls < MaxCalls

\* kmalloc's mapping of pages that are not mapped, its unmapping of what one
\* kmapanon mapped or of the tail of it (shrink), and a device's pages
KernelCall ==
  /\ Callable /\ calls' = calls + 1 /\ UNCHANGED todo
  /\ \/ \E g \in AnonRanges : PagesOf(g) \cap DOMAIN want = {} /\ kmapanon(g, {"W"})
     \/ \E g \in AnonRanges : /\ \A v \in PagesOf(g) : v \in DOMAIN want /\ want[v].kind = "anon"
                              /\ kunmapanon(g)
     \/ \E n \in IoSizes : kmap(n, IoFrame + io_size)

\* mutant: the last entry is not copied
CopiedShort == Kernel \ {F - 1}

\* the entries create_cr3 copies
Copied == Kernel

\* create_cr3, run with the root r loaded; without a free frame it copies to
\* BADPAGE.
create_cr3(r) ==
  /\ Ready /\ Cardinality(procs) < MaxProcs
  /\ IF free = {} THEN pc' = "wild" /\ UNCHANGED <<tab, free, procs>>
     ELSE LET f == Lowest(free) IN
          /\ tab' = [x \in DOMAIN tab \cup {f} |->
                       IF x = f THEN [y \in Index |-> IF y \in Copied THEN tab[r][y] ELSE Absent]
                       ELSE tab[x]]
          /\ free' = free \ {f} /\ procs' = procs \cup {f} /\ UNCHANGED pc
  /\ UNCHANGED <<todo, nx, io_size, calls, call, itervars, chunk, i, want>>

\* Nothing is claimed after a walk has left the tables, and nothing is asked
\* once the bound on calls is met.
Halt == (pc = "wild" \/ (Ready /\ ~Callable)) /\ UNCHANGED tvars
----------------------------------------------------------------------------
\* The pages the boot loader mapped: low memory, the kernel image, the initram.
BootWant ==
  LET leaf(v) ==
        LET e3 == BootTables[Root][(v \div Span(3)) % F]
            e2 == BootTables[e3.frame][(v \div Span(2)) % F]
            e1 == BootTables[e2.frame][(v \div Span(1)) % F]
        IN IF e3.present /\ e2.present /\ e1.present THEN BootTables[e1.frame][v % F] ELSE Absent
  IN [v \in {u \in Pages : leaf(u).present} |->
        [kind |-> "image", frame |-> leaf(v).frame, flags |-> leaf(v).flags]]

\* The sections are pages of the image, none both writable and executable
\* (kernel.ld, mmap.c:289-292).
ASSUME SectionAssumption ==
  /\ Sections \in Seq([v : Nat, n : Nat, prot : SUBSET {"W", "X"}])
  /\ \A k \in DOMAIN Sections :
       PagesOf(Sections[k]) \subseteq DOMAIN BootWant /\ Sections[k].prot # {"W", "X"}

\* What the boot loader mapped in the kernel half and no section covers, the
\* initram first of all (boot's initram.c:13-15).
BootRam == {v \in DOMAIN BootWant : v \div Span(3) \in Kernel /\
              \A k \in DOMAIN Sections : v \notin PagesOf(Sections[k])}

\* arch_init_physical_mapping has run; the boot loader maps nothing in the part
\* of the lower half that unmap_lomem keeps.
ASSUME RootAssumption ==
  /\ BootTables[Root][PHYSICAL].present /\ "W" \in BootTables[Root][PHYSICAL].flags
  /\ BootTables[BootTables[Root][PHYSICAL].frame] = ZeroTable
  /\ \A x \in Index : BootTables[Root][x].present => x \in Lomem \cup Kernel

TablesInit ==
  /\ pc = "nx" /\ todo = 1 /\ nx = FALSE /\ io_size = 0 /\ call = NoCallYet
  /\ dir = [l \in Levels |-> Root]
  /\ offset = Fresh /\ len = Fresh /\ len_current = Fresh /\ index = Fresh
  /\ lvl = 3 /\ chunk = NoChunk /\ i = 0
  /\ tab = BootTables /\ free = BootFree /\ procs = {} /\ calls = 0
  /\ want = BootWant

\* The steps of a call but two that the processes take part in: MapAnon, Return
Walk ==
  \/ \E d \in 1..3 : Descend(d)
  \/ \E d \in 1..2 : Ascend(d)
  \/ ChunkDone
  \/ MakeTable \/ OutOfFrames \/ MapIo \/ Unmap \/ Protect

InitMem ==
  \/ init_nx \/ set_kernel_half \/ set_kernel_hierarchy_mem_prot
  \/ InitCall \/ unmap_lomem
----------------------------------------------------------------------------
\* A range the iterator walks in full: all of it under one page directory, and
\* in as many page tables as its length alone would need.
Fits(g) ==
  /\ g.n > 0 /\ g.v + g.n <= F * Span(3)
  /\ g.v \div Span(2) = (g.v + g.n - 1) \div Span(2)
  /\ ((g.v % F) + g.n - 1) \div F + 1 = Ceil(g.n, F)

\* Between calls the tables translate exactly the pages that were asked for,
\* each with the flags of the last call about it, device pages to the device
\* frames in order (mmap.c:126-261).
MapExact ==
  pc = "idle" =>
    /\ MappedAt(Root) = DOMAIN want
    /\ \A v \in DOMAIN want :
         /\ At(Root, v).flags = want[v].flags
         /\ want[v].kind # "anon" => At(Root, v).frame = want[v].frame

\* Every process's root keeps the kernel half of the kernel's root: what the
\* kernel maps after create_cr3 is mapped in every process (proc.c:79-80).
KernelHalfShared ==
  \A f \in procs : \A x \in Kernel : tab[f][x] = tab[Root][x]

\* Once init_mem is done, and if the processor has the NX bit, a page of the
\* kernel half that is writable and executable is in the physical map or is one
\* the boot loader left there and no section covers: the sections, the heap and
\* the device pages are not both (mem.c:5-56, mmap.c:285-293, arch/x86/mem.c:62).
WriteXorExecute ==
  (Ready /\ HasNx) => \A v \in Pages :
    LET e == Translate(Root, v) IN
    (v \div Span(3) \in Kernel /\ e.present /\ "W" \in e.flags /\ "NX" \notin e.flags) =>
      v \div Span(3) = PHYSICAL \/ v \in BootRam

\* No walk leaves the tables while frames last.
StaysInTables == pc = "wild" => free = {}

\* Every call returns, unless a walk has left the tables.
CallsReturn == (pc \in {"iter", "chunk"}) ~> (pc \in {"idle", "wild"})
=============================================================================
