------------------------------ MODULE Process -------------------------------
(***************************************************************************)
(* The creation of a process from an ELF image (kernel/proc.c), on the     *)
(* page tables of Paging: which root is loaded when pages are mapped and   *)
(* filled, and what the frames then hold.                                  *)
(*                                                                         *)
(* A program is a sequence of headers in bytes, at any alignment: load_elf *)
(* maps, clears and copies them one after the other, and nothing keeps two *)
(* of them off the same page, or the last bytes of one on a mapped page.   *)
(***************************************************************************)
EXTENDS Paging

CONSTANTS
  PAGE,       \* bytes of a page
  Programs,   \* images: each a sequence of headers [addr, memsz, file]
  Stack       \* [addr, memsz] of the stack

VARIABLES
  prog,       \* the program that initram_lookup finds
  cr3,        \* the root in the register
  load,       \* the item of the program load_elf is at, 0 when it is not running
  filled,     \* that item is mapped: memset and memcpy come next
  data,       \* the bytes of the frames of the pool
  loaded      \* roots of the processes load_elf is done with

pvars == <<prog, cr3, load, filled, data, loaded>>
vars  == <<tvars, pvars>>

Zero == <<0, 0>>            \* a byte of zero, and one of anything
Junk == <<0, 1>>
Offsets == 0..(PAGE - 1)

\* A header as proc_alloc passes it on; page_iter_create finds the first page
\* and the number of pages, each on its own (mmap.c:15-16).
Item(s, file, prot) ==
  [addr |-> s.addr, memsz |-> s.memsz, file |-> file, prot |-> prot,
   v |-> s.addr \div PAGE, n |-> Ceil(s.memsz, PAGE)]

(* What load_elf asks for: the segments, then the stack *)
ItemsOf(p) == Append([k \in DOMAIN p |-> Item(p[k], p[k].file, {"W", "X", "U"})],
                     Item(Stack, 0, {"W", "U"}))
Items == ItemsOf(prog)

BytesOf(c) == c.addr..(c.addr + c.memsz - 1)

\* A program lies in the lower half, with the pages it is given.
ASSUME ProgramAssumption ==
  /\ PAGE \in Nat \ {0}
  /\ Stack \in [addr : Nat, memsz : Nat]
  /\ \A p \in Programs :
       /\ p \in Seq([addr : Nat, memsz : Nat, file : Nat])
       /\ \A k \in DOMAIN ItemsOf(p) :
            /\ \A v \in PagesOf(ItemsOf(p)[k]) : v \div Span(3) < F \div 2
            /\ \A b \in BytesOf(ItemsOf(p)[k]) : (b \div PAGE) \div Span(3) < F \div 2

Newest == CHOOSE p \in procs : p \notin loaded      \* the process being created

\* proc_create
proc_create ==
  /\ load = 0 /\ create_cr3(cr3)
  /\ load' = IF free = {} THEN 0 ELSE 1
  /\ UNCHANGED <<prog, cr3, filled, data, loaded>>

\* proc_alloc: the process's root is loaded, then kmapanon maps in gKernel.cr3
proc_alloc ==
  /\ Ready /\ load \in DOMAIN Items /\ ~filled
  /\ cr3' = Newest
  /\ kmapanon(Items[load], Items[load].prot)
  /\ filled' = TRUE
  /\ UNCHANGED <<todo, calls, prog, load, data, loaded>>

\* mutant: the file's bytes come first
FilledZeroLast(m, k) == Zero

(* memset of the item, then memcpy of what the file has of it: byte m of it *)
Filled(m, k) == IF m < Items[k].file THEN <<k, m>> ELSE Zero

\* Every address is looked up through the root that is loaded.
There(b) == At(cr3, b \div PAGE).present

\* the bytes of item k that are byte o of frame f
Stored(k, f, o) ==
  {b \in BytesOf(Items[k]) : At(cr3, b \div PAGE).frame = f /\ b % PAGE = o}

Fill ==
  /\ Ready /\ load \in DOMAIN Items /\ filled
  /\ \A b \in BytesOf(Items[load]) : There(b)
  /\ data' = [f \in Pool |-> [o \in Offsets |->
                IF Stored(load, f, o) # {}
                THEN Filled((CHOOSE b \in Stored(load, f, o) : TRUE) - Items[load].addr, load)
                ELSE data[f][o]]]
  /\ filled' = FALSE
  /\ IF load = Len(Items) THEN load' = 0 /\ loaded' = loaded \cup {Newest}
     ELSE load' = load + 1 /\ UNCHANGED loaded
  /\ UNCHANGED <<tvars, prog, cr3>>

\* A byte that is not mapped faults, and no gate takes the fault: the kernel
\* goes no further.
Fault ==
  /\ Ready /\ load \in DOMAIN Items /\ filled
  /\ \E b \in BytesOf(Items[load]) : ~There(b)
  /\ UNCHANGED vars

\* The last line of every call on the tables loads the kernel's root again.
Returns == Return /\ cr3' = Root /\ UNCHANGED <<prog, load, filled, data, loaded>>

\* alloc_zero_page clears the frame of a page
MapsZero ==
  /\ MapAnon
  /\ data' = [data EXCEPT ![Lowest(free)] = [o \in Offsets |-> Zero]]
  /\ UNCHANGED <<prog, cr3, load, filled, loaded>>

Walks == (Walk /\ UNCHANGED pvars) \/ Returns \/ MapsZero

Init ==
  /\ TablesInit /\ prog \in Programs
  /\ cr3 = Root /\ load = 0 /\ filled = FALSE /\ loaded = {}
  /\ data = [f \in Pool |-> [o \in Offsets |-> Junk]]

Next ==
  \/ Walks
  \/ InitMem /\ UNCHANGED pvars
  \/ KernelCall /\ load = 0 /\ UNCHANGED pvars
  \/ proc_create \/ proc_alloc \/ Fill \/ Fault
  \/ Halt /\ UNCHANGED pvars

Spec == Init /\ [][Next]_vars
FairSpec == Spec /\ WF_vars(Walks)
----------------------------------------------------------------------------
\* No item after k has byte b, or is given the page of it.
Lasting(b, k) ==
  \A j \in DOMAIN Items : j > k =>
    b \notin BytesOf(Items[j]) /\ b \div PAGE \notin PagesOf(Items[j])

\* A process that was loaded stays loaded: whatever the kernel maps and
\* unmaps later, at each byte of its segments and stack there is the file's
\* byte, or zero after them, in a page user mode may touch; but for the bytes
\* that a later item writes over, or loses by being given their page anew
\* (proc.c:46-57, mmap.c:182-184).
ImageLoaded ==
  (loaded # {} /\ pc = "idle" /\ load = 0) =>
    \A k \in DOMAIN Items : \A b \in BytesOf(Items[k]) : Lasting(b, k) =>
      LET e == At(cr3, b \div PAGE)
          m == b - Items[k].addr
      IN /\ e.present /\ {"U", "W"} \subseteq e.flags
         /\ data[e.frame][b % PAGE] = IF m < Items[k].file THEN <<k, m>> ELSE Zero

\* No two items are given the same page.
Apart == \A k, j \in DOMAIN Items : k # j => PagesOf(Items[k]) \cap PagesOf(Items[j]) = {}

\* the entries of tables that point to frames of the pool
Pointers ==
  {p \in (DOMAIN tab \ procs) \X Index :
     tab[p[1]][p[2]].present /\ tab[p[1]][p[2]].frame \in Pool}

\* A frame of the pool is never in use twice: it is free, or a table with one
\* parent, or the page of one address. None is lost either, unless a page was
\* given to two items of a program (mmap.c:172-186,253).
FrameUse ==
  LET S == Pointers
      to(p) == tab[p[1]][p[2]].frame
      used == {to(p) : p \in S}
  IN pc # "wild" =>
       /\ \A p, q \in S : to(p) = to(q) => p = q
       /\ used \cap free = {}
       /\ Apart => Pool \subseteq used \cup free \cup procs

\* A process finds its program in its own address space: the root that
\* sched_exec loads translates its segments and its stack (proc.c:28-33,155).
OwnAddressSpace ==
  \A p \in loaded : \A k \in DOMAIN Items : \A b \in BytesOf(Items[k]) :
    At(p, b \div PAGE).present
=============================================================================
