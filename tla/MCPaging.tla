------------------------------ MODULE MCPaging ------------------------------
(***************************************************************************)
(* Tables of six entries, 1296 pages: the lower half has three entries of  *)
(* the root, the kernel half the physical map, the heap with the device    *)
(* addresses, and the last entry with the initram and the image as the     *)
(* boot loader leaves them. Pages have two bytes.                          *)
(***************************************************************************)
EXTENDS Process

One(x, e) == [ZeroTable EXCEPT ![x] = e]
Up(f)     == Entry(f, {"W"})      \* map_single: upper entries |3, pages |1

MCRoot == 100
MCTables == [f \in 100..109 |->
               CASE f = 100 -> [x \in Index |-> CASE x = 0 -> Up(107) [] x = PHYSICAL -> Up(106)
                                                  [] x = F - 1 -> Up(101) [] OTHER -> Absent]
                 [] f = 101 -> [One(F - 1, Up(102)) EXCEPT ![F - 3] = Up(104)]
                 [] f = 102 -> One(F - 1, Up(103))
                 [] f = 103 -> [x \in Index |-> Entry(120 + x, {})]
                 [] f = 104 -> One(0, Up(105))
                 [] f = 105 -> One(0, Entry(130, {}))
                 [] f = 106 -> ZeroTable
                 [] f = 107 -> One(0, Up(108))
                 [] f = 108 -> One(0, Up(109))
                 [] f = 109 -> One(0, Up(131))]
MCLevels == [f \in 100..109 |-> CASE f = 100 -> 3 [] f \in {101, 106, 107} -> 2
                                    [] f \in {102, 104, 108} -> 1 [] OTHER -> 0]

Top == F^4 - F
MCSections == << [v |-> Top, n |-> 1, prot |-> {"X"}],
                 [v |-> Top + 1, n |-> 1, prot |-> {}],
                 [v |-> Top + 2, n |-> F - 2, prot |-> {"W"}] >>

Heap0 == (PHYSICAL + 1) * F^3     \* kernel heap: its first page

R(v, n) == [v |-> v, n |-> n]

\* blocks growing from the heap's base, the tail of one of them, and a block
\* under the next page directory
GoodRanges == {g \in {R(Heap0, F + 2), R(Heap0 + F, 2), R(Heap0 + F + 2, 1),
                      R(Heap0 + F * F, 2)} : Fits(g)}
MCInitram  == R(Heap0 + F * F + F, 1)
IoAddress  == Heap0 + 2 * F * F

\* two pages across the end of a page table
StraddleRanges == {R(Heap0 + F - 1, 2)}
NoRanges == {}

\* and starts and lengths at, before and after the ends of tables and of the
\* first page directory
EdgeRanges == {g \in {R(Heap0 + v, n) : v \in {1, F - 1, F * (F - 1), F * F - 1},
                                        n \in {1, F, F + 2}} : Fits(g)}
SomeRanges == GoodRanges \cup EdgeRanges

Header(addr, memsz, file) == [addr |-> addr, memsz |-> memsz, file |-> file]
MCStack == [addr |-> 2, memsz |-> 2]

\* headers apart, the first of no bytes; two that share a page, the second with
\* its last byte on the next page of the first; one with it on no page
Neat      == << Header(12, 0, 0), Header(12, 3, 2) >>
Sharing   == << Header(12, 4, 4), Header(13, 2, 1) >>
Uncovered == << Header(13, 2, 2) >>
MCPrograms == {Neat, Sharing, Uncovered}
NeatOnly   == {Neat}
=============================================================================
