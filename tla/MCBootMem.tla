----------------------------- MODULE MCBootMem -----------------------------
(***************************************************************************)
(* Pages of 2 units and tables of 4 entries: a gigabyte is 16 pages, the   *)
(* identity map covers pages 0 to 31, lomem ends at page 4.                *)
(***************************************************************************)
EXTENDS BootMem

Entry(b, len, t) == [base |-> b, size |-> len, type |-> t]
Segment(v, mem, file) == [vaddr |-> v, memsz |-> mem, filesz |-> file]

\* low memory that ends inside a page, a hole, memory across the end of lomem
Low == <<Entry(0, 5, 1), Entry(5, 1, 2)>>
Maps == {
  Low \o <<Entry(6, 32, 1)>>,
  Low \o <<Entry(6, 32, 1), Entry(38, 0, 1)>>,
  Low \o <<Entry(6, 10, 1), Entry(16, 4, 2), Entry(20, 16, 1)>>,  \* several regions
  \* more regions than are looked at, without and with enough in the first ones
  Low \o <<Entry(6, 4, 1), Entry(12, 4, 1), Entry(20, 4, 1), Entry(26, 30, 1)>>,
  Low \o <<Entry(6, 4, 1), Entry(12, 4, 1), Entry(20, 20, 1), Entry(42, 4, 1)>>,
  Low \o <<Entry(6, 12, 1), Entry(70, 12, 1)>>,  \* the second past the identity map
  Low \o <<Entry(6, 9, 1), Entry(20, 24, 1)>>,   \* a region that ends inside a page
  Low \o <<Entry(40, 20, 1)>>,                   \* none in the first gigabyte
  Low \o <<Entry(6, 2, 1)>>,                     \* none above lomem
  Low \o <<Entry(6, 6, 1)>>,
  Low \o <<Entry(6, 12, 1)>>, Low \o <<Entry(6, 14, 1)>>,
  Low \o <<Entry(6, 20, 1)>>, Low \o <<Entry(6, 22, 1)>>}

\* initram, text and data; unaligned starts, an empty file part, two tables;
\* two segments on one page
Loads == {
  <<Segment(448, 3, 3), Segment(480, 4, 4), Segment(484, 4, 1)>>,
  <<Segment(452, 5, 5), Segment(487, 4, 2)>>,
  <<Segment(448, 2, 2), Segment(480, 3, 3), Segment(483, 3, 0)>>}
=============================================================================
