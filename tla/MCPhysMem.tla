----------------------------- MODULE MCPhysMem -----------------------------
(***************************************************************************)
(* Small physical memories for PhysMem.  Bytes of 4 bits, ints of 8 and    *)
(* words of 4 put every boundary of the code inside a zone of 24 frames,   *)
(* and with 5 pages for 4 GiB one free region is longer than that.         *)
(***************************************************************************)
EXTENDS PhysMem

Region(b, len) == [base |-> b, n |-> len]

\* low memory, a zone of one frame, a zone whose first frames hold bitmaps
\* and tables, a zone the scan reaches when that one is full, one of less
\* than a page, and one past it that the scan never reaches
MapMain  == <<Region(0, 2), Region(3, 1), Region(4, 24), Region(28, 3), Region(32, 0), Region(33, 3)>>
FreeMain == <<Region(3, 1), Region(6, 22), Region(28, 3), Region(33, 3)>>

\* pages the mapping of physical memory takes: so many that none is left for
\* the bitmaps, and more than there are
Mapping == {1, 2, 24, 30}
=============================================================================
