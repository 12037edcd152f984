------------------------------- MODULE MCHeap -------------------------------
(***************************************************************************)
(* A heap of pages of 4 bytes with headers of 1: sizes 0, 3, 4 and 8 give  *)
(* blocks of one to three pages, an exact fit and one byte too many.  A    *)
(* page table has 3 entries, so that blocks of two and of three pages      *)
(* cross the end of one, and lose a page or not.                           *)
(***************************************************************************)
EXTENDS Heap
=============================================================================
