----------------------------- MODULE MCBootCpu ------------------------------
(***************************************************************************)
(* Two vectors and two register contents: enough to tell a stale vector    *)
(* and registers taken from each other's place.                            *)
(***************************************************************************)
EXTENDS BootCpu
=============================================================================
