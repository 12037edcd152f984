------------------------------- MODULE Arena -------------------------------
(***************************************************************************)
(* What kmalloc and kfree promise their callers: a block handed out is     *)
(* disjoint from every other block handed out and not yet freed.           *)
(***************************************************************************)
EXTENDS Integers

CONSTANTS
  Sizes,   \* the sizes callers ask for
  Addrs    \* the addresses a block may have

VARIABLE live  \* address of each block handed out |-> size asked for

\* [a, a + n) meets no live block, and a is not the address of one
Separate(a, n) ==
  \A b \in DOMAIN live : a # b /\ (a + n <= b \/ b + live[b] <= a)

Alloc(a, n) ==
  /\ Separate(a, n)
  /\ live' = [b \in DOMAIN live \cup {a} |-> IF b = a THEN n ELSE live[b]]

Release(a) == live' = [b \in DOMAIN live \ {a} |-> live[b]]

Init == live = [b \in {} |-> 0]

Next ==
  \/ \E a \in Addrs, n \in Sizes : Alloc(a, n)
  \/ \E a \in DOMAIN live : Release(a)

Spec == Init /\ [][Next]_live
=============================================================================
