------------------------------ MODULE RunQueue ------------------------------
(***************************************************************************)
(* What the scheduler promises: round robin.  Runnable processes wait in   *)
(* one first-in first-out queue; a preempted process goes to its end and   *)
(* its head runs.                                                          *)
(***************************************************************************)
EXTENDS Sequences

CONSTANTS Procs, NoProc

VARIABLES queue, running

Waiting == {queue[n] : n \in DOMAIN queue}

Enqueue(p) ==
  /\ p # running /\ p \notin Waiting
  /\ queue' = Append(queue, p)
  /\ UNCHANGED running

Dispatch ==
  /\ running = NoProc /\ queue # <<>>
  /\ running' = Head(queue) /\ queue' = Tail(queue)

Preempt ==
  /\ running # NoProc
  /\ LET q == Append(queue, running) IN running' = Head(q) /\ queue' = Tail(q)

Init == queue = <<>> /\ running = NoProc
Next == (\E p \in Procs : Enqueue(p)) \/ Dispatch \/ Preempt
Spec == Init /\ [][Next]_<<queue, running>>
=============================================================================
