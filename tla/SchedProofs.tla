---------------------------- MODULE SchedProofs -----------------------------
(***************************************************************************)
(* Proofs about the scheduler, for every number of processes and every     *)
(* first capacity of its arrays.                                           *)
(***************************************************************************)
EXTENDS Sched, TLAPS

Tag == (Procs \cup {NoProc}) \X (0..2) \X (Reg \cup {"stack"})
Registers == [Reg -> Tag]
Array == [items : Seq(Procs), cap : Nat]
Buffers == [0..1 -> Array]

\* an array has room for what it holds, and at least two places
Room(a) == a.cap >= 2 /\ Len(a.items) <= a.cap

Distinct(s) == \A m, n \in DOMAIN s : m # n => s[m] # s[n]

\* Types of the scheduler's state.
TypeInv ==
  /\ size \in 0..MaxProcs
  /\ buf \in Buffers
  /\ front \in 0..1 /\ index \in 0..Len(buf[front].items)
  /\ cur \in Procs \cup {NoProc}
  /\ mode \in {"boot", "user", "sys", "idle"}
  /\ gs \in {"none", "kernel", "user"}
  /\ run \in [Procs -> {"proc_run", "proc_run_sysret"}]
  /\ saved \in [Procs -> Registers] /\ cpu \in Registers
  /\ gen \in [Procs -> 0..1] /\ expect \in [Procs -> Registers]

\* What stage of boot goes with which mode: a process runs exactly in user
\* mode and in a system call, and nothing waits in sched_wait's loop.
Modes ==
  /\ stage \in {"gdt_init", "idt_init", "pic_init", "gate", "sys_init", "thread_init",
                "schedule", "done"}
  /\ (stage = "done") = (mode # "boot")
  /\ (cur = NoProc) = (mode \in {"boot", "idle"})
  /\ mode = "boot" => index = 0
  /\ mode = "idle" => Queue = <<>>
  /\ stage = "schedule" => gs = "kernel"

\* The queue holds processes that were created, each once.
QueueOnce ==
  /\ Distinct(Queue)
  /\ \A n \in DOMAIN Queue : Queue[n] # cur /\ Queue[n] < size
  /\ cur # NoProc => cur < size

ArraysRoom == \A b \in 0..1 : Room(buf[b])

\* What proc_run restores of a process that does not run is what it must find;
\* in a system call that holds of all registers the call preserves, and the
\* process's address space stays loaded.
Kept ==
  /\ \A p \in Procs : p # cur => run[p] = "proc_run" /\ saved[p] = expect[p]
  /\ mode = "sys" => /\ cr3 = cur
                     /\ \A x \in Reg \ {"AX", "CX", "R11"} : saved[cur][x] = expect[cur][x]

SchedInv == TypeInv /\ Modes /\ QueueOnce /\ ArraysRoom /\ Kept /\ ContextIntact
----------------------------------------------------------------------------
\* what is left of the buffers b with front f from index x on
QueueOf(b, f, x) == SubSeq(b[f].items, x + 1, Len(b[f].items)) \o b[1 - f].items

\* What is left of a sequence after one of its places starts at the next one:
\* the index of next_proc (proc.c:138-141).
LEMMA RestAt ==
  ASSUME NEW S, NEW s \in Seq(S), NEW x \in 0..(Len(s) - 1)
  PROVE  /\ s[x + 1] \in S
         /\ SubSeq(s, x + 2, Len(s)) \in Seq(S)
         /\ SubSeq(s, x + 1, Len(s)) = <<s[x + 1]>> \o SubSeq(s, x + 2, Len(s))
OBVIOUS

\* The head and the tail of a queue in two parts.
LEMMA TwoParts ==
  ASSUME NEW S, NEW e \in S, NEW s \in Seq(S), NEW t \in Seq(S)
  PROVE  /\ (<<e>> \o s) \o t # <<>>
         /\ Head((<<e>> \o s) \o t) = e
         /\ Tail((<<e>> \o s) \o t) = s \o t
OBVIOUS

\* Appending to the second part appends to the queue.
LEMMA AppendPart ==
  ASSUME NEW S, NEW e \in S, NEW s \in Seq(S), NEW t \in Seq(S)
  PROVE  s \o Append(t, e) = Append(s \o t, e)
OBVIOUS

\* The ends of a sequence, and the empty ones.
LEMMA Ends ==
  ASSUME NEW S, NEW s \in Seq(S)
  PROVE  /\ s \o <<>> = s /\ <<>> \o s = s
         /\ SubSeq(s, Len(s) + 1, Len(s)) = <<>>
         /\ s # <<>> => /\ SubSeq(s, 2, Len(s)) = Tail(s) /\ Head(s) = s[1]
                        /\ s[1] \in S /\ Len(s) >= 1
OBVIOUS

\* The empty sequence has a type.
LEMMA EmptyTyped == ASSUME NEW S PROVE <<>> \in Seq(S) /\ Len(<<>>) = 0
OBVIOUS

\* array_emplace adds at the end and keeps room: a full array of two or more
\* places grows by at least one (array.c:11-27).
LEMMA EmplaceKeeps ==
  ASSUME NEW a \in Array, NEW p \in Procs
  PROVE  /\ array_emplace(a, p) \in Array
         /\ array_emplace(a, p).items = Append(a.items, p)
         /\ Room(a) => Room(array_emplace(a, p))
<1>1. a.items \in Seq(Procs) /\ a.cap \in Nat
  BY DEF Array
<1>2. Append(a.items, p) \in Seq(Procs) /\ Len(Append(a.items, p)) = Len(a.items) + 1
  BY <1>1
<1>3. a.cap + a.cap \div 2 \in Nat /\ (a.cap >= 2 => a.cap \div 2 >= 1)
  BY <1>1
<1>4. Len(a.items) \in Nat
  BY <1>1
<1>5. array_emplace(a, p).items = Append(a.items, p)
  BY DEF array_emplace
<1>6. array_emplace(a, p).cap = IF Len(a.items) < a.cap THEN a.cap ELSE a.cap + a.cap \div 2
  BY DEF array_emplace
<1>7. array_emplace(a, p) \in Array
  BY <1>1, <1>2, <1>3 DEF array_emplace, Array
<1>8. Room(a) => Room(array_emplace(a, p))
  BY <1>1, <1>2, <1>3, <1>4, <1>5, <1>6 DEF Room
<1> QED
  BY <1>5, <1>7, <1>8

\* proc_schedule appends to the queue (proc.c:126-134).
LEMMA ScheduledKeeps ==
  ASSUME NEW b \in Buffers, NEW f \in 0..1, NEW p \in Procs, NEW x \in 0..Len(b[f].items)
  PROVE  /\ Scheduled(b, f, p) \in Buffers
         /\ Scheduled(b, f, p)[f] = b[f]
         /\ QueueOf(Scheduled(b, f, p), f, x) = Append(QueueOf(b, f, x), p)
         /\ (\A i \in 0..1 : Room(b[i])) => \A i \in 0..1 : Room(Scheduled(b, f, p)[i])
<1>1. 1 - f \in 0..1 /\ 1 - f # f
  OBVIOUS
<1>2. b[1 - f] \in Array /\ b[f] \in Array
  BY <1>1 DEF Buffers
<1>3. Scheduled(b, f, p) = [i \in 0..1 |-> IF i = 1 - f THEN array_emplace(b[1 - f], p) ELSE b[i]]
  BY <1>1 DEF Scheduled, Buffers
<1>4. Scheduled(b, f, p)[f] = b[f] /\ Scheduled(b, f, p)[1 - f] = array_emplace(b[1 - f], p)
  BY <1>1, <1>3
<1>5. Scheduled(b, f, p) \in Buffers
  BY <1>2, <1>3, EmplaceKeeps DEF Buffers
<1>6. SubSeq(b[f].items, x + 1, Len(b[f].items)) \in Seq(Procs) /\ b[1 - f].items \in Seq(Procs)
  BY <1>2 DEF Array
<1>7. QueueOf(Scheduled(b, f, p), f, x) = Append(QueueOf(b, f, x), p)
  <2>1. /\ QueueOf(Scheduled(b, f, p), f, x)
             = SubSeq(b[f].items, x + 1, Len(b[f].items)) \o array_emplace(b[1 - f], p).items
        /\ QueueOf(b, f, x) = SubSeq(b[f].items, x + 1, Len(b[f].items)) \o b[1 - f].items
    BY <1>4 DEF QueueOf
  <2>2. array_emplace(b[1 - f], p).items = Append(b[1 - f].items, p)
    BY <1>2, EmplaceKeeps
  <2>3. SubSeq(b[f].items, x + 1, Len(b[f].items)) \o Append(b[1 - f].items, p)
          = Append(SubSeq(b[f].items, x + 1, Len(b[f].items)) \o b[1 - f].items, p)
    BY <1>6, AppendPart, Zenon
  <2> QED
    BY <2>1, <2>2, <2>3
<1>8. ASSUME \A i \in 0..1 : Room(b[i])
      PROVE  \A i \in 0..1 : Room(Scheduled(b, f, p)[i])
  BY <1>1, <1>2, <1>3, <1>8, EmplaceKeeps
<1> QED
  BY <1>4, <1>5, <1>7, <1>8

\* next_proc takes the head of the queue, across the swap of the buffers, and
\* finds none only when there is none (proc.c:136-153).
LEMMA NextProcHead ==
  ASSUME NEW b \in Buffers, NEW f \in 0..1, NEW x \in 0..Len(b[f].items),
         NEW pick, pick = next_proc(b, f, x)
  PROVE  /\ pick.buf \in Buffers /\ pick.front \in 0..1
         /\ pick.index \in 0..Len(pick.buf[pick.front].items)
         /\ QueueOf(b, f, x) # <<>> =>
              /\ pick.proc \in Procs /\ pick.proc = Head(QueueOf(b, f, x))
              /\ QueueOf(pick.buf, pick.front, pick.index) = Tail(QueueOf(b, f, x))
         /\ QueueOf(b, f, x) = <<>> =>
              /\ pick.proc = NoProc
              /\ QueueOf(pick.buf, pick.front, pick.index) = <<>>
         /\ (\A i \in 0..1 : Room(b[i])) => \A i \in 0..1 : Room(pick.buf[i])
<1>1. 1 - f \in 0..1 /\ 1 - f # f /\ 1 - (1 - f) = f
  OBVIOUS
<1>2. /\ b[1 - f] \in Array /\ b[f] \in Array
      /\ b[1 - f].items \in Seq(Procs) /\ b[f].items \in Seq(Procs)
      /\ Len(b[f].items) \in Nat /\ b[f].cap \in Nat
  BY <1>1 DEF Buffers, Array
<1>3. Emptied(b, f) = [i \in 0..1 |-> IF i = f THEN [b[f] EXCEPT !.items = <<>>] ELSE b[i]]
  BY <1>2 DEF Emptied, Buffers
<1>4. [b[f] EXCEPT !.items = <<>>] = [items |-> <<>>, cap |-> b[f].cap]
  BY <1>2 DEF Array
<1>5. /\ Emptied(b, f)[1 - f] = b[1 - f]
      /\ Emptied(b, f)[f] = [items |-> <<>>, cap |-> b[f].cap]
  BY <1>1, <1>3, <1>4
<1>12. /\ Emptied(b, f)[f].items = <<>> /\ Emptied(b, f)[1 - f].items = b[1 - f].items
       /\ Emptied(b, f)[1 - (1 - f)].items = <<>>
  <2>1. Emptied(b, f)[f].items = <<>> /\ Emptied(b, f)[1 - f].items = b[1 - f].items
    BY <1>5
  <2> QED
    BY <1>1, <2>1
<1>6. [items |-> <<>>, cap |-> b[f].cap] \in Array
  BY <1>2, EmptyTyped DEF Array
<1>7. Emptied(b, f) \in Buffers
  BY <1>2, <1>3, <1>4, <1>6 DEF Buffers
<1>8. ASSUME \A i \in 0..1 : Room(b[i])
      PROVE  \A i \in 0..1 : Room(Emptied(b, f)[i])
  <2>1. Room([items |-> <<>>, cap |-> b[f].cap])
    BY <1>2, <1>8, EmptyTyped DEF Room
  <2> QED
    BY <1>1, <1>3, <1>4, <1>8, <2>1
<1>9. CASE x < Len(b[f].items)
  <2>1. pick = [proc |-> b[f].items[x + 1], buf |-> b, front |-> f, index |-> x + 1]
    BY <1>9 DEF next_proc
  <2>2. x \in 0..(Len(b[f].items) - 1) /\ x + 1 \in 0..Len(b[f].items) /\ x + 1 + 1 = x + 2
    BY <1>2, <1>9
  <2>3. /\ b[f].items[x + 1] \in Procs
        /\ QueueOf(b, f, x) # <<>> /\ Head(QueueOf(b, f, x)) = b[f].items[x + 1]
        /\ Tail(QueueOf(b, f, x)) = QueueOf(b, f, x + 1)
    <3>1. PICK r \in Seq(Procs) : r = SubSeq(b[f].items, x + 2, Len(b[f].items))
      BY <1>2, <2>2, RestAt
    <3>2. PICK e \in Procs : e = b[f].items[x + 1]
      BY <1>2, <2>2, RestAt
    <3>3. SubSeq(b[f].items, x + 1, Len(b[f].items)) = <<e>> \o r
      BY <1>2, <2>2, <3>1, <3>2, RestAt
    <3>4. PICK t \in Seq(Procs) : t = b[1 - f].items
      BY <1>2
    <3>5. QueueOf(b, f, x) = (<<e>> \o r) \o t
      BY <3>3, <3>4 DEF QueueOf
    <3>6. QueueOf(b, f, x + 1) = r \o t
      BY <2>2, <3>1, <3>4 DEF QueueOf
    <3>7. /\ (<<e>> \o r) \o t # <<>> /\ Head((<<e>> \o r) \o t) = e
          /\ Tail((<<e>> \o r) \o t) = r \o t
      BY TwoParts
    <3> QED
      BY <3>2, <3>5, <3>6, <3>7, Zenon
  <2> QED
    BY <1>2, <2>1, <2>2, <2>3
<1>10. CASE ~(x < Len(b[f].items)) /\ b[1 - f].items # <<>>
  <2>1. pick = [proc |-> b[1 - f].items[1], buf |-> Emptied(b, f), front |-> 1 - f, index |-> 1]
    BY <1>10 DEF next_proc, SwapIndex
  <2>2. x = Len(b[f].items)
    BY <1>2, <1>10
  <2>3. QueueOf(b, f, x) = b[1 - f].items
    BY <1>2, <2>2, Ends DEF QueueOf
  <2>4. QueueOf(Emptied(b, f), 1 - f, 1) = SubSeq(b[1 - f].items, 2, Len(b[1 - f].items)) \o <<>>
    <3>1. QueueOf(Emptied(b, f), 1 - f, 1)
            = SubSeq(Emptied(b, f)[1 - f].items, 1 + 1, Len(Emptied(b, f)[1 - f].items))
                \o Emptied(b, f)[1 - (1 - f)].items
      BY DEF QueueOf
    <3>2. 1 + 1 = 2
      OBVIOUS
    <3> QED
      BY <1>12, <3>1, <3>2
  <2>5. SubSeq(b[1 - f].items, 2, Len(b[1 - f].items)) \in Seq(Procs)
    BY <1>2
  <2>6. QueueOf(Emptied(b, f), 1 - f, 1) = Tail(b[1 - f].items)
    BY <1>2, <1>10, <2>4, <2>5, Ends
  <2>7. 1 \in 0..Len(b[1 - f].items) /\ b[1 - f].items[1] \in Procs
        /\ b[1 - f].items[1] = Head(b[1 - f].items)
    BY <1>2, <1>10, Ends
  <2> QED
    BY <1>1, <1>5, <1>7, <1>8, <1>10, <2>1, <2>3, <2>6, <2>7
<1>11. CASE ~(x < Len(b[f].items)) /\ b[1 - f].items = <<>>
  <2>1. pick = [proc |-> NoProc, buf |-> Emptied(b, f), front |-> 1 - f, index |-> 0]
    BY <1>11 DEF next_proc
  <2>2. x = Len(b[f].items)
    BY <1>2, <1>11
  <2>3. QueueOf(b, f, x) = <<>>
    BY <1>2, <1>11, <2>2, Ends DEF QueueOf
  <2>4. QueueOf(Emptied(b, f), 1 - f, 0) = SubSeq(<<>>, 1, 0) \o <<>>
    <3>1. QueueOf(Emptied(b, f), 1 - f, 0)
            = SubSeq(Emptied(b, f)[1 - f].items, 0 + 1, Len(Emptied(b, f)[1 - f].items))
                \o Emptied(b, f)[1 - (1 - f)].items
      BY DEF QueueOf
    <3>2. 0 + 1 = 1
      OBVIOUS
    <3> QED
      BY <1>11, <1>12, EmptyTyped, <3>1, <3>2
  <2>5. SubSeq(<<>>, 1, 0) \o <<>> = <<>>
    BY EmptyTyped, Ends
  <2>6. 0 \in 0..Len(b[1 - f].items)
    BY <1>11, EmptyTyped
  <2> QED
    BY <1>1, <1>5, <1>7, <1>8, <1>11, <2>1, <2>3, <2>4, <2>5, <2>6
<1> QED
  BY <1>9, <1>10, <1>11
----------------------------------------------------------------------------
\* No process is the absence of one.
LEMMA NoProcApart == NoProc \notin Procs
BY SchedAssumption DEF Procs

\* kern_schedule runs the head of the queue in its address space, or idles
\* when there is none (proc.c:136-173).
LEMMA KernSchedule ==
  ASSUME NEW b \in Buffers, front \in 0..1, index \in 0..Len(b[front].items),
         NEW sv, NEW rn, NEW g, NEW h, kern_schedule(b, sv, rn, g, h)
  PROVE  /\ buf' \in Buffers /\ front' \in 0..1 /\ index' \in 0..Len(buf'[front'].items)
         /\ QueueOf(b, front, index) # <<>> =>
              /\ cur' \in Procs /\ cur' = Head(QueueOf(b, front, index))
              /\ Queue' = Tail(QueueOf(b, front, index))
              /\ mode' = "user" /\ cr3' = cur' /\ gs' = Swap(g)
              /\ cpu' = Resume(rn[cur'], sv[cur'])
              /\ hw' = Return(rn[cur'], timer_ns(h, 100000))
         /\ QueueOf(b, front, index) = <<>> =>
              /\ cur' = NoProc /\ Queue' = <<>> /\ mode' = "idle" /\ gs' = g
              /\ hw' = h /\ UNCHANGED cpu
         /\ (\A i \in 0..1 : Room(b[i])) => \A i \in 0..1 : Room(buf'[i])
<1>1. PICK pick : pick = next_proc(b, front, index)
  OBVIOUS
<1>2. buf' = pick.buf /\ front' = pick.front /\ index' = pick.index /\ cur' = pick.proc
  BY <1>1 DEF kern_schedule
<1>3. Queue' = QueueOf(pick.buf, pick.front, pick.index)
  BY <1>2 DEF Queue, Rest, QueueOf
<1>4. /\ pick.buf \in Buffers /\ pick.front \in 0..1
      /\ pick.index \in 0..Len(pick.buf[pick.front].items)
      /\ QueueOf(b, front, index) # <<>> =>
           /\ pick.proc \in Procs /\ pick.proc = Head(QueueOf(b, front, index))
           /\ QueueOf(pick.buf, pick.front, pick.index) = Tail(QueueOf(b, front, index))
      /\ QueueOf(b, front, index) = <<>> =>
           /\ pick.proc = NoProc
           /\ QueueOf(pick.buf, pick.front, pick.index) = <<>>
      /\ (\A i \in 0..1 : Room(b[i])) => \A i \in 0..1 : Room(pick.buf[i])
  BY <1>1, NextProcHead
<1>5. CASE QueueOf(b, front, index) # <<>>
  <2>1. pick.proc # NoProc
    BY <1>4, <1>5, NoProcApart
  <2>2. /\ mode' = "user" /\ cr3' = pick.proc /\ gs' = Swap(g)
        /\ cpu' = Resume(rn[pick.proc], sv[pick.proc])
        /\ hw' = Return(rn[pick.proc], timer_ns(h, 100000))
    BY <1>1, <2>1 DEF kern_schedule
  <2> QED
    BY <1>2, <1>3, <1>4, <1>5, <2>2
<1>6. CASE QueueOf(b, front, index) = <<>>
  <2>1. mode' = "idle" /\ gs' = g /\ hw' = h /\ UNCHANGED cpu
    BY <1>1, <1>4, <1>6 DEF kern_schedule
  <2> QED
    BY <1>2, <1>3, <1>4, <1>6, <2>1
<1> QED
  BY <1>5, <1>6

\* A queue everything in which is once keeps that when another is appended.
LEMMA DistinctAppend ==
  ASSUME NEW S, NEW s \in Seq(S), NEW e \in S, Distinct(s), \A n \in DOMAIN s : s[n] # e
  PROVE  Distinct(Append(s, e))
<1>1. /\ DOMAIN s = 1..Len(s) /\ Len(s) \in Nat /\ DOMAIN Append(s, e) = 1..(Len(s) + 1)
      /\ \A n \in 1..Len(s) : Append(s, e)[n] = s[n]
      /\ Append(s, e)[Len(s) + 1] = e
  OBVIOUS
<1> QED
  BY <1>1 DEF Distinct

\* The head of such a queue is not in its tail.
LEMMA DistinctTail ==
  ASSUME NEW S, NEW s \in Seq(S), s # <<>>, Distinct(s)
  PROVE  /\ Tail(s) \in Seq(S) /\ Distinct(Tail(s)) /\ Head(s) \in S
         /\ \A n \in DOMAIN Tail(s) : Tail(s)[n] # Head(s)
         /\ \A n \in DOMAIN Tail(s) : n + 1 \in DOMAIN s /\ Tail(s)[n] = s[n + 1]
         /\ 1 \in DOMAIN s /\ Head(s) = s[1]
<1>1. /\ DOMAIN s = 1..Len(s) /\ Len(s) \in Nat /\ Len(s) > 0
      /\ DOMAIN Tail(s) = 1..(Len(s) - 1) /\ Head(s) = s[1] /\ Tail(s) \in Seq(S)
      /\ \A n \in 1..(Len(s) - 1) : Tail(s)[n] = s[n + 1]
  OBVIOUS
<1> QED
  BY <1>1 DEF Distinct
----------------------------------------------------------------------------
\* The queue of a typed state is a sequence of processes.
LEMMA QueueTyped ==
  ASSUME TypeInv
  PROVE  Queue \in Seq(Procs) /\ Queue = QueueOf(buf, front, index)
<1>1. Queue = QueueOf(buf, front, index)
  BY DEF Queue, Rest, QueueOf
<1>2. /\ buf[front].items \in Seq(Procs) /\ buf[1 - front].items \in Seq(Procs)
      /\ index \in 0..Len(buf[front].items)
  BY DEF TypeInv, Buffers, Array
<1>3. SubSeq(buf[front].items, index + 1, Len(buf[front].items)) \in Seq(Procs)
  BY <1>2
<1> QED
  BY <1>1, <1>2, <1>3 DEF QueueOf

\* The tags of a process and of the kernel are tags.
LEMMA TagsTyped ==
  /\ \A p \in Procs, g \in 0..1 : Own(p, g) \in Registers /\ <<p, g, "stack">> \in Tag
  /\ Junk \in Tag /\ Result \in Tag /\ Enosys \in Tag
  /\ [r \in Reg |-> Junk] \in Registers
<1>1. Junk \in Tag /\ Result \in Tag /\ Enosys \in Tag
  BY DEF Junk, Result, Enosys, Tag, Reg
<1>2. ASSUME NEW p \in Procs, NEW g \in 0..1
      PROVE  Own(p, g) \in Registers /\ <<p, g, "stack">> \in Tag
  BY DEF Own, Registers, Tag
<1> QED
  BY <1>1, <1>2 DEF Registers

\* The kernel starts with empty arrays and every process in its first state.
LEMMA InitInv == Init => SchedInv
<1> SUFFICES ASSUME Init PROVE SchedInv
  OBVIOUS
<1>1. MaxProcs \in Nat /\ ArrayCap \in Nat /\ ArrayCap >= 2 /\ NoProc \notin Procs
  BY SchedAssumption, NoProcApart
<1>2. buf \in Buffers /\ front \in 0..1 /\ buf[front].items = <<>> /\ buf[1 - front].items = <<>>
  BY <1>1, EmptyTyped DEF Init, Buffers, Array
<1>3. Queue = <<>>
  <2>1. Queue = SubSeq(<<>>, 0 + 1, Len(<<>>)) \o <<>>
    BY <1>2 DEF Init, Queue, Rest
  <2> QED
    BY <2>1, EmptyTyped, Ends
<1>4. TypeInv
  <2>1. index \in 0..Len(buf[front].items)
    BY <1>2, EmptyTyped DEF Init
  <2>2. saved \in [Procs -> Registers] /\ expect \in [Procs -> Registers] /\ cpu \in Registers
    <3>1. 0 \in 0..1
      OBVIOUS
    <3>2. \A p \in Procs : Own(p, 0) \in Registers
      BY <3>1, TagsTyped
    <3> QED
      BY <3>2, TagsTyped DEF Init
  <2> QED
    BY <1>1, <1>2, <2>1, <2>2 DEF Init, TypeInv
<1>5. Modes
  BY <1>3 DEF Init, Modes
<1>6. QueueOnce
  BY <1>3, <1>1 DEF QueueOnce, Distinct, Init
<1>7. ArraysRoom
  BY <1>1, EmptyTyped DEF Init, ArraysRoom, Room
<1>8. Kept /\ ContextIntact
  BY DEF Init, Kept, ContextIntact
<1> QED
  BY <1>4, <1>5, <1>6, <1>7, <1>8 DEF SchedInv

\* The calls of kmain before the first process touch the machine and GS only.
LEMMA CallKeeps ==
  ASSUME SchedInv, NEW this, NEW next, NEW h, Call(this, next, h),
         this \notin {"schedule", "done"}, gs' \in {"none", "kernel", "user"},
         next \in {"idt_init", "pic_init", "gate", "sys_init", "thread_init", "schedule"},
         next = "schedule" => gs' = "kernel"
  PROVE  SchedInv'
<1>1. /\ stage = this /\ stage' = next
      /\ UNCHANGED <<size, buf, front, index, cur, mode, cr3, run, saved, cpu, args, gen,
                     asked, expect>>
  BY DEF Call, qvars
<1>2. mode = "boot"
  BY <1>1 DEF SchedInv, Modes
<1>3. Queue' = Queue
  BY <1>1 DEF Queue, Rest
<1>4. TypeInv'
  BY <1>1 DEF SchedInv, TypeInv
<1>5. Modes'
  BY <1>1, <1>2, <1>3 DEF SchedInv, Modes
<1>6. QueueOnce'
  BY <1>1, <1>3 DEF SchedInv, QueueOnce
<1>7. ArraysRoom' /\ Kept' /\ ContextIntact'
  BY <1>1, <1>2 DEF SchedInv, ArraysRoom, Kept, ContextIntact
<1> QED
  BY <1>4, <1>5, <1>6, <1>7 DEF SchedInv

\* Scheduling a new process appends its number, which no queued process has
\* (proc.c:66-83,126-134).
LEMMA BootScheduleQueue ==
  ASSUME SchedInv, BootSchedule
  PROVE  /\ size \in Procs /\ mode = "boot" /\ cur = NoProc
         /\ Queue \in Seq(Procs) /\ Queue' = Append(Queue, size)
         /\ Distinct(Queue) /\ \A n \in DOMAIN Queue : Queue[n] # size
<1>1. stage = "schedule" /\ size < MaxProcs /\ buf' = Scheduled(buf, front, size)
      /\ UNCHANGED <<front, index>>
  BY DEF BootSchedule
<1>2. /\ size \in 0..MaxProcs /\ MaxProcs \in Nat /\ buf \in Buffers /\ front \in 0..1
      /\ index \in 0..Len(buf[front].items)
  BY SchedAssumption DEF SchedInv, TypeInv
<1>3. size \in Procs
  BY <1>1, <1>2 DEF Procs
<1>4. mode = "boot" /\ cur = NoProc
  BY <1>1 DEF SchedInv, Modes
<1>5. Queue \in Seq(Procs) /\ Queue = QueueOf(buf, front, index)
  BY QueueTyped DEF SchedInv
<1>6. Queue' = Append(Queue, size)
  <2>1. QueueOf(Scheduled(buf, front, size), front, index) = Append(QueueOf(buf, front, index), size)
    BY <1>2, <1>3, ScheduledKeeps
  <2>2. Queue' = QueueOf(Scheduled(buf, front, size), front, index)
    BY <1>1 DEF Queue, Rest, QueueOf
  <2> QED
    BY <1>5, <2>1, <2>2
<1>7. Distinct(Queue) /\ \A n \in DOMAIN Queue : Queue[n] \in Procs /\ Queue[n] < size
  BY <1>5 DEF SchedInv, QueueOnce
<1>8. \A n \in DOMAIN Queue : Queue[n] # size
  BY <1>2, <1>7 DEF Procs
<1> QED
  BY <1>3, <1>4, <1>5, <1>6, <1>7, <1>8

\* proc_create takes a number that was never given out, so the new process is
\* nowhere in the queue (proc.c:66-83,126-134).
LEMMA BootScheduleKeeps == SchedInv /\ BootSchedule => SchedInv'
<1> SUFFICES ASSUME SchedInv, BootSchedule PROVE SchedInv'
  OBVIOUS
<1>1. /\ stage = "schedule" /\ size < MaxProcs /\ size' = size + 1
      /\ buf' = Scheduled(buf, front, size)
      /\ UNCHANGED <<stage, front, index, cur, mode, gs, cr3, run, saved, cpu, args, gen,
                     asked, expect>>
  BY DEF BootSchedule
<1>2. /\ size \in 0..MaxProcs /\ MaxProcs \in Nat /\ buf \in Buffers /\ front \in 0..1
      /\ index \in 0..Len(buf[front].items)
  BY SchedAssumption DEF SchedInv, TypeInv
<1>3. size \in Procs
  BY BootScheduleQueue
<1>4. mode = "boot" /\ cur = NoProc
  BY BootScheduleQueue
<1>5. Queue \in Seq(Procs)
  BY BootScheduleQueue
<1>6. Queue' = Append(Queue, size)
  BY BootScheduleQueue
<1>7. buf' \in Buffers /\ buf'[front] = buf[front] /\ ((\A i \in 0..1 : Room(buf[i])) => \A i \in 0..1 : Room(buf'[i]))
  BY <1>1, <1>2, <1>3, ScheduledKeeps
<1>8. TypeInv'
  BY <1>1, <1>2, <1>7 DEF SchedInv, TypeInv
<1>9. Modes'
  BY <1>1, <1>4 DEF SchedInv, Modes
<1>10. QueueOnce'
  <2>1. Distinct(Queue) /\ \A n \in DOMAIN Queue : Queue[n] \in Procs /\ Queue[n] < size
    BY <1>5 DEF SchedInv, QueueOnce
  <2>2. \A n \in DOMAIN Queue : Queue[n] # size
    BY BootScheduleQueue
  <2>3. Distinct(Queue')
    BY <1>3, <1>5, <1>6, <2>1, <2>2, DistinctAppend
  <2>4. /\ DOMAIN Queue' = 1..(Len(Queue) + 1) /\ DOMAIN Queue = 1..Len(Queue) /\ Len(Queue) \in Nat
        /\ \A n \in 1..Len(Queue) : Queue'[n] = Queue[n]
        /\ Queue'[Len(Queue) + 1] = size
    BY <1>3, <1>5, <1>6
  <2>5. \A n \in DOMAIN Queue' : Queue'[n] \in Procs /\ Queue'[n] < size + 1
    BY <1>2, <1>3, <2>1, <2>4 DEF Procs
  <2>6. \A n \in DOMAIN Queue' : Queue'[n] # cur'
    BY <1>1, <1>4, <2>5, NoProcApart
  <2> QED
    BY <1>1, <1>4, <2>3, <2>5, <2>6 DEF QueueOnce
<1>11. ArraysRoom'
  BY <1>7 DEF SchedInv, ArraysRoom
<1>12. Kept' /\ ContextIntact'
  BY <1>1, <1>4 DEF SchedInv, Kept, ContextIntact
<1> QED
  BY <1>8, <1>9, <1>10, <1>11, <1>12 DEF SchedInv

\* What a process that waits must find is what proc_run restores: common to the
\* first process kern_schedule starts and to every preemption
\* (proc.c:155-173, proc.S:7-44).
LEMMA SchedulesKeep ==
  ASSUME SchedInv, NEW b \in Buffers, index \in 0..Len(b[front].items),
         NEW sv \in [Procs -> Registers], NEW rn \in [Procs -> {"proc_run", "proc_run_sysret"}],
         NEW h, kern_schedule(b, sv, rn, "kernel", h),
         QueueOf(b, front, index) \in Seq(Procs), Distinct(QueueOf(b, front, index)),
         \A n \in DOMAIN QueueOf(b, front, index) : QueueOf(b, front, index)[n] < size,
         \A i \in 0..1 : Room(b[i]),
         \A p \in Procs : rn[p] = "proc_run" /\ sv[p] = expect[p],
         saved' = sv, run' = rn, stage' = "done", UNCHANGED <<size, gen, expect>>
  PROVE  SchedInv'
<1>1. front \in 0..1
  BY DEF SchedInv, TypeInv
<1>2. /\ buf' \in Buffers /\ front' \in 0..1 /\ index' \in 0..Len(buf'[front'].items)
      /\ \A i \in 0..1 : Room(buf'[i])
  BY <1>1, KernSchedule
<1>3. CASE QueueOf(b, front, index) # <<>>
  <2>1. PICK q \in Seq(Procs) : q = QueueOf(b, front, index)
    OBVIOUS
  <2>2. /\ cur' \in Procs /\ cur' = Head(q) /\ Queue' = Tail(q)
        /\ mode' = "user" /\ cr3' = cur' /\ gs' = Swap("kernel")
        /\ cpu' = Resume(rn[cur'], sv[cur'])
    BY <1>1, <1>3, <2>1, KernSchedule
  <2>3. cpu' = expect'[cur'] /\ gs' = "user" /\ cur' # NoProc
    BY <2>2, NoProcApart DEF Resume, Restored, Swap
  <2>4. q # <<>> /\ Distinct(q) /\ \A n \in DOMAIN q : q[n] < size
    BY <1>3, <2>1
  <2>5. /\ Distinct(Queue')
        /\ \A n \in DOMAIN Queue' : Queue'[n] # cur' /\ Queue'[n] < size
        /\ cur' < size
    BY <2>2, <2>4, DistinctTail
  <2>6. TypeInv'
    BY <1>2, <2>2, <2>3 DEF SchedInv, TypeInv
  <2>7. Modes' /\ QueueOnce' /\ Kept' /\ ContextIntact'
    BY <2>2, <2>3, <2>5 DEF Modes, QueueOnce, Kept, ContextIntact
  <2> QED
    BY <1>2, <2>6, <2>7 DEF SchedInv, ArraysRoom
<1>4. CASE QueueOf(b, front, index) = <<>>
  <2>1. cur' = NoProc /\ Queue' = <<>> /\ mode' = "idle" /\ gs' = "kernel" /\ UNCHANGED cpu
    BY <1>1, <1>4, KernSchedule
  <2>2. TypeInv'
    BY <1>2, <2>1 DEF SchedInv, TypeInv
  <2>3. Modes' /\ QueueOnce' /\ Kept' /\ ContextIntact'
    BY <2>1 DEF Modes, QueueOnce, Distinct, Kept, ContextIntact
  <2> QED
    BY <1>2, <2>2, <2>3 DEF SchedInv, ArraysRoom
<1> QED
  BY <1>3, <1>4

\* kmain hands over to the first process, or idles (main.c, proc.c:164-173).
LEMMA BootStartKeeps == SchedInv /\ BootStart => SchedInv'
<1> SUFFICES ASSUME SchedInv, BootStart PROVE SchedInv'
  OBVIOUS
<1>1. /\ stage = "schedule" /\ stage' = "done" /\ kern_schedule(buf, saved, run, gs, hw)
      /\ UNCHANGED <<size, run, saved, gen, expect>>
  BY DEF BootStart
<1>2. gs = "kernel" /\ cur = NoProc
  BY <1>1 DEF SchedInv, Modes
<1>3. Queue \in Seq(Procs) /\ Queue = QueueOf(buf, front, index)
  BY QueueTyped DEF SchedInv
<1>4. Distinct(Queue) /\ \A n \in DOMAIN Queue : Queue[n] < size
  BY DEF SchedInv, QueueOnce
<1>5. /\ buf \in Buffers /\ index \in 0..Len(buf[front].items) /\ saved \in [Procs -> Registers]
      /\ run \in [Procs -> {"proc_run", "proc_run_sysret"}] /\ \A i \in 0..1 : Room(buf[i])
  BY DEF SchedInv, TypeInv, ArraysRoom
<1>6. \A p \in Procs : run[p] = "proc_run" /\ saved[p] = expect[p]
  BY <1>2, NoProcApart DEF SchedInv, Kept
<1> QED
  BY <1>1, <1>2, <1>3, <1>4, <1>5, <1>6, SchedulesKeep

\* The queue after int_timer's proc_schedule is the queue with the interrupted
\* process at its end (timer.S:14-17).
LEMMA RequeuedQueue ==
  ASSUME SchedInv, mode = "user"
  PROVE  /\ cur \in Procs /\ Requeued(buf) \in Buffers /\ index \in 0..Len(Requeued(buf)[front].items)
         /\ QueueOf(Requeued(buf), front, index) = Append(Queue, cur)
         /\ Append(Queue, cur) \in Seq(Procs) /\ Distinct(Append(Queue, cur))
         /\ \A n \in DOMAIN Append(Queue, cur) : Append(Queue, cur)[n] < size
         /\ \A i \in 0..1 : Room(Requeued(buf)[i])
         /\ Append(Queue, cur) # <<>>
<1>1. cur \in Procs
  BY DEF SchedInv, TypeInv, Modes
<1>2. buf \in Buffers /\ front \in 0..1 /\ index \in 0..Len(buf[front].items)
  BY DEF SchedInv, TypeInv
<1>3. Queue \in Seq(Procs) /\ Queue = QueueOf(buf, front, index)
  BY QueueTyped DEF SchedInv
<1>4. /\ Requeued(buf) \in Buffers /\ Requeued(buf)[front] = buf[front]
      /\ QueueOf(Requeued(buf), front, index) = Append(QueueOf(buf, front, index), cur)
      /\ (\A i \in 0..1 : Room(buf[i])) => \A i \in 0..1 : Room(Requeued(buf)[i])
  BY <1>1, <1>2, ScheduledKeeps DEF Requeued
<1>5. Distinct(Queue) /\ (\A n \in DOMAIN Queue : Queue[n] # cur /\ Queue[n] < size) /\ cur < size
  BY <1>1, NoProcApart DEF SchedInv, QueueOnce
<1>6. PICK q \in Seq(Procs) : q = Queue
  BY <1>3
<1>7. Append(q, cur) \in Seq(Procs) /\ Distinct(Append(q, cur)) /\ Append(q, cur) # <<>>
  <2>1. Distinct(q) /\ \A n \in DOMAIN q : q[n] # cur
    BY <1>5, <1>6
  <2>2. Distinct(Append(q, cur))
    BY <1>1, <2>1, DistinctAppend
  <2>3. Append(q, cur) \in Seq(Procs) /\ Len(Append(q, cur)) = Len(q) + 1 /\ Len(q) \in Nat
    BY <1>1
  <2>4. Len(Append(q, cur)) # 0
    BY <2>3
  <2>5. Append(q, cur) # <<>>
    BY <2>4, EmptyTyped
  <2> QED
    BY <2>2, <2>3, <2>5
<1>8. \A n \in DOMAIN Append(q, cur) : Append(q, cur)[n] < size
  <2>1. \A n \in DOMAIN q : q[n] < size
    BY <1>5, <1>6
  <2>2. /\ DOMAIN Append(q, cur) = 1..(Len(q) + 1) /\ DOMAIN q = 1..Len(q) /\ Len(q) \in Nat
        /\ \A n \in 1..Len(q) : Append(q, cur)[n] = q[n]
        /\ Append(q, cur)[Len(q) + 1] = cur
    BY <1>1
  <2> QED
    BY <1>5, <2>1, <2>2
<1>9. ArraysRoom
  BY DEF SchedInv
<1> QED
  BY <1>1, <1>2, <1>3, <1>4, <1>6, <1>7, <1>8, <1>9 DEF ArraysRoom

\* A preemption: the interrupted process is saved whole and waits, the next one
\* finds what it must (timer.S:9-21, common.S:6-39).
LEMMA IntTimerKeeps == SchedInv /\ int_timer => SchedInv'
<1> SUFFICES ASSUME SchedInv, int_timer PROVE SchedInv'
  OBVIOUS
<1>1. PICK h : kern_schedule(Requeued(buf), saved', run', Swap(gs), h)
  BY DEF int_timer
<1>2. /\ mode = "user" /\ run' = MarkInterrupted /\ saved' = SAVE_CONTEXT
      /\ UNCHANGED <<stage, size, args, gen, asked, expect>>
  BY DEF int_timer, bvars
<1>3. /\ cur \in Procs /\ Requeued(buf) \in Buffers /\ index \in 0..Len(Requeued(buf)[front].items)
      /\ QueueOf(Requeued(buf), front, index) = Append(Queue, cur)
      /\ Append(Queue, cur) \in Seq(Procs) /\ Distinct(Append(Queue, cur))
      /\ \A n \in DOMAIN Append(Queue, cur) : Append(Queue, cur)[n] < size
      /\ \A i \in 0..1 : Room(Requeued(buf)[i])
  BY <1>2, RequeuedQueue
<1>4. Swap(gs) = "kernel" /\ cpu = expect[cur] /\ stage' = "done"
  BY <1>2 DEF SchedInv, ContextIntact, Modes, Swap
<1>5. /\ saved' \in [Procs -> Registers] /\ run' \in [Procs -> {"proc_run", "proc_run_sysret"}]
      /\ \A p \in Procs : run'[p] = "proc_run" /\ saved'[p] = expect[p]
  <2>1. /\ saved \in [Procs -> Registers] /\ run \in [Procs -> {"proc_run", "proc_run_sysret"}]
        /\ cpu \in Registers
        /\ \A p \in Procs : p # cur => run[p] = "proc_run" /\ saved[p] = expect[p]
    BY DEF SchedInv, TypeInv, Kept
  <2> QED
    BY <1>2, <1>3, <1>4, <2>1 DEF MarkInterrupted, SAVE_CONTEXT
<1>6. PICK q \in Seq(Procs) : q = QueueOf(Requeued(buf), front, index)
  BY <1>3
<1>7. /\ QueueOf(Requeued(buf), front, index) \in Seq(Procs)
      /\ Distinct(QueueOf(Requeued(buf), front, index))
      /\ \A n \in DOMAIN QueueOf(Requeued(buf), front, index) :
           QueueOf(Requeued(buf), front, index)[n] < size
  BY <1>3, <1>6
<1>8. PICK sv \in [Procs -> Registers] : sv = saved'
  BY <1>5
<1>9. PICK rn \in [Procs -> {"proc_run", "proc_run_sysret"}] : rn = run'
  BY <1>5
<1>10. kern_schedule(Requeued(buf), sv, rn, "kernel", h)
  BY <1>1, <1>4, <1>8, <1>9
<1>11. UNCHANGED <<size, gen, expect>> /\ \A p \in Procs : rn[p] = "proc_run" /\ sv[p] = expect[p]
  BY <1>2, <1>5, <1>8, <1>9
<1> QED
  BY <1>3, <1>4, <1>7, <1>8, <1>9, <1>10, <1>11, SchedulesKeep

\* A step of user mode or of a system call leaves the queue and who runs alone.
LEMMA CurrentKeeps ==
  ASSUME SchedInv, UNCHANGED <<stage, size, buf, front, index, cur, cr3>>,
         mode \in {"user", "sys"}, mode' \in {"user", "sys"}, cur \in Procs
  PROVE  Modes' /\ QueueOnce' /\ ArraysRoom'
<1>1. Queue' = Queue
  BY DEF Queue, Rest
<1>2. stage = "done" /\ cur # NoProc
  BY DEF SchedInv, Modes
<1> QED
  BY <1>1, <1>2 DEF SchedInv, Modes, QueueOnce, ArraysRoom

\* User code computes in its own registers.
LEMMA UserStepKeeps == SchedInv /\ UserStep => SchedInv'
<1> SUFFICES ASSUME SchedInv, UserStep PROVE SchedInv'
  OBVIOUS
<1>1. /\ mode = "user" /\ gen' = [gen EXCEPT ![cur] = 1 - @]
      /\ cpu' = Own(cur, 1 - gen[cur])
      /\ expect' = [expect EXCEPT ![cur] = Own(cur, 1 - gen[cur])]
      /\ UNCHANGED <<stage, size, buf, front, index, cur, mode, gs, cr3, run, saved>>
  BY DEF UserStep, bvars, qvars
<1>2. cur \in Procs
  BY <1>1 DEF SchedInv, TypeInv, Modes
<1>3. 1 - gen[cur] \in 0..1
  BY <1>2 DEF SchedInv, TypeInv
<1>4. Own(cur, 1 - gen[cur]) \in Registers
  BY <1>2, <1>3, TagsTyped
<1>5. TypeInv'
  BY <1>1, <1>2, <1>3, <1>4 DEF SchedInv, TypeInv
<1>6. Modes' /\ QueueOnce' /\ ArraysRoom'
  BY <1>1, <1>2, CurrentKeeps
<1>7. Kept'
  BY <1>1, <1>2 DEF SchedInv, TypeInv, Kept
<1>8. ContextIntact'
  BY <1>1, <1>2 DEF SchedInv, TypeInv, ContextIntact
<1> QED
  BY <1>5, <1>6, <1>7, <1>8 DEF SchedInv

\* The registers a system call starts with, as the stub and the instruction
\* leave them (libc/arch/x86/syscall.S:8-18).
LEMMA StubTyped ==
  ASSUME SchedInv, cur \in Procs
  PROVE  /\ Stub(cpu) \in Registers /\ Trapped(Stub(cpu)) \in Registers
         /\ SysArgs(Trapped(Stub(cpu))) = Given(cpu)
         /\ \A r \in Reg \ {"CX", "R11"} : Trapped(Stub(cpu))[r] = Stub(cpu)[r]
         /\ Trapped(Stub(cpu))["CX"] = Stub(cpu)["IP"]
         /\ Trapped(Stub(cpu))["R11"] = Stub(cpu)["FLAGS"]
<1>1. cpu \in [Reg -> Tag] /\ gen[cur] \in 0..1
  BY DEF SchedInv, TypeInv, Registers
<1>2. Given(cpu)[6] = <<cur, gen[cur], "stack">>
  BY DEF Given
<1>3. <<cur, gen[cur], "stack">> \in Tag
  BY <1>1, TagsTyped
<1>4. /\ "CX" \in Reg /\ "R11" \in Reg /\ "IP" \in Reg /\ "FLAGS" \in Reg /\ "SI" \in Reg
      /\ "DX" \in Reg /\ "DI" \in Reg /\ "R8" \in Reg /\ "R9" \in Reg /\ "R10" \in Reg
  BY DEF Reg
<1>5. Stub(cpu) \in [Reg -> Tag]
  BY <1>1, <1>2, <1>3, <1>4 DEF Stub
<1>6. /\ Stub(cpu)["DI"] = cpu["SI"] /\ Stub(cpu)["SI"] = cpu["DX"] /\ Stub(cpu)["DX"] = cpu["CX"]
      /\ Stub(cpu)["R10"] = cpu["R8"] /\ Stub(cpu)["R8"] = cpu["R9"]
      /\ Stub(cpu)["R9"] = <<cur, gen[cur], "stack">>
  BY <1>1, <1>2, <1>4 DEF Stub
<1>7. /\ Trapped(Stub(cpu)) \in [Reg -> Tag]
      /\ \A r \in Reg \ {"CX", "R11"} : Trapped(Stub(cpu))[r] = Stub(cpu)[r]
      /\ Trapped(Stub(cpu))["CX"] = Stub(cpu)["IP"]
      /\ Trapped(Stub(cpu))["R11"] = Stub(cpu)["FLAGS"]
  BY <1>4, <1>5 DEF Trapped
<1>8. SysArgs(Trapped(Stub(cpu))) = Given(cpu)
  BY <1>4, <1>6, <1>7 DEF SysArgs, Given
<1> QED
  BY <1>5, <1>7, <1>8 DEF Registers

\* x86_sys_handler keeps what the call must preserve, its arguments arrive in
\* the order they were given (syscall.S:9-53).
LEMMA SyscallKeeps == SchedInv /\ Syscall => SchedInv'
<1> SUFFICES ASSUME SchedInv, Syscall PROVE SchedInv'
  OBVIOUS
<1>1. /\ mode = "user" /\ mode' = "sys" /\ gs' = Swap(gs)
      /\ saved' = [saved EXCEPT ![cur] = SysSaved(@, Trapped(Stub(cpu)))]
      /\ args' = SysArgs(Trapped(Stub(cpu))) /\ asked' = Given(cpu)
      /\ expect' = [expect EXCEPT ![cur] = Stub(cpu)]
      /\ run' = [run EXCEPT ![cur] = "proc_run_sysret"]
      /\ cpu' = [r \in Reg |-> Junk]
      /\ UNCHANGED <<stage, size, buf, front, index, cur, cr3, gen>>
  BY DEF Syscall, bvars, qvars
<1>2. cur \in Procs
  BY <1>1 DEF SchedInv, TypeInv, Modes
<1>3. saved \in [Procs -> Registers] /\ expect \in [Procs -> Registers]
  BY DEF SchedInv, TypeInv
<1>4. PICK u \in Registers : u = Stub(cpu)
  BY <1>2, StubTyped
<1>5. PICK c \in Registers : c = Trapped(Stub(cpu))
  BY <1>2, StubTyped
<1>6. /\ \A r \in Reg \ {"CX", "R11"} : c[r] = u[r]
      /\ c["CX"] = u["IP"] /\ c["R11"] = u["FLAGS"]
  BY <1>2, <1>4, <1>5, StubTyped
<1>7. SysSaved(saved[cur], c) \in Registers
  <2>1. "CX" \in Reg /\ "R11" \in Reg /\ saved[cur] \in [Reg -> Tag] /\ c \in [Reg -> Tag]
    BY <1>2, <1>3 DEF Reg, Registers
  <2> QED
    BY <2>1 DEF SysSaved, Registers
<1>8. saved' = [saved EXCEPT ![cur] = SysSaved(saved[cur], c)] /\ expect' = [expect EXCEPT ![cur] = u]
  BY <1>1, <1>4, <1>5
<1>9. \A x \in Reg \ {"AX", "CX", "R11"} : SysSaved(saved[cur], c)[x] = u[x]
  BY <1>6 DEF SysSaved
<1>10. TypeInv'
  <2>1. cpu' \in Registers
    BY <1>1, TagsTyped
  <2>2. gs' \in {"kernel", "user"}
    BY <1>1 DEF Swap
  <2>3. saved' \in [Procs -> Registers] /\ expect' \in [Procs -> Registers]
    BY <1>2, <1>3, <1>7, <1>8
  <2>4. run' \in [Procs -> {"proc_run", "proc_run_sysret"}]
    BY <1>1 DEF SchedInv, TypeInv
  <2> QED
    BY <1>1, <2>1, <2>2, <2>3, <2>4 DEF SchedInv, TypeInv
<1>11. Modes' /\ QueueOnce' /\ ArraysRoom'
  BY <1>1, <1>2, CurrentKeeps
<1>12. Kept'
  <2>1. \A p \in Procs : p # cur => run'[p] = "proc_run" /\ saved'[p] = expect'[p]
    BY <1>1, <1>2, <1>3, <1>8 DEF SchedInv, TypeInv, Kept
  <2>2. saved'[cur] = SysSaved(saved[cur], c) /\ expect'[cur] = u
    BY <1>2, <1>3, <1>8
  <2> QED
    BY <1>1, <1>9, <2>1, <2>2 DEF SchedInv, ContextIntact, Kept
<1>13. ContextIntact'
  <2>1. args' = asked'
    BY <1>1, <1>2, StubTyped
  <2>2. gs' = "kernel"
    BY <1>1 DEF SchedInv, ContextIntact, Swap
  <2> QED
    BY <1>1, <2>1, <2>2 DEF ContextIntact
<1> QED
  BY <1>10, <1>11, <1>12, <1>13 DEF SchedInv

\* proc_run_sysret gives back every register but the three a call may change
\* (syscall.S:54-71, proc.S:46-81).
LEMMA SyscallReturnKeeps == SchedInv /\ SyscallReturn => SchedInv'
<1> SUFFICES ASSUME SchedInv, SyscallReturn PROVE SchedInv'
  OBVIOUS
<1>1. /\ mode = "sys" /\ mode' = "user" /\ gs' = Swap(gs)
      /\ saved' = [saved EXCEPT ![cur]["AX"] = Result]
      /\ cpu' = RestoredSysret(saved'[cur])
      /\ expect' = [expect EXCEPT ![cur] = AfterCall(@, cpu', Result)]
      /\ UNCHANGED <<stage, size, buf, front, index, cur, cr3, run, gen>>
  BY DEF SyscallReturn, bvars, qvars
<1>2. cur \in Procs
  BY <1>1 DEF SchedInv, TypeInv, Modes
<1>3. saved \in [Procs -> Registers] /\ expect \in [Procs -> Registers]
  BY DEF SchedInv, TypeInv
<1>4. PICK e \in [Reg -> Tag] : e = expect[cur]
  BY <1>2, <1>3 DEF Registers
<1>5. PICK s \in [Reg -> Tag] : s = saved[cur]
  BY <1>2, <1>3 DEF Registers
<1>6. \A x \in Reg \ {"AX", "CX", "R11"} : s[x] = e[x]
  BY <1>1, <1>4, <1>5 DEF SchedInv, Kept
<1>7. PICK t \in [Reg -> Tag] : t = [s EXCEPT !["AX"] = Result]
  BY TagsTyped
<1>8. saved' = [saved EXCEPT ![cur] = t] /\ saved'[cur] = t
  BY <1>1, <1>2, <1>3, <1>5, <1>7
<1>9. "AX" \in Reg /\ "CX" \in Reg /\ "R11" \in Reg /\ "IP" \in Reg /\ "FLAGS" \in Reg
  BY DEF Reg
<1>10. PICK c \in [Reg -> Tag] : c = [t EXCEPT !["CX"] = t["IP"], !["R11"] = t["FLAGS"]]
  BY <1>9
<1>11. cpu' = c
  BY <1>1, <1>8, <1>10 DEF RestoredSysret
<1>12. expect' = [expect EXCEPT ![cur] = AfterCall(e, c, Result)]
  BY <1>1, <1>4, <1>11
<1>13. AfterCall(e, c, Result) = c
  <2>1. /\ c["AX"] = Result
        /\ \A x \in Reg \ {"AX", "CX", "R11"} : c[x] = e[x]
    BY <1>6, <1>7, <1>9, <1>10
  <2>2. AfterCall(e, c, Result) \in [Reg -> Tag]
    BY <1>9, TagsTyped DEF AfterCall
  <2>3. \A x \in Reg : AfterCall(e, c, Result)[x] = c[x]
    BY <1>9, <2>1 DEF AfterCall
  <2> QED
    BY <2>2, <2>3
<1>14. TypeInv'
  <2>1. saved' \in [Procs -> Registers] /\ expect' \in [Procs -> Registers] /\ cpu' \in Registers
    BY <1>2, <1>3, <1>8, <1>11, <1>12, <1>13 DEF Registers
  <2>2. gs' \in {"kernel", "user"}
    BY <1>1 DEF Swap
  <2> QED
    BY <1>1, <2>1, <2>2 DEF SchedInv, TypeInv
<1>15. Modes' /\ QueueOnce' /\ ArraysRoom'
  BY <1>1, <1>2, CurrentKeeps
<1>16. Kept'
  BY <1>1, <1>2, <1>3, <1>8, <1>12 DEF SchedInv, Kept
<1>17. ContextIntact'
  <2>1. gs' = "user" /\ cr3' = cur'
    BY <1>1 DEF SchedInv, ContextIntact, Kept, Swap
  <2>2. cpu' = expect'[cur']
    BY <1>1, <1>2, <1>3, <1>11, <1>12, <1>13
  <2> QED
    BY <1>1, <2>1, <2>2 DEF ContextIntact
<1> QED
  BY <1>14, <1>15, <1>16, <1>17 DEF SchedInv

\* bad_sys answers -ENOSYS in RAX and returns through sysretq
\* (syscall.S:13-18,73-77).
LEMMA BadSyscallKeeps == SchedInv /\ BadSyscall => SchedInv'
<1> SUFFICES ASSUME SchedInv, BadSyscall PROVE SchedInv'
  OBVIOUS
<1>1. /\ mode = "user"
      /\ cpu' = [Trapped(Stub(cpu)) EXCEPT !["AX"] = Enosys]
      /\ expect' = [expect EXCEPT ![cur] = AfterCall(Stub(cpu), cpu', Enosys)]
      /\ UNCHANGED <<stage, size, buf, front, index, cur, mode, gs, cr3, run, saved, args, gen,
                     asked>>
  BY DEF BadSyscall, bvars, qvars
<1>2. cur \in Procs
  BY <1>1 DEF SchedInv, TypeInv, Modes
<1>3. PICK u \in [Reg -> Tag] : u = Stub(cpu)
  BY <1>2, StubTyped DEF Registers
<1>4. PICK t \in [Reg -> Tag] : t = Trapped(Stub(cpu))
  BY <1>2, StubTyped DEF Registers
<1>5. \A r \in Reg \ {"CX", "R11"} : t[r] = u[r]
  BY <1>2, <1>3, <1>4, StubTyped
<1>6. PICK c \in [Reg -> Tag] : c = [t EXCEPT !["AX"] = Enosys]
  BY TagsTyped
<1>7. cpu' = c /\ expect' = [expect EXCEPT ![cur] = AfterCall(u, c, Enosys)]
  BY <1>1, <1>3, <1>4, <1>6
<1>8. AfterCall(u, c, Enosys) = c
  <2>1. "AX" \in Reg /\ "CX" \in Reg /\ "R11" \in Reg
    BY DEF Reg
  <2>2. AfterCall(u, c, Enosys) \in [Reg -> Tag]
    BY <2>1, TagsTyped DEF AfterCall
  <2>3. \A x \in Reg : AfterCall(u, c, Enosys)[x] = c[x]
    BY <1>5, <1>6, <2>1 DEF AfterCall
  <2> QED
    BY <2>2, <2>3
<1>9. expect \in [Procs -> Registers] /\ expect' = [expect EXCEPT ![cur] = c]
  BY <1>7, <1>8 DEF SchedInv, TypeInv
<1>10. TypeInv'
  <2>1. expect' \in [Procs -> Registers] /\ cpu' \in Registers
    BY <1>2, <1>7, <1>9 DEF Registers
  <2> QED
    BY <1>1, <2>1 DEF SchedInv, TypeInv
<1>11. Modes' /\ QueueOnce' /\ ArraysRoom'
  BY <1>1, <1>2, CurrentKeeps
<1>12. Kept' /\ ContextIntact'
  BY <1>1, <1>2, <1>7, <1>9 DEF SchedInv, Kept, ContextIntact
<1> QED
  BY <1>10, <1>11, <1>12 DEF SchedInv

\* Every step of the kernel and of user code keeps the invariant.
LEMMA NextInv == SchedInv /\ [Next]_vars => SchedInv'
<1> SUFFICES ASSUME SchedInv, [Next]_vars PROVE SchedInv'
  OBVIOUS
<1>1. CASE GdtInit
  BY <1>1, CallKeeps DEF GdtInit
<1>2. CASE IdtInit \/ PicInit \/ Gate \/ SysInit
  <2>1. gs' \in {"none", "kernel", "user"}
    BY <1>2 DEF IdtInit, PicInit, Gate, SysInit, SchedInv, TypeInv
  <2> QED
    BY <1>2, <2>1, CallKeeps DEF IdtInit, PicInit, Gate, SysInit
<1>3. CASE ThreadInit
  BY <1>3, CallKeeps DEF ThreadInit
<1>4. CASE BootSchedule
  BY <1>4, BootScheduleKeeps
<1>5. CASE BootStart
  BY <1>5, BootStartKeeps
<1>6. CASE UserStep
  BY <1>6, UserStepKeeps
<1>7. CASE int_timer
  BY <1>7, IntTimerKeeps
<1>8. CASE Syscall
  BY <1>8, SyscallKeeps
<1>9. CASE SyscallReturn
  BY <1>9, SyscallReturnKeeps
<1>10. CASE BadSyscall
  BY <1>10, BadSyscallKeeps
<1>11. CASE Halted \/ UNCHANGED vars
  <2>1. UNCHANGED <<stage, size, buf, front, index, cur, mode, gs, cr3, run, saved, cpu, args,
                    gen, asked, expect>>
    BY <1>11 DEF Halted, vars, bvars, qvars
  <2>2. Queue' = Queue
    BY <2>1 DEF Queue, Rest
  <2>3. TypeInv' /\ Modes' /\ QueueOnce' /\ ArraysRoom'
    BY <2>1, <2>2 DEF SchedInv, TypeInv, Modes, QueueOnce, ArraysRoom
  <2>4. Kept' /\ ContextIntact'
    BY <2>1 DEF SchedInv, Kept, ContextIntact
  <2> QED
    BY <2>3, <2>4 DEF SchedInv
<1> QED
  BY <1>1, <1>2, <1>3, <1>4, <1>5, <1>6, <1>7, <1>8, <1>9, <1>10, <1>11 DEF Next

\* The invariant holds of every state the kernel reaches.
THEOREM SchedInvariant == Spec => []SchedInv
BY InitInv, NextInv, PTL DEF Spec

\* A process is scheduled once, for any number of processes: it runs, or is in
\* one place of what is left of the two buffers, and no array overflows
\* (proc.c:126-153, array.c:11-27).
THEOREM ScheduledOnce == Spec => []OnePlace
<1>1. SchedInv => OnePlace
  BY DEF SchedInv, QueueOnce, Distinct, ArraysRoom, Room, OnePlace
<1> QED
  BY <1>1, SchedInvariant, PTL

\* Context switches and system calls give every process its own registers and
\* address space back (common.S:6-39, proc.S:7-81, syscall.S:9-71).
THEOREM ContextSwitch == Spec => []ContextIntact
<1>1. SchedInv => ContextIntact
  BY DEF SchedInv
<1> QED
  BY <1>1, SchedInvariant, PTL
----------------------------------------------------------------------------
\* Every step of the kernel is a step of the queue of RunQueue, or none.
LEMMA StepRefines == SchedInv /\ [Next]_vars => [RQ!Next]_<<Queue, cur>>
<1> SUFFICES ASSUME SchedInv, [Next]_vars PROVE [RQ!Next]_<<Queue, cur>>
  OBVIOUS
<1>1. CASE GdtInit \/ IdtInit \/ PicInit \/ Gate \/ SysInit \/ ThreadInit
  <2>1. UNCHANGED <<buf, front, index, cur>>
    BY <1>1 DEF GdtInit, IdtInit, PicInit, Gate, SysInit, ThreadInit, Call, qvars
  <2> QED
    BY <2>1 DEF Queue, Rest
<1>2. CASE UserStep \/ Syscall \/ SyscallReturn \/ BadSyscall \/ Halted \/ UNCHANGED vars
  <2>1. UNCHANGED <<buf, front, index, cur>>
    BY <1>2 DEF UserStep, Syscall, SyscallReturn, BadSyscall, Halted, vars, qvars
  <2> QED
    BY <2>1 DEF Queue, Rest
<1>3. CASE BootSchedule
  <2>1. /\ size \in Procs /\ cur = NoProc /\ Queue' = Append(Queue, size)
        /\ \A n \in DOMAIN Queue : Queue[n] # size
    BY <1>3, BootScheduleQueue
  <2>2. UNCHANGED cur
    BY <1>3 DEF BootSchedule
  <2>3. size # cur /\ size \notin RQ!Waiting
    BY <2>1, NoProcApart DEF RQ!Waiting
  <2>4. RQ!Enqueue(size)
    BY <2>1, <2>2, <2>3 DEF RQ!Enqueue
  <2> QED
    BY <2>1, <2>4 DEF RQ!Next
<1>4. CASE BootStart
  <2>1. /\ kern_schedule(buf, saved, run, gs, hw) /\ cur = NoProc
        /\ buf \in Buffers /\ front \in 0..1 /\ index \in 0..Len(buf[front].items)
    BY <1>4 DEF BootStart, SchedInv, Modes, TypeInv
  <2>2. Queue = QueueOf(buf, front, index)
    BY QueueTyped DEF SchedInv
  <2>3. CASE Queue # <<>>
    <3>1. cur' = Head(Queue) /\ Queue' = Tail(Queue)
      BY <2>1, <2>2, <2>3, KernSchedule
    <3>2. RQ!Dispatch
      BY <2>1, <2>3, <3>1 DEF RQ!Dispatch
    <3> QED
      BY <3>2 DEF RQ!Next
  <2>4. CASE Queue = <<>>
    <3>0. QueueOf(buf, front, index) = <<>>
      BY <2>2, <2>4
    <3>1. cur' = NoProc /\ Queue' = <<>>
      BY <2>1, <3>0, KernSchedule
    <3>2. UNCHANGED <<Queue, cur>>
      BY <2>1, <2>4, <3>1, Zenon
    <3> QED
      BY <3>2
  <2> QED
    BY <2>3, <2>4
<1>5. CASE int_timer
  <2>1. PICK h : kern_schedule(Requeued(buf), saved', run', Swap(gs), h)
    BY <1>5 DEF int_timer
  <2>2. mode = "user" /\ front \in 0..1
    BY <1>5 DEF int_timer, SchedInv, TypeInv
  <2>3. /\ cur \in Procs /\ Requeued(buf) \in Buffers
        /\ index \in 0..Len(Requeued(buf)[front].items)
        /\ QueueOf(Requeued(buf), front, index) = Append(Queue, cur)
        /\ Append(Queue, cur) # <<>>
    BY <2>2, RequeuedQueue
  <2>4. PICK b \in Buffers : b = Requeued(buf)
    BY <2>3
  <2>5. PICK q : q = QueueOf(b, front, index)
    OBVIOUS
  <2>6. q # <<>> /\ q = Append(Queue, cur)
    BY <2>3, <2>4, <2>5
  <2>7. cur' = Head(q) /\ Queue' = Tail(q)
    <3>1. PICK sv, rn, g : sv = saved' /\ rn = run' /\ g = Swap(gs)
      OBVIOUS
    <3>2. kern_schedule(b, sv, rn, g, h) /\ index \in 0..Len(b[front].items)
      BY <2>1, <2>3, <2>4, <3>1
    <3>3. QueueOf(b, front, index) # <<>>
      BY <2>5, <2>6
    <3>4. cur' = Head(QueueOf(b, front, index)) /\ Queue' = Tail(QueueOf(b, front, index))
      BY <2>2, <3>2, <3>3, KernSchedule
    <3> QED
      BY <2>5, <3>4
  <2>8. RQ!Preempt
    BY <2>3, <2>6, <2>7, NoProcApart DEF RQ!Preempt
  <2> QED
    BY <2>8 DEF RQ!Next
<1> QED
  BY <1>1, <1>2, <1>3, <1>4, <1>5 DEF Next

\* The two growing buffers, their index and the swap implement one first-in
\* first-out queue, for any number of processes: nobody is lost, doubled or
\* overtaken (proc.c:126-153).
THEOREM ImplementsRunQueue == Spec => RefinesRunQueue
<1>1. Init => RQ!Init
  <2> SUFFICES ASSUME Init PROVE RQ!Init
    OBVIOUS
  <2>1. Queue = SubSeq(<<>>, 0 + 1, Len(<<>>)) \o <<>>
    <3>1. front = 0 /\ index = 0 /\ buf[front].items = <<>> /\ buf[1 - front].items = <<>>
      BY DEF Init
    <3> QED
      BY <3>1 DEF Queue, Rest
  <2>2. Queue = <<>>
    BY <2>1, EmptyTyped, Ends
  <2> QED
    BY <2>2 DEF Init, RQ!Init
<1> QED
  BY <1>1, SchedInvariant, StepRefines, PTL DEF Spec, RefinesRunQueue, RQ!Spec
=============================================================================
