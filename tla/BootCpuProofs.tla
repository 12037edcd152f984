---------------------------- MODULE BootCpuProofs ----------------------------
(***************************************************************************)
(* Proofs about the processor from the MBR through the BIOS calls, for     *)
(* every set of interrupt numbers and of register contents, and any number *)
(* of calls.                                                               *)
(***************************************************************************)
EXTENDS BootCpu, SequenceTheorems, TLAPS

\* The labels of the loader up to its first switch, and those from there on.
Early == {"mbr", "found", "vbr", "a20", "paging", "cr4"}
Later == {"switch_mode_long", "lgdt64", "lmode", "start64", "bmain", "switch_mode_real",
          "pmode16", "rmode", "real", "done"}

\* The words the code pushes.
Words == [v : Values \cup {"start64", "bmain", "real", "done"} \cup Partitions \cup {drive},
          w : {2, 8}]

\* What bios_call leaves on the stack under the return address.
Saved == Push(asked.rbx, 8, Push(asked.rbp, 8, Push("bmain", 8, <<>>)))

\* What is on the stack where a switch to long mode begins and, w bytes wide,
\* until it returns: the way into C code, when no carry has been returned yet,
\* or the way back from a BIOS call.
Entering(w) ==
  \/ stack = Push("start64", w, <<>>) /\ ret = cf
  \/ stack = Push("done", w, Saved)

\* The mode of the processor at each label: what long mode needs is set up before
\* the switch, and the tables and selectors are those of the code that runs.
Modes ==
  /\ pc \in Early \cup {"switch_mode_long", "real", "halt"} => cs = "real"
  /\ pc \in Early \cup {"switch_mode_long", "real", "halt", "rmode", "wild"} => ~pe /\ ~pg
  /\ pc \in Later \cup {"cr4"} => cr3 = "bootstrap"
  /\ pc \in Later => pae /\ lme
  /\ pc \in Code64 \cup {"lgdt64", "pmode16"} => pe /\ pg /\ ~ifl
  /\ pc \in Code64 => cs = "code64" /\ gdt = "gdt64"
  /\ pc \in Code64 \ {"lmode"} => segs = "data64"
  /\ pc = "real" => segs = "real"

\* The partition chosen, and whose sectors the memory holds, from label to label.
Loaded ==
  /\ image \in [vbr : 0..4, rest : 0..5]
  /\ pc \in {"mbr", "found", "vbr"} => dl = drive /\ image.rest = 0
  /\ pc \in {"found", "vbr"} => si \in Partitions /\ First(si)
  /\ pc = "vbr" => image.vbr = si
  /\ pc \in {"a20", "paging", "cr4"} \cup Later =>
       /\ record \in Partitions /\ First(record) /\ disk = drive
       /\ image.vbr = record /\ image.rest \in {record, Part}
  /\ pc = "wild" => 0 \in {image.vbr, image.rest}

\* What is on the stack at each label, word by word.
StackShape ==
  /\ pc \in {"mbr", "vbr", "a20", "paging", "cr4", "start64", "bmain"} => stack = <<>>
  /\ pc = "found" => stack = Push(si, 2, Push(drive, 2, <<>>))
  /\ pc = "switch_mode_long" => Entering(2)
  /\ pc \in {"lgdt64", "lmode"} => Entering(8)
  /\ pc = "switch_mode_real" => stack = Push("real", 8, Saved)
  /\ pc \in {"pmode16", "rmode"} => stack = Push("real", 2, Saved)
  /\ pc \in {"real", "done"} => stack = Saved

\* Before the first call the carry returned is the one the code has; during a call
\* the vector patched into the int instruction is the one asked for.
Answers ==
  /\ rbx \in Values /\ rbp \in Values /\ asked.rbx \in Values /\ asked.rbp \in Values
  /\ pc \in Early \cup {"start64", "bmain"} => ret = cf
  /\ pc \in {"switch_mode_real", "pmode16", "rmode", "real"} => int_call = asked.num

CpuInv ==
  /\ pc \in Early \cup Later \cup {"halt", "wild"}
  /\ Modes /\ Loaded /\ StackShape /\ Answers

----------------------------------------------------------------------------
(* The stack *)

\* A word is its value and its width.
LEMMA WordParts ==
  ASSUME NEW r, NEW x, NEW y, r = [v |-> x, w |-> y]
  PROVE  r.v = x /\ r.w = y
  OBVIOUS

\* What a push leaves on top and below.
LEMMA PushTop ==
  ASSUME NEW v, NEW w, [v |-> v, w |-> w] \in Words, NEW s \in Seq(Words)
  PROVE  /\ Push(v, w, s) \in Seq(Words) /\ Len(Push(v, w, s)) = Len(s) + 1
         /\ Push(v, w, s)[1] = [v |-> v, w |-> w]
         /\ Tail(Push(v, w, s)) = s
<1>1. PICK x \in Words : x = [v |-> v, w |-> w]
  OBVIOUS
<1>9. <<x>> \in Seq(Words)
  OBVIOUS
<1>2. PICK t \in Seq(Words) : t = <<x>>
  BY <1>9
<1>8. Len(t) = 1 /\ t[1] = x
  BY <1>2
<1>3. /\ t \o s \in Seq(Words) /\ Len(t \o s) = 1 + Len(s)
      /\ \A n \in 1..(1 + Len(s)) : (t \o s)[n] = IF n <= 1 THEN t[n] ELSE s[n - 1]
  BY <1>8, ConcatProperties
<1>4. PICK u \in Seq(Words) : u = t \o s
  BY <1>3
<1>5. /\ Len(u) = Len(s) + 1 /\ u[1] = x /\ \A n \in 2..(Len(s) + 1) : u[n] = s[n - 1]
  BY <1>8, <1>3, <1>4
<1>6. Tail(u) = s
  <2>1. PICK q \in Seq(Words) : q = Tail(u)
    BY <1>5
  <2>2. Len(q) = Len(s) /\ \A n \in 1..Len(q) : q[n] = s[n]
    BY <1>5, <2>1
  <2>3. q = s
    BY <2>2, SeqEqual
  <2> QED
    BY <2>1, <2>3
<1>7. Push(v, w, s) = u
  BY <1>1, <1>2, <1>4 DEF Push
<1> QED
  BY <1>1, <1>5, <1>6, <1>7

\* The words under the top keep their order.
LEMMA PushBelow ==
  ASSUME NEW v, NEW w, [v |-> v, w |-> w] \in Words, NEW s \in Seq(Words)
  PROVE  \A n \in 1..Len(s) : Push(v, w, s)[n + 1] = s[n]
<1>1. PICK x \in Words : x = [v |-> v, w |-> w]
  OBVIOUS
<1>2. <<x>> \in Seq(Words)
  OBVIOUS
<1>3. PICK t \in Seq(Words) : t = <<x>>
  BY <1>2
<1>4. Len(t) = 1 /\ t[1] = x
  BY <1>3
<1>5. /\ t \o s \in Seq(Words) /\ Len(t \o s) = 1 + Len(s)
      /\ \A k \in 1..(1 + Len(s)) : (t \o s)[k] = IF k <= 1 THEN t[k] ELSE s[k - 1]
  BY <1>4, ConcatProperties
<1>6. PICK u \in Seq(Words) : u = t \o s
  BY <1>5
<1>7. \A n \in 1..Len(s) : u[n + 1] = s[n]
  BY <1>5, <1>6
<1>8. Push(v, w, s) = u
  BY <1>1, <1>3, <1>6 DEF Push
<1> QED
  BY <1>7, <1>8

\* bios_call's frame: what BiosReturn takes from it (bios.S:69-72).
LEMMA SavedFacts ==
  ASSUME Answers
  PROVE  /\ Saved \in Seq(Words)
         /\ Saved[1].v = asked.rbx /\ Saved[2].v = asked.rbp
         /\ Saved[3].v = "bmain" /\ Saved[3].w = 8
         /\ SubSeq(Saved, 4, Len(Saved)) = <<>>
<1>1. PICK a \in Values, b \in Values : a = asked.rbx /\ b = asked.rbp
  BY DEF Answers
<1>2. /\ [v |-> a, w |-> 8] \in Words /\ [v |-> b, w |-> 8] \in Words
      /\ [v |-> "bmain", w |-> 8] \in Words
  BY DEF Words
<1>3. PICK s0 \in Seq(Words) : s0 = <<>> /\ Len(s0) = 0
  BY EmptySeq
<1>4. PICK s1 \in Seq(Words) : s1 = Push("bmain", 8, s0)
  BY <1>2, <1>3, PushTop
<1>5. Len(s1) = 1 /\ s1[1] = [v |-> "bmain", w |-> 8]
  <2>1. Len(s1) = Len(s0) + 1 /\ s1[1] = [v |-> "bmain", w |-> 8]
    BY <1>2, <1>4, PushTop, Zenon
  <2> QED
    BY <1>3, <2>1
<1>6. PICK s2 \in Seq(Words) : s2 = Push(b, 8, s1)
  BY <1>2, <1>4, PushTop
<1>7. Len(s2) = 2 /\ s2[1] = [v |-> b, w |-> 8] /\ s2[2] = s1[1]
  <2>1. Len(s2) = Len(s1) + 1 /\ s2[1] = [v |-> b, w |-> 8]
    BY <1>2, <1>6, PushTop, Zenon
  <2>2. \A n \in 1..Len(s1) : s2[n + 1] = s1[n]
    BY <1>2, <1>6, PushBelow, Zenon
  <2>3. s2[1 + 1] = s1[1]
    BY <2>2, <1>5
  <2> QED
    BY <2>3, <1>5, <2>1
<1>8. PICK s3 \in Seq(Words) : s3 = Push(a, 8, s2)
  BY <1>2, <1>6, PushTop
<1>9. Len(s3) = 3 /\ s3[1] = [v |-> a, w |-> 8] /\ s3[2] = s2[1] /\ s3[3] = s2[2]
  <2>1. Len(s3) = Len(s2) + 1 /\ s3[1] = [v |-> a, w |-> 8]
    BY <1>2, <1>8, PushTop, Zenon
  <2>2. \A n \in 1..Len(s2) : s3[n + 1] = s2[n]
    BY <1>2, <1>8, PushBelow, Zenon
  <2>3. s3[1 + 1] = s2[1] /\ s3[2 + 1] = s2[2]
    BY <2>2, <1>7
  <2> QED
    BY <2>3, <1>7, <2>1
<1>10. SubSeq(s3, 4, Len(s3)) = <<>>
  BY <1>9
<1>11. Saved = s3
  BY <1>1, <1>3, <1>4, <1>6, <1>8, Zenon DEF Saved
<1>12. s3[1].v = a
  <2>1. s3[1] = [v |-> a, w |-> 8]
    BY <1>9, Zenon
  <2> QED
    BY <2>1, WordParts
<1>13. s3[2].v = b
  <2>1. s3[2] = [v |-> b, w |-> 8]
    BY <1>7, <1>9, Zenon
  <2> QED
    BY <2>1, WordParts
<1>14. s3[3].v = "bmain" /\ s3[3].w = 8
  <2>1. s3[3] = [v |-> "bmain", w |-> 8]
    BY <1>5, <1>7, <1>9, Zenon
  <2> QED
    BY <2>1, WordParts
<1> QED
  BY <1>1, <1>8, <1>10, <1>11, <1>12, <1>13, <1>14, Zenon

\* The two words the MBR pushes, and what is left when they are taken
\* (mbr.S:58-62,77-79).
LEMMA FoundFacts ==
  ASSUME NEW p \in Partitions, NEW s, s = Push(p, 2, Push(drive, 2, <<>>))
  PROVE  /\ s[1].v = p /\ s[2].v = drive
         /\ SubSeq(s, 3, Len(s)) = <<>>
<1>1. [v |-> p, w |-> 2] \in Words /\ [v |-> drive, w |-> 2] \in Words
  BY DEF Words
<1>2. PICK s0 \in Seq(Words) : s0 = <<>> /\ Len(s0) = 0
  BY EmptySeq
<1>3. PICK s1 \in Seq(Words) : s1 = Push(drive, 2, s0)
  BY <1>1, <1>2, PushTop
<1>4. Len(s1) = 1 /\ s1[1] = [v |-> drive, w |-> 2]
  <2>1. Len(s1) = Len(s0) + 1 /\ s1[1] = [v |-> drive, w |-> 2]
    BY <1>1, <1>3, PushTop, Zenon
  <2> QED
    BY <1>2, <2>1
<1>5. PICK s2 \in Seq(Words) : s2 = Push(p, 2, s1)
  BY <1>1, <1>3, PushTop
<1>6. Len(s2) = 2 /\ s2[1] = [v |-> p, w |-> 2] /\ s2[2] = s1[1]
  <2>1. Len(s2) = Len(s1) + 1 /\ s2[1] = [v |-> p, w |-> 2]
    BY <1>1, <1>5, PushTop, Zenon
  <2>2. \A n \in 1..Len(s1) : s2[n + 1] = s1[n]
    BY <1>1, <1>5, PushBelow, Zenon
  <2>3. s2[1 + 1] = s1[1]
    BY <2>2, <1>4
  <2> QED
    BY <2>3, <1>4, <2>1
<1>7. SubSeq(s2, 3, Len(s2)) = <<>>
  BY <1>6
<1>8. s = s2
  BY <1>2, <1>3, <1>5, Zenon
<1>9. s2[1].v = p
  <2>1. s2[1] = [v |-> p, w |-> 2]
    BY <1>6, Zenon
  <2> QED
    BY <2>1, WordParts
<1>10. s2[2].v = drive
  <2>1. s2[2] = [v |-> drive, w |-> 2]
    BY <1>4, <1>6, Zenon
  <2> QED
    BY <2>1, WordParts
<1> QED
  BY <1>7, <1>8, <1>9, <1>10, Zenon

\* A switch replaces the address it returns to by the same one of its own
\* width, and its end takes it (mode_long.S:36-40,68, mode_real.S:38-41,72).
LEMMA SlotFacts ==
  ASSUME NEW v \in {"start64", "bmain", "real", "done"}, NEW w \in {2, 8}, NEW u \in {2, 8},
         NEW s \in Seq(Words)
  PROVE  /\ Push(v, w, s)[1].v = v /\ Push(v, w, s)[1].w = w
         /\ Push(Push(v, w, s)[1].v, u, Tail(Push(v, w, s))) = Push(v, u, s)
         /\ Tail(Push(v, w, s)) = s
<1>1. [v |-> v, w |-> w] \in Words
  BY DEF Words
<1>2. Push(v, w, s)[1] = [v |-> v, w |-> w] /\ Tail(Push(v, w, s)) = s
  BY <1>1, PushTop, Zenon
<1>3. Push(v, w, s)[1].v = v
  BY <1>2, WordParts, Zenon
<1>4. Push(v, w, s)[1].w = w
  BY <1>2, WordParts, Zenon
<1> QED
  BY <1>2, <1>3, <1>4, Zenon

----------------------------------------------------------------------------
(* The initial state, then the steps in the order the code takes them *)

\* Every machine starts in real mode, before any of the loader ran.
LEMMA InitCpu == Init => CpuInv
<1> SUFFICES ASSUME Init PROVE CpuInv
  OBVIOUS
<1>1. Modes
  BY DEF Init, Modes, Early, Later, Code64
<1>2. Loaded
  BY DEF Init, Loaded, Later
<1>3. StackShape
  BY DEF Init, StackShape
<1>4. Answers
  BY DEF Init, Answers
<1> QED
  BY <1>1, <1>2, <1>3, <1>4 DEF Init, CpuInv, Early

\* What bios_call left does not move while the caller's registers are remembered.
LEMMA SavedKept == asked' = asked => Saved' = Saved
  BY DEF Saved

\* The empty stack is one.
LEMMA NothingPushed == <<>> \in Seq(Words)
  BY EmptySeq

\* The MBR leaves the first bootable partition and the drive on the stack (mbr.S:48-61).
LEMMA MbrKeeps == CpuInv /\ Mbr => CpuInv'
<1> SUFFICES ASSUME CpuInv, Mbr PROVE CpuInv'
  OBVIOUS
<1>1. Modes'
  BY DEF CpuInv, Modes, Early, Later, Code64, Mbr, callvars
<1>2. Loaded'
  BY DEF CpuInv, Loaded, First, Later, Mbr, callvars
<1>3. StackShape'
  <2>1. CASE pc' = "halt"
    BY <2>1 DEF StackShape
  <2>2. ASSUME NEW p \in Partitions, stack' = Push(p, 2, Push(dl, 2, <<>>)), si' = p,
               pc' = "found"
        PROVE  StackShape'
    <3>1. dl = drive
      BY DEF CpuInv, Loaded, Mbr
    <3>2. stack' = Push(si', 2, Push(drive, 2, <<>>))
      BY <2>2, <3>1, Zenon
    <3> QED
      BY <2>2, <3>2 DEF StackShape
  <2> QED
    BY <2>1, <2>2 DEF Mbr
<1>4. Answers'
  BY DEF CpuInv, Answers, Early, Mbr, callvars
<1> QED
  BY <1>1, <1>2, <1>3, <1>4 DEF CpuInv, Early, Later, Mbr, callvars

\* It hands over what it pushed; after a failed read it jumps to what is not the
\* partition's VBR (mbr.S:70-81).
LEMMA MbrLoadKeeps == CpuInv /\ MbrLoad => CpuInv'
<1> SUFFICES ASSUME CpuInv, MbrLoad PROVE CpuInv'
  OBVIOUS
<1>0. si \in Partitions /\ si' = si /\ dl' = drive /\ stack' = <<>>
  <2>1. PICK p \in Partitions : p = si
    BY DEF CpuInv, Loaded, MbrLoad
  <2>2. stack = Push(p, 2, Push(drive, 2, <<>>))
    <3>1. stack = Push(si, 2, Push(drive, 2, <<>>))
      BY DEF CpuInv, StackShape, MbrLoad
    <3> QED
      BY <2>1, <3>1, Zenon
  <2>3. PICK s : s = stack
    OBVIOUS
  <2>4. s[1].v = p /\ s[2].v = drive /\ SubSeq(s, 3, Len(s)) = <<>>
    BY <2>2, <2>3, FoundFacts, Zenon
  <2>5. si' = s[1].v /\ dl' = s[2].v /\ stack' = SubSeq(s, 3, Len(s))
    BY <2>3, Zenon DEF MbrLoad, HandOver
  <2> QED
    BY <2>1, <2>4, <2>5, Zenon
<1>1. Modes'
  BY <1>0 DEF CpuInv, Modes, Early, Later, Code64, MbrLoad, callvars
<1>2. Loaded'
  <2>1. /\ image \in [vbr : 0..4, rest : 0..5] /\ image.rest = 0 /\ First(si)
        /\ UNCHANGED <<active, record, disk>>
    BY DEF CpuInv, Loaded, MbrLoad
  <2>2. First(si)'
    BY <1>0, <2>1 DEF First
  <2>3. CASE pc' = "vbr"  /\ image' = [image EXCEPT !.vbr = si]
    <3>1. image' \in [vbr : 0..4, rest : 0..5] /\ image'.rest = 0 /\ image'.vbr = si
      <4>1. PICK q \in 0..4 : q = si
        BY <1>0 DEF Partitions
      <4>2. PICK old \in [vbr : 0..4, rest : 0..5] : old = image
        BY <2>1
      <4>3. PICK new : new = [old EXCEPT !.vbr = q]
        OBVIOUS
      <4>4. new \in [vbr : 0..4, rest : 0..5] /\ new.rest = old.rest /\ new.vbr = q
        BY <4>3
      <4>5. image' = new
        BY <2>3, <4>1, <4>2, <4>3, Zenon
      <4> QED
        BY <2>1, <4>1, <4>2, <4>4, <4>5, Zenon
    <3> QED
      BY <1>0, <2>2, <2>3, <3>1 DEF Loaded, Later
  <2>4. CASE pc' = "wild" /\ image' = [image EXCEPT !.vbr = 0]
    BY <1>0, <2>1, <2>4 DEF Loaded, Later
  <2>5. CASE pc' = "mbr" /\ UNCHANGED image
    BY <1>0, <2>1, <2>5 DEF Loaded, Later
  <2> QED
    BY <2>3, <2>4, <2>5 DEF MbrLoad
<1>3. StackShape'
  <2>1. pc' \in {"vbr", "wild", "mbr"}
    BY DEF MbrLoad
  <2> QED
    BY <1>0, <2>1 DEF StackShape
<1>4. Answers'
  BY <1>0 DEF CpuInv, Answers, Early, MbrLoad, callvars
<1> QED
  BY <1>1, <1>2, <1>3, <1>4, <1>0 DEF CpuInv, Early, Later, MbrLoad, callvars

\* The VBR keeps what it was handed and loads the rest, or a part of it, or jumps to
\* what it did not load (_start.S:38-55).
LEMMA VbrKeeps == CpuInv /\ Vbr => CpuInv'
<1> SUFFICES ASSUME CpuInv, Vbr PROVE CpuInv'
  OBVIOUS
<1>1. Modes'
  BY DEF CpuInv, Modes, Early, Later, Code64, Vbr, callvars
<1>2. Loaded'
  <2>1. image'.vbr = image.vbr /\ image' \in [vbr : 0..4, rest : 0..5]
        /\ (pc' = "wild" => image'.rest = 0) /\ (pc' = "a20" => image'.rest \in {si, Part})
    BY DEF CpuInv, Loaded, First, Partitions, Part, Vbr
  <2> QED
    BY <2>1 DEF CpuInv, Loaded, First, Later, Vbr, callvars
<1>3. StackShape'
  BY DEF CpuInv, StackShape, Entering, Saved, Vbr, callvars
<1>4. Answers'
  BY DEF CpuInv, Answers, Early, Vbr, callvars
<1> QED
  BY <1>1, <1>2, <1>3, <1>4 DEF CpuInv, Early, Later, Vbr, callvars

\* The A20 gate is a matter of its own (a20.S).
LEMMA EnableA20Keeps == CpuInv /\ EnableA20 => CpuInv'
<1> SUFFICES ASSUME CpuInv, EnableA20 PROVE CpuInv'
  OBVIOUS
<1>1. Modes'
  BY DEF CpuInv, Modes, Early, Later, Code64, EnableA20, modevars, diskvars, callvars
<1>2. Loaded'
  BY DEF CpuInv, Loaded, First, Later, EnableA20, modevars, diskvars, callvars
<1>3. StackShape'
  BY DEF CpuInv, StackShape, Entering, Saved, EnableA20, modevars, diskvars, callvars
<1>4. Answers'
  BY DEF CpuInv, Answers, Early, EnableA20, modevars, diskvars, callvars
<1> QED
  BY <1>1, <1>2, <1>3, <1>4 DEF CpuInv, Early, Later, EnableA20, modevars, diskvars, callvars

\* The page tables are there before paging is turned on (paging.S).
LEMMA BootstrapPagingKeeps == CpuInv /\ BootstrapPaging => CpuInv'
<1> SUFFICES ASSUME CpuInv, BootstrapPaging PROVE CpuInv'
  OBVIOUS
<1>1. Modes'
  BY DEF CpuInv, Modes, Early, Later, Code64, BootstrapPaging, diskvars, callvars
<1>2. Loaded'
  BY DEF CpuInv, Loaded, First, Later, BootstrapPaging, diskvars, callvars
<1>3. StackShape'
  BY DEF CpuInv, StackShape, Entering, Saved, BootstrapPaging, diskvars, callvars
<1>4. Answers'
  BY DEF CpuInv, Answers, Early, BootstrapPaging, diskvars, callvars
<1> QED
  BY <1>1, <1>2, <1>3, <1>4 DEF CpuInv, Early, Later, BootstrapPaging, diskvars, callvars

\* PAE and the long mode bit, then the first switch (_start.S).
LEMMA PrepareLongKeeps == CpuInv /\ PrepareLong => CpuInv'
<1> SUFFICES ASSUME CpuInv, PrepareLong PROVE CpuInv'
  OBVIOUS
<1>1. Modes'
  BY DEF CpuInv, Modes, Early, Later, Code64, PrepareLong, LongModeBit, diskvars, callvars
<1>2. Loaded'
  BY DEF CpuInv, Loaded, First, Later, PrepareLong, LongModeBit, diskvars, callvars
<1>3. StackShape'
  <2>1. stack' = Push("start64", 2, stack) /\ UNCHANGED <<ret, cf>> /\ pc' = "switch_mode_long"
    BY DEF PrepareLong, callvars
  <2>2. stack = <<>> /\ ret = cf
    BY DEF CpuInv, StackShape, Answers, Early, PrepareLong
  <2>3. stack' = Push("start64", 2, <<>>) /\ ret' = cf'
    BY <2>1, <2>2, Zenon
  <2>4. Entering(2)'
    BY <2>3, Zenon DEF Entering
  <2> QED
    BY <2>1, <2>4 DEF StackShape
<1>4. Answers'
  BY DEF CpuInv, Answers, Early, PrepareLong, LongModeBit, diskvars, callvars
<1> QED
  BY <1>1, <1>2, <1>3, <1>4 DEF CpuInv, Early, Later, PrepareLong, LongModeBit, diskvars, callvars

\* The switch to long mode widens its return address, and no interrupt is taken
\* from here on (mode_long.S:36-48).
LEMMA switch_mode_longKeeps == CpuInv /\ switch_mode_long => CpuInv'
<1> SUFFICES ASSUME CpuInv, switch_mode_long PROVE CpuInv'
  OBVIOUS
<1>0. Entering(8)'
  <2>1. /\ stack' = Push(stack[1].v, 8, Tail(stack)) /\ Saved' = Saved
        /\ UNCHANGED <<ret, cf>>
    BY SavedKept DEF switch_mode_long, ReturnSlot, callvars
  <2>2. CASE stack = Push("start64", 2, <<>>) /\ ret = cf
    <3>1. Push(stack[1].v, 8, Tail(stack)) = Push("start64", 8, <<>>)
      BY <2>2, SlotFacts, NothingPushed
    <3> QED
      BY <2>1, <2>2, <3>1, Zenon DEF Entering
  <2>3. CASE stack = Push("done", 2, Saved)
    <3>1. PICK s \in Seq(Words) : s = Saved
      BY SavedFacts DEF CpuInv
    <3>2. Push(Push("done", 2, s)[1].v, 8, Tail(Push("done", 2, s))) = Push("done", 8, s)
      BY SlotFacts
    <3>3. stack' = Push("done", 8, s)
      BY <2>1, <2>3, <3>1, <3>2, Zenon
    <3> QED
      BY <2>1, <3>1, <3>3, Zenon DEF Entering
  <2>4. Entering(2)
    BY DEF CpuInv, StackShape, switch_mode_long
  <2> QED
    BY <2>2, <2>3, <2>4 DEF Entering
<1>1. Modes'
  BY DEF CpuInv, Modes, Early, Later, Code64, switch_mode_long, Cli, diskvars, callvars
<1>2. Loaded'
  BY DEF CpuInv, Loaded, First, Later, switch_mode_long, Cli, diskvars, callvars
<1>3. StackShape'
  BY <1>0 DEF StackShape, switch_mode_long
<1>4. Answers'
  BY DEF CpuInv, Answers, Early, switch_mode_long, Cli, diskvars, callvars
<1> QED
  BY <1>1, <1>2, <1>3, <1>4 DEF CpuInv, Early, Later, switch_mode_long, Cli, diskvars, callvars

\* The far jump into the 64-bit segment (mode_long.S:51-54).
LEMMA JumpLongKeeps == CpuInv /\ JumpLong => CpuInv'
<1> SUFFICES ASSUME CpuInv, JumpLong PROVE CpuInv'
  OBVIOUS
<1>1. Modes'
  BY DEF CpuInv, Modes, Early, Later, Code64, JumpLong, diskvars, callvars
<1>2. Loaded'
  BY DEF CpuInv, Loaded, First, Later, JumpLong, diskvars, callvars
<1>3. StackShape'
  BY DEF CpuInv, StackShape, Entering, Saved, JumpLong, diskvars, callvars
<1>4. Answers'
  BY DEF CpuInv, Answers, Early, JumpLong, diskvars, callvars
<1> QED
  BY <1>1, <1>2, <1>3, <1>4 DEF CpuInv, Early, Later, JumpLong, diskvars, callvars

\* The switch returns where it was called from (mode_long.S:59-68).
LEMMA LmodeKeeps == CpuInv /\ Lmode => CpuInv'
<1> SUFFICES ASSUME CpuInv, Lmode PROVE CpuInv'
  OBVIOUS
<1>0. \/ pc' = "start64" /\ stack' = <<>> /\ ret = cf
      \/ pc' = "done" /\ stack' = Saved'
  <2>1. Saved' = Saved /\ Entering(8)
    BY SavedKept DEF CpuInv, StackShape, Lmode, callvars
  <2>2. /\ pc' = IF stack[1].w = 8 THEN stack[1].v ELSE "wild"
        /\ stack' = Tail(stack)
    BY DEF Lmode
  <2>3. CASE stack = Push("start64", 8, <<>>) /\ ret = cf
    <3>1. stack[1].v = "start64" /\ stack[1].w = 8 /\ Tail(stack) = <<>>
      BY <2>3, SlotFacts, NothingPushed
    <3> QED
      BY <2>2, <2>3, <3>1, Zenon
  <2>4. CASE stack = Push("done", 8, Saved)
    <3>1. PICK s \in Seq(Words) : s = Saved
      BY SavedFacts DEF CpuInv
    <3>2. PICK t : t = Push("done", 8, s)
      OBVIOUS
    <3>3. t[1].v = "done" /\ t[1].w = 8 /\ Tail(t) = s
      BY <3>2, SlotFacts
    <3>4. stack = t
      BY <2>4, <3>1, <3>2, Zenon
    <3> QED
      BY <2>1, <2>2, <3>1, <3>3, <3>4, Zenon
  <2> QED
    BY <2>1, <2>3, <2>4 DEF Entering
<1>5. /\ pc = "lmode" /\ segs' = "data64"
      /\ UNCHANGED <<pe, pg, pae, lme, cs, gdt, cr3, ifl, a20, opens, diskvars, callvars>>
  BY DEF Lmode
<1>1. Modes'
  BY <1>0, <1>5 DEF CpuInv, Modes, Early, Later, Code64
<1>2. Loaded'
  BY <1>0, <1>5 DEF CpuInv, Loaded, First, Later, diskvars
<1>3. StackShape'
  BY <1>0 DEF StackShape
<1>4. Answers'
  BY <1>0, <1>5 DEF CpuInv, Answers, Early, callvars
<1> QED
  BY <1>0, <1>1, <1>2, <1>3, <1>4 DEF CpuInv, Later

\* Into C code: no BIOS call has been made, so there is no carry to return (_start.S).
LEMMA Start64Keeps == CpuInv /\ Start64 => CpuInv'
<1> SUFFICES ASSUME CpuInv, Start64 PROVE CpuInv'
  OBVIOUS
<1>1. Modes'
  BY DEF CpuInv, Modes, Early, Later, Code64, Start64, modevars, diskvars, callvars
<1>2. Loaded'
  BY DEF CpuInv, Loaded, First, Later, Start64, modevars, diskvars, callvars
<1>3. StackShape'
  BY DEF CpuInv, StackShape, Entering, Saved, Start64, modevars, diskvars, callvars
<1>4. Answers'
  BY DEF CpuInv, Answers, Early, Start64, modevars, diskvars, callvars
<1> QED
  BY <1>1, <1>2, <1>3, <1>4 DEF CpuInv, Early, Later, Start64, modevars, diskvars, callvars

\* bios_call patches the vector and leaves its frame (bios.S:14-28).
LEMMA bios_callKeeps == CpuInv /\ (\E num \in Vectors : bios_call(num)) => CpuInv'
<1> SUFFICES ASSUME CpuInv, NEW num \in Vectors, bios_call(num) PROVE CpuInv'
  OBVIOUS
<1>1. Modes'
  BY DEF CpuInv, Modes, Early, Later, Code64, bios_call, Patched, modevars, diskvars
<1>2. Loaded'
  BY DEF CpuInv, Loaded, First, Later, bios_call, Patched, modevars, diskvars
<1>3. StackShape'
  <2>1. stack' = Push("real", 8, Push(rbx, 8, Push(rbp, 8, Push("bmain", 8, <<>>))))
    <3>1. stack = <<>>
      BY DEF CpuInv, StackShape, bios_call
    <3> QED
      BY <3>1, Zenon DEF bios_call
  <2>2. asked'.rbx = rbx /\ asked'.rbp = rbp
    BY DEF bios_call
  <2>3. stack' = Push("real", 8, Saved')
    BY <2>1, <2>2, Zenon DEF Saved
  <2>4. pc' = "switch_mode_real"
    BY DEF bios_call
  <2> QED
    BY <2>3, <2>4 DEF StackShape
<1>4. Answers'
  BY DEF CpuInv, Answers, Early, bios_call, Patched, modevars, diskvars
<1> QED
  BY <1>1, <1>2, <1>3, <1>4 DEF CpuInv, Early, Later, bios_call, Patched, modevars, diskvars

\* The switch back narrows its return address and enters 16-bit code with paging
\* still on (mode_real.S:37-49).
LEMMA switch_mode_realKeeps == CpuInv /\ switch_mode_real => CpuInv'
<1> SUFFICES ASSUME CpuInv, switch_mode_real PROVE CpuInv'
  OBVIOUS
<1>0. stack' = Push("real", 2, Saved')
  <2>1. stack' = Push(stack[1].v, 2, Tail(stack)) /\ Saved' = Saved
    BY SavedKept DEF switch_mode_real, callvars
  <2>2. stack = Push("real", 8, Saved)
    BY DEF CpuInv, StackShape, switch_mode_real
  <2>3. PICK s \in Seq(Words) : s = Saved
    BY SavedFacts DEF CpuInv
  <2>4. Push(Push("real", 8, s)[1].v, 2, Tail(Push("real", 8, s))) = Push("real", 2, s)
    BY SlotFacts
  <2> QED
    BY <2>1, <2>2, <2>3, <2>4, Zenon
<1>1. Modes'
  BY DEF CpuInv, Modes, Early, Later, Code64, switch_mode_real, diskvars, callvars
<1>2. Loaded'
  BY DEF CpuInv, Loaded, First, Later, switch_mode_real, diskvars, callvars
<1>3. StackShape'
  BY <1>0 DEF StackShape, switch_mode_real
<1>4. Answers'
  BY DEF CpuInv, Answers, Early, switch_mode_real, diskvars, callvars
<1> QED
  BY <1>1, <1>2, <1>3, <1>4 DEF CpuInv, Early, Later, switch_mode_real, diskvars, callvars

\* Protection and paging go off together (mode_real.S:52-67).
LEMMA Pmode16Keeps == CpuInv /\ Pmode16 => CpuInv'
<1> SUFFICES ASSUME CpuInv, Pmode16 PROVE CpuInv'
  OBVIOUS
<1>1. Modes'
  BY DEF CpuInv, Modes, Early, Later, Code64, Pmode16, PagingOff, diskvars, callvars
<1>2. Loaded'
  BY DEF CpuInv, Loaded, First, Later, Pmode16, PagingOff, diskvars, callvars
<1>3. StackShape'
  BY DEF CpuInv, StackShape, Entering, Saved, Pmode16, PagingOff, diskvars, callvars
<1>4. Answers'
  BY DEF CpuInv, Answers, Early, Pmode16, PagingOff, diskvars, callvars
<1> QED
  BY <1>1, <1>2, <1>3, <1>4 DEF CpuInv, Early, Later, Pmode16, PagingOff, diskvars, callvars

\* The switch returns into 16-bit code (mode_real.S:72-82).
LEMMA RmodeKeeps == CpuInv /\ Rmode => CpuInv'
<1> SUFFICES ASSUME CpuInv, Rmode PROVE CpuInv'
  OBVIOUS
<1>0. pc' = "real" /\ stack' = Saved'
  <2>1. stack = Push("real", 2, Saved)
    BY DEF CpuInv, StackShape, Rmode
  <2>2. PICK s \in Seq(Words) : s = Saved
    BY SavedFacts DEF CpuInv
  <2>3. PICK t : t = Push("real", 2, s)
    OBVIOUS
  <2>4. t[1].v = "real" /\ t[1].w = 2 /\ Tail(t) = s
    BY <2>3, SlotFacts
  <2>5. stack = t
    BY <2>1, <2>2, <2>3, Zenon
  <2>6. /\ pc' = IF stack[1].w = 2 THEN stack[1].v ELSE "wild"
        /\ stack' = Tail(stack) /\ Saved' = Saved
    BY SavedKept DEF Rmode, callvars
  <2> QED
    BY <2>2, <2>4, <2>5, <2>6, Zenon
<1>5. /\ pc = "rmode" /\ cs' = "real" /\ segs' = "real"
      /\ UNCHANGED <<pe, pg, pae, lme, gdt, cr3, ifl, a20, opens, diskvars, callvars>>
  BY DEF Rmode
<1>1. Modes'
  BY <1>0, <1>5 DEF CpuInv, Modes, Early, Later, Code64
<1>2. Loaded'
  BY <1>0, <1>5 DEF CpuInv, Loaded, First, Later, diskvars
<1>3. StackShape'
  BY <1>0 DEF StackShape
<1>4. Answers'
  BY <1>0, <1>5 DEF CpuInv, Answers, Early, callvars
<1> QED
  BY <1>0, <1>1, <1>2, <1>3, <1>4 DEF CpuInv, Later

\* The BIOS may change every register and the interrupt flag; the way back is the
\* first switch again (bios.S:43-63).
LEMMA IntCallKeeps == CpuInv /\ IntCall => CpuInv'
<1> SUFFICES ASSUME CpuInv, IntCall PROVE CpuInv'
  OBVIOUS
<1>1. Modes'
  BY DEF CpuInv, Modes, Early, Later, Code64, IntCall, diskvars
<1>2. Loaded'
  BY DEF CpuInv, Loaded, First, Later, IntCall, diskvars
<1>3. StackShape'
  BY DEF CpuInv, StackShape, Entering, Saved, IntCall, diskvars
<1>4. Answers'
  BY DEF CpuInv, Answers, Early, IntCall, diskvars
<1> QED
  BY <1>1, <1>2, <1>3, <1>4 DEF CpuInv, Early, Later, IntCall, diskvars

\* bios_call takes back what it pushed (bios.S:66-74).
LEMMA BiosReturns ==
  ASSUME CpuInv, BiosReturn
  PROVE  pc' = "bmain" /\ stack' = <<>> /\ rbx' = asked.rbx /\ rbp' = asked.rbp
<1>1. stack = Saved
  BY DEF CpuInv, StackShape, BiosReturn
<1>2. /\ Saved[1].v = asked.rbx /\ Saved[2].v = asked.rbp
      /\ Saved[3].v = "bmain" /\ Saved[3].w = 8
      /\ SubSeq(Saved, 4, Len(Saved)) = <<>>
  BY SavedFacts, Zenon DEF CpuInv
<1>3. /\ pc' = IF stack[3].w = 8 THEN stack[3].v ELSE "wild"
      /\ stack' = SubSeq(stack, 4, Len(stack))
      /\ rbx' = stack[1].v /\ rbp' = stack[2].v
  BY DEF BiosReturn, Restore
<1> QED
  BY <1>1, <1>2, <1>3, Zenon

\* bios_call returns the carry to a caller whose stack is as it was (bios.S:66-74).
LEMMA BiosReturnKeeps == CpuInv /\ BiosReturn => CpuInv'
<1> SUFFICES ASSUME CpuInv, BiosReturn PROVE CpuInv'
  OBVIOUS
<1>0. pc' = "bmain" /\ stack' = <<>> /\ rbx' = asked.rbx /\ rbp' = asked.rbp
  BY BiosReturns
<1>5. /\ pc = "done" /\ ret' = cf
      /\ UNCHANGED <<modevars, a20, opens, diskvars, int_call, cf, asked, calls>>
  BY DEF BiosReturn
<1>1. Modes'
  BY <1>0, <1>5 DEF CpuInv, Modes, Early, Later, Code64, modevars
<1>2. Loaded'
  BY <1>0, <1>5 DEF CpuInv, Loaded, First, Later, diskvars
<1>3. StackShape'
  BY <1>0 DEF StackShape
<1>4. Answers'
  BY <1>0, <1>5 DEF CpuInv, Answers, Early
<1> QED
  BY <1>0, <1>1, <1>2, <1>3, <1>4 DEF CpuInv, Later

\* C code uses its registers (main.c).
LEMMA ComputeKeeps == CpuInv /\ Compute => CpuInv'
<1> SUFFICES ASSUME CpuInv, Compute PROVE CpuInv'
  OBVIOUS
<1>1. Modes'
  BY DEF CpuInv, Modes, Early, Later, Code64, Compute, modevars, diskvars
<1>2. Loaded'
  BY DEF CpuInv, Loaded, First, Later, Compute, modevars, diskvars
<1>3. StackShape'
  BY DEF CpuInv, StackShape, Entering, Saved, Compute, modevars, diskvars
<1>4. Answers'
  BY DEF CpuInv, Answers, Early, Compute, modevars, diskvars
<1> QED
  BY <1>1, <1>2, <1>3, <1>4 DEF CpuInv, Early, Later, Compute, modevars, diskvars

\* A disk with no bootable partition, or a jump to what is not the loader, ends it
\* (mbr.S:83-88).
LEMMA StoppedKeeps == CpuInv /\ Stopped => CpuInv'
<1> SUFFICES ASSUME CpuInv, Stopped PROVE CpuInv'
  OBVIOUS
<1>1. Modes'
  BY DEF CpuInv, Modes, Early, Later, Code64, Stopped, vars, modevars, diskvars, callvars
<1>2. Loaded'
  BY DEF CpuInv, Loaded, First, Later, Stopped, vars, modevars, diskvars, callvars
<1>3. StackShape'
  BY DEF CpuInv, StackShape, Entering, Saved, Stopped, vars, modevars, diskvars, callvars
<1>4. Answers'
  BY DEF CpuInv, Answers, Early, Stopped, vars, modevars, diskvars, callvars
<1> QED
  BY <1>1, <1>2, <1>3, <1>4 DEF CpuInv, Early, Later, Stopped, vars, modevars, diskvars, callvars

\* A step that changes nothing.
LEMMA StutterKeeps == CpuInv /\ UNCHANGED vars => CpuInv'
  BY DEF CpuInv, Modes, Loaded, First, StackShape, Entering, Saved, Answers, Early, vars, modevars,
         diskvars, callvars

\* Every step keeps the invariant.
LEMMA NextCpu == CpuInv /\ [Next]_vars => CpuInv'
<1> SUFFICES ASSUME CpuInv, [Next]_vars PROVE CpuInv'
  OBVIOUS
<1> QED
  BY MbrKeeps, MbrLoadKeeps, VbrKeeps, EnableA20Keeps, BootstrapPagingKeeps, PrepareLongKeeps,
     switch_mode_longKeeps, JumpLongKeeps, LmodeKeeps, Start64Keeps, bios_callKeeps,
     switch_mode_realKeeps, Pmode16Keeps, RmodeKeeps, IntCallKeeps, BiosReturnKeeps,
     ComputeKeeps, StoppedKeeps, StutterKeeps, Zenon DEF Next

----------------------------------------------------------------------------
(* The theorems *)

\* What is true of the processor, of the memory it runs from and of the stack
\* at every label of the loader (_start.S, mode_long.S, mode_real.S, bios.S).
THEOREM CpuInvariant == Spec => []CpuInv
<1> QED
  BY InitCpu, NextCpu, PTL DEF Spec

\* The loader's code never runs in a mode that does not exist or is not its
\* own, and no interrupt can be taken outside real mode (mode_long.S:42-54,
\* mode_real.S:44-67, bios.S:45).
THEOREM ModesNeverMixed == Spec => []ModeSane
<1>1. CpuInv => ModeSane
  BY DEF CpuInv, Modes, ModeSane, Early, Later, Code64, Code16, None
<1> QED
  BY <1>1, CpuInvariant, PTL

\* However many BIOS calls are made, C code finds its stack as it left it
\* (mode_long.S:36-40, mode_real.S:38-41, bios.S:14-74).
THEOREM BiosCallsReturn == Spec => []CallsBalanced
<1>1. CpuInv => CallsBalanced
  BY DEF CpuInv, Loaded, StackShape, Answers, Early, CallsBalanced
<1> QED
  BY <1>1, CpuInvariant, PTL

\* C code has its image from the first bootable partition, of the drive the BIOS
\* booted from, whatever the MBR's table says, and all of it unless the second
\* read failed (mbr.S:48-81, _start.S:38-55).
THEOREM BootsFirstPartition == Spec => []RightPartition
<1>1. CpuInv => RightPartition
  BY DEF CpuInv, Loaded, Later, First, RightPartition, Partitions
<1> QED
  BY <1>1, CpuInvariant, PTL

\* bios_call preserves RBX and RBP for its C caller (bios.S:15-18,69-71).
THEOREM CallerKeepsRegisters == Spec => RegistersKept
<1>1. CpuInv /\ [Next]_vars =>
        [(pc = "done" /\ pc' = "bmain") => rbx' = asked.rbx /\ rbp' = asked.rbp]_vars
  <2> SUFFICES ASSUME CpuInv, Next, pc = "done", pc' = "bmain"
               PROVE  rbx' = asked.rbx /\ rbp' = asked.rbp
    OBVIOUS
  <2>1. BiosReturn
    BY DEF Next, Mbr, MbrLoad, Vbr, EnableA20, BootstrapPaging, PrepareLong, switch_mode_long,
           JumpLong, Lmode, Start64, bios_call, switch_mode_real, Pmode16, Rmode, IntCall,
           Compute, Stopped
  <2> QED
    BY <2>1, BiosReturns
<1> QED
  BY <1>1, CpuInvariant, PTL DEF Spec, RegistersKept
=============================================================================
