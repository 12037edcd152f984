--------------------------- MODULE MachineProofs ----------------------------
(***************************************************************************)
(* Proof that the kernel never faults for want of what its start sets up:  *)
(* the tables and chips hold what user mode and the timer need before      *)
(* either can happen, and keep it.                                         *)
(***************************************************************************)
EXTENDS SchedProofs

\* The machine is a record of exactly these fields, a chip one of those.
Whole(h) ==
  h = [pic1 |-> h.pic1, pic2 |-> h.pic2, pit |-> h.pit, gdt |-> h.gdt, gdtSize |-> h.gdtSize,
       gdtr |-> h.gdtr, idt |-> h.idt, idtr |-> h.idtr, rsp0 |-> h.rsp0,
       sfmask_if |-> h.sfmask_if, lstar |-> h.lstar, sce |-> h.sce, fault |-> h.fault]

WholeChip(c) ==
  c = [next |-> c.next, offset |-> c.offset, wiring |-> c.wiring, x86 |-> c.x86,
       imr |-> c.imr, isr |-> c.isr]

\* No fault has happened, and there is a stack for an interrupt in user mode.
NoFault(h) == h.fault = FALSE
Stack(h)   == h.rsp0 = TRUE

Slots == {8 * n : n \in 0..7}
Descriptors == [kind : {"none", "code", "data", "tss"}, ring : 0..3]

\* The two machines differ in their chips and the timer only.
SameTables(h, k) ==
  /\ k.gdt = h.gdt /\ k.gdtSize = h.gdtSize /\ k.gdtr = h.gdtr /\ k.idt = h.idt
  /\ k.idtr = h.idtr /\ k.rsp0 = h.rsp0 /\ k.sfmask_if = h.sfmask_if
  /\ k.lstar = h.lstar /\ k.sce = h.sce /\ k.fault = h.fault

SameChips(h, k) == k.pic1 = h.pic1 /\ k.pic2 = h.pic2 /\ k.pit = h.pit

\* A write to a port of a controller, or of the timer, reaches that chip only.
LEMMA OutPort ==
  ASSUME NEW h, Whole(h), NEW v
  PROVE  /\ LET k == out8(h, "PIC1_COMMAND", v) IN
              Whole(k) /\ SameTables(h, k) /\ k.pic1 = PicCommand(h.pic1, v) /\ k.pic2 = h.pic2
         /\ LET k == out8(h, "PIC2_COMMAND", v) IN
              Whole(k) /\ SameTables(h, k) /\ k.pic2 = PicCommand(h.pic2, v) /\ k.pic1 = h.pic1
         /\ LET k == out8(h, "PIC1_DATA", v) IN
              Whole(k) /\ SameTables(h, k) /\ k.pic1 = PicData(h.pic1, v) /\ k.pic2 = h.pic2
         /\ LET k == out8(h, "PIC2_DATA", v) IN
              Whole(k) /\ SameTables(h, k) /\ k.pic2 = PicData(h.pic2, v) /\ k.pic1 = h.pic1
         /\ LET k == out8(h, "TIMER_CMD", v) IN
              Whole(k) /\ SameTables(h, k) /\ k.pic1 = h.pic1 /\ k.pic2 = h.pic2
         /\ LET k == out8(h, "TIMER_DATA0", v) IN
              Whole(k) /\ SameTables(h, k) /\ k.pic1 = h.pic1 /\ k.pic2 = h.pic2
<1>1. out8(h, "PIC1_COMMAND", v) = [h EXCEPT !.pic1 = PicCommand(@, v)]
  BY DEF out8
<1>2. out8(h, "PIC2_COMMAND", v) = [h EXCEPT !.pic2 = PicCommand(@, v)]
  BY DEF out8
<1>3. out8(h, "PIC1_DATA", v) = [h EXCEPT !.pic1 = PicData(@, v)]
  BY DEF out8
<1>4. out8(h, "PIC2_DATA", v) = [h EXCEPT !.pic2 = PicData(@, v)]
  BY DEF out8
<1>5. out8(h, "TIMER_CMD", v) = [h EXCEPT !.pit.half = "lo", !.pit.ticks = FALSE]
  BY DEF out8
<1>6. out8(h, "TIMER_DATA0", v) = [h EXCEPT !.pit = PitData(@, v)]
  BY DEF out8
<1>7. PICK k1, k2, k3, k4, k5, k6 :
         /\ k1 = out8(h, "PIC1_COMMAND", v) /\ k2 = out8(h, "PIC2_COMMAND", v)
         /\ k3 = out8(h, "PIC1_DATA", v) /\ k4 = out8(h, "PIC2_DATA", v)
         /\ k5 = out8(h, "TIMER_CMD", v) /\ k6 = out8(h, "TIMER_DATA0", v)
  OBVIOUS
<1>8. Whole(k1) /\ SameTables(h, k1) /\ k1.pic1 = PicCommand(h.pic1, v) /\ k1.pic2 = h.pic2
  BY <1>1, <1>7 DEF Whole, SameTables
<1>9. Whole(k2) /\ SameTables(h, k2) /\ k2.pic2 = PicCommand(h.pic2, v) /\ k2.pic1 = h.pic1
  BY <1>2, <1>7 DEF Whole, SameTables
<1>10. Whole(k3) /\ SameTables(h, k3) /\ k3.pic1 = PicData(h.pic1, v) /\ k3.pic2 = h.pic2
  BY <1>3, <1>7 DEF Whole, SameTables
<1>11. Whole(k4) /\ SameTables(h, k4) /\ k4.pic2 = PicData(h.pic2, v) /\ k4.pic1 = h.pic1
  BY <1>4, <1>7 DEF Whole, SameTables
<1>12. Whole(k5) /\ SameTables(h, k5) /\ k5.pic1 = h.pic1 /\ k5.pic2 = h.pic2
  BY <1>5, <1>7 DEF Whole, SameTables
<1>13. Whole(k6) /\ SameTables(h, k6) /\ k6.pic1 = h.pic1 /\ k6.pic2 = h.pic2
  BY <1>6, <1>7 DEF Whole, SameTables
<1> QED
  BY <1>7, <1>8, <1>9, <1>10, <1>11, <1>12, <1>13

\* What a chip makes of a word on its data port: the words that follow an
\* ICW1, in their order, or the mask (pic.c:17-45).
LEMMA DataWord ==
  ASSUME NEW c, WholeChip(c), NEW v, NEW k, k = PicData(c, v)
  PROVE  /\ c.next = 2 => WholeChip(k) /\ k.next = 3 /\ k.offset = v /\ k.isr = c.isr
         /\ c.next = 3 => WholeChip(k) /\ k.next = 4 /\ k.offset = c.offset /\ k.isr = c.isr
         /\ c.next = 4 => WholeChip(k) /\ k.next = 0 /\ k.offset = c.offset /\ k.isr = c.isr
         /\ c.next = 0 => /\ WholeChip(k) /\ k.next = 0 /\ k.offset = c.offset /\ k.isr = c.isr
                          /\ k.imr = v
<1>1. ASSUME c.next = 2
      PROVE  WholeChip(k) /\ k.next = 3 /\ k.offset = v /\ k.isr = c.isr
  <2>1. k = [c EXCEPT !.offset = v, !.next = 3]
    BY <1>1 DEF PicData
  <2>2. k = [next |-> 3, offset |-> v, wiring |-> c.wiring, x86 |-> c.x86,
             imr |-> c.imr, isr |-> c.isr]
    BY <2>1 DEF WholeChip
  <2> QED
    BY <2>2 DEF WholeChip
<1>2. ASSUME c.next = 3
      PROVE  WholeChip(k) /\ k.next = 4 /\ k.offset = c.offset /\ k.isr = c.isr
  <2>1. k = [c EXCEPT !.wiring = v, !.next = 4]
    BY <1>2 DEF PicData
  <2>2. k = [next |-> 4, offset |-> c.offset, wiring |-> v, x86 |-> c.x86,
             imr |-> c.imr, isr |-> c.isr]
    BY <2>1 DEF WholeChip
  <2> QED
    BY <2>2 DEF WholeChip
<1>3. ASSUME c.next = 4
      PROVE  WholeChip(k) /\ k.next = 0 /\ k.offset = c.offset /\ k.isr = c.isr
  <2>1. PICK x : x = Bit(v, 0)
    OBVIOUS
  <2>2. k = [c EXCEPT !.x86 = x, !.next = 0]
    BY <1>3, <2>1 DEF PicData
  <2>3. k = [next |-> 0, offset |-> c.offset, wiring |-> c.wiring, x86 |-> x,
             imr |-> c.imr, isr |-> c.isr]
    BY <2>2 DEF WholeChip
  <2> QED
    BY <2>3 DEF WholeChip
<1>4. ASSUME c.next = 0
      PROVE  /\ WholeChip(k) /\ k.next = 0 /\ k.offset = c.offset /\ k.isr = c.isr
             /\ k.imr = v
  <2>1. k = [c EXCEPT !.imr = v]
    BY <1>4 DEF PicData
  <2>2. k = [next |-> 0, offset |-> c.offset, wiring |-> c.wiring, x86 |-> c.x86,
             imr |-> v, isr |-> c.isr]
    BY <1>4, <2>1 DEF WholeChip
  <2> QED
    BY <2>2 DEF WholeChip
<1> QED
  BY <1>1, <1>2, <1>3, <1>4

\* The bits of the words and masks the kernel writes.
LEMMA Bits ==
  /\ Bit(17, 4) /\ ~Bit(32, 4) /\ Bit(251, 0) /\ ~Bit(250, 0) /\ 251 - 2^0 = 250
  /\ \A j \in 0..7 : Bit(255, j)
  /\ \A j \in (0..7) \ {0, 2} : Bit(250, j)
  /\ \A j \in (0..7) \ {2} : Bit(251, j)
<1>1. 2^0 = 1 /\ 2^1 = 2 /\ 2^2 = 4 /\ 2^3 = 8 /\ 2^4 = 16 /\ 2^5 = 32 /\ 2^6 = 64 /\ 2^7 = 128
  OBVIOUS
<1>2. /\ (17 \div 16) % 2 = 1 /\ (32 \div 16) % 2 = 0 /\ (251 \div 1) % 2 = 1
      /\ (250 \div 1) % 2 = 0
  OBVIOUS
<1>3. Bit(17, 4) /\ ~Bit(32, 4) /\ Bit(251, 0) /\ ~Bit(250, 0) /\ 251 - 2^0 = 250
  BY <1>1, <1>2 DEF Bit
<1>4. \A j \in 0..7 : j = 0 \/ j = 1 \/ j = 2 \/ j = 3 \/ j = 4 \/ j = 5 \/ j = 6 \/ j = 7
  OBVIOUS
<1>5. /\ (255 \div 1) % 2 = 1 /\ (255 \div 2) % 2 = 1 /\ (255 \div 4) % 2 = 1
      /\ (255 \div 8) % 2 = 1 /\ (255 \div 16) % 2 = 1 /\ (255 \div 32) % 2 = 1
      /\ (255 \div 64) % 2 = 1 /\ (255 \div 128) % 2 = 1
  OBVIOUS
<1>6. /\ (250 \div 2) % 2 = 1 /\ (250 \div 8) % 2 = 1 /\ (250 \div 16) % 2 = 1
      /\ (250 \div 32) % 2 = 1 /\ (250 \div 64) % 2 = 1 /\ (250 \div 128) % 2 = 1
  OBVIOUS
<1>7. /\ (251 \div 2) % 2 = 1 /\ (251 \div 8) % 2 = 1 /\ (251 \div 16) % 2 = 1
      /\ (251 \div 32) % 2 = 1 /\ (251 \div 64) % 2 = 1 /\ (251 \div 128) % 2 = 1
  OBVIOUS
<1>8. \A j \in 0..7 : Bit(255, j)
  <2>1. /\ Bit(255, 0) /\ Bit(255, 1) /\ Bit(255, 2) /\ Bit(255, 3)
        /\ Bit(255, 4) /\ Bit(255, 5) /\ Bit(255, 6) /\ Bit(255, 7)
    BY <1>1, <1>5 DEF Bit
  <2> QED
    BY <1>4, <2>1
<1>9. \A j \in (0..7) \ {0, 2} : Bit(250, j)
  <2>1. /\ Bit(250, 1) /\ Bit(250, 3)
        /\ Bit(250, 4) /\ Bit(250, 5) /\ Bit(250, 6) /\ Bit(250, 7)
    BY <1>1, <1>6 DEF Bit
  <2> QED
    BY <1>4, <2>1
<1>10. \A j \in (0..7) \ {2} : Bit(251, j)
  <2>1. /\ Bit(251, 0) /\ Bit(251, 1) /\ Bit(251, 3)
        /\ Bit(251, 4) /\ Bit(251, 5) /\ Bit(251, 6) /\ Bit(251, 7)
    BY <1>1, <1>2, <1>7 DEF Bit
  <2> QED
    BY <1>4, <2>1
<1> QED
  BY <1>3, <1>8, <1>9, <1>10

\* ICW1 starts an initialisation: what was in service is forgotten.
LEMMA CommandWord ==
  ASSUME NEW c, WholeChip(c), NEW k, k = PicCommand(c, 17)
  PROVE  WholeChip(k) /\ k.next = 2 /\ k.isr = {}
<1>1. k = [c EXCEPT !.next = 2, !.imr = 0, !.isr = {}, !.x86 = FALSE]
  BY Bits DEF PicCommand
<1>2. k = [next |-> 2, offset |-> c.offset, wiring |-> c.wiring, x86 |-> FALSE,
           imr |-> 0, isr |-> {}]
  BY <1>1 DEF WholeChip
<1> QED
  BY <1>2 DEF WholeChip

\* pic_init leaves both chips with their offset and mask and nothing in
\* service (pic.c:17-45).
LEMMA PicInitChips ==
  ASSUME NEW h, Whole(h), WholeChip(h.pic1), WholeChip(h.pic2), NEW k, k = pic_init(h)
  PROVE  /\ Whole(k) /\ SameTables(h, k) /\ WholeChip(k.pic1) /\ WholeChip(k.pic2)
         /\ k.pic1.next = 0 /\ k.pic1.offset = 32 /\ k.pic1.imr = 251 /\ k.pic1.isr = {}
         /\ k.pic2.imr = 255
<1>1. ASSUME NEW g, Whole(g), NEW v, NEW m, m = Commands(g, v)
      PROVE  /\ Whole(m) /\ SameTables(g, m)
             /\ m.pic1 = PicCommand(g.pic1, v) /\ m.pic2 = PicCommand(g.pic2, v)
  <2>1. PICK n : n = out8(g, "PIC1_COMMAND", v)
    OBVIOUS
  <2>2. Whole(n) /\ SameTables(g, n) /\ n.pic1 = PicCommand(g.pic1, v) /\ n.pic2 = g.pic2
    BY <1>1, <2>1, OutPort
  <2>3. m = out8(n, "PIC2_COMMAND", v)
    BY <1>1, <2>1 DEF Commands
  <2>4. Whole(m) /\ SameTables(n, m) /\ m.pic2 = PicCommand(n.pic2, v) /\ m.pic1 = n.pic1
    BY <2>2, <2>3, OutPort
  <2> QED
    BY <2>2, <2>4 DEF SameTables
<1>2. ASSUME NEW g, Whole(g), NEW v, NEW w, NEW m, m = Data(g, v, w)
      PROVE  /\ Whole(m) /\ SameTables(g, m)
             /\ m.pic1 = PicData(g.pic1, v) /\ m.pic2 = PicData(g.pic2, w)
  <2>1. PICK n : n = out8(g, "PIC1_DATA", v)
    OBVIOUS
  <2>2. Whole(n) /\ SameTables(g, n) /\ n.pic1 = PicData(g.pic1, v) /\ n.pic2 = g.pic2
    BY <1>2, <2>1, OutPort
  <2>3. m = out8(n, "PIC2_DATA", w)
    BY <1>2, <2>1 DEF Data
  <2>4. Whole(m) /\ SameTables(n, m) /\ m.pic2 = PicData(n.pic2, w) /\ m.pic1 = n.pic1
    BY <2>2, <2>3, OutPort
  <2> QED
    BY <2>2, <2>4 DEF SameTables
<1>3. PICK a : a = Commands(h, 17)
  OBVIOUS
<1>4. PICK b : b = Data(a, 32, 40)
  OBVIOUS
<1>5. PICK c : c = Data(b, 4, 2)
  OBVIOUS
<1>6. PICK d : d = Data(c, 1, 1)
  OBVIOUS
<1>7. k = Data(d, 251, 255)
  BY <1>3, <1>4, <1>5, <1>6 DEF pic_init
<1>8. /\ Whole(a) /\ SameTables(h, a) /\ WholeChip(a.pic1) /\ WholeChip(a.pic2)
      /\ a.pic1.next = 2 /\ a.pic1.isr = {} /\ a.pic2.next = 2
  BY <1>1, <1>3, CommandWord
<1>9. /\ Whole(b) /\ SameTables(a, b) /\ WholeChip(b.pic1) /\ WholeChip(b.pic2)
      /\ b.pic1.next = 3 /\ b.pic1.isr = {} /\ b.pic1.offset = 32 /\ b.pic2.next = 3
  BY <1>2, <1>4, <1>8, DataWord
<1>10. /\ Whole(c) /\ SameTables(b, c) /\ WholeChip(c.pic1) /\ WholeChip(c.pic2)
       /\ c.pic1.next = 4 /\ c.pic1.isr = {} /\ c.pic1.offset = 32 /\ c.pic2.next = 4
  BY <1>2, <1>5, <1>9, DataWord
<1>11. /\ Whole(d) /\ SameTables(c, d) /\ WholeChip(d.pic1) /\ WholeChip(d.pic2)
       /\ d.pic1.next = 0 /\ d.pic1.isr = {} /\ d.pic1.offset = 32 /\ d.pic2.next = 0
  BY <1>2, <1>6, <1>10, DataWord
<1>12. /\ Whole(k) /\ SameTables(d, k) /\ WholeChip(k.pic1) /\ WholeChip(k.pic2)
       /\ k.pic1.next = 0 /\ k.pic1.isr = {} /\ k.pic1.offset = 32
       /\ k.pic1.imr = 251 /\ k.pic2.imr = 255
  BY <1>2, <1>7, <1>11, DataWord
<1> QED
  BY <1>8, <1>9, <1>10, <1>11, <1>12 DEF SameTables
----------------------------------------------------------------------------
\* The larger of two sizes.
LEMMA MaxOfTwo ==
  ASSUME NEW a \in Nat, NEW b \in Nat
  PROVE  Max({a, b}) \in Nat /\ Max({a, b}) >= a /\ Max({a, b}) >= b
<1>1. \E x \in {a, b} : \A y \in {a, b} : x >= y
  <2>1. CASE a >= b
    BY <2>1
  <2>2. CASE ~(a >= b)
    <3>1. b >= a
      BY <2>2
    <3> QED
      BY <3>1
  <2> QED
    BY <2>1, <2>2
<1>2. Max({a, b}) \in {a, b} /\ \A y \in {a, b} : Max({a, b}) >= y
  BY <1>1 DEF Max
<1> QED
  BY <1>2

Added(h, slot, kind, priv, k) ==
  /\ Whole(k) /\ SameChips(h, k) /\ DOMAIN k.gdt = Slots
  /\ k.gdt[slot] = [kind |-> kind, ring |-> priv]
  /\ \A t \in Slots \ {slot} : k.gdt[t] = h.gdt[t]
  /\ k.gdtSize \in Nat /\ k.gdtSize >= slot + 7 /\ k.gdtSize >= h.gdtSize
  /\ k.gdtr = h.gdtr /\ k.fault = h.fault

\* A segment put in the table is there, the others stay, and the size covers it
\* (gdt.c:37-65).
LEMMA AddSegment ==
  ASSUME NEW h, Whole(h), DOMAIN h.gdt = Slots, h.gdtSize \in Nat, NEW slot \in Slots,
         NEW kind, NEW priv, NEW k,
         \/ kind = "code" /\ k = gdt_add_segment(h, slot, TRUE, priv)
         \/ kind = "data" /\ k = gdt_add_segment(h, slot, FALSE, priv)
  PROVE  Added(h, slot, kind, priv, k)
<1>1. PICK d : d = [kind |-> kind, ring |-> priv]
  OBVIOUS
<1>2. PICK n : n = Max({h.gdtSize, slot + 7})
  OBVIOUS
<1>3. slot + 7 \in Nat
  BY DEF Slots
<1>4. n \in Nat /\ n >= slot + 7 /\ n >= h.gdtSize
  BY <1>2, <1>3, MaxOfTwo
<1>5. k = [h EXCEPT !.gdt[slot] = d, !.gdtSize = n]
  BY <1>1, <1>2 DEF gdt_add_segment
<1>6. PICK g : g = [h.gdt EXCEPT ![slot] = d]
  OBVIOUS
<1>7. k = [pic1 |-> h.pic1, pic2 |-> h.pic2, pit |-> h.pit, gdt |-> g, gdtSize |-> n,
           gdtr |-> h.gdtr, idt |-> h.idt, idtr |-> h.idtr, rsp0 |-> h.rsp0,
           sfmask_if |-> h.sfmask_if, lstar |-> h.lstar, sce |-> h.sce, fault |-> h.fault]
  BY <1>5, <1>6 DEF Whole
<1>8. DOMAIN g = Slots /\ g[slot] = d /\ \A t \in Slots \ {slot} : g[t] = h.gdt[t]
  BY <1>6
<1>9. Whole(k) /\ k.gdt = g /\ k.gdtSize = n /\ k.gdtr = h.gdtr /\ k.fault = h.fault
  BY <1>7 DEF Whole
<1>10. SameChips(h, k)
  BY <1>7 DEF SameChips
<1> QED
  BY <1>1, <1>4, <1>8, <1>9, <1>10 DEF Added

\* The segments of the kernel and of user mode, within the limit the CPU has.
Segments(h) ==
  /\ DOMAIN h.gdt = Slots /\ h.gdtSize \in Nat /\ h.gdtSize >= 39
  /\ h.gdtr \in Nat /\ h.gdtr >= 39
  /\ h.gdt[8] = [kind |-> "code", ring |-> 0] /\ h.gdt[16] = [kind |-> "data", ring |-> 0]
  /\ h.gdt[24] = [kind |-> "code", ring |-> 3] /\ h.gdt[32] = [kind |-> "data", ring |-> 3]

\* Loading selectors that name descriptors of the right kind changes nothing
\* (GDT.S, proc.S:7-44).
LEMMA FarLoads ==
  ASSUME NEW h, Whole(h), NoFault(h), Segments(h)
  PROVE  /\ Far(h, X86_SEL_CODE0, X86_SEL_DATA0, 0) = h
         /\ Far(h, X86_SEL_CODE3, X86_SEL_DATA3, 3) = h
         /\ Loadable(h, X86_SEL_CODE0, "code", 0)
<1>1. /\ Loadable(h, X86_SEL_CODE0, "code", 0) /\ Loadable(h, X86_SEL_DATA0, "data", 0)
      /\ Loadable(h, X86_SEL_CODE3, "code", 3) /\ Loadable(h, X86_SEL_DATA3, "data", 3)
  BY DEF Segments, Loadable, X86_SEL_CODE0, X86_SEL_DATA0, X86_SEL_CODE3, X86_SEL_DATA3
<1>2. [h EXCEPT !.fault = FALSE] = h
  BY DEF Whole, NoFault
<1>3. /\ Far(h, X86_SEL_CODE0, X86_SEL_DATA0, 0) = [h EXCEPT !.fault = FALSE]
      /\ Far(h, X86_SEL_CODE3, X86_SEL_DATA3, 3) = [h EXCEPT !.fault = FALSE]
  BY <1>1 DEF Far, NoFault
<1> QED
  BY <1>1, <1>2, <1>3

\* gdt_init leaves the four segments loaded and no fault (gdt.c:86-113).
LEMMA GdtInitSegments ==
  ASSUME NEW h, Whole(h), NoFault(h), DOMAIN h.gdt = Slots, h.gdtSize \in Nat,
         NEW k, k = gdt_init(h)
  PROVE  Whole(k) /\ SameChips(h, k) /\ NoFault(k) /\ Segments(k)
<1>0. 8 \in Slots /\ 16 \in Slots /\ 24 \in Slots /\ 32 \in Slots
  <2>1. 8 = 8 * 1 /\ 16 = 8 * 2 /\ 24 = 8 * 3 /\ 32 = 8 * 4
    OBVIOUS
  <2> QED
    BY <2>1 DEF Slots
<1>1. PICK a : a = gdt_add_segment(h, 8, TRUE, 0)
  OBVIOUS
<1>2. PICK b : b = gdt_add_segment(a, 16, FALSE, 0)
  OBVIOUS
<1>3. PICK c : c = gdt_add_segment(b, 24, TRUE, 3)
  OBVIOUS
<1>4. PICK d : d = gdt_add_segment(c, 32, FALSE, 3)
  OBVIOUS
<1>5. PICK e : e = gdt_reload(d)
  OBVIOUS
<1>6. k = Far(e, X86_SEL_CODE0, X86_SEL_DATA0, 0)
  BY <1>1, <1>2, <1>3, <1>4, <1>5
     DEF gdt_init, enable_gdt, X86_SEL_CODE0, X86_SEL_DATA0, X86_SEL_CODE3, X86_SEL_DATA3
<1>7. /\ Whole(a) /\ SameChips(h, a) /\ DOMAIN a.gdt = Slots /\ a.gdtSize \in Nat
      /\ a.gdt[8] = [kind |-> "code", ring |-> 0] /\ NoFault(a)
  <2>1. Added(h, 8, "code", 0, a)
    BY <1>0, <1>1, AddSegment, Zenon
  <2> QED
    BY <2>1 DEF Added, NoFault
<1>8. /\ Whole(b) /\ SameChips(a, b) /\ DOMAIN b.gdt = Slots /\ b.gdtSize \in Nat
      /\ b.gdt[16] = [kind |-> "data", ring |-> 0] /\ b.gdt[8] = a.gdt[8] /\ NoFault(b)
  <2>1. Added(a, 16, "data", 0, b)
    BY <1>0, <1>2, <1>7, AddSegment, Zenon
  <2> QED
    BY <1>0, <1>7, <2>1 DEF Added, NoFault
<1>9. /\ Whole(c) /\ SameChips(b, c) /\ DOMAIN c.gdt = Slots /\ c.gdtSize \in Nat
      /\ c.gdt[24] = [kind |-> "code", ring |-> 3]
      /\ c.gdt[8] = b.gdt[8] /\ c.gdt[16] = b.gdt[16] /\ NoFault(c)
  <2>1. Added(b, 24, "code", 3, c)
    BY <1>0, <1>3, <1>8, AddSegment, Zenon
  <2> QED
    BY <1>0, <1>8, <2>1 DEF Added, NoFault
<1>10. /\ Whole(d) /\ SameChips(c, d) /\ DOMAIN d.gdt = Slots /\ d.gdtSize \in Nat
       /\ d.gdtSize >= 39 /\ d.gdt[32] = [kind |-> "data", ring |-> 3]
       /\ d.gdt[8] = c.gdt[8] /\ d.gdt[16] = c.gdt[16] /\ d.gdt[24] = c.gdt[24]
       /\ NoFault(d)
  <2>1. Added(c, 32, "data", 3, d)
    BY <1>0, <1>4, <1>9, AddSegment, Zenon
  <2> QED
    BY <1>0, <1>9, <2>1 DEF Added, NoFault
<1>11. Whole(e) /\ SameChips(d, e) /\ NoFault(e)
       /\ e.gdt = d.gdt /\ e.gdtSize = d.gdtSize /\ e.gdtr = d.gdtSize
  BY <1>5, <1>10 DEF gdt_reload, Whole, SameChips, NoFault
<1>12. Segments(e)
  BY <1>7, <1>8, <1>9, <1>10, <1>11 DEF Segments
<1>13. k = e
  BY <1>6, <1>11, <1>12, FarLoads
<1> QED
  BY <1>7, <1>8, <1>9, <1>10, <1>11, <1>12, <1>13 DEF SameChips

\* thread_init loads the task register after the table was given its new
\* limit, so the load finds the TSS whole (thread.c:3-18, gdt.c:67-84).
LEMMA ThreadInitLoads ==
  ASSUME NEW h, Whole(h), NoFault(h), Segments(h), NEW k, k = thread_init(h)
  PROVE  /\ Whole(k) /\ SameChips(h, k) /\ NoFault(k) /\ Segments(k) /\ Stack(k)
         /\ k.idt = h.idt /\ k.idtr = h.idtr
         /\ k.sfmask_if = h.sfmask_if /\ k.lstar = h.lstar /\ k.sce = h.sce
<1>0. 48 \in Slots /\ 48 # 8 /\ 48 # 16 /\ 48 # 24 /\ 48 # 32
  <2>1. 48 = 8 * 6
    OBVIOUS
  <2> QED
    BY <2>1 DEF Slots
<1>1. PICK d : d = [kind |-> "tss", ring |-> 0]
  OBVIOUS
<1>2. PICK n : n = Max({h.gdtSize, 48 + 15})
  OBVIOUS
<1>3. n \in Nat /\ n >= 63 /\ n >= h.gdtSize
  <2>1. n = Max({h.gdtSize, 63}) /\ h.gdtSize \in Nat
    BY <1>2 DEF Segments
  <2>2. 63 \in Nat
    OBVIOUS
  <2> QED
    BY <2>1, <2>2, MaxOfTwo, Zenon
<1>4. PICK g : g = [h.gdt EXCEPT ![48] = d]
  OBVIOUS
<1>5. PICK t : t = [h EXCEPT !.rsp0 = TRUE]
  OBVIOUS
<1>6. t = [pic1 |-> h.pic1, pic2 |-> h.pic2, pit |-> h.pit, gdt |-> h.gdt, gdtSize |-> h.gdtSize,
           gdtr |-> h.gdtr, idt |-> h.idt, idtr |-> h.idtr, rsp0 |-> TRUE,
           sfmask_if |-> h.sfmask_if, lstar |-> h.lstar, sce |-> h.sce, fault |-> h.fault]
  BY <1>5 DEF Whole
<1>7. PICK u : u = gdt_add_tss(t, 48)
  OBVIOUS
<1>8. u = [t EXCEPT !.gdt[48] = d, !.gdtSize = n]
  BY <1>1, <1>2, <1>6, <1>7 DEF gdt_add_tss
<1>9. u = [pic1 |-> h.pic1, pic2 |-> h.pic2, pit |-> h.pit, gdt |-> g, gdtSize |-> n,
           gdtr |-> h.gdtr, idt |-> h.idt, idtr |-> h.idtr, rsp0 |-> TRUE,
           sfmask_if |-> h.sfmask_if, lstar |-> h.lstar, sce |-> h.sce, fault |-> h.fault]
  BY <1>4, <1>6, <1>8
<1>10. PICK w : w = gdt_reload(u)
  OBVIOUS
<1>11. w = [pic1 |-> h.pic1, pic2 |-> h.pic2, pit |-> h.pit, gdt |-> g, gdtSize |-> n,
            gdtr |-> n, idt |-> h.idt, idtr |-> h.idtr, rsp0 |-> TRUE,
            sfmask_if |-> h.sfmask_if, lstar |-> h.lstar, sce |-> h.sce, fault |-> h.fault]
  BY <1>9, <1>10 DEF gdt_reload
<1>12. Whole(w) /\ NoFault(w) /\ w.gdt[48] = d /\ w.gdtr >= 63
  BY <1>0, <1>3, <1>4, <1>11 DEF Whole, Segments, NoFault, Stack
<1>13. k = Load(w, 48, "tss", 0)
  BY <1>5, <1>7, <1>10 DEF thread_init, X86_SEL_TSS
<1>14. Loadable(w, 48, "tss", 0)
  BY <1>1, <1>12 DEF Loadable
<1>15. k = w
  <2>1. k = [w EXCEPT !.fault = FALSE]
    BY <1>12, <1>13, <1>14 DEF Load, NoFault
  <2> QED
    BY <1>12, <2>1 DEF Whole, NoFault
<1>16. Segments(w)
  BY <1>0, <1>3, <1>4, <1>11 DEF Segments
<1> QED
  BY <1>11, <1>12, <1>15, <1>16 DEF SameChips, NoFault, Stack

\* timer_ns touches the timer and the mask: the timer's line is open after it
\* (timer.c:5-17, pic.c:47-58).
LEMMA TimerOpens ==
  ASSUME NEW h, Whole(h), WholeChip(h.pic1), h.pic1.next = 0, h.pic1.imr \in {250, 251},
         NEW ns, NEW k, k = timer_ns(h, ns)
  PROVE  /\ Whole(k) /\ SameTables(h, k) /\ k.pic2 = h.pic2 /\ WholeChip(k.pic1)
         /\ k.pic1.next = 0 /\ k.pic1.imr = 250
         /\ k.pic1.offset = h.pic1.offset /\ k.pic1.isr = h.pic1.isr
<1>1. PICK lo, hi : lo = Divider(ns) % 256 /\ hi = Divider(ns) \div 256
  OBVIOUS
<1>2. PICK a : a = out8(h, "TIMER_CMD", 52)
  OBVIOUS
<1>3. PICK b : b = out8(a, "TIMER_DATA0", lo)
  OBVIOUS
<1>4. PICK c : c = out8(b, "TIMER_DATA0", hi)
  OBVIOUS
<1>5. k = pic_enable(c, 0)
  BY <1>1, <1>2, <1>3, <1>4 DEF timer_ns, X86_PIC_TIMER
<1>6. Whole(a) /\ SameTables(h, a) /\ a.pic1 = h.pic1 /\ a.pic2 = h.pic2
  BY <1>2, OutPort
<1>7. Whole(b) /\ SameTables(a, b) /\ b.pic1 = a.pic1 /\ b.pic2 = a.pic2
  BY <1>3, <1>6, OutPort
<1>8. Whole(c) /\ SameTables(b, c) /\ c.pic1 = b.pic1 /\ c.pic2 = b.pic2
  BY <1>4, <1>7, OutPort
<1>9. k = out8(c, "PIC1_DATA", 250)
  <2>1. c.pic1.imr = 250 \/ c.pic1.imr = 251
    BY <1>6, <1>7, <1>8
  <2>2. CASE c.pic1.imr = 250
    BY <1>5, <2>2, Bits DEF pic_enable
  <2>3. CASE c.pic1.imr = 251
    BY <1>5, <2>3, Bits DEF pic_enable
  <2> QED
    BY <2>1, <2>2, <2>3
<1>10. Whole(k) /\ SameTables(c, k) /\ k.pic1 = PicData(c.pic1, 250) /\ k.pic2 = c.pic2
  BY <1>8, <1>9, OutPort
<1>11. /\ WholeChip(k.pic1) /\ k.pic1.next = 0 /\ k.pic1.imr = 250
       /\ k.pic1.offset = c.pic1.offset /\ k.pic1.isr = c.pic1.isr
  <2>1. WholeChip(c.pic1) /\ c.pic1.next = 0
    BY <1>6, <1>7, <1>8
  <2> QED
    BY <1>10, <2>1, DataWord
<1> QED
  BY <1>6, <1>7, <1>8, <1>10, <1>11 DEF SameTables

\* The end of interrupt leaves nothing in service and everything else as it
\* was (pic.c:60-66).
LEMMA EoiEnds ==
  ASSUME NEW h, Whole(h), WholeChip(h.pic1), h.pic1.isr = {},
         NEW k, k = AfterEoi(Acknowledged(h, X86_PIC_TIMER))
  PROVE  /\ Whole(k) /\ SameTables(h, k) /\ k.pic2 = h.pic2 /\ WholeChip(k.pic1)
         /\ k.pic1.next = h.pic1.next /\ k.pic1.imr = h.pic1.imr
         /\ k.pic1.offset = h.pic1.offset /\ k.pic1.isr = {}
<1>1. PICK c : c = [h.pic1 EXCEPT !.isr = {0}]
  OBVIOUS
<1>2. PICK a : a = Acknowledged(h, 0)
  OBVIOUS
<1>3. a = [h EXCEPT !.pic1 = c]
  <2>1. a = [h EXCEPT !.pic1.isr = @ \cup {0}]
    BY <1>2 DEF Acknowledged
  <2>2. h.pic1.isr \cup {0} = {0}
    OBVIOUS
  <2> QED
    BY <1>1, <2>1, <2>2
<1>4. Whole(a) /\ SameTables(h, a) /\ a.pic1 = c /\ a.pic2 = h.pic2
  BY <1>3 DEF Whole, SameTables
<1>5. c = [next |-> h.pic1.next, offset |-> h.pic1.offset, wiring |-> h.pic1.wiring,
           x86 |-> h.pic1.x86, imr |-> h.pic1.imr, isr |-> {0}]
  BY <1>1 DEF WholeChip
<1>6. k = out8(a, "PIC1_COMMAND", 32)
  BY <1>2 DEF AfterEoi, X86_PIC_TIMER
<1>7. Whole(k) /\ SameTables(a, k) /\ k.pic1 = PicCommand(c, 32) /\ k.pic2 = a.pic2
  BY <1>4, <1>6, OutPort
<1>8. k.pic1 = [c EXCEPT !.isr = {}]
  <2>1. {i \in c.isr : \E j \in c.isr : j < i} = {}
    BY <1>5
  <2> QED
    BY <1>7, <2>1, Bits DEF PicCommand
<1>9. k.pic1 = [next |-> h.pic1.next, offset |-> h.pic1.offset, wiring |-> h.pic1.wiring,
                x86 |-> h.pic1.x86, imr |-> h.pic1.imr, isr |-> {}]
  BY <1>5, <1>8
<1> QED
  BY <1>4, <1>7, <1>9 DEF SameTables, WholeChip
----------------------------------------------------------------------------
\* What the machine holds at each stage of the kernel's start, and from then on.
ChipsReady(h) ==
  /\ h.pic1.next = 0 /\ h.pic1.offset = 32 /\ h.pic1.isr = {} /\ h.pic2.imr = 255

TimerGate(h) == h.idtr = TRUE /\ 32 \in DOMAIN h.idt /\ h.idt[32] = "int_timer"

SysReady(h) == h.sfmask_if = TRUE /\ h.lstar = "x86_sys_handler" /\ h.sce = TRUE

MachineInv ==
  /\ Whole(hw) /\ WholeChip(hw.pic1) /\ WholeChip(hw.pic2) /\ NoFault(hw)
  /\ stage = "gdt_init" => DOMAIN hw.gdt = Slots /\ hw.gdtSize \in Nat
  /\ stage # "gdt_init" => Segments(hw)
  /\ stage \notin {"gdt_init", "idt_init", "pic_init"} => ChipsReady(hw)
  /\ stage \in {"sys_init", "thread_init", "schedule", "done"} => TimerGate(hw)
  /\ stage \in {"thread_init", "schedule", "done"} => SysReady(hw)
  /\ stage \in {"schedule", "done"} => Stack(hw)
  /\ stage \in {"gate", "sys_init", "thread_init", "schedule"} \/ mode = "idle"
       => hw.pic1.imr = 251
  /\ mode \in {"user", "sys"} => hw.pic1.imr = 250

\* What the boot loader leaves satisfies it.
LEMMA PoweredOnInv == Init => MachineInv
<1> SUFFICES ASSUME Init PROVE MachineInv
  OBVIOUS
<1>1. hw = PoweredOn /\ stage = "gdt_init" /\ mode = "boot"
  BY DEF Init
<1>2. PICK p1, p2 : /\ p1 = [Chip EXCEPT !.offset = 8, !.imr = 184]
                    /\ p2 = [Chip EXCEPT !.offset = 112, !.imr = 143]
  OBVIOUS
<1>3. WholeChip(p1) /\ WholeChip(p2)
  <2>1. /\ p1 = [next |-> 0, offset |-> 8, wiring |-> 0, x86 |-> FALSE, imr |-> 184, isr |-> {}]
        /\ p2 = [next |-> 0, offset |-> 112, wiring |-> 0, x86 |-> FALSE, imr |-> 143, isr |-> {}]
    BY <1>2 DEF Chip
  <2> QED
    BY <2>1 DEF WholeChip
<1>4. PICK g : g = [slot \in Slots |-> [kind |-> "none", ring |-> 0]]
  OBVIOUS
<1>5. hw = [pic1 |-> p1, pic2 |-> p2, pit |-> Pit, gdt |-> g, gdtSize |-> 7, gdtr |-> 0,
            idt |-> <<>>, idtr |-> FALSE, rsp0 |-> FALSE, sfmask_if |-> FALSE,
            lstar |-> "none", sce |-> FALSE, fault |-> FALSE]
  BY <1>1, <1>2, <1>4 DEF PoweredOn, Slots
<1>6. /\ Whole(hw) /\ NoFault(hw) /\ hw.pic1 = p1 /\ hw.pic2 = p2
      /\ DOMAIN hw.gdt = Slots /\ hw.gdtSize \in Nat
  BY <1>4, <1>5 DEF Whole, NoFault
<1> QED
  BY <1>1, <1>3, <1>6 DEF MachineInv

\* gdt_init comes first and gives the CPU the segments.
LEMMA GdtInitMachine == MachineInv /\ GdtInit => MachineInv'
<1> SUFFICES ASSUME MachineInv, GdtInit PROVE MachineInv'
  OBVIOUS
<1>1. stage = "gdt_init" /\ stage' = "idt_init" /\ hw' = gdt_init(hw) /\ mode' = mode
  BY DEF GdtInit, Call
<1>2. /\ Whole(hw) /\ NoFault(hw) /\ DOMAIN hw.gdt = Slots /\ hw.gdtSize \in Nat
      /\ WholeChip(hw.pic1) /\ WholeChip(hw.pic2)
  BY <1>1 DEF MachineInv
<1>3. PICK k : k = hw'
  OBVIOUS
<1>4. Whole(k) /\ SameChips(hw, k) /\ NoFault(k) /\ Segments(k)
  BY <1>1, <1>2, <1>3, GdtInitSegments
<1> QED
  BY <1>1, <1>2, <1>3, <1>4 DEF MachineInv, SameChips

\* idt_init and pic_init follow; no process runs yet.
LEMMA PicInitMachine == SchedInv /\ MachineInv /\ (IdtInit \/ PicInit) => MachineInv'
<1> SUFFICES ASSUME SchedInv, MachineInv, IdtInit \/ PicInit PROVE MachineInv'
  OBVIOUS
<1>1. CASE IdtInit
  <2>1. stage = "idt_init" /\ stage' = "pic_init" /\ hw' = idt_init(hw) /\ mode' = mode
    BY <1>1 DEF IdtInit, Call
  <2>2. /\ Whole(hw) /\ NoFault(hw) /\ Segments(hw)
        /\ WholeChip(hw.pic1) /\ WholeChip(hw.pic2)
    BY <2>1 DEF MachineInv
  <2>3. PICK k : k = hw'
    OBVIOUS
  <2>4. Whole(k) /\ SameChips(hw, k) /\ NoFault(k) /\ Segments(k)
    BY <2>1, <2>2, <2>3 DEF idt_init, Whole, SameChips, Segments, NoFault
  <2> QED
    BY <2>1, <2>2, <2>3, <2>4 DEF MachineInv, SameChips
<1>2. CASE PicInit
  <2>1. stage = "pic_init" /\ stage' = "gate" /\ hw' = pic_init(hw) /\ mode' = mode
    BY <1>2 DEF PicInit, Call
  <2>2. /\ Whole(hw) /\ NoFault(hw) /\ Segments(hw)
        /\ WholeChip(hw.pic1) /\ WholeChip(hw.pic2) /\ mode = "boot"
    BY <2>1 DEF SchedInv, Modes, MachineInv
  <2>3. PICK k : k = hw'
    OBVIOUS
  <2>4. /\ Whole(k) /\ SameTables(hw, k) /\ WholeChip(k.pic1) /\ WholeChip(k.pic2)
        /\ ChipsReady(k) /\ k.pic1.imr = 251
    BY <2>1, <2>2, <2>3, PicInitChips DEF ChipsReady
  <2>5. NoFault(k) /\ Segments(k)
    BY <2>2, <2>4 DEF SameTables, Segments, NoFault
  <2> QED
    BY <2>1, <2>2, <2>3, <2>4, <2>5 DEF MachineInv
<1> QED
  BY <1>1, <1>2

\* The gate of the timer and the registers of the system call leave the chips
\* and the segments alone.
LEMMA GateMachine == SchedInv /\ MachineInv /\ (Gate \/ SysInit) => MachineInv'
<1> SUFFICES ASSUME SchedInv, MachineInv, Gate \/ SysInit PROVE MachineInv'
  OBVIOUS
<1>1. CASE Gate
  <2>1. /\ stage = "gate" /\ stage' = "sys_init" /\ mode' = mode
        /\ hw' = idt_set_gate_interrupt(hw, X86_INT_TIMER, "int_timer")
    BY <1>1 DEF Gate, Call
  <2>2. /\ Whole(hw) /\ NoFault(hw) /\ Segments(hw) /\ ChipsReady(hw) /\ hw.pic1.imr = 251
        /\ WholeChip(hw.pic1) /\ WholeChip(hw.pic2) /\ mode = "boot"
    BY <2>1 DEF SchedInv, Modes, MachineInv
  <2>3. PICK k : k = hw'
    OBVIOUS
  <2>4. PICK t : t = [v \in DOMAIN hw.idt \cup {32} |-> IF v = 32 THEN "int_timer" ELSE hw.idt[v]]
    OBVIOUS
  <2>5. PICK j : j = idt_init(hw)
    OBVIOUS
  <2>6. Whole(j) /\ SameChips(hw, j) /\ NoFault(j) /\ Segments(j) /\ j.idtr = TRUE /\ j.idt = hw.idt
    BY <2>2, <2>5 DEF idt_init, Whole, SameChips, Segments, NoFault
  <2>7. k = [j EXCEPT !.idt = t]
    BY <2>1, <2>3, <2>4, <2>5, <2>6 DEF idt_set_gate_interrupt, X86_INT_TIMER
  <2>8. Whole(k) /\ SameChips(hw, k) /\ NoFault(k) /\ Segments(k) /\ k.idtr = TRUE /\ k.idt = t
    BY <2>6, <2>7 DEF Whole, SameChips, Segments, NoFault
  <2>9. TimerGate(k)
    BY <2>4, <2>8 DEF TimerGate
  <2> QED
    BY <2>1, <2>2, <2>3, <2>8, <2>9 DEF MachineInv, SameChips, ChipsReady
<1>2. CASE SysInit
  <2>1. stage = "sys_init" /\ stage' = "thread_init" /\ hw' = sys_init(hw) /\ mode' = mode
    BY <1>2 DEF SysInit, Call
  <2>2. /\ Whole(hw) /\ NoFault(hw) /\ Segments(hw) /\ ChipsReady(hw) /\ hw.pic1.imr = 251
        /\ TimerGate(hw) /\ WholeChip(hw.pic1) /\ WholeChip(hw.pic2) /\ mode = "boot"
    BY <2>1 DEF SchedInv, Modes, MachineInv
  <2>3. PICK k : k = hw'
    OBVIOUS
  <2>4. k = [pic1 |-> hw.pic1, pic2 |-> hw.pic2, pit |-> hw.pit, gdt |-> hw.gdt,
             gdtSize |-> hw.gdtSize, gdtr |-> hw.gdtr, idt |-> hw.idt, idtr |-> hw.idtr,
             rsp0 |-> hw.rsp0, sfmask_if |-> TRUE, lstar |-> "x86_sys_handler", sce |-> TRUE,
             fault |-> hw.fault]
    BY <2>1, <2>2, <2>3 DEF sys_init, Whole
  <2>5. Whole(k) /\ SameChips(hw, k) /\ NoFault(k) /\ SysReady(k)
    BY <2>2, <2>4 DEF Whole, SameChips, SysReady, NoFault
  <2>6. Segments(k) /\ TimerGate(k)
    BY <2>2, <2>4 DEF Segments, TimerGate
  <2> QED
    BY <2>1, <2>2, <2>3, <2>5, <2>6 DEF MachineInv, SameChips, ChipsReady
<1> QED
  BY <1>1, <1>2

\* thread_init comes last: after it the machine can take a system call and the
\* timer's interrupt.
LEMMA ThreadInitMachine == SchedInv /\ MachineInv /\ ThreadInit => MachineInv'
<1> SUFFICES ASSUME SchedInv, MachineInv, ThreadInit PROVE MachineInv'
  OBVIOUS
<1>1. stage = "thread_init" /\ stage' = "schedule" /\ hw' = thread_init(hw) /\ mode' = mode
  BY DEF ThreadInit, Call
<1>2. /\ Whole(hw) /\ NoFault(hw) /\ Segments(hw) /\ ChipsReady(hw) /\ hw.pic1.imr = 251
      /\ TimerGate(hw) /\ SysReady(hw) /\ WholeChip(hw.pic1) /\ WholeChip(hw.pic2) /\ mode = "boot"
  BY <1>1 DEF SchedInv, Modes, MachineInv
<1>3. PICK k : k = hw'
  OBVIOUS
<1>4. /\ Whole(k) /\ SameChips(hw, k) /\ NoFault(k) /\ Segments(k) /\ Stack(k)
      /\ k.idt = hw.idt /\ k.idtr = hw.idtr
      /\ k.sfmask_if = hw.sfmask_if /\ k.lstar = hw.lstar /\ k.sce = hw.sce
  BY <1>1, <1>2, <1>3, ThreadInitLoads
<1>5. TimerGate(k) /\ SysReady(k) /\ ChipsReady(k)
  BY <1>2, <1>4 DEF TimerGate, SysReady, ChipsReady, SameChips
<1>6. WholeChip(k.pic1) /\ WholeChip(k.pic2) /\ k.pic1.imr = 251
  BY <1>2, <1>4 DEF SameChips
<1> QED
  BY <1>1, <1>2, <1>3, <1>4, <1>5, <1>6 DEF MachineInv

\* A process is run on a machine whose timer's line is open, and what iretq
\* loads is there (proc.c:155-162, proc.S:7-44).
LEMMA ReturnRuns ==
  ASSUME NEW h, Whole(h), WholeChip(h.pic1), WholeChip(h.pic2), NoFault(h), Segments(h),
         ChipsReady(h), h.pic1.imr \in {250, 251},
         NEW k, k = Return("proc_run", timer_ns(h, 100000))
  PROVE  /\ Whole(k) /\ WholeChip(k.pic1) /\ WholeChip(k.pic2) /\ NoFault(k)
         /\ Segments(k) /\ ChipsReady(k) /\ k.pic1.imr = 250
         /\ k.idt = h.idt /\ k.idtr = h.idtr /\ k.rsp0 = h.rsp0
         /\ k.sfmask_if = h.sfmask_if /\ k.lstar = h.lstar /\ k.sce = h.sce
<1>1. PICK t : t = timer_ns(h, 100000)
  OBVIOUS
<1>2. h.pic1.next = 0
  BY DEF ChipsReady
<1>3. /\ Whole(t) /\ SameTables(h, t) /\ t.pic2 = h.pic2 /\ WholeChip(t.pic1)
      /\ t.pic1.next = 0 /\ t.pic1.imr = 250
      /\ t.pic1.offset = h.pic1.offset /\ t.pic1.isr = h.pic1.isr
  BY <1>1, <1>2, TimerOpens
<1>4. NoFault(t) /\ Segments(t)
  BY <1>3 DEF SameTables, Segments, NoFault
<1>5. k = Far(t, X86_SEL_CODE3, X86_SEL_DATA3, 3)
  BY <1>1 DEF Return
<1>6. k = t
  <2>1. Whole(t) /\ NoFault(t) /\ Segments(t)
    BY <1>3, <1>4
  <2>2. Far(t, X86_SEL_CODE3, X86_SEL_DATA3, 3) = t
    BY <2>1, FarLoads
  <2> QED
    BY <1>5, <2>2
<1>7. ChipsReady(t)
  BY <1>3 DEF ChipsReady
<1> QED
  BY <1>3, <1>4, <1>6, <1>7 DEF SameTables

\* kmain's last step opens the timer's line if a process runs, and leaves it
\* masked if none does.
LEMMA BootStartMachine == SchedInv /\ MachineInv /\ BootStart => MachineInv'
<1> SUFFICES ASSUME SchedInv, MachineInv, BootStart PROVE MachineInv'
  OBVIOUS
<1>1. /\ stage = "schedule" /\ stage' = "done" /\ kern_schedule(buf, saved, run, gs, hw)
      /\ cur = NoProc /\ buf \in Buffers /\ front \in 0..1 /\ index \in 0..Len(buf[front].items)
  BY DEF BootStart, SchedInv, Modes, TypeInv
<1>2. /\ Whole(hw) /\ NoFault(hw) /\ Segments(hw) /\ ChipsReady(hw) /\ hw.pic1.imr = 251
      /\ TimerGate(hw) /\ SysReady(hw) /\ Stack(hw)
      /\ WholeChip(hw.pic1) /\ WholeChip(hw.pic2)
  BY <1>1 DEF MachineInv
<1>3. CASE QueueOf(buf, front, index) # <<>>
  <2>1. cur' \in Procs /\ mode' = "user" /\ hw' = Return(run[cur'], timer_ns(hw, 100000))
    BY <1>1, <1>3, KernSchedule
  <2>2. run[cur'] = "proc_run"
    BY <1>1, <2>1, NoProcApart DEF SchedInv, Kept
  <2>3. PICK k : k = hw'
    OBVIOUS
  <2>4. k = Return("proc_run", timer_ns(hw, 100000))
    BY <2>1, <2>2, <2>3
  <2>5. /\ Whole(k) /\ WholeChip(k.pic1) /\ WholeChip(k.pic2) /\ NoFault(k)
        /\ Segments(k) /\ ChipsReady(k) /\ k.pic1.imr = 250
        /\ k.idt = hw.idt /\ k.idtr = hw.idtr /\ k.rsp0 = hw.rsp0
        /\ k.sfmask_if = hw.sfmask_if /\ k.lstar = hw.lstar /\ k.sce = hw.sce
    BY <1>2, <2>4, ReturnRuns
  <2>6. TimerGate(k) /\ SysReady(k) /\ Stack(k)
    BY <1>2, <2>5 DEF TimerGate, SysReady, Stack
  <2> QED
    BY <1>1, <2>1, <2>3, <2>5, <2>6 DEF MachineInv
<1>4. CASE QueueOf(buf, front, index) = <<>>
  <2>1. mode' = "idle" /\ hw' = hw
    BY <1>1, <1>4, KernSchedule
  <2> QED
    BY <1>1, <1>2, <2>1 DEF MachineInv
<1> QED
  BY <1>3, <1>4

\* A preemption ends its interrupt before it opens the line again.
LEMMA IntTimerMachine == SchedInv /\ MachineInv /\ int_timer => MachineInv'
<1> SUFFICES ASSUME SchedInv, MachineInv, int_timer PROVE MachineInv'
  OBVIOUS
<1>1. PICK h : /\ h = AfterEoi(Acknowledged(hw, X86_PIC_TIMER))
               /\ kern_schedule(Requeued(buf), saved', run', Swap(gs), h)
  BY DEF int_timer
<1>2. /\ mode = "user" /\ stage = "done" /\ stage' = "done" /\ front \in 0..1
      /\ run' = MarkInterrupted /\ saved' = SAVE_CONTEXT
  BY DEF int_timer, bvars, SchedInv, Modes, TypeInv
<1>3. /\ Whole(hw) /\ NoFault(hw) /\ Segments(hw) /\ ChipsReady(hw) /\ hw.pic1.imr = 250
      /\ TimerGate(hw) /\ SysReady(hw) /\ Stack(hw)
      /\ WholeChip(hw.pic1) /\ WholeChip(hw.pic2)
  BY <1>2 DEF MachineInv
<1>4. /\ Whole(h) /\ SameTables(hw, h) /\ h.pic2 = hw.pic2 /\ WholeChip(h.pic1)
      /\ h.pic1.next = hw.pic1.next /\ h.pic1.imr = hw.pic1.imr
      /\ h.pic1.offset = hw.pic1.offset /\ h.pic1.isr = {}
  <2>1. hw.pic1.isr = {}
    BY <1>3 DEF ChipsReady
  <2> QED
    BY <1>1, <1>3, <2>1, EoiEnds
<1>5. NoFault(h) /\ Segments(h) /\ ChipsReady(h) /\ h.pic1.imr \in {250, 251}
  BY <1>3, <1>4 DEF SameTables, Segments, ChipsReady, NoFault
<1>6. /\ cur \in Procs /\ Requeued(buf) \in Buffers
      /\ index \in 0..Len(Requeued(buf)[front].items)
      /\ QueueOf(Requeued(buf), front, index) # <<>>
  BY <1>2, RequeuedQueue
<1>7. cur' \in Procs /\ mode' = "user" /\ hw' = Return(run'[cur'], timer_ns(h, 100000))
  <2>1. PICK b, sv, rn, g : b = Requeued(buf) /\ sv = saved' /\ rn = run' /\ g = Swap(gs)
    OBVIOUS
  <2>2. /\ kern_schedule(b, sv, rn, g, h) /\ b \in Buffers
        /\ index \in 0..Len(b[front].items) /\ QueueOf(b, front, index) # <<>>
    BY <1>1, <1>6, <2>1
  <2>3. cur' \in Procs /\ mode' = "user" /\ hw' = Return(rn[cur'], timer_ns(h, 100000))
    BY <1>2, <2>2, KernSchedule
  <2> QED
    BY <2>1, <2>3
<1>8. run'[cur'] = "proc_run"
  BY <1>2, <1>6, <1>7 DEF MarkInterrupted, SchedInv, TypeInv, Kept
<1>9. PICK k : k = hw'
  OBVIOUS
<1>10. /\ Whole(k) /\ WholeChip(k.pic1) /\ WholeChip(k.pic2) /\ NoFault(k)
       /\ Segments(k) /\ ChipsReady(k) /\ k.pic1.imr = 250
       /\ k.idt = h.idt /\ k.idtr = h.idtr /\ k.rsp0 = h.rsp0
       /\ k.sfmask_if = h.sfmask_if /\ k.lstar = h.lstar /\ k.sce = h.sce
  <2>1. k = Return("proc_run", timer_ns(h, 100000))
    BY <1>7, <1>8, <1>9
  <2>2. WholeChip(h.pic2)
    BY <1>3, <1>4
  <2> QED
    BY <1>4, <1>5, <2>1, <2>2, ReturnRuns
<1>11. TimerGate(k) /\ SysReady(k) /\ Stack(k)
  BY <1>3, <1>4, <1>10 DEF SameTables, TimerGate, SysReady, Stack
<1> QED
  BY <1>2, <1>7, <1>9, <1>10, <1>11 DEF MachineInv

\* User code and system calls leave the machine alone.
LEMMA QuietMachine ==
  ASSUME SchedInv, MachineInv,
         UserStep \/ Syscall \/ SyscallReturn \/ BadSyscall \/ BootSchedule \/ Halted
           \/ UNCHANGED vars
  PROVE  MachineInv'
<1>1. hw' = hw /\ stage' = stage
  BY DEF UserStep, Syscall, SyscallReturn, BadSyscall, BootSchedule, Halted, vars, bvars
<1>2. mode' = mode \/ (mode \in {"user", "sys"} /\ mode' \in {"user", "sys"})
  BY DEF UserStep, Syscall, SyscallReturn, BadSyscall, BootSchedule, Halted, vars
<1> QED
  BY <1>1, <1>2 DEF MachineInv

\* The machine holds what each stage needs, in every state the kernel reaches.
THEOREM MachineInvariant == Spec => [](SchedInv /\ MachineInv)
<1>1. ASSUME SchedInv, MachineInv, [Next]_vars PROVE MachineInv'
  <2>1. CASE GdtInit
    BY <1>1, <2>1, GdtInitMachine
  <2>2. CASE IdtInit \/ PicInit
    BY <1>1, <2>2, PicInitMachine
  <2>3. CASE Gate \/ SysInit
    BY <1>1, <2>3, GateMachine
  <2>4. CASE ThreadInit
    BY <1>1, <2>4, ThreadInitMachine
  <2>5. CASE BootStart
    BY <1>1, <2>5, BootStartMachine
  <2>6. CASE int_timer
    BY <1>1, <2>6, IntTimerMachine
  <2>7. CASE \/ UserStep \/ Syscall \/ SyscallReturn \/ BadSyscall \/ BootSchedule \/ Halted
             \/ UNCHANGED vars
    BY <1>1, <2>7, QuietMachine
  <2> QED
    BY <1>1, <2>1, <2>2, <2>3, <2>4, <2>5, <2>6, <2>7 DEF Next
<1> QED
  BY <1>1, PoweredOnInv, InitInv, NextInv, PTL DEF Spec

\* With the masks of the kernel only the timer's line reaches the processor,
\* and only while a process runs (pic.c:34-58).
LEMMA OnlyTimer ==
  ASSUME NEW i \in IRQ, ChipsReady(hw), Pending(hw, i)
  PROVE  hw.pic1.imr # 251 /\ (hw.pic1.imr = 250 => i = X86_PIC_TIMER /\ Vector(hw, i) = 32)
<1>1. i \in 0..15 /\ i # 2
  BY DEF IRQ
<1>2. CASE i < 8
  <2>1. i % 8 = i /\ i \in 0..7
    BY <1>1, <1>2
  <2>2. ~Bit(hw.pic1.imr, i)
    BY <1>2, <2>1 DEF Pending
  <2>3. hw.pic1.imr # 251
    BY <1>1, <2>1, <2>2, Bits
  <2>4. ASSUME hw.pic1.imr = 250 PROVE i = 0
    BY <1>1, <2>1, <2>2, <2>4, Bits
  <2>5. Vector(hw, i) = 32 + i
    BY <1>2 DEF Vector, ChipsReady
  <2> QED
    BY <2>3, <2>4, <2>5 DEF X86_PIC_TIMER
<1>3. CASE i >= 8
  <2>1. i % 8 \in 0..7 /\ ~(i < 8)
    BY <1>1, <1>3
  <2>2. ~Bit(255, i % 8)
    BY <2>1 DEF Pending, ChipsReady
  <2> QED
    BY <2>1, <2>2, Bits
<1> QED
  BY <1>1, <1>2, <1>3

\* The kernel never faults for want of what its start sets up: in every state
\* the tables hold what the next selector load, system call or interrupt needs,
\* and no interrupt comes while the kernel waits without a process
\* (init.c:9-23, gdt.c:37-113, pic.c:17-45, thread.c:3-18, proc.c:164-173).
THEOREM NeverFaults == Spec => []NoTripleFault
<1>1. ASSUME SchedInv, MachineInv PROVE NoTripleFault
  <2>1. ~hw.fault
    BY <1>1 DEF MachineInv, NoFault
  <2>2. ASSUME mode = "user" PROVE hw.sce /\ hw.lstar = "x86_sys_handler"
    BY <1>1, <2>2 DEF SchedInv, Modes, MachineInv, SysReady
  <2>3. ASSUME InterruptsOn, NEW i \in IRQ, Pending(hw, i)
        PROVE  /\ hw.idtr /\ Vector(hw, i) \in DOMAIN hw.idt
               /\ hw.idt[Vector(hw, i)] = "int_timer" /\ i = X86_PIC_TIMER
               /\ Loadable(hw, X86_SEL_CODE0, "code", 0) /\ hw.rsp0
               /\ mode = "user"
    <3>1. mode \in {"user", "idle", "sys"} /\ stage = "done"
      BY <1>1, <2>3 DEF InterruptsOn, SchedInv, Modes
    <3>2. /\ Whole(hw) /\ NoFault(hw) /\ Segments(hw) /\ ChipsReady(hw) /\ TimerGate(hw)
          /\ SysReady(hw) /\ Stack(hw)
      BY <1>1, <3>1 DEF MachineInv
    <3>3. mode # "sys"
      BY <2>3, <3>2 DEF InterruptsOn, SysReady
    <3>4. mode # "idle"
      BY <1>1, <2>3, <3>2, OnlyTimer DEF MachineInv
    <3>5. mode = "user" /\ hw.pic1.imr = 250
      BY <1>1, <3>1, <3>3, <3>4 DEF MachineInv
    <3>6. i = X86_PIC_TIMER /\ Vector(hw, i) = 32
      BY <2>3, <3>2, <3>5, OnlyTimer
    <3>7. hw.idtr /\ 32 \in DOMAIN hw.idt /\ hw.idt[32] = "int_timer" /\ hw.rsp0
      BY <3>2 DEF TimerGate, Stack
    <3>8. Loadable(hw, X86_SEL_CODE0, "code", 0)
      BY <3>2, FarLoads
    <3> QED
      BY <3>5, <3>6, <3>7, <3>8
  <2> QED
    BY <2>1, <2>2, <2>3 DEF NoTripleFault
<1> QED
  BY <1>1, MachineInvariant, PTL
=============================================================================
