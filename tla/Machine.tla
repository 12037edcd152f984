------------------------------ MODULE Machine -------------------------------
(***************************************************************************)
(* The hardware the kernel sets up: the descriptor tables (arch/x86/gdt.c, *)
(* GDT.S, interrupts.c), the two interrupt controllers (pic.c), the        *)
(* interval timer (timer.c) and the system call registers (syscall.c).     *)
(*                                                                         *)
(* One record h holds it all; an operator with the name of a C function    *)
(* gives the machine after that function.  What the chips and the          *)
(* processor do with what they are given is external to the repository.    *)
(***************************************************************************)
EXTENDS Integers, Sequences, SequencesExt

X86_SEL_CODE0 == 8
X86_SEL_DATA0 == 16
X86_SEL_CODE3 == 24
X86_SEL_DATA3 == 32
X86_SEL_TSS   == 48

X86_INT_TIMER == 32
X86_PIC_TIMER == 0
IRQ == 0..15 \ {2}          \* line 2 of the first chip is the second chip

Bit(v, n) == (v \div 2^n) % 2 = 1
----------------------------------------------------------------------------
(* An interrupt controller: after an ICW1 the data port takes ICW2 (the    *)
(* offset), ICW3 (the wiring) and ICW4; at any other time it is the mask.  *)
Chip == [next |-> 0, offset |-> 0, wiring |-> 0, x86 |-> FALSE, imr |-> 255, isr |-> {}]

PicCommand(c, v) ==
  IF Bit(v, 4) THEN [c EXCEPT !.next = 2, !.imr = 0, !.isr = {}, !.x86 = FALSE]
  ELSE [c EXCEPT !.isr = {i \in @ : \E j \in @ : j < i}]

PicData(c, v) ==
  CASE c.next = 2 -> [c EXCEPT !.offset = v, !.next = 3]
    [] c.next = 3 -> [c EXCEPT !.wiring = v, !.next = 4]
    [] c.next = 4 -> [c EXCEPT !.x86 = Bit(v, 0), !.next = 0]
    [] OTHER      -> [c EXCEPT !.imr = v]

(* Channel 0 of the timer: a command stops it until both halves of a       *)
(* divider have been written, the low one first.                           *)
Pit == [half |-> "none", lo |-> 0, divider |-> 0, ticks |-> TRUE]

PitData(t, v) ==
  IF t.half = "hi" THEN [t EXCEPT !.half = "lo", !.divider = t.lo + 256 * v, !.ticks = TRUE]
  ELSE [t EXCEPT !.half = "hi", !.lo = v]

(* out8 *)
out8(h, port, v) ==
  CASE port = "PIC1_COMMAND" -> [h EXCEPT !.pic1 = PicCommand(@, v)]
    [] port = "PIC2_COMMAND" -> [h EXCEPT !.pic2 = PicCommand(@, v)]
    [] port = "PIC1_DATA"    -> [h EXCEPT !.pic1 = PicData(@, v)]
    [] port = "PIC2_DATA"    -> [h EXCEPT !.pic2 = PicData(@, v)]
    [] port = "TIMER_CMD"    -> [h EXCEPT !.pit.half = "lo", !.pit.ticks = FALSE]
    [] port = "TIMER_DATA0"  -> [h EXCEPT !.pit = PitData(@, v)]

\* the same write to both controllers
Commands(h, v) == out8(out8(h, "PIC1_COMMAND", v), "PIC2_COMMAND", v)
Data(h, v, w)  == out8(out8(h, "PIC1_DATA", v), "PIC2_DATA", w)

pic_init(h) ==
  LET started == Commands(h, 17)             \* ICW1_INIT | ICW1_ICW4
      offsets == Data(started, 32, 40)       \* X86_INT_OFFSET_PIC
      wired   == Data(offsets, 4, 2)
      moded   == Data(wired, 1, 1)           \* ICW4_8086
  IN Data(moded, 251, 255)                   \* the masks

(* pic_enable, for a line of the first chip: read, clear the bit, write back *)
pic_enable(h, i) ==
  LET v == h.pic1.imr IN out8(h, "PIC1_DATA", IF Bit(v, i) THEN v - 2^i ELSE v)

\* The controllers pass line i to the processor: it is unmasked, nothing of
\* its priority or above is in service; the second chip goes through line 2.
Pending(h, i) ==
  LET c == IF i < 8 THEN h.pic1 ELSE h.pic2
  IN /\ ~Bit(c.imr, i % 8)
     /\ i >= 8 => ~Bit(h.pic1.imr, 2)
     /\ \A j \in h.pic1.isr : (IF i < 8 THEN i ELSE 2) < j
     /\ i = X86_PIC_TIMER => h.pit.ticks

Vector(h, i) == IF i < 8 THEN h.pic1.offset + i ELSE h.pic2.offset + i - 8

Acknowledged(h, i) == [h EXCEPT !.pic1.isr = @ \cup {IF i < 8 THEN i ELSE 2}]

(* The divider of timer_ns, ns * 1000000000 / 1193182 in 16 bits, three    *)
(* digits of the long division at a time                                   *)
Digits(a) == [q |-> (1000 * a.q + (1000 * a.r) \div 1193182) % 2^16,
              r |-> (1000 * a.r) % 1193182]

Divider(ns) == Digits(Digits(Digits([q |-> ns \div 1193182, r |-> ns % 1193182]))).q

(* timer_ns *)
timer_ns(h, ns) ==
  LET d == Divider(ns)
  IN pic_enable(out8(out8(out8(h, "TIMER_CMD", 52), "TIMER_DATA0", d % 256),
                     "TIMER_DATA0", d \div 256), X86_PIC_TIMER)
----------------------------------------------------------------------------
(* The descriptor table, its size in memory and the limit the CPU was given *)
gdt_add_segment(h, slot, code, priv) ==
  [h EXCEPT !.gdt[slot] = [kind |-> IF code THEN "code" ELSE "data", ring |-> priv],
            !.gdtSize = Max({@, slot + 7})]

gdt_add_tss(h, slot) ==
  [h EXCEPT !.gdt[slot] = [kind |-> "tss", ring |-> 0],
            !.gdtSize = Max({@, slot + 15})]

gdt_reload(h) == [h EXCEPT !.gdtr = h.gdtSize]

\* The CPU finds at selector sel a descriptor of that kind, whole.
Loadable(h, sel, kind, ring) ==
  /\ h.gdt[sel] = [kind |-> kind, ring |-> ring]
  /\ sel + (IF kind = "tss" THEN 15 ELSE 7) <= h.gdtr

\* Loading a selector that is not leaves the machine in a fault for ever.
Load(h, sel, kind, ring) == [h EXCEPT !.fault = @ \/ ~Loadable(h, sel, kind, ring)]

\* iretq loads CS and SS
Far(h, cs, ss, ring) ==
  [h EXCEPT !.fault = @ \/ ~(Loadable(h, cs, "code", ring) /\ Loadable(h, ss, "data", ring))]

(* enable_gdt: lgdt, iretq to the new CS and SS, then the data segments *)
enable_gdt(h, code_seg, data_seg) == Far(gdt_reload(h), code_seg, data_seg, 0)

(* gdt_init *)
gdt_init(h) ==
  enable_gdt(gdt_add_segment(gdt_add_segment(gdt_add_segment(gdt_add_segment(h,
               X86_SEL_CODE0, TRUE, 0), X86_SEL_DATA0, FALSE, 0),
               X86_SEL_CODE3, TRUE, 3), X86_SEL_DATA3, FALSE, 3),
             X86_SEL_CODE0, X86_SEL_DATA0)

(* idt_init: lidt *)
idt_init(h) == [h EXCEPT !.idtr = TRUE]

(* idt_set_gate_interrupt: a present gate to X86_SEL_CODE0, then lidt *)
idt_set_gate_interrupt(h, interrupt, handler) ==
  [idt_init(h) EXCEPT !.idt = [v \in DOMAIN @ \cup {interrupt} |->
                                 IF v = interrupt THEN handler ELSE @[v]]]

(* sys_init: SFMASK, LSTAR and STAR, and SYSCALL enabled *)
sys_init(h) ==
  [h EXCEPT !.sfmask_if = TRUE, !.lstar = "x86_sys_handler", !.sce = TRUE]

\* mutant: the task register is loaded before the new limit
thread_init_late(h) ==
  gdt_reload(Load(gdt_add_tss([h EXCEPT !.rsp0 = TRUE], X86_SEL_TSS),
                  X86_SEL_TSS, "tss", 0))

(* thread_init's part: the TSS with the kernel's stack, and ltr *)
thread_init(h) ==
  Load(gdt_reload(gdt_add_tss([h EXCEPT !.rsp0 = TRUE], X86_SEL_TSS)),
       X86_SEL_TSS, "tss", 0)
----------------------------------------------------------------------------
(* What the boot loader leaves: the BIOS's set-up of the chips, its timer  *)
(* ticking, a table of descriptors of its own, and interrupts off.         *)
PoweredOn ==
  [pic1 |-> [Chip EXCEPT !.offset = 8, !.imr = 184], pic2 |-> [Chip EXCEPT !.offset = 112, !.imr = 143],
   pit |-> Pit,
   gdt |-> [slot \in {8 * n : n \in 0..7} |-> [kind |-> "none", ring |-> 0]],
   gdtSize |-> 7, gdtr |-> 0, idt |-> <<>>, idtr |-> FALSE,
   rsp0 |-> FALSE, sfmask_if |-> FALSE, lstar |-> "none", sce |-> FALSE, fault |-> FALSE]
=============================================================================
