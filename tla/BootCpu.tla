------------------------------ MODULE BootCpu ------------------------------
(***************************************************************************)
(* The processor from the MBR to the boot loader's C code and through its  *)
(* BIOS calls (boot/mbr/mbr.S; boot/bootloader: _start.S, a20.S, paging.S, *)
(* mode_long.S, mode_real.S, bios.S).                                      *)
(*                                                                         *)
(* An action is a run of instructions between two points at which the mode *)
(* of the processor, the stack or the memory the next part depends on can  *)
(* be seen.  A word on the stack is [v, w]: its value and width in bytes.  *)
(***************************************************************************)
EXTENDS Integers, Sequences, FiniteSets

CONSTANTS
  Vectors,  \* BIOS interrupt numbers bios_call is asked for
  Values,   \* contents of a register
  A20Start, \* subset of BOOLEAN: may the gate be open when the MBR runs?
  MaxCalls  \* bound on the BIOS calls of bmain

ASSUME CpuAssumption ==
  /\ Vectors # {} /\ Values # {} /\ MaxCalls \in Nat /\ A20Start \subseteq BOOLEAN

Partitions == 1..4
None  == "none"
Part  == 5          \* image.rest: some of the partition's sectors are missing
drive == 128        \* what the BIOS boots from, in DL

VARIABLES
  pc,                  \* label of the next instruction
  pe, pg, pae, lme,    \* CR0.PE, CR0.PG, CR4.PAE, EFER.LME
  cs, segs, gdt,       \* what CS and the data segments hold, the GDT loaded
  cr3, ifl,            \* page tables, interrupt flag
  a20, opens,          \* the gate; the ways that open it on this machine
  active,              \* partitions marked bootable
  si, dl,              \* registers passed from the MBR to the VBR
  image,               \* [vbr, rest]: the partition's sectors at 0x7c00 and 0x7e00
  record, disk,        \* saved_mbr_record, saved_disk
  stack, rbx, rbp,     \* stack, top first; the registers bios_call keeps
  int_call, cf, ret,   \* the patched vector, saved_bios_cf, bios_call's result
  asked, calls         \* ghosts: the call made and its caller's registers, how many

modevars == <<pe, pg, pae, lme, cs, segs, gdt, cr3, ifl>>
diskvars == <<active, si, dl, image, record, disk>>
callvars == <<rbx, rbp, int_call, cf, ret, asked, calls>>
vars == <<pc, modevars, a20, opens, diskvars, stack, callvars>>

Push(v, w, s) == <<[v |-> v, w |-> w]>> \o s
----------------------------------------------------------------------------
(* the MBR: relocate, find the first bootable partition, load its VBR *)
\* mutant: any bootable partition
FirstAny(p) == active[p]

First(p) == active[p] /\ \A q \in Partitions : q < p => ~active[q]

Mbr ==
  /\ pc = "mbr"
  /\ ifl' \in BOOLEAN /\ segs' = "real" /\ cs' = "real"
  /\ \/ /\ \A p \in Partitions : ~active[p]
        /\ pc' = "halt" /\ UNCHANGED <<stack, si>>
     \/ \E p \in Partitions :
          /\ First(p)
          /\ stack' = Push(p, 2, Push(dl, 2, <<>>))
          /\ si' = p /\ pc' = "found"
  /\ UNCHANGED <<pe, pg, pae, lme, gdt, cr3, a20, opens, active, dl, image, record, disk, callvars>>

\* "Restore dl and si"
HandOver == si' = stack[1].v /\ dl' = stack[2].v

\* A read that fails is not noticed: what is jumped to is part of the VBR, or
\* the MBR itself, which was loaded where the VBR goes.
MbrLoad ==
  /\ pc = "found"
  /\ \/ pc' = "vbr"  /\ image' = [image EXCEPT !.vbr = si]
     \/ pc' = "wild" /\ image' = [image EXCEPT !.vbr = 0]
     \/ pc' = "mbr"  /\ UNCHANGED image
  /\ HandOver
  /\ ifl' \in BOOLEAN /\ stack' = SubSeq(stack, 3, Len(stack))
  /\ UNCHANGED <<pe, pg, pae, lme, cs, segs, gdt, cr3, a20, opens, active, record, disk, callvars>>
----------------------------------------------------------------------------
(* the VBR: save what the MBR passed, load the rest of the boot loader.  A read
   that fails is not noticed either: the code goes on, as far as what was read
   of it reaches, which may be to the end, or jumps to what was not read. *)
Vbr ==
  /\ pc = "vbr"
  /\ ifl' \in BOOLEAN /\ stack' = <<>>
  /\ disk' = dl /\ record' = si
  /\ \/ pc' = "a20"  /\ image' \in {[image EXCEPT !.rest = r] : r \in {record', Part}}
     \/ pc' = "wild" /\ UNCHANGED image
  /\ UNCHANGED <<pe, pg, pae, lme, cs, segs, gdt, cr3, a20, opens, active, si, dl, callvars>>

\* check_a20 compares, and then clears AX with an instruction that sets ZF:
\* the caller finds the flag set whatever the comparison said.
check_a20(gate) == TRUE

Try(way, gate) == gate \/ way \in opens

enable_a20(gate) ==
  IF check_a20(gate) THEN gate
  ELSE IF check_a20(Try("bios", gate)) THEN Try("bios", gate)
  ELSE Try("fast", Try("bios", gate))

EnableA20 ==
  /\ pc = "a20"
  /\ a20' = enable_a20(a20) /\ pc' = "paging"
  /\ UNCHANGED <<modevars, opens, diskvars, stack, callvars>>

\* bootstrap_paging, then CR4 and EFER, then the switch
BootstrapPaging ==
  /\ pc = "paging"
  /\ cr3' = "bootstrap" /\ pc' = "cr4"
  /\ UNCHANGED <<pe, pg, pae, lme, cs, segs, gdt, ifl, a20, opens, diskvars, stack, callvars>>

LongModeBit == TRUE

PrepareLong ==
  /\ pc = "cr4"
  /\ pae' = TRUE /\ lme' = LongModeBit
  /\ stack' = Push("start64", 2, stack) /\ pc' = "switch_mode_long"
  /\ UNCHANGED <<pe, pg, cs, segs, gdt, cr3, ifl, a20, opens, diskvars, callvars>>
----------------------------------------------------------------------------
(* switch_mode_long: called with 2 bytes on the stack, left with 8 *)
\* mutant: interrupts stay as the BIOS left them
CliNot == ifl

Cli == FALSE

\* mutant: the address keeps its 2 bytes
ReturnSlotNarrow == 2

ReturnSlot == 8

switch_mode_long ==
  /\ pc = "switch_mode_long"
  /\ stack' = Push(stack[1].v, ReturnSlot, Tail(stack))
  /\ ifl' = Cli /\ pe' = TRUE /\ pg' = TRUE /\ pc' = "lgdt64"
  /\ UNCHANGED <<pae, lme, cs, segs, gdt, cr3, a20, opens, diskvars, callvars>>

\* lgdt, then the far jump loads CS from it
JumpLong ==
  /\ pc = "lgdt64"
  /\ gdt' = "gdt64" /\ cs' = "code64" /\ pc' = "lmode"
  /\ UNCHANGED <<pe, pg, pae, lme, segs, cr3, ifl, a20, opens, diskvars, stack, callvars>>

\* ret takes 8 bytes
Lmode ==
  /\ pc = "lmode"
  /\ segs' = "data64"
  /\ pc' = IF stack[1].w = 8 THEN stack[1].v ELSE "wild"
  /\ stack' = Tail(stack)
  /\ UNCHANGED <<pe, pg, pae, lme, cs, gdt, cr3, ifl, a20, opens, diskvars, callvars>>

Start64 ==
  /\ pc = "start64"
  /\ pc' = "bmain"
  /\ UNCHANGED <<modevars, a20, opens, diskvars, stack, callvars>>
----------------------------------------------------------------------------
(* bios_call *)
\* "Patch the future BIOS call"
Patched(num) == num

bios_call(num) ==
  /\ pc = "bmain" /\ calls < MaxCalls
  /\ calls' = calls + 1 /\ asked' = [num |-> num, rbx |-> rbx, rbp |-> rbp]
  /\ int_call' = Patched(num)
  \* the return address, and RBX and RBP below it, then the call
  /\ stack' = Push("real", 8, Push(rbx, 8, Push(rbp, 8, Push("bmain", 8, stack))))
  /\ pc' = "switch_mode_real"
  /\ UNCHANGED <<modevars, a20, opens, diskvars, rbx, rbp, cf, ret>>

(* switch_mode_real: called with 8 bytes on the stack, left with 2 *)
switch_mode_real ==
  /\ pc = "switch_mode_real"
  /\ stack' = Push(stack[1].v, 2, Tail(stack))
  /\ gdt' = "gdt_real_mode" /\ cs' = "code16" /\ pc' = "pmode16"
  /\ UNCHANGED <<pe, pg, pae, lme, segs, cr3, ifl, a20, opens, diskvars, callvars>>

PagingOff == FALSE

Pmode16 ==
  /\ pc = "pmode16"
  /\ segs' = "data16" /\ pe' = FALSE /\ pg' = PagingOff /\ pc' = "rmode"
  /\ UNCHANGED <<pae, lme, cs, gdt, cr3, ifl, a20, opens, diskvars, stack, callvars>>

Rmode ==
  /\ pc = "rmode"
  /\ cs' = "real" /\ segs' = "real"
  /\ pc' = IF stack[1].w = 2 THEN stack[1].v ELSE "wild"
  /\ stack' = Tail(stack)
  /\ UNCHANGED <<pe, pg, pae, lme, gdt, cr3, ifl, a20, opens, diskvars, callvars>>

\* The BIOS answers: any registers, any carry, and interrupts on or off.
IntCall ==
  /\ pc = "real"
  /\ cf' \in 0..1 /\ rbx' \in Values /\ rbp' \in Values
  /\ ifl' \in BOOLEAN
  /\ stack' = Push("done", 2, stack) /\ pc' = "switch_mode_long"
  /\ UNCHANGED <<pe, pg, pae, lme, cs, segs, gdt, cr3, a20, opens, diskvars, int_call, ret, asked, calls>>

\* mutant: RBX and RBP are taken from each other's place
RestoreSwapped == rbx' = stack[2].v /\ rbp' = stack[1].v

Restore == rbx' = stack[1].v /\ rbp' = stack[2].v

BiosReturn ==
  /\ pc = "done"
  /\ ret' = cf /\ Restore
  /\ pc' = IF stack[3].w = 8 THEN stack[3].v ELSE "wild"
  /\ stack' = SubSeq(stack, 4, Len(stack))
  /\ UNCHANGED <<modevars, a20, opens, diskvars, int_call, cf, asked, calls>>

\* bmain goes on in C, with other values in its registers
Compute ==
  /\ pc = "bmain"
  /\ rbx' \in Values /\ rbp' \in Values
  /\ UNCHANGED <<pc, modevars, a20, opens, diskvars, stack, int_call, cf, ret, asked, calls>>

Stopped == pc \in {"halt", "wild"} /\ UNCHANGED vars
----------------------------------------------------------------------------
Init ==
  /\ pc = "mbr" /\ pe = FALSE /\ pg = FALSE /\ pae = FALSE /\ lme = FALSE
  /\ cs = "real" /\ segs = "bios" /\ gdt = None /\ cr3 = None /\ ifl = TRUE
  /\ a20 \in A20Start /\ opens \in SUBSET {"bios", "fast"}
  /\ active \in [Partitions -> BOOLEAN]
  /\ si = 0 /\ dl = drive /\ image = [vbr |-> 0, rest |-> 0] /\ record = 0 /\ disk = 0
  /\ stack = <<>> /\ rbx \in Values /\ rbp = rbx /\ int_call = 0
  /\ cf = 0 /\ ret = 0 /\ asked = [num |-> 0, rbx |-> rbx, rbp |-> rbp] /\ calls = 0

Next ==
  \/ Mbr \/ MbrLoad \/ Vbr \/ EnableA20 \/ BootstrapPaging \/ PrepareLong
  \/ switch_mode_long \/ JumpLong \/ Lmode \/ Start64
  \/ \E num \in Vectors : bios_call(num)
  \/ switch_mode_real \/ Pmode16 \/ Rmode \/ IntCall \/ BiosReturn
  \/ Compute \/ Stopped

Spec == Init /\ [][Next]_vars
----------------------------------------------------------------------------
Code64 == {"lmode", "start64", "bmain", "switch_mode_real", "done"}
Code16 == {"mbr", "found", "vbr", "a20", "paging", "cr4", "real", "halt"}

\* The processor is never in a mode that does not exist, nor runs code of one
\* width in the mode of another: long mode needs page tables, PAE and LME;
\* C code has 64-bit segments; the BIOS is called in real mode with paging off;
\* and outside real mode, where there is no IDT, no interrupt may be taken,
\* however the BIOS left the flag
\* (mode_long.S:42-54, mode_real.S:44-67, bios.S:45).
ModeSane ==
  /\ pg => pe /\ pae /\ lme /\ cr3 # None
  /\ pc \in Code64 => cs = "code64" /\ pg /\ gdt = "gdt64"
  /\ pc \in Code16 => cs = "real" /\ ~pe /\ ~pg
  /\ pc \in {"bmain", "done"} => segs = "data64"
  /\ pc = "real" => segs = "real"
  /\ pe => ~ifl

\* bios_call comes back to its caller with the stack as it was, although its
\* two switches are called and left with return addresses of different widths
\* (mode_long.S:36-40, mode_real.S:38-41); the BIOS is asked what the caller
\* asks, and its carry flag is the result.
CallsBalanced ==
  /\ pc = "bmain" => stack = <<>> /\ ret = cf
  /\ pc = "real" => int_call = asked.num
  /\ pc = "wild" => 0 \in {image.vbr, image.rest}

\* bios_call gives RBX and RBP back to its caller, whatever the BIOS did (bios.S:15-18,69-71).
RegistersKept ==
  [][(pc = "done" /\ pc' = "bmain") => rbx' = asked.rbx /\ rbp' = asked.rbp]_vars

\* When C code runs, it has been given the first bootable partition and the
\* drive the BIOS booted from, and all of its image comes from that partition,
\* unless the second read failed: C code then runs on a part of its image
\* (mbr.S:49-82, _start.S:38-55).
RightPartition ==
  pc = "bmain" => /\ record \in Partitions /\ active[record] /\ disk = drive
                  /\ \A q \in 1..(record - 1) : ~active[q]
                  /\ image.vbr = record /\ image.rest \in {record, Part}

\* "Enable the A20 gate": after enable_a20 the gate is open on a machine that
\* has a way to open it.
A20Open == pc = "bmain" => a20 \/ opens = {}
=============================================================================
