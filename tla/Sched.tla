------------------------------- MODULE Sched --------------------------------
(***************************************************************************)
(* The kernel from _start on: what arch_init and thread_init set up        *)
(* (Machine), then processes on one CPU: the two-buffer scheduler          *)
(* (kernel/proc.c) in its growing arrays (common/array.c), the timer       *)
(* interrupt that preempts (interrupts/timer.S, common.S), the system call *)
(* path from the C library's stub to the handler (libc/arch/x86/syscall.S, *)
(* arch/x86/syscall.S), and the two ways back to user mode (proc.S).       *)
(*                                                                         *)
(* The kernel runs with interrupts off (interrupt gates, SFMASK), so a     *)
(* handler is one action.  A register's content is a tag: the process, the *)
(* generation of its user code and the register that was computed.         *)
(***************************************************************************)
EXTENDS Machine, FiniteSets

CONSTANTS
  MaxProcs,   \* entries of gProcessList, 1024 in the code
  ArrayCap,   \* first capacity of the arrays, 16 in the code
  NoProc

ASSUME SchedAssumption ==
  MaxProcs \in Nat /\ ArrayCap \in Nat \ {0, 1} /\ NoProc \notin 0..MaxProcs

Procs == 0..(MaxProcs - 1)

Reg == {"AX", "BX", "CX", "DX", "SI", "DI", "SP", "BP", "R8", "R9", "R10", "R11",
        "R12", "R13", "R14", "R15", "IP", "FLAGS"}
Junk == <<NoProc, 0, "AX">>    \* whatever kernel code left in a register

VARIABLES
  hw,       \* the machine
  stage,    \* what kmain does next
  size,     \* gProcessListSize
  buf,      \* gScheduledProcs[0..1]: items and capacity
  front,    \* gScheduledProcsFront
  index,    \* gScheduledProcsIndex
  cur,      \* gKernel.threads[0].proc
  mode,     \* "boot", "user" (ring 3), "sys" (in a system call), "idle"
  gs,       \* whose base GS holds: "kernel", "user", or "none" yet
  cr3,      \* the process whose root is loaded, or NoProc: the kernel's
  run,      \* proc->run of each process
  saved,    \* proc->regs
  cpu,      \* the registers
  args,     \* the six arguments on the stack of a system call's handler
  gen,      \* generation of what user code of a process has computed
  asked,    \* ghost: the arguments user code gave the stub
  expect    \* ghost: the registers each process must find when it next runs

bvars == <<stage, size>>
qvars == <<buf, front, index>>
vars == <<hw, bvars, qvars, cur, mode, gs, cr3, run, saved, cpu, args, gen, asked, expect>>

Own(p, g) == [r \in Reg |-> <<p, g, r>>]
Swap(g)   == IF g = "kernel" THEN "user" ELSE "kernel"
----------------------------------------------------------------------------
(* array_emplace: a full array grows by half, what it held is copied *)
array_emplace(a, x) ==
  [items |-> Append(a.items, x),
   cap   |-> IF Len(a.items) < a.cap THEN a.cap ELSE a.cap + a.cap \div 2]

(* proc_schedule: into the back buffer *)
Scheduled(b, f, p) == [b EXCEPT ![1 - f] = array_emplace(@, p)]

\* mutant: the buffer processed is left full
EmptiedNot(b, f) == b

Emptied(b, f) == [b EXCEPT ![f].items = <<>>]

\* mutant: the index starts at the end of the buffer
SwapIndexLast(b, f) == Len(b[1 - f].items)

\* the place read, and the index left, when the back buffer becomes the front
SwapIndex(b, f) == 1

(* next_proc: the process picked and the buffers it leaves *)
next_proc(b, f, x) ==
  LET o == 1 - f
      n == SwapIndex(b, f)
  IN IF x < Len(b[f].items)
     THEN [proc |-> b[f].items[x + 1], buf |-> b, front |-> f, index |-> x + 1]
     ELSE IF b[o].items # <<>>
          THEN [proc |-> b[o].items[n], buf |-> Emptied(b, f), front |-> o, index |-> n]
          ELSE [proc |-> NoProc, buf |-> Emptied(b, f), front |-> o, index |-> 0]
----------------------------------------------------------------------------
(* proc_run: every register from the process, by iretq *)
Restored(s) == s

(* proc_run_sysret: RCX and R11 carry the IP and the flags through sysretq *)
RestoredSysret(s) == [s EXCEPT !["CX"] = s["IP"], !["R11"] = s["FLAGS"]]

Resume(how, s) == IF how = "proc_run" THEN Restored(s) ELSE RestoredSysret(s)

\* iretq loads both selectors from the table, sysretq none
Return(how, h) == IF how = "proc_run" THEN Far(h, X86_SEL_CODE3, X86_SEL_DATA3, 3) ELSE h

(* kern_schedule on the buffers b, with the saved registers sv, the run
   functions rn, the kernel's GS g and the machine h: sched_exec of the
   process picked, or sched_wait *)
kern_schedule(b, sv, rn, g, h) ==
  LET pick == next_proc(b, front, index) IN
  /\ buf' = pick.buf /\ front' = pick.front /\ index' = pick.index
  /\ cur' = pick.proc
  /\ IF pick.proc # NoProc
     THEN /\ mode' = "user" /\ cr3' = pick.proc
          /\ \E t \in {timer_ns(h, 100000)} : hw' = Return(rn[pick.proc], t)
          /\ cpu' = Resume(rn[pick.proc], sv[pick.proc])
          /\ gs' = Swap(g)
     ELSE mode' = "idle" /\ gs' = g /\ hw' = h /\ UNCHANGED <<cr3, cpu>>
----------------------------------------------------------------------------
(* kmain, one call at a time.  What arch_init does to memory is elsewhere   *)
(* (Paging, PhysMem): here it is a stage of its own that changes nothing.   *)
Call(this, next, h) ==
  /\ stage = this /\ stage' = next /\ hw' = h
  /\ UNCHANGED <<size, qvars, cur, mode, cr3, run, saved, cpu, args, gen, asked, expect>>

\* enable_gdt loads GS with a selector, which clears its base
GdtInit == Call("gdt_init", "idt_init", gdt_init(hw)) /\ gs' = "none"
IdtInit == Call("idt_init", "pic_init", idt_init(hw)) /\ UNCHANGED gs
PicInit == Call("pic_init", "gate", pic_init(hw)) /\ UNCHANGED gs
Gate    == Call("gate", "sys_init", idt_set_gate_interrupt(hw, X86_INT_TIMER, "int_timer"))
             /\ UNCHANGED gs
SysInit == Call("sys_init", "thread_init", sys_init(hw)) /\ UNCHANGED gs

\* the base of GS is the thread's; user mode's waits in KERNEL_GS_BASE
ThreadInit == Call("thread_init", "schedule", thread_init(hw)) /\ gs' = "kernel"

(* proc_create takes the next entry of the list, which never gives one back; *)
(* the process is scheduled                                                  *)
BootSchedule ==
  /\ stage = "schedule" /\ size < MaxProcs
  /\ size' = size + 1
  /\ buf' = Scheduled(buf, front, size)
  /\ UNCHANGED <<hw, stage, front, index, cur, mode, gs, cr3, run, saved, cpu, args, gen,
                 asked, expect>>

BootStart ==
  /\ stage = "schedule" /\ stage' = "done"
  /\ kern_schedule(buf, saved, run, gs, hw)
  /\ UNCHANGED <<size, run, saved, args, gen, asked, expect>>

(* User code of the current process computes new values *)
UserStep ==
  /\ mode = "user"
  /\ gen' = [gen EXCEPT ![cur] = 1 - @]
  /\ cpu' = Own(cur, 1 - gen[cur])
  /\ expect' = [expect EXCEPT ![cur] = Own(cur, 1 - gen[cur])]
  /\ UNCHANGED <<hw, bvars, qvars, cur, mode, gs, cr3, run, saved, args, asked>>
----------------------------------------------------------------------------
\* The CPU takes an interrupt in ring 3, in sched_wait's loop, and in a
\* system call only if SFMASK leaves the flag on.
InterruptsOn == mode \in {"user", "idle"} \/ (mode = "sys" /\ ~hw.sfmask_if)

(* int_timer.  SAVE_CONTEXT swaps GS and finds the current process through
   it; then the IRQ is acknowledged, the process rescheduled, and the next
   one picked.                                                             *)
SAVE_CONTEXT == [saved EXCEPT ![cur] = cpu]

\* mutant: no end of interrupt is sent
NoEoi(h) == h

\* the end of interrupt of int_timer
AfterEoi(h) == out8(h, "PIC1_COMMAND", 32)

MarkInterrupted == [run EXCEPT ![cur] = "proc_run"]

(* the interrupted process goes back to the end of the queue *)
Requeued(b) == Scheduled(b, front, cur)

int_timer ==
  /\ mode = "user" /\ Pending(hw, X86_PIC_TIMER)
  /\ run' = MarkInterrupted
  /\ saved' = SAVE_CONTEXT
  /\ \E h \in {AfterEoi(Acknowledged(hw, X86_PIC_TIMER))} :
       kern_schedule(Requeued(buf), saved', run', Swap(gs), h)
  /\ UNCHANGED <<bvars, args, gen, asked, expect>>
----------------------------------------------------------------------------
\* What user code gives __syscall6: a register for each argument but the last.
Given(c) == <<c["SI"], c["DX"], c["CX"], c["R8"], c["R9"], <<cur, gen[cur], "stack">> >>

(* __syscall6: from the registers of a C call to those of a system call *)
Stub(c) == [c EXCEPT !["DI"] = c["SI"], !["SI"] = c["DX"], !["DX"] = c["CX"],
                     !["R10"] = c["R8"], !["R8"] = c["R9"], !["R9"] = Given(c)[6]]

\* The instruction puts the IP in RCX and the flags in R11.
Trapped(c) == [c EXCEPT !["CX"] = c["IP"], !["R11"] = c["FLAGS"]]

(* What x86_sys_handler saves of the registers *)
SysSaved(s, c) ==
  [r \in Reg |-> IF r \in {"AX", "CX", "R11"} THEN s[r]
                 ELSE IF r = "IP" THEN c["CX"]
                 ELSE IF r = "FLAGS" THEN c["R11"] ELSE c[r]]

\* mutant: the arguments in the order of a C call
SysArgsC(c) == <<c["DI"], c["SI"], c["DX"], c["CX"], c["R8"], c["R9"]>>

(* the arguments x86_sys_handler stores for the handler *)
SysArgs(c) == <<c["DI"], c["SI"], c["DX"], c["R10"], c["R8"], c["R9"]>>

(* x86_sys_handler, up to the call of the handler *)
Syscall ==
  /\ mode = "user"
  /\ cpu = Own(cur, gen[cur])                  \* user code set up a call
  /\ LET c == Trapped(Stub(cpu))
     IN /\ saved' = [saved EXCEPT ![cur] = SysSaved(@, c)]
        /\ args' = SysArgs(c)
        /\ expect' = [expect EXCEPT ![cur] = Stub(cpu)]
  /\ asked' = Given(cpu)
  /\ mode' = "sys" /\ gs' = Swap(gs)
  /\ run' = [run EXCEPT ![cur] = "proc_run_sysret"]
  /\ cpu' = [r \in Reg |-> Junk]
  /\ UNCHANGED <<hw, bvars, qvars, cur, cr3, gen>>

\* The result of a call and -ENOSYS, as tags of their own.
Result == <<NoProc, 1, "AX">>
Enosys == <<NoProc, 2, "AX">>

\* What the ABI leaves of the registers: RAX has the result, RCX and R11 are
\* clobbered, the others are kept.
AfterCall(e, c, ax) == [e EXCEPT !["AX"] = ax, !["CX"] = c["CX"], !["R11"] = c["R11"]]

\* The handler returned: its result is stored and the process resumed.
SyscallReturn ==
  /\ mode = "sys"
  /\ saved' = [saved EXCEPT ![cur]["AX"] = Result]
  /\ cpu' = RestoredSysret(saved'[cur])
  /\ expect' = [expect EXCEPT ![cur] = AfterCall(@, cpu', Result)]
  /\ mode' = "user" /\ gs' = Swap(gs)
  /\ args' = <<>> /\ asked' = <<>>
  /\ UNCHANGED <<hw, bvars, qvars, cur, cr3, run, gen>>

\* bad_sys: a number past the table or without a handler
BadSyscall ==
  /\ mode = "user" /\ cpu = Own(cur, gen[cur])
  /\ cpu' = [Trapped(Stub(cpu)) EXCEPT !["AX"] = Enosys]
  /\ expect' = [expect EXCEPT ![cur] = AfterCall(Stub(cpu), cpu', Enosys)]
  /\ UNCHANGED <<hw, bvars, qvars, cur, mode, gs, cr3, run, saved, args, gen, asked>>

\* hlt, for ever
Halted == mode = "idle" /\ UNCHANGED vars
----------------------------------------------------------------------------
Init ==
  /\ hw = PoweredOn /\ stage = "gdt_init" /\ size = 0
  /\ buf = [b \in 0..1 |-> [items |-> <<>>, cap |-> ArrayCap]] /\ front = 0 /\ index = 0
  /\ cur = NoProc /\ mode = "boot" /\ gs = "none" /\ cr3 = NoProc
  /\ run = [p \in Procs |-> "proc_run"]
  /\ saved = [p \in Procs |-> Own(p, 0)]
  /\ cpu = [r \in Reg |-> Junk]
  /\ args = <<>> /\ asked = <<>>
  /\ gen = [p \in Procs |-> 0]
  /\ expect = [p \in Procs |-> Own(p, 0)]

Next ==
  \/ GdtInit \/ IdtInit \/ PicInit \/ Gate \/ SysInit \/ ThreadInit
  \/ BootSchedule \/ BootStart
  \/ UserStep
  \/ int_timer
  \/ Syscall \/ SyscallReturn \/ BadSyscall
  \/ Halted

Spec == Init /\ [][Next]_vars

\* kmain goes on to kern_schedule, the timer runs in rate-generator mode and
\* keeps ticking, and a system call's handler returns.
FairSpec == Spec /\ WF_vars(BootStart) /\ SF_vars(int_timer) /\ WF_vars(SyscallReturn)
----------------------------------------------------------------------------
Rest(f) == SubSeq(buf[f].items, index + 1, Len(buf[f].items))
Queue   == Rest(front) \o buf[1 - front].items

\* A process is scheduled once: it runs, or is in one place of what is left
\* of the two buffers; and an array holds what was put in it
\* (proc.c:126-153, array.c:11-27).
OnePlace ==
  /\ \A m, n \in DOMAIN Queue : m # n => Queue[m] # Queue[n]
  /\ \A n \in DOMAIN Queue : Queue[n] # cur
  /\ \A b \in 0..1 : Len(buf[b].items) <= buf[b].cap

\* User code of a process runs in its address space, with its own registers
\* and the user's GS; kernel code runs with the kernel's GS, and a handler
\* with the arguments its caller gave the stub, in their order
\* (common.S:6-39, proc.S:7-81, syscall.S:24-71, libc/arch/x86/syscall.S:8-18).
ContextIntact ==
  /\ mode = "user" => cpu = expect[cur] /\ cr3 = cur /\ gs = "user"
  /\ mode = "sys" => gs = "kernel" /\ args = asked
  /\ mode = "idle" => gs = "kernel"

\* The CPU never faults for want of what the boot sequence sets up: every
\* selector it loads names a whole descriptor of the right kind, and every
\* interrupt it can take finds a gate, a stack, and a kernel that was in user
\* mode.  In sched_wait's loop interrupts are on in kernel mode: int_timer
\* would swap to the user's GS and look for the process at address 8.  No
\* exception has a gate, so a fault would reset the machine
\* (init.c:9-23, gdt.c:37-113, pic.c:17-45, thread.c:3-18, proc.c:164-173).
NoTripleFault ==
  /\ ~hw.fault
  /\ mode = "user" => hw.sce /\ hw.lstar = "x86_sys_handler"
  /\ InterruptsOn => \A i \in IRQ : Pending(hw, i) =>
       /\ hw.idtr /\ Vector(hw, i) \in DOMAIN hw.idt
       /\ hw.idt[Vector(hw, i)] = "int_timer" /\ i = X86_PIC_TIMER
       /\ Loadable(hw, X86_SEL_CODE0, "code", 0) /\ hw.rsp0
       /\ mode = "user"

\* Round robin starves nobody: a process that is scheduled runs again, since
\* the timer preempts whoever runs (timer.S:9-21, proc.c:136-153).
NoStarvation ==
  \A p \in Procs : (p \in Range(Queue)) ~> (mode = "user" /\ cur = p)

RQ == INSTANCE RunQueue WITH queue <- Queue, running <- cur

\* The two buffers implement one first-in first-out queue: nobody is lost or
\* overtaken when they are swapped (proc.c:126-153).
RefinesRunQueue == RQ!Spec

=============================================================================
