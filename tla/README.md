# Verification of FuseeOS in TLA+

FuseeOS is a small x86-64 operating system: an MBR and a boot loader that reads
a Miaou volume (MFS), a kernel with a physical page allocator, page tables, a
heap and a round-robin scheduler, and the host tools that build its disk. The
modules here model its control: each operation, with its guards, early returns
and error paths, and the state it changes. TLC checks them on small
instances; TLAPS proves the heap, the physical allocator, the scheduler, the
machine it needs and the boot loader's memory, modes and choice of a video mode
correct for every instance.

Paths below are relative to `src/src/` unless they begin with `tools/` or
`include/`, which are directly under `src/`.

## The system

```
 tools/ mkinitram -> initram image --+
        mkvolume  -> MFS volume <----+   boot loader, kernel and user programs
        mkimage   -> disk (MBR with the partition table, volume)

 BIOS -> mbr.S -> VBR _start.S -> bmain (C, long mode; BIOS calls by going back)
                    screen, memory_detect, mfs_init, vbe, identity map,
                    initram_init (mfs_read, valloc), elf_load
                 -> kernel _start.S -> kmain
                    arch init, init_mem (physical pages, page tables), thread_init,
                    [processes: commented out at this commit]
```

At this commit `kmain` ends in an endless loop: the calls that create and run
the first process (kernel/kmain.c:23-29) are a comment. `Sched` models the code
those calls enter, which is complete; nothing else depends on it.

Concurrency is what interrupts and BIOS calls make of one processor. Kernel
code runs with interrupts off, user code is preempted by the timer, and the
boot loader leaves and re-enters long mode for each BIOS call. The other
difficulties are sequential: bit arithmetic on bitmaps and page tables, tables
with fixed sizes, answers of failure that nobody checks, and data structures
written by one program and read by another.

## Inventory

| component | state | operations | hard behaviour | what makes it correct |
|---|---|---|---|---|
| Physical page allocator (kernel/mem/alloc_page.c, kernel/arch/x86/mem.c) | zones with bitmaps of eight orders, `pages_free`, the boot loader's `mem_free` | `alloc_phys_early`, `init_physical_memory`, `alloc_phys_pages`, `free_phys_pages` | masks, roundings, wraps; early failure unchecked; scan order | a frame is early, free, handed out or being freed, never two of these; the orders above 0 summarise order 0 |
| Kernel heap (kernel/mem/kmalloc.c) | headers in memory, `heap_size` | `kmalloc`, `kfree`, `make_new_block`, `shrink` | every walk trusts every header; shrink unmaps | live blocks are disjoint and stay; what their growth reached is mapped; best fit; calls return |
| Page tables (kernel/mem/mmap.c, mem.c, alloc_io.c, arch/x86/mem.c) | tables, the page iterator, frames, NX | `init_mem` with `init_nx`, `unmap_lomem`, `init_kernel_mem_prot`; `kmapanon`, `kmap`, `kunmapanon`, `kmprotect`, `io_alloc`, `create_cr3` | four nested loops with misaligned first chunks; frames run out | what is mapped is what was asked for; frames used once; W^X; shared kernel half |
| Scheduler and context switch (kernel/proc.c, interrupts/, arch/x86/*.S) | two buffers, current process, saved registers, GS, CR3, timer mask | `proc_schedule`, `kern_schedule`, `int_timer`, `x86_sys_handler`, `proc_run`, `proc_run_sysret` | preemption between any two user instructions; two ways in, two ways out | FIFO; nobody lost, doubled or starved; registers intact |
| Boot loader: memory and images (boot/bootloader: memory.c, alloc.c, elf.c, initram.c, bmain.c) | memory map, free list, page tables, loaded pages | `memory_detect`, `alloc_page_hi`, `alloc_page_lo`, `memory_identity_map`, `valloc`, `elf_load` | regions that are not whole pages, more regions than are scanned, tables in force while built | free memory handed to the kernel excludes what is in use; the image is where it should be |
| Boot loader: processor modes and BIOS calls (boot/mbr, boot/bootloader/*.S) | mode bits, segments, stack, flags | MBR, VBR, A20, mode switches, `bios_call` | order of mode bits, return addresses of two widths, whatever the BIOS leaves | no impossible mode, stack and registers kept, the right partition |
| Volume writer and reader (tools/mkvolume.c, boot/bootloader/mfs.c, disk.c) | pages by use, bitmap, directory tree; the reader's buffer | `make_volume`, `copy_file`, `file_write`, `alloc_page`; `mfs_lookup_at`, `mfs_read` | direct and indirect pages, bitmap pages skipped, prefixes of names | what is written is found and read back |
| Initial RAM disk (tools/mkinitram.c, libboot/initram.c) | entries, names, data | `add_file`, `save_initram`, `initram_lookup` | offsets computed in one program and used in another; prefix match | the file found is the file packed |
| Console and video mode (libboot/video, boot/bootloader/vbe.c) | cursor, frame buffer, mode chosen | `video_putchar`, scrolls, `vbe_try_modes` | wrap and scroll are put off to the next character | the screen shows what was printed |
| Formatted output (libboot/print.c) | the buffer of a call | `boot_printf`, its conversions and modifiers | zeros before and inside a number, widths of arguments | what is printed is what the call says |
| Process creation (kernel/proc.c:28-124) | the process's root, the register CR3, what frames hold | `proc_create`, `proc_create_initram`, `load_elf`, `proc_alloc` | pages are mapped and filled through whichever root is loaded | the image is where it should be, in the address space of the process |
| Interrupt controllers, descriptor tables, kernel start (kernel/arch/x86, thread.c, kmain.c) | PIC masks, IDT, GDT with its limit, TSS, PIT, MSRs | `arch_init`, `thread_init`, `pic_enable`, `pic_eoi` | the order of the calls; no exception has a gate | the processor finds all that it needs, at any moment |
| Growable array (kernel/common/array.c) | elements, capacity | `array_emplace` and its growth | growth while elements are in use | no process lost or moved |
| Disk image and specs (tools/mkimage.c, tools/spec_parser.c) | position in a file | `parse_spec`; `pad`, `add_volume` | the end of a file; sectors, pages and bytes | the volume is where its record says; the lines read are the lines written |

The hazards, each at its line, are in `PROJECT.json`.

## Modules

Definitions keep the names of the functions they model. A definition under a
comment `mutant:` is a plausible bug of the definition that follows; it is not
part of the specification. The module `XProofs` holds the theorems about `X` and
the lemmas they rest on; `PhysProofs` is about `PhysMem`, `PagingProofs` also
about `Process`, and `MachineProofs` about `Machine` as `Sched` drives it.

**PhysMem** (instance `MCPhysMem`). Frames are page numbers, a bitmap is the set
of its clear bits. The widths the code depends on (byte, int, word, page, the
pages in 2^32 bytes) are constants. Boot is a sequence of phases: `MapPhysical`
takes the pages of the physical mapping, `InitBitmap` one bitmap of one zone (or
`BitmapFails`), `UnmarkPage` one page; then `AllocPage`, `AllocFails`, `FreeOwned`,
`FreeInitram` with `FreeStep` and `FreeDone`. The undefined shift of line 20
past the width of int is a free choice for each order (`ub`). An early
allocation that fails returns 0 and nobody checks it: the model enters
`"wild"`, of which nothing is claimed. Bases are assumed to be whole pages, and
zones to be fewer than the 16 blocks there is room for (`MapAssumption`): neither
init_physical_memory nor the scan of alloc_phys_pages looks at the end of `blocks`,
and the scan ends at the empty block after the last zone.

**Heap** (instance `MCHeap`), abstract specification **Arena**. Headers are a
function from address to `[used, size]`; the walks of `kmalloc` and `shrink`
take one header per step. `Arena` is what callers rely on: a block handed out
meets no other. `kmapanon` and `kunmapanon` work on what their iterator reaches
(`Walked`, the result of the four loops that `Paging` models one by one): a growth
that crosses the end of a page table may lose its last pages, and shrink may leave
as many mapped. Growing may find no frame (`NoFrame`), which nobody checks: the
model enters `"wild"`. `kfree(NULL)`, which changes nothing, is left out, and sizes
are assumed not to overflow. The heap is kept inside one page directory (1 GiB).

**Paging** and **Process** (instance `MCPaging`). A table is a frame with a
function from index to entry; four levels as in the code, `F` entries for its
512. `Start`, `Descend`, `Consume`, `Ascend`, `Return` are the iterator,
`MakeTable`, `MapAnon`, `MapIo`, `Unmap`, `Protect` the bodies of its callers'
loops, one entry per step. `InitCall` is `init_mem` call by call, `KernelCall`
what the kernel asks for after it. A walk that leaves the tables, or a frame
that is missing (for a page, a table or a process's root), ends in `"wild"`.
The kernel half begins with the physical map, which arch_init_physical_mapping
leaves writable and executable (arch/x86/mem.c:62): `Translate` gives its large pages,
and its entry is kept by the calls. The pages of the initram stay as the boot loader
mapped them (`BootRam`). `Process` adds the register CR3 and what each byte of a frame
holds. A program is a sequence of headers in bytes, at any alignment: `Item` finds the
first page and the number of pages each on its own, as mmap.c:15-16 does, so a last
page may be left out and two headers may be given one page. `proc_create` copies the
kernel half, `load_elf` and `proc_alloc` map and fill one header after another;
a byte that is not mapped is a fault that nothing takes (`Fault`). The kernel's own calls
are for whole pages. The TLB is not modelled.

**Machine** and **Sched** (instance `MCSched`), abstract specification
**RunQueue**. `Machine` is the hardware the kernel sets up, one record: both
controllers, the interval timer, the tables and the MSRs; an operator with the
name of a C function gives the machine after it. `Sched` runs the calls of
`arch_init` and `thread_init` on it one by one, creates processes in their
growable array, and then schedules. Handlers are atomic because interrupt
gates and SFMASK turn interrupts off. The content of a register is a tag that
says whose it is and how old, so that a register that is lost, stale or
another process's is told apart; the arguments of a system call go through the
stub of the C library. `UserStep` is any user code. FPU state and negative
system call numbers are not modelled.

**BootMem** (instance `MCBootMem`). Memory detection one BIOS entry at a time,
both page allocators, the identity map one 2 MiB page at a time, `valloc` one
table level at a time, the copies of the segments. Using an address that is not
mapped, or alloc_page_hi's answer 0 as a page, is `"wild"`. memory_detect does not look
at the end of its arrays of 64 entries: the BIOS is assumed to report fewer
(`BootAssumption`).

**BootCpu** (instance `MCBootCpu`). One action for each run of instructions
between two points where the mode, the stack or the memory the next part needs
can be seen. A word on the stack has its width. The BIOS may leave the
interrupt flag, the carry flag and every register it is free to change as it
likes, and a disk read may fail: after the MBR's the MBR runs again, or a part of
a VBR (`"wild"`); after the VBR's the boot loader goes on as far as what was read
reaches, which may be all that it runs (`Part`).

**SpecParser**, **Initram**, **Volume**, **Disk**, **MfsBoot** (instance
`MCDisk`) are one chain, each module extending the one before it. `parse_spec`
reads a list of files character by character; `mkinitram` builds its image as
a sequence of numbers at the offsets it computes; `mkvolume` copies files, that
image among them, into pages that are a file record, pointers or cells;
`mkimage` puts the volume behind the MBR and its first sector into the
partition record. Then the machine boots: `mfs_read_page` gives the page that
lies where the record leads, the lookup walks the directories of any path of
the spec and `mfs_read` reads the file, and `initram_lookup` searches what was
read of the initial RAM disk. The commands of the build run one after another
(CMakeLists.txt:71-109) and stop at the first that fails. A VBR may reach the metadata
page, and not the bitmap and the root behind it (`VolumeAssumption`), which make_vbr
would overwrite as well. A disk read that fails is not modelled here.

**Console** and **Printf** (instance `MCConsole`). `video_init` scrolls once per
step until the screen is blank; `vbe_init`'s choice of a mode one BIOS call per
step, then every text through `boot_printf` and `video_putchar`. A call fills its buffer in one step
and prints it one character per step. `rows` is what was printed, on a page
without end: what the screen is compared with. The widths of the
C types are scaled; `Says` is the reference its conversions are compared with.
In graphical mode the box of pixels of a character is one cell. The size of the
monitor is decoded as vbe.c:33-34 does it (`Decoded`): the high bits of the blanking
are or-ed into bits 4 to 7 of the size. `cur` is `gVbeVideoMode`: a call for a mode
that fails leaves what an earlier one put there (`ok` says of each mode whether the
BIOS tells of it, and does so every time). Calls 0x4f00 and 0x4f02 are taken to
succeed. `boot_printf` keeps its output in a buffer of 1024 characters without
looking at its end (print.c:123); texts are taken to fit.

## What the runs check

| run | question | result |
|---|---|---|
| `phys_main` | boot and every sequence of allocations and frees | `PoolPartition`: no frame is given twice or lost, but those past 2^32 bytes of a region, which `Lost` names. `FreeCount`: the counter agrees with the bitmaps, the initram's pages and the lost frames apart. `Summary`: an order above 0 misses no free pair, and in the first byte of a bitmap invents none. `ExhaustedOnly`: BADPAGE only when what the scan can reach is used up. `EarlySuffices`: when one region is large enough for all early pages, none fails. `TypeOK`: no bit lies past its bitmap |
| `heap` | every sequence of kmalloc and kfree | `IInv`, the inductive invariant of the proof: headers, links, free tail and live blocks. `BlocksBacked`: the pages of all headers, and every byte of a block whose growth stayed within its page tables, are mapped. `BestFit`; `CallsReturn`; `RefinesArena` |
| `paging` | `init_mem`, then up to three calls and the creation of a process, in every order | `MapExact`: after a call the tables translate what was asked for, with its flags. `FrameUse`: no frame is used twice, and none lost unless a program gives a page to two headers. `ImageLoaded`: every byte of a new process is that of the file, or zero, unless a later header has the byte or is given its page. `WriteXorExecute`: in the kernel half only the physical map and what the boot loader left are writable and executable. `KernelHalfShared`, `StaysInTables`, `CallsReturn` |
| `sched` | the start of the kernel, then three processes created, preempted anywhere, in and out of system calls | `NoTripleFault`: every selector loaded and every interrupt taken finds what it needs. `OnePlace`, `RefinesRunQueue`: the two buffers are one queue. `ContextIntact`: user code finds its registers, CR3 and GS, a handler its arguments. `NoStarvation` |
| `boot_mem` | memory detection to kernel entry on 14 memory maps and 3 images | `Tracked`: free memory handed on excludes pages in use. `IdentityMap`, `LoadedIntact`, `BootSuffices` |
| `boot_cpu` | MBR to two BIOS calls, any partition table | `ModeSane`, `CallsBalanced`, `RegistersKept`. `RightPartition`: C code has its image from the first bootable partition, all of it unless the second read failed |
| `disk` | 561 builds, from their specs to the memory of the machine that boots | `PagesOnce`: a page has one use. `TreeExact`: the volume holds what the spec lists. `ReadBack`: the boot loader reads what was written. `FoundExact`: a file of the initial RAM disk is found as it was packed. `FailsForCause`: each way in which a build or a boot ends badly (it gives up, crashes, writes past its tables or the volume, or the reader is lost) has its cause in what was asked for |
| `console` | every text of up to seven characters, every conversion | `Shown`: the screen shows what was printed. `Printed`: what is printed is what the call says. `ModeWidest`: a mode is set when one fits, it is judged by the last mode the BIOS told of, and its screen fits what was read of the EDID |

Four runs show the code to do other than its comments and documents say:

* `phys_buddy`: alloc_page.c:20 shifts the mask by the bit's offset in the
  bitmap instead of in its byte. Past the first byte the test "Check if the buddy
  is clear" always passes, and an order is cleared while the buddy is in use
  (`SummarySound`). Nothing reads the orders above 0 at this commit, which is why
  `PoolPartition` holds all the same.
* `paging_straddle`: mmap.c:24 computes the number of tables of a range from its
  length alone. Two pages across the end of a page table: the second is not
  mapped (`MapExact`). `Paging!Fits` says which ranges are walked in full;
  the run `paging` asks for those.
* `process_space`: proc_alloc loads the root of the new process and calls
  kmapanon, which walks `gKernel.cr3` and loads it again (mmap.c:165,189). The
  segments and the stack lie in the lower half of the kernel's root, and the root
  that sched_exec loads translates none of them (`OwnAddressSpace`). The image
  itself is filled correctly, through the kernel's root (`ImageLoaded`).
* `boot_a20`: check_a20 clears AX by `xor` after its comparison, so the flag its
  caller tests is always that of zero: every call says the gate is open, and on
  a machine where it is closed neither method is tried (`A20Open`).

Properties that hold under a condition say so in their definition, and the
condition marks a limit of the code: `WholePages` (alloc.c:28 lets the size
of a region that is not whole pages wrap), `SegmentsApart` (alloc.c:73 replaces
a page that two segments share), `Lasting` and `Apart` (proc.c:49 does the same with the
headers of a program), the physical map and `BootRam` in `WriteXorExecute` (neither is
protected by anybody), `Part` in `RightPartition` (_start.S:55 does not look at the answer),
`Clean` (names that begin each other, mkvolume.c:200), `Shadowed` (prefix match), modes at least as
wide as high in `ModeWidest` (vbe.c:70 compares a width with a height), zones
after an empty one in `ExhaustedOnly` (alloc_page.c:110).

The causes `FailsForCause` names are: for mkinitram a file that is not there, a spec that
ends with a newline (its end is noticed one read late, so there is one more line, with empty
names: `Phantom`), more files or more bytes of names than the tables hold; for mkvolume a file
that is not there or such a newline, a file or directory larger than its pointers reach, and a
tree that needs more pages than the volume has (`Needed` counts them, none is wasted); for the
reader a VBR that reaches the metadata, a path that is not in the volume as it was written,
and a directory that goes on after its first page, of which the reader looks no further. They
are limits of the code that the property states and does not exclude.

Facts of the code that the models contain and no run is about: init_mem frees
the initram by its virtual address, so `pages_free` grows without a page
(mem.c:44, the term `foreign` of `FreeCount`); the pages of a free region past
4 GiB from its base are counted but not unmarked (alloc_page.c:89,
`UnmarkOffset`, the set `Lost`); system call 0 returns at once, where
include/fusee/sys/irq.h:7 says it blocks until an IRQ; boot_printf takes `%hu`
for a char and `%hhu` for a short (print.c:154) and skips a conversion it does
not know; the divider of the timer is computed upside down (timer.c:8), so ticks
are far apart, which no property depends on.

## Bounds

* `phys_main`: six zones, bytes of 4 bits, ints of 8, words of 4 and pages of
  16, so that a zone of 23 frames crosses each of these boundaries, has two
  pages of order-0 bitmap and a partial last word; three orders make a climb of two
  levels. `UINT_PAGES`, the pages in 2^32 bytes, is 5, and some regions are
  longer. One zone has no page and a zone after it is never scanned. Early
  pages are 1, 2, so many that no page is left for the bitmaps, and more than
  there are. Runs of up to two pages are freed. `phys_buddy` only widens int.
* `heap`: pages of 4, headers of 1, sizes 0, 3, 4, 8: an exact fit, one byte too
  many, blocks of one to three pages; up to five pages, so that free blocks of
  different sizes lie between used ones and best fit has a choice. A page table has
  three entries: growths of two and three pages cross the end of one, and lose their
  last page or, where the count of tables has room, do not.
* `paging`: 6 entries per table (1296 pages), 20 frames, ranges of 1 to 8 pages
  that start and end at, before and after the ends of tables and of a page
  directory. Three calls let a range be mapped, unmapped and mapped again by
  another shape, before, between and after the calls that create a process; the
  frames run out. The boot loader's tables have the physical map, the initram and the
  image. Pages of two bytes and three programs: headers apart, one of them of no bytes;
  two headers that share a page; an unaligned header whose last byte is on no page.
* `sched`: three processes, so that one waits in each buffer while one runs, and
  arrays of two elements, so that one grows. A generation is one bit: it only
  has to differ from the one before.
* `boot_mem`: pages of 2 units, 4 entries per table, two "gigabytes", regions
  that end inside a page, straddle the end of lomem, lie past the identity map
  or past the entries scanned; memory that is exactly enough and one page short.
* `boot_cpu`: two calls show that the first leaves nothing behind; two vectors and two register
  values tell stale and swapped ones. All 16 partition tables.
* `disk`: one direct and two indirect pages; files of 0 to 37 cells cross every
  boundary and the limit; bitmaps of six pages are crossed in files and
  directories; the volume overflows in a directory, a file record and data. An
  MBR of one sector and one longer than its track; specs with comments, empty
  lines, both kinds of newline, and a newline at the end. Images of up to three
  files, with names that are prefixes of others, an empty file, a name given twice.
* `console`: screens of 2x2, 2x3, 3x2; seven characters scroll each of them at
  least once. Types of 4, 8, 12 and 16 bits, with the least and the largest number
  of each and zeros inside. Mode lists with modes the BIOS tells nothing of, first,
  between others and last; a monitor whose blanking makes 7 pixels read as 23.

Deadlock is checked in every run; where a program really ends, an explicit
stuttering action says so (`Halted`, `Stopped`, `Ended`, `Silent`, `Halt`, `Wild`).

## Fairness

* `Heap`, `Process`: weak fairness of the walk. A call, once made, executes: the
  kernel is not preempted and waits for nobody.
* `Sched`: weak fairness of `BootStart` (kmain goes on) and `SyscallReturn` (the
  handlers are straight-line code), strong fairness of `int_timer`: the PIT runs as a
  rate generator (arch/x86/timer.c), so a process that keeps making system calls
  is still interrupted in one of the infinitely many moments it is in user mode.

The other specifications state safety only and assume no fairness.

## Proofs

The theorems hold for every value of the constants their assumptions allow.
Each proof module extends the module it is about; each names one inductive
invariant, has one lemma per action under which each conjunct the action can
disturb has its step, and concludes the runs' properties from the invariant. The
listed theorems prove 30 of the 39 properties of the passing runs. What each
invariant adds to the properties, and why it must:

**HeapProofs** (`HeapAssumption`: header and page sizes positive, sizes natural).

* `HeapInvariant`: `Spec => []IInv`. What matters (`LiveIsUsed`, `Tiling`)
  is not inductive: that a walk stays on headers needs `WalkInHeap`;
  that `shrink` keeps every used block needs what `newSize` means half way
  (`KeepsUsed`); that `TakeBest` takes a free block large enough, and a smallest
  one, needs what `best` means half way (`BestSoFar`). `IInv` is their
  conjunction, checked by `heap` first. `CeilHolds`, `PageRound`, `ExtraSizeRoom` and
  `AfterBound` carry the arithmetic.
* `HeapTypeCorrect`, `HeapWellFormed`, `HeapBlocksSafe`: parts of it.
* `HeapBlocksBacked` (`BlocksBacked`): blocks begin and end on page boundaries
  (`Aligned`) and what their growth reached is mapped (`Backed`). The iterator reaches
  the first page of every range (`ReachHolds`), where the header is, and shrink's
  walk starts past every block that is kept.
* `HeapBestFit`: the action property, from `BestSoFar` at the end of the walk.
* `HeapRefinesArena`: the heap implements `Arena` with `live` mapped to itself.
  `TakeBestSeparate` and `NewBlockSeparate` show that a block granted meets no
  live one, from `Tiling` and `LiveIsUsed`; every other step stutters or releases.

**SchedProofs** (`SchedAssumption`: the first capacity of an array, 16 in the code, is at
least 2, for one of 1 would not grow by half; any number of processes).

* `SchedInvariant`: `SchedInv` adds to `OnePlace` and `ContextIntact` that arrays
  have room (`ArraysRoom`, without which an item is lost at growth), that the
  context of a process that does not run is what it must find (`Kept`), and that
  in a system call its address space stays loaded: `proc_run_sysret` does not
  load CR3, so without `cr3 = cur` the invariant is not inductive.
* `ScheduledOnce`, `ContextSwitch`: the two properties.
* `ImplementsRunQueue`: the two buffers, the index and the swap implement the one
  FIFO queue of `RunQueue`; `RestAt` and `TwoParts` say what is left of the front
  buffer after `next_proc`, the swap is a step that stutters.

**MachineProofs** extends it. `MachineInvariant` says stage by stage what the
calls of `arch_init` and `thread_init` have set up (`Segments`, `ChipsReady`,
`TimerGate`, `SysReady`, `Stack`) and keep; `NeverFaults` (`NoTripleFault`) follows
because a mode in which the processor needs them is entered only at the last
stage. The lemmas about ports walk each PIC through its four command words.

**PhysProofs** (`SizeAssumption`: one to eight orders, the code's PMB_MAX_ORDER
being eight, and positive widths; `MapAssumption`: zones are disjoint, fewer than
PMB_COUNT of them, free regions are disjoint parts of zones, which `Tracked` establishes
of the boot loader for whole pages; `InitramAssumption`: the virtual address of
the initram, used as a physical one by mem.c:44, is in no zone). The orders go
to eight because a halved offset is proved by cases on the order: a power with a
variable exponent is nothing the provers know.

* `PhysInvariant`: `PhysInv` adds what each loop of boot has done so far: `Room`
  (the bitmaps made and the one in hand are large enough), `Unmarking` (the frames
  clear are those the loop passed, counted one by one), `Before`, and for service
  `JobKnown`, `Parts` and `Counted`, which follow a free call half way.
* `BitmapsFit` (`TypeOK`), `FramesPartitioned` (`PoolPartition`), `FreeCounted`
  (`FreeCount`), `OrdersAgree` (`Summary`), `RefusesWhenFull` (`ExhaustedOnly`).
* `EarlyPagesSuffice` (`EarlySuffices`): `EarlyInv` adds that no region has
  lost more frames than were taken early (`Spent`) and how large the next bitmap is
  (`Sized`); with each page taken one less is due, so `EarlyNeed` does not change,
  and the region that holds them all is not used up before the last.

**BootCpuProofs** (`CpuAssumption`: there is a vector and a register value).

* `CpuInvariant`: `Modes`, `Loaded` and `StackShape` say at each label what the
  mode bits, the memory and every word of the stack are. `CallsBalanced` needs
  that before the first call the carry to be returned is the one in the flags
  (`ret = cf` in `Entering`), and that the vector patched into the `int`
  instruction is the one asked for (`Answers`).
* `ModesNeverMixed`, `BiosCallsReturn`, `BootsFirstPartition`, `CallerKeepsRegisters`.

**BootMemProofs** (`BootAssumption`: the BIOS's entries do not overlap and have
64-bit sizes and are fewer than its arrays hold; lomem ends below the first gigabyte, and the tables of the identity
map lie in it; the segments lie above the identity map's top-level entry and inside the
address space, with no more bytes in the file than in memory).

* `MemInvariant`, `MemoryTracked` (`Tracked`): `MemInv` adds that the regions left
  are disjoint whole pages and that all bytes come from entries already seen;
  the second is what keeps the entry that is read next apart from them.
* `MapInvariant`: the tables above lomem form a tree. `Tree` gives each table a
  level, `Once` says that no two entries point to one page, `OnTheWay` where
  map_single is. From these, two pages of the image have two ways through the
  tables (`PathsApart`: they would differ in an index, `IndexesTell`), so that a
  new entry changes the mapping of its own page and of no other, and `Held`
  (what is mapped stays mapped, what is copied stays there) is kept. `Building`
  follows memory_identity_map entry by entry, `Identity` is its result.
* `IdentityMapKept`: `IdentityMap` for maps of whole pages. Without that
  condition it is false in general: a region that is not whole pages never
  becomes empty (alloc.c:28), and its pages run on into those of a later one.
* `ImageLoadedIntact`: `LoadedIntact`, whose conditions are in its definition.
* `LoaderSuffices` (`BootSuffices`): pages are counted on both sides. `Ranked` ties
  each region of `mem_free` to the entry it is the rest of, so a byte of the map
  that was not handed out is in a region with a page, and the first such region
  lies below the end of the identity map. `Named` gives every page handed out the
  name of the one entry that points to it (its level and the part of the page
  number above it); the entry a page is needed for has a name nobody has
  (`FreeName`), so fewer pages were handed out than there are names (`OneToOne`),
  fewer than the memory has (`ByteLeft`). `SegmentsApart` is needed: a page mapped
  twice is taken twice. The proof showed that lomem must end strictly below the
  first gigabyte, or the page for CR3 is beyond the bootstrap mapping.

**ConsoleProofs** (`ConsoleAssumption`: sizes of the font and of the text screen
positive, modes at least one character large; the size assumed without an EDID has
no blanking).

* `ModeInvariant` says which mode the data looked at are those of (`Current`), that
  the mode kept was judged by one that fits (`From`), and that none looked at so far
  is wider; `WidestModeSet` (`ModeWidest`) follows at the end of the list.
* `ScreenInvariant`: `ScreenInv` says how much of the screen `video_init` has blanked,
  where the cursor is for the rows printed (`CursorAt`), and what each cell holds:
  in text mode that of the row shown there (`TextDrawn`), in the last row of a
  graphical screen that of the last row that reaches it (`LastCell`). Wrapping and
  scrolling are put off to the next character, so `Turn` has to say by how much
  the rows have moved when it is written. `ScreenShown` (`Shown`) follows.

**PagingProofs** is about `Paging` and `Process` (`TableAssumption`: an even number
of entries; `RangeAssumption`: the heap is in the kernel half and below the device
addresses, and above the physical map; `BootTreeAssumption`: the boot loader's tables
are a tree that maps frames outside the pool; `PoolAssumption`: so are the root and
the device frames; `RootAssumption`: the physical map is in the root and the lower half
has nothing that unmap_lomem keeps; `SectionAssumption`: the sections are pages the boot
loader mapped, none writable and executable; `ProgramAssumption`: a program lies in the
lower half). The theorems are of `Spec /\ []InFull`: every call is for
a range of at least one page that the iterator walks in full (`Fits`). The code does not
check that, and `paging_straddle` shows that without it `MapExact` is false; the calls of
`paging` satisfy it, but for the header of no bytes, of which only TLC speaks.

* `TablesHold`: `TablesInv`. `Trees` gives every table a level and says that no two
  entries point to one table or one frame of the pool, and none to a free frame;
  `Place` says for each level of the iterator where it is and which entries above
  it have been made; `Pending` is what the call in progress has still to come to,
  and `Translates` that each of its pages is as the call will need it (`Due`) and
  every other page as the last call left it (`Kept`). Two pages have two ways
  through a tree (`WaysMeet`, `OwnEntry`), so that writing an entry changes one page
  (`WriteLeaf`), and a new table none (`NewLeaf`). The rest is that the arithmetic of
  the iterator, its first offset, its remainders and the chunk it cuts at the end
  of a table, comes to each page once: `FitPages`, `FitTurns`, `AtEntry`, `AtPage`.
* `MapExactHolds`, `KernelHalfSharedHolds`: parts of it. `StaysInTablesHolds`: an entry
  the iterator follows has been made (`DescendPlace`), so a walk is lost only
  where a frame is missing.
* `WriteXorExecuteHolds`: `Guarded` adds that a page of the kernel half is safe,
  belongs to a section that init_mem has still to come to, or is one of those nobody
  protects (`Excused`).
* `FrameUseHolds`: `Frugal` adds that a frame out of the pool is what some entry
  points to (`NoneLost`), which an overwritten entry would break; hence `Vacant`, and for
  it `BelowIo`, `OneProcess` and, for the entries unmap_lomem clears, `LowHalf`. All
  the pool is free at first and at most one process is made (the kernel's only
  call, in kmain.c:22-28, makes one and is commented out): a second one at the same
  addresses would overwrite the first one's entries, since both are mapped in
  `gKernel.cr3`, and lose its frames. That no frame is used twice or is free and used
  follows from `Trees` for every program; `Frugal` is kept when the program's headers
  are given different pages (`Apart`).
* `ImageLoadedHolds`, for any number of processes and headers at any alignment: `Loading`
  says that each byte of an item that was filled, but those a later item has or is given
  the page of, is in its page still (`Held`, `Contents`), and what
  the register CR3 holds between calls. A frame of the pool holds one page
  (`LeafOwn`), so filling one item changes the bytes at its own addresses and no other
  (`BytePlace`, `FillData`); pages below the kernel half are mapped by programs only
  (`LowPages`), so a byte that is there when an item is filled is in a frame of the pool.

Only model-checked, and why:

* `CallsReturn` of the heap and of the page walks, `NoStarvation`: liveness needs
  fairness and `ENABLED`.
* `Printed`, `PagesOnce`, `TreeExact`, `ReadBack`, `FoundExact`,
  `FailsForCause`: the contents they compare (a text, a tree, an image) are
  defined by recursion over data.

## Not modelled, and why

The TLB and caches; FPU state; pixels of glyphs; the wording of messages; CPU
feature detection beyond what a branch depends on; NMI and exceptions, for
which the kernel has no gate; the stack and SSE set-up of the kernel's
`_start.S`. Disk reads that fail are modelled for the MBR and VBR, not for
`mfs.c`, which does not look at them. `pic_disable`, `putu` and `strcmp` have no
caller. The string functions are used by their meaning. Of the partition record
nothing but the first sector is read by anybody. The headers `elf64.h`,
`elf_common.h` and `stdint.h` define types and constants of C and ELF and have
no behaviour.

## Plan

What can be modelled of the repository is, and what is left is proofs about the
modules that compute over data of any size (`Printf`, `MfsBoot`):
their definitions by recursion would first have to be replaced by folds or by
predicates on indices.
