# A TLA+ model of yetanotheros

yetanotheros is an operating system for i386 multiprocessors: a kernel
(`src/kernel`) and a small C library for its programs (`src/libc`). This directory
holds TLA+ modules that model it from the spinlock to the C library's `printf`, the
TLC configurations that check them on small instances, and proofs, checked by TLAPS, of
what matters most for instances of every size.

Run a model with `tlc -config <cfg> <module>`, check a proof with
`tlapm <module>.tla`.

## 1. The system and its parts

| Part | Code | Module |
|---|---|---|
| CPU spinlocks, interrupt and preemption counters | `arch/i386/cpu/spinlock.c`, `cpu/cpu.c` | `Spinlock` |
| CPU start, the scheduler checkpoint | `cpu/smp.c`, `kernel/cpu/checkpoint.c` | `Checkpoint`, `Barrier` |
| Scheduler, life of threads and processes | `arch/i386/scheduler.c`, `interrupts.c` | `Scheduler` |
| Interrupts inside the scheduler | `scheduler.c`, `serial.c` | `SchedIrq` |
| Thread mutexes and conditions | `arch/i386/thread_lock.c` | `ThreadLock`, `Monitor` |
| Exclusive buffers | `kernel/exclusive_buffer.c` | `ExclusiveBuffer` |
| Order of the kernel's locks, TLB shoot-down | `heap.c`, `palloc.c`, `paging/kernel.c`, `paging/ipi.c` | `KernelLocks` |
| Page frames, kernel heap | `palloc.c`, `heap.c` | `Palloc`, `KernelHeap` |
| Memory map, boot page tables | `memlayout.c`, `boot/early_paging.c` | `BootPaging` |
| Process memory: `brk`, `fork`, reads and writes | `proc.c`, `paging/core.c` | `ProcMemory` |
| ELF loader | `kernel/exec/elf/core.c` | `Loader` |
| Frames of new, switched and interrupted threads | `thread.c`, `isr_stubs.S`, `thread_switch.S` | `ThreadFrames` |
| ATA block cache | `kernel/drivers/ata/generic.c` | `BlockCache`, `BlockLocks` |
| Drives, partitions, ATA registers | `kernel/block`, `kernel/devices/ata_pio.c` | `BlockDevices` |
| FAT | `kernel/fs/fat*.c` | `FatFs`, `FatDirectories` |
| Open files, descriptors, FAT nodes | `kernel/vfs/file*.c`, `kernel/syscall/file.c`, `fat_vfs.c` | `OpenFiles` |
| Mounts, devfs, character devices | `kernel/vfs/core.c`, `kernel/fs/devfs*`, `kernel/char` | `Mounts` |
| Serial ports | `arch/i386/serial.c` | `Serial` |
| CPUs, interrupt lines, PCI functions | `mpt.c`, `cpu/apic.c`, `kernel/devices/pci.c` | `Machine` |
| System calls | `syscall.c`, `kernel/syscall` | in `Scheduler`, `OpenFiles`, `ProcMemory`, `Serial` |
| C library: heap | `libc/stdlib/heap.c` | `LibcHeap`, `Allocator` |
| C library: streams | `libc/stdio/stream.c` | `Stream` |
| Strings, conversions, formatting | `libc/string`, `libc/stdlib/convert.c`, `kernel/printf.c` | `Text` |
| Boot, descriptor tables, timers, debug output | | not modelled, see section 7 |

The parts build on each other. The *spinlock* excludes CPUs. It is recursive on a CPU
and lets interrupts in again once it is held. One spinlock protects everything the
*scheduler* owns. The CPUs enter the scheduler through a *checkpoint* that none passes
before all have come. *Mutexes and conditions* are made of a spinlock of their own and
of the scheduler's wait and notify. The *buffers*, and every driver and file system
above them, use mutexes and conditions, and a few short spinlocks.

Memory comes in layers as well: *page frames* are handed out to the *kernel heap*,
which maps them behind its end, and to *processes*, which get them through `exec`,
`brk` and `fork`; in a process `malloc` cuts up what `sbrk` returns. Data pass from
*drives and partitions* through the *block cache* to *FAT*, whose files processes reach
through *mounts*, *nodes* and *file objects*; output goes from *streams* through file
objects to the *serial port*.

Each module takes from the one below what that one is shown to guarantee:
`Scheduler` treats a critical section of the lock as one step because `Spinlock` shows
that it excludes; `SchedIrq` looks at what that leaves out; `ThreadLock` opens the
critical sections again where two locks overlap; `ExclusiveBuffer` uses mutex and
condition as the monitor that `ThreadLock` is shown to implement; `BlockCache`,
`OpenFiles` and `ProcMemory` take a mutex as given, and `Serial` a buffer as the queue
that `ExclusiveBuffer` is shown to be.

## 2. The modules

**Spinlock.** `cpu_spinlock_acquire` and `cpu_spinlock_release`, statement by
statement, on CPUs that each run a thread and, when IF allows it, an interrupt handler
on top of it. A step makes at most one access to the shared fields `locked`, `num`,
`cpu`. `push_no_interrupts`, `pop_no_interrupts`, `preempt_disable` and
`preempt_enable` touch fields of one CPU with its interrupts disabled, and are a step
each. `depth` is a history variable: how often each context holds the lock. The copies of
the call stack are left out.

**Checkpoint** and **Barrier.** The boot CPU starts the others one at a time
(`start_ap` waits for the active flag); a CPU counts itself, then sets its flag, then
enters the checkpoint: increment, and a loop that loads `num` and compares it with
`nof_active_cpus`. `Barrier` is the promise: a CPU passes when all have entered.
`ImplementsBarrier` is the refinement.

**Scheduler.** An action is one critical section of `global_scheduler_lock`, from the
acquire to the release on the other side of the thread switch. The scheduler loop is
split by what it does with the thread it pops (`SchedIdle`, `DestroyThread`,
`DestroyLastThread`, `KeepSleeping`, `RunThread`, `DropThread`); `reschedule` is shared
by `thread_yield`, `thread_exit`, `thread_sleep`, `sched_thread_wait`, `proc_exit` and
`proc_wait`, as in the code. `TimerTick` and `TimerPreempt` are the timer's part of
`generic_interrupt_handler`. Lists whose order matters are kept with their order
(`born` gives the insertion order of threads and processes, which decides whom a walk
of the list finds first). `collected` and `frame` hold what a blocked call will do when
it goes on. Performance counters, stacks and page directories are left out.

**SchedIrq.** The loop's critical section again, with the pop in its two statements and
an interrupt handler (`com_irq_handler`) that notifies a condition. Interrupts are
enabled in the loop, and disabled in the paths that come from `thread_lock.c`.

**ThreadLock** and **Monitor.** `thread_mutex_acquire`, `thread_mutex_release`,
`thread_cond_wait` and `thread_cond_notify` over two spinlocks, in the steps other
threads can see: the mutex's spinlock is given up only after the scheduler's lock is
held (`WaitGlobal`, `WaitUnspin`, `Block`). A notification may come at any time from
anybody, as from interrupts. `Monitor` is the promise: one owner, wait is
atomic with the release, a notify wakes one thread that waits.

**ExclusiveBuffer.** Every call of `exclusive_buffer.h` on a buffer of fixed size. A
step is what a thread does from getting the mutex to the next point where it may give
it up; the notification after the release is a step of its own. `eb_write` and
`eb_read` take one step per round of their loops, since the rounds differ in what they
look at. Bytes are numbered in the order of writing (`accepted`, `delivered`).

**Palloc.** The list of free pages, with its links and the magic number kept in the
pages themselves, as the code does it. Regions are added page by page at boot,
overlaps included. `palloc` takes the head under the lock and clears the page after it
(`ClearPage`); in between other callers run.

**KernelHeap.** `kalloc` and `kfree` on the list of blocks: first fit with alignment,
`unsafe_grow_heap` with the pages it maps, `unsafe_truncate_heap`. Addresses
are small integers; the contents are left out. The two calls are atomic, the heap's
lock being held throughout.

**KernelLocks.** What `KernelHeap`, `Palloc`, `ProcMemory` and `Scheduler` hide: each
routine of the kernel as the sequence of spinlocks it takes and releases, on CPUs whose
handlers take locks on top, and the IPI of `paging/ipi.c`, whose sender waits with the
locks held for each CPU's acknowledgement.

**ProcMemory.** Page directories, tables and frames of processes: `proc_alloc`,
`proc_vmreserve`, `proc_set_break`, `proc_brk` and `proc_sbrk` page by page, `proc_fork`
with `vmdup` page by page while other processes run, `proc_vmwrite` through `vmxchg`.
`expected` is a history variable: what each process wrote. `exec` leaves the break at the
page after the last one it reserved, and `unsafe_brk` refuses a break in a page of the
kernel's global regions (`GlobalPages`); a reservation that meets a directory entry of the
kernel's (`KernelDirs`) on its way panics in `paging_map`, and the call does not return.
When `palloc` has no frame, the code maps frame 0, and so does the model (`failed` marks
the behaviours in which it happened).

**LibcHeap** and **Allocator.** `malloc` and `free` of the C library on what `sbrk`
gives; headers are part of memory. `Allocator` is the promise: an allocation
shares no memory with another, header included, until it is freed.

**BootPaging**, **Loader**, **ThreadFrames.** Functions rather than processes: the map
of regions with the directory and tables `early_init_kernel_paging` builds from it; the
pages `exec_user_elf_program` reserves and the ranges it writes; the words that the
stubs, `thread_switch` and the functions of `thread.c` put on a stack and take from it.
Each is evaluated on a set of inputs (layouts, programs, frames).

**BlockCache** and **BlockLocks.** The cache of `generic.c`, shared by all drives:
look-up, hit count, choice of the entry with the lowest count, a new mutex for it, the
wait for the mutex after the spinlock is released, reading, unlocking in its two steps.
`BlockLocks` is the promise: a block has one holder.

**OpenFiles.** `open`, `close`, `read`, `lseek` and `fork` of threads in several
processes: descriptors under the process lock, reference counts under the node's lock,
the node cache of FAT with its truncation, one action per critical section.

**FatFs** and **FatDirectories.** Volumes, chains, directories and paths as functions of
an image. `FatFs` has the boot sector with the FAT types, the chains, and `fat_read` with
its loop over clusters and blocks. In `FatDirectories` the entries of a directory lie in
its clusters and come through that `fat_read`, wrong sectors included: `fat_read_entry`
with long names and with short ones as they are stored, filled up with blanks,
`fat_walk_path`, and the leaves of a node. Errors and panics are results of their own.

**Mounts.** `vfs_mount`, `vfs_get`, `vfs_put`, devfs and `cdev_register`, with the
kernel's `kstrcmp` and `kstrncmp` as they are (prefixes compare equal). A path leads to the
file system mounted closest above it. A path that starts the path of a mount leads to the
newest mount below it instead, so `/` leads into `/dev` once that is mounted;
`NearestMount` says both.

**BlockDevices.** What `generic.c` registers for the drives found, `mbr.c` for their
partitions and the partitions of those, and the registers a read programs (LBA28 or
LBA48).

**Serial.** The handler thread and the interrupt, subscribers and their buffers,
devices that write while bytes arrive.

**Machine.** The walk of the MP table through its memory, CPUs, I/O APICs with masking
and unmasking, PCI buses, devices and functions, drivers that register.

**Stream** and **Text.** Output of a `FILE` in its three modes with writes that may fail
or take any part of the buffer, none of it included, as the root of devfs does. `places`
and `dropped` are history variables: where the characters written come from, and how
many a write has left over. `Text` has `itoa`, `strtol`, `memmove`, `strstr`, `getenv` and
the formatted output of the library and the kernel, each against a reference definition.

**MCMemory** and **MCFiles** put parts side by side. The variable `part` picks one of
them, and a behaviour is a behaviour of that part while the variables of the others
stay in their initial states: the state spaces add up and do not multiply. The parts
meet through interfaces that are modelled on each side, never through shared variables,
so nothing is lost. The other MC modules (`MCScheduler`, `MCExclusiveBuffer`) only
add symmetry sets and constant values.

## 3. The runs

| Run | Shows |
|---|---|
| `spinlock_lock` | `MutualExclusion`; no `kpanic` of the lock or the counters is reachable (`NoPanic`); the counters balance across interrupts (`InterruptsRestored`); a handler never spins for a lock its own CPU has (`NoSelfWait`); when somebody spins, somebody gets the lock (`SomebodyGetsIt`) |
| `checkpoint_boot` | the checkpoint is a barrier, and everybody passes it |
| `scheduler_calls` | every thread is in exactly one place (`Placement`); the last thread of the kernel is never destroyed; a process has threads exactly while it can run, and no child is missed (`ProcessesSound`) or returned twice (`ReturnedOnce`); process states only advance (`ProcLifecycle`) |
| `scheduler_progress` | a ready thread runs, if notifications stop (`ReadyRuns`); an exiting process ends (`ExitCompletes`) |
| `scheduler_interrupt` | **violation**, section 4 |
| `threadlock_monitor` | `ImplementsMonitor`; a free mutex with waiters has somebody on the way to it (`NoLostWakeup`); when somebody wants the mutex, somebody gets it (`SomebodyOwns`) |
| `buffer_calls` | the buffer is a queue and `EBF_EOF` says whether it is empty (`BufferIsQueue`); a single thread in `eb_flush` is woken when the data are drained (`FlushReturns`) |
| `buffer_write` | **violation**, section 4 |
| `memory` | frames, heap blocks and their pages are owned once and kept (`PagesSound`, `HeapSound`); CPUs never wait for each other in a circle, and an acknowledgement is the target's (`NoCircularWait`, `AcknowledgedByTarget`); a process reads what it wrote, from frames of its own (`MemoryOwn`), and what it may use is reserved and inside its range (`MemoryReserved`); `malloc` is an allocator (`LibcHeapAllocates`); the boot tables map every static region, and the directory needs no change later (`BootTablesSound`); the loader writes what it reserved and keeps the environment apart (`LoadedSound`); new threads enter where they should, and an interrupt, also across a switch, is not noticed (`FramesMatch`) |
| `kernel_deadlock` | **violation**, section 4: the locks with the routine that frees a dead thread |
| `files` | the cache gives out the right data under a valid index (`EntriesSound`) and is one lock per block (`OneHolderPerBlock`); counts of files and nodes are exact (`RefsExact`); FAT reads, names, leaves and paths (`FileBytesRight`, `DirectoriesRight`); mounts and devices (`PathsResolve`); drives, partitions and ATA registers (`BlocksReached`); serial output and streams keep their order (`WritesSentInOrder`, `StreamSound`); strings, conversions and formatting compute what they should (`TextRight`); CPUs, lines and PCI functions are found and driven once (`MachineFound`) |
| `fat_read` | **violation**, section 4 |

For every property of a passing run `PROJECT.json` names one change of the model, as a
plausible mistake in the code would make it, under which TLC finds the property
violated. These operators are marked "Mutation" in the modules. A property of several
parts is a conjunction of definitions that stand above it in its module, each with what
it says.

### Bounds

- Spinlock: two CPUs, each context holds the lock at most twice (`MaxDepth`), so four
  contexts compete; the second level is where nesting differs from the first.
- Checkpoint: four CPUs, so that the boot CPU can still be starting one while two
  others compare. The proof covers any number.
- Scheduler: two CPUs and the thread of `kernel_main` with up to three others; three
  user processes (two for liveness). A thread object and a PID are used once, which
  bounds the runs: nothing recycles a PID in the code either. `MaxSleep` is 0 in the
  runs: a sleeper is popped and put back (`KeepSleeping`) at least until the next tick.
- ThreadLock: four threads: one owns, one has barged in, one is woken, one is blocked.
- ExclusiveBuffer: two bytes, requests of one or two, three threads that make every
  call. A request can be larger than the room that is left, and the contents have
  to be moved. Requests of up to three bytes where a write larger than the buffer is
  the question.

- Palloc: four pages, one of them outside the region that is mapped, two callers: a
  list of three has a middle. KernelHeap: up to four allocations of sizes 0, 1 and 3
  behind headers of 3 with alignments 1 and 4, pages of 4, so that headers, gaps and
  blocks end on, before and after page boundaries.
- KernelLocks: three CPUs (two where two suffice for the circle): a sender, a target
  and a third that spins.
- ProcMemory: two processes, seven frames, directories and tables of three entries, two
  bytes per page. Seven frames are a directory, two tables and pages for both, and are
  used up by a fork after a `brk`.
- LibcHeap: sizes 1 and 3 in a heap of 11: three allocations, any of which may be freed.
- BootPaging, Loader, ThreadFrames: the layouts, programs and frames are listed
  in `MCMemory`: regions that share a page table, begin or end with one, or are empty;
  segments, sections and environments that end on, before and behind a boundary; both
  rings, with and without an error code.
- BlockCache: three threads, three blocks of two drives, two entries: every look-up
  that misses may evict. The proof covers any sizes.
- OpenFiles: two threads in two processes, two descriptors, two files, two file objects,
  a node cache truncated at one: nodes are dropped and found again. Two file objects
  are enough to reuse one that a call in progress has in hand. The proof covers any
  sizes.
- FatFs: sectors of four bytes, all volumes of a few sectors, reads of any offset and
  length from chains with clusters of one, two and four sectors, adjacent and apart.
  FatDirectories: entries of two bytes, so that a sector has two; directories of up to
  three files over several clusters, with long and short names of all lengths, unused
  and deleted entries, with and without room for the end mark, in clusters of one, two and
  four sectors; paths of one and two components that name a file, a prefix of one, or none.
- Mounts, BlockDevices: paths and names that start with each other; partitions that
  begin, end or overlap at the boundaries of their parent; block numbers around 2^28.
- Serial: two devices, one of them another port's, buffers and FIFO of two. Stream: a
  buffer of three and at most five characters, so a batch begins behind a full buffer, and
  every result of each write; the proof covers any sizes.
- Text: integers of eight bits, all of them; strings of up to four characters of an
  alphabet of two or three.
- Machine: tables of up to three entries of both lengths, with more CPUs and lines than
  there is room for; two PCI buses, two devices of up to three functions.

Symmetry is used for safety only. `CHECK_DEADLOCK FALSE` appears where the system may
really stop: `eb_free` keeps the mutex for ever, as its comment says it does; the
programs, devices and look-ups of `MCFiles` may be done. In `memory` deadlock is checked
where it means something: the CPUs of `KernelLocks` can always move.

### Fairness

- Scheduler: each CPU goes on with its loop, and ticks and preemptions keep coming: the
  APIC timer is periodic. Nothing is assumed of the threads.
- Checkpoint: each CPU goes on.
- ThreadLock: a thread goes on when it can, and an owner gives the mutex up. Weak
  fairness only: which waiter gets the mutex is open, as in the code.
- Spinlock: strong fairness for the steps of a context, since it is suspended again and
  again by interrupts that the hardware lets it survive; a handler returns.
- ExclusiveBuffer: strong fairness for a thread in a call, which includes getting the
  mutex when it is free again and again. `thread_mutex` does not strictly promise that;
  it makes the violation stronger (it is not starvation), and for `FlushReturns` it is
  an assumption. The serial handler thread polls for ever, as its loop does.

## 4. Disagreements found

1. `scheduler_interrupt`. `cpu_spinlock_acquire` leaves interrupts as they were, so a
   serial interrupt can come between `STAILQ_FIRST` and `STAILQ_REMOVE_HEAD` in the
   scheduler loop, nest the lock on its CPU, and put a notified thread at the head of the
   queue. The loop removes that thread, which is lost, and runs one that stays queued.
2. `buffer_write`. An `eb_write` of more than the room that is left waits before it has
   cleared `EBF_EOF`, so readers see an empty buffer, and it never returns. With the
   flag clear it still looks at `tail` without moving the contents.
3. `kernel_deadlock`. `destroy_thread` frees the thread with the scheduler's lock held,
   so the heap's lock is taken under it; `kalloc` holds the heap's lock with interrupts
   enabled, and a handler on top of it takes the scheduler's. The check of `kalloc`
   against deadlocks (interrupts must be on) does not cover it. Without that routine
   `NoCircularWait` holds (`memory`).
4. `fat_read`. The loop over the blocks of a cluster begins at the cluster's first block
   whatever the offset, and its bound divides by the wrong quantity: a read that does
   not begin in the first sector of a cluster, or goes on in one that does not follow on
   the disk, returns other sectors. It also leaves a cluster too
   early: a request for fewer bytes than a cluster has sectors takes one block of the
   cluster and goes on in the next. `ReadReturnsFileBytes`, a part of
   `FileBytesRight`, says what does work: a read that starts in the first sector of a
   cluster and either stays inside that sector, as the directory code's do where it
   works, or asks for at least as many bytes as a cluster has sectors and at most a
   sector, of a file in adjacent clusters. `DirectoriesRight` inherits this: with
   clusters of several sectors only a directory that ends in the first sector of its
   first cluster is read as it is.

Some disagreements show in the modules without a run of their own. The comment of
`cpu_spinlock_acquire` says that interrupts are disabled while the lock is held
(`spinlock.c:74`); the function ends with `pop_no_interrupts()`. An `eb_read` that
empties the buffer before it has all its bytes loops with the mutex held, since
`EBF_EOF` is only set after the loop. The device of COM2 subscribes to COM1
(`serial.c:326`), and received bytes go to output buffers (`serial.c:120`). The loader
puts the stack on the last page of the executable. `schedule_thread` makes an exiting
process ready again; nobody calls it for a user process. Short file names keep the blanks
they are stored with (`fat_core.c:309` says "TODO: This is wrong"), so a file whose name has
an extension and fewer than eight characters before it is not found by its name; a
directory that fills its last cluster has no end mark, and reading on is a panic. `/` leads
into `/dev` once that is mounted. What a short `write` leaves over is lost to a stream
(`stream.c:222`).

`Scheduler` and `ThreadLock` describe the system without the interrupt of number 1, and
`KernelHeap` and `Palloc` without the deadlock of number 3: their results are about the
code as long as these do not happen.

## 5. What is proved

The proofs hold for any sets of CPUs, threads, processes and conditions (finite where a
cardinality is taken), under the named assumptions of the modules: the sets of names
are disjoint, the boot CPU is a CPU, the threads queued at boot are different, buffers
are not empty, no file object is at address 0, paths and names are strings, the
devices of a serial port are different, sections of an executable lie in its segments,
the kernel's image fits into its part of the address space (see BootPaging), and the
kernel's global pages are in its directory entries. Two conditions are not assumptions of a module
but hypotheses of theorems, since the code keeps them by who calls what:
`KernelThreadsOnly` (`schedule_thread` is called for the kernel process alone, by the
macro of `scheduler.h:31`) and `NothingReaped` (the routine of disagreement 3 does not
run). The instances of `scheduler_calls` and `memory` satisfy them.

A module of proofs covers one to four components, each with invariants, lemmas and
theorems of its own. The prover is Zenon unless a step names the SMT solver (`SMTT`), which
the steps with arithmetic and sequences do:

| Proofs | About |
|---|---|
| `SchedulerProofs` | `Scheduler` |
| `PrimitiveProofs` | `Spinlock`, `LibcHeap` |
| `CPUProofs` | `BootPaging`, `Checkpoint`, `KernelLocks` |
| `MemoryProofs` | `Palloc`, `KernelHeap`, `Loader` |
| `ProcMemoryProofs` | `ProcMemory` |
| `BufferProofs` | `ExclusiveBuffer`, `BlockCache` |
| `DeviceProofs` | `ThreadLock`, `Mounts`, `Serial`, `Stream` |
| `OpenFilesProofs` | `OpenFiles` |

**Scheduler** (`SchedulerProofs`). `TypeCorrect`, `PlacementCorrect`, `KernelCorrect`,
`ProcessesCorrect`, `ExitFinal`. `Placement` alone is not inductive: that a popped
thread is on no CPU needs to know which states a thread on a CPU or on the queue can
have, and that the kernel's last thread is never destroyed needs to know that every CPU
past the checkpoint has its scheduler thread on the kernel's list. `Where` adds this,
and the inductive invariant is
`TypeOK /\ Where /\ DefunctWithoutThreads /\ NoMissedChild`. There is a lemma per
action; facts about removing, appending and pushing in front of a queue without
duplicates are lemmas of their own. `ExitFinal` follows from the invariant step by step.

**Children** (`SchedulerProofs`). `ReturnCorrect` (`Spec => []ReturnedOnce`) and
`LifecycleCorrect` (`Spec => ProcLifecycle`), both under `KernelThreadsOnly`. On top of the
invariant above, `ReturnInv` says that a user process has one thread (`OneThreadEach`),
that the call a thread is blocked in goes with its state (`FramesFit`), that a process
ends by `proc_exit` and has a status from then on (`EndsByExit`), that a child found by
`make_process_defunct` is in the hands of one woken thread until it is returned
(`Claimed`), and that a collected child either was returned or is in such hands
(`Counted`). With two threads in a process the second claim would be lost, which is why
the hypothesis is needed.

**Spinlock** (`PrimitiveProofs`). `TypeCorrect`, `Exclusion`, `PanicFree`, `Restored`,
`NeverSelfWaiting`, for any `MaxDepth`. None of the last four is inductive. `Counters`
says of each CPU where the context that is not running can be, what the two counters are
the sums of, and what `int_enabled` and the saved flags hold; `Lock` says that at most one
CPU owns the lock, that `locked` and `cpu` tell it, and that `num` is the sum of the
depths of its two contexts, with the values at each statement of acquire and release where
that is not so yet. `StepOfOneCPU` reduces a step to the part of the CPU that makes it,
and there is a lemma per statement.

**LibcHeap** (`PrimitiveProofs`). `LibcHeapCorrect`
(`LibcHeapSpec => LibcHeapAllocates`): the refinement of `Allocator`, and that the list
of headers is whole in both directions, for any sizes, any number of allocations and any
order of freeing them. `ListWhole` follows the links in the headers, and is not inductive.
`LibcHeapInv` says that there is a sequence of addresses from 0 to `cur_size` whose
distances are the sizes in the headers there (`Tiles`), that the links of a header are
its neighbours in it (`Links`), that `first` and `last` are its ends and the program
holds exactly what is not free (`Listed`), and that the last one is not free. Nothing is said
of the headers behind `cur_size`: they are memory that was cut off, and still look like
headers. `DropIs` says where the loop of `unsafe_truncate_heap` stops, at the last tile in
use (`LastUsedExists`), and `LinkedIs` that following `next` visits the tiles.

**BootPaging** (`CPUProofs`). `BootTablesCorrect` (`BootPagingSpec => []BootTablesSound`),
for any sizes of the image's sections, of low memory and of the tables. The assumptions
are those of the code: low memory ends inside the first page table and holds the entry of
the other CPUs, and the image, rounded up to whole tables as in `multiboot.ld`, ends before
the devices and is no larger than what is below it. A page is in one region at most
(`OneRegion`), so the order in which the loops over the regions write does not matter.
`MapLoop` and `MarkLoop` carry two invariants over them: an entry of the directory has
the table of its index and no right that no region there has (`DirectorySound`), and
after `n` regions their tables are present (`Marked`).

**Checkpoint** (`CPUProofs`). `TypeCorrect` and `CheckpointIsBarrier` (`Spec =>
ImplementsBarrier`). The invariant says how far a CPU is when it has been counted
(`Order`), that the two counters are the sizes of two sets of CPUs (`Counters`), and that
a loaded value was at most the value now (`Loads`). `PassesLast` then gives that equal
counters mean everybody has entered: while the boot CPU has not entered, it is counted and
missing.

**KernelLocks** (`CPUProofs`). `AcknowledgeCorrect` and `NoDeadlock`, for any number of
CPUs, under `NothingReaped`. `Ordered` says of a list of operations that each lock is
taken while only lower ones are held, the shoot-down comes after the locks it is made
under, and everything is given back; each routine is `Ordered`, and so is what is left of it
after each operation. `HeldByFrames` ties the holder and the count of a lock to
what the routine and the handler of a CPU have still to release, `AskedOne` says that the
only IPI under way is to the CPU asked last. In a circle of waiting CPUs each would be
further on in the order than the one before (`WaitsUp`): a CPU whose acknowledgement is
missing is in a handler, and the one lock a handler takes, the scheduler's, comes last.

**Palloc** (`MemoryProofs`). `PagesCorrect`. `PagesSound` speaks of the walk of the list,
which is not inductive; `PallocInv` says instead that there is a sequence of pages
without duplicates whose neighbours are the links in the pages, that nobody has a page of
it or one of somebody else's, and that at boot, when the magic number decides, only its
pages carry it.

**KernelHeap** (`MemoryProofs`). `HeapCorrect`. `HeapInv` keeps the list of blocks tiled
from the base to `cur_size`, the requests that were answered in it, the pages mapped
once up to `heap_size`, and the last block in use, which is what
`unsafe_truncate_heap` is for. The arithmetic of alignment and pages is in lemmas
of its own (`DivMod`, `Rounded`, `DivGrows`).

**Loader** (`MemoryProofs`). `LoaderCorrect` (`LoaderSpec => []LoadedSound`), for any
segments and sections, any number of strings of any length, and any sizes of page and
pointer. The loader computes one result per program, so there is nothing to strengthen;
the work is in the arithmetic. `BreakIs` says that the break after the loop over the
segments is a page at or behind the last page of each, `OffsetsAre` and `OffsetsGrow`
what the sum of the strings is and that it grows with each of them, `EnvInside` that a
byte of the environment is in one of the pages `formatted_env_size` reserves. The
assumption that a section with an address and a size lies in a segment is the linker's;
without it `handle_section_load` would write where nothing is reserved.

**ProcMemory** (`ProcMemoryProofs`). `MemoryCorrect` (`[]MemoryOwn`) and `ReservedCorrect`
(`[]MemoryReserved`), for any number of processes and frames, any size of tables and
pages and any values. The two properties speak of what the processor finds when it walks
the tables, and neither is inductive. `Owning` says that no frame in a directory or
table is free and that none is in two places, `Rows` that a present entry has a frame unless
memory has run out and that a free frame holds an empty table, `Breaks` and `BrkJobs` what
is reserved for a process that runs and for one in the middle of `unsafe_brk`, `ForkJobs`
and `Copies` that the child of a fork has exactly the pages `vmdup` has come past, with
the parent's contents, `Ranges`, `Contents` and `Backed` the properties for a process in
terms of frames. Together with the types they are `MemInv`. The lemmas before it say, once
for each kind of change (a new directory, a new table, a new page, a new child), which
walks change and which do not; then there is a lemma per action. `BreakBacked` is
about the bytes below the break: right after `exec` the break is the first byte of a page
nobody has reserved. Nothing is assumed about the size of memory. A break above the
kernel's part passes the checks of `unsafe_brk` on a machine with enough free frames; the
loop then meets the kernel's directory entries first and panics in `paging_map`, so the
break is never moved there.

**ThreadLock** (`DeviceProofs`). `TypeCorrect`, `WakeupCorrect`, `LockIsMonitor`
(`Spec => ImplementsMonitor`). The invariant says who holds the spinlocks at which
step (`Holders`), that a locked mutex has an owner (`LockedHeld`), what a call is doing
at a step (`CallSteps`), what the scheduler thinks of the thread (`SchedState`), and
that a free mutex with waiters has a notification or a woken thread under way
(`WakeupPending`).

**Mounts** (`DeviceProofs`). `PathsCorrect`, for any mount points, device names and paths.
`kstrcmp` takes a prefix for equal, so what a look-up finds depends on the order of the
list. `MountsOrdered` and `DevicesOrdered` say that `vfs_mount` and `cdev_register`, which
refuse what an older entry already matches, keep the lists in an order in which the first match
is the right one. The theorem covers every path. For one above some mount point,
`BelowMatches` says that each of these mounts matches it, `StartsThrough` that
whatever starts the start of a path starts the path, and `NewestBelow` that the newest mount
below the path is newer than those above it, so that the look-up stops there.

**Serial** (`DeviceProofs`). `SerialCorrect`. `SerialInv` says that the bytes of a device
are, in its order, those on the wire, those in the batch of the handler and those in its
buffer, none missing and none twice, although the wire also carries bytes of others.

**ExclusiveBuffer** (`BufferProofs`). `BufferTypeCorrect`, `BufferIsFifo`, `EofIsExact` and
the two together, `BufferQueues`, for any size of the buffer, any requests and any
threads. The inductive invariant is
`DataType /\ Fifo /\ Control /\ EofInv`: `Control` says which call a thread is in at
each of its steps and who may have the mutex there, `EofInv` says when the flag may
disagree with the contents (a writer in the middle of its data). `Fifo` relates the
bytes accepted and delivered to the contents, and the lemmas on subsequences carry it
over a move of the head and a batch in or out.

**BlockCache** (`BufferProofs`). `IndexStaysValid`, `DataIsOwn`, the two together
(`EntriesCorrect`), and `CacheLocksBlocks`, for any size
of the cache and any threads, drives and blocks. `IndexValidUntilUnlock` counts
references, so a victim with count 0 is in nobody's hands; that the mutex made anew was
free needs `MutexHeld` (a holder has an index), that two threads with one block have one
entry needs `FirstReferenced` (of the entries for a block only the first is ever
referenced), and `ZeroesUntilRead` says what an entry holds before it is valid. Together
with `CacheType` and `HasEntry` they are `CacheInv`. For the refinement, acquiring the
mutex is `LockBlock`, releasing it is `UnlockBlock`, and every other step leaves the
holders alone.

**OpenFiles** (`OpenFilesProofs`). `RefsCorrect`: `OpenFilesSpec => []RefsExact`, for any
finite sets of threads and descriptors and any files. The counts alone are not inductive.
`Bindings` adds that a process that has not been forked yet has no descriptors, so the
child's are all new; `CallsHave` says at which step a call has a file; `PutsLast` says
that a file without references is in the hands of the one call that puts it, so nobody
meets the file that `PutNode` frees. `CallCounts`, `BindCounts` and `FilesCounts` say how
a step of one thread changes the three cardinalities, `CallInv` covers the steps that only
move a call on, and `TruncateKeeps` shows that truncation removes a node with count 0 and
no other.

**Stream** (`DeviceProofs`). `StreamCorrect`: `StreamSpec => []StreamSound`, for any
buffer size, mode and data, and any results of `write`. What was sent is a subsequence of
what was given, by increasing `places`, and its length, that of the buffer and `dropped`
add up, so a short write loses what it leaves over (a TODO in the code) and nothing else.
`NewlineKnown` is the strengthening: while no write has failed, a newline in the buffer
means that the loop has noted it in `loc` and flushes before it returns; `BetweenCalls`
says that nothing is left to flush when `fwrite` is over. `BatchFits` is the lemma on the
batch: it is not empty and fits what is left of the buffer, also when it is cut at a
newline.

## 6. What is only model-checked

Liveness (`SomebodyGetsIt`, `EverybodyPasses`, `ReadyRuns`, `ExitCompletes`,
`SomebodyOwns`, `FlushReturns`) needs fairness and is out of reach of the prover.
`FatDirectories`, `Text`, `Machine` and `BlockDevices` are written with recursive
operators over sequences (entries, strings, tables), which the prover cannot use, and
`FatFs` with recursive functions, for which its induction theorems cannot be instantiated;
they are evaluated on all inputs of their bounds. `ThreadFrames` is a function of a frame,
and its frames are few enough to list them all.

## 7. What is not modelled

- Boot code, descriptor tables, the PIC, the PIT, the local APIC and the start of a CPU
  through its trampoline are straight-line programming of hardware; what the modules
  need of it (interrupt gates clear IF, ticks come, the order of `init.c`) is part of
  their actions. The search for the MP table and its dump, and the PCI calls no driver
  uses (base address registers, writes of single bytes), are of this kind too.
- Debug output and the VGA console: the buffer is `ExclusiveBuffer`, the formatting
  `Text`, the rest moves characters to a screen.
- Code nobody calls: `proc_free`, growing exclusive buffers, `devfs_unregister_node`,
  unsubscribing from a serial port. Writing to drives is a stub.
- The checks of an ELF header, all of them kasserts, and the contents of segments.
- Input, seeking and closing of streams, the table of `atexit`, `errno`: one step each
  on top of a system call, in a program with one thread.
- The in-kernel tests and `kernel_main` use the parts and have no state of their own.
- Weak memory: a step reads and writes memory at once, as x86 does for the locked
  instructions and the C11 atomics the code uses at these places.

What could go wrong and has no property, with the reason:

- `proc_wait` of a process without children blocks for ever; only the process itself
  could create one.
- All waiting threads of a parent are woken for one child and return the same PID; user
  processes have one thread. For the same reason the timer never ends a thread that
  holds a mutex.
- Collected and orphaned processes stay on the list (`scheduler.c:77`): nothing limits
  it, and the models create each process once.
- `thread_sleep` multiplies in 32 bits, `calloc` does not check its product, the address
  checks of partitions wrap: arguments no caller in the repository passes.
- `cdev_register` acquires a mutex with a spinlock held, which would panic if it had to
  wait; devices are registered at boot by one thread.
- A serial interrupt between the check of the port and the wait is lost until the next;
  a received byte is late, which nothing forbids.
- Empty FAT files share a node (a TODO in `fat_vfs.c`), `get_leaf` keeps a reference:
  only the in-kernel test lists directories.
- A write of more than two kernel buffers reads from the wrong place
  (`syscall/file.c:203`), a read copies its whole buffer for a short batch: no program
  of the repository does either.
- A full block cache panics: 20 entries, and a thread locks one block at a time.
- `fclose` does not flush, and `fwrite` divides by the number of items: `Stream` ends
  with the last write, and leaves the result out.
- The stub of the stack fault (vector 0c) expects no error code: the kernel panics on
  this exception.
