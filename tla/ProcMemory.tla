------------------------------ MODULE ProcMemory ------------------------------
(***************************************************************************)
(* The memory of processes: kernel/arch/i386/proc.c over the page tables   *)
(* of kernel/arch/i386/paging/core.c.                                      *)
(*                                                                         *)
(* A frame is a physical page; frame 0 is PHYS_NULL, which is also the     *)
(* first page of low memory.  Page directories and page tables live in     *)
(* frames.  A call holds the pd_mutex of its process; calls of different   *)
(* processes interleave page by page, since each page is a palloc.         *)
(***************************************************************************)
EXTENDS Integers, FiniteSets

CONSTANTS
  Procs,
  NofFrames,    \* frames palloc starts with
  Entries,      \* entries of a page directory and of a page table
  KernelDirs,   \* directory entries with the global bit in kernel_pd
  GlobalPages,  \* pages of the regions of vm_map with the global bit
  BytesPerPage,
  Values, Zero, \* what a byte holds; palloc clears pages
  LoadPages,    \* pages a program may be loaded to
  MaxWrites     \* bound: calls of proc_vmwrite

ASSUME ProcMemoryAssumption ==
  /\ {NofFrames, Entries, BytesPerPage, MaxWrites} \subseteq Nat \ {0}
  /\ KernelDirs \subseteq 0..(Entries - 1) /\ Zero \in Values
  /\ LoadPages \subseteq 1..(Entries * Entries - 1)

VARIABLES
  freeFrames,
  pd,           \* proc->arch->pd; 0: no such process yet
  dir, table,   \* entries of the page directories and page tables, by frame
  content,      \* the bytes of each frame that is used as memory
  vfrom, vto,   \* the pages reserved by a process
  vbreak, cur_vbreak,
  brkJob,       \* a brk in progress: the break asked for and the next page
  forkJob,      \* a fork in progress: the child and the next page
  writes,       \* calls of proc_vmwrite
  failed,       \* ghost: palloc has returned PHYS_NULL
  expected      \* ghost: what each process last wrote to its memory

procVars == <<freeFrames, pd, dir, table, content, vfrom, vto, vbreak, cur_vbreak, brkJob, forkJob, writes, failed, expected>>

Frames == 0..NofFrames
Index == 0..(Entries - 1)
UserPages == 1..(Entries * Entries - 1)   \* page 0 holds UVNULL
Offsets == 0..(BytesPerPage - 1)
UVNULL == 0

\* An entry: pte_get_paddr and PAGE_BIT_PRESENT.
Absent == [frame |-> 0, present |-> FALSE]
Entry(f) == [frame |-> f, present |-> TRUE]
NoJob == [v |-> 0, page |-> 0]
NoFork == [child |-> {}, page |-> 0]
Cleared == [o \in Offsets |-> Zero]

PageOf(v) == v \div BytesPerPage     \* mask_to_page
DirIndex(page) == page \div Entries
TableIndex(page) == page % Entries

Addresses == BytesPerPage..(Entries * Entries * BytesPerPage - 1)

\* A global page has a global directory entry.  Low memory at KM_VIRT_BASE is
\* not global, but has its directory entry together with the kernel's code.
ASSUME GlobalAssumption == \A page \in GlobalPages : DirIndex(page) \in KernelDirs

ProcMemoryInit ==
  /\ freeFrames = 1..NofFrames
  /\ pd = [p \in Procs |-> 0]
  /\ dir = [f \in Frames |-> [i \in Index |-> Absent]]
  /\ table = [f \in Frames |-> [i \in Index |-> Absent]]
  /\ content = [f \in Frames |-> Cleared]
  /\ vfrom = [p \in Procs |-> UVNULL] /\ vto = [p \in Procs |-> UVNULL]
  /\ vbreak = [p \in Procs |-> UVNULL] /\ cur_vbreak = [p \in Procs |-> UVNULL]
  /\ brkJob = [p \in Procs |-> NoJob] /\ forkJob = [p \in Procs |-> NoFork]
  /\ writes = 0 /\ failed = FALSE
  /\ expected = [p \in Procs |-> [page \in UserPages |-> Cleared]]

\* The frame the next palloc returns; which one does not matter.
NextFrame(free) == IF free = {} THEN 0 ELSE CHOOSE f \in free : TRUE

paging_get(p, page) ==
  LET pde == dir[pd[p]][DirIndex(page)] IN
  IF pde.frame = 0 THEN 0 ELSE table[pde.frame][TableIndex(page)].frame

BeingForked(p) == \E q \in Procs : forkJob[q].child = {p}

\* Nobody holds the pd_mutex of p.
Unlocked(p) == pd[p] # 0 /\ brkJob[p] = NoJob /\ forkJob[p] = NoFork /\ ~BeingForked(p)

Translated(p) == {page \in UserPages : DirIndex(page) \notin KernelDirs /\ paging_get(p, page) # 0}

-----------------------------------------------------------------------------
\* Processes are made by exec, which reserves pages before it sets the break.

\* paging_alloc_dir copies the entries of kernel_pd that are global.
KernelDirectory == [i \in Index |-> IF i \in KernelDirs THEN Entry(0) ELSE Absent]

\* Without a frame for the directory paging_alloc_dir faults.
proc_alloc(p) ==
  LET f == NextFrame(freeFrames) IN
  /\ pd[p] = 0 /\ f # 0 /\ \A q \in Procs : pd[q] = 0
  /\ pd' = [pd EXCEPT ![p] = f]
  /\ freeFrames' = freeFrames \ {f}
  /\ dir' = [dir EXCEPT ![f] = KernelDirectory]
  /\ UNCHANGED <<table, content, vfrom, vto, vbreak, cur_vbreak, brkJob, forkJob, writes, failed, expected>>

\* unsafe_vmreserve, with paging_map.  The frame for the page is allocated
\* first, without a look at the result; without one for the page table
\* paging_map faults.  It panics in a directory entry of the kernel's: the first
\* page there that a caller meets is the one at KM_VIRT_BASE, which the kernel
\* has mapped to PHYS_NULL, so that paging_get does not find it.
unsafe_vmreserve(p, page) ==
  LET f == NextFrame(freeFrames)
      pde == dir[pd[p]][DirIndex(page)]
      newTable == pde.frame = 0
      pt == IF newTable THEN NextFrame(freeFrames \ {f}) ELSE pde.frame
  IN /\ DirIndex(page) \notin KernelDirs
     /\ IF paging_get(p, page) # 0
        THEN UNCHANGED <<freeFrames, dir, table, content, vfrom, vto, failed>>
        ELSE /\ pt # 0
             /\ freeFrames' = freeFrames \ {f, pt}
             /\ dir' = [dir EXCEPT ![pd[p]][DirIndex(page)] = Entry(pt)]
             /\ table' = [table EXCEPT ![pt] =
                  [IF newTable THEN [i \in Index |-> Absent] ELSE @ EXCEPT ![TableIndex(page)] = Entry(f)]]
             /\ content' = [content EXCEPT ![f] = IF f = 0 THEN @ ELSE Cleared]
             /\ vfrom' = [vfrom EXCEPT ![p] = IF @ = UVNULL \/ @ > page THEN page ELSE @]
             /\ vto' = [vto EXCEPT ![p] = IF @ = UVNULL \/ @ < page THEN page ELSE @]
             /\ failed' = (failed \/ f = 0)

proc_vmreserve(p, page) ==
  /\ Unlocked(p) /\ vbreak[p] = UVNULL
  /\ unsafe_vmreserve(p, page)
  /\ UNCHANGED <<pd, vbreak, cur_vbreak, brkJob, forkJob, writes, expected>>

\* exec reserves the segments, the stack and the strings upwards and sets the
\* break to the page after the last one.
proc_set_break(p) ==
  /\ Unlocked(p) /\ vbreak[p] = UVNULL /\ vto[p] # UVNULL
  /\ vbreak' = [vbreak EXCEPT ![p] = (vto[p] + 1) * BytesPerPage]
  /\ cur_vbreak' = [cur_vbreak EXCEPT ![p] = (vto[p] + 1) * BytesPerPage]
  /\ UNCHANGED <<freeFrames, pd, dir, table, content, vfrom, vto, brkJob, forkJob, writes, failed, expected>>

-----------------------------------------------------------------------------
\* System calls of the process.

Running(p) == Unlocked(p) /\ vbreak[p] # UVNULL

\* The checks of unsafe_brk.  A call that fails them changes nothing.
unsafe_brk(p, v) ==
  /\ v >= vbreak[p] /\ PageOf(v) \notin GlobalPages
  /\ v - vbreak[p] <= Cardinality(freeFrames) * BytesPerPage
  /\ brkJob' = [brkJob EXCEPT ![p] = [v |-> v, page |-> PageOf(cur_vbreak[p])]]
  /\ UNCHANGED <<freeFrames, pd, dir, table, content, vfrom, vto, vbreak, cur_vbreak, forkJob, writes, failed, expected>>

proc_brk(p, v) == Running(p) /\ unsafe_brk(p, v)

\* The break is read with the pd_mutex held.
proc_sbrk(p, diff) == Running(p) /\ unsafe_brk(p, cur_vbreak[p] + diff)

\* Mutation: the last page that was asked for is not reserved.
BrkReserveShort(p) ==
  /\ brkJob[p] # NoJob /\ brkJob[p].page <= PageOf(brkJob[p].v)
  /\ IF brkJob[p].page < PageOf(brkJob[p].v) THEN unsafe_vmreserve(p, brkJob[p].page)
     ELSE UNCHANGED <<freeFrames, dir, table, content, vfrom, vto, failed>>
  /\ brkJob' = [brkJob EXCEPT ![p].page = @ + 1]
  /\ UNCHANGED <<pd, vbreak, cur_vbreak, forkJob, writes, expected>>

\* One round of its loop.
BrkReserve(p) ==
  /\ brkJob[p] # NoJob /\ brkJob[p].page <= PageOf(brkJob[p].v)
  /\ unsafe_vmreserve(p, brkJob[p].page)
  /\ brkJob' = [brkJob EXCEPT ![p].page = @ + 1]
  /\ UNCHANGED <<pd, vbreak, cur_vbreak, forkJob, writes, expected>>

BrkReturn(p) ==
  /\ brkJob[p] # NoJob /\ brkJob[p].page > PageOf(brkJob[p].v)
  /\ cur_vbreak' = [cur_vbreak EXCEPT ![p] = brkJob[p].v]
  /\ vto' = [vto EXCEPT ![p] = IF @ < PageOf(brkJob[p].v) THEN PageOf(brkJob[p].v) ELSE @]
  /\ brkJob' = [brkJob EXCEPT ![p] = NoJob]
  /\ UNCHANGED <<freeFrames, pd, dir, table, content, vfrom, vbreak, forkJob, writes, failed, expected>>

-----------------------------------------------------------------------------
\* fork

ForkStart(p, q) ==
  LET f == NextFrame(freeFrames) IN
  /\ Running(p) /\ pd[q] = 0 /\ f # 0
  /\ pd' = [pd EXCEPT ![q] = f]
  /\ freeFrames' = freeFrames \ {f}
  /\ dir' = [dir EXCEPT ![f] = KernelDirectory]
  /\ forkJob' = [forkJob EXCEPT ![p] = [child |-> {q}, page |-> 0]]
  /\ UNCHANGED <<table, content, vfrom, vto, vbreak, cur_vbreak, brkJob, writes, failed, expected>>

\* Mutation: the child gets the frames of its parent.
SharingDup(p, q, page) ==
  LET pde == dir[pd[p]][DirIndex(page)] IN
  /\ dir' = [dir EXCEPT ![pd[q]][DirIndex(page)] = pde]
  /\ UNCHANGED <<freeFrames, table, content, failed>>

\* vmdup and duplicate_pt: the table of a directory entry, then its pages, in
\* the order in which they allocate frames; no result is checked.
vmdup(p, q, page) ==
  LET pde == dir[pd[p]][DirIndex(page)]
      copied == pde.present /\ DirIndex(page) \notin KernelDirs
      newTable == copied /\ TableIndex(page) = 0
      pt == IF newTable THEN NextFrame(freeFrames) ELSE dir[pd[q]][DirIndex(page)].frame
      src == table[pde.frame][TableIndex(page)]
      rest == IF newTable THEN freeFrames \ {pt} ELSE freeFrames
      f == NextFrame(rest)
  IN IF ~copied THEN UNCHANGED <<freeFrames, dir, table, content, failed>>
     ELSE /\ dir' = [dir EXCEPT ![pd[q]][DirIndex(page)] = Entry(pt)]
          /\ IF ~src.present THEN freeFrames' = rest /\ UNCHANGED <<table, content>>
             ELSE /\ freeFrames' = rest \ {f}
                  /\ table' = [table EXCEPT ![pt][TableIndex(page)] = Entry(f)]
                  /\ content' = [content EXCEPT ![f] = content[src.frame]]
          /\ failed' = (failed \/ pt = 0 \/ (src.present /\ f = 0))

ForkPage(p) ==
  \E q \in forkJob[p].child :
    /\ forkJob[p].page < Entries * Entries
    /\ vmdup(p, q, forkJob[p].page)
    /\ forkJob' = [forkJob EXCEPT ![p].page = @ + 1]
    /\ UNCHANGED <<pd, vfrom, vto, vbreak, cur_vbreak, brkJob, writes, expected>>

ForkReturn(p) ==
  \E q \in forkJob[p].child :
    /\ forkJob[p].page = Entries * Entries
    /\ vfrom' = [vfrom EXCEPT ![q] = vfrom[p]] /\ vto' = [vto EXCEPT ![q] = vto[p]]
    /\ vbreak' = [vbreak EXCEPT ![q] = vbreak[p]]
    /\ cur_vbreak' = [cur_vbreak EXCEPT ![q] = cur_vbreak[p]]
    /\ expected' = [expected EXCEPT ![q] = expected[p]]
    /\ forkJob' = [forkJob EXCEPT ![p] = NoFork]
    /\ UNCHANGED <<freeFrames, pd, dir, table, content, brkJob, writes, failed>>

-----------------------------------------------------------------------------
\* vmread and vmwrite

\* Where vmxchg puts or takes byte k of the buffer: a batch up to the end of
\* the first page, then whole pages from offset 0.
vmxchg(v, num) ==
  LET off == v % BytesPerPage
      first == IF BytesPerPage - off < num THEN BytesPerPage - off ELSE num
  IN [k \in 0..(num - 1) |->
       IF k < first THEN <<PageOf(v), off + k>>
       ELSE <<PageOf(v) + 1 + ((k - first) \div BytesPerPage), (k - first) % BytesPerPage>>]

\* The kernel writes num bytes that all hold x; callers pass reserved memory.
proc_vmwrite(p, v, num, x) ==
  LET at == vmxchg(v, num)
      pages == {at[k][1] : k \in DOMAIN at}
      hit(page, o) == \E k \in DOMAIN at : at[k] = <<page, o>>
  IN /\ Unlocked(p) /\ writes < MaxWrites
     /\ writes' = writes + 1
     /\ pages \subseteq Translated(p)
     /\ content' = [f \in Frames |-> [o \in Offsets |->
          IF \E page \in pages : paging_get(p, page) = f /\ hit(page, o) THEN x ELSE content[f][o]]]
     /\ expected' = [expected EXCEPT ![p] = [page \in UserPages |-> [o \in Offsets |->
          IF page * BytesPerPage + o \in v..(v + num - 1) THEN x ELSE @[page][o]]]]
     /\ UNCHANGED <<freeFrames, pd, dir, table, vfrom, vto, vbreak, cur_vbreak, brkJob, forkJob, failed>>

ProcMemoryNext ==
  \E p \in Procs :
    \/ proc_alloc(p) \/ proc_set_break(p)
    \/ \E page \in LoadPages : proc_vmreserve(p, page)
    \/ \E v \in Addresses : proc_brk(p, v) \/ proc_sbrk(p, v - cur_vbreak[p])
    \/ BrkReserve(p) \/ BrkReturn(p)
    \/ \E q \in Procs : ForkStart(p, q)
    \/ ForkPage(p) \/ ForkReturn(p)
    \/ \E v \in Addresses, num \in 1..(BytesPerPage + 1), x \in Values \ {Zero} : proc_vmwrite(p, v, num, x)

ProcMemorySpec == ProcMemoryInit /\ [][ProcMemoryNext]_procVars

-----------------------------------------------------------------------------

Live == {p \in Procs : pd[p] # 0}

\* The frame a process has as its directory (d and t are -1), as the table of
\* directory entry d (t is -1) or in entry t of that table; 0 if it has none.
FrameAt(p, d, t) ==
  IF pd[p] = 0 \/ d \in KernelDirs \/ (d = -1 /\ t # -1) THEN 0
  ELSE IF d = -1 THEN pd[p]
  ELSE LET pt == dir[pd[p]][d].frame IN
       IF t = -1 \/ pt = 0 THEN pt ELSE table[pt][t].frame

Slots == -1..(Entries - 1)
Places(f) == {a \in Procs \X Slots \X Slots : FrameAt(a[1], a[2], a[3]) = f}

(* Until physical memory runs out, every frame is free or belongs to one    *)
(* process in one role (directory, table or page): brk, fork and exec of    *)
(* different processes never share, lose or reuse a frame.                  *)
FramesOwnedOnce ==
  ~failed => \A f \in 1..NofFrames :
    IF f \in freeFrames THEN Places(f) = {} ELSE \E a \in Places(f) : Places(f) = {a}

(* What a process reads from its memory is what it last wrote there, or had *)
(* there when it was forked: no brk, fork or write of another process       *)
(* changes it, also when a write crosses pages.                             *)
MemoryPrivate ==
  ~failed => \A p \in Live : ~BeingForked(p) =>
    \A page \in Translated(p) : content[paging_get(p, page)] = expected[p][page]

(* "Check if we can actually satisfy this call" (unsafe_brk): every byte    *)
(* from the base of the break up to the break, the byte at the break left   *)
(* out, is in a page of the process, as long as palloc has had a page for   *)
(* every call.  Right after exec there is no such byte.                     *)
BreakBacked ==
  ~failed => \A p \in Live : vbreak[p] # UVNULL =>
    \A v \in vbreak[p]..(cur_vbreak[p] - 1) : PageOf(v) \in Translated(p)

(* proc_free, brk and fork rely on it: vfrom and vto enclose every page     *)
(* that a process has reserved.                                             *)
RangeCovers ==
  \A p \in Live : ~BeingForked(p) =>
    Translated(p) \subseteq vfrom[p]..vto[p]

(* Frames and contents together: the memory of a process is its own.        *)
MemoryOwn == FramesOwnedOnce /\ MemoryPrivate

(* Break and range together: what a process may use is reserved, and what   *)
(* is reserved is known to be.                                              *)
MemoryReserved == BreakBacked /\ RangeCovers

==============================================================================
