------------------------------- MODULE MCMemory -------------------------------
(***************************************************************************)
(* The parts of the kernel that manage memory and threads' stacks, and the *)
(* allocator of the C library, side by side: a behaviour is a behaviour of *)
(* one of the parts, while the others stay in their initial states.        *)
(***************************************************************************)
EXTENDS Palloc, KernelHeap, KernelLocks, ProcMemory, LibcHeap, BootPaging, Loader, ThreadFrames, TLC

CONSTANT Parts

VARIABLE part

allVars == <<pallocVars, heapVars, lockVars, procVars, libcHeapVars, layout, program, frameCase, part>>

\* BootPaging: the pages of each part of the executable.
LayoutSet ==
  {x \in [low : 2..3, ro : 1..2, stack : 1..2, ro2 : 0..2, rw : 1..5, ap : 0..1] : VirtBase + ImageSize(x) <= DevBase}
NoLayout == [low |-> 2, ro |-> 0, stack |-> 0, ro2 |-> 0, rw |-> 0, ap |-> 0]

\* Loader: one or two segments, each with a section of its bytes and one that
\* begins later, and up to two strings.
Segments == {<<a, n>> : a \in {4, 6, 9}, n \in {0, 1, 4, 5}}
SectionsOf(s) ==
  s \o [i \in DOMAIN s |-> <<s[i][1] + 1, IF s[i][2] = 0 THEN 0 ELSE s[i][2] - 1>>]
ProgramSet ==
  {[segments |-> s, sections |-> SectionsOf(s), strings |-> e] :
     s \in UNION {[1..n -> Segments] : n \in 1..2}, e \in UNION {[1..n -> {0, 1, 3}] : n \in 0..2}}
NoProgram == [segments |-> <<>>, sections |-> <<>>, strings |-> <<>>]

\* ThreadFrames: vectors with and without an error code; for 0c the stub and
\* the processor disagree.
FrameSet ==
  {[kind |-> "kthread"], [kind |-> "uthread"], [kind |-> "fork"]}
  \cup {[kind |-> "interrupt", vector |-> v, ring |-> r, switched |-> s] :
          v \in {"80", "20", "81", "0e", "0c"}, r \in {0, 3}, s \in BOOLEAN}

Init ==
  /\ part \in Parts
  /\ PallocInit /\ HeapInit /\ LocksInit /\ ProcMemoryInit /\ LibcHeapInit
  /\ IF part = "paging" THEN BootPagingInit ELSE layout = NoLayout
  /\ IF part = "loader" THEN LoaderInit ELSE program = NoProgram
  /\ IF part = "frames" THEN FrameInit ELSE frameCase = [kind |-> "none"]

PallocStep ==
  /\ part = "pages" /\ PallocNext
  /\ UNCHANGED <<heapVars, lockVars, procVars, libcHeapVars, layout, program, frameCase, part>>
HeapStep ==
  /\ part = "heap" /\ HeapNext
  /\ UNCHANGED <<pallocVars, lockVars, procVars, libcHeapVars, layout, program, frameCase, part>>
LocksStep ==
  /\ part = "locks" /\ LocksNext
  /\ UNCHANGED <<pallocVars, heapVars, procVars, libcHeapVars, layout, program, frameCase, part>>
ProcMemoryStep ==
  /\ part = "processes" /\ ProcMemoryNext
  /\ UNCHANGED <<pallocVars, heapVars, lockVars, libcHeapVars, layout, program, frameCase, part>>
LibcHeapStep ==
  /\ part = "malloc" /\ LibcHeapNext
  /\ UNCHANGED <<pallocVars, heapVars, lockVars, procVars, layout, program, frameCase, part>>

\* Only the processors in the kernel's locks must always have something to do.
Rest == part # "locks" /\ UNCHANGED allVars

Next == PallocStep \/ HeapStep \/ LocksStep \/ ProcMemoryStep \/ LibcHeapStep \/ Rest

Spec == Init /\ [][Next]_allVars

===============================================================================
