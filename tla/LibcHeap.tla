------------------------------- MODULE LibcHeap -------------------------------
(***************************************************************************)
(* malloc and free of the C library, libc/stdlib/heap.c: a program has one *)
(* thread, and each call is a step.  The list is linked through the        *)
(* allocations themselves, so it is kept as the pointers the code keeps:   *)
(* what the program writes behind its own allocation is its own affair,    *)
(* but a header must never lie in memory that the program holds.           *)
(***************************************************************************)
EXTENDS Integers

CONSTANTS
  AllocHeader,   \* sizeof(struct heap_alloc)
  MallocSizes,
  MaxHeap        \* how far brk can move the program's break

ASSUME LibcHeapAssumption ==
  AllocHeader \in Nat \ {0} /\ MallocSizes \subseteq Nat /\ MaxHeap \in Nat

\* HeapAddresses count from the break at the first malloc; NoAlloc is NULL.
NoAlloc == -1
HeapAddresses == 0..MaxHeap

VARIABLES
  header,     \* the struct heap_alloc at each address, as last written
  first, last,
  libcHeapSize, libcCurSize,
  held        \* ghost: what the program has been given and not freed

libcHeapVars == <<header, first, last, libcHeapSize, libcCurSize, held>>

Unwritten == [prev |-> NoAlloc, next |-> NoAlloc, size |-> 0, free |-> FALSE]

LibcHeapInit ==
  /\ header = [a \in HeapAddresses |-> Unwritten]
  /\ first = NoAlloc /\ last = NoAlloc
  /\ libcHeapSize = 0 /\ libcCurSize = 0
  /\ held = {}

\* Mutation: the header is not counted.
MallocUncounted(size) ==
  LET alloc == libcCurSize
      built == [header EXCEPT ![alloc] = [prev |-> last, next |-> NoAlloc, size |-> size, free |-> FALSE]] IN
  /\ libcCurSize + AllocHeader + size <= MaxHeap
  /\ libcHeapSize' = libcCurSize + AllocHeader + size
  /\ header' = IF last = NoAlloc THEN built ELSE [built EXCEPT ![last].next = alloc]
  /\ first' = IF first = NoAlloc THEN alloc ELSE first
  /\ last' = alloc
  /\ libcCurSize' = libcCurSize + size
  /\ held' = held \cup {[v |-> alloc + AllocHeader, size |-> size]}

\* brk, when it is needed, may fail: malloc returns NULL and changes nothing.
malloc(size) ==
  LET alloc == libcCurSize
      new_size == libcCurSize + AllocHeader + size
      built == [header EXCEPT ![alloc] = [prev |-> last, next |-> NoAlloc, size |-> size, free |-> FALSE]] IN
  /\ new_size <= MaxHeap
  /\ libcHeapSize' = IF libcHeapSize < new_size THEN new_size ELSE libcHeapSize
  /\ header' = IF last = NoAlloc THEN built ELSE [built EXCEPT ![last].next = alloc]
  /\ first' = IF first = NoAlloc THEN alloc ELSE first
  /\ last' = alloc
  /\ libcCurSize' = libcCurSize + AllocHeader + size
  /\ held' = held \cup {[v |-> alloc + AllocHeader, size |-> size]}

\* The loop: last and cur_size behind n rounds.  An allocation takes a header at
\* least, so that there are no more rounds than addresses.
DropFree(h) ==
  LET after[n \in 0..MaxHeap] ==
        IF n = 0 THEN [last |-> last, cur |-> libcCurSize]
        ELSE LET s == after[n - 1] IN
             IF s.last = NoAlloc \/ ~h[s.last].free THEN s
             ELSE [last |-> h[s.last].prev, cur |-> s.cur - AllocHeader - h[s.last].size]
  IN  after[MaxHeap]

\* The free allocations at the end, removed one by one along prev.
libc_truncate_heap(h) ==
  LET rest == DropFree(h) IN
  /\ libcCurSize' = rest.cur /\ last' = rest.last
  /\ first' = IF rest.last = NoAlloc THEN NoAlloc ELSE first
  /\ header' = IF rest.last = NoAlloc THEN h ELSE [h EXCEPT ![rest.last].next = NoAlloc]

\* The program passes what malloc returned, once.
free(r) ==
  LET alloc == r.v - AllocHeader
      freed == [header EXCEPT ![alloc].free = TRUE] IN
  /\ held' = held \ {r}
  /\ IF header[alloc].next = NoAlloc \/ header[header[alloc].next].free
     THEN libc_truncate_heap(freed)
     ELSE header' = freed /\ UNCHANGED <<first, last, libcCurSize>>
  /\ UNCHANGED libcHeapSize

LibcHeapNext ==
  \/ \E size \in MallocSizes : malloc(size)
  \/ \E r \in held : free(r)

LibcHeapSpec == LibcHeapInit /\ [][LibcHeapNext]_libcHeapVars

-----------------------------------------------------------------------------
LibcAllocator == INSTANCE Allocator WITH
  live <- {[v |-> r.v - AllocHeader, size |-> AllocHeader + r.size] : r \in held}

\* The allocations from first along next.
Linked ==
  LET at[n \in 0..MaxHeap] ==
        IF n = 0 THEN first
        ELSE IF at[n - 1] \in {NoAlloc, last} THEN at[n - 1] ELSE header[at[n - 1]].next
  IN  {at[n] : n \in 0..MaxHeap}

(* The list from first along next is the one from last along prev, has all  *)
(* that the program holds, and does not end in a free allocation: malloc    *)
(* appends to it without looking.  What the program holds is below the      *)
(* break that malloc has set.                                               *)
ListWhole ==
  /\ \A r \in held : r.v + r.size <= libcHeapSize
  /\ first = NoAlloc <=> last = NoAlloc
  /\ last = NoAlloc => held = {}
  /\ last # NoAlloc =>
       /\ header[last].next = NoAlloc /\ ~header[last].free
       /\ \A a \in Linked \ {last} : header[header[a].next].prev = a
       /\ held = {[v |-> a + AllocHeader, size |-> header[a].size] : a \in {b \in Linked : ~header[b].free}}

(* Memory that malloc returned, and the header in front of it, belong to    *)
(* that allocation alone until it is freed, however allocations are freed   *)
(* in between and the heap is cut back; and the list stays whole.           *)
LibcHeapAllocates == LibcAllocator!AllocatorSpec /\ []ListWhole

===============================================================================
