------------------------------ MODULE KernelHeap ------------------------------
(***************************************************************************)
(* The kernel heap, kernel/arch/i386/heap.c: allocations follow each other *)
(* in one virtual region, each behind its struct heap_alloc, and pages are *)
(* mapped when the heap grows.  kalloc and kfree hold the heap's spinlock  *)
(* from end to end (KernelLocks is about that lock); each is a step.  Left *)
(* out: the kpanic when the region is used up, and a palloc that fails     *)
(* (ProcMemory shows what a failed palloc leads to).                       *)
(***************************************************************************)
EXTENDS Integers, Sequences

CONSTANTS
  HeapBase,      \* heap_region->vbase, aligned to a page
  HeapRegion,    \* heap_region->size
  Header,        \* sizeof(struct heap_alloc)
  PageSize,
  Sizes, Alignments,
  MaxAllocs      \* bound: allocations on the list

ASSUME HeapAssumption ==
  /\ {HeapBase, HeapRegion, Header, MaxAllocs} \subseteq Nat /\ PageSize \in Nat \ {0}
  /\ Sizes \subseteq Nat /\ Alignments \subseteq Nat \ {0}
  /\ HeapBase % PageSize = 0

VARIABLES
  allocs,      \* the list from first to last: where align_offset_size begins, ...
  heap_size,   \* bytes that have been mapped
  cur_size,    \* bytes in use
  mapped,      \* how often each page of the region has been mapped by kp_map
  requested    \* ghost: the address and alignment of each allocation that lives

heapVars == <<allocs, heap_size, cur_size, mapped, requested>>

HeapPages == 0..(HeapRegion \div PageSize)

HeapInit ==
  /\ allocs = <<>> /\ heap_size = 0 /\ cur_size = 0
  /\ mapped = [g \in HeapPages |-> 0]
  /\ requested = {}

\* align_to_next_page, in pages from HeapBase.
NextPage(size) == (size + PageSize - 1) \div PageSize

unsafe_grow_heap(new_size) ==
  /\ mapped' = [g \in HeapPages |->
       IF NextPage(heap_size) <= g /\ g < NextPage(new_size) THEN mapped[g] + 1 ELSE mapped[g]]
  /\ heap_size' = new_size

\* The padding in front of the struct heap_alloc.
AlignOffset(alignment) ==
  alignment - 1 - ((HeapBase + cur_size + Header + alignment - 1) % alignment)

kalloc(alignment, size) ==
  LET offset == AlignOffset(alignment)
      total == offset + Header + size
      v == HeapBase + cur_size + offset + Header
  IN /\ Len(allocs) < MaxAllocs
     /\ cur_size + total <= HeapRegion   \* or kpanic
     /\ IF heap_size < cur_size + total THEN unsafe_grow_heap(cur_size + total)
        ELSE UNCHANGED <<heap_size, mapped>>
     /\ allocs' = Append(allocs, [at |-> HeapBase + cur_size, v |-> v,
                                  align_offset_size |-> offset, size |-> size, free |-> FALSE])
     /\ cur_size' = cur_size + total
     /\ requested' = requested \cup {[v |-> v, alignment |-> alignment, size |-> size]}

Bytes(a) == a.align_offset_size + Header + a.size

\* Mutation: only the last allocation is given back.
TruncateOne(list) ==
  /\ allocs' = SubSeq(list, 1, Len(list) - 1)
  /\ cur_size' = cur_size - Bytes(list[Len(list)])

\* The last allocation of the list that is in use, 0 if all are free.
LastUsed(list) ==
  CHOOSE n \in 0..Len(list) :
    (n # 0 => ~list[n].free) /\ \A i \in (n + 1)..Len(list) : list[i].free

\* cur_size once the list has been cut back, one by one from its end, to n.
SizeAfter(list) ==
  LET cut[n \in 0..Len(list)] ==
        IF n = Len(list) THEN cur_size ELSE cut[n + 1] - Bytes(list[n + 1])
  IN cut

unsafe_truncate_heap(list) ==
  /\ allocs' = SubSeq(list, 1, LastUsed(list))
  /\ cur_size' = SizeAfter(list)[LastUsed(list)]

\* The caller passes what kalloc returned, once.
kfree(i) ==
  LET list == [allocs EXCEPT ![i].free = TRUE] IN
  /\ ~allocs[i].free
  /\ IF i = Len(allocs) \/ allocs[i + 1].free
     THEN unsafe_truncate_heap(list)
     ELSE allocs' = list /\ UNCHANGED cur_size
  /\ requested' = {r \in requested : r.v # allocs[i].v}
  /\ UNCHANGED <<heap_size, mapped>>

HeapNext ==
  \/ \E alignment \in Alignments, size \in Sizes : kalloc(alignment, size)
  \/ \E i \in DOMAIN allocs : kfree(i)

HeapSpec == HeapInit /\ [][HeapNext]_heapVars

-----------------------------------------------------------------------------

(* However allocations are made, aligned, freed and truncated, the list     *)
(* covers the heap from its base to cur_size without gap or overlap, and no *)
(* free allocation is left at its end.                                      *)
HeapTiled ==
  /\ \A i \in DOMAIN allocs :
       /\ allocs[i].at = IF i = 1 THEN HeapBase ELSE allocs[i - 1].v + allocs[i - 1].size
       /\ allocs[i].v = allocs[i].at + allocs[i].align_offset_size + Header
  /\ HeapBase + cur_size =
       IF allocs = <<>> THEN HeapBase ELSE allocs[Len(allocs)].v + allocs[Len(allocs)].size
  /\ allocs # <<>> => ~allocs[Len(allocs)].free

(* Memory that kalloc returned stays the caller's until kfree: aligned as   *)
(* asked, on pages that are mapped, and not part of any other allocation or *)
(* of any header.                                                           *)
LiveMemoryKept ==
  \A r \in requested :
    /\ r.v % r.alignment = 0
    /\ \E i \in DOMAIN allocs : allocs[i].v = r.v /\ allocs[i].size = r.size /\ ~allocs[i].free
    /\ \A i \in DOMAIN allocs : allocs[i].v # r.v =>
         allocs[i].v + allocs[i].size <= r.v - Header \/ r.v + r.size <= allocs[i].at
    /\ r.v + r.size <= HeapBase + heap_size

(* Truncating does not unmap, and growing again maps each page once: a page *)
(* is mapped exactly when the heap has ever reached into it.                *)
PagesMappedOnce ==
  \A g \in HeapPages : mapped[g] = IF g < NextPage(heap_size) THEN 1 ELSE 0

(* The three together: what kalloc returned is the caller's, is where the   *)
(* list says, and is mapped.                                                *)
HeapSound == HeapTiled /\ LiveMemoryKept /\ PagesMappedOnce

==============================================================================
