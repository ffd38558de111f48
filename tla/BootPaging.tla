------------------------------ MODULE BootPaging ------------------------------
(***************************************************************************)
(* The virtual memory map (include/arch/memlayout.h, memlayout.c) and the  *)
(* kernel's page tables that boot/early_paging.c builds from it, once, on  *)
(* one CPU.  A layout says how many pages each part of the kernel's        *)
(* executable takes; addresses are page numbers.  The tables are computed  *)
(* for every layout and compared with what the rest of the kernel relies   *)
(* on.  Left out: the temporary mapping through tmp_page that gives access *)
(* to the tables while they are built (enable).                            *)
(***************************************************************************)
EXTENDS Integers, Sequences

CONSTANTS
  PtLength, PdLength,   \* entries of a page table and of a page directory
  VirtBase,             \* KM_VIRT_BASE
  DevBase, DevEnd,      \* KM_DEV_VIRT_BASE, KM_DEV_VIRT_END
  ApEntry,              \* KM_PHYS_AP_ENTRY_BASE
  Layouts               \* pages of [low, ro, stack, ro2, rw, ap]

\* ALIGN(4M) of the linker.
AlignUp(page) == ((page + PtLength - 1) \div PtLength) * PtLength
ImageSize(l) == AlignUp(l.low + l.ro + l.stack + l.ro2 + l.rw)

\* The kernel is loaded behind the low memory, at most 4 MB from its base, in
\* which the entry code of the other CPUs is, and fits below the devices.
ASSUME BootPagingAssumption ==
  /\ {PtLength, PdLength, VirtBase, DevBase, DevEnd, ApEntry} \subseteq Nat \ {0}
  /\ VirtBase % PtLength = 0 /\ DevEnd = (PdLength - 1) * PtLength /\ DevBase <= DevEnd
  /\ \A l \in Layouts :
       /\ l \in [{"low", "ro", "stack", "ro2", "rw", "ap"} -> Nat]
       /\ l.low < PtLength /\ ApEntry + l.ap <= l.low
       /\ ImageSize(l) <= VirtBase /\ VirtBase + ImageSize(l) <= DevBase

VARIABLE layout

BootPagingInit == layout \in Layouts

\* It is done once, before anything else runs.
BootPagingSpec == BootPagingInit /\ [][UNCHANGED layout]_layout

\* There is a kernel to map.
Loaded == layout.ro > 0

\* The linker's symbols.
RoBase == VirtBase + layout.low
StackBase == RoBase + layout.ro
StackEnd == StackBase + layout.stack
RwBase == StackEnd + layout.ro2
VirtEnd == VirtBase + ImageSize(layout)    \* __kernel_mem_break
FreePhysBase == VirtEnd - VirtBase

Region(vbase, pbase, size, flags, pflags) ==
  [vbase |-> vbase, pbase |-> pbase, size |-> size, flags |-> flags, pflags |-> pflags]

create_vm_map == <<
  Region(VirtBase, 0, layout.low, {"static"}, {"rw"}),
  Region(RoBase, RoBase - VirtBase, layout.ro, {"static", "executable"}, {"global"}),
  Region(StackBase, StackBase - VirtBase, layout.stack, {"static", "executable"}, {"rw", "global"}),
  Region(StackEnd, StackEnd - VirtBase, layout.ro2, {"static", "executable"}, {"global"}),
  Region(RwBase, RwBase - VirtBase, layout.rw, {"static", "executable"}, {"rw", "global"}),
  Region(FreePhysBase, FreePhysBase, VirtBase - FreePhysBase, {"static"}, {"rw"}),
  Region(VirtEnd, 0, DevBase - VirtEnd, {}, {"rw", "global"}),
  Region(DevBase, DevBase, DevEnd - DevBase, {"static"}, {"rw", "global"}),
  Region(ApEntry, ApEntry, layout.ap, {"static"}, {"rw"})>>

\* The first region of those, 0 for NULL.
FirstOf(regions) == IF regions = {} THEN 0 ELSE CHOOSE i \in regions : \A j \in regions : i <= j

get_region_v(v) ==
  FirstOf({i \in DOMAIN create_vm_map :
    LET r == create_vm_map[i] IN r.vbase <= v /\ v < r.vbase + r.size})
get_region_p(p) ==
  FirstOf({i \in DOMAIN create_vm_map :
    LET r == create_vm_map[i] IN r.pbase <= p /\ p < r.pbase + r.size})

\* 0 is NULL and PHYS_NULL; with the panic flag the kernel stops instead.
vm_map_walk(p) ==
  LET i == get_region_p(p) IN
  IF i = 0 THEN 0 ELSE create_vm_map[i].vbase + (p - create_vm_map[i].pbase)
vm_map_rev_walk(v) ==
  LET i == get_region_v(v) IN
  IF i = 0 THEN 0 ELSE create_vm_map[i].pbase + (v - create_vm_map[i].vbase)
vm_is_static(v) == LET i == get_region_v(v) IN i # 0 /\ "static" \in create_vm_map[i].flags
vm_is_static_p(p) == LET i == get_region_p(p) IN i # 0 /\ "static" \in create_vm_map[i].flags
vm_get_pflags(v) == LET i == get_region_v(v) IN IF i = 0 THEN {} ELSE create_vm_map[i].pflags

-----------------------------------------------------------------------------
\* early_init_kernel_paging.  A directory entry is the index of its page table,
\* 0 for PHYS_NULL, and flags; a page table entry is a page, 0 if unset, and flags.

Pdi(v) == v \div PtLength
TableOf(pdi) == 1000 + pdi          \* new_kernel_page_tables + pdi * PT_LENGTH
Directory == 999                    \* new_kernel_pd
Virtual == 0..(PdLength * PtLength - 1)

NoTables == [pd |-> [i \in 0..(PdLength - 1) |-> [p |-> 0, flags |-> {}]],
             pt |-> [v \in Virtual |-> [p |-> 0, flags |-> {}]]]

PagesOf(region) == region.vbase..(region.vbase + region.size - 1)

\* map: an entry of the directory is made for the first page that needs it, and
\* becomes writable with any page below it.
LinkTable(entry, pdi, flags) ==
  LET linked == IF entry.p = 0 THEN [p |-> TableOf(pdi), flags |-> flags \cup {"present"}] ELSE entry IN
  [linked EXCEPT !.flags = @ \cup (flags \cap {"rw"})]

\* map_region: map for each page of the region.
map_region_object(tables, region) ==
  LET pages == PagesOf(region) IN
  [pd |-> [i \in DOMAIN tables.pd |->
     IF \E v \in pages : Pdi(v) = i THEN LinkTable(tables.pd[i], i, region.pflags) ELSE tables.pd[i]],
   pt |-> [v \in Virtual |->
     IF v \in pages THEN [p |-> region.pbase + (v - region.vbase), flags |-> region.pflags \cup {"present"}]
     ELSE tables.pt[v]]]

\* The loops that map the regions with these flags.
MapAll(tables, flags) ==
  LET after[n \in 0..Len(create_vm_map)] ==
        IF n = 0 THEN tables
        ELSE IF create_vm_map[n].flags = flags THEN map_region_object(after[n - 1], create_vm_map[n])
        ELSE after[n - 1]
  IN  after[Len(create_vm_map)]

add_self_ref(tables, pdi) ==
  [tables EXCEPT !.pd[pdi] = [p |-> Directory, flags |-> {"rw", "present"}]]

\* Every directory entry gets the address of its page table.
FillDirectory(tables) ==
  [tables EXCEPT !.pd = [i \in DOMAIN tables.pd |->
     IF tables.pd[i].p = 0 THEN [tables.pd[i] EXCEPT !.p = TableOf(i)] ELSE tables.pd[i]]]

\* Mutation: the dynamic region is not marked, having no pages yet.
MarkStatic(tables, region) ==
  [tables EXCEPT !.pd = [i \in DOMAIN tables.pd |->
     IF "static" \in region.flags /\ \E v \in PagesOf(region) : Pdi(v) = i
     THEN [tables.pd[i] EXCEPT !.flags = @ \cup region.pflags \cup {"present"}] ELSE tables.pd[i]]]

mark_region_object(tables, region) ==
  [tables EXCEPT !.pd = [i \in DOMAIN tables.pd |->
     IF \E v \in PagesOf(region) : Pdi(v) = i
     THEN [tables.pd[i] EXCEPT !.flags = @ \cup region.pflags \cup {"present"}] ELSE tables.pd[i]]]

MarkAll(tables) ==
  LET after[n \in 0..Len(create_vm_map)] ==
        IF n = 0 THEN tables ELSE mark_region_object(after[n - 1], create_vm_map[n])
  IN  after[Len(create_vm_map)]

early_init_kernel_paging ==
  LET executable == MapAll(NoTables, {"static", "executable"})
      reachable == add_self_ref(executable, PdLength - 1) IN
  MarkAll(FillDirectory(MapAll(reachable, {"static"})))

-----------------------------------------------------------------------------
(* The processor finds what the map says: a page of a static region leads   *)
(* to its physical page, with the region's flags on both levels, and no     *)
(* other page is mapped.                                                    *)
StaticMapped ==
  Loaded =>
  LET tables == early_init_kernel_paging IN
  \A v \in Virtual \ (DevEnd..(DevEnd + PtLength - 1)) :
    LET flags == vm_get_pflags(v) \cup {"present"} IN
    IF vm_is_static(v)
    THEN /\ tables.pt[v] = [p |-> vm_map_rev_walk(v), flags |-> flags]
         /\ tables.pd[Pdi(v)].p = TableOf(Pdi(v)) /\ flags \subseteq tables.pd[Pdi(v)].flags
    ELSE tables.pt[v] = [p |-> 0, flags |-> {}]

(* The directory never changes again: every page of a region, the dynamic   *)
(* one included, already has its page table, present and as writable as the *)
(* region, so that kp_map only writes page table entries; and exactly what  *)
(* lies above KM_VIRT_BASE is marked global, so that the directories of     *)
(* processes share those tables and no others.                              *)
DirectoryConstant ==
  Loaded =>
  LET tables == early_init_kernel_paging IN
  \A i \in DOMAIN create_vm_map : \A v \in PagesOf(create_vm_map[i]) :
    LET entry == tables.pd[Pdi(v)] IN
    /\ entry.p = TableOf(Pdi(v)) /\ create_vm_map[i].pflags \cup {"present"} \subseteq entry.flags
    /\ "global" \in entry.flags <=> v >= VirtBase

(* A physical page that vm_is_static_p vouches for has an address, and that *)
(* address leads back to the page.                                          *)
WalkInverse ==
  Loaded => \A p \in 0..(DevEnd - 1) : vm_is_static_p(p) =>
    LET v == vm_map_walk(p) IN
    /\ vm_map_rev_walk(v) = p
    /\ early_init_kernel_paging.pt[v] = [p |-> p, flags |-> vm_get_pflags(v) \cup {"present"}]

(* The three together: what the kernel believes of its memory map is what   *)
(* the page tables say.                                                     *)
BootTablesSound == StaticMapped /\ DirectoryConstant /\ WalkInverse

===============================================================================
