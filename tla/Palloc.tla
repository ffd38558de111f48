-------------------------------- MODULE Palloc --------------------------------
(***************************************************************************)
(* The physical page allocator, kernel/arch/i386/palloc.c: a list of free  *)
(* pages whose links live in the pages themselves.                         *)
(*                                                                         *)
(* The list is changed with the palloc spinlock held, so every critical    *)
(* section is a step.  palloc clears the page it has taken after it has    *)
(* released the lock, in a second step.  Callers run with the kernel's     *)
(* page tables and give back only pages they own.                          *)
(***************************************************************************)
EXTENDS Naturals, FiniteSets

CONSTANTS
  Pages,      \* the pages multiboot reports as available
  Mappable,   \* those inside VM_PALLOC_REGION
  NULL,
  Callers     \* threads that allocate and free pages

ASSUME PallocAssumption ==
  NULL \notin Pages /\ IsFiniteSet(Pages) /\ Mappable \subseteq Pages

VARIABLES
  first_free_page,
  next, prev, magic,   \* the fields of struct page, in each page
  remaining_pages,
  booting,             \* walk_mmap is adding regions; nobody allocates yet
  owned,               \* the pages each caller has
  clearing             \* the page a caller has taken and not yet cleared

pallocVars == <<first_free_page, next, prev, magic, remaining_pages, booting, owned, clearing>>

PallocInit ==
  /\ first_free_page = NULL
  /\ next = [p \in Pages |-> NULL] /\ prev = [p \in Pages |-> NULL]
  /\ magic = [p \in Pages |-> FALSE]
  /\ remaining_pages = 0
  /\ booting = TRUE
  /\ owned = [c \in Callers |-> {}] /\ clearing = [c \in Callers |-> NULL]

\* Mutation: the page is not marked.
UnmarkedPage(p) ==
  /\ prev' = IF first_free_page = NULL THEN [prev EXCEPT ![p] = NULL]
             ELSE [prev EXCEPT ![p] = NULL, ![first_free_page] = p]
  /\ next' = [next EXCEPT ![p] = first_free_page]
  /\ first_free_page' = p
  /\ remaining_pages' = remaining_pages + 1
  /\ UNCHANGED magic

\* pfree, from the acquire to the release.
LinkPage(p) ==
  /\ magic' = [magic EXCEPT ![p] = TRUE]
  /\ prev' = IF first_free_page = NULL THEN [prev EXCEPT ![p] = NULL]
             ELSE [prev EXCEPT ![p] = NULL, ![first_free_page] = p]
  /\ next' = [next EXCEPT ![p] = first_free_page]
  /\ first_free_page' = p
  /\ remaining_pages' = remaining_pages + 1

\* One round of the loop of palloc_add_free_region.  The regions of the boot
\* loader may overlap: a page with the magic number is already on the list.
palloc_add_free_region(p) ==
  /\ booting /\ p \in Mappable /\ ~magic[p]
  /\ LinkPage(p)
  /\ UNCHANGED <<booting, owned, clearing>>

Booted ==
  /\ booting /\ booting' = FALSE
  /\ UNCHANGED <<first_free_page, next, prev, magic, remaining_pages, owned, clearing>>

\* palloc: the head of the list, which must carry the magic number.
palloc(c) ==
  /\ ~booting /\ clearing[c] = NULL /\ first_free_page # NULL
  /\ clearing' = [clearing EXCEPT ![c] = first_free_page]
  /\ first_free_page' = next[first_free_page]
  /\ prev' = IF next[first_free_page] = NULL THEN prev
             ELSE [prev EXCEPT ![next[first_free_page]] = NULL]
  /\ remaining_pages' = remaining_pages - 1
  /\ UNCHANGED <<next, magic, booting, owned>>

\* kmemset(v, 0, PAGE_SIZE), outside of the lock; the page is then used.
ClearPage(c) ==
  /\ clearing[c] # NULL
  /\ next' = [next EXCEPT ![clearing[c]] = NULL]
  /\ prev' = [prev EXCEPT ![clearing[c]] = NULL]
  /\ magic' = [magic EXCEPT ![clearing[c]] = FALSE]
  /\ owned' = [owned EXCEPT ![c] = @ \cup {clearing[c]}]
  /\ clearing' = [clearing EXCEPT ![c] = NULL]
  /\ UNCHANGED <<first_free_page, remaining_pages, booting>>

pfree(c, p) ==
  /\ clearing[c] = NULL /\ p \in owned[c]
  /\ LinkPage(p)
  /\ owned' = [owned EXCEPT ![c] = @ \ {p}]
  /\ UNCHANGED <<booting, clearing>>

PallocNext ==
  \/ \E p \in Pages : palloc_add_free_region(p)
  \/ Booted
  \/ \E c \in Callers : palloc(c) \/ ClearPage(c) \/ \E p \in Pages : pfree(c, p)

PallocSpec == PallocInit /\ [][PallocNext]_pallocVars

-----------------------------------------------------------------------------

\* The n-th page of the list; walk[0] is its head.
ListWalk ==
  LET walk[n \in 0..Cardinality(Pages)] ==
        IF n = 0 THEN first_free_page
        ELSE IF walk[n - 1] = NULL THEN NULL ELSE next[walk[n - 1]]
  IN walk

FreePages == {ListWalk[n] : n \in 0..remaining_pages} \ {NULL}

(* However the regions of the boot loader overlap and however allocations   *)
(* interleave with the clearing of pages, the links lead through            *)
(* remaining_pages different pages and end there, backwards as forwards.    *)
FreeListSound ==
  /\ remaining_pages \in 0..Cardinality(Pages)
  /\ Cardinality(FreePages) = remaining_pages /\ ListWalk[remaining_pages] = NULL
  /\ \A p \in FreePages : prev[p] # NULL => next[prev[p]] = p
  /\ first_free_page # NULL => prev[first_free_page] = NULL

(* A page is on the list or has one owner: palloc never hands out a page    *)
(* twice, and never finds a free page without its magic number (a kpanic).  *)
PagesOwnedOnce ==
  /\ \A p \in FreePages : magic[p] /\ \A c \in Callers : p \notin owned[c] /\ clearing[c] # p
  /\ \A c, d \in Callers : c # d =>
       /\ (owned[c] \cup {clearing[c]}) \cap (owned[d] \cup {clearing[d]}) \subseteq {NULL}
  /\ \A c \in Callers : clearing[c] \notin owned[c]

(* The two together: every page is on the list, which can be followed both  *)
(* ways, or belongs to one caller.                                          *)
PagesSound == FreeListSound /\ PagesOwnedOnce

==============================================================================
