---------------------------- MODULE MemoryProofs -----------------------------
(***************************************************************************)
(* Proofs about memory: the list of free pages (Palloc) and the heap       *)
(* (KernelHeap) of the kernel, for any number of pages, callers and        *)
(* allocations, and the memory of a new program (Loader), for any program. *)
(***************************************************************************)
EXTENDS Palloc, KernelHeap, Loader, FiniteSetTheorems, WellFoundedInduction, TLAPS

\* The time the provers have for a step.
USE ZenonT(60)

-----------------------------------------------------------------------------

Less == {d \in Nat \X Nat : d[1] < d[2]}

(* Naturals do not descend for ever.                                        *)
LEMMA LessWellFounded == IsWellFoundedOn(Less, Nat)
<1>1. IsWellFoundedOn(OpToRel(<, Nat), Nat)
  BY ONLY NatLessThanWellFounded
<1>2. OpToRel(<, Nat) = Less
  BY ONLY ZenonT(60) DEF OpToRel, Less
<1> QED
  BY ONLY <1>1, <1>2

(* Hence a set of numbers that is not empty has a least member.             *)
LEMMA LeastNatural ==
  ASSUME NEW S \in SUBSET Nat, S # {}
  PROVE  \E n \in S : \A m \in S : n <= m
<1>1. PICK n \in S : \A m \in S : ~(<<m, n>> \in Less)
  BY LessWellFounded, WFMin
<1>2. ASSUME NEW m \in S PROVE n <= m
  <2>1. m \in Nat /\ n \in Nat
    OBVIOUS
  <2>2. m < n => <<m, n>> \in Less
    BY <2>1 DEF Less
  <2> QED BY <1>1, <2>1, <2>2, SMTT(30)
<1> QED BY <1>2

-----------------------------------------------------------------------------
(***************************************************************************)
(* Palloc.  The invariant exhibits the list as a sequence of pages: the    *)
(* links of each page on it lead to its neighbours, and a page that is not *)
(* on it has no owner, one owner, or is being cleared for one.             *)
(***************************************************************************)

PallocType ==
  /\ first_free_page \in Pages \cup {NULL}
  /\ next \in [Pages -> Pages \cup {NULL}] /\ prev \in [Pages -> Pages \cup {NULL}]
  /\ magic \in [Pages -> BOOLEAN]
  /\ remaining_pages \in Nat /\ booting \in BOOLEAN
  /\ owned \in [Callers -> SUBSET Pages] /\ clearing \in [Callers -> Pages \cup {NULL}]

(* The list that the links stand for.                                       *)
PageAt(s, i) == IF i \in 1..Len(s) THEN s[i] ELSE NULL
On(p, s) == \E i \in 1..Len(s) : s[i] = p
Once(s) == \A i, j \in 1..Len(s) : s[i] = s[j] => i = j

Links(s) ==
  /\ first_free_page = PageAt(s, 1)
  /\ \A i \in 1..Len(s) : /\ next[s[i]] = PageAt(s, i + 1)
                          /\ prev[s[i]] = PageAt(s, i - 1)
                          /\ magic[s[i]] = TRUE

(* Nobody has a page of the list; while the kernel boots, nobody has any,   *)
(* and the pages with the magic number are those on the list.               *)
Apart(s) ==
  /\ \A c \in Callers : ~On(clearing[c], s) /\ \A p \in owned[c] : ~On(p, s)
  /\ booting => \A c \in Callers : owned[c] = {} /\ clearing[c] = NULL
  /\ booting => \A p \in Pages : magic[p] => On(p, s)

OneOwner ==
  /\ \A c, d \in Callers : c # d =>
       (owned[c] \cup {clearing[c]}) \cap (owned[d] \cup {clearing[d]}) \subseteq {NULL}
  /\ \A c \in Callers : clearing[c] \notin owned[c]

IsList(s) == s \in Seq(Pages) /\ Once(s) /\ Len(s) = remaining_pages

PallocInv == PallocType /\ OneOwner /\ \E s : IsList(s) /\ Links(s) /\ Apart(s)

(* Following the links from first_free_page leads through the list.         *)
LEMMA WalkIs ==
  ASSUME PallocType, NEW s, IsList(s), Links(s)
  PROVE  \A n \in 0..Cardinality(Pages) : ListWalk[n] = PageAt(s, n + 1)
<1> DEFINE N == Cardinality(Pages)
           Step(w, k) == IF k = 0 THEN first_free_page
                         ELSE IF w[k - 1] = NULL THEN NULL ELSE next[w[k - 1]]
           f == [k \in 0..N |-> PageAt(s, k + 1)]
<1>1. N \in Nat /\ NULL \notin Pages
  BY PallocAssumption, FS_CardinalityType
<1>2. s \in Seq(Pages) /\ Len(s) \in Nat
  BY SMTT(30) DEF IsList
<1>3. \A k \in Nat : PageAt(s, k) \in Pages \cup {NULL} /\ (PageAt(s, k) # NULL <=> k \in 1..Len(s))
  BY <1>1, <1>2, SMTT(30) DEF PageAt
<1>4. ASSUME NEW k \in Nat, k # 0
      PROVE  PageAt(s, k + 1) = IF PageAt(s, k) = NULL THEN NULL ELSE next[PageAt(s, k)]
  <2>1. CASE k \in 1..Len(s)
    BY <1>3, <2>1 DEF Links, PageAt
  <2>2. CASE k \notin 1..Len(s)
    BY <1>2, <2>2, <1>4, SMTT(30) DEF PageAt
  <2> QED BY <2>1, <2>2
<1>5. ASSUME NEW k \in 0..N PROVE f[k] = Step(f, k)
  <2>1. CASE k = 0
    BY <2>1, <1>5, SMTT(30) DEF Links
  <2>2. CASE k # 0
    <3>1. k - 1 \in 0..N /\ (k - 1) + 1 = k /\ k \in Nat
      BY <1>1, <1>5, <2>2, SMTT(30)
    <3>2. f[k - 1] = PageAt(s, k) /\ f[k] = PageAt(s, k + 1)
      BY <1>5, <3>1
    <3> QED BY <1>4, <2>2, <3>1, <3>2
  <2> QED BY <2>1, <2>2
<1>6. f = [k \in 0..N |-> Step(f, k)]
  BY <1>5
<1>7. ListWalk = [k \in 0..N |-> Step(ListWalk, k)]
  BY <1>6 DEF ListWalk
<1> DEFINE Bad == {n \in 0..N : ListWalk[n] # PageAt(s, n + 1)}
<1>8. SUFFICES ASSUME Bad # {} PROVE FALSE
  OBVIOUS
<1>9. Bad \in SUBSET Nat
  BY SMTT(30)
<1> HIDE DEF Bad
<1>10. PICK n \in Bad : \A m \in Bad : n <= m
  BY <1>8, <1>9, LeastNatural
<1> USE DEF Bad
<1>11. n \in 0..N /\ ListWalk[n] # PageAt(s, n + 1) /\ ListWalk[n] = Step(ListWalk, n)
  BY <1>7, <1>10
<1>12. CASE n = 0
  BY <1>11, <1>12, SMTT(30) DEF Links
<1>13. CASE n # 0
  <2>1. n - 1 \in 0..N /\ n \in Nat /\ (n - 1) + 1 = n
    BY <1>1, <1>11, <1>13, SMTT(30)
  <2>2. n - 1 \notin Bad
    BY <1>10, <2>1, SMTT(30)
  <2>3. ListWalk[n - 1] = PageAt(s, n)
    BY <2>1, <2>2
  <2> QED BY <1>4, <1>11, <1>13, <2>1, <2>3
<1> QED BY <1>12, <1>13

(* A list without repetitions is no longer than the number of pages.        *)
LEMMA ListCounts ==
  ASSUME NEW s, IsList(s)
  PROVE  /\ Cardinality({s[i] : i \in 1..Len(s)}) = Len(s)
         /\ Len(s) \in 0..Cardinality(Pages)
<1> DEFINE R == {s[i] : i \in 1..Len(s)}
<1>1. /\ s \in Seq(Pages) /\ Len(s) \in Nat /\ s \in [1..Len(s) -> Pages]
      /\ \A i \in 1..Len(s) : s[i] \in Pages
  BY SMTT(30) DEF IsList
<1>2. /\ s \in [1..Len(s) -> R] /\ \A i, j \in 1..Len(s) : s[i] = s[j] => i = j
      /\ \A x \in R : \E i \in 1..Len(s) : s[i] = x
  BY <1>1 DEF IsList, Once
<1>3. s \in Bijection(1..Len(s), R)
  BY <1>2 DEF Bijection, Injection, Surjection, IsInjective
<1>4. Cardinality(R) = Len(s)
  BY <1>1, <1>3, FS_CountingElements DEF ExistsBijection
<1>5. R \subseteq Pages
  BY <1>1
<1>6. Cardinality(R) <= Cardinality(Pages) /\ Cardinality(Pages) \in Nat
  BY <1>5, PallocAssumption, FS_Subset, FS_CardinalityType
<1>7. Len(s) \in 0..Cardinality(Pages)
  <2> HIDE DEF R
  <2> QED BY <1>1, <1>4, <1>6, SMTT(30)
<1> QED BY <1>4, <1>7

(* The list behind the links is what PagesSound is about.                   *)
LEMMA PallocSound == PallocInv => PagesSound
<1> SUFFICES ASSUME PallocInv PROVE PagesSound
  OBVIOUS
<1>1. PICK s : IsList(s) /\ Links(s) /\ Apart(s)
  BY DEF PallocInv
<1>2. /\ s \in Seq(Pages) /\ Len(s) \in Nat /\ Len(s) = remaining_pages
      /\ \A i \in 1..Len(s) : s[i] \in Pages /\ s[i] # NULL
  BY <1>1, PallocAssumption, SMTT(30) DEF IsList
<1>3. /\ Cardinality({s[i] : i \in 1..Len(s)}) = remaining_pages
      /\ remaining_pages \in 0..Cardinality(Pages) /\ Cardinality(Pages) \in Nat
  BY <1>1, <1>2, ListCounts, PallocAssumption, FS_CardinalityType
<1>4. \A n \in 0..remaining_pages : ListWalk[n] = PageAt(s, n + 1)
  BY <1>1, <1>3, WalkIs, SMTT(30) DEF PallocInv
<1>5. FreePages = {s[i] : i \in 1..Len(s)}
  <2>1. ASSUME NEW p \in FreePages PROVE p \in {s[i] : i \in 1..Len(s)}
    <3>1. PICK n \in 0..remaining_pages : p = PageAt(s, n + 1) /\ p # NULL
      BY <1>4, <2>1 DEF FreePages
    <3> QED BY <3>1 DEF PageAt
  <2>2. ASSUME NEW i \in 1..Len(s) PROVE s[i] \in FreePages
    <3>1. i - 1 \in 0..remaining_pages /\ (i - 1) + 1 = i
      BY <1>2, SMTT(30)
    <3>2. ListWalk[i - 1] = s[i]
      BY <1>4, <3>1 DEF PageAt
    <3> QED BY <1>2, <3>1, <3>2 DEF FreePages
  <2> QED BY <2>1, <2>2
<1>6. ListWalk[remaining_pages] = NULL
  <2>1. remaining_pages \in 0..remaining_pages /\ remaining_pages + 1 \notin 1..Len(s)
    BY <1>2, SMTT(30)
  <2> QED BY <1>4, <2>1 DEF PageAt
<1>7. ASSUME NEW p \in FreePages, prev[p] # NULL PROVE next[prev[p]] = p
  <2>1. PICK i \in 1..Len(s) : p = s[i]
    BY <1>5
  <2>2. prev[p] = PageAt(s, i - 1)
    BY <1>1, <2>1 DEF Links
  <2>3. i - 1 \in 1..Len(s) /\ prev[p] = s[i - 1] /\ (i - 1) + 1 = i
    BY <1>2, <1>7, <2>2, SMTT(30) DEF PageAt
  <2>4. next[s[i - 1]] = PageAt(s, (i - 1) + 1)
    BY <1>1, <2>3 DEF Links
  <2> QED BY <2>1, <2>3, <2>4 DEF PageAt
<1>8. first_free_page # NULL => prev[first_free_page] = NULL
  <2>1. ASSUME first_free_page # NULL
        PROVE  1 \in 1..Len(s) /\ first_free_page = s[1] /\ 1 - 1 \notin 1..Len(s)
    BY <1>1, <1>2, <2>1, SMTT(30) DEF Links, PageAt
  <2>2. ASSUME 1 \in 1..Len(s), 1 - 1 \notin 1..Len(s) PROVE prev[s[1]] = NULL
    BY <1>1, <2>2 DEF Links, PageAt
  <2> QED BY <2>1, <2>2
<1>9. FreeListSound
  BY <1>3, <1>5, <1>6, <1>7, <1>8 DEF FreeListSound
<1>10. \A p \in FreePages : magic[p] /\ \A c \in Callers : p \notin owned[c] /\ clearing[c] # p
  <2>1. ASSUME NEW i \in 1..Len(s)
        PROVE  magic[s[i]] = TRUE /\ \A c \in Callers : s[i] \notin owned[c] /\ clearing[c] # s[i]
    BY <1>1 DEF Links, Apart, On
  <2>2. ASSUME NEW p \in FreePages
        PROVE  magic[p] /\ \A c \in Callers : p \notin owned[c] /\ clearing[c] # p
    <3>1. PICK i \in 1..Len(s) : p = s[i]
      BY <1>5
    <3> QED BY <2>1, <3>1
  <2> QED BY <2>2
<1> QED BY <1>9, <1>10 DEF PagesSound, PagesOwnedOnce, PallocInv, OneOwner

-----------------------------------------------------------------------------

(* At first there is no page on the list, and nobody has one.               *)
LEMMA PallocInitInv == PallocInit => PallocInv
<1> SUFFICES ASSUME PallocInit PROVE PallocInv
  OBVIOUS
<1>1. PallocType
  BY DEF PallocInit, PallocType
<1>2. OneOwner
  BY DEF PallocInit, OneOwner
<1>3. IsList(<<>>) /\ Links(<<>>)
  BY SMTT(30) DEF PallocInit, IsList, Links, Once, PageAt
<1>4. Apart(<<>>)
  BY SMTT(30) DEF PallocInit, Apart, On
<1> QED BY <1>1, <1>2, <1>3, <1>4 DEF PallocInv

(* pfree puts a page in front of the list.                                  *)
LEMMA LinkList ==
  ASSUME PallocType, NEW s, IsList(s), Links(s), NEW p \in Pages, ~On(p, s), LinkPage(p)
  PROVE  IsList(<<p>> \o s)' /\ Links(<<p>> \o s)'
<1> DEFINE t == <<p>> \o s
<1>1. /\ s \in Seq(Pages) /\ Len(s) \in Nat /\ Len(s) = remaining_pages
      /\ \A i \in 1..Len(s) : s[i] \in Pages /\ s[i] # p /\ s[i] # NULL
      /\ \A i, j \in 1..Len(s) : s[i] = s[j] => i = j
  BY PallocAssumption, SMTT(30) DEF IsList, On, Once
<1>2. /\ t \in Seq(Pages) /\ Len(t) = Len(s) + 1 /\ t[1] = p
      /\ \A i \in 1..Len(t) : i # 1 => t[i] = s[i - 1] /\ i - 1 \in 1..Len(s)
      /\ \A i \in 1..Len(s) : t[i + 1] = s[i]
  BY <1>1, SMTT(30)
<1> HIDE DEF t
<1>3. IsList(t)'
  BY <1>1, <1>2, SMTT(30) DEF IsList, Once, LinkPage
<1> DEFINE At(k) == PageAt(t, k)
<1>10. At(1) = p /\ At(0) = NULL /\ \A k \in 1..(Len(s) + 1) : At(k + 1) = PageAt(s, k)
  BY <1>1, <1>2, SMTT(30) DEF PageAt
<1>4. /\ first_free_page \in Pages \cup {NULL} /\ first_free_page = PageAt(s, 1)
      /\ first_free_page # NULL => first_free_page = s[1] /\ 1 \in 1..Len(s)
      /\ first_free_page = NULL => Len(s) = 0
  BY <1>1, SMTT(30) DEF Links, PageAt
<1>5. \A q \in Pages : /\ next'[q] = IF q = p THEN first_free_page ELSE next[q]
                       /\ magic'[q] = IF q = p THEN TRUE ELSE magic[q]
  BY DEF LinkPage, PallocType
<1>6. \A q \in Pages : prev'[q] = IF first_free_page = q THEN p
                                  ELSE IF q = p THEN NULL ELSE prev[q]
  BY <1>1, <1>4, PallocAssumption DEF LinkPage, PallocType
<1>7. first_free_page' = PageAt(t, 1)
  BY <1>1, <1>2, SMTT(30) DEF LinkPage, PageAt
<1>8. ASSUME NEW i \in 1..Len(t)
      PROVE  next'[t[i]] = PageAt(t, i + 1) /\ prev'[t[i]] = PageAt(t, i - 1) /\ magic'[t[i]] = TRUE
  <2>1. CASE i = 1
    <3>1. next'[t[i]] = first_free_page /\ prev'[t[i]] = NULL /\ magic'[t[i]] = TRUE
      BY <1>1, <1>2, <1>4, <1>5, <1>6, <2>1
    <3>2. PageAt(t, i + 1) = PageAt(s, 1) /\ PageAt(t, i - 1) = NULL
      BY <1>1, <1>10, <2>1, SMTT(30)
    <3> QED BY <1>4, <3>1, <3>2
  <2>2. CASE i # 1
    <3>1. i - 1 \in 1..Len(s) /\ t[i] = s[i - 1] /\ s[i - 1] \in Pages /\ s[i - 1] # p
      BY <1>1, <1>2, <2>2
    <3>2. /\ next[s[i - 1]] = PageAt(s, (i - 1) + 1) /\ prev[s[i - 1]] = PageAt(s, (i - 1) - 1)
          /\ magic[s[i - 1]] = TRUE
      BY <3>1 DEF Links
    <3>3. next'[t[i]] = PageAt(t, i + 1) /\ magic'[t[i]] = TRUE
      <4>1. i \in 1..(Len(s) + 1) /\ (i - 1) + 1 = i
        BY <1>1, <1>2, SMTT(30)
      <4>2. PageAt(t, i + 1) = PageAt(s, i)
        BY <1>10, <4>1
      <4> QED BY <1>5, <3>1, <3>2, <4>1, <4>2
    <3>4. prev'[t[i]] = PageAt(t, i - 1)
      <4>1. CASE i = 2
        BY <1>1, <1>4, <1>6, <1>10, <3>1, <4>1, SMTT(30)
      <4>2. CASE i # 2
        <5>1. i - 2 \in 1..Len(s) /\ (i - 2) + 1 = i - 1 /\ (i - 1) - 1 = i - 2 /\ i - 2 \in 1..(Len(s) + 1)
          BY <1>1, <3>1, <4>2, SMTT(30)
        <5>2. PageAt(t, i - 1) = PageAt(s, i - 2)
          BY <1>10, <5>1
        <5>3. s[i - 1] # first_free_page
          BY <1>1, <1>4, <3>1, <4>2, SMTT(30)
        <5> QED BY <1>6, <3>1, <3>2, <5>1, <5>2, <5>3
      <4> QED BY <4>1, <4>2
    <3> QED BY <3>3, <3>4
  <2> QED BY <2>1, <2>2
<1>9. Links(t)'
  BY <1>7, <1>8 DEF Links
<1> QED BY <1>3, <1>9 DEF t

(* After unsafe_pfree the page is on the list, and nothing else is new.     *)
LEMMA OnLinked ==
  ASSUME NEW p \in Pages, NEW s \in Seq(Pages), NEW q
  PROVE  On(q, <<p>> \o s) <=> (q = p \/ On(q, s))
<1>1. /\ Len(s) \in Nat /\ Len(<<p>> \o s) = Len(s) + 1 /\ (<<p>> \o s)[1] = p
      /\ \A i \in 1..Len(s) : (<<p>> \o s)[i + 1] = s[i]
      /\ \A i \in 1..(Len(s) + 1) : i # 1 => (<<p>> \o s)[i] = s[i - 1] /\ i - 1 \in 1..Len(s)
  BY SMTT(30)
<1>2. ASSUME On(q, <<p>> \o s) PROVE q = p \/ On(q, s)
  BY <1>1, <1>2 DEF On
<1>3. ASSUME q = p PROVE On(q, <<p>> \o s)
  <2>1. 1 \in 1..Len(<<p>> \o s)
    BY <1>1, SMTT(30)
  <2> QED BY <1>1, <1>3, <2>1 DEF On
<1>4. ASSUME On(q, s) PROVE On(q, <<p>> \o s)
  <2>1. PICK i \in 1..Len(s) : s[i] = q
    BY <1>4 DEF On
  <2>2. i + 1 \in 1..Len(<<p>> \o s) /\ (<<p>> \o s)[i + 1] = q
    BY <1>1, <2>1, SMTT(30)
  <2> QED BY <2>2 DEF On
<1> QED BY <1>2, <1>3, <1>4

(* palloc_add_free_region gives the list a page that was nowhere.           *)
LEMMA AddRegionInv ==
  ASSUME PallocInv, NEW p \in Pages, palloc_add_free_region(p) PROVE PallocInv'
<1>1. PICK s : IsList(s) /\ Links(s) /\ Apart(s)
  BY DEF PallocInv
<1>2. PallocType /\ OneOwner /\ s \in Seq(Pages) /\ magic[p] # TRUE /\ booting = TRUE
  BY <1>1 DEF PallocInv, IsList, palloc_add_free_region, PallocType
<1>3. ~On(p, s)
  BY <1>1, <1>2 DEF Links, On
<1>4. IsList(<<p>> \o s)' /\ Links(<<p>> \o s)'
  BY <1>1, <1>2, <1>3, LinkList DEF palloc_add_free_region
<1>5. owned' = owned /\ clearing' = clearing /\ booting' = booting
  BY DEF palloc_add_free_region
<1>6. \A c \in Callers : owned[c] = {} /\ clearing[c] = NULL /\ NULL \notin Pages
  BY <1>1, <1>2, PallocAssumption DEF Apart
<1>7. PallocType' /\ OneOwner'
  BY <1>2, <1>5, SMTT(30) DEF PallocType, OneOwner, palloc_add_free_region, LinkPage
<1>8. \A q \in Pages : magic'[q] => On(q, <<p>> \o s)
  BY <1>1, <1>2, OnLinked DEF Apart, palloc_add_free_region, LinkPage, PallocType
<1>9. ~On(NULL, <<p>> \o s)
  <2>1. ~On(NULL, s)
    BY <1>2, <1>6, PallocAssumption, SMTT(30) DEF On
  <2> QED BY <1>2, <2>1, OnLinked, PallocAssumption
<1>10. Apart(<<p>> \o s)'
  BY <1>5, <1>6, <1>8, <1>9 DEF Apart
<1> QED BY <1>4, <1>7, <1>10 DEF PallocInv

(* pfree gives the list a page that its caller had.                         *)
LEMMA PfreeInv ==
  ASSUME PallocInv, NEW c \in Callers, NEW p \in Pages, pfree(c, p) PROVE PallocInv'
<1>1. PICK s : IsList(s) /\ Links(s) /\ Apart(s)
  BY DEF PallocInv
<1>2. PallocType /\ OneOwner /\ s \in Seq(Pages) /\ p \in owned[c] /\ clearing[c] = NULL
  BY <1>1 DEF PallocInv, IsList, pfree
<1>3. ~On(p, s)
  BY <1>1, <1>2 DEF Apart
<1>4. IsList(<<p>> \o s)' /\ Links(<<p>> \o s)'
  BY <1>1, <1>2, <1>3, LinkList DEF pfree
<1>5. /\ clearing' = clearing /\ booting' = booting
      /\ owned' \in [Callers -> SUBSET Pages]
      /\ \A d \in Callers : owned'[d] = IF d = c THEN owned[c] \ {p} ELSE owned[d]
  BY <1>2 DEF pfree, PallocType
<1>6. booting = FALSE
  BY <1>1, <1>2 DEF Apart, PallocType
<1>7. PallocType'
  BY <1>2, <1>5, SMTT(30) DEF PallocType, pfree, LinkPage
<1>8. OneOwner'
  BY <1>2, <1>5, SMTT(30) DEF OneOwner
<1>9. \A d \in Callers : clearing[d] # p /\ p \notin owned'[d]
  BY <1>2, <1>5, PallocAssumption DEF OneOwner
<1>10. Apart(<<p>> \o s)'
  <2>1. \A d \in Callers : ~On(clearing[d], <<p>> \o s) /\ \A q \in owned'[d] : ~On(q, <<p>> \o s)
    BY <1>1, <1>2, <1>5, <1>9, OnLinked, SMTT(30) DEF Apart
  <2> QED BY <2>1, <1>5, <1>6 DEF Apart
<1> QED BY <1>4, <1>7, <1>8, <1>10 DEF PallocInv

(* palloc takes the head of the list.                                       *)
LEMMA PallocStepInv ==
  ASSUME PallocInv, NEW c \in Callers, palloc(c) PROVE PallocInv'
<1> DEFINE h == first_free_page
<1>1. PICK s : IsList(s) /\ Links(s) /\ Apart(s)
  BY DEF PallocInv
<1> DEFINE t == Tail(s)
<1>2. PallocType /\ OneOwner /\ clearing[c] = NULL /\ h # NULL /\ h \in Pages /\ NULL \notin Pages
  BY PallocAssumption DEF PallocInv, PallocType, palloc
<1>3. /\ s \in Seq(Pages) /\ Len(s) \in Nat /\ Len(s) = remaining_pages
      /\ \A i \in 1..Len(s) : s[i] \in Pages
      /\ \A i, j \in 1..Len(s) : s[i] = s[j] => i = j
  BY <1>1, SMTT(30) DEF IsList, Once
<1>4. 1 \in 1..Len(s) /\ s[1] = h
  BY <1>1, <1>2 DEF Links, PageAt
<1>5. /\ t \in Seq(Pages) /\ Len(t) = Len(s) - 1
      /\ \A i \in 1..Len(t) : t[i] = s[i + 1] /\ i + 1 \in 1..Len(s)
  BY <1>3, <1>4, SMTT(30)
<1> HIDE DEF t
<1>6. remaining_pages' = remaining_pages - 1 /\ next' = next /\ magic' = magic /\ owned' = owned
  BY DEF palloc
<1>7. IsList(t)'
  BY <1>3, <1>5, <1>6, SMTT(30) DEF IsList, Once
<1>8. next[h] = PageAt(s, 2) /\ first_free_page' = next[h]
  <2>1. next[s[1]] = PageAt(s, 1 + 1)
    BY <1>1, <1>4 DEF Links
  <2> QED BY <1>4, <2>1, SMTT(30) DEF palloc
<1>9. \A q \in Pages : prev'[q] = IF q = next[h] THEN NULL ELSE prev[q]
  BY <1>2 DEF palloc, PallocType
<1>10. PageAt(s, 2) = PageAt(t, 1)
  BY <1>3, <1>5, SMTT(30) DEF PageAt
<1>11. ASSUME NEW i \in 1..Len(t)
       PROVE  next'[t[i]] = PageAt(t, i + 1) /\ prev'[t[i]] = PageAt(t, i - 1) /\ magic'[t[i]] = TRUE
  <2>1. i + 1 \in 1..Len(s) /\ t[i] = s[i + 1] /\ t[i] \in Pages
    BY <1>3, <1>5
  <2>2. next[t[i]] = PageAt(s, (i + 1) + 1) /\ prev[t[i]] = PageAt(s, (i + 1) - 1) /\ magic[t[i]] = TRUE
    BY <1>1, <2>1 DEF Links
  <2>3. next[t[i]] = PageAt(t, i + 1)
    BY <1>3, <1>5, <2>2, SMTT(30) DEF PageAt
  <2>4. CASE i = 1
    <3>1. t[1] = next[h]
      BY <1>8, <1>10, <2>4 DEF PageAt
    <3> QED BY <1>6, <1>9, <2>1, <2>2, <2>3, <2>4, <3>1, SMTT(30) DEF PageAt
  <2>5. CASE i # 1
    <3>1. i - 1 \in 1..Len(t) /\ t[i - 1] = s[i] /\ i \in 1..Len(s) /\ (i - 1) + 1 = i
      BY <1>3, <1>5, <2>5, SMTT(30)
    <3>2. prev[t[i]] = t[i - 1]
      BY <2>2, <3>1, SMTT(30) DEF PageAt
    <3>3. t[i] # next[h]
      BY <1>3, <1>5, <1>8, <2>1, <2>5, SMTT(30) DEF PageAt
    <3> QED BY <1>6, <1>9, <2>1, <2>2, <2>3, <3>1, <3>2, <3>3 DEF PageAt
  <2> QED BY <2>4, <2>5
<1>12. Links(t)'
  BY <1>8, <1>10, <1>11 DEF Links
<1>13. \A q : On(q, t) <=> (On(q, s) /\ q # h)
  <2>1. ASSUME NEW q, On(q, t) PROVE On(q, s) /\ q # h
    <3>1. PICK i \in 1..Len(t) : t[i] = q
      BY <2>1 DEF On
    <3>2. i + 1 \in 1..Len(s) /\ s[i + 1] = q /\ i + 1 # 1
      BY <1>5, <3>1, <1>3, SMTT(30)
    <3> QED BY <1>3, <1>4, <3>2 DEF On
  <2>2. ASSUME NEW q, On(q, s), q # h PROVE On(q, t)
    <3>1. PICK i \in 1..Len(s) : s[i] = q
      BY <2>2 DEF On
    <3>2. i - 1 \in 1..Len(t) /\ t[i - 1] = q
      BY <1>3, <1>4, <1>5, <2>2, <3>1, SMTT(30)
    <3> QED BY <3>2 DEF On
  <2> QED BY <2>1, <2>2
<1>14. On(h, s)
  BY <1>4 DEF On
<1>15. /\ booting' = FALSE
       /\ \A d \in Callers : clearing'[d] = IF d = c THEN h ELSE clearing[d]
  BY <1>2 DEF palloc, PallocType
<1>16. PallocType'
  BY <1>2, <1>3, <1>4, <1>6, SMTT(30) DEF PallocType, palloc
<1>17. \A d \in Callers : h \notin owned[d] /\ h # clearing[d]
  BY <1>1, <1>14 DEF Apart
<1>18. OneOwner'
  BY <1>2, <1>6, <1>15, <1>17, SMTT(30) DEF OneOwner
<1>19. Apart(t)'
  BY <1>1, <1>6, <1>13, <1>15 DEF Apart
<1> QED BY <1>7, <1>12, <1>16, <1>18, <1>19 DEF PallocInv

(* The page that palloc has cleared becomes its caller's.                   *)
LEMMA ClearPageInv ==
  ASSUME PallocInv, NEW c \in Callers, ClearPage(c) PROVE PallocInv'
<1> DEFINE h == clearing[c]
<1>1. PICK s : IsList(s) /\ Links(s) /\ Apart(s)
  BY DEF PallocInv
<1>2. PallocType /\ OneOwner /\ h # NULL /\ h \in Pages /\ NULL \notin Pages
  BY PallocAssumption DEF PallocInv, PallocType, ClearPage
<1>3. ~On(h, s) /\ booting = FALSE
  BY <1>1, <1>2 DEF Apart, PallocType
<1>4. \A q \in Pages : q # h => next'[q] = next[q] /\ prev'[q] = prev[q] /\ magic'[q] = magic[q]
  BY <1>2 DEF ClearPage, PallocType
<1>5. IsList(s)' /\ s \in Seq(Pages) /\ \A i \in 1..Len(s) : s[i] \in Pages /\ s[i] # h
  BY <1>1, <1>3, SMTT(30) DEF IsList, ClearPage, On
<1>6. Links(s)'
  BY <1>1, <1>4, <1>5 DEF Links, ClearPage
<1>7. /\ booting' = FALSE
      /\ \A d \in Callers : clearing'[d] = IF d = c THEN NULL ELSE clearing[d]
      /\ \A d \in Callers : owned'[d] = IF d = c THEN owned[c] \cup {h} ELSE owned[d]
  BY <1>2, <1>3 DEF ClearPage, PallocType
<1>8. PallocType'
  BY <1>2 DEF PallocType, ClearPage
<1>9. OneOwner'
  <2>1. \A d \in Callers : owned[d] \subseteq Pages
    BY <1>2 DEF PallocType
  <2> QED BY <1>2, <1>7, <2>1, SMTT(30) DEF OneOwner
<1>10. ~On(NULL, s)
  BY <1>2, <1>5 DEF On
<1>11. Apart(s)'
  BY <1>1, <1>3, <1>7, <1>10 DEF Apart
<1> QED BY <1>5, <1>6, <1>8, <1>9, <1>11 DEF PallocInv

(* Every step keeps the invariant.                                          *)
LEMMA PallocNextInv == PallocInv /\ [PallocNext]_pallocVars => PallocInv'
<1> SUFFICES ASSUME PallocInv, [PallocNext]_pallocVars PROVE PallocInv'
  OBVIOUS
<1>1. ASSUME NEW p \in Pages, palloc_add_free_region(p) PROVE PallocInv'
  BY <1>1, AddRegionInv
<1>2. CASE Booted
  <2>1. PICK s : IsList(s) /\ Links(s) /\ Apart(s)
    BY DEF PallocInv
  <2>2. IsList(s)' /\ Links(s)' /\ Apart(s)'
    BY <1>2, <2>1 DEF Booted, IsList, Links, Apart
  <2>3. PallocType' /\ OneOwner'
    BY <1>2 DEF Booted, PallocInv, PallocType, OneOwner
  <2> QED BY <2>2, <2>3 DEF PallocInv
<1>3. ASSUME NEW c \in Callers, palloc(c) PROVE PallocInv'
  BY <1>3, PallocStepInv
<1>4. ASSUME NEW c \in Callers, ClearPage(c) PROVE PallocInv'
  BY <1>4, ClearPageInv
<1>5. ASSUME NEW c \in Callers, NEW p \in Pages, pfree(c, p) PROVE PallocInv'
  BY <1>5, PfreeInv
<1>6. CASE UNCHANGED pallocVars
  <2>1. PICK s : IsList(s) /\ Links(s) /\ Apart(s)
    BY DEF PallocInv
  <2>2. IsList(s)' /\ Links(s)' /\ Apart(s)'
    BY <1>6, <2>1 DEF pallocVars, IsList, Links, Apart
  <2>3. PallocType' /\ OneOwner'
    BY <1>6 DEF pallocVars, PallocInv, PallocType, OneOwner
  <2> QED BY <2>2, <2>3 DEF PallocInv
<1> QED BY <1>1, <1>2, <1>3, <1>4, <1>5, <1>6 DEF PallocNext

(* However palloc and pfree interleave, the list of free pages is linked in *)
(* both directions, counts its pages, and no page is both free and in use   *)
(* or in use twice.                                                         *)
THEOREM PagesCorrect == PallocSpec => []PagesSound
<1>1. PallocSpec => []PallocInv
  BY PallocInitInv, PallocNextInv, PTL DEF PallocSpec
<1> QED BY <1>1, PallocSound, PTL

-----------------------------------------------------------------------------
(***************************************************************************)
(* KernelHeap.  The invariant says that the allocations tile the heap in   *)
(* the order of the list, that the pages below the current size are        *)
(* mapped, and that each request still has the allocation made for it.     *)
(***************************************************************************)

(* What \div and % compute.                                                 *)
LEMMA DivMod ==
  ASSUME NEW x \in Nat, NEW a \in Nat \ {0}
  PROVE  x % a \in 0..(a - 1) /\ x \div a \in Nat /\ x = a * (x \div a) + (x % a)
BY SMTT(30)

(* No multiple of y but 0 is below y.                                       *)
LEMMA NoMultiple ==
  ASSUME NEW y \in Nat \ {0}, NEW q \in Int, NEW z \in 0..(y - 1), y * q = z
  PROVE  z = 0
<1>1. CASE q = 0
  BY <1>1, SMTT(30)
<1>2. CASE q >= 1
  <2>1. y * q >= y
    BY <1>2, SMTT(30)
  <2> QED BY <2>1, SMTT(30)
<1>3. CASE q <= -1
  <2>1. y * q <= -y
    BY <1>3, SMTT(30)
  <2> QED BY <2>1, SMTT(30)
<1> QED BY <1>1, <1>2, <1>3, SMTT(30)

(* Taking away the remainder leaves a multiple.                             *)
LEMMA Rounded ==
  ASSUME NEW w \in Nat, NEW a \in Nat \ {0}
  PROVE  (w - (w % a)) % a = 0
<1> DEFINE x == w - (w % a)
           d == w \div a
           e == x \div a
           m == x % a
<1>1. w = a * d + (w % a) /\ d \in Nat /\ x = a * d /\ x \in Nat
  BY DivMod, SMTT(30)
<1>2. x = a * e + m /\ m \in 0..(a - 1) /\ e \in Nat
  BY <1>1, DivMod
<1> HIDE DEF x, d, e, m
<1>3. a * (d - e) = m
  <2>1. a * (d - e) = a * d - a * e
    BY <1>1, <1>2, SMTT(30)
  <2> QED BY <1>1, <1>2, <2>1, SMTT(30)
<1>4. PICK k \in Int : k = d - e
  BY <1>1, <1>2, SMTT(30)
<1>5. m = 0
  BY <1>2, <1>3, <1>4, NoMultiple
<1> QED BY <1>5 DEF m, x

(* Division is monotone.                                                    *)
LEMMA DivGrows ==
  ASSUME NEW x \in Nat, NEW y \in Nat, x <= y, NEW p \in Nat \ {0}
  PROVE  x \div p <= y \div p
<1> DEFINE d == x \div p
           e == y \div p
           m == x % p
           n == y % p
<1>1. x = p * d + m /\ d \in Nat /\ m \in 0..(p-1)
  BY DivMod
<1>2. y = p * e + n /\ e \in Nat /\ n \in 0..(p-1)
  BY DivMod
<1> HIDE DEF d, e, m, n
<1>3. ASSUME e < d PROVE FALSE
  <2>1. d - e >= 1 /\ d - e \in Int
    BY <1>1, <1>2, <1>3, SMTT(30)
  <2>2. p * (d - e) >= p
    BY <2>1, SMTT(30)
  <2>3. p * (d - e) = p * d - p * e
    BY <1>1, <1>2, SMTT(30)
  <2> QED BY <1>1, <1>2, <2>2, <2>3, SMTT(30)
<1>4. d <= e
  BY <1>1, <1>2, <1>3, SMTT(30)
<1> QED BY <1>4 DEF d, e

Allocs == [at : Nat, v : Nat, align_offset_size : Nat, size : Nat, free : BOOLEAN]
Requests == [v : Nat, alignment : Alignments, size : Nat]

HeapType ==
  /\ allocs \in Seq(Allocs) /\ heap_size \in Nat /\ cur_size \in Nat /\ cur_size <= heap_size
  /\ mapped \in [HeapPages -> Int] /\ requested \subseteq Requests

(* Where the allocations of a list end, and that they follow each other.    *)
EndOf(list, n) == IF n = 0 THEN HeapBase ELSE list[n].v + list[n].size
Tiled(list) ==
  /\ \A i \in 1..Len(list) :
       /\ list[i].at = EndOf(list, i - 1)
       /\ list[i].v = list[i].at + list[i].align_offset_size + Header
  /\ \A i, j \in 1..Len(list) : i < j => list[i].v + list[i].size <= list[j].at

RequestsKept(list) ==
  \A r \in requested :
    /\ r.v % r.alignment = 0
    /\ \E i \in 1..Len(list) : list[i].v = r.v /\ list[i].size = r.size /\ list[i].free = FALSE

HeapInv ==
  /\ HeapType /\ Tiled(allocs) /\ RequestsKept(allocs) /\ PagesMappedOnce
  /\ HeapBase + cur_size = EndOf(allocs, Len(allocs))
  /\ Len(allocs) # 0 => allocs[Len(allocs)].free = FALSE

(* The constants, one by one.                                               *)
LEMMA HeapConstants ==
  /\ HeapBase \in Nat /\ HeapRegion \in Nat /\ Header \in Nat /\ PageSize \in Nat \ {0}
  /\ \A a \in Alignments : a \in Nat \ {0}
  /\ \A n \in Sizes : n \in Nat
  BY HeapAssumption

(* A list of allocations has a length, and allocations in its places.       *)
LEMMA AllocsFacts ==
  ASSUME NEW list \in Seq(Allocs)
  PROVE  /\ Len(list) \in Nat /\ DOMAIN list = 1..Len(list) /\ (list = <<>> <=> Len(list) = 0)
         /\ \A i \in 1..Len(list) : list[i] \in Allocs
  BY SMTT(30)

(* The fields of an allocation are numbers, but for free.                   *)
LEMMA AllocFacts ==
  ASSUME NEW x \in Allocs
  PROVE  x.at \in Nat /\ x.v \in Nat /\ x.align_offset_size \in Nat /\ x.size \in Nat /\ x.free \in BOOLEAN
  BY DEF Allocs

(* Every allocation ends at or before the last one does.                    *)
LEMMA EndsInside ==
  ASSUME NEW list \in Seq(Allocs), Tiled(list), NEW i \in 1..Len(list)
  PROVE  /\ list[i].v + list[i].size <= EndOf(list, Len(list)) /\ EndOf(list, Len(list)) \in Nat
<1>1. /\ Len(list) \in 1..Len(list) /\ list[i] \in Allocs /\ list[Len(list)] \in Allocs
      /\ Len(list) # 0 /\ Len(list) \in Nat
  BY AllocsFacts, SMTT(30)
<1> DEFINE x == list[i]
           y == list[Len(list)]
<1>2. /\ x.v \in Nat /\ x.size \in Nat /\ y.at \in Nat /\ y.v \in Nat /\ y.size \in Nat /\ y.align_offset_size \in Nat
      /\ Header \in Nat
  BY <1>1, AllocFacts, HeapConstants
<1>3. y.v = y.at + y.align_offset_size + Header
  BY <1>1 DEF Tiled
<1>4. i # Len(list) => x.v + x.size <= y.at
  BY <1>1, SMTT(30) DEF Tiled
<1>5. EndOf(list, Len(list)) = y.v + y.size
  BY <1>1 DEF EndOf
<1> HIDE DEF x, y
<1>6. CASE i = Len(list)
  BY <1>2, <1>5, <1>6, SMTT(30) DEF x, y
<1>7. CASE i # Len(list)
  <2>1. x.v + x.size <= y.v + y.size /\ y.v + y.size \in Nat
    <3> DEFINE o == y.align_offset_size
               b == y.at
               e == y.v
               z == y.size
               t == x.v + x.size
    <3>1. t \in Nat /\ b \in Nat /\ e \in Nat /\ z \in Nat /\ o \in Nat /\ e = b + o + Header
          /\ t <= b /\ Header \in Nat
      BY <1>2, <1>3, <1>4, <1>7, SMTT(30)
    <3> HIDE DEF o, b, e, z, t
    <3>2. t <= e + z /\ e + z \in Nat
      BY <3>1, SMTT(30)
    <3> QED BY <3>2 DEF e, z, t
  <2> QED BY <1>5, <2>1 DEF x
<1> QED BY <1>6, <1>7

(* The invariant has what HeapSound asks for.                               *)
LEMMA HeapIsSound == HeapInv => HeapSound
<1> SUFFICES ASSUME HeapInv PROVE HeapSound
  OBVIOUS
<1>1. /\ HeapType /\ Tiled(allocs) /\ RequestsKept(allocs) /\ PagesMappedOnce
      /\ HeapBase + cur_size = EndOf(allocs, Len(allocs))
      /\ Len(allocs) # 0 => allocs[Len(allocs)].free = FALSE
  BY DEF HeapInv
<1>2. /\ allocs \in Seq(Allocs) /\ Len(allocs) \in Nat /\ DOMAIN allocs = 1..Len(allocs)
      /\ (allocs = <<>> <=> Len(allocs) = 0)
      /\ heap_size \in Nat /\ cur_size \in Nat /\ cur_size <= heap_size
  BY <1>1, AllocsFacts DEF HeapType
<1>3. HeapTiled
  <2>1. ASSUME NEW i \in 1..Len(allocs)
        PROVE  /\ allocs[i].at = IF i = 1 THEN HeapBase ELSE allocs[i - 1].v + allocs[i - 1].size
               /\ allocs[i].v = allocs[i].at + allocs[i].align_offset_size + Header
    BY <1>1, <1>2, SMTT(30) DEF Tiled, EndOf
  <2>2. HeapBase + cur_size = IF allocs = <<>> THEN HeapBase
                              ELSE allocs[Len(allocs)].v + allocs[Len(allocs)].size
    BY <1>1, <1>2 DEF EndOf
  <2> QED BY <1>1, <1>2, <2>1, <2>2 DEF HeapTiled
<1>4. LiveMemoryKept
  <2>1. ASSUME NEW r \in requested
        PROVE  /\ r.v % r.alignment = 0
               /\ \E i \in DOMAIN allocs : allocs[i].v = r.v /\ allocs[i].size = r.size /\ ~allocs[i].free
               /\ \A i \in DOMAIN allocs : allocs[i].v # r.v =>
                    allocs[i].v + allocs[i].size <= r.v - Header \/ r.v + r.size <= allocs[i].at
               /\ r.v + r.size <= HeapBase + heap_size
    <3>1. r.v % r.alignment = 0
      BY <1>1 DEF RequestsKept
    <3>2. PICK j \in 1..Len(allocs) : allocs[j].v = r.v /\ allocs[j].size = r.size /\ allocs[j].free = FALSE
      BY <1>1 DEF RequestsKept
    <3>3. /\ allocs[j].at \in Nat /\ allocs[j].v \in Nat /\ allocs[j].align_offset_size \in Nat
          /\ allocs[j].size \in Nat /\ Header \in Nat /\ HeapBase \in Nat
      BY <1>2, AllocsFacts, AllocFacts, HeapConstants
    <3>4. ASSUME NEW i \in DOMAIN allocs, allocs[i].v # r.v
          PROVE  allocs[i].v + allocs[i].size <= r.v - Header \/ r.v + r.size <= allocs[i].at
      <4>1. i \in 1..Len(allocs) /\ (i < j \/ j < i)
        BY <1>2, <3>2, <3>4, SMTT(30)
      <4>2. /\ allocs[i].at \in Nat /\ allocs[i].v \in Nat /\ allocs[i].size \in Nat
        BY <1>2, <4>1, AllocsFacts, AllocFacts
      <4>3. allocs[j].v = allocs[j].at + allocs[j].align_offset_size + Header
        BY <1>1 DEF Tiled
      <4>4. CASE i < j
        <5>1. allocs[i].v + allocs[i].size <= allocs[j].at
          BY <1>1, <4>1, <4>4 DEF Tiled
        <5>2. allocs[j].at <= r.v - Header
          BY <3>2, <3>3, <4>3, SMTT(30)
        <5>3. PICK k \in Int : k = allocs[i].v + allocs[i].size
          BY <4>2, SMTT(30)
        <5>4. PICK m \in Int : m = r.v - Header
          BY <3>2, <3>3, SMTT(30)
        <5>5. k <= m
          BY <3>3, <5>1, <5>2, <5>3, <5>4, SMTT(30)
        <5> QED BY <5>3, <5>4, <5>5
      <4>5. CASE j < i
        <5>1. allocs[j].v + allocs[j].size <= allocs[i].at
          BY <1>1, <4>1, <4>5 DEF Tiled
        <5> QED BY <3>2, <5>1
      <4> QED BY <4>1, <4>4, <4>5
    <3>5. r.v + r.size <= HeapBase + heap_size
      <4>1. allocs[j].v + allocs[j].size <= HeapBase + cur_size
        BY <1>1, <1>2, EndsInside
      <4> QED BY <1>2, <3>2, <3>3, <4>1, SMTT(30)
    <3> QED BY <1>2, <3>1, <3>2, <3>4, <3>5
  <2> QED BY <2>1 DEF LiveMemoryKept
<1> QED BY <1>1, <1>3, <1>4 DEF HeapSound

(* An empty heap has nothing mapped.                                        *)
LEMMA HeapInitInv == HeapInit => HeapInv
<1> SUFFICES ASSUME HeapInit PROVE HeapInv
  OBVIOUS
<1>1. HeapType
  BY SMTT(30) DEF HeapInit, HeapType
<1>2. Tiled(allocs) /\ Len(allocs) = 0
  BY SMTT(30) DEF HeapInit, Tiled
<1>3. RequestsKept(allocs)
  BY DEF HeapInit, RequestsKept
<1>4. PagesMappedOnce
  <2>1. NextPage(0) <= 0
    BY HeapConstants, SMTT(30) DEF NextPage
  <2>2. \A g \in HeapPages : g \in Nat /\ ~(g < NextPage(0))
    BY <2>1, HeapConstants, SMTT(30) DEF HeapPages, NextPage
  <2> QED BY <2>2 DEF HeapInit, PagesMappedOnce
<1>5. HeapBase + cur_size = EndOf(allocs, Len(allocs))
  BY <1>2, HeapConstants, SMTT(30) DEF HeapInit, EndOf
<1> QED BY <1>1, <1>2, <1>3, <1>4, <1>5 DEF HeapInv

(* NextPage only grows.                                                     *)
LEMMA NextPageGrows ==
  ASSUME NEW x \in Nat, NEW y \in Nat, x <= y
  PROVE  NextPage(x) <= NextPage(y) /\ NextPage(x) \in Nat /\ NextPage(y) \in Nat
<1>1. /\ x + PageSize - 1 \in Nat /\ y + PageSize - 1 \in Nat
      /\ x + PageSize - 1 <= y + PageSize - 1 /\ PageSize \in Nat \ {0}
  BY HeapConstants, SMTT(30)
<1>2. PICK k \in Nat : k = x + PageSize - 1
  BY <1>1
<1>3. PICK l \in Nat : l = y + PageSize - 1
  BY <1>1
<1>4. k \div PageSize <= l \div PageSize
  BY <1>1, <1>2, <1>3, DivGrows
<1>5. k \div PageSize \in Nat /\ l \div PageSize \in Nat
  BY <1>1, <1>2, <1>3, DivMod
<1> QED BY <1>2, <1>3, <1>4, <1>5 DEF NextPage

(* An allocation at the end of the list starts where the heap ends, and its *)
(* address is aligned.                                                      *)
LEMMA Placed ==
  ASSUME HeapType, NEW alignment \in Alignments
  PROVE  /\ AlignOffset(alignment) \in Nat
         /\ (HeapBase + cur_size + AlignOffset(alignment) + Header) % alignment = 0
<1>1. alignment \in Nat \ {0} /\ HeapBase \in Nat /\ Header \in Nat /\ cur_size \in Nat
  BY HeapConstants DEF HeapType
<1>2. PICK w \in Nat : w = HeapBase + cur_size + Header + alignment - 1
  BY <1>1, SMTT(30)
<1>3. w % alignment \in 0..(alignment - 1)
  BY <1>1, DivMod
<1>4. AlignOffset(alignment) = alignment - 1 - (w % alignment)
  BY <1>2 DEF AlignOffset
<1>5. AlignOffset(alignment) \in Nat
  BY <1>1, <1>3, <1>4, SMTT(30)
<1>6. HeapBase + cur_size + AlignOffset(alignment) + Header = w - (w % alignment)
  <2>1. PICK m \in 0..(alignment - 1) : m = w % alignment
    BY <1>3
  <2>2. AlignOffset(alignment) = alignment - 1 - m
    BY <1>4, <2>1
  <2>3. HeapBase + cur_size + AlignOffset(alignment) + Header = w - m
    BY <1>1, <1>2, <2>2, SMTT(30)
  <2> QED BY <2>1, <2>3
<1> QED BY <1>1, <1>5, <1>6, Rounded

(* kalloc puts an allocation behind the last one and maps what is missing.  *)
LEMMA KallocInv ==
  ASSUME HeapInv, NEW alignment \in Alignments, NEW size \in Sizes, kalloc(alignment, size)
  PROVE  HeapInv'
<1> DEFINE offset == AlignOffset(alignment)
           v == HeapBase + cur_size + offset + Header
           total == offset + Header + size
           new == [at |-> HeapBase + cur_size, v |-> v,
                   align_offset_size |-> offset, size |-> size, free |-> FALSE]
           req == [v |-> v, alignment |-> alignment, size |-> size]
           n == Len(allocs)
<1>1. /\ HeapType /\ Tiled(allocs) /\ RequestsKept(allocs) /\ PagesMappedOnce
      /\ HeapBase + cur_size = EndOf(allocs, n)
  BY DEF HeapInv
<1>2. /\ allocs \in Seq(Allocs) /\ n \in Nat /\ heap_size \in Nat /\ cur_size \in Nat
      /\ cur_size <= heap_size /\ mapped \in [HeapPages -> Int] /\ requested \subseteq Requests
      /\ HeapBase \in Nat /\ Header \in Nat /\ size \in Nat
  BY <1>1, HeapConstants, SMTT(30) DEF HeapType
<1>3. offset \in Nat /\ v % alignment = 0
  BY <1>1, Placed
<1>4. /\ allocs' = Append(allocs, new) /\ cur_size' = cur_size + total
      /\ requested' = requested \cup {req}
      /\ IF heap_size < cur_size + total THEN unsafe_grow_heap(cur_size + total)
         ELSE UNCHANGED <<heap_size, mapped>>
  BY DEF kalloc
<1> HIDE DEF offset
<1>5. /\ v \in Nat /\ total \in Nat /\ new \in Allocs /\ req \in Requests
      /\ new.at = HeapBase + cur_size /\ new.v = new.at + new.align_offset_size + Header
      /\ new.v = v /\ new.size = size /\ new.free = FALSE
      /\ new.v + new.size = HeapBase + (cur_size + total)
      /\ req.v = v /\ req.alignment = alignment /\ req.size = size
  BY <1>2, <1>3, SMTT(30) DEF Allocs, Requests
<1> HIDE DEF new, req, v, total
<1>6. /\ allocs' \in Seq(Allocs) /\ Len(allocs') = n + 1
      /\ \A i \in 1..n : allocs'[i] = allocs[i] /\ i \in 1..Len(allocs')
      /\ allocs'[n + 1] = new
  BY <1>2, <1>4, <1>5, SMTT(30)
<1>7. \A i \in 0..n : EndOf(allocs', i) = EndOf(allocs, i)
  BY <1>6, SMTT(30) DEF EndOf
<1> HIDE DEF n
<1>8. /\ heap_size' \in Nat /\ cur_size' \in Nat /\ cur_size' <= heap_size'
      /\ mapped' \in [HeapPages -> Int]
  BY <1>2, <1>4, <1>5, SMTT(30) DEF unsafe_grow_heap
<1>9. HeapType'
  BY <1>2, <1>4, <1>5, <1>6, <1>8 DEF HeapType
<1>10. Tiled(allocs')
  <2>1. ASSUME NEW i \in 1..(n + 1)
        PROVE  /\ allocs'[i].at = EndOf(allocs', i - 1)
               /\ allocs'[i].v = allocs'[i].at + allocs'[i].align_offset_size + Header
    <3>1. CASE i = n + 1
      <4>1. i - 1 = n /\ n \in 0..n
        BY <1>2, <3>1, SMTT(30)
      <4> QED BY <1>1, <1>5, <1>6, <1>7, <3>1, <4>1 DEF n
    <3>2. CASE i # n + 1
      <4>1. i \in 1..n /\ i - 1 \in 0..n
        BY <1>2, <3>2, SMTT(30)
      <4> QED BY <1>1, <1>6, <1>7, <4>1 DEF Tiled, n
    <3> QED BY <3>1, <3>2
  <2>2. ASSUME NEW i \in 1..(n + 1), NEW j \in 1..(n + 1), i < j
        PROVE  allocs'[i].v + allocs'[i].size <= allocs'[j].at
    <3>1. i \in 1..n
      BY <1>2, <2>2, SMTT(30)
    <3>2. CASE j = n + 1
      <4>1. allocs[i].v + allocs[i].size <= EndOf(allocs, Len(allocs))
        BY <1>1, <1>2, <3>1, EndsInside DEF n
      <4> QED BY <1>1, <1>5, <1>6, <3>1, <3>2, <4>1 DEF n
    <3>3. CASE j # n + 1
      <4>1. j \in 1..n
        BY <1>2, <3>3, SMTT(30)
      <4> QED BY <1>1, <1>6, <2>2, <3>1, <4>1 DEF Tiled, n
    <3> QED BY <3>2, <3>3
  <2> QED BY <1>6, <2>1, <2>2 DEF Tiled
<1>11. RequestsKept(allocs)'
  <2>1. ASSUME NEW r \in requested'
        PROVE  /\ r.v % r.alignment = 0
               /\ \E i \in 1..Len(allocs') : allocs'[i].v = r.v /\ allocs'[i].size = r.size
                                             /\ allocs'[i].free = FALSE
    <3>1. CASE r = req
      <4>1. n + 1 \in 1..Len(allocs')
        BY <1>2, <1>6, SMTT(30)
      <4> QED BY <1>3, <1>5, <1>6, <3>1, <4>1
    <3>2. CASE r # req
      <4>1. r \in requested
        BY <1>4, <3>2
      <4> QED BY <1>1, <1>6, <4>1 DEF RequestsKept, n
    <3> QED BY <3>1, <3>2
  <2> QED BY <2>1 DEF RequestsKept
<1>12. PagesMappedOnce'
  <2>1. CASE heap_size < cur_size + total
    <3>1. PICK m \in Nat : m = cur_size + total
      BY <1>2, <1>5, SMTT(30)
    <3>2. heap_size' = m /\ heap_size <= m
          /\ mapped' = [g \in HeapPages |->
               IF NextPage(heap_size) <= g /\ g < NextPage(m) THEN mapped[g] + 1 ELSE mapped[g]]
      BY <1>2, <1>4, <2>1, <3>1, SMTT(30) DEF unsafe_grow_heap
    <3>3. NextPage(heap_size) <= NextPage(m) /\ NextPage(heap_size) \in Nat /\ NextPage(m) \in Nat
      BY <1>2, <3>2, NextPageGrows
    <3>4. ASSUME NEW g \in HeapPages PROVE mapped'[g] = IF g < NextPage(m) THEN 1 ELSE 0
      <4>1. g \in Int /\ mapped[g] = IF g < NextPage(heap_size) THEN 1 ELSE 0
        BY <1>1, SMTT(30) DEF PagesMappedOnce, HeapPages
      <4> QED BY <3>2, <3>3, <4>1, SMTT(30)
    <3> QED BY <3>2, <3>4 DEF PagesMappedOnce, NextPage
  <2>2. CASE ~(heap_size < cur_size + total)
    BY <1>1, <1>4, <2>2 DEF PagesMappedOnce, NextPage
  <2> QED BY <2>1, <2>2
<1>13. /\ HeapBase + cur_size' = EndOf(allocs', Len(allocs'))
       /\ Len(allocs') # 0 => allocs'[Len(allocs')].free = FALSE
  BY <1>2, <1>4, <1>5, <1>6, SMTT(30) DEF EndOf
<1> QED BY <1>9, <1>10, <1>11, <1>12, <1>13 DEF HeapInv, Tiled, EndOf

(* Some allocation is the last one in use, or none is.                      *)
LEMMA LastUsedIs ==
  ASSUME NEW list \in Seq(Allocs)
  PROVE  /\ LastUsed(list) \in 0..Len(list)
         /\ LastUsed(list) # 0 => list[LastUsed(list)].free = FALSE
         /\ \A i \in (LastUsed(list) + 1)..Len(list) : list[i].free = TRUE
<1> DEFINE S == {k \in 0..Len(list) : \A i \in (k + 1)..Len(list) : list[i].free}
<1>1. Len(list) \in Nat /\ \A i \in 1..Len(list) : list[i].free \in BOOLEAN
  BY AllocsFacts, AllocFacts
<1>2. Len(list) \in S /\ S \in SUBSET Nat
  BY <1>1, SMTT(30)
<1>3. PICK n \in S : \A m \in S : n <= m
  BY <1>2, LeastNatural
<1>4. ASSUME n # 0, list[n].free PROVE FALSE
  <2>1. n - 1 \in 0..Len(list) /\ n \in Nat
    BY <1>1, <1>4, SMTT(30)
  <2>2. ASSUME NEW i \in ((n - 1) + 1)..Len(list) PROVE list[i].free
    <3>1. i = n \/ i \in (n + 1)..Len(list)
      BY <1>1, <2>1, SMTT(30)
    <3> QED BY <1>3, <1>4, <3>1
  <2>3. n - 1 \in S
    BY <2>1, <2>2
  <2> HIDE DEF S
  <2>4. n <= n - 1
    BY <1>3, <2>3
  <2> QED BY <2>1, <2>4, SMTT(30)
<1>5. n \in 0..Len(list) /\ (n # 0 => ~list[n].free) /\ \A i \in (n + 1)..Len(list) : list[i].free
  BY <1>3, <1>4
<1>6. /\ LastUsed(list) \in 0..Len(list) /\ (LastUsed(list) # 0 => ~list[LastUsed(list)].free)
      /\ \A i \in (LastUsed(list) + 1)..Len(list) : list[i].free
  BY <1>5 DEF LastUsed
<1> QED BY <1>1, <1>6, SMTT(30)

(* Each allocation that is cut off gives back what it and its header and    *)
(* padding took, which leaves the heap ending with the one before it.       *)
LEMMA SizeAfterIs ==
  ASSUME NEW list \in Seq(Allocs), Tiled(list), cur_size \in Nat,
         HeapBase + cur_size = EndOf(list, Len(list))
  PROVE  \A n \in 0..Len(list) : SizeAfter(list)[n] = EndOf(list, n) - HeapBase
<1> DEFINE N == Len(list)
           Step(w, n) == IF n = N THEN cur_size ELSE w[n + 1] - Bytes(list[n + 1])
           f == [n \in 0..N |-> EndOf(list, n) - HeapBase]
           g == SizeAfter(list)
<1>1. N \in Nat /\ HeapBase \in Nat /\ Header \in Nat
  BY AllocsFacts, HeapConstants
<1>2. ASSUME NEW n \in 0..N, n # N
      PROVE  /\ n + 1 \in 0..N /\ EndOf(list, n) \in Nat /\ EndOf(list, n + 1) \in Nat
             /\ Bytes(list[n + 1]) \in Nat
             /\ EndOf(list, n) = EndOf(list, n + 1) - Bytes(list[n + 1])
  <2>1. n + 1 \in 1..N /\ n + 1 \in 0..N /\ (n + 1) - 1 = n /\ n + 1 # 0
    BY <1>1, <1>2, SMTT(30)
  <2>2. list[n + 1] \in Allocs
    BY <2>1, AllocsFacts
  <2> DEFINE x == list[n + 1]
             a == x.at
             o == x.align_offset_size
             z == x.size
             v == x.v
  <2>3. a \in Nat /\ o \in Nat /\ z \in Nat /\ v \in Nat
    BY <2>2, AllocFacts
  <2>4. EndOf(list, n + 1) = v + z
    BY <2>1 DEF EndOf
  <2>5. Bytes(list[n + 1]) = o + Header + z
    BY DEF Bytes
  <2>6. a = EndOf(list, n) /\ v = a + o + Header
    BY <2>1 DEF Tiled
  <2> HIDE DEF x, a, o, z, v
  <2>7. a = (v + z) - (o + Header + z)
    BY <1>1, <2>3, <2>6, SMTT(30)
  <2>8. EndOf(list, n) = EndOf(list, n + 1) - Bytes(list[n + 1])
    BY <2>4, <2>5, <2>6, <2>7
  <2>9. v + z \in Nat /\ o + Header + z \in Nat
    BY <1>1, <2>3, SMTT(30)
  <2>10. EndOf(list, n) \in Nat /\ EndOf(list, n + 1) \in Nat /\ Bytes(list[n + 1]) \in Nat
    BY <2>3, <2>4, <2>5, <2>6, <2>9
  <2> QED BY <2>1, <2>8, <2>10
<1>3. ASSUME NEW n \in 0..N PROVE f[n] = Step(f, n)
  <2>1. CASE n = N
    BY <1>1, <2>1, SMTT(30)
  <2>2. CASE n # N
    <3>1. /\ n + 1 \in 0..N /\ EndOf(list, n) \in Nat /\ EndOf(list, n + 1) \in Nat
          /\ Bytes(list[n + 1]) \in Nat
          /\ EndOf(list, n) = EndOf(list, n + 1) - Bytes(list[n + 1])
      BY <1>2, <2>2
    <3>2. f[n] = EndOf(list, n) - HeapBase /\ f[n + 1] = EndOf(list, n + 1) - HeapBase
      BY <3>1
    <3>3. f[n] = f[n + 1] - Bytes(list[n + 1])
      BY <1>1, <3>1, <3>2, SMTT(30)
    <3> QED BY <2>2, <3>3
  <2> QED BY <2>1, <2>2
<1>4. f = [n \in 0..N |-> Step(f, n)]
  BY <1>3
<1>5. g = [n \in 0..N |-> Step(g, n)]
  BY <1>4 DEF SizeAfter
<1> DEFINE Bad == {k \in 0..N : g[N - k] # f[N - k]}
<1> HIDE DEF g, f
<1>6. ASSUME Bad # {} PROVE FALSE
  <2>1. Bad \in SUBSET Nat
    BY SMTT(30)
  <2>2. PICK k \in Bad : \A m \in Bad : k <= m
    BY <1>6, <2>1, LeastNatural
  <2>3. k \in 0..N /\ N - k \in 0..N /\ g[N - k] # f[N - k]
    BY <1>1, <2>2, SMTT(30)
  <2>4. g[N - k] = Step(g, N - k)
    BY <1>5, <2>3
  <2>5. f[N - k] = Step(f, N - k)
    BY <1>3, <2>3
  <2>6. N - k # N /\ k # 0
    BY <1>1, <2>3, <2>4, <2>5, SMTT(30)
  <2>7. k - 1 \in 0..N /\ N - (k - 1) = (N - k) + 1 /\ k - 1 < k
    BY <1>1, <2>3, <2>6, SMTT(30)
  <2>8. g[(N - k) + 1] = f[(N - k) + 1]
    <3>1. k - 1 \notin Bad
      BY <2>2, <2>3, <2>7, SMTT(30)
    <3> QED BY <2>7, <3>1
  <2> QED BY <2>3, <2>4, <2>5, <2>6, <2>8
<1>7. ASSUME NEW n \in 0..N PROVE g[n] = EndOf(list, n) - HeapBase
  <2>1. N - n \in 0..N /\ N - (N - n) = n
    BY <1>1, SMTT(30)
  <2>2. N - n \notin Bad
    BY <1>6
  <2>3. g[n] = f[n]
    BY <2>1, <2>2
  <2> QED BY <2>3 DEF f
<1> QED BY <1>7 DEF g

(* Marking an allocation free changes nothing else.                         *)
Freed(s, i) == [s EXCEPT ![i].free = TRUE]

(* Everything but free stays as it was.                                     *)
LEMMA FreedIs ==
  ASSUME NEW x \in Seq(Allocs), NEW y \in 1..Len(x)
  PROVE  /\ Freed(x, y) \in Seq(Allocs) /\ Len(Freed(x, y)) = Len(x) /\ Freed(x, y)[y].free = TRUE
         /\ \A j \in 1..Len(x) : /\ Freed(x, y)[j].at = x[j].at /\ Freed(x, y)[j].v = x[j].v
                                 /\ Freed(x, y)[j].align_offset_size = x[j].align_offset_size
                                 /\ Freed(x, y)[j].size = x[j].size
                                 /\ j # y => Freed(x, y)[j].free = x[j].free
<1>1. /\ Len(x) \in Nat /\ DOMAIN x = 1..Len(x) /\ \A j \in 1..Len(x) : x[j] \in Allocs
      /\ x \in [1..Len(x) -> Allocs]
  BY AllocsFacts, SMTT(30)
<1> DEFINE a == [x[y] EXCEPT !.free = TRUE]
<1>2. /\ a \in Allocs /\ a.at = x[y].at /\ a.v = x[y].v /\ a.align_offset_size = x[y].align_offset_size
      /\ a.size = x[y].size /\ a.free = TRUE
  BY <1>1 DEF Allocs
<1>3. Freed(x, y) = [x EXCEPT ![y] = a]
  BY DEF Freed
<1> HIDE DEF a
<1>4. /\ Freed(x, y) \in [1..Len(x) -> Allocs]
      /\ \A j \in 1..Len(x) : Freed(x, y)[j] = IF j = y THEN a ELSE x[j]
  BY <1>1, <1>2, <1>3
<1>5. Freed(x, y) \in Seq(Allocs) /\ Len(Freed(x, y)) = Len(x)
  BY <1>1, <1>4, SMTT(30)
<1> QED BY <1>2, <1>4, <1>5

(* The tiling is about places and sizes, not about what is free.            *)
LEMMA TiledSame ==
  ASSUME NEW s \in Seq(Allocs), NEW list \in Seq(Allocs), Len(list) = Len(s), Tiled(s),
         \A j \in 1..Len(s) : /\ list[j].at = s[j].at /\ list[j].v = s[j].v
                              /\ list[j].align_offset_size = s[j].align_offset_size
                              /\ list[j].size = s[j].size
  PROVE  Tiled(list) /\ \A n \in 0..Len(s) : EndOf(list, n) = EndOf(s, n)
<1>1. Len(s) \in Nat
  BY AllocsFacts
<1>2. \A n \in 0..Len(s) : EndOf(list, n) = EndOf(s, n)
  BY <1>1, SMTT(30) DEF EndOf
<1>3. ASSUME NEW i \in 1..Len(list)
      PROVE  /\ list[i].at = EndOf(list, i - 1)
             /\ list[i].v = list[i].at + list[i].align_offset_size + Header
  <2>1. i - 1 \in 0..Len(s) /\ i \in 1..Len(s)
    BY <1>1, SMTT(30)
  <2> QED BY <1>2, <2>1 DEF Tiled
<1>4. \A i, j \in 1..Len(list) : i < j => list[i].v + list[i].size <= list[j].at
  BY DEF Tiled
<1> QED BY <1>2, <1>3, <1>4 DEF Tiled

(* Cutting a list back leaves the part that is kept as it was.              *)
LEMMA TiledCut ==
  ASSUME NEW x \in Seq(Allocs), Tiled(x), NEW z \in 0..Len(x)
  PROVE  /\ SubSeq(x, 1, z) \in Seq(Allocs) /\ Len(SubSeq(x, 1, z)) = z
         /\ \A j \in 1..z : SubSeq(x, 1, z)[j] = x[j]
         /\ Tiled(SubSeq(x, 1, z)) /\ EndOf(SubSeq(x, 1, z), z) = EndOf(x, z)
<1> DEFINE l == SubSeq(x, 1, z)
<1>1. Len(x) \in Nat /\ z \in Nat /\ z <= Len(x)
  BY AllocsFacts, SMTT(30)
<1>2. /\ l \in Seq(Allocs) /\ Len(l) = z /\ \A j \in 1..z : l[j] = x[j]
  BY <1>1, SMTT(30)
<1> HIDE DEF l
<1>3. \A n \in 0..z : EndOf(l, n) = EndOf(x, n)
  BY <1>1, <1>2, SMTT(30) DEF EndOf
<1>4. ASSUME NEW i \in 1..z
      PROVE  /\ l[i].at = EndOf(l, i - 1)
             /\ l[i].v = l[i].at + l[i].align_offset_size + Header
  <2>1. i - 1 \in 0..z /\ i \in 1..Len(x)
    BY <1>1, SMTT(30)
  <2> QED BY <1>2, <1>3, <2>1 DEF Tiled
<1>5. ASSUME NEW i \in 1..z, NEW j \in 1..z, i < j PROVE l[i].v + l[i].size <= l[j].at
  <2>1. i \in 1..Len(x) /\ j \in 1..Len(x)
    BY <1>1, SMTT(30)
  <2> QED BY <1>2, <1>5, <2>1 DEF Tiled
<1>6. Tiled(l) /\ EndOf(l, z) = EndOf(x, z)
  BY <1>1, <1>2, <1>3, <1>4, <1>5, SMTT(30) DEF Tiled
<1> QED BY <1>2, <1>6 DEF l

(* Every allocation ends at or after the base of the heap.                  *)
LEMMA StartsInside ==
  ASSUME NEW x \in Seq(Allocs), Tiled(x), NEW z \in 1..Len(x)
  PROVE  HeapBase <= EndOf(x, z) /\ EndOf(x, z) \in Nat
<1> DEFINE a1 == x[1].at
           o1 == x[1].align_offset_size
           v1 == x[1].v
           s1 == x[1].size
           az == x[z].at
           oz == x[z].align_offset_size
           vz == x[z].v
           sz == x[z].size
<1>1. z # 0 /\ 1 \in 1..Len(x) /\ x[z] \in Allocs /\ x[1] \in Allocs /\ Len(x) \in Nat
  BY AllocsFacts, SMTT(30)
<1>2. /\ a1 \in Nat /\ o1 \in Nat /\ v1 \in Nat /\ s1 \in Nat /\ az \in Nat /\ oz \in Nat
      /\ vz \in Nat /\ sz \in Nat /\ Header \in Nat /\ HeapBase \in Nat
  BY <1>1, AllocFacts, HeapConstants
<1>3. a1 = HeapBase
  BY <1>1, SMTT(30) DEF Tiled, EndOf
<1>4. /\ v1 = a1 + o1 + Header /\ vz = az + oz + Header
      /\ z # 1 => v1 + s1 <= az
      /\ z = 1 => az = a1
  BY <1>1, SMTT(30) DEF Tiled
<1>5. EndOf(x, z) = vz + sz
  BY <1>1 DEF EndOf
<1> HIDE DEF a1, o1, v1, s1, az, oz, vz, sz
<1>6. HeapBase <= az
  <2>1. CASE z = 1
    BY <1>2, <1>3, <1>4, <2>1, SMTT(30)
  <2>2. CASE z # 1
    BY <1>2, <1>3, <1>4, <2>2, SMTT(30)
  <2> QED BY <2>1, <2>2
<1>7. HeapBase <= vz + sz /\ vz + sz \in Nat
  BY <1>2, <1>4, <1>6, SMTT(30)
<1> QED BY <1>5, <1>7

(* kfree marks an allocation and cuts the list back to the last one in use. *)
LEMMA KfreeInv ==
  ASSUME HeapInv, NEW i \in DOMAIN allocs, kfree(i)
  PROVE  HeapInv'
<1> DEFINE n == Len(allocs)
<1>1. /\ HeapType /\ Tiled(allocs) /\ RequestsKept(allocs) /\ PagesMappedOnce
      /\ HeapBase + cur_size = EndOf(allocs, n)
      /\ n # 0 => allocs[n].free = FALSE
  BY DEF HeapInv
<1>2. /\ allocs \in Seq(Allocs) /\ n \in Nat /\ heap_size \in Nat /\ cur_size \in Nat
      /\ cur_size <= heap_size /\ mapped \in [HeapPages -> Int] /\ requested \subseteq Requests
      /\ HeapBase \in Nat /\ Header \in Nat /\ i \in 1..n
  BY <1>1, HeapConstants, AllocsFacts DEF HeapType
<1>3. PICK list : list = Freed(allocs, i)
  OBVIOUS
<1>4. /\ IF i = n \/ allocs[i + 1].free THEN unsafe_truncate_heap(list)
         ELSE allocs' = list /\ cur_size' = cur_size
      /\ requested' = {r \in requested : r.v # allocs[i].v}
      /\ heap_size' = heap_size /\ mapped' = mapped
  BY <1>3 DEF kfree, Freed
<1>5. /\ list \in Seq(Allocs) /\ Len(list) = n /\ list[i].free = TRUE
      /\ \A j \in 1..n : /\ list[j].at = allocs[j].at /\ list[j].v = allocs[j].v
                         /\ list[j].align_offset_size = allocs[j].align_offset_size
                         /\ list[j].size = allocs[j].size
                         /\ j # i => list[j].free = allocs[j].free
  BY <1>2, <1>3, FreedIs
<1>6. Tiled(list) /\ \A k \in 0..n : EndOf(list, k) = EndOf(allocs, k)
  BY <1>1, <1>2, <1>5, TiledSame
<1>7. HeapBase + cur_size = EndOf(list, Len(list))
  BY <1>1, <1>2, <1>5, <1>6, SMTT(30)
<1> DEFINE k == LastUsed(list)
<1>8. k \in 0..n /\ (k # 0 => list[k].free = FALSE) /\ \A j \in (k + 1)..n : list[j].free = TRUE
  BY <1>5, LastUsedIs
<1>9. /\ requested' \subseteq Requests
      /\ \A r \in requested' : r \in requested /\ r.v # allocs[i].v
  BY <1>2, <1>4
<1>10. PagesMappedOnce'
  BY <1>1, <1>4 DEF PagesMappedOnce, NextPage
<1>11. ASSUME NEW r \in requested'
       PROVE  /\ r.v % r.alignment = 0
              /\ \E j \in 1..k : list[j].v = r.v /\ list[j].size = r.size /\ list[j].free = FALSE
  <2>1. r \in requested /\ r.v # allocs[i].v
    BY <1>9
  <2>2. PICK j \in 1..n : allocs[j].v = r.v /\ allocs[j].size = r.size /\ allocs[j].free = FALSE
    BY <1>1, <2>1 DEF RequestsKept
  <2>3. j # i
    BY <2>1, <2>2
  <2>4. list[j].v = r.v /\ list[j].size = r.size /\ list[j].free = FALSE
    BY <1>5, <2>2, <2>3
  <2>5. j \notin (k + 1)..n
    BY <1>8, <2>4
  <2>6. j \in 1..k
    BY <1>2, <1>8, <2>5, SMTT(30)
  <2>7. r.v % r.alignment = 0
    BY <1>1, <2>1 DEF RequestsKept
  <2> QED BY <2>4, <2>6, <2>7
<1> HIDE DEF n, k
<1>12. CASE unsafe_truncate_heap(list)
  <2>1. allocs' = SubSeq(list, 1, k) /\ cur_size' = SizeAfter(list)[k]
    BY <1>12 DEF unsafe_truncate_heap, k
  <2>2. /\ allocs' \in Seq(Allocs) /\ Len(allocs') = k /\ \A j \in 1..k : allocs'[j] = list[j]
        /\ Tiled(allocs') /\ EndOf(allocs', k) = EndOf(list, k)
    BY <1>5, <1>6, <1>8, <2>1, TiledCut
  <2>3. cur_size' = EndOf(list, k) - HeapBase
    BY <1>2, <1>5, <1>6, <1>7, <1>8, <2>1, SizeAfterIs
  <2>4. EndOf(list, k) \in Nat /\ HeapBase <= EndOf(list, k) /\ EndOf(list, k) <= HeapBase + cur_size
    <3>1. CASE k = 0
      BY <1>2, <3>1, SMTT(30) DEF EndOf
    <3>2. CASE k # 0
      <4>1. k \in 1..Len(list)
        BY <1>2, <1>5, <1>8, <3>2, SMTT(30)
      <4>2. EndOf(list, k) = list[k].v + list[k].size
        BY <3>2 DEF EndOf
      <4>3. EndOf(list, k) <= HeapBase + cur_size
        BY <1>5, <1>6, <1>7, <4>1, <4>2, EndsInside
      <4>4. HeapBase <= EndOf(list, k) /\ EndOf(list, k) \in Nat
        BY <1>5, <1>6, <4>1, StartsInside
      <4> QED BY <4>3, <4>4
    <3> QED BY <3>1, <3>2
  <2>5. cur_size' \in Nat /\ cur_size' <= heap_size' /\ HeapBase + cur_size' = EndOf(list, k)
    <3>1. PICK e \in Nat : e = EndOf(list, k)
      BY <2>4
    <3> QED BY <1>2, <1>4, <2>3, <2>4, <3>1, SMTT(30)
  <2>6. HeapType'
    BY <1>2, <1>4, <1>9, <2>2, <2>5 DEF HeapType
  <2>7. RequestsKept(allocs)'
    BY <1>11, <2>2 DEF RequestsKept
  <2>8. /\ HeapBase + cur_size' = EndOf(allocs', Len(allocs'))
        /\ Len(allocs') # 0 => allocs'[Len(allocs')].free = FALSE
    BY <1>8, <2>2, <2>5, SMTT(30)
  <2> QED BY <1>10, <2>2, <2>6, <2>7, <2>8 DEF HeapInv, Tiled, EndOf
<1>13. CASE ~(i = n \/ allocs[i + 1].free)
  <2>1. allocs' = list /\ cur_size' = cur_size /\ i # n
    BY <1>4, <1>13
  <2>2. list[n].free = FALSE /\ n # 0
    BY <1>1, <1>2, <1>5, <2>1, SMTT(30)
  <2>3. HeapType'
    BY <1>2, <1>4, <1>5, <1>9, <2>1 DEF HeapType
  <2>4. RequestsKept(allocs)'
    <3>1. 1..k \subseteq 1..n
      BY <1>2, <1>8, SMTT(30)
    <3> QED BY <1>5, <1>11, <2>1, <3>1 DEF RequestsKept
  <2> QED BY <1>5, <1>6, <1>7, <1>10, <2>1, <2>2, <2>3, <2>4 DEF HeapInv, Tiled, EndOf
<1> QED BY <1>4, <1>12, <1>13

(* However kalloc and kfree are called, the allocations cover the heap      *)
(* without gap or overlap up to cur_size, what kalloc returned stays its    *)
(* caller's, aligned and mapped, and each page is mapped once.              *)
THEOREM HeapCorrect == HeapSpec => []HeapSound
<1>1. HeapInv /\ [HeapNext]_heapVars => HeapInv'
  <2>1. ASSUME HeapInv, HeapNext PROVE HeapInv'
    BY <2>1, KallocInv, KfreeInv DEF HeapNext
  <2>2. ASSUME HeapInv, UNCHANGED heapVars PROVE HeapInv'
    BY <2>2 DEF heapVars, HeapInv, HeapType, Tiled, EndOf, RequestsKept, PagesMappedOnce, NextPage
  <2> QED BY <2>1, <2>2
<1> QED BY <1>1, HeapInitInv, HeapIsSound, PTL DEF HeapSpec

-----------------------------------------------------------------------------
(***************************************************************************)
(* Loader.  The pages and strings are added up in loops; the lemmas say    *)
(* what the sums are, the theorem that what is written fits into them.     *)
(***************************************************************************)

(* What a case is made of.                                                  *)
LEMMA ProgramType ==
  ASSUME program \in Programs
  PROVE  /\ program.segments \in Seq(Nat \X Nat) /\ program.sections \in Seq(Nat \X Nat)
         /\ program.strings \in Seq(Nat) /\ Len(program.strings) \in Nat /\ Len(program.segments) \in Nat
         /\ UserPage \in Nat \ {0} /\ Pointer \in Nat \ {0}
         /\ \A i \in DOMAIN program.segments :
              program.segments[i][1] \in Nat /\ program.segments[i][2] \in Nat
<1>1. /\ program.segments \in Seq(Nat \X Nat) /\ program.sections \in Seq(Nat \X Nat)
      /\ program.strings \in Seq(Nat)
  BY LoaderAssumption
<1>2. UserPage \in Nat \ {0} /\ Pointer \in Nat \ {0}
  BY LoaderAssumption
<1>3. ASSUME NEW i \in DOMAIN program.segments
      PROVE  program.segments[i][1] \in Nat /\ program.segments[i][2] \in Nat
  <2>1. program.segments[i] \in Nat \X Nat
    BY <1>1, <1>3, SMTT(30)
  <2> QED BY <2>1
<1> QED BY <1>1, <1>2, <1>3, SMTT(30)

(* mask_to_page is the page an address is on.                               *)
LEMMA MaskIs ==
  ASSUME UserPage \in Nat \ {0}, NEW a \in Nat
  PROVE  /\ mask_to_page(a) = UserPage * (a \div UserPage) /\ a \div UserPage \in Nat
         /\ mask_to_page(a) \in Nat /\ mask_to_page(a) <= a /\ a < mask_to_page(a) + UserPage
<1> DEFINE d == a \div UserPage
           m == a % UserPage
<1>1. m \in 0..(UserPage - 1) /\ d \in Nat /\ a = UserPage * d + m
  BY DivMod
<1>2. mask_to_page(a) = a - m
  BY DEF mask_to_page
<1> HIDE DEF d, m
<1>3. PICK e \in Nat : e = UserPage * d
  BY <1>1, SMTT(30)
<1>4. mask_to_page(a) = e
  BY <1>1, <1>2, <1>3, SMTT(30)
<1>5. e <= a /\ a < e + UserPage
  BY <1>1, <1>3, SMTT(30)
<1> QED BY <1>1, <1>3, <1>4, <1>5 DEF d

LEMMA MaskOf ==
  ASSUME UserPage \in Nat \ {0}, NEW a \in Nat, NEW q \in Nat, UserPage * q <= a, a < UserPage * q + UserPage
  PROVE  mask_to_page(a) = UserPage * q
<1>1. PICK d \in Nat : d = a \div UserPage
  BY MaskIs
<1>2. mask_to_page(a) = UserPage * d /\ UserPage * d <= a /\ a < UserPage * d + UserPage
  BY <1>1, MaskIs
<1>3. ~(d < q)
  <2>1. d < q => UserPage * (d + 1) <= UserPage * q
    BY SMTT(30)
  <2>2. UserPage * (d + 1) = UserPage * d + UserPage
    BY SMTT(30)
  <2> QED BY <1>2, <2>1, <2>2, SMTT(30)
<1>4. ~(q < d)
  <2>1. q < d => UserPage * (q + 1) <= UserPage * d
    BY SMTT(30)
  <2>2. UserPage * (q + 1) = UserPage * q + UserPage
    BY SMTT(30)
  <2> QED BY <1>2, <2>1, <2>2, SMTT(30)
<1>5. d = q
  BY <1>3, <1>4, SMTT(30)
<1> QED BY <1>2, <1>5

(* The break is at or behind the page each segment ends on, and is a page.  *)
LEMMA BreakIs ==
  ASSUME program \in Programs
  PROVE  /\ \E k \in Nat : StackPage = UserPage * k
         /\ \A i \in DOMAIN program.segments :
              mask_to_page(program.segments[i][1] + program.segments[i][2]) <= StackPage
<1> DEFINE segs == program.segments
           end(i) == mask_to_page(segs[i][1] + segs[i][2])
           Ends(n) == {0} \cup {end(i) : i \in 1..n}
           Highest(b, n) == b \in Ends(n) /\ \A e \in Ends(n) : e <= b
           Bad == {n \in 0..Len(segs) : ~\E b : Highest(b, n)}
<1>1. DOMAIN segs = 1..Len(segs) /\ Len(segs) \in Nat /\ UserPage \in Nat \ {0}
  BY ProgramType, SMTT(30)
<1>2. ASSUME NEW i \in 1..Len(segs) PROVE end(i) \in Nat /\ \E k \in Nat : end(i) = UserPage * k
  <2>1. segs[i][1] + segs[i][2] \in Nat
    BY <1>1, <1>2, ProgramType, SMTT(30)
  <2> QED BY <1>1, <2>1, MaskIs
<1> HIDE DEF end
<1>3. ASSUME Bad # {} PROVE FALSE
  <2>1. Bad \in SUBSET Nat
    BY SMTT(30)
  <2> HIDE DEF Bad
  <2>2. PICK n \in Bad : \A m \in Bad : n <= m
    BY <1>3, <2>1, LeastNatural
  <2> USE DEF Bad
  <2>3. n \in 0..Len(segs) /\ ~\E b : Highest(b, n)
    BY <2>2
  <2>4. n # 0
    <3>1. Highest(0, 0)
      BY SMTT(30) DEF Ends
    <3> QED BY <2>3, <3>1
  <2>5. n - 1 \in 0..Len(segs) /\ n \in 1..Len(segs) /\ n - 1 \notin Bad
    <3>1. n - 1 \in 0..Len(segs) /\ n \in 1..Len(segs) /\ ~(n <= n - 1)
      BY <1>1, <2>3, <2>4, SMTT(30)
    <3> HIDE DEF Bad
    <3> QED BY <2>2, <3>1
  <2>6. PICK b : Highest(b, n - 1)
    BY <2>5
  <2>7. Ends(n) = Ends(n - 1) \cup {end(n)}
    BY <2>5, SMTT(30)
  <2>8. b \in Nat /\ end(n) \in Nat
    BY <1>2, <2>5, <2>6, SMTT(30)
  <2> DEFINE c == IF end(n) > b THEN end(n) ELSE b
  <2>9. Highest(c, n)
    <3>1. c \in Ends(n)
      BY <2>6, <2>7
    <3>2. \A e \in Ends(n) : e <= c
      <4>1. \A e \in Ends(n - 1) : e \in Nat /\ e <= b
        BY <1>2, <2>5, <2>6, SMTT(30)
      <4> HIDE DEF Ends
      <4> QED BY <2>7, <2>8, <4>1, SMTT(30)
    <3> QED BY <3>1, <3>2
  <2> QED BY <2>3, <2>9
<1>4. \E b : Highest(b, Len(segs))
  <2> HIDE DEF Bad, Highest
  <2>1. Len(segs) \in 0..Len(segs) /\ Len(segs) \notin Bad
    BY <1>1, <1>3, SMTT(30)
  <2> QED BY <2>1 DEF Bad
<1>5. Ends(Len(segs)) = {0} \cup {mask_to_page(segs[i][1] + segs[i][2]) : i \in DOMAIN segs}
  BY <1>1 DEF end
<1>6. StackPage = CHOOSE b \in Ends(Len(segs)) : \A e \in Ends(Len(segs)) : e <= b
  BY <1>5 DEF StackPage, SegmentBreak
<1>7. Highest(StackPage, Len(segs))
  <2> HIDE DEF Ends
  <2>1. \E b \in Ends(Len(segs)) : \A e \in Ends(Len(segs)) : e <= b
    BY <1>4
  <2> QED BY <1>6, <2>1
<1>8. ASSUME NEW i \in DOMAIN segs PROVE end(i) <= StackPage
  <2>1. end(i) \in Ends(Len(segs))
    BY <1>1, <1>8
  <2> HIDE DEF Ends
  <2> QED BY <1>7, <2>1
<1>9. \E k \in Nat : StackPage = UserPage * k
  <2>1. CASE StackPage = 0
    BY <1>1, <2>1, SMTT(30)
  <2>2. CASE StackPage # 0
    <3>1. PICK i \in 1..Len(segs) : StackPage = end(i)
      BY <1>7, <2>2
    <3> QED BY <1>2, <3>1
  <2> QED BY <2>1, <2>2
<1> QED BY <1>8, <1>9 DEF end

(* The offsets of the strings add up their lengths.                         *)
LEMMA OffsetsAre ==
  ASSUME program \in Programs
  PROVE  /\ StringOffsets[0] = 0
         /\ \A n \in 1..Len(program.strings) :
              StringOffsets[n] = StringOffsets[n - 1] + program.strings[n] + 1
         /\ \A n \in 0..Len(program.strings) : StringOffsets[n] \in Nat
<1> DEFINE s == program.strings
           N == Len(s)
           Sum(w, k) == IF k = 0 THEN 0 ELSE w[k - 1] + s[k] + 1
           Sums(n, g) == g \in [0..n -> Nat] /\ \A k \in 0..n : g[k] = Sum(g, k)
           Bad == {n \in 0..N : ~\E g : Sums(n, g)}
<1>1. N \in Nat /\ \A k \in 1..N : s[k] \in Nat
  BY ProgramType, SMTT(30)
<1> HIDE DEF s, N
<1>2. ASSUME Bad # {} PROVE FALSE
  <2>1. Bad \in SUBSET Nat
    BY <1>1, SMTT(30)
  <2> HIDE DEF Bad
  <2>2. PICK n \in Bad : \A m \in Bad : n <= m
    BY <1>2, <2>1, LeastNatural
  <2>3. n \in 0..N /\ ~\E g : Sums(n, g)
    BY <2>2 DEF Bad
  <2>4. n # 0
    <3>1. Sums(0, [k \in 0..0 |-> 0])
      BY SMTT(30)
    <3> QED BY <2>3, <3>1
  <2>5. n - 1 \in 0..N /\ n \in 1..N /\ n - 1 \in Nat
    BY <1>1, <2>3, <2>4, SMTT(30)
  <2>6. PICK g : Sums(n - 1, g)
    <3>1. n - 1 \notin Bad
      BY <2>2, <2>5, SMTT(30)
    <3> QED BY <2>5, <3>1 DEF Bad
  <2> DEFINE h == [k \in 0..n |-> IF k = n THEN g[n - 1] + s[n] + 1 ELSE g[k]]
  <2>7. g[n - 1] \in Nat /\ s[n] \in Nat /\ g \in [0..(n - 1) -> Nat]
    BY <1>1, <2>5, <2>6, SMTT(30)
  <2>8. h \in [0..n -> Nat]
    BY <2>5, <2>7, SMTT(30)
  <2>9. ASSUME NEW k \in 0..n PROVE h[k] = Sum(h, k)
    <3>1. CASE k = n
      <4>1. h[k - 1] = g[n - 1] /\ h[k] = g[n - 1] + s[n] + 1
        BY <2>5, <3>1, SMTT(30)
      <4> QED BY <2>4, <3>1, <4>1
    <3>2. CASE k # n
      <4>1. k \in 0..(n - 1) /\ h[k] = g[k] /\ g[k] = Sum(g, k)
        BY <2>5, <2>6, <2>9, <3>2, SMTT(30)
      <4>2. k # 0 => h[k - 1] = g[k - 1]
        BY <2>5, <2>9, <3>2, SMTT(30)
      <4> QED BY <4>1, <4>2
    <3> QED BY <3>1, <3>2
  <2>10. Sums(n, h)
    BY <2>8, <2>9
  <2> QED BY <2>3, <2>10
<1>3. PICK g : Sums(N, g)
  <2> HIDE DEF Bad, Sums
  <2>1. N \in 0..N /\ N \notin Bad
    BY <1>1, <1>2, SMTT(30)
  <2> QED BY <2>1 DEF Bad
<1>4. g = [k \in 0..N |-> Sum(g, k)]
  BY <1>3
<1>5. StringOffsets = [k \in 0..N |-> Sum(StringOffsets, k)]
  BY <1>4 DEF StringOffsets, N, s
<1>6. ASSUME NEW n \in 0..N PROVE StringOffsets[n] = Sum(StringOffsets, n)
  BY <1>5, <1>6
<1>7. StringOffsets[0] = 0
  BY <1>1, <1>6, SMTT(30)
<1>8. ASSUME NEW n \in 1..N PROVE StringOffsets[n] = StringOffsets[n - 1] + s[n] + 1
  <2>1. n \in 0..N /\ n # 0
    BY <1>1, <1>8, SMTT(30)
  <2> QED BY <1>6, <2>1
<1>9. \A n \in 0..N : StringOffsets[n] \in Nat
  <2> DEFINE Odd == {n \in 0..N : StringOffsets[n] \notin Nat}
  <2>1. SUFFICES ASSUME Odd # {} PROVE FALSE
    OBVIOUS
  <2>2. Odd \in SUBSET Nat
    BY <1>1, SMTT(30)
  <2> HIDE DEF Odd
  <2>3. PICK n \in Odd : \A m \in Odd : n <= m
    BY <2>1, <2>2, LeastNatural
  <2>4. n \in 0..N /\ StringOffsets[n] \notin Nat
    BY <2>3 DEF Odd
  <2>5. n # 0
    BY <1>7, <2>4, SMTT(30)
  <2>6. n \in 1..N /\ n - 1 \in 0..N /\ ~(n <= n - 1)
    BY <1>1, <2>4, <2>5, SMTT(30)
  <2>7. StringOffsets[n - 1] \in Nat
    <3>1. n - 1 \notin Odd
      BY <2>3, <2>6
    <3> QED BY <2>6, <3>1 DEF Odd
  <2> QED BY <1>1, <1>8, <2>4, <2>6, <2>7, SMTT(30)
<1> QED BY <1>7, <1>8, <1>9 DEF N, s

(* A string ends before any later one begins.                               *)
LEMMA OffsetsGrow ==
  ASSUME program \in Programs, NEW i \in 1..Len(program.strings), NEW j \in i..Len(program.strings)
  PROVE  StringOffsets[i - 1] + program.strings[i] + 1 <= StringOffsets[j]
<1> DEFINE s == program.strings
           N == Len(s)
           Bad == {n \in i..N : ~(StringOffsets[i] <= StringOffsets[n])}
<1>1. N \in Nat /\ (\A k \in 1..N : s[k] \in Nat) /\ i \in 1..N /\ i \in Nat
  BY ProgramType, SMTT(30)
<1>2. /\ \A n \in 1..N : StringOffsets[n] = StringOffsets[n - 1] + s[n] + 1
      /\ \A n \in 0..N : StringOffsets[n] \in Nat
  BY OffsetsAre
<1> HIDE DEF s, N
<1>3. ASSUME Bad # {} PROVE FALSE
  <2>1. Bad \in SUBSET Nat
    BY <1>1, SMTT(30)
  <2> HIDE DEF Bad
  <2>2. PICK n \in Bad : \A m \in Bad : n <= m
    BY <1>3, <2>1, LeastNatural
  <2>3. n \in i..N /\ ~(StringOffsets[i] <= StringOffsets[n])
    BY <2>2 DEF Bad
  <2>4. StringOffsets[i] \in Nat /\ n # i
    BY <1>1, <1>2, <2>3, SMTT(30)
  <2>5. n \in 1..N /\ n - 1 \in 0..N /\ n - 1 \in i..N /\ ~(n <= n - 1)
    BY <1>1, <2>3, <2>4, SMTT(30)
  <2>6. StringOffsets[i] <= StringOffsets[n - 1]
    <3>1. n - 1 \notin Bad
      BY <2>2, <2>5
    <3> QED BY <2>5, <3>1 DEF Bad
  <2>7. /\ StringOffsets[n - 1] \in Nat /\ s[n] \in Nat
        /\ StringOffsets[n] = StringOffsets[n - 1] + s[n] + 1
    BY <1>1, <1>2, <2>5
  <2> QED BY <2>3, <2>4, <2>6, <2>7, SMTT(30)
<1>4. j \in i..N
  BY DEF N, s
<1>5. StringOffsets[i] <= StringOffsets[j]
  BY <1>3, <1>4
<1>6. StringOffsets[i] = StringOffsets[i - 1] + s[i] + 1
  BY <1>1, <1>2
<1> QED BY <1>5, <1>6 DEF s

(* The sizes and places the loader computes are numbers, in this order.     *)
LEMMA LoaderPlaces ==
  ASSUME program \in Programs
  PROVE  /\ StackPage \in Nat /\ EnvTable \in Nat /\ EnvTable = StackPage + UserPage
         /\ \E k \in Nat : EnvTable = UserPage * k
         /\ EnvNum \in Nat /\ EnvNum * Pointer \in Nat /\ FormattedEnvSize \in Nat
         /\ FormattedEnvSize = EnvNum * Pointer + StringOffsets[Len(program.strings)]
<1>1. UserPage \in Nat \ {0} /\ Pointer \in Nat \ {0} /\ Len(program.strings) \in Nat
  BY ProgramType
<1>2. PICK k \in Nat : StackPage = UserPage * k
  BY BreakIs
<1>3. EnvTable = UserPage * (k + 1) /\ k + 1 \in Nat /\ StackPage \in Nat /\ EnvTable \in Nat
  BY <1>1, <1>2, SMTT(30) DEF EnvTable
<1>4. EnvNum \in Nat
  BY <1>1, SMTT(30) DEF EnvNum
<1>5. EnvNum * Pointer \in Nat /\ Pointer * EnvNum = EnvNum * Pointer
  BY <1>1, <1>4, SMTT(30)
<1>6. StringOffsets[Len(program.strings)] \in Nat
  BY <1>1, OffsetsAre, SMTT(30)
<1>7. EnvTable = StackPage + UserPage
  BY DEF EnvTable
<1>8. FormattedEnvSize = EnvNum * Pointer + StringOffsets[Len(program.strings)]
  BY <1>5 DEF FormattedEnvSize
<1> QED BY <1>3, <1>4, <1>5, <1>6, <1>7, <1>8, SMTT(30)

(* The bytes of the environment are on the pages reserved for it.           *)
LEMMA EnvInside ==
  ASSUME program \in Programs, NEW a \in Nat, EnvTable <= a, a < EnvTable + FormattedEnvSize
  PROVE  mask_to_page(a) \in Reserved /\ a < Break
<1> DEFINE F == FormattedEnvSize
           x == a - EnvTable
           d == x \div UserPage
           q == F \div UserPage
           r == F % UserPage
           m == x % UserPage
<1>1. UserPage \in Nat \ {0}
  BY ProgramType
<1>2. EnvTable \in Nat /\ F \in Nat /\ \E k \in Nat : EnvTable = UserPage * k
  BY LoaderPlaces
<1>3. x \in Nat /\ x < F /\ a = EnvTable + x
  BY <1>2, SMTT(30)
<1> HIDE DEF F, x
<1>4. m \in 0..(UserPage - 1) /\ d \in Nat /\ x = UserPage * d + m
  BY <1>1, <1>3, DivMod
<1>5. r \in 0..(UserPage - 1) /\ q \in Nat /\ F = UserPage * q + r
  BY <1>1, <1>2, DivMod
<1>6. EnvPages(F) = q + 1
  BY DEF EnvPages
<1> HIDE DEF d, m, q, r
<1>7. d <= q
  <2>1. q < d => UserPage * (q + 1) <= UserPage * d
    BY <1>1, <1>4, <1>5, SMTT(30)
  <2>2. UserPage * (q + 1) = UserPage * q + UserPage /\ UserPage * q \in Nat /\ UserPage * d \in Nat
    BY <1>1, <1>4, <1>5, SMTT(30)
  <2> QED BY <1>1, <1>3, <1>4, <1>5, <2>1, <2>2, SMTT(30)
<1>8. mask_to_page(a) = EnvTable + d * UserPage
  <2>1. PICK k \in Nat : EnvTable = UserPage * k
    BY <1>2
  <2>2. UserPage * (k + d) = EnvTable + UserPage * d /\ k + d \in Nat /\ UserPage * d = d * UserPage
    BY <1>1, <1>4, <2>1, SMTT(30)
  <2>3. PICK b \in Nat : b = UserPage * d
    BY <1>1, <1>4, SMTT(30)
  <2>4. UserPage * (k + d) <= a /\ a < UserPage * (k + d) + UserPage
    BY <1>1, <1>2, <1>3, <1>4, <2>2, <2>3, SMTT(30)
  <2>5. mask_to_page(a) = UserPage * (k + d)
    BY <1>1, <2>2, <2>4, MaskOf
  <2> QED BY <2>2, <2>5
<1>9. d \in 0..(EnvPages(FormattedEnvSize) - 1)
  BY <1>4, <1>5, <1>6, <1>7, SMTT(30) DEF F
<1>10. mask_to_page(a) \in Reserved
  <2>1. mask_to_page(a) \in EnvReserved
    BY <1>8, <1>9 DEF EnvReserved
  <2> QED BY <2>1 DEF Reserved
<1>11. a < Break
  <2>1. PICK b \in Nat : b = UserPage * q
    BY <1>1, <1>5, SMTT(30)
  <2>2. (q + 1) * UserPage = b + UserPage
    BY <1>1, <1>5, <2>1, SMTT(30)
  <2>3. Break = EnvTable + (b + UserPage)
    BY <1>6, <2>2 DEF Break, F
  <2> QED BY <1>1, <1>2, <1>3, <1>5, <2>1, <2>3, SMTT(30)
<1> QED BY <1>10, <1>11

(* The bytes of a segment are on its pages, before the environment.         *)
LEMMA SegmentInside ==
  ASSUME program \in Programs, NEW i \in DOMAIN program.segments,
         NEW a \in BytesOf(program.segments[i])
  PROVE  /\ a \in Nat /\ a < EnvTable
         /\ mask_to_page(a) \in Reserved /\ a < Break
<1> DEFINE from == program.segments[i][1]
           size == program.segments[i][2]
           to == program.segments[i][1] + program.segments[i][2]
<1>1. from \in Nat /\ size \in Nat /\ to \in Nat /\ to = from + size /\ UserPage \in Nat \ {0}
  BY ProgramType, SMTT(30)
<1>2. a \in from..(to - 1)
  <2>1. a \in from..(from + size - 1)
    BY DEF BytesOf
  <2> HIDE DEF from, size, to
  <2> QED BY <1>1, <2>1, SMTT(30)
<1>3. mask_to_page(to) <= StackPage
  BY BreakIs
<1>4. mask_to_page(a) \in SegmentPages(program.segments[i])
  <2>1. a \in from..to
    <3> HIDE DEF from, size, to
    <3> QED BY <1>1, <1>2, SMTT(30)
  <2> QED BY <2>1 DEF SegmentPages, PagesBetween
<1> HIDE DEF from, size, to
<1>5. mask_to_page(to) \in Nat /\ to < mask_to_page(to) + UserPage
  BY <1>1, MaskIs
<1>6. StackPage \in Nat /\ EnvTable = StackPage + UserPage /\ FormattedEnvSize \in Nat /\ EnvTable \in Nat
  BY LoaderPlaces
<1>7. a \in Nat /\ a < EnvTable
  BY <1>1, <1>2, <1>3, <1>5, <1>6, SMTT(30)
<1>8. mask_to_page(a) \in Reserved
  BY <1>4 DEF Reserved
<1>9. EnvTable < Break
  <2>1. PICK q \in Nat : q = FormattedEnvSize \div UserPage
    BY <1>1, <1>6, DivMod
  <2>2. (q + 1) * UserPage = q * UserPage + UserPage /\ q * UserPage \in Nat
    BY <1>1, SMTT(30)
  <2>3. Break = EnvTable + (q + 1) * UserPage
    BY <2>1 DEF Break, EnvPages
  <2>4. PICK b \in Nat : b = q * UserPage
    BY <2>2
  <2> QED BY <1>1, <1>6, <2>2, <2>3, <2>4, SMTT(30)
<1>10. a < Break
  <2>1. Break \in Int
    <3>1. FormattedEnvSize \div UserPage + 1 \in Int
      BY <1>1, <1>6, DivMod, SMTT(30)
    <3>2. PICK e \in Int : e = FormattedEnvSize \div UserPage + 1
      BY <3>1
    <3>3. e * UserPage \in Int
      BY <1>1, SMTT(30)
    <3> QED BY <1>6, <3>2, <3>3, SMTT(30) DEF Break, EnvPages
  <2> QED BY <1>6, <1>7, <1>9, <2>1, SMTT(30)
<1> QED BY <1>7, <1>8, <1>10

(* The entries of the environment's table follow each other.                *)
LEMMA PointerPlaces ==
  ASSUME program \in Programs, NEW i \in 1..EnvNum
  PROVE  /\ EnvTable + (i - 1) * Pointer \in Nat /\ EnvTable <= EnvTable + (i - 1) * Pointer
         /\ EnvTable + (i - 1) * Pointer + Pointer <= EnvTable + EnvNum * Pointer
         /\ \A j \in 1..EnvNum : i < j =>
              EnvTable + (i - 1) * Pointer + Pointer <= EnvTable + (j - 1) * Pointer
<1>1. Pointer \in Nat \ {0} /\ EnvTable \in Nat /\ EnvNum \in Nat /\ i \in Nat \ {0} /\ i <= EnvNum
  BY ProgramType, LoaderPlaces, SMTT(30)
<1>2. PICK p \in Nat : p = (i - 1) * Pointer
  BY <1>1, SMTT(30)
<1>3. ASSUME NEW m \in Nat, i <= m PROVE p + Pointer <= m * Pointer
  <2>1. i * Pointer = p + Pointer
    BY <1>1, <1>2, SMTT(30)
  <2>2. i * Pointer <= m * Pointer
    BY <1>1, <1>3, SMTT(30)
  <2> QED BY <2>1, <2>2
<1>4. p + Pointer <= EnvNum * Pointer /\ EnvNum * Pointer \in Nat
  BY <1>1, <1>3, SMTT(30)
<1>5. ASSUME NEW j \in 1..EnvNum, i < j
      PROVE  p + Pointer <= (j - 1) * Pointer /\ (j - 1) * Pointer \in Nat
  <2>1. j - 1 \in Nat /\ i <= j - 1
    BY <1>1, <1>5, SMTT(30)
  <2> QED BY <1>1, <1>3, <2>1, SMTT(30)
<1>6. EnvTable + p + Pointer <= EnvTable + EnvNum * Pointer
  BY <1>1, <1>4, SMTT(30)
<1>7. ASSUME NEW j \in 1..EnvNum, i < j PROVE EnvTable + p + Pointer <= EnvTable + (j - 1) * Pointer
  BY <1>1, <1>5, <1>7, SMTT(30)
<1> QED BY <1>1, <1>2, <1>6, <1>7, SMTT(30)

(* The strings follow the table and each other.                             *)
LEMMA StringPlaces ==
  ASSUME program \in Programs, NEW i \in DOMAIN program.strings
  PROVE  /\ StringAt(i) \in Nat /\ program.strings[i] \in Nat
         /\ EnvTable + EnvNum * Pointer <= StringAt(i)
         /\ StringAt(i) + program.strings[i] + 1 <= EnvTable + FormattedEnvSize
         /\ \A j \in DOMAIN program.strings : i < j => StringAt(i) + program.strings[i] + 1 <= StringAt(j)
<1> DEFINE N == Len(program.strings)
           length == program.strings[i]
           table == EnvTable + EnvNum * Pointer
<1>1. N \in Nat /\ i \in 1..N /\ i - 1 \in 0..N /\ length \in Nat /\ N \in i..N
  BY ProgramType, SMTT(30)
<1>2. /\ EnvTable \in Nat /\ EnvNum * Pointer \in Nat /\ table \in Nat
      /\ EnvTable + FormattedEnvSize = table + StringOffsets[N]
  <2>1. EnvTable \in Nat /\ EnvNum * Pointer \in Nat /\ FormattedEnvSize = EnvNum * Pointer + StringOffsets[N]
    BY LoaderPlaces
  <2>2. StringOffsets[N] \in Nat
    BY <1>1, OffsetsAre, SMTT(30)
  <2>3. PICK t \in Nat : t = EnvNum * Pointer
    BY <2>1
  <2> QED BY <2>1, <2>2, <2>3, SMTT(30)
<1>3. ASSUME NEW j \in 1..N PROVE StringAt(j) = table + StringOffsets[j - 1]
  BY DEF StringAt
<1>4. \A n \in 0..N : StringOffsets[n] \in Nat
  BY OffsetsAre
<1>5. \A j \in i..N : StringOffsets[i - 1] + length + 1 <= StringOffsets[j]
  BY <1>1, OffsetsGrow
<1>6. DOMAIN program.strings = 1..N
  BY ProgramType, SMTT(30)
<1> HIDE DEF N, length, table
<1>7. ASSUME NEW j \in DOMAIN program.strings, i < j
      PROVE  j \in 1..N /\ j - 1 \in i..N /\ j - 1 \in 0..N
  BY <1>1, <1>6, <1>7, SMTT(30)
<1>8. StringAt(i) = table + StringOffsets[i - 1] /\ StringOffsets[i - 1] \in Nat
  BY <1>1, <1>3, <1>4
<1>9. StringAt(i) \in Nat /\ table <= StringAt(i)
  BY <1>2, <1>8, SMTT(30)
<1>10. StringAt(i) + length + 1 <= EnvTable + FormattedEnvSize
  <2>1. StringOffsets[N] \in Nat /\ StringOffsets[i - 1] + length + 1 <= StringOffsets[N]
    BY <1>1, <1>4, <1>5, SMTT(30)
  <2> QED BY <1>1, <1>2, <1>8, <2>1, SMTT(30)
<1>11. ASSUME NEW j \in DOMAIN program.strings, i < j PROVE StringAt(i) + length + 1 <= StringAt(j)
  <2>1. StringAt(j) = table + StringOffsets[j - 1] /\ StringOffsets[j - 1] \in Nat
    BY <1>3, <1>4, <1>7, <1>11
  <2>2. StringOffsets[i - 1] + length + 1 <= StringOffsets[j - 1]
    BY <1>5, <1>7, <1>11
  <2> QED BY <1>1, <1>2, <1>8, <2>1, <2>2, SMTT(30)
<1> QED BY <1>1, <1>9, <1>10, <1>11 DEF length, table

(* Each of the environment's writes is a range within the environment.      *)
LEMMA EnvWrites ==
  ASSUME program \in Programs, NEW w \in PointerWrites \cup StringWrites
  PROVE  /\ w[1] \in Nat /\ w[2] \in Nat
         /\ EnvTable <= w[1] /\ w[1] + w[2] <= EnvTable + FormattedEnvSize
<1>1. /\ EnvTable \in Nat /\ EnvNum * Pointer \in Nat /\ FormattedEnvSize \in Nat /\ Pointer \in Nat
      /\ FormattedEnvSize = EnvNum * Pointer + StringOffsets[Len(program.strings)]
      /\ StringOffsets[Len(program.strings)] \in Nat
  <2>1. Len(program.strings) \in 0..Len(program.strings)
    BY ProgramType, SMTT(30)
  <2> QED BY <2>1, LoaderPlaces, OffsetsAre, ProgramType
<1>2. EnvTable + EnvNum * Pointer <= EnvTable + FormattedEnvSize
  <2>1. PICK t \in Nat : t = EnvNum * Pointer
    BY <1>1
  <2> QED BY <1>1, <2>1, SMTT(30)
<1>3. CASE w \in PointerWrites
  <2>1. PICK i \in 1..EnvNum : w = <<EnvTable + (i - 1) * Pointer, Pointer>>
    BY <1>3 DEF PointerWrites
  <2>2. PICK at : at = EnvTable + (i - 1) * Pointer
    OBVIOUS
  <2>3. at \in Nat /\ EnvTable <= at /\ at + Pointer <= EnvTable + EnvNum * Pointer
    BY <2>2, PointerPlaces
  <2>4. w[1] = at /\ w[2] = Pointer
    BY <2>1, <2>2
  <2>5. PICK t \in Nat : t = EnvNum * Pointer
    BY <1>1
  <2> QED BY <1>1, <1>2, <2>3, <2>4, <2>5, SMTT(30)
<1>4. CASE w \in StringWrites
  <2>1. PICK i \in DOMAIN program.strings : w = <<StringAt(i), program.strings[i] + 1>>
    BY <1>4 DEF StringWrites
  <2>2. /\ StringAt(i) \in Nat /\ program.strings[i] \in Nat
        /\ EnvTable + EnvNum * Pointer <= StringAt(i)
        /\ StringAt(i) + program.strings[i] + 1 <= EnvTable + FormattedEnvSize
    BY StringPlaces
  <2>3. w[1] = StringAt(i) /\ w[2] = program.strings[i] + 1
    BY <2>1
  <2>4. PICK t \in Nat : t = EnvNum * Pointer
    BY <1>1
  <2>5. EnvTable + t <= StringAt(i)
    BY <2>2, <2>4
  <2>6. PICK b \in Nat, n \in Nat : b = StringAt(i) /\ n = program.strings[i]
    BY <2>2
  <2>7. EnvTable <= b /\ b + (n + 1) <= EnvTable + FormattedEnvSize
    <3>1. b + n + 1 <= EnvTable + FormattedEnvSize /\ EnvTable + t <= b
      BY <2>2, <2>5, <2>6
    <3> QED BY <1>1, <3>1, SMTT(30)
  <2> QED BY <2>3, <2>6, <2>7, SMTT(30)
<1> QED BY <1>3, <1>4

(* Two of them that are not the same have no byte in common.                *)
LEMMA EnvWritesApart ==
  ASSUME program \in Programs, NEW w \in PointerWrites \cup StringWrites,
         NEW x \in PointerWrites \cup StringWrites, w # x
  PROVE  w[1] + w[2] <= x[1] \/ x[1] + x[2] <= w[1]
<1>1. \A u \in PointerWrites \cup StringWrites : u[1] \in Nat /\ u[2] \in Nat
  BY EnvWrites
<1>2. ASSUME NEW u \in PointerWrites, NEW v \in PointerWrites, u # v
      PROVE  u[1] + u[2] <= v[1] \/ v[1] + v[2] <= u[1]
  <2>1. PICK i \in 1..EnvNum : u = <<EnvTable + (i - 1) * Pointer, Pointer>>
    BY DEF PointerWrites
  <2>2. PICK j \in 1..EnvNum : v = <<EnvTable + (j - 1) * Pointer, Pointer>>
    BY DEF PointerWrites
  <2>3. i < j \/ j < i
    <3>1. i # j
      BY <1>2, <2>1, <2>2
    <3> QED BY <3>1, LoaderPlaces, SMTT(30)
  <2>4. u[1] = EnvTable + (i - 1) * Pointer /\ u[2] = Pointer
    BY <2>1
  <2>5. v[1] = EnvTable + (j - 1) * Pointer /\ v[2] = Pointer
    BY <2>2
  <2>6. i < j => u[1] + u[2] <= v[1]
    BY <2>4, <2>5, PointerPlaces
  <2>7. j < i => v[1] + v[2] <= u[1]
    BY <2>4, <2>5, PointerPlaces
  <2> QED BY <2>3, <2>6, <2>7
<1>3. ASSUME NEW u \in StringWrites, NEW v \in StringWrites, u # v
      PROVE  u[1] + u[2] <= v[1] \/ v[1] + v[2] <= u[1]
  <2>1. PICK i \in DOMAIN program.strings : u = <<StringAt(i), program.strings[i] + 1>>
    BY DEF StringWrites
  <2>2. PICK j \in DOMAIN program.strings : v = <<StringAt(j), program.strings[j] + 1>>
    BY DEF StringWrites
  <2>3. i < j \/ j < i
    <3>1. i # j
      BY <1>3, <2>1, <2>2
    <3> QED BY <3>1, ProgramType, SMTT(30)
  <2>4. u[1] = StringAt(i) /\ u[2] = program.strings[i] + 1
    BY <2>1
  <2>5. v[1] = StringAt(j) /\ v[2] = program.strings[j] + 1
    BY <2>2
  <2>6. ASSUME NEW k \in DOMAIN program.strings
        PROVE  /\ StringAt(k) \in Nat /\ program.strings[k] \in Nat
               /\ \A l \in DOMAIN program.strings :
                    k < l => StringAt(k) + program.strings[k] + 1 <= StringAt(l)
    BY StringPlaces
  <2>7. i < j => u[1] + u[2] <= v[1]
    BY <2>4, <2>5, <2>6, SMTT(30)
  <2>8. j < i => v[1] + v[2] <= u[1]
    BY <2>4, <2>5, <2>6, SMTT(30)
  <2> QED BY <2>3, <2>7, <2>8
<1>4. ASSUME NEW u \in PointerWrites, NEW v \in StringWrites PROVE u[1] + u[2] <= v[1]
  <2>1. PICK i \in 1..EnvNum : u = <<EnvTable + (i - 1) * Pointer, Pointer>>
    BY DEF PointerWrites
  <2>2. PICK j \in DOMAIN program.strings : v = <<StringAt(j), program.strings[j] + 1>>
    BY DEF StringWrites
  <2>3. u[1] = EnvTable + (i - 1) * Pointer /\ u[2] = Pointer /\ v[1] = StringAt(j)
    BY <2>1, <2>2
  <2>4. u[1] + u[2] <= EnvTable + EnvNum * Pointer
    BY <2>3, PointerPlaces
  <2>5. EnvTable + EnvNum * Pointer <= v[1] /\ EnvTable \in Nat /\ EnvNum * Pointer \in Nat
    BY <2>3, StringPlaces, LoaderPlaces
  <2>6. PICK t \in Nat : t = EnvNum * Pointer
    BY <2>5
  <2> QED BY <1>1, <2>4, <2>5, <2>6, SMTT(30)
<1> QED BY <1>2, <1>3, <1>4

(* Every byte written is on a reserved page and below the break.            *)
LEMMA WritesInside ==
  ASSUME program \in Programs
  PROVE  WritesReserved
<1>1. ASSUME NEW i \in DOMAIN program.segments PROVE Inside(BytesOf(program.segments[i]))
  BY <1>1, SegmentInside DEF Inside
<1>2. ASSUME NEW w \in SectionWrites PROVE Inside(BytesOf(w))
  <2>1. PICK i \in LoadedSections : w = program.sections[i]
    BY <1>2 DEF SectionWrites
  <2>2. i \in DOMAIN program.sections /\ w[2] > 0 /\ w[1] > 0
    BY <2>1 DEF LoadedSections
  <2>3. PICK j \in DOMAIN program.segments :
          /\ program.segments[j][1] <= w[1]
          /\ w[1] + w[2] <= program.segments[j][1] + program.segments[j][2]
    BY <2>1, <2>2, LoaderAssumption
  <2>4. w[1] \in Nat /\ w[2] \in Nat
    <3>1. w \in Nat \X Nat
      BY <2>1, <2>2, ProgramType, SMTT(30)
    <3> QED BY <3>1
  <2>5. PICK from \in Nat, size \in Nat : from = program.segments[j][1] /\ size = program.segments[j][2]
    BY ProgramType
  <2>6. PICK at \in Nat, bytes \in Nat : at = w[1] /\ bytes = w[2]
    BY <2>4
  <2>7. from <= at /\ at + bytes <= from + size
    BY <2>3, <2>5, <2>6
  <2>8. at..(at + bytes - 1) \subseteq from..(from + size - 1)
    BY <2>7, SMTT(30)
  <2>9. BytesOf(w) \subseteq BytesOf(program.segments[j])
    BY <2>5, <2>6, <2>8 DEF BytesOf
  <2> QED BY <1>1, <2>9 DEF Inside
<1>3. ASSUME NEW w \in PointerWrites \cup StringWrites PROVE Inside(BytesOf(w))
  <2>1. /\ w[1] \in Nat /\ w[2] \in Nat /\ EnvTable \in Nat /\ FormattedEnvSize \in Nat
        /\ EnvTable <= w[1] /\ w[1] + w[2] <= EnvTable + FormattedEnvSize
    BY EnvWrites, LoaderPlaces
  <2>2. ASSUME NEW a \in BytesOf(w) PROVE a \in Nat /\ EnvTable <= a /\ a < EnvTable + FormattedEnvSize
    BY <2>1, SMTT(30) DEF BytesOf
  <2> QED BY <2>2, EnvInside DEF Inside
<1> QED BY <1>1, <1>2, <1>3 DEF WritesReserved

(* The environment's ranges, the stack and the segments are apart.          *)
LEMMA EnvApart ==
  ASSUME program \in Programs
  PROVE  EnvironmentApart
<1> DEFINE env == PointerWrites \cup StringWrites
<1>1. ASSUME NEW w \in env
      PROVE  /\ w[1] \in Nat /\ w[2] \in Nat /\ EnvTable \in Nat /\ EnvTable <= w[1]
             /\ EnvTable = StackPage + UserPage /\ StackPage \in Nat /\ UserPage \in Nat
  BY EnvWrites, LoaderPlaces, ProgramType
<1> HIDE DEF env
<1>2. ASSUME NEW w \in env, NEW x \in env, w # x PROVE BytesOf(w) \cap BytesOf(x) = {}
  <2>1. w[1] + w[2] <= x[1] \/ x[1] + x[2] <= w[1]
    BY <1>2, EnvWritesApart DEF env
  <2>2. w[1] \in Nat /\ w[2] \in Nat /\ x[1] \in Nat /\ x[2] \in Nat
    BY <1>1
  <2> QED BY <2>1, <2>2, SMTT(30) DEF BytesOf
<1>3. ASSUME NEW w \in env, NEW a \in BytesOf(w) PROVE a \in Nat /\ EnvTable <= a
  BY <1>1, SMTT(30) DEF BytesOf
<1>4. ASSUME NEW w \in env PROVE BytesOf(w) \cap StackPage..(StackPage + UserPage - 1) = {}
  BY <1>1, <1>3, SMTT(30)
<1>5. ASSUME NEW w \in env, NEW i \in DOMAIN program.segments
      PROVE  BytesOf(w) \cap BytesOf(program.segments[i]) = {}
  <2>1. SUFFICES ASSUME NEW a \in BytesOf(w), a \in BytesOf(program.segments[i]) PROVE FALSE
    OBVIOUS
  <2>2. a \in Nat /\ a < EnvTable
    BY <2>1, SegmentInside
  <2> QED BY <1>1, <1>3, <2>2, SMTT(30)
<1> QED BY <1>2, <1>4, <1>5 DEF EnvironmentApart, env

(* Whatever the executable's segments and the environment's strings are,    *)
(* exec_user_elf_program writes only to memory it has reserved, and the     *)
(* environment it leaves shares no byte with the stack or the executable.   *)
THEOREM LoaderCorrect == LoaderSpec => []LoadedSound
<1>1. LoaderInit => program \in Programs
  BY DEF LoaderInit
<1>2. program \in Programs /\ [UNCHANGED program]_program => (program \in Programs)'
  OBVIOUS
<1>3. program \in Programs => LoadedSound
  BY WritesInside, EnvApart DEF LoadedSound
<1> QED BY <1>1, <1>2, <1>3, PTL DEF LoaderSpec

=============================================================================
