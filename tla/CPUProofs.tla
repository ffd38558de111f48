------------------------------ MODULE CPUProofs ------------------------------
(***************************************************************************)
(* Proofs about the CPUs: the page tables they are started with            *)
(* (BootPaging), for any layout of the kernel, the checkpoint they pass    *)
(* then (Checkpoint), and the locks they take in the kernel and the calls  *)
(* they make to each other (KernelLocks), for any number of CPUs.          *)
(***************************************************************************)
EXTENDS BootPaging, Checkpoint, KernelLocks, FiniteSetTheorems, WellFoundedInduction, TLAPS

\* The time the provers have for a step.
USE ZenonT(60)

-----------------------------------------------------------------------------

Less == {d \in Nat \X Nat : d[1] < d[2]}

(* Naturals do not descend for ever.                                        *)
LEMMA LessWellFounded == IsWellFoundedOn(Less, Nat)
<1>1. IsWellFoundedOn(OpToRel(<, Nat), Nat)
  BY ONLY NatLessThanWellFounded
<1>2. OpToRel(<, Nat) = Less
  BY ONLY ZenonT(60) DEF OpToRel, Less
<1> QED
  BY ONLY <1>1, <1>2

(* Hence a set of numbers that is not empty has a least member.             *)
LEMMA LeastNatural ==
  ASSUME NEW S \in SUBSET Nat, S # {}
  PROVE  \E n \in S : \A m \in S : n <= m
<1>1. PICK n \in S : \A m \in S : ~(<<m, n>> \in Less)
  BY LessWellFounded, WFMin
<1>2. ASSUME NEW m \in S PROVE n <= m
  <2>1. m \in Nat /\ n \in Nat
    OBVIOUS
  <2>2. m < n => <<m, n>> \in Less
    BY <2>1 DEF Less
  <2> QED BY <1>1, <2>1, <2>2, SMTT(30)
<1> QED BY <1>2

(* What \div and % compute.                                                 *)
LEMMA DivMod ==
  ASSUME NEW x \in Nat, NEW a \in Nat \ {0}
  PROVE  x % a \in 0..(a - 1) /\ x \div a \in Nat /\ x = a * (x \div a) + (x % a)
BY SMTT(30)

-----------------------------------------------------------------------------
(***************************************************************************)
(* BootPaging.  A page belongs to at most one region, so that the order in *)
(* which the loops map and mark the regions does not matter; an invariant  *)
(* of the loops says what the tables are after the first n of them.        *)
(***************************************************************************)

Map == create_vm_map
Has(i, v) == v \in PagesOf(Map[i])

(* The places of the map, in their order.                                   *)
LEMMA LayoutPlaces ==
  ASSUME layout \in Layouts
  PROVE  /\ {PtLength, PdLength, VirtBase, DevBase, DevEnd, ApEntry} \subseteq Nat \ {0}
         /\ {layout.low, layout.ro, layout.stack, layout.ro2, layout.rw, layout.ap} \subseteq Nat
         /\ {RoBase, StackBase, StackEnd, RwBase, VirtEnd, FreePhysBase} \subseteq Nat
         /\ RoBase = VirtBase + layout.low /\ StackBase = RoBase + layout.ro
         /\ StackEnd = StackBase + layout.stack /\ RwBase = StackEnd + layout.ro2
         /\ RwBase + layout.rw <= VirtEnd /\ VirtEnd = VirtBase + FreePhysBase
         /\ VirtEnd <= DevBase /\ DevBase <= DevEnd /\ FreePhysBase <= VirtBase
         /\ layout.low < PtLength /\ ApEntry + layout.ap <= FreePhysBase
<1>1. {PtLength, PdLength, VirtBase, DevBase, DevEnd, ApEntry} \subseteq Nat \ {0} /\ DevBase <= DevEnd
  BY BootPagingAssumption
<1>2. /\ layout \in [{"low", "ro", "stack", "ro2", "rw", "ap"} -> Nat]
      /\ layout.low < PtLength /\ ApEntry + layout.ap <= layout.low
      /\ ImageSize(layout) <= VirtBase /\ VirtBase + ImageSize(layout) <= DevBase
  BY BootPagingAssumption
<1>3. {layout.low, layout.ro, layout.stack, layout.ro2, layout.rw, layout.ap} \subseteq Nat
  BY <1>2
<1>4. PICK n \in Nat : n = layout.low + layout.ro + layout.stack + layout.ro2 + layout.rw
  BY <1>3, SMTT(30)
<1>5. ImageSize(layout) \in Nat /\ n <= ImageSize(layout)
  <2>1. PICK d \in Nat, m \in 0..(PtLength - 1) :
          d = (n + PtLength - 1) \div PtLength /\ n + (PtLength - 1) = PtLength * d + m
    <3>1. n + PtLength - 1 \in Nat
      BY <1>1, SMTT(30)
    <3>2. PICK x \in Nat : x = n + PtLength - 1
      BY <3>1
    <3>3. x % PtLength \in 0..(PtLength - 1) /\ x \div PtLength \in Nat /\ x = PtLength * (x \div PtLength) + (x % PtLength)
      BY <1>1, DivMod
    <3> QED BY <3>2, <3>3
  <2>2. ImageSize(layout) = d * PtLength
    BY <1>4, <2>1 DEF ImageSize, AlignUp
  <2>3. PICK e \in Nat : e = d * PtLength /\ e = PtLength * d
    BY <1>1, SMTT(30)
  <2> QED BY <1>1, <2>1, <2>2, <2>3, SMTT(30)
<1>6. PICK z \in Nat : z = ImageSize(layout) /\ n <= z
  BY <1>5
<1>7. VirtEnd = VirtBase + z /\ FreePhysBase = VirtEnd - VirtBase
  BY <1>6 DEF VirtEnd, FreePhysBase
<1>8. /\ RoBase = VirtBase + layout.low /\ StackBase = RoBase + layout.ro
      /\ StackEnd = StackBase + layout.stack /\ RwBase = StackEnd + layout.ro2
  BY DEF RoBase, StackBase, StackEnd, RwBase
<1>9. FreePhysBase = z /\ VirtEnd \in Nat
  BY <1>1, <1>7, SMTT(30)
<1>10. layout.low <= z /\ RoBase \in Nat /\ StackBase \in Nat /\ StackEnd \in Nat /\ RwBase \in Nat
       /\ RwBase + layout.rw <= VirtEnd
  BY <1>1, <1>3, <1>4, <1>6, <1>7, <1>8, SMTT(30)
<1>11. ApEntry + layout.ap <= FreePhysBase
  BY <1>1, <1>2, <1>3, <1>9, <1>10, SMTT(30)
<1> QED BY <1>1, <1>2, <1>3, <1>6, <1>7, <1>8, <1>9, <1>10, <1>11

(* The fields of the regions.                                               *)
LEMMA MapIs ==
  /\ Len(Map) = 9 /\ DOMAIN Map = 1..9
  /\ Map[1] = Region(VirtBase, 0, layout.low, {"static"}, {"rw"})
  /\ Map[2] = Region(RoBase, RoBase - VirtBase, layout.ro, {"static", "executable"}, {"global"})
  /\ Map[3] = Region(StackBase, StackBase - VirtBase, layout.stack, {"static", "executable"}, {"rw", "global"})
  /\ Map[4] = Region(StackEnd, StackEnd - VirtBase, layout.ro2, {"static", "executable"}, {"global"})
  /\ Map[5] = Region(RwBase, RwBase - VirtBase, layout.rw, {"static", "executable"}, {"rw", "global"})
  /\ Map[6] = Region(FreePhysBase, FreePhysBase, VirtBase - FreePhysBase, {"static"}, {"rw"})
  /\ Map[7] = Region(VirtEnd, 0, DevBase - VirtEnd, {}, {"rw", "global"})
  /\ Map[8] = Region(DevBase, DevBase, DevEnd - DevBase, {"static"}, {"rw", "global"})
  /\ Map[9] = Region(ApEntry, ApEntry, layout.ap, {"static"}, {"rw"})
BY SMTT(30) DEF Map, create_vm_map

(* Bases and sizes are numbers.                                             *)
LEMMA RegionType ==
  ASSUME layout \in Layouts, NEW i \in 1..9
  PROVE  Map[i].vbase \in Nat /\ Map[i].pbase \in Nat /\ Map[i].size \in Nat
<1> USE LayoutPlaces
<1>1. /\ RoBase - VirtBase \in Nat /\ StackBase - VirtBase \in Nat /\ StackEnd - VirtBase \in Nat
      /\ RwBase - VirtBase \in Nat /\ VirtBase - FreePhysBase \in Nat /\ DevBase - VirtEnd \in Nat
      /\ DevEnd - DevBase \in Nat
  BY SMTT(30)
<1>2. i = 1 \/ i = 2 \/ i = 3 \/ i = 4 \/ i = 5 \/ i = 6 \/ i = 7 \/ i = 8 \/ i = 9
  BY SMTT(30)
<1> QED BY <1>1, <1>2, MapIs, SMTT(30) DEF Region

LEMMA HasIs ==
  ASSUME layout \in Layouts, NEW i \in 1..9, NEW v
  PROVE  Has(i, v) <=> v \in Nat /\ Map[i].vbase <= v /\ v < Map[i].vbase + Map[i].size
<1>1. PICK a \in Nat, n \in Nat : a = Map[i].vbase /\ n = Map[i].size
  BY RegionType
<1>2. Has(i, v) <=> v \in a..(a + n - 1)
  BY <1>1 DEF Has, PagesOf
<1>3. v \in a..(a + n - 1) <=> v \in Nat /\ a <= v /\ v < a + n
  BY SMTT(30)
<1> QED BY <1>1, <1>2, <1>3

(* The one region a page can be in.                                         *)
Where(v) ==
  IF v < FreePhysBase THEN 9 ELSE IF v < VirtBase THEN 6 ELSE IF v < RoBase THEN 1
  ELSE IF v < StackBase THEN 2 ELSE IF v < StackEnd THEN 3 ELSE IF v < RwBase THEN 4
  ELSE IF v < VirtEnd THEN 5 ELSE IF v < DevBase THEN 7 ELSE 8

LEMMA OneRegion ==
  ASSUME layout \in Layouts, NEW i \in 1..9, NEW v, Has(i, v)
  PROVE  v \in Nat /\ v < DevEnd /\ i = Where(v) /\ (v >= VirtBase <=> i \notin {6, 9})
<1> USE LayoutPlaces
<1>1. v \in Nat /\ Map[i].vbase <= v /\ v < Map[i].vbase + Map[i].size
  BY HasIs
<1>2. i = 1 \/ i = 2 \/ i = 3 \/ i = 4 \/ i = 5 \/ i = 6 \/ i = 7 \/ i = 8 \/ i = 9
  BY SMTT(30)
<1>3. CASE i = 1
  <2>1. VirtBase <= v /\ v < VirtBase + layout.low
    BY <1>1, <1>3, MapIs, SMTT(30) DEF Region
  <2> QED BY <1>1, <1>3, <2>1, SMTT(30) DEF Where
<1>4. CASE i = 2
  <2>1. RoBase <= v /\ v < RoBase + layout.ro
    BY <1>1, <1>4, MapIs, SMTT(30) DEF Region
  <2> QED BY <1>1, <1>4, <2>1, SMTT(30) DEF Where
<1>5. CASE i = 3
  <2>1. StackBase <= v /\ v < StackBase + layout.stack
    BY <1>1, <1>5, MapIs, SMTT(30) DEF Region
  <2> QED BY <1>1, <1>5, <2>1, SMTT(30) DEF Where
<1>6. CASE i = 4
  <2>1. StackEnd <= v /\ v < StackEnd + layout.ro2
    BY <1>1, <1>6, MapIs, SMTT(30) DEF Region
  <2> QED BY <1>1, <1>6, <2>1, SMTT(30) DEF Where
<1>7. CASE i = 5
  <2>1. RwBase <= v /\ v < RwBase + layout.rw
    BY <1>1, <1>7, MapIs, SMTT(30) DEF Region
  <2> QED BY <1>1, <1>7, <2>1, SMTT(30) DEF Where
<1>8. CASE i = 6
  <2>1. FreePhysBase <= v /\ v < FreePhysBase + (VirtBase - FreePhysBase)
    BY <1>1, <1>8, MapIs, SMTT(30) DEF Region
  <2> QED BY <1>1, <1>8, <2>1, SMTT(30) DEF Where
<1>9. CASE i = 7
  <2>1. VirtEnd <= v /\ v < VirtEnd + (DevBase - VirtEnd)
    BY <1>1, <1>9, MapIs, SMTT(30) DEF Region
  <2> QED BY <1>1, <1>9, <2>1, SMTT(30) DEF Where
<1>10. CASE i = 8
  <2>1. DevBase <= v /\ v < DevBase + (DevEnd - DevBase)
    BY <1>1, <1>10, MapIs, SMTT(30) DEF Region
  <2> QED BY <1>1, <1>10, <2>1, SMTT(30) DEF Where
<1>11. CASE i = 9
  <2>1. ApEntry <= v /\ v < ApEntry + layout.ap
    BY <1>1, <1>11, MapIs, SMTT(30) DEF Region
  <2> QED BY <1>1, <1>11, <2>1, SMTT(30) DEF Where
<1> QED BY <1>2, <1>3, <1>4, <1>5, <1>6, <1>7, <1>8, <1>9, <1>10, <1>11

(* get_region_v finds it, and get_region_p one the physical page is in.     *)
LEMMA RegionV ==
  ASSUME layout \in Layouts, NEW v \in Nat
  PROVE  /\ \A i \in 1..9 : Has(i, v) => get_region_v(v) = i
         /\ get_region_v(v) # 0 => get_region_v(v) \in 1..9 /\ Has(get_region_v(v), v)
<1> DEFINE at == {i \in 1..9 : Has(i, v)}
<1>1. get_region_v(v) = FirstOf(at)
  <2>1. {i \in DOMAIN create_vm_map : LET r == create_vm_map[i] IN r.vbase <= v /\ v < r.vbase + r.size} = at
    BY HasIs, MapIs DEF Map
  <2> QED BY <2>1 DEF get_region_v
<1>2. ASSUME NEW i \in 1..9, Has(i, v) PROVE FirstOf(at) = i
  <2>1. at = {i}
    BY <1>2, OneRegion
  <2>2. i <= i
    BY SMTT(30)
  <2>3. (CHOOSE j \in at : \A k \in at : j <= k) \in at
    <3>1. \E j \in at : \A k \in at : j <= k
      BY <2>1, <2>2
    <3> HIDE DEF at
    <3> QED BY <3>1
  <2> QED BY <2>1, <2>3 DEF FirstOf
<1>3. ASSUME FirstOf(at) # 0 PROVE \E i \in 1..9 : Has(i, v)
  BY <1>3 DEF FirstOf
<1> QED BY <1>1, <1>2, <1>3

LEMMA RegionP ==
  ASSUME layout \in Layouts, NEW p \in Nat, get_region_p(p) # 0
  PROVE  /\ get_region_p(p) \in 1..9 /\ Map[get_region_p(p)].pbase <= p
         /\ p < Map[get_region_p(p)].pbase + Map[get_region_p(p)].size
<1> DEFINE at == {i \in 1..9 : Map[i].pbase <= p /\ p < Map[i].pbase + Map[i].size}
<1>1. get_region_p(p) = FirstOf(at)
  BY MapIs DEF get_region_p, Map
<1>2. at # {}
  BY <1>1 DEF FirstOf
<1>3. PICK i \in at : \A j \in at : i <= j
  <2>1. at \in SUBSET Nat
    BY SMTT(30)
  <2> HIDE DEF at
  <2> QED BY <1>2, <2>1, LeastNatural
<1>4. FirstOf(at) \in at
  <2> HIDE DEF at
  <2>1. FirstOf(at) = CHOOSE a \in at : \A b \in at : a <= b
    BY <1>2 DEF FirstOf
  <2> QED BY <1>3, <2>1
<1> QED BY <1>1, <1>4

(* The entries of a table, and what an entry of the directory may hold.     *)
EntryOf(i, v) == [p |-> Map[i].pbase + (v - Map[i].vbase), flags |-> Map[i].pflags \cup {"present"}]
Touches(j, i) == \E v \in PagesOf(Map[j]) : Pdi(v) = i
Allowed(i) == {"present"} \cup UNION {Map[j].pflags : j \in {k \in 1..9 : Touches(k, i)}}
Flags == {"present", "rw", "global"}
TablesType(t) ==
  /\ t.pd \in [0..(PdLength - 1) -> [p : Nat, flags : SUBSET Flags]]
  /\ t = [pd |-> t.pd, pt |-> t.pt]
DirectorySound(t) ==
  /\ TablesType(t)
  /\ \A i \in 0..(PdLength - 2) : t.pd[i].p \in {0, TableOf(i)} /\ t.pd[i].flags \subseteq Allowed(i)

LEMMA FlagsType ==
  ASSUME NEW i \in 1..9
  PROVE  Map[i].pflags \in SUBSET Flags
<1>1. i = 1 \/ i = 2 \/ i = 3 \/ i = 4 \/ i = 5 \/ i = 6 \/ i = 7 \/ i = 8 \/ i = 9
  BY SMTT(30)
<1>2. Map[i].pflags \in {{"rw"}, {"global"}, {"rw", "global"}}
  BY <1>1, MapIs, SMTT(30) DEF Region
<1> QED BY <1>2 DEF Flags

LEMMA Linked ==
  ASSUME NEW entry \in [p : Nat, flags : SUBSET Flags], NEW i \in Nat, NEW flags \in SUBSET Flags
  PROVE  /\ LinkTable(entry, i, flags) \in [p : Nat, flags : SUBSET Flags]
         /\ LinkTable(entry, i, flags).p = IF entry.p = 0 THEN TableOf(i) ELSE entry.p
         /\ LinkTable(entry, i, flags).flags \subseteq entry.flags \cup flags \cup {"present"}
<1>1. TableOf(i) \in Nat
  BY SMTT(30) DEF TableOf
<1> DEFINE linked == IF entry.p = 0 THEN [p |-> TableOf(i), flags |-> flags \cup {"present"}] ELSE entry
           e == [linked EXCEPT !.flags = @ \cup (flags \cap {"rw"})]
<1>2. LinkTable(entry, i, flags) = e
  BY DEF LinkTable
<1>3. /\ linked \in [p : Nat, flags : SUBSET Flags] /\ linked.p = IF entry.p = 0 THEN TableOf(i) ELSE entry.p
      /\ linked.flags \subseteq entry.flags \cup flags \cup {"present"}
  <2>1. CASE entry.p = 0
    <3>1. linked = [p |-> TableOf(i), flags |-> flags \cup {"present"}]
      BY <2>1
    <3>2. flags \cup {"present"} \in SUBSET Flags
      BY DEF Flags
    <3> HIDE DEF linked
    <3> QED BY <1>1, <2>1, <3>1, <3>2
  <2>2. CASE entry.p # 0
    BY <2>2
  <2> QED BY <2>1, <2>2
<1> HIDE DEF linked
<1>4. e.p = linked.p /\ e.flags = linked.flags \cup (flags \cap {"rw"}) /\ e \in [p : Nat, flags : SUBSET Flags]
  BY <1>3
<1> QED BY <1>2, <1>3, <1>4

(* map_region_object: the entries of the region's pages, nothing else.      *)
LEMMA MapStep ==
  ASSUME layout \in Layouts, NEW t, DirectorySound(t), NEW j \in 1..9
  PROVE  /\ DirectorySound(map_region_object(t, Map[j]))
         /\ \A v \in Virtual : map_region_object(t, Map[j]).pt[v] = IF Has(j, v) THEN EntryOf(j, v) ELSE t.pt[v]
<1> DEFINE u == map_region_object(t, Map[j])
           Dir == 0..(PdLength - 1)
           PdEntry == [p : Nat, flags : SUBSET Flags]
<1>1. t.pd \in [Dir -> PdEntry]
  BY DEF DirectorySound, TablesType
<1>2. u.pd = [i \in Dir |-> IF Touches(j, i) THEN LinkTable(t.pd[i], i, Map[j].pflags) ELSE t.pd[i]]
  BY <1>1 DEF map_region_object, Touches
<1>3. u.pt = [v \in Virtual |-> IF Has(j, v) THEN EntryOf(j, v) ELSE t.pt[v]]
  BY DEF map_region_object, Has, EntryOf
<1>4. u = [pd |-> u.pd, pt |-> u.pt]
  BY DEF map_region_object
<1> HIDE DEF u
<1>5. ASSUME NEW i \in Dir
      PROVE  /\ LinkTable(t.pd[i], i, Map[j].pflags) \in PdEntry
             /\ LinkTable(t.pd[i], i, Map[j].pflags).p = IF t.pd[i].p = 0 THEN TableOf(i) ELSE t.pd[i].p
             /\ LinkTable(t.pd[i], i, Map[j].pflags).flags \subseteq t.pd[i].flags \cup Map[j].pflags \cup {"present"}
  <2>1. t.pd[i] \in PdEntry
    BY <1>1
  <2>2. i \in Nat
    BY BootPagingAssumption, SMTT(30)
  <2> QED BY <2>1, <2>2, FlagsType, Linked
<1>6. TablesType(u)
  <2>1. u.pd \in [Dir -> PdEntry]
    BY <1>1, <1>2, <1>5
  <2> QED BY <1>4, <2>1 DEF TablesType
<1>7. ASSUME NEW i \in 0..(PdLength - 2) PROVE u.pd[i].p \in {0, TableOf(i)} /\ u.pd[i].flags \subseteq Allowed(i)
  <2>1. i \in Dir
    BY BootPagingAssumption, SMTT(30)
  <2>2. t.pd[i].p \in {0, TableOf(i)} /\ t.pd[i].flags \subseteq Allowed(i)
    BY DEF DirectorySound
  <2>3. CASE Touches(j, i)
    <3>1. u.pd[i] = LinkTable(t.pd[i], i, Map[j].pflags)
      BY <1>2, <2>1, <2>3
    <3>2. Map[j].pflags \cup {"present"} \subseteq Allowed(i)
      BY <2>3 DEF Allowed
    <3> QED BY <1>5, <2>1, <2>2, <3>1, <3>2
  <2>4. CASE ~Touches(j, i)
    BY <1>2, <2>1, <2>2, <2>4
  <2> QED BY <2>3, <2>4
<1> QED BY <1>3, <1>6, <1>7 DEF u, DirectorySound

(* The loops, one region at a time.                                         *)
LEMMA MapLoop ==
  ASSUME NEW tables, NEW flags
  PROVE  \E f : /\ f[0] = tables /\ MapAll(tables, flags) = f[9]
               /\ \A n \in 0..8 : f[n + 1] = IF Map[n + 1].flags = flags THEN map_region_object(f[n], Map[n + 1]) ELSE f[n]
<1> DEFINE N == Len(create_vm_map)
           Step(w, k) == IF k = 0 THEN tables ELSE IF create_vm_map[k].flags = flags THEN map_region_object(w[k - 1], create_vm_map[k]) ELSE w[k - 1]
           Runs(n, g) == g = [k \in 0..n |-> Step(g, k)]
<1>1. N = 9
  BY MapIs DEF Map
<1>2. \E g : Runs(0, g)
  <2>1. Runs(0, [k \in 0..0 |-> tables])
    BY SMTT(30)
  <2> QED BY <2>1
<1>3. ASSUME NEW n \in 0..8, NEW g, Runs(n, g) PROVE \E h : Runs(n + 1, h)
  <2> DEFINE h == [k \in 0..(n + 1) |-> IF k = n + 1 THEN Step(g, k) ELSE g[k]]
  <2>1. ASSUME NEW k \in 0..(n + 1) PROVE h[k] = Step(g, k)
    <3>1. k # n + 1 => k \in 0..n
      BY SMTT(30)
    <3> HIDE DEF Step
    <3> QED BY <1>3, <3>1
  <2>2. ASSUME NEW k \in 0..(n + 1) PROVE Step(h, k) = Step(g, k)
    <3>1. k # 0 => k - 1 \in 0..(n + 1) /\ k - 1 # n + 1
      BY SMTT(30)
    <3>2. k # 0 => h[k - 1] = g[k - 1]
      BY <3>1
    <3> HIDE DEF h
    <3> QED BY <3>2
  <2>3. h = [k \in 0..(n + 1) |-> h[k]]
    OBVIOUS
  <2> HIDE DEF h, Step
  <2>4. Runs(n + 1, h)
    BY <2>1, <2>2, <2>3
  <2> QED BY <2>4
<1>4. \E g : Runs(9, g)
  <2> DEFINE Some(n) == \E g : Runs(n, g)
  <2>1. Some(0) /\ \A n \in 0..8 : Some(n) => Some(n + 1)
    <3> HIDE DEF Runs
    <3> QED BY <1>2, <1>3
  <2> HIDE DEF Some
  <2>2. Some(9)
    BY <2>1, SMTT(30)
  <2> QED BY <2>2 DEF Some
<1> DEFINE f == CHOOSE g : g = [k \in 0..N |-> Step(g, k)]
<1>5. MapAll(tables, flags) = f[N]
  BY DEF MapAll
<1>6. f = [k \in 0..9 |-> Step(f, k)]
  <2> HIDE DEF N, Step
  <2>1. \E g : g = [k \in 0..N |-> Step(g, k)]
    BY <1>1, <1>4
  <2>2. f = [k \in 0..N |-> Step(f, k)]
    BY <2>1
  <2> QED BY <1>1, <2>2
<1> HIDE DEF f
<1>7. f[0] = tables
  <2>1. f[0] = Step(f, 0)
    <3> HIDE DEF Step
    <3>1. 0 \in 0..9
      BY SMTT(30)
    <3> QED BY <1>6, <3>1
  <2> QED BY <2>1
<1>8. ASSUME NEW n \in 0..8 PROVE f[n + 1] = IF Map[n + 1].flags = flags THEN map_region_object(f[n], Map[n + 1]) ELSE f[n]
  <2>1. n + 1 \in 0..9 /\ n + 1 # 0 /\ (n + 1) - 1 = n
    BY SMTT(30)
  <2>2. f[n + 1] = Step(f, n + 1)
    <3> HIDE DEF Step
    <3> QED BY <1>6, <2>1
  <2>3. Step(f, n + 1) = IF Map[n + 1].flags = flags THEN map_region_object(f[(n + 1) - 1], Map[n + 1]) ELSE f[(n + 1) - 1]
    BY <2>1 DEF Map
  <2> QED BY <2>1, <2>2, <2>3
<1> QED BY <1>1, <1>5, <1>7, <1>8

(* The loop that marks the entries of the directory.                        *)
LEMMA MarkLoop ==
  ASSUME NEW tables
  PROVE  \E f : /\ f[0] = tables /\ MarkAll(tables) = f[9]
               /\ \A n \in 0..8 : f[n + 1] = mark_region_object(f[n], Map[n + 1])
<1> DEFINE N == Len(create_vm_map)
           Step(w, k) == IF k = 0 THEN tables ELSE mark_region_object(w[k - 1], create_vm_map[k])
           Runs(n, g) == g = [k \in 0..n |-> Step(g, k)]
<1>1. N = 9
  BY MapIs DEF Map
<1>2. \E g : Runs(0, g)
  <2>1. Runs(0, [k \in 0..0 |-> tables])
    BY SMTT(30)
  <2> QED BY <2>1
<1>3. ASSUME NEW n \in 0..8, NEW g, Runs(n, g) PROVE \E h : Runs(n + 1, h)
  <2> DEFINE h == [k \in 0..(n + 1) |-> IF k = n + 1 THEN Step(g, k) ELSE g[k]]
  <2>1. ASSUME NEW k \in 0..(n + 1) PROVE h[k] = Step(g, k)
    <3>1. k # n + 1 => k \in 0..n
      BY SMTT(30)
    <3> HIDE DEF Step
    <3> QED BY <1>3, <3>1
  <2>2. ASSUME NEW k \in 0..(n + 1) PROVE Step(h, k) = Step(g, k)
    <3>1. k # 0 => k - 1 \in 0..(n + 1) /\ k - 1 # n + 1
      BY SMTT(30)
    <3>2. k # 0 => h[k - 1] = g[k - 1]
      BY <3>1
    <3> HIDE DEF h
    <3> QED BY <3>2
  <2>3. h = [k \in 0..(n + 1) |-> h[k]]
    OBVIOUS
  <2> HIDE DEF h, Step
  <2>4. Runs(n + 1, h)
    BY <2>1, <2>2, <2>3
  <2> QED BY <2>4
<1>4. \E g : Runs(9, g)
  <2> DEFINE Some(n) == \E g : Runs(n, g)
  <2>1. Some(0) /\ \A n \in 0..8 : Some(n) => Some(n + 1)
    <3> HIDE DEF Runs
    <3> QED BY <1>2, <1>3
  <2> HIDE DEF Some
  <2>2. Some(9)
    BY <2>1, SMTT(30)
  <2> QED BY <2>2 DEF Some
<1> DEFINE f == CHOOSE g : g = [k \in 0..N |-> Step(g, k)]
<1>5. MarkAll(tables) = f[N]
  BY DEF MarkAll
<1>6. f = [k \in 0..9 |-> Step(f, k)]
  <2> HIDE DEF N, Step
  <2>1. \E g : g = [k \in 0..N |-> Step(g, k)]
    BY <1>1, <1>4
  <2>2. f = [k \in 0..N |-> Step(f, k)]
    BY <2>1
  <2> QED BY <1>1, <2>2
<1> HIDE DEF f
<1>7. f[0] = tables
  <2>1. f[0] = Step(f, 0)
    <3> HIDE DEF Step
    <3>1. 0 \in 0..9
      BY SMTT(30)
    <3> QED BY <1>6, <3>1
  <2> QED BY <2>1
<1>8. ASSUME NEW n \in 0..8 PROVE f[n + 1] = mark_region_object(f[n], Map[n + 1])
  <2>1. n + 1 \in 0..9 /\ n + 1 # 0 /\ (n + 1) - 1 = n
    BY SMTT(30)
  <2>2. f[n + 1] = Step(f, n + 1)
    <3> HIDE DEF Step
    <3> QED BY <1>6, <2>1
  <2>3. Step(f, n + 1) = mark_region_object(f[(n + 1) - 1], Map[n + 1])
    BY <2>1 DEF Map
  <2> QED BY <2>1, <2>2, <2>3
<1> QED BY <1>1, <1>5, <1>7, <1>8

(* What the loops that map leave: the static entries, one region per page.  *)
LEMMA MapAllIs ==
  ASSUME layout \in Layouts, NEW t, DirectorySound(t), NEW flags
  PROVE  /\ DirectorySound(MapAll(t, flags))
         /\ \A v \in Virtual : MapAll(t, flags).pt[v] =
              IF \E i \in 1..9 : Map[i].flags = flags /\ Has(i, v) THEN EntryOf(Where(v), v) ELSE t.pt[v]
<1> DEFINE Mapped(n, v) == \E i \in 1..n : Map[i].flags = flags /\ Has(i, v)
<1>1. PICK f : /\ f[0] = t /\ MapAll(t, flags) = f[9]
               /\ \A n \in 0..8 : f[n + 1] = IF Map[n + 1].flags = flags THEN map_region_object(f[n], Map[n + 1]) ELSE f[n]
  BY MapLoop, SMTT(30)
<1> DEFINE Good(n) ==
      /\ DirectorySound(f[n])
      /\ \A v \in Virtual : f[n].pt[v] = IF Mapped(n, v) THEN EntryOf(Where(v), v) ELSE t.pt[v]
<1>2. Good(0)
  <2>1. \A v : ~Mapped(0, v)
    BY SMTT(30)
  <2> HIDE DEF Mapped
  <2> QED BY <1>1, <2>1
<1>3. ASSUME NEW n \in 0..8, Good(n) PROVE Good(n + 1)
  <2>1. n + 1 \in 1..9
    BY SMTT(30)
  <2>2. \A v : Mapped(n + 1, v) <=> Mapped(n, v) \/ (Map[n + 1].flags = flags /\ Has(n + 1, v))
    <3>1. 1..(n + 1) = (1..n) \cup {n + 1}
      BY SMTT(30)
    <3> QED BY <3>1
  <2> HIDE DEF Mapped
  <2>3. CASE Map[n + 1].flags = flags
    <3>1. f[n + 1] = map_region_object(f[n], Map[n + 1])
      BY <1>1, <2>3
    <3>2. /\ DirectorySound(f[n + 1])
          /\ \A v \in Virtual : f[n + 1].pt[v] = IF Has(n + 1, v) THEN EntryOf(n + 1, v) ELSE f[n].pt[v]
      BY <1>3, <2>1, <3>1, MapStep
    <3>3. \A v \in Virtual : Has(n + 1, v) => n + 1 = Where(v)
      BY <2>1, OneRegion
    <3> QED BY <1>3, <2>2, <2>3, <3>2, <3>3
  <2>4. CASE Map[n + 1].flags # flags
    <3>1. f[n + 1] = f[n]
      BY <1>1, <2>4
    <3> QED BY <1>3, <2>2, <2>4, <3>1
  <2> QED BY <2>3, <2>4
<1>4. Good(9)
  <2> HIDE DEF Good
  <2>1. \A n \in 0..8 : Good(n) => Good(n + 1)
    BY <1>3
  <2> QED BY <1>2, <2>1, SMTT(30)
<1> QED BY <1>1, <1>4

(* The marks, after the first n regions.                                    *)
Marked(t, n) ==
  /\ TablesType(t)
  /\ \A i \in 0..(PdLength - 2) :
       /\ t.pd[i].p = TableOf(i) /\ t.pd[i].flags \subseteq Allowed(i)
       /\ \A j \in 1..n : Touches(j, i) => Map[j].pflags \cup {"present"} \subseteq t.pd[i].flags

LEMMA MarkStep ==
  ASSUME NEW t, NEW n \in 0..8, Marked(t, n)
  PROVE  /\ Marked(mark_region_object(t, Map[n + 1]), n + 1)
         /\ mark_region_object(t, Map[n + 1]).pt = t.pt
<1> DEFINE u == mark_region_object(t, Map[n + 1])
           Dir == 0..(PdLength - 1)
           PdEntry == [p : Nat, flags : SUBSET Flags]
           more == Map[n + 1].pflags \cup {"present"}
           marks(i) == [t.pd[i] EXCEPT !.flags = @ \cup Map[n + 1].pflags \cup {"present"}]
           upd == [i \in Dir |-> IF Touches(n + 1, i) THEN marks(i) ELSE t.pd[i]]
<1>1. t.pd \in [Dir -> PdEntry] /\ t = [pd |-> t.pd, pt |-> t.pt]
  BY DEF Marked, TablesType
<1>2. u = [t EXCEPT !.pd = upd]
  BY <1>1 DEF mark_region_object, Touches
<1>3. u.pd = upd /\ u.pt = t.pt /\ u = [pd |-> u.pd, pt |-> u.pt]
  <2> HIDE DEF upd, u
  <2> QED BY <1>1, <1>2, SMTT(30)
<1> HIDE DEF u
<1>4. n + 1 \in 1..9 /\ 1..(n + 1) = (1..n) \cup {n + 1}
  BY SMTT(30)
<1>5. more \in SUBSET Flags
  BY <1>4, FlagsType DEF Flags
<1>6. ASSUME NEW i \in Dir
      PROVE  marks(i) \in PdEntry /\ marks(i).p = t.pd[i].p /\ marks(i).flags = t.pd[i].flags \cup more
  <2>1. t.pd[i] \in PdEntry
    BY <1>1
  <2> QED BY <1>5, <2>1
<1>7. TablesType(u)
  <2>1. u.pd \in [Dir -> PdEntry]
    <3> HIDE DEF marks
    <3>1. ASSUME NEW i \in Dir PROVE upd[i] \in PdEntry
      BY <1>1, <1>6
    <3> QED BY <1>3, <3>1
  <2> QED BY <1>3, <2>1 DEF TablesType
<1>8. ASSUME NEW i \in 0..(PdLength - 2)
      PROVE  /\ u.pd[i].p = TableOf(i) /\ u.pd[i].flags \subseteq Allowed(i)
             /\ \A j \in 1..(n + 1) : Touches(j, i) => Map[j].pflags \cup {"present"} \subseteq u.pd[i].flags
  <2>1. i \in Dir
    BY BootPagingAssumption, SMTT(30)
  <2>2. /\ t.pd[i].p = TableOf(i) /\ t.pd[i].flags \subseteq Allowed(i)
        /\ \A j \in 1..n : Touches(j, i) => Map[j].pflags \cup {"present"} \subseteq t.pd[i].flags
    BY DEF Marked
  <2>3. CASE Touches(n + 1, i)
    <3>1. u.pd[i] = marks(i)
      BY <1>3, <2>1, <2>3
    <3>2. more \subseteq Allowed(i)
      BY <1>4, <2>3 DEF Allowed
    <3> HIDE DEF marks
    <3> QED BY <1>4, <1>6, <2>1, <2>2, <3>1, <3>2
  <2>4. CASE ~Touches(n + 1, i)
    BY <1>3, <1>4, <2>1, <2>2, <2>4
  <2> QED BY <2>3, <2>4
<1> QED BY <1>3, <1>7, <1>8 DEF u, Marked

(* The last entry refers to the directory; no region reaches it.            *)
LEMMA SelfReference ==
  ASSUME NEW t, DirectorySound(t)
  PROVE  DirectorySound(add_self_ref(t, PdLength - 1)) /\ add_self_ref(t, PdLength - 1).pt = t.pt
<1> DEFINE u == add_self_ref(t, PdLength - 1)
           Dir == 0..(PdLength - 1)
           PdEntry == [p : Nat, flags : SUBSET Flags]
           own == [p |-> Directory, flags |-> {"rw", "present"}]
<1>1. t.pd \in [Dir -> PdEntry] /\ t = [pd |-> t.pd, pt |-> t.pt]
  BY DEF DirectorySound, TablesType
<1>2. own \in PdEntry
  <2>1. Directory \in Nat
    BY SMTT(30) DEF Directory
  <2> QED BY <2>1 DEF Flags
<1>3. PdLength \in Nat \ {0} /\ PdLength - 1 \in Dir /\ \A i \in 0..(PdLength - 2) : i \in Dir /\ i # PdLength - 1
  BY BootPagingAssumption, SMTT(30)
<1> HIDE DEF own
<1>4. u.pd = [t.pd EXCEPT ![PdLength - 1] = own] /\ u.pt = t.pt /\ u = [pd |-> u.pd, pt |-> u.pt]
  <2>1. u = [t EXCEPT !.pd = [t.pd EXCEPT ![PdLength - 1] = own]]
    BY DEF add_self_ref, own
  <2>2. PICK d : d = [t.pd EXCEPT ![PdLength - 1] = own]
    OBVIOUS
  <2>3. u = [t EXCEPT !.pd = d]
    BY <2>1, <2>2
  <2> HIDE DEF u
  <2>4. u.pd = d /\ u.pt = t.pt /\ u = [pd |-> u.pd, pt |-> u.pt]
    BY <1>1, <2>3, SMTT(30)
  <2> QED BY <2>2, <2>4
<1> HIDE DEF u
<1>5. u.pd \in [Dir -> PdEntry] /\ \A i \in 0..(PdLength - 2) : u.pd[i] = t.pd[i]
  BY <1>1, <1>2, <1>3, <1>4
<1>6. DirectorySound(u)
  BY <1>4, <1>5 DEF DirectorySound, TablesType
<1> QED BY <1>4, <1>6 DEF u

(* Then every entry has the address of its table.                           *)
LEMMA Filled ==
  ASSUME NEW t, DirectorySound(t)
  PROVE  Marked(FillDirectory(t), 0) /\ FillDirectory(t).pt = t.pt
<1> DEFINE u == FillDirectory(t)
           Dir == 0..(PdLength - 1)
           PdEntry == [p : Nat, flags : SUBSET Flags]
           full(i) == [t.pd[i] EXCEPT !.p = TableOf(i)]
           upd == [i \in Dir |-> IF t.pd[i].p = 0 THEN full(i) ELSE t.pd[i]]
<1>1. t.pd \in [Dir -> PdEntry] /\ t = [pd |-> t.pd, pt |-> t.pt]
  BY DEF DirectorySound, TablesType
<1>2. u = [t EXCEPT !.pd = upd]
  BY <1>1 DEF FillDirectory
<1>3. u.pd = upd /\ u.pt = t.pt /\ u = [pd |-> u.pd, pt |-> u.pt]
  <2> HIDE DEF upd, u
  <2> QED BY <1>1, <1>2, SMTT(30)
<1> HIDE DEF u
<1>4. ASSUME NEW i \in Dir
      PROVE  full(i) \in PdEntry /\ full(i).p = TableOf(i) /\ full(i).flags = t.pd[i].flags
  <2>1. t.pd[i] \in PdEntry
    BY <1>1
  <2>2. TableOf(i) \in Nat
    BY BootPagingAssumption, SMTT(30) DEF TableOf
  <2> QED BY <2>1, <2>2
<1> HIDE DEF full
<1>5. TablesType(u)
  <2>1. ASSUME NEW i \in Dir PROVE upd[i] \in PdEntry
    BY <1>1, <1>4
  <2>2. u.pd \in [Dir -> PdEntry]
    BY <1>3, <2>1
  <2> QED BY <1>3, <2>2 DEF TablesType
<1>6. ASSUME NEW i \in 0..(PdLength - 2)
      PROVE  /\ u.pd[i].p = TableOf(i) /\ u.pd[i].flags \subseteq Allowed(i)
             /\ \A j \in 1..0 : Touches(j, i) => Map[j].pflags \cup {"present"} \subseteq u.pd[i].flags
  <2>1. i \in Dir
    BY BootPagingAssumption, SMTT(30)
  <2>2. t.pd[i].p \in {0, TableOf(i)} /\ t.pd[i].flags \subseteq Allowed(i)
    BY DEF DirectorySound
  <2>3. 1..0 = {}
    BY SMTT(30)
  <2>4. u.pd[i].p = TableOf(i) /\ u.pd[i].flags = t.pd[i].flags
    BY <1>3, <1>4, <2>1, <2>2
  <2> QED BY <2>2, <2>3, <2>4
<1> QED BY <1>3, <1>5, <1>6 DEF u, Marked

(* The regions that are mapped are the static ones.                         *)
LEMMA StaticFlags ==
  ASSUME NEW i \in 1..9
  PROVE  "static" \in Map[i].flags <=> Map[i].flags = {"static", "executable"} \/ Map[i].flags = {"static"}
<1>1. i = 1 \/ i = 2 \/ i = 3 \/ i = 4 \/ i = 5 \/ i = 6 \/ i = 7 \/ i = 8 \/ i = 9
  BY SMTT(30)
<1>2. Map[i].flags \in {{"static"}, {"static", "executable"}, {}}
  BY <1>1, MapIs, SMTT(30) DEF Region
<1> QED BY <1>2

(* What early_init_kernel_paging leaves.                                    *)
LEMMA BootTables ==
  ASSUME layout \in Layouts
  PROVE  /\ Marked(early_init_kernel_paging, 9)
         /\ \A v \in Virtual : early_init_kernel_paging.pt[v] =
              IF \E i \in 1..9 : "static" \in Map[i].flags /\ Has(i, v) THEN EntryOf(Where(v), v)
              ELSE [p |-> 0, flags |-> {}]
<1> DEFINE exec == {"static", "executable"}
           a == MapAll(NoTables, exec)
           b == add_self_ref(a, PdLength - 1)
           c == MapAll(b, {"static"})
           d == FillDirectory(c)
           In(flags, v) == \E i \in 1..9 : Map[i].flags = flags /\ Has(i, v)
<1>1. DirectorySound(NoTables)
  <2>1. 0 \in Nat
    BY SMTT(30)
  <2>2. \A i \in 0..(PdLength - 2) : i \in 0..(PdLength - 1)
    BY BootPagingAssumption, SMTT(30)
  <2> QED BY <2>1, <2>2 DEF DirectorySound, TablesType, NoTables
<1>2. DirectorySound(a) /\ \A v \in Virtual : a.pt[v] = IF In(exec, v) THEN EntryOf(Where(v), v) ELSE NoTables.pt[v]
  BY <1>1, MapAllIs
<1> HIDE DEF a
<1>3. DirectorySound(b) /\ b.pt = a.pt
  BY <1>2, SelfReference
<1> HIDE DEF b
<1>4. DirectorySound(c) /\ \A v \in Virtual : c.pt[v] = IF In({"static"}, v) THEN EntryOf(Where(v), v) ELSE b.pt[v]
  BY <1>3, MapAllIs
<1> HIDE DEF c
<1>5. Marked(d, 0) /\ d.pt = c.pt
  BY <1>4, Filled
<1> HIDE DEF d
<1>6. PICK f : /\ f[0] = d /\ MarkAll(d) = f[9]
               /\ \A n \in 0..8 : f[n + 1] = mark_region_object(f[n], Map[n + 1])
  BY MarkLoop
<1> DEFINE Good(n) == Marked(f[n], n) /\ f[n].pt = d.pt
<1>7. Good(9)
  <2>1. Good(0)
    BY <1>5, <1>6
  <2>2. ASSUME NEW n \in 0..8, Good(n) PROVE Good(n + 1)
    BY <1>6, <2>2, MarkStep
  <2> HIDE DEF Good
  <2>3. \A n \in 0..8 : Good(n) => Good(n + 1)
    BY <2>2
  <2> QED BY <2>1, <2>3, SMTT(30)
<1>8. early_init_kernel_paging = f[9]
  BY <1>6 DEF early_init_kernel_paging, a, b, c, d
<1>9. ASSUME NEW v \in Virtual
      PROVE  d.pt[v] = IF \E i \in 1..9 : "static" \in Map[i].flags /\ Has(i, v) THEN EntryOf(Where(v), v)
                       ELSE [p |-> 0, flags |-> {}]
  <2>1. NoTables.pt[v] = [p |-> 0, flags |-> {}]
    BY DEF NoTables
  <2>2. (\E i \in 1..9 : "static" \in Map[i].flags /\ Has(i, v)) <=> In(exec, v) \/ In({"static"}, v)
    BY StaticFlags
  <2> HIDE DEF In
  <2> QED BY <1>2, <1>3, <1>4, <1>5, <2>1, <2>2
<1> QED BY <1>7, <1>8, <1>9

(* Which table an address is in.                                            *)
LEMMA PdiIs ==
  ASSUME PtLength \in Nat \ {0}, NEW v \in Nat, NEW k \in Nat
  PROVE  Pdi(v) \in Nat /\ (v < PtLength * k <=> Pdi(v) < k)
<1>1. PICK d \in Nat, m \in 0..(PtLength - 1) : d = Pdi(v) /\ v = PtLength * d + m
  BY DivMod DEF Pdi
<1>2. ASSUME d < k PROVE v < PtLength * k
  <2>1. PtLength * (d + 1) <= PtLength * k
    BY <1>2, SMTT(30)
  <2>2. PtLength * (d + 1) = PtLength * d + PtLength
    BY SMTT(30)
  <2> QED BY <1>1, <2>1, <2>2, SMTT(30)
<1>3. ASSUME ~(d < k) PROVE ~(v < PtLength * k)
  <2>1. PtLength * k <= PtLength * d
    BY <1>3, SMTT(30)
  <2> QED BY <1>1, <2>1, SMTT(30)
<1> QED BY <1>1, <1>2, <1>3

LEMMA PdiInside ==
  ASSUME layout \in Layouts, NEW v \in Nat, v < DevEnd
  PROVE  Pdi(v) \in 0..(PdLength - 2)
<1>1. PtLength \in Nat \ {0} /\ PdLength \in Nat \ {0} /\ DevEnd = (PdLength - 1) * PtLength
  BY BootPagingAssumption
<1>2. PICK k \in Nat : k = PdLength - 1
  BY <1>1, SMTT(30)
<1>3. DevEnd = PtLength * k
  BY <1>1, <1>2, SMTT(30)
<1>4. Pdi(v) \in Nat /\ Pdi(v) < k
  BY <1>1, <1>3, PdiIs
<1> QED BY <1>1, <1>2, <1>4, SMTT(30)

LEMMA StaticIs ==
  ASSUME layout \in Layouts, Loaded
  PROVE  StaticMapped
<1> DEFINE tables == early_init_kernel_paging
<1>1. PtLength \in Nat \ {0} /\ PdLength \in Nat \ {0} /\ DevEnd = (PdLength - 1) * PtLength /\ DevEnd \in Nat
  BY BootPagingAssumption
<1>2. ASSUME NEW v \in Virtual, v \notin DevEnd..(DevEnd + PtLength - 1) PROVE v \in Nat /\ v < DevEnd
  <2>1. v \in Nat /\ v <= PdLength * PtLength - 1
    BY <1>1, SMTT(30) DEF Virtual
  <2>2. PICK a \in Nat : a = PdLength * PtLength /\ a = DevEnd + PtLength
    BY <1>1, SMTT(30)
  <2> QED BY <1>1, <1>2, <2>1, <2>2, SMTT(30)
<1> SUFFICES ASSUME NEW v \in Virtual, v \notin DevEnd..(DevEnd + PtLength - 1)
             PROVE  LET flags == vm_get_pflags(v) \cup {"present"} IN
                    IF vm_is_static(v)
                    THEN /\ tables.pt[v] = [p |-> vm_map_rev_walk(v), flags |-> flags]
                         /\ tables.pd[Pdi(v)].p = TableOf(Pdi(v)) /\ flags \subseteq tables.pd[Pdi(v)].flags
                    ELSE tables.pt[v] = [p |-> 0, flags |-> {}]
  BY DEF StaticMapped
<1> HIDE DEF tables
<1>3. v \in Nat /\ Pdi(v) \in 0..(PdLength - 2)
  BY <1>2, PdiInside
<1>4. /\ Marked(tables, 9)
      /\ tables.pt[v] = IF \E i \in 1..9 : "static" \in Map[i].flags /\ Has(i, v) THEN EntryOf(Where(v), v)
                        ELSE [p |-> 0, flags |-> {}]
  BY BootTables DEF tables
<1>5. PICK i : i = get_region_v(v)
  OBVIOUS
<1>6. vm_is_static(v) <=> i # 0 /\ "static" \in Map[i].flags
  BY <1>5 DEF vm_is_static, Map
<1>7. CASE vm_is_static(v)
  <2>1. i # 0 /\ i \in 1..9 /\ Has(i, v) /\ "static" \in Map[i].flags /\ i = Where(v)
    BY <1>3, <1>5, <1>6, <1>7, RegionV, OneRegion
  <2>2. vm_get_pflags(v) = Map[i].pflags /\ vm_map_rev_walk(v) = Map[i].pbase + (v - Map[i].vbase)
    BY <1>5, <2>1 DEF vm_get_pflags, vm_map_rev_walk, Map
  <2>3. tables.pt[v] = [p |-> vm_map_rev_walk(v), flags |-> vm_get_pflags(v) \cup {"present"}]
    BY <1>4, <2>1, <2>2 DEF EntryOf
  <2>4. Touches(i, Pdi(v))
    BY <2>1 DEF Touches, Has
  <2>5. tables.pd[Pdi(v)].p = TableOf(Pdi(v)) /\ Map[i].pflags \cup {"present"} \subseteq tables.pd[Pdi(v)].flags
    BY <1>3, <1>4, <2>1, <2>4 DEF Marked
  <2> QED BY <1>7, <2>2, <2>3, <2>5
<1>8. CASE ~vm_is_static(v)
  <2>1. ~\E j \in 1..9 : "static" \in Map[j].flags /\ Has(j, v)
    <3> SUFFICES ASSUME NEW j \in 1..9, "static" \in Map[j].flags, Has(j, v) PROVE FALSE
      OBVIOUS
    <3>1. j = i
      BY <1>3, <1>5, RegionV
    <3>2. j # 0
      BY SMTT(30)
    <3> QED BY <1>6, <1>8, <3>1, <3>2
  <2> QED BY <1>4, <1>8, <2>1
<1> QED BY <1>7, <1>8

(* Tables below KM_VIRT_BASE have no global page, and each above has one.   *)
LEMMA GlobalIs ==
  ASSUME layout \in Layouts, Loaded, NEW i \in 1..9, NEW v, Has(i, v)
  PROVE  /\ v < VirtBase => "global" \notin Allowed(Pdi(v))
         /\ v >= VirtBase => \E j \in 1..9 : Touches(j, Pdi(v)) /\ "global" \in Map[j].pflags
<1> USE LayoutPlaces
<1>1. v \in Nat /\ (v >= VirtBase <=> i \notin {6, 9}) /\ Map[i].vbase <= v /\ v < Map[i].vbase + Map[i].size
  BY OneRegion, HasIs
<1>2. PICK k \in Nat : VirtBase = PtLength * k
  <2>1. VirtBase % PtLength = 0
    BY BootPagingAssumption
  <2>2. VirtBase \div PtLength \in Nat /\ VirtBase = PtLength * (VirtBase \div PtLength) + (VirtBase % PtLength)
    BY DivMod
  <2>3. PICK d \in Nat : d = VirtBase \div PtLength
    BY <2>2
  <2>4. VirtBase = PtLength * d
    BY <2>1, <2>2, <2>3, SMTT(30)
  <2> QED BY <2>4
<1>3. ASSUME NEW j \in 1..9 PROVE "global" \in Map[j].pflags <=> j \notin {1, 6, 9}
  <2>1. j = 1 \/ j = 2 \/ j = 3 \/ j = 4 \/ j = 5 \/ j = 6 \/ j = 7 \/ j = 8 \/ j = 9
    BY SMTT(30)
  <2> QED BY <2>1, MapIs, SMTT(30) DEF Region
<1>4. ASSUME v < VirtBase PROVE "global" \notin Allowed(Pdi(v))
  <2> SUFFICES ASSUME NEW j \in 1..9, Touches(j, Pdi(v)), "global" \in Map[j].pflags PROVE FALSE
    BY DEF Allowed
  <2>1. PICK w : Has(j, w) /\ Pdi(w) = Pdi(v)
    BY DEF Touches, Has
  <2>2. w \in Nat /\ (w >= VirtBase <=> j \notin {6, 9})
    BY <2>1, OneRegion
  <2>3. w < VirtBase
    BY <1>1, <1>2, <1>4, <2>1, <2>2, PdiIs
  <2>4. ~(w >= VirtBase)
    BY <2>2, <2>3, SMTT(30)
  <2> QED BY <1>3, <2>2, <2>4
<1>5. ASSUME v >= VirtBase PROVE \E j \in 1..9 : Touches(j, Pdi(v)) /\ "global" \in Map[j].pflags
  <2>1. CASE i # 1
    <3>1. "global" \in Map[i].pflags
      BY <1>1, <1>3, <1>5, <2>1
    <3>2. Touches(i, Pdi(v))
      BY DEF Touches, Has
    <3> QED BY <3>1, <3>2
  <2>2. CASE i = 1
    <3>1. v < VirtBase + PtLength
      <4>1. v < VirtBase + layout.low
        BY <1>1, <2>2, MapIs, SMTT(30) DEF Region
      <4> QED BY <1>1, <4>1, SMTT(30)
    <3>2. RoBase \in Nat /\ VirtBase <= RoBase /\ RoBase < VirtBase + PtLength
      BY SMTT(30)
    <3>3. VirtBase + PtLength = PtLength * (k + 1) /\ k + 1 \in Nat
      BY <1>2, SMTT(30)
    <3>4. /\ ~(v < PtLength * k) /\ v < PtLength * (k + 1)
          /\ ~(RoBase < PtLength * k) /\ RoBase < PtLength * (k + 1)
      <4>1. ~(v < VirtBase) /\ ~(RoBase < VirtBase)
        BY <1>1, <1>5, <3>2, SMTT(30)
      <4> QED BY <1>2, <3>1, <3>2, <3>3, <4>1
    <3>5. Pdi(v) \in Nat /\ ~(Pdi(v) < k) /\ Pdi(v) < k + 1 /\ Pdi(RoBase) \in Nat /\ ~(Pdi(RoBase) < k) /\ Pdi(RoBase) < k + 1
      BY <1>1, <3>2, <3>3, <3>4, PdiIs
    <3>6. Pdi(v) = Pdi(RoBase)
      BY <3>5, SMTT(30)
    <3>7. Has(2, RoBase)
      <4>1. layout.ro > 0
        BY DEF Loaded
      <4>2. Map[2].vbase = RoBase /\ Map[2].size = layout.ro
        BY MapIs, SMTT(30) DEF Region
      <4>3. RoBase <= RoBase /\ RoBase < RoBase + layout.ro /\ 2 \in 1..9
        BY <4>1, SMTT(30)
      <4> QED BY <3>2, <4>2, <4>3, HasIs
    <3>8. 2 \in 1..9 /\ 2 \notin {1, 6, 9}
      BY SMTT(30)
    <3>9. Touches(2, Pdi(v))
      BY <3>6, <3>7 DEF Touches, Has
    <3> QED BY <1>3, <3>8, <3>9
  <2> QED BY <2>1, <2>2
<1> QED BY <1>4, <1>5

LEMMA DirectoryIs ==
  ASSUME layout \in Layouts, Loaded
  PROVE  DirectoryConstant
<1> DEFINE tables == early_init_kernel_paging
<1> SUFFICES ASSUME NEW i \in 1..9, NEW v, Has(i, v)
             PROVE  LET entry == tables.pd[Pdi(v)] IN
                    /\ entry.p = TableOf(Pdi(v)) /\ Map[i].pflags \cup {"present"} \subseteq entry.flags
                    /\ "global" \in entry.flags <=> v >= VirtBase
  BY MapIs DEF DirectoryConstant, Map, Has
<1> HIDE DEF tables
<1>1. Marked(tables, 9)
  BY BootTables DEF tables
<1>2. v \in Nat /\ Pdi(v) \in 0..(PdLength - 2)
  BY OneRegion, PdiInside
<1>3. PICK entry : entry = tables.pd[Pdi(v)]
  OBVIOUS
<1>4. /\ entry.p = TableOf(Pdi(v)) /\ entry.flags \subseteq Allowed(Pdi(v))
      /\ \A j \in 1..9 : Touches(j, Pdi(v)) => Map[j].pflags \cup {"present"} \subseteq entry.flags
  BY <1>1, <1>2, <1>3 DEF Marked
<1>5. Touches(i, Pdi(v))
  BY DEF Touches, Has
<1>6. ~(v >= VirtBase) => v < VirtBase
  BY <1>2, LayoutPlaces, SMTT(30)
<1>7. "global" \in entry.flags <=> v >= VirtBase
  BY <1>4, <1>6, GlobalIs
<1> QED BY <1>3, <1>4, <1>5, <1>7

LEMMA WalkIsInverse ==
  ASSUME layout \in Layouts, Loaded
  PROVE  WalkInverse
<1> DEFINE tables == early_init_kernel_paging
<1> SUFFICES ASSUME NEW p \in 0..(DevEnd - 1), vm_is_static_p(p)
             PROVE  LET v == vm_map_walk(p) IN
                    /\ vm_map_rev_walk(v) = p
                    /\ tables.pt[v] = [p |-> p, flags |-> vm_get_pflags(v) \cup {"present"}]
  BY DEF WalkInverse
<1> HIDE DEF tables
<1>1. p \in Nat
  BY LayoutPlaces, SMTT(30)
<1>2. PICK i : i = get_region_p(p)
  OBVIOUS
<1>3. i # 0 /\ "static" \in Map[i].flags
  BY <1>2 DEF vm_is_static_p, Map
<1>4. i \in 1..9 /\ Map[i].pbase <= p /\ p < Map[i].pbase + Map[i].size
  BY <1>1, <1>2, <1>3, RegionP
<1>5. PICK a \in Nat, b \in Nat, n \in Nat : a = Map[i].vbase /\ b = Map[i].pbase /\ n = Map[i].size
  BY <1>4, RegionType
<1>6. PICK v : v = a + (p - b)
  OBVIOUS
<1>7. vm_map_walk(p) = v
  BY <1>2, <1>3, <1>5, <1>6 DEF vm_map_walk, Map
<1>8. v \in Nat /\ a <= v /\ v < a + n /\ b + (v - a) = p
  BY <1>1, <1>4, <1>5, <1>6, SMTT(30)
<1>9. Has(i, v)
  BY <1>4, <1>5, <1>8, HasIs
<1>10. get_region_v(v) = i /\ i = Where(v) /\ v < DevEnd
  BY <1>4, <1>8, <1>9, RegionV, OneRegion
<1>11. vm_map_rev_walk(v) = p /\ vm_get_pflags(v) = Map[i].pflags
  BY <1>3, <1>5, <1>8, <1>10 DEF vm_map_rev_walk, vm_get_pflags, Map
<1>12. v \in Virtual
  <2>1. PtLength \in Nat \ {0} /\ PdLength \in Nat \ {0} /\ DevEnd = (PdLength - 1) * PtLength /\ DevEnd \in Nat
    BY BootPagingAssumption
  <2>2. PICK c \in Nat : c = PdLength * PtLength /\ c = DevEnd + PtLength
    BY <2>1, SMTT(30)
  <2> QED BY <1>8, <1>10, <2>1, <2>2, SMTT(30) DEF Virtual
<1>13. tables.pt[v] = EntryOf(Where(v), v)
  BY <1>3, <1>4, <1>9, <1>12, BootTables DEF tables
<1>14. EntryOf(Where(v), v) = [p |-> p, flags |-> vm_get_pflags(v) \cup {"present"}]
  BY <1>5, <1>8, <1>10, <1>11 DEF EntryOf
<1> QED BY <1>7, <1>11, <1>13, <1>14

(* Whatever the sizes of the kernel's parts, the page tables that            *)
(* early_init_kernel_paging builds say what the memory map says.            *)
THEOREM BootTablesCorrect == BootPagingSpec => []BootTablesSound
<1>1. BootPagingInit => layout \in Layouts
  BY DEF BootPagingInit
<1>2. layout \in Layouts /\ [UNCHANGED layout]_layout => (layout \in Layouts)'
  OBVIOUS
<1>3. layout \in Layouts => BootTablesSound
  <2>1. ~Loaded => BootTablesSound
    BY DEF BootTablesSound, StaticMapped, DirectoryConstant, WalkInverse
  <2> QED BY <2>1, StaticIs, DirectoryIs, WalkIsInverse DEF BootTablesSound
<1> QED BY <1>1, <1>2, <1>3, PTL DEF BootPagingSpec

-----------------------------------------------------------------------------
(***************************************************************************)
(* Checkpoint.  The boot CPU is counted first and enters last.  So while it *)
(* has not entered, num is below nof_active_cpus, and a value of num       *)
(* loaded then stays below it; and once it has entered, every CPU is       *)
(* counted.                                                                *)
(***************************************************************************)

Counted == {c \in CPUs : pc[c] \notin {"off", "count"}}

\* What is known of where the CPUs are.
Order ==
  /\ pc[BootCPU] # "off"
  /\ \A c \in CPUs : /\ active[c] => c \in Counted
                     /\ pc[c] = "active" => ~active[c]
                     /\ pc[c] = "count" => ~active[c]
                     /\ pc[c] = "start" => c = BootCPU
                     /\ pc[c] # "off" /\ c # BootCPU => pc[BootCPU] \notin {"count", "active"}
                     /\ pc[c] \in {"start", "enter", "load_num", "compare", "passed"} => active[c]
  /\ pc[BootCPU] \in {"enter", "load_num", "compare", "passed"} => Counted = CPUs

\* What the counters count.
Counters ==
  /\ num = Cardinality(Entered)
  /\ nof_active_cpus = Cardinality(Counted)

\* What a CPU may conclude from the value it has loaded.
Loads ==
  \A c \in CPUs : pc[c] = "compare" =>
    /\ loaded[c] <= num
    /\ BootCPU \notin Entered => loaded[c] < nof_active_cpus

IInv == TypeOK /\ Order /\ Counters /\ Loads

-----------------------------------------------------------------------------

(* The sets that are counted are finite, and the boot CPU is what they      *)
(* differ in.                                                               *)
LEMMA Counting ==
  ASSUME CheckpointAssumption, TypeOK, Order
  PROVE  /\ IsFiniteSet(Entered) /\ IsFiniteSet(Counted)
         /\ Entered \subseteq Counted
         /\ Cardinality(Entered) \in Nat /\ Cardinality(Counted) \in Nat
         /\ Cardinality(Entered) <= Cardinality(Counted)
         /\ (BootCPU \in Counted /\ BootCPU \notin Entered) =>
              Cardinality(Entered) < Cardinality(Counted)
<1>1. Entered \subseteq CPUs /\ Counted \subseteq CPUs /\ IsFiniteSet(CPUs)
  BY DEF Entered, Counted, CheckpointAssumption
<1>2. IsFiniteSet(Entered) /\ IsFiniteSet(Counted)
  BY <1>1, FS_Subset
<1>3. Entered \subseteq Counted
  BY DEF Entered, Counted
<1>4. Cardinality(Entered) \in Nat /\ Cardinality(Counted) \in Nat
  BY <1>2, FS_CardinalityType
<1>5. Cardinality(Entered) <= Cardinality(Counted)
  BY <1>2, <1>3, FS_Subset
<1>6. ASSUME BootCPU \in Counted, BootCPU \notin Entered
      PROVE  Cardinality(Entered) < Cardinality(Counted)
  <2>1. Cardinality(Entered) # Cardinality(Counted)
    BY <1>2, <1>3, <1>6, FS_Subset
  <2> QED
    BY <2>1, <1>4, <1>5, SMTT(30)
<1> QED
  BY <1>2, <1>3, <1>4, <1>5, <1>6

(* IInv holds before the boot CPU is counted.                               *)
LEMMA InitIInv == CheckpointAssumption /\ Init => IInv
<1> SUFFICES ASSUME CheckpointAssumption, Init PROVE IInv
  OBVIOUS
<1> USE DEF CheckpointAssumption, Init
<1>1. TypeOK
  BY DEF TypeOK
<1>2. Entered = {} /\ Counted = {}
  BY DEF Entered, Counted
<1>3. Order
  BY DEF Order, Counted
<1>4. Counters
  BY <1>2, FS_EmptySet DEF Counters
<1>5. Loads
  BY DEF Loads
<1> QED
  BY <1>1, <1>3, <1>4, <1>5 DEF IInv
(* Every step keeps IInv.                                                   *)
LEMMA NextIInv == CheckpointAssumption /\ IInv /\ [Next]_vars => IInv'
<1> SUFFICES ASSUME CheckpointAssumption, IInv, [Next]_vars PROVE IInv'
  OBVIOUS
<1> USE DEF IInv
<1>0. /\ IsFiniteSet(Entered) /\ IsFiniteSet(Counted)
      /\ num < nof_active_cpus \/ BootCPU \in Entered \/ BootCPU \notin Counted
  BY Counting DEF Counters
<1>1. ASSUME NEW c \in CPUs, CountActive(c) PROVE IInv'
  <2>1. TypeOK' /\ Order'
    BY <1>1, SMTT(30) DEF CountActive, TypeOK, Order, Counted, CheckpointAssumption
  <2>2. Entered' = Entered /\ Counted' = Counted \cup {c} /\ c \notin Counted /\ ~active[c]
    BY <1>1, SMTT(30) DEF CountActive, TypeOK, Order, Entered, Counted
  <2>3. Cardinality(Counted') = Cardinality(Counted) + 1
    BY <1>0, <2>2, FS_AddElement
  <2>4. Counters'
    BY <1>1, <2>2, <2>3 DEF CountActive, Counters
  <2>5. Loads'
    BY <1>1, <2>2, SMTT(30) DEF CountActive, Loads, TypeOK
  <2> QED
    BY <2>1, <2>4, <2>5
<1>2. ASSUME NEW c \in CPUs, SetActive(c) PROVE IInv'
  <2>1. TypeOK' /\ Order'
    BY <1>2 DEF SetActive, TypeOK, Order, Counted, CheckpointAssumption
  <2>2. Entered' = Entered /\ Counted' = Counted
    BY <1>2 DEF SetActive, TypeOK, Entered, Counted
  <2>3. Counters' /\ Loads'
    BY <1>2, <2>2 DEF SetActive, Counters, Loads, TypeOK
  <2> QED
    BY <2>1, <2>3
<1>3. ASSUME NEW c \in CPUs, start_ap(c) PROVE IInv'
  <2>1. TypeOK' /\ Order'
    BY <1>3 DEF start_ap, TypeOK, Order, Counted, CheckpointAssumption
  <2>2. Entered' = Entered /\ Counted' = Counted
    BY <1>3 DEF start_ap, TypeOK, Entered, Counted
  <2>3. Counters' /\ Loads'
    BY <1>3, <2>2 DEF start_ap, Counters, Loads, TypeOK
  <2> QED
    BY <2>1, <2>3
<1>4. ASSUME AllStarted PROVE IInv'
  <2>1. TypeOK'
    BY <1>4 DEF AllStarted, TypeOK, CheckpointAssumption
  <2>2. Entered' = Entered /\ Counted' = Counted
    BY <1>4 DEF AllStarted, TypeOK, Entered, Counted, CheckpointAssumption
  <2>3. Counted = CPUs
    BY <1>4 DEF AllStarted, Starting, Order, Counted, CheckpointAssumption
  <2>4. active[BootCPU]
    BY <1>4 DEF AllStarted, Order, CheckpointAssumption, TypeOK
  <2>5. Order'
    BY <1>4, <2>2, <2>3, <2>4 DEF AllStarted, Order, CheckpointAssumption, TypeOK
  <2>6. Counters' /\ Loads'
    BY <1>4, <2>2 DEF AllStarted, Counters, Loads, TypeOK, CheckpointAssumption
  <2> QED
    BY <2>1, <2>5, <2>6
<1>5. ASSUME NEW c \in CPUs, Enter(c) PROVE IInv'
  <2>1. TypeOK' /\ Order'
    BY <1>5, SMTT(30) DEF Enter, TypeOK, Order, Counted, CheckpointAssumption
  <2>2. Counted' = Counted /\ Entered' = Entered \cup {c} /\ c \notin Entered
    BY <1>5 DEF Enter, TypeOK, Entered, Counted
  <2>3. Cardinality(Entered') = Cardinality(Entered) + 1
    BY <1>0, <2>2, FS_AddElement
  <2>4. Counters'
    BY <1>5, <2>2, <2>3 DEF Enter, Counters
  <2>5. Loads'
    BY <1>5, <2>2, SMTT(30) DEF Enter, Loads, TypeOK
  <2> QED
    BY <2>1, <2>4, <2>5
<1>6. ASSUME NEW c \in CPUs, LoadNum(c) PROVE IInv'
  <2>1. TypeOK' /\ Order'
    BY <1>6 DEF LoadNum, TypeOK, Order, Counted, CheckpointAssumption
  <2>2. Counted' = Counted /\ Entered' = Entered
    BY <1>6 DEF LoadNum, TypeOK, Entered, Counted
  <2>3. c \in Entered /\ BootCPU \in Counted
    BY <1>6 DEF LoadNum, Order, Entered, Counted, CheckpointAssumption
  <2>4. Counters' /\ Loads'
    BY <1>0, <1>6, <2>2, <2>3, SMTT(30) DEF LoadNum, Counters, Loads, TypeOK
  <2> QED
    BY <2>1, <2>4
<1>7. ASSUME NEW c \in CPUs, Compare(c) PROVE IInv'
  <2>1. TypeOK' /\ Order'
    BY <1>7 DEF Compare, TypeOK, Order, Counted, CheckpointAssumption
  <2>2. Counted' = Counted /\ Entered' = Entered
    BY <1>7 DEF Compare, TypeOK, Entered, Counted
  <2>3. Counters' /\ Loads'
    BY <1>7, <2>2 DEF Compare, Counters, Loads, TypeOK
  <2> QED
    BY <2>1, <2>3
<1>8. ASSUME UNCHANGED vars PROVE IInv'
  BY <1>8 DEF vars, TypeOK, Order, Counters, Loads, Entered, Counted
<1> QED
  BY <1>1, <1>2, <1>3, <1>4, <1>5, <1>6, <1>7, <1>8 DEF Next, CPUStep, Checking, Done

(* A comparison that succeeds finds every CPU in the checkpoint.            *)
LEMMA PassesLast ==
  ASSUME CheckpointAssumption, IInv, NEW c \in CPUs, pc[c] = "compare",
         loaded[c] = nof_active_cpus
  PROVE  Entered = CPUs
<1>1. /\ Cardinality(Entered) \in Nat /\ Cardinality(Counted) \in Nat
      /\ IsFiniteSet(Counted) /\ Entered \subseteq Counted
      /\ Cardinality(Entered) <= Cardinality(Counted)
  BY Counting DEF IInv
<1>2. BootCPU \in Entered
  BY SMTT(30) DEF IInv, Loads, TypeOK
<1>3. Counted = CPUs
  BY <1>2 DEF IInv, Order, Entered
<1>4. Cardinality(Entered) = Cardinality(Counted)
  BY <1>1, SMTT(30) DEF IInv, Loads, Counters, TypeOK
<1> QED
  BY <1>1, <1>3, <1>4, FS_Subset

(* IInv is an invariant of every behaviour.                                 *)
LEMMA Invariance == Spec => []IInv
<1>0. CheckpointAssumption
  BY CheckpointAssumption
<1>1. CheckpointAssumption /\ Init => IInv
  BY InitIInv
<1>2. CheckpointAssumption /\ IInv /\ [Next]_vars => IInv'
  BY NextIInv
<1> QED
  BY <1>0, <1>1, <1>2, PTL DEF Spec

(* Every step is a step of the barrier, or leaves it as it is.              *)
LEMMA StepImplements ==
  CheckpointAssumption /\ IInv /\ [Next]_vars => [Bar!BarrierNext]_(Bar!bvars)
<1> SUFFICES ASSUME CheckpointAssumption, IInv, [Next]_vars,
                    Entered' # Entered \/ Passed' # Passed
             PROVE  Bar!BarrierNext
  BY DEF Bar!bvars
<1> USE DEF IInv
<1>1. ASSUME NEW c \in CPUs, Enter(c) PROVE Bar!BarrierEnter(c)
  BY <1>1 DEF Enter, TypeOK, Entered, Passed, Bar!BarrierEnter
<1>2. ASSUME NEW c \in CPUs, Compare(c) PROVE Bar!BarrierPass(c)
  <2>1. Entered' = Entered /\ loaded[c] = nof_active_cpus
    BY <1>2 DEF Compare, TypeOK, Entered, Passed
  <2>2. c \notin Passed /\ Passed' = Passed \cup {c}
    BY <1>2, <2>1 DEF Compare, TypeOK, Passed
  <2> QED
    BY <1>2, <2>1, <2>2, PassesLast DEF Compare, Bar!BarrierPass
<1>3. ASSUME NEW c \in CPUs, CountActive(c) \/ SetActive(c) \/ start_ap(c) \/ LoadNum(c)
      PROVE  Entered' = Entered /\ Passed' = Passed
  BY <1>3 DEF CountActive, SetActive, start_ap, LoadNum, TypeOK, Entered, Passed
<1>4. ASSUME AllStarted PROVE Entered' = Entered /\ Passed' = Passed
  BY <1>4 DEF AllStarted, TypeOK, Entered, Passed, CheckpointAssumption
<1>5. ASSUME UNCHANGED vars PROVE Entered' = Entered /\ Passed' = Passed
  BY <1>5 DEF vars, Entered, Passed
<1> QED
  BY <1>1, <1>2, <1>3, <1>4, <1>5 DEF Next, CPUStep, Checking, Done, Bar!BarrierNext

-----------------------------------------------------------------------------

(* The counters of the checkpoint and the places of the CPUs keep their     *)
(* types.                                                                   *)
THEOREM TypeCorrect == Spec => []TypeOK
<1>1. IInv => TypeOK
  BY DEF IInv
<1> QED
  BY <1>1, Invariance, PTL

(* For every number of CPUs: cpu_checkpoint_enter, with the order in which  *)
(* the CPUs are started and counted, is a barrier.                          *)
THEOREM CheckpointIsBarrier == Spec => ImplementsBarrier
<1>1. CheckpointAssumption
  BY CheckpointAssumption
<1>2. Init => Bar!BarrierInit
  BY DEF Init, Bar!BarrierInit, Entered, Passed
<1>3. CheckpointAssumption /\ IInv /\ [Next]_vars => [Bar!BarrierNext]_(Bar!bvars)
  BY StepImplements
<1> QED
  BY <1>1, <1>2, <1>3, Invariance, PTL DEF Spec, ImplementsBarrier, Bar!BarrierSpec

-----------------------------------------------------------------------------
(***************************************************************************)
(* KernelLocks.  The locks have a rank.  What a CPU has left to do takes   *)
(* locks in the order of their ranks, whatever it was doing when the       *)
(* interrupt came; so a CPU that waits holds only locks of lower rank, and *)
(* one of a circle of CPUs would have to wait for a lower one than it      *)
(* holds.                                                                  *)
(***************************************************************************)

(* The scheduler loop frees the memory of a thread with its lock held, and  *)
(* the locks are then not taken in one order; every other routine keeps to  *)
(* the order heap, kp, palloc, ipi, sched.                                  *)
NothingReaped == Routines \subseteq {"kalloc", "kfree", "vmreserve", "notify", "user"}

Rank(l) == CASE l = "heap" -> 1 [] l = "kp" -> 2 [] l = "palloc" -> 3 [] l = "ipi" -> 4
             [] l = "sched" -> 6

(* The operations of a frame, and the locks it holds when the operations q  *)
(* are left: those it releases before it acquires them again.               *)
Ops == [op : {"acquire", "release", "propagate", "run"}, lock : Locks \cup {"none"}]
Held(q) ==
  {l \in Locks : \E j \in 1..Len(q) : q[j] = Release(l) /\ \A i \in 1..(j - 1) : q[i] # Acquire(l)}

(* The first operation of q keeps to the order.                             *)
InOrder(q) ==
  /\ q[1].op = "acquire" =>
       /\ q[1].lock \in Locks \ Held(q) /\ Held(Tail(q)) = Held(q) \cup {q[1].lock}
       /\ \A m \in Held(q) : Rank(m) < Rank(q[1].lock)
  /\ q[1].op = "release" => q[1].lock \in Held(q) /\ Held(Tail(q)) = Held(q) \ {q[1].lock}
  /\ q[1].op \in {"propagate", "run"} => Held(Tail(q)) = Held(q)
  /\ q[1].op = "propagate" => \A m \in Held(q) : Rank(m) < 5

After(q, k) == SubSeq(q, k, Len(q))
Ordered(q) == q \in Seq(Ops) /\ \A k \in 1..Len(q) : InOrder(After(q, k))

(* A sequence with one operation in front.                                  *)
LEMMA ConsFacts ==
  ASSUME NEW o \in Ops, NEW t \in Seq(Ops)
  PROVE  /\ <<o>> \o t \in Seq(Ops) /\ Len(<<o>> \o t) = Len(t) + 1 /\ Len(t) \in Nat
         /\ (<<o>> \o t)[1] = o /\ Tail(<<o>> \o t) = t
         /\ \A i \in 1..Len(t) : (<<o>> \o t)[i + 1] = t[i]
  BY SMTT(30)

(* What is held then depends on that operation alone.                       *)
LEMMA HeldCons ==
  ASSUME NEW o \in Ops, NEW t \in Seq(Ops), NEW l \in Locks
  PROVE  l \in Held(<<o>> \o t) <=> (o = Release(l) \/ (o # Acquire(l) /\ l \in Held(t)))
<1> DEFINE q == <<o>> \o t
<1>1. /\ Len(q) = Len(t) + 1 /\ Len(t) \in Nat /\ q[1] = o /\ \A i \in 1..Len(t) : q[i + 1] = t[i]
  BY ConsFacts
<1>2. Release(l) # Acquire(l)
  BY DEF Release, Acquire
<1> HIDE DEF q
<1>3. ASSUME o = Release(l) PROVE l \in Held(q)
  <2>1. 1 \in 1..Len(q) /\ 1..(1 - 1) = {}
    BY <1>1, SMTT(30)
  <2> QED BY <1>1, <1>3, <2>1 DEF Held
<1>4. ASSUME o # Release(l), l \in Held(q) PROVE o # Acquire(l) /\ l \in Held(t)
  <2>1. PICK j \in 1..Len(q) : q[j] = Release(l) /\ \A i \in 1..(j - 1) : q[i] # Acquire(l)
    BY <1>4 DEF Held
  <2>2. j # 1 /\ j - 1 \in 1..Len(t) /\ (j - 1) + 1 = j /\ 1 \in 1..(j - 1)
    BY <1>1, <1>4, <2>1, SMTT(30)
  <2>3. \A i \in 1..((j - 1) - 1) : t[i] # Acquire(l)
    <3>1. ASSUME NEW i \in 1..((j - 1) - 1) PROVE t[i] # Acquire(l)
      <4>1. i + 1 \in 1..(j - 1) /\ i \in 1..Len(t)
        BY <2>2, <1>1, SMTT(30)
      <4> QED BY <1>1, <2>1, <4>1
    <3> QED BY <3>1
  <2>4. t[j - 1] = Release(l)
    BY <1>1, <2>1, <2>2
  <2> QED BY <1>1, <2>1, <2>2, <2>3, <2>4 DEF Held
<1>5. ASSUME o # Acquire(l), l \in Held(t) PROVE l \in Held(q)
  <2>1. PICK j \in 1..Len(t) : t[j] = Release(l) /\ \A i \in 1..(j - 1) : t[i] # Acquire(l)
    BY <1>5 DEF Held
  <2>2. j + 1 \in 1..Len(q) /\ q[j + 1] = Release(l)
    BY <1>1, <2>1, SMTT(30)
  <2>3. ASSUME NEW i \in 1..((j + 1) - 1) PROVE q[i] # Acquire(l)
    <3>1. CASE i = 1
      BY <1>1, <1>5, <3>1
    <3>2. CASE i # 1
      <4>1. i - 1 \in 1..(j - 1) /\ i - 1 \in 1..Len(t) /\ (i - 1) + 1 = i
        BY <1>1, <3>2, SMTT(30)
      <4> QED BY <1>1, <2>1, <4>1
    <3> QED BY <3>1, <3>2
  <2> QED BY <2>2, <2>3 DEF Held
<1> QED BY <1>2, <1>3, <1>4, <1>5 DEF q

(* A sequence is in order if its first operation and the others are.        *)
LEMMA OrderedCons ==
  ASSUME NEW o \in Ops, NEW t, Ordered(t), InOrder(<<o>> \o t)
  PROVE  Ordered(<<o>> \o t)
<1> DEFINE q == <<o>> \o t
<1>1. t \in Seq(Ops)
  BY DEF Ordered
<1>2. q \in Seq(Ops) /\ Len(q) = Len(t) + 1 /\ Len(t) \in Nat
  BY <1>1, ConsFacts
<1>3. After(q, 1) = q
  BY <1>2, SMTT(30) DEF After
<1>4. ASSUME NEW k \in 1..Len(q), k # 1 PROVE k - 1 \in 1..Len(t) /\ After(q, k) = After(t, k - 1)
  BY <1>1, <1>2, <1>4, SMTT(30) DEF After
<1>5. ASSUME NEW k \in 1..Len(q) PROVE InOrder(After(q, k))
  BY <1>3, <1>4 DEF Ordered
<1> HIDE DEF q
<1>6. Ordered(q)
  BY <1>2, <1>5 DEF Ordered
<1> QED BY <1>6 DEF q

(* What is in order stays so when its first operation is done.              *)
LEMMA OrderedTail ==
  ASSUME NEW q, Ordered(q), q # <<>>
  PROVE  InOrder(q) /\ Ordered(Tail(q))
<1>1. q \in Seq(Ops) /\ Len(q) \in Nat \ {0}
  BY SMTT(30) DEF Ordered
<1>2. After(q, 1) = q /\ 1 \in 1..Len(q)
  BY <1>1, SMTT(30) DEF After
<1>3. Tail(q) \in Seq(Ops) /\ Len(Tail(q)) = Len(q) - 1
  BY <1>1, SMTT(30)
<1>4. ASSUME NEW k \in 1..Len(Tail(q)) PROVE InOrder(After(Tail(q), k))
  <2>1. k + 1 \in 1..Len(q) /\ After(Tail(q), k) = After(q, k + 1)
    BY <1>1, <1>3, SMTT(30) DEF After
  <2> QED BY <2>1 DEF Ordered
<1>5. InOrder(q)
  BY <1>2 DEF Ordered
<1> QED BY <1>3, <1>4, <1>5 DEF Ordered

(* The three ways to put an operation in front of a frame.                  *)
LEMMA ConsRelease ==
  ASSUME NEW l \in Locks, NEW t, Ordered(t), l \notin Held(t)
  PROVE  /\ Ordered(<<Release(l)>> \o t) /\ Held(<<Release(l)>> \o t) = Held(t) \cup {l}
<1> DEFINE o == Release(l)
           q == <<o>> \o t
<1>1. o \in Ops /\ t \in Seq(Ops) /\ o.op = "release" /\ o.lock = l
  BY DEF Release, Ops, Ordered
<1>2. Held(q) = Held(t) \cup {l}
  <2>1. ASSUME NEW m \in Locks PROVE m \in Held(q) <=> (m = l \/ m \in Held(t))
    BY <1>1, HeldCons DEF Release, Acquire
  <2>2. Held(q) \subseteq Locks /\ Held(t) \subseteq Locks
    BY DEF Held
  <2> HIDE DEF q
  <2> QED BY <2>1, <2>2
<1>3. q[1] = o /\ Tail(q) = t
  BY <1>1, ConsFacts
<1>4. InOrder(q)
  <2> HIDE DEF q, o
  <2> QED BY <1>1, <1>2, <1>3 DEF InOrder
<1> QED BY <1>1, <1>2, <1>4, OrderedCons

(* An acquire in front of what follows it.                                  *)
LEMMA ConsAcquire ==
  ASSUME NEW l \in Locks, NEW t, Ordered(t), l \in Held(t),
         \A m \in Held(t) \ {l} : Rank(m) < Rank(l)
  PROVE  /\ Ordered(<<Acquire(l)>> \o t) /\ Held(<<Acquire(l)>> \o t) = Held(t) \ {l}
<1> DEFINE o == Acquire(l)
           q == <<o>> \o t
<1>1. o \in Ops /\ t \in Seq(Ops) /\ o.op = "acquire" /\ o.lock = l
  BY DEF Acquire, Ops, Ordered
<1>2. Held(q) = Held(t) \ {l}
  <2>1. ASSUME NEW m \in Locks PROVE m \in Held(q) <=> (m # l /\ m \in Held(t))
    BY <1>1, HeldCons DEF Release, Acquire
  <2>2. Held(q) \subseteq Locks /\ Held(t) \subseteq Locks
    BY DEF Held
  <2> HIDE DEF q
  <2> QED BY <2>1, <2>2
<1>3. q[1] = o /\ Tail(q) = t
  BY <1>1, ConsFacts
<1>4. InOrder(q)
  <2> HIDE DEF q, o
  <2> QED BY <1>1, <1>2, <1>3 DEF InOrder
<1> QED BY <1>1, <1>2, <1>4, OrderedCons

(* A call of the other CPUs in front of what follows it.                    *)
LEMMA ConsPropagate ==
  ASSUME NEW t, Ordered(t), \A m \in Held(t) : Rank(m) < 5
  PROVE  /\ Ordered(<<[op |-> "propagate", lock |-> "ipi"]>> \o t)
         /\ Held(<<[op |-> "propagate", lock |-> "ipi"]>> \o t) = Held(t)
<1> DEFINE o == [op |-> "propagate", lock |-> "ipi"]
           q == <<o>> \o t
<1>1. o \in Ops /\ t \in Seq(Ops) /\ o.op = "propagate" /\ \A m \in Locks : o # Release(m) /\ o # Acquire(m)
  BY DEF Ops, Ordered, Locks, Release, Acquire
<1>2. Held(q) = Held(t)
  <2>1. ASSUME NEW m \in Locks PROVE m \in Held(q) <=> m \in Held(t)
    BY <1>1, HeldCons
  <2>2. Held(q) \subseteq Locks /\ Held(t) \subseteq Locks
    BY DEF Held
  <2> HIDE DEF q
  <2> QED BY <2>1, <2>2
<1>3. q[1] = o /\ Tail(q) = t
  BY <1>1, ConsFacts
<1>4. InOrder(q)
  <2> HIDE DEF q, o
  <2> QED BY <1>1, <1>2, <1>3 DEF InOrder
<1> QED BY <1>1, <1>2, <1>4, OrderedCons

(* A CPU with nothing left to do holds nothing.                             *)
LEMMA NoneOrdered == Ordered(<<>>) /\ Held(<<>>) = {}
  BY SMTT(30) DEF Ordered, Held

(* The routines are sequences of operations.                                *)
LEMMA OpsSeqs ==
  /\ \A l \in Locks : Acquire(l) \in Ops /\ Release(l) \in Ops
  /\ [op |-> "propagate", lock |-> "ipi"] \in Ops
  /\ {"sched", "heap", "kp", "palloc", "ipi"} \subseteq Locks
  BY DEF Acquire, Release, Ops, Locks

(* First operation and rest of a routine that is written out.               *)
LEMMA HeadAndTail ==
  ASSUME NEW q \in Seq(Ops), q # <<>> PROVE q = <<q[1]>> \o Tail(q)
<1>1. Len(q) \in Nat \ {0} /\ q[1] \in Ops /\ Tail(q) \in Seq(Ops)
  BY SMTT(30)
<1>2. /\ <<q[1]>> \o Tail(q) \in Seq(Ops) /\ Len(<<q[1]>> \o Tail(q)) = Len(Tail(q)) + 1
      /\ (<<q[1]>> \o Tail(q))[1] = q[1]
      /\ \A i \in 1..Len(Tail(q)) : (<<q[1]>> \o Tail(q))[i + 1] = Tail(q)[i]
  BY <1>1, ConsFacts
<1> QED BY <1>1, <1>2, SMTT(30)

(* Two sequences of operations make one.                                    *)
LEMMA Joined ==
  ASSUME NEW x \in Seq(Ops), NEW y \in Seq(Ops) PROVE x \o y \in Seq(Ops)
  BY SMTT(30)

(* Putting them together is associative.                                    *)
LEMMA Assoc ==
  ASSUME NEW x \in Seq(Ops), NEW y \in Seq(Ops), NEW z \in Seq(Ops)
  PROVE  (x \o y) \o z = x \o (y \o z)
  BY SMTT(30)

\* Names that the provers do not look into.
OpSeqs == Seq(Ops)
Then(s, t) == s \o t

(* The same in these names.                                                 *)
LEMMA ThenAssoc ==
  ASSUME NEW x \in OpSeqs, NEW y \in OpSeqs, NEW z \in OpSeqs
  PROVE  Then(x, y) \in OpSeqs /\ Then(Then(x, y), z) = Then(x, Then(y, z))
<1>1. x \in Seq(Ops) /\ y \in Seq(Ops) /\ z \in Seq(Ops)
  BY DEF OpSeqs
<1>2. (x \o y) \o z = x \o (y \o z)
  BY <1>1, SMTT(30)
<1>3. x \o y \in Seq(Ops)
  BY <1>1, SMTT(30)
<1> QED BY <1>2, <1>3 DEF OpSeqs, Then

(* Two operations, or three, in a row.                                      *)
LEMMA Pairs ==
  ASSUME NEW a \in Ops, NEW b \in Ops PROVE <<a, b>> = <<a>> \o <<b>>
<1>1. <<a, b>> \in Seq(Ops) /\ <<a, b>> # <<>> /\ <<a, b>>[1] = a /\ Tail(<<a, b>>) = <<b>>
  BY SMTT(30)
<1> DEFINE q == <<a, b>>
<1> HIDE DEF q
<1>2. q = <<q[1]>> \o Tail(q)
  BY <1>1, HeadAndTail DEF q
<1> QED BY <1>1, <1>2 DEF q

(* Three operations, one after the other.                                   *)
LEMMA Triples ==
  ASSUME NEW a \in Ops, NEW b \in Ops, NEW c \in Ops PROVE <<a, b, c>> = <<a>> \o <<b>> \o <<c>>
<1>1. /\ <<a, b, c>> \in Seq(Ops) /\ <<a, b, c>> # <<>> /\ <<a, b, c>>[1] = a
      /\ Tail(<<a, b, c>>) = <<b, c>> /\ <<a>> \in Seq(Ops) /\ <<b>> \in Seq(Ops) /\ <<c>> \in Seq(Ops)
  BY SMTT(30)
<1> DEFINE q == <<a, b, c>>
<1> HIDE DEF q
<1>2. q = <<q[1]>> \o Tail(q)
  BY <1>1, HeadAndTail DEF q
<1>3. <<a, b, c>> = <<a>> \o (<<b>> \o <<c>>)
  BY <1>1, <1>2, Pairs DEF q
<1>4. (<<a>> \o <<b>>) \o <<c>> = <<a>> \o (<<b>> \o <<c>>)
  BY <1>1, Assoc
<1> QED BY <1>3, <1>4

(* A block of operations that takes only locks of rank k or higher, and     *)
(* gives them back: it may stand before a frame that holds lower locks.     *)
Block(u, k) ==
  /\ u \in Seq(Ops)
  /\ \A t : Ordered(t) /\ (\A m \in Held(t) : Rank(m) < k)
            => Ordered(u \o t) /\ Held(u \o t) = Held(t)

(* The places of the locks in the order.                                    *)
LEMMA RankIs == \A m \in Locks : Rank(m) \in {1, 2, 3, 4, 6}
  BY DEF Locks, Rank

(* What is held is locks.                                                   *)
LEMMA HeldLocks == \A t : Held(t) \subseteq Locks
  BY DEF Held

(* One block after another is a block.                                      *)
LEMMA BlockAfterBlock ==
  ASSUME NEW u, NEW v, NEW k, Block(u, k), Block(v, k) PROVE Block(u \o v, k)
<1>1. u \in Seq(Ops) /\ v \in Seq(Ops) /\ u \o v \in Seq(Ops)
  BY Joined DEF Block
<1>2. ASSUME NEW t, Ordered(t), \A m \in Held(t) : Rank(m) < k
      PROVE  Ordered((u \o v) \o t) /\ Held((u \o v) \o t) = Held(t)
  <2>1. Ordered(v \o t) /\ Held(v \o t) = Held(t)
    BY <1>2 DEF Block
  <2>2. Ordered(u \o (v \o t)) /\ Held(u \o (v \o t)) = Held(t)
    BY <1>2, <2>1 DEF Block
  <2>3. (u \o v) \o t = u \o (v \o t)
    BY <1>1, <1>2, Assoc DEF Ordered
  <2> QED BY <2>2, <2>3
<1> QED BY <1>1, <1>2 DEF Block

(* A block for one rank is one for every lower rank.                        *)
LEMMA BlockHigher ==
  ASSUME NEW u, NEW k \in Int, NEW n \in Int, n <= k, Block(u, k) PROVE Block(u, n)
<1>1. ASSUME NEW t, \A m \in Held(t) : Rank(m) < n PROVE \A m \in Held(t) : Rank(m) < k
  <2>1. \A m \in Held(t) : Rank(m) \in Int
    BY RankIs, HeldLocks, SMTT(30)
  <2> QED BY <1>1, <2>1, SMTT(30)
<1> QED BY <1>1 DEF Block

(* A lock around a block.                                                   *)
LEMMA BlockInLock ==
  ASSUME NEW l \in Locks, NEW u, Block(u, Rank(l) + 1)
  PROVE  Block(<<Acquire(l)>> \o u \o <<Release(l)>>, Rank(l))
<1> DEFINE a == <<Acquire(l)>>
           r == <<Release(l)>>
<1>1. a \in Seq(Ops) /\ r \in Seq(Ops) /\ u \in Seq(Ops)
  BY OpsSeqs, SMTT(30) DEF Block
<1>2. a \o u \o r \in Seq(Ops)
  <2> HIDE DEF a, r
  <2> QED BY <1>1, SMTT(30)
<1>3. Rank(l) \in Int
  BY RankIs, SMTT(30)
<1>4. ASSUME NEW t, Ordered(t), \A m \in Held(t) : Rank(m) < Rank(l)
      PROVE  Ordered((a \o u \o r) \o t) /\ Held((a \o u \o r) \o t) = Held(t)
  <2>1. l \notin Held(t) /\ \A m \in Held(t) : Rank(m) \in Int
    BY <1>3, <1>4, RankIs, HeldLocks, SMTT(30)
  <2>2. Ordered(r \o t) /\ Held(r \o t) = Held(t) \cup {l}
    BY <1>4, <2>1, ConsRelease
  <2>3. \A m \in Held(r \o t) : Rank(m) < Rank(l) + 1
    <3> HIDE DEF r
    <3> QED BY <1>3, <1>4, <2>1, <2>2, SMTT(30)
  <2>4. Ordered(u \o (r \o t)) /\ Held(u \o (r \o t)) = Held(t) \cup {l}
    <3> HIDE DEF r
    <3> QED BY <2>2, <2>3 DEF Block
  <2> DEFINE f == u \o (r \o t)
  <2>5. Ordered(a \o f) /\ Held(a \o f) = Held(t)
    <3>1. Ordered(f) /\ Held(f) = Held(t) \cup {l}
      BY <2>4
    <3> HIDE DEF f
    <3>2. Ordered(a \o f) /\ Held(a \o f) = Held(f) \ {l}
      BY <1>4, <3>1, ConsAcquire
    <3> HIDE DEF a
    <3> QED BY <2>1, <3>1, <3>2
  <2>6. (a \o u \o r) \o t = a \o f
    <3>1. t \in Seq(Ops)
      BY <1>4 DEF Ordered
    <3> HIDE DEF a, r
    <3>2. a \in OpSeqs /\ u \in OpSeqs /\ r \in OpSeqs /\ t \in OpSeqs
      BY <1>1, <3>1 DEF OpSeqs
    <3>3. Then(Then(Then(a, u), r), t) = Then(Then(a, u), Then(r, t))
      BY <3>2, ThenAssoc, SMTT(30)
    <3>4. Then(Then(a, u), Then(r, t)) = Then(a, Then(u, Then(r, t)))
      BY <3>2, ThenAssoc, SMTT(30)
    <3> QED BY <3>3, <3>4 DEF Then
  <2> HIDE DEF f, a, r
  <2> QED BY <2>5, <2>6
<1> HIDE DEF a, r
<1>5. Block(a \o u \o r, Rank(l))
  BY <1>2, <1>4 DEF Block
<1> QED BY <1>5 DEF a, r

(* A lock that is taken and given back.                                     *)
LEMMA BlockOfLock ==
  ASSUME NEW l \in Locks PROVE Block(<<Acquire(l), Release(l)>>, Rank(l))
<1>1. Acquire(l) \in Ops /\ Release(l) \in Ops /\ Rank(l) \in Int
  BY OpsSeqs, RankIs, SMTT(30)
<1>2. <<Acquire(l), Release(l)>> = <<Acquire(l)>> \o <<>> \o <<Release(l)>>
  <2>1. <<Acquire(l)>> \o <<>> = <<Acquire(l)>>
    BY <1>1, SMTT(30)
  <2>2. <<Acquire(l), Release(l)>> = <<Acquire(l)>> \o <<Release(l)>>
    BY <1>1, Pairs
  <2> QED BY <2>1, <2>2
<1>3. Block(<<>>, Rank(l) + 1)
  <2>1. \A t \in Seq(Ops) : <<>> \o t = t
    BY SMTT(30)
  <2>2. <<>> \in Seq(Ops)
    BY SMTT(30)
  <2> QED BY <2>1, <2>2 DEF Block, Ordered
<1>4. Block(<<Acquire(l)>> \o <<>> \o <<Release(l)>>, Rank(l))
  BY <1>3, BlockInLock
<1> QED BY <1>2, <1>4

(* Calling the other CPUs is a block above the ipi lock.                    *)
LEMMA BlockOfPropagate == Block(Propagate, 4)
<1> DEFINE p == [op |-> "propagate", lock |-> "ipi"]
           a == Acquire("ipi")
           r == Release("ipi")
<1>1. a \in Ops /\ p \in Ops /\ r \in Ops /\ "ipi" \in Locks /\ Rank("ipi") = 4
  BY OpsSeqs DEF Rank
<1>2. Block(<<p>>, 5)
  <2>1. <<p>> \in Seq(Ops)
    BY <1>1, SMTT(30)
  <2> QED BY <2>1, ConsPropagate DEF Block
<1>3. Block(<<a>> \o <<p>> \o <<r>>, 4)
  <2>1. Rank("ipi") + 1 = 5
    BY <1>1, SMTT(30)
  <2> HIDE DEF p
  <2> QED BY <1>1, <1>2, <2>1, BlockInLock
<1>4. Propagate = <<a>> \o <<p>> \o <<r>>
  <2>1. Propagate = <<a, p, r>>
    BY DEF Propagate
  <2> HIDE DEF a, p, r
  <2> QED BY <1>1, <2>1, Triples
<1> QED BY <1>3, <1>4

(* What the CPUs run keeps to the order and begins without a lock.          *)
LEMMA RoutineBlocks ==
  /\ Block(kallocLocks, 1) /\ Block(kfreeLocks, 1) /\ Block(vmreserveLocks, 1) /\ Block(schedLocks, 6)
<1>1. /\ Rank("heap") = 1 /\ Rank("kp") = 2 /\ Rank("palloc") = 3 /\ Rank("sched") = 6
      /\ {"sched", "heap", "kp", "palloc"} \subseteq Locks
  BY OpsSeqs DEF Rank
<1>2. Block(kfreeLocks, 1) /\ Block(schedLocks, 6) /\ Block(pallocLocks, 3)
  BY <1>1, BlockOfLock DEF kfreeLocks, schedLocks, pallocLocks
<1>3. Block(pallocLocks, 1) /\ Block(pallocLocks, 2) /\ Block(Propagate, 1) /\ Block(Propagate, 3)
  <2>1. Block(pallocLocks, 1) /\ Block(pallocLocks, 2)
    BY <1>2, BlockHigher, SMTT(30)
  <2>2. Block(Propagate, 1) /\ Block(Propagate, 3)
    BY BlockOfPropagate, BlockHigher, SMTT(30)
  <2> QED BY <2>1, <2>2
<1>4. pallocLocks \in Seq(Ops) /\ Propagate \in Seq(Ops)
  BY <1>3 DEF Block
<1>5. Block(vmreserveLocks, 1)
  <2>1. Block(pallocLocks \o pallocLocks, 1)
    BY <1>3, BlockAfterBlock
  <2> QED BY <1>3, <2>1, BlockAfterBlock DEF vmreserveLocks
<1>6. Block(kp_mapLocks, 2)
  <2> DEFINE a == <<Acquire("kp")>>
             r == <<Release("kp")>>
  <2>1. Block(pallocLocks \o Propagate, 3)
    BY <1>2, <1>3, BlockAfterBlock
  <2>2. Block(a \o (pallocLocks \o Propagate) \o r, 2)
    <3>1. Rank("kp") + 1 = 3
      BY <1>1, SMTT(30)
    <3> QED BY <1>1, <2>1, <3>1, BlockInLock
  <2>3. a \in Seq(Ops)
    BY <1>1, OpsSeqs, SMTT(30)
  <2>4. a \o pallocLocks \o Propagate = a \o (pallocLocks \o Propagate)
    <3> HIDE DEF a
    <3> QED BY <1>4, <2>3, Assoc
  <2>5. kp_mapLocks = a \o pallocLocks \o Propagate \o r
    BY DEF kp_mapLocks
  <2> HIDE DEF a, r
  <2> QED BY <2>2, <2>4, <2>5
<1>7. Block(kallocLocks, 1)
  <2> DEFINE a == <<Acquire("heap")>>
             r == <<Release("heap")>>
  <2>1. Block(pallocLocks \o kp_mapLocks, 2)
    BY <1>3, <1>6, BlockAfterBlock
  <2>2. Block(a \o (pallocLocks \o kp_mapLocks) \o r, 1)
    <3>1. Rank("heap") + 1 = 2
      BY <1>1, SMTT(30)
    <3> QED BY <1>1, <2>1, <3>1, BlockInLock
  <2>3. a \in Seq(Ops) /\ kp_mapLocks \in Seq(Ops)
    BY <1>1, <1>6, OpsSeqs, SMTT(30) DEF Block
  <2>4. a \o pallocLocks \o kp_mapLocks = a \o (pallocLocks \o kp_mapLocks)
    <3> HIDE DEF a
    <3> QED BY <1>4, <2>3, Assoc
  <2>5. kallocLocks = a \o pallocLocks \o kp_mapLocks \o r
    BY DEF kallocLocks
  <2> HIDE DEF a, r
  <2> QED BY <2>2, <2>4, <2>5
<1> QED BY <1>2, <1>5, <1>7

(* Every routine of the kernel but the reaping takes its locks in the       *)
(* order.                                                                   *)
LEMMA RoutinesOrdered ==
  ASSUME NEW r \in {"kalloc", "kfree", "vmreserve", "notify", "user"}
  PROVE  Ordered(Routine(r)) /\ Held(Routine(r)) = {}
<1>1. ASSUME NEW u, NEW k, Block(u, k) PROVE Ordered(u) /\ Held(u) = {}
  <2>1. Ordered(u \o <<>>) /\ Held(u \o <<>>) = {}
    BY <1>1, NoneOrdered DEF Block
  <2>2. u \in Seq(Ops) /\ u \o <<>> = u
    BY <1>1, SMTT(30) DEF Block
  <2> QED BY <2>1, <2>2
<1>2. Ordered(userLocks) /\ Held(userLocks) = {}
  <2> DEFINE o == [op |-> "run", lock |-> "none"]
  <2>1. userLocks = <<o>> \o <<>> /\ o \in Ops /\ o.op = "run"
    BY SMTT(30) DEF userLocks, Ops
  <2>2. Len(userLocks) = 1 /\ userLocks[1] = o /\ Tail(userLocks) = <<>>
    BY SMTT(30) DEF userLocks
  <2>3. \A l \in Locks : o # Release(l)
    BY DEF Release
  <2>4. \A j \in 1..Len(userLocks) : userLocks[j] = o
    BY <2>2, SMTT(30)
  <2> HIDE DEF o
  <2>5. Held(userLocks) = {}
    BY <2>3, <2>4 DEF Held
  <2>6. InOrder(userLocks)
    BY NoneOrdered, <2>1, <2>2, <2>5 DEF InOrder
  <2> QED BY <2>1, <2>5, <2>6, NoneOrdered, OrderedCons
<1> QED BY <1>1, <1>2, RoutineBlocks DEF Routine

-----------------------------------------------------------------------------

(* A handler holds at most the lock of the scheduler.                       *)
LEMMA TopsHold ==
  /\ Ordered(schedLocks) /\ Held(schedLocks) = {} /\ Len(schedLocks) = 2 /\ schedLocks[1] = Acquire("sched")
  /\ Ordered(Tail(schedLocks)) /\ Held(Tail(schedLocks)) = {"sched"}
  /\ Len(Tail(schedLocks)) = 1 /\ Tail(schedLocks)[1] = Release("sched")
  /\ Tail(Tail(schedLocks)) = <<>>
<1>1. /\ Len(schedLocks) = 2 /\ schedLocks[1] = Acquire("sched") /\ Tail(schedLocks) = <<Release("sched")>>
      /\ schedLocks # <<>>
  BY SMTT(30) DEF schedLocks
<1>2. Len(Tail(schedLocks)) = 1 /\ Tail(schedLocks)[1] = Release("sched") /\ Tail(Tail(schedLocks)) = <<>>
  <2> DEFINE r == Release("sched")
  <2> HIDE DEF r
  <2>1. Len(<<r>>) = 1 /\ <<r>>[1] = r /\ Tail(<<r>>) = <<>>
    BY SMTT(30)
  <2> QED BY <1>1, <2>1 DEF r
<1>3. Ordered(schedLocks) /\ Held(schedLocks) = {}
  BY RoutinesOrdered DEF Routine
<1>4. InOrder(schedLocks) /\ Ordered(Tail(schedLocks))
  BY <1>1, <1>3, OrderedTail
<1>5. Held(Tail(schedLocks)) = {"sched"}
  BY <1>1, <1>3, <1>4, SMTT(30) DEF InOrder, Acquire
<1> QED BY <1>1, <1>2, <1>3, <1>4, <1>5

(* What a CPU has left to do keeps to the order.                            *)
Frames == {q \in Seq(Ops) : Ordered(q)}
Tops == {schedLocks, Tail(schedLocks), <<>>}

(* How often the frames of a CPU hold a lock.                               *)
One(b) == IF b THEN 1 ELSE 0
Count(c, l) == One(l \in Held(routine[c])) + One(l \in Held(handler[c]))

(* A lock belongs to the CPU whose frames hold it, as often as they do.     *)
HeldByFrames ==
  \A l \in Locks, c \in LockCPUs :
    IF holder[l].cpu = c THEN holder[l].num = Count(c, l) /\ holder[l].num > 0
    ELSE Count(c, l) = 0

(* At most the CPU that was asked last has an IPI, and none once it has     *)
(* answered or everyone has.                                                *)
AskedOne ==
  /\ pendingIpi \subseteq {ipi_target} \ {0}
  /\ ipi_received => pendingIpi = {}

LocksType ==
  /\ holder \in [Locks -> [cpu : LockCPUs \cup {0}, num : Int]]
  /\ \A l \in Locks : holder[l].cpu = 0 => holder[l].num = 0
  /\ routine \in [LockCPUs -> Frames] /\ handler \in [LockCPUs -> Tops]
  /\ ipi_received \in BOOLEAN

LocksInv == LocksType /\ HeldByFrames /\ AskedOne

(* What a handler has left to do is in order too.                           *)
LEMMA TopFrames == Tops \subseteq Frames /\ \A h \in Tops : h # <<>> => Tail(h) \in Tops
<1>1. Ordered(schedLocks) /\ Ordered(Tail(schedLocks)) /\ Tail(Tail(schedLocks)) = <<>> /\ Ordered(<<>>)
  BY TopsHold, NoneOrdered
<1>2. schedLocks \in Frames /\ Tail(schedLocks) \in Frames /\ <<>> \in Frames
  BY <1>1 DEF Frames, Ordered
<1> QED BY <1>1, <1>2 DEF Tops

(* Doing the first operation of what is left keeps it in order.             *)
LEMMA FrameSteps ==
  ASSUME NEW q \in Frames, q # <<>>
  PROVE  InOrder(q) /\ Tail(q) \in Frames /\ Head(q) = q[1]
<1>1. Ordered(q) /\ q \in Seq(Ops)
  BY DEF Frames
<1>2. InOrder(q) /\ Ordered(Tail(q))
  BY <1>1, OrderedTail
<1> QED BY <1>1, <1>2, SMTT(30) DEF Frames, Ordered

(* The operation a CPU has before it, and what it does to what its frames   *)
(* hold.                                                                    *)
Doing(c) == handler[c] # <<>> \/ routine[c] # <<>>

(* A CPU that goes on has one operation less to do; the others are where    *)
(* they were.                                                               *)
LEMMA Advanced ==
  ASSUME LocksType, NEW c \in LockCPUs, Doing(c), Advance(c)
  PROVE  /\ routine' \in [LockCPUs -> Frames] /\ handler' \in [LockCPUs -> Tops]
         /\ \A d \in LockCPUs, l \in Locks : d # c => Count(d, l)' = Count(d, l)
         /\ NextOp(c).op = "acquire" =>
              NextOp(c).lock \in Locks /\ \A l \in Locks : Count(c, l)' = Count(c, l) + One(l = NextOp(c).lock)
         /\ NextOp(c).op = "release" =>
              /\ NextOp(c).lock \in Locks /\ Count(c, NextOp(c).lock) > 0
              /\ \A l \in Locks : Count(c, l)' = Count(c, l) - One(l = NextOp(c).lock)
         /\ NextOp(c).op \in {"propagate", "run"} => \A l \in Locks : Count(c, l)' = Count(c, l)
<1>1. routine[c] \in Frames /\ handler[c] \in Tops /\ handler[c] \in Frames
  BY TopFrames DEF LocksType
<1> DEFINE Performed(o, q) ==
      /\ o.op = "acquire" =>
           o.lock \in Locks /\ \A l \in Locks : One(l \in Held(Tail(q))) = One(l \in Held(q)) + One(l = o.lock)
      /\ o.op = "release" =>
           /\ o.lock \in Locks /\ One(o.lock \in Held(q)) = 1
           /\ \A l \in Locks : One(l \in Held(Tail(q))) = One(l \in Held(q)) - One(l = o.lock)
      /\ o.op \in {"propagate", "run"} => \A l \in Locks : One(l \in Held(Tail(q))) = One(l \in Held(q))
<1>2. ASSUME NEW q \in Frames, q # <<>> PROVE Performed(Head(q), q)
  <2>1. InOrder(q) /\ Head(q) = q[1]
    BY <1>2, FrameSteps
  <2> QED BY <2>1, HeldLocks, SMTT(30) DEF InOrder, One
<1> HIDE DEF Performed
<1>3. \A q, l : One(l \in Held(q)) \in {0, 1}
  BY DEF One
<1>4. CASE InHandler(c)
  <2>1. /\ handler[c] # <<>> /\ NextOp(c) = Head(handler[c]) /\ routine' = routine
        /\ handler' = [handler EXCEPT ![c] = Tail(handler[c])]
    BY <1>4 DEF InHandler, NextOp, Advance
  <2>2. /\ handler' \in [LockCPUs -> Tops] /\ routine' \in [LockCPUs -> Frames]
        /\ handler'[c] = Tail(handler[c]) /\ \A d \in LockCPUs : d # c => handler'[d] = handler[d]
    BY <1>1, <2>1, TopFrames DEF LocksType
  <2>3. Performed(NextOp(c), handler[c])
    BY <1>1, <1>2, <2>1
  <2>4. \A d \in LockCPUs, l \in Locks : d # c => Count(d, l)' = Count(d, l)
    BY <2>1, <2>2 DEF Count
  <2>5. \A l \in Locks : /\ Count(c, l) = One(l \in Held(routine[c])) + One(l \in Held(handler[c]))
                         /\ Count(c, l)' = One(l \in Held(routine[c])) + One(l \in Held(Tail(handler[c])))
    BY <2>1, <2>2 DEF Count
  <2>6. NextOp(c).op = "acquire" =>
          NextOp(c).lock \in Locks /\ \A l \in Locks : Count(c, l)' = Count(c, l) + One(l = NextOp(c).lock)
    BY <1>3, <2>3, <2>5, SMTT(30) DEF Performed, One
  <2>7. NextOp(c).op = "release" =>
          /\ NextOp(c).lock \in Locks /\ Count(c, NextOp(c).lock) > 0
          /\ \A l \in Locks : Count(c, l)' = Count(c, l) - One(l = NextOp(c).lock)
    BY <1>3, <2>3, <2>5, SMTT(30) DEF Performed, One
  <2>8. NextOp(c).op \in {"propagate", "run"} => \A l \in Locks : Count(c, l)' = Count(c, l)
    BY <1>3, <2>3, <2>5, SMTT(30) DEF Performed
  <2> QED BY <2>2, <2>4, <2>6, <2>7, <2>8
<1>5. CASE ~InHandler(c)
  <2>1. /\ routine[c] # <<>> /\ NextOp(c) = Head(routine[c]) /\ handler' = handler
        /\ routine' = [routine EXCEPT ![c] = Tail(routine[c])]
    BY <1>5 DEF InHandler, NextOp, Advance, Doing
  <2>2. /\ handler' \in [LockCPUs -> Tops] /\ routine' \in [LockCPUs -> Frames]
        /\ routine'[c] = Tail(routine[c]) /\ \A d \in LockCPUs : d # c => routine'[d] = routine[d]
    BY <1>1, <2>1, FrameSteps DEF LocksType
  <2>3. Performed(NextOp(c), routine[c])
    BY <1>1, <1>2, <2>1
  <2>4. \A d \in LockCPUs, l \in Locks : d # c => Count(d, l)' = Count(d, l)
    BY <2>1, <2>2 DEF Count
  <2>5. \A l \in Locks : /\ Count(c, l) = One(l \in Held(routine[c])) + One(l \in Held(handler[c]))
                         /\ Count(c, l)' = One(l \in Held(Tail(routine[c]))) + One(l \in Held(handler[c]))
    BY <2>1, <2>2 DEF Count
  <2>6. NextOp(c).op = "acquire" =>
          NextOp(c).lock \in Locks /\ \A l \in Locks : Count(c, l)' = Count(c, l) + One(l = NextOp(c).lock)
    BY <1>3, <2>3, <2>5, SMTT(30) DEF Performed, One
  <2>7. NextOp(c).op = "release" =>
          /\ NextOp(c).lock \in Locks /\ Count(c, NextOp(c).lock) > 0
          /\ \A l \in Locks : Count(c, l)' = Count(c, l) - One(l = NextOp(c).lock)
    BY <1>3, <2>3, <2>5, SMTT(30) DEF Performed, One
  <2>8. NextOp(c).op \in {"propagate", "run"} => \A l \in Locks : Count(c, l)' = Count(c, l)
    BY <1>3, <2>3, <2>5, SMTT(30) DEF Performed
  <2> QED BY <2>2, <2>4, <2>6, <2>7, <2>8
<1> QED BY <1>4, <1>5

(* How often a CPU can hold a lock, over routine and handler.               *)
LEMMA CountIs == \A c, l : Count(c, l) \in {0, 1, 2}
  BY SMTT(30) DEF Count, One

(* At first nobody holds or does anything.                                  *)
LEMMA LocksInitInv == LocksInit => LocksInv
<1> SUFFICES ASSUME LocksInit PROVE LocksInv
  OBVIOUS
<1>1. <<>> \in Frames /\ <<>> \in Tops /\ Held(<<>>) = {}
  BY NoneOrdered, SMTT(30) DEF Frames, Tops
<1>2. \A c \in LockCPUs : routine[c] = <<>> /\ handler[c] = <<>> /\ c # 0
  BY KernelLocksAssumption DEF LocksInit
<1>3. \A l \in Locks : holder[l] = [cpu |-> 0, num |-> 0]
  BY DEF LocksInit
<1>4. \A c \in LockCPUs, l \in Locks : Count(c, l) = 0
  BY <1>1, <1>2, SMTT(30) DEF Count, One
<1>5. \A l \in Locks : holder[l].cpu = 0 /\ holder[l].num = 0
  BY <1>3, SMTT(30)
<1>6. LocksType
  <2>1. holder \in [Locks -> [cpu : LockCPUs \cup {0}, num : Int]]
    BY SMTT(30) DEF LocksInit
  <2> QED BY <1>1, <1>5, <2>1 DEF LocksInit, LocksType
<1>8. HeldByFrames
  BY <1>2, <1>4, <1>5 DEF HeldByFrames
<1>7. AskedOne
  BY DEF LocksInit, AskedOne
<1> QED BY <1>6, <1>7, <1>8 DEF LocksInv

(* cpu_spinlock_acquire, when the lock is free or this CPU's own.           *)
LEMMA AcquireInv ==
  ASSUME LocksInv, NEW c \in LockCPUs, AcquireLock(c) PROVE LocksInv'
<1> DEFINE l == NextOp(c).lock
<1>1. LocksType /\ HeldByFrames /\ AskedOne /\ Advance(c) /\ NextOp(c).op = "acquire" /\ c # 0
  BY KernelLocksAssumption DEF LocksInv, AcquireLock
<1>2. Doing(c)
  BY <1>1 DEF NextOp, InHandler, Doing
<1>3. /\ routine' \in [LockCPUs -> Frames] /\ handler' \in [LockCPUs -> Tops] /\ l \in Locks
      /\ \A d \in LockCPUs, m \in Locks : d # c => Count(d, m)' = Count(d, m)
      /\ \A m \in Locks : Count(c, m)' = Count(c, m) + One(m = l)
  BY <1>1, <1>2, Advanced
<1> HIDE DEF l
<1>4. /\ holder[l].cpu \in {0, c}
      /\ holder' = [holder EXCEPT ![l] = [cpu |-> c, num |-> holder[l].num + 1]]
      /\ UNCHANGED <<pendingIpi, ipi_target, ipi_received>>
  BY DEF AcquireLock, l
<1>5. /\ \A m \in Locks : m # l => holder'[m] = holder[m]
      /\ holder'[l].cpu = c /\ holder'[l].num = holder[l].num + 1
      /\ holder' \in [Locks -> [cpu : LockCPUs \cup {0}, num : Int]]
  BY <1>1, <1>3, <1>4, SMTT(30) DEF LocksType
<1>6. LocksType'
  BY <1>1, <1>3, <1>4, <1>5 DEF LocksType
<1>7. HeldByFrames'
  <2>1. ASSUME NEW m \in Locks, NEW d \in LockCPUs
        PROVE  IF holder'[m].cpu = d THEN holder'[m].num = Count(d, m)' /\ holder'[m].num > 0
               ELSE Count(d, m)' = 0
    <3>1. CASE m # l
      BY <1>1, <1>3, <1>5, <3>1, CountIs, SMTT(30) DEF HeldByFrames, One
    <3>2. CASE m = l /\ d = c
      <4>1. holder[l].num = Count(c, l)
        BY <1>1, <1>3, <1>4, CountIs DEF HeldByFrames, LocksType
      <4> QED BY <1>3, <1>5, <3>2, <4>1, CountIs, SMTT(30) DEF One
    <3>3. CASE m = l /\ d # c
      <4>1. holder[l].cpu # d
        BY <1>4, <3>3, KernelLocksAssumption
      <4> QED BY <1>1, <1>3, <1>5, <3>3, <4>1, SMTT(30) DEF HeldByFrames
    <3> QED BY <3>1, <3>2, <3>3
  <2> QED BY <2>1 DEF HeldByFrames
<1>8. AskedOne'
  BY <1>1, <1>4 DEF AskedOne
<1> QED BY <1>6, <1>7, <1>8 DEF LocksInv

(* cpu_spinlock_release, which gives the lock up with the last of its       *)
(* acquires.                                                                *)
LEMMA ReleaseInv ==
  ASSUME LocksInv, NEW c \in LockCPUs, ReleaseLock(c) PROVE LocksInv'
<1> DEFINE l == NextOp(c).lock
<1>1. LocksType /\ HeldByFrames /\ AskedOne /\ Advance(c) /\ NextOp(c).op = "release" /\ c # 0
  BY KernelLocksAssumption DEF LocksInv, ReleaseLock
<1>2. Doing(c)
  BY <1>1 DEF NextOp, InHandler, Doing
<1>3. /\ routine' \in [LockCPUs -> Frames] /\ handler' \in [LockCPUs -> Tops] /\ l \in Locks
      /\ \A d \in LockCPUs, m \in Locks : d # c => Count(d, m)' = Count(d, m)
      /\ Count(c, l) > 0 /\ \A m \in Locks : Count(c, m)' = Count(c, m) - One(m = l)
  BY <1>1, <1>2, Advanced
<1> HIDE DEF l
<1>4. /\ holder' = [holder EXCEPT ![l] = [cpu |-> IF holder[l].num = 1 THEN 0 ELSE c,
                                          num |-> holder[l].num - 1]]
      /\ UNCHANGED <<pendingIpi, ipi_target, ipi_received>>
  BY DEF ReleaseLock, l
<1>5. holder[l].cpu = c /\ holder[l].num = Count(c, l)
  BY <1>1, <1>3, SMTT(30) DEF HeldByFrames
<1>6. /\ \A m \in Locks : m # l => holder'[m] = holder[m]
      /\ holder'[l].cpu = IF holder[l].num = 1 THEN 0 ELSE c
      /\ holder'[l].num = holder[l].num - 1
      /\ holder' \in [Locks -> [cpu : LockCPUs \cup {0}, num : Int]]
  BY <1>1, <1>3, <1>4, SMTT(30) DEF LocksType
<1>7. LocksType'
  BY <1>1, <1>3, <1>4, <1>5, <1>6, SMTT(30) DEF LocksType
<1>8. HeldByFrames'
  <2>1. ASSUME NEW m \in Locks, NEW d \in LockCPUs
        PROVE  IF holder'[m].cpu = d THEN holder'[m].num = Count(d, m)' /\ holder'[m].num > 0
               ELSE Count(d, m)' = 0
    <3>1. CASE m # l
      BY <1>1, <1>3, <1>6, <3>1, CountIs, SMTT(30) DEF HeldByFrames, One
    <3>2. CASE m = l /\ d = c
      BY <1>1, <1>3, <1>5, <1>6, <3>2, CountIs, SMTT(30) DEF One
    <3>3. CASE m = l /\ d # c
      <4>1. holder'[l].cpu # d /\ holder[l].cpu # d
        BY <1>5, <1>6, <3>3, KernelLocksAssumption
      <4> QED BY <1>1, <1>3, <3>3, <4>1, SMTT(30) DEF HeldByFrames
    <3> QED BY <3>1, <3>2, <3>3
  <2> QED BY <2>1 DEF HeldByFrames
<1>9. AskedOne'
  BY <1>1, <1>4 DEF AskedOne
<1> QED BY <1>7, <1>8, <1>9 DEF LocksInv

(* Steps that leave the locks alone.                                        *)
LEMMA CallInv ==
  ASSUME NothingReaped, LocksInv, NEW c \in LockCPUs, NEW r \in Routines, Call(c, r) PROVE LocksInv'
<1>1. LocksType /\ HeldByFrames /\ AskedOne /\ routine[c] = <<>>
  BY DEF LocksInv, Call
<1>2. Ordered(Routine(r)) /\ Held(Routine(r)) = {} /\ Routine(r) \in Frames
  <2>1. Ordered(Routine(r)) /\ Held(Routine(r)) = {}
    BY RoutinesOrdered DEF NothingReaped
  <2> QED BY <2>1 DEF Frames, Ordered
<1>3. /\ routine' \in [LockCPUs -> Frames] /\ routine'[c] = Routine(r)
      /\ \A d \in LockCPUs : d # c => routine'[d] = routine[d]
      /\ UNCHANGED <<holder, handler, pendingIpi, ipi_target, ipi_received>>
  BY <1>1, <1>2 DEF Call, LocksType
<1>4. \A d \in LockCPUs, m \in Locks : Count(d, m)' = Count(d, m)
  <2>1. Held(routine[c]) = {}
    BY <1>1, NoneOrdered
  <2> QED BY <1>2, <1>3, <2>1 DEF Count
<1>5. HeldByFrames'
  BY <1>1, <1>3, <1>4, SMTT(30) DEF HeldByFrames
<1>6. LocksType' /\ AskedOne'
  BY <1>1, <1>3 DEF LocksType, AskedOne
<1> QED BY <1>5, <1>6 DEF LocksInv

(* An interrupt starts a handler on top of the routine.                     *)
LEMMA HandlerInv ==
  ASSUME LocksInv, NEW c \in LockCPUs, NEW h, generic_interrupt_handler(c, h) PROVE LocksInv'
<1>1. LocksType /\ HeldByFrames /\ AskedOne /\ handler[c] = <<>>
  BY DEF LocksInv, generic_interrupt_handler, InHandler
<1>2. /\ handler' \in [LockCPUs -> Tops] /\ handler'[c] = schedLocks
      /\ \A d \in LockCPUs : d # c => handler'[d] = handler[d]
      /\ UNCHANGED <<holder, routine, pendingIpi, ipi_target, ipi_received>>
  BY <1>1 DEF generic_interrupt_handler, LocksType, Handler, Tops
<1>3. \A d \in LockCPUs, m \in Locks : Count(d, m)' = Count(d, m)
  <2>1. Held(handler[c]) = {} /\ Held(schedLocks) = {}
    BY <1>1, NoneOrdered, TopsHold
  <2> QED BY <1>2, <2>1 DEF Count
<1>4. HeldByFrames'
  BY <1>1, <1>2, <1>3, SMTT(30) DEF HeldByFrames
<1>5. LocksType' /\ AskedOne'
  BY <1>1, <1>2 DEF LocksType, AskedOne
<1> QED BY <1>4, <1>5 DEF LocksInv

(* A handler that has nothing to take is done at once.                      *)
LEMMA RunInv ==
  ASSUME LocksInv, NEW c \in LockCPUs, RunUnlocked(c) PROVE LocksInv'
<1>1. LocksType /\ HeldByFrames /\ AskedOne /\ NextOp(c).op = "run" /\ Advance(c)
  BY DEF LocksInv, RunUnlocked
<1>2. Doing(c)
  BY <1>1 DEF NextOp, InHandler, Doing
<1>3. /\ routine' \in [LockCPUs -> Frames] /\ handler' \in [LockCPUs -> Tops]
      /\ \A d \in LockCPUs, m \in Locks : Count(d, m)' = Count(d, m)
  BY <1>1, <1>2, Advanced
<1>4. UNCHANGED <<holder, pendingIpi, ipi_target, ipi_received>>
  BY DEF RunUnlocked
<1>5. HeldByFrames'
  BY <1>1, <1>3, <1>4, SMTT(30) DEF HeldByFrames
<1>6. LocksType' /\ AskedOne'
  BY <1>1, <1>3, <1>4 DEF LocksType, AskedOne
<1> QED BY <1>5, <1>6 DEF LocksInv

(* The calling CPU, and the one that acknowledges.                          *)
LEMMA PropagateInv ==
  ASSUME LocksInv, NEW c \in LockCPUs, unsafe_propagate_to_cpu(c) PROVE LocksInv'
<1> DEFINE rest == OthersAfter(c, ipi_target)
<1>1. /\ LocksType /\ HeldByFrames /\ AskedOne /\ NextOp(c).op = "propagate"
      /\ ipi_target = 0 \/ ipi_received
  BY DEF LocksInv, unsafe_propagate_to_cpu
<1>2. pendingIpi = {} /\ holder' = holder
  BY <1>1 DEF AskedOne, unsafe_propagate_to_cpu
<1>3. Doing(c)
  BY <1>1 DEF NextOp, InHandler, Doing
<1>4. CASE rest # {}
  <2>1. /\ ipi_target' = LowestOf(rest) /\ ipi_received' = FALSE /\ pendingIpi' = {LowestOf(rest)}
        /\ UNCHANGED <<routine, handler>>
    BY <1>2, <1>4 DEF unsafe_propagate_to_cpu
  <2>2. rest \in SUBSET Nat /\ 0 \notin rest
    BY KernelLocksAssumption DEF OthersAfter
  <2>3. LowestOf(rest) \in rest
    <3> HIDE DEF rest
    <3>1. PICK n \in rest : \A m \in rest : n <= m
      BY <1>4, <2>2, LeastNatural
    <3> QED BY <3>1 DEF LowestOf
  <2>4. LocksType' /\ HeldByFrames' /\ AskedOne'
    <3> HIDE DEF rest
    <3>1. AskedOne'
      BY <2>1, <2>2, <2>3 DEF AskedOne
    <3>2. LocksType'
      BY <1>1, <1>2, <2>1 DEF LocksType
    <3>3. HeldByFrames'
      BY <1>1, <1>2, <2>1 DEF HeldByFrames, Count
    <3> QED BY <3>1, <3>2, <3>3
  <2> QED BY <2>4 DEF LocksInv
<1>5. CASE rest = {}
  <2>1. Advance(c) /\ ipi_target' = 0 /\ UNCHANGED <<pendingIpi, ipi_received>>
    BY <1>5 DEF unsafe_propagate_to_cpu
  <2>2. /\ routine' \in [LockCPUs -> Frames] /\ handler' \in [LockCPUs -> Tops]
        /\ \A d \in LockCPUs, m \in Locks : Count(d, m)' = Count(d, m)
    BY <1>1, <1>3, <2>1, Advanced, SMTT(30)
  <2>3. HeldByFrames'
    BY <1>1, <1>2, <2>2, SMTT(30) DEF HeldByFrames
  <2>4. LocksType' /\ AskedOne'
    BY <1>1, <1>2, <2>1, <2>2 DEF LocksType, AskedOne
  <2> QED BY <2>3, <2>4 DEF LocksInv
<1> QED BY <1>4, <1>5

(* Every step keeps the invariant.                                          *)
LEMMA LocksNextInv == NothingReaped /\ LocksInv /\ [LocksNext]_lockVars => LocksInv'
<1> SUFFICES ASSUME NothingReaped, LocksInv, [LocksNext]_lockVars PROVE LocksInv'
  OBVIOUS
<1>1. ASSUME NEW c \in LockCPUs, ipi_flush_tlb_handler(c) PROVE LocksInv'
  <2>1. LocksType' /\ AskedOne'
    BY <1>1 DEF ipi_flush_tlb_handler, LocksInv, LocksType, AskedOne
  <2>2. HeldByFrames'
    BY <1>1 DEF ipi_flush_tlb_handler, LocksInv, HeldByFrames, Count
  <2> QED BY <2>1, <2>2 DEF LocksInv
<1>2. CASE UNCHANGED lockVars
  <2>1. LocksType' /\ AskedOne'
    BY <1>2 DEF lockVars, LocksInv, LocksType, AskedOne
  <2>2. HeldByFrames'
    BY <1>2 DEF lockVars, LocksInv, HeldByFrames, Count
  <2> QED BY <2>1, <2>2 DEF LocksInv
<1> QED
  BY <1>1, <1>2, CallInv, RunInv, AcquireInv, ReleaseInv, PropagateInv, HandlerInv DEF LocksNext

(* While no thread is reaped: the call in progress is acknowledged by the   *)
(* CPU it was sent to, and by no other (ipi_flush_tlb_handler).             *)
THEOREM AcknowledgeCorrect == ASSUME NothingReaped PROVE LocksSpec => []AcknowledgedByTarget
<1>1. LocksSpec => []LocksInv
  BY LocksInitInv, LocksNextInv, PTL DEF LocksSpec
<1>2. LocksInv => AcknowledgedByTarget
  BY DEF LocksInv, AskedOne, AcknowledgedByTarget
<1> QED BY <1>1, <1>2, PTL

-----------------------------------------------------------------------------

(* What a CPU that waits is at: its place in the order of the locks.        *)
WaitRank(c) == IF NextOp(c).op = "propagate" THEN 5 ELSE Rank(NextOp(c).lock)

(* What a CPU that waits is about to do, and in which of its two places.    *)
LEMMA NextOpCases ==
  ASSUME LocksType, NEW c \in LockCPUs, NextOp(c).op \in {"acquire", "propagate"}
  PROVE  \/ /\ handler[c] = schedLocks /\ InHandler(c) /\ NextOp(c) = Acquire("sched")
            /\ Held(handler[c]) = {}
         \/ /\ handler[c] = <<>> /\ ~InHandler(c) /\ InOrder(routine[c]) /\ NextOp(c) = routine[c][1]
            /\ Held(handler[c]) = {}
<1>1. routine[c] \in Frames /\ handler[c] \in Tops
  BY DEF LocksType
<1>2. CASE InHandler(c)
  <2>1. handler[c] \in Frames /\ handler[c] # <<>> /\ NextOp(c) = handler[c][1]
    BY <1>1, <1>2, TopFrames, FrameSteps DEF InHandler, NextOp
  <2>2. handler[c] # Tail(schedLocks)
    BY <2>1, TopsHold, SMTT(30) DEF Release
  <2> QED BY <1>1, <1>2, <2>1, <2>2, TopsHold DEF Tops
<1>3. CASE ~InHandler(c)
  <2>1. handler[c] = <<>> /\ routine[c] # <<>> /\ NextOp(c) = Head(routine[c])
    BY <1>3 DEF InHandler, NextOp
  <2> QED BY <1>1, <1>3, <2>1, FrameSteps, NoneOrdered
<1> QED BY <1>2, <1>3

(* A CPU that another one waits for waits itself only for something higher. *)
LEMMA WaitsUp ==
  ASSUME LocksInv, NEW c \in LockCPUs, NEW d \in LockCPUs, NEW e, WaitsFor(c, d), WaitsFor(d, e)
  PROVE  WaitRank(c) < WaitRank(d)
<1>1. LocksType /\ HeldByFrames
  BY DEF LocksInv
<1>2. NextOp(c).op \in {"acquire", "propagate"} /\ NextOp(d).op \in {"acquire", "propagate"}
  BY DEF WaitsFor
<1>3. Acquire("sched").op = "acquire" /\ Acquire("sched").lock = "sched" /\ Rank("sched") = 6
  BY DEF Acquire, Rank
<1>4. CASE NextOp(c).op = "propagate"
  <2>1. InHandler(d) /\ WaitRank(c) = 5
    BY <1>4 DEF WaitsFor, WaitRank
  <2>2. NextOp(d) = Acquire("sched")
    BY <1>1, <1>2, <2>1, NextOpCases
  <2> QED BY <1>3, <2>1, <2>2, SMTT(30) DEF WaitRank
<1>5. CASE NextOp(c).op = "acquire"
  <2> DEFINE l == NextOp(c).lock
  <2>1. holder[l].cpu = d /\ WaitRank(c) = Rank(l)
    BY <1>5 DEF WaitsFor, WaitRank
  <2>2. l \in Locks
    <3>1. InOrder(routine[c]) /\ NextOp(c) = routine[c][1] => l \in Locks
      BY <1>5 DEF InOrder
    <3>2. "sched" \in Locks
      BY DEF Locks
    <3> QED BY <1>1, <1>2, <1>3, <3>1, <3>2, NextOpCases
  <2> HIDE DEF l
  <2>3. Rank(l) \in {1, 2, 3, 4, 6}
    BY <2>2, RankIs
  <2>4. Count(d, l) > 0
    BY <1>1, <2>1, <2>2 DEF HeldByFrames
  <2>5. l \in Held(routine[d])
    <3>1. Held(handler[d]) = {}
      BY <1>1, <1>2, NextOpCases
    <3> QED BY <2>4, <3>1, SMTT(30) DEF Count, One
  <2>6. CASE NextOp(d) = Acquire("sched") /\ InHandler(d)
    <3>1. l # "sched"
      <4>1. holder["sched"].cpu # d
        BY <1>3, <2>6 DEF WaitsFor
      <4> QED BY <2>1, <4>1
    <3>2. Rank(l) # 6
      BY <2>2, <3>1, SMTT(30) DEF Locks, Rank
    <3>3. WaitRank(d) = 6
      BY <1>3, <2>6 DEF WaitRank
    <3> QED BY <2>1, <2>3, <3>2, <3>3, SMTT(30)
  <2>7. CASE InOrder(routine[d]) /\ NextOp(d) = routine[d][1]
    BY <1>2, <2>1, <2>5, <2>7 DEF InOrder, WaitRank
  <2> QED BY <1>1, <1>2, <2>6, <2>7, NextOpCases
<1> QED BY <1>2, <1>4, <1>5

(* A CPU that waits has a rank.                                             *)
LEMMA WaitRankIs ==
  ASSUME LocksInv, NEW c \in LockCPUs, NEW d, WaitsFor(c, d)
  PROVE  WaitRank(c) \in 1..6
<1>1. LocksType /\ NextOp(c).op \in {"acquire", "propagate"}
  BY DEF LocksInv, WaitsFor
<1>2. NextOp(c).op = "acquire" => NextOp(c).lock \in Locks
  <2>1. InOrder(routine[c]) /\ NextOp(c) = routine[c][1] /\ NextOp(c).op = "acquire" => NextOp(c).lock \in Locks
    BY DEF InOrder
  <2>2. Acquire("sched").lock \in Locks
    BY DEF Locks, Acquire
  <2> QED BY <1>1, <2>1, <2>2, NextOpCases
<1> QED BY <1>1, <1>2, RankIs, SMTT(30) DEF WaitRank

(* While no thread is reaped, CPUs never wait for each other in a circle,   *)
(* for the locks of heap, pages and scheduler or for an acknowledgement:    *)
(* each waits for one that is further on in the order.                      *)
THEOREM NoDeadlock == ASSUME NothingReaped PROVE LocksSpec => []NoCircularWait
<1>1. LocksSpec => []LocksInv
  BY LocksInitInv, LocksNextInv, PTL DEF LocksSpec
<1>2. LocksInv => NoCircularWait
  <2> SUFFICES ASSUME LocksInv, NEW S \in SUBSET LockCPUs, S # {},
                      \A c \in S : \E d \in S : WaitsFor(c, d)
               PROVE  FALSE
    BY DEF NoCircularWait
  <2> DEFINE T == {6 - WaitRank(c) : c \in S}
  <2>1. \A c \in S : WaitRank(c) \in 1..6
    BY WaitRankIs
  <2>2. T \in SUBSET Nat /\ T # {}
    BY <2>1, SMTT(30)
  <2> HIDE DEF T
  <2>3. PICK n \in T : \A m \in T : n <= m
    BY <2>2, LeastNatural
  <2>4. PICK c \in S : n = 6 - WaitRank(c)
    BY DEF T
  <2>5. PICK d \in S : WaitsFor(c, d)
    OBVIOUS
  <2>6. PICK e \in S : WaitsFor(d, e)
    OBVIOUS
  <2>7. WaitRank(c) < WaitRank(d)
    BY <2>5, <2>6, WaitsUp
  <2>8. 6 - WaitRank(d) \in T
    BY DEF T
  <2> QED BY <2>1, <2>3, <2>4, <2>7, <2>8, SMTT(30)
<1> QED BY <1>1, <1>2, PTL

==============================================================================
