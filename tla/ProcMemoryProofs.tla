--------------------------- MODULE ProcMemoryProofs ---------------------------
(***************************************************************************)
(* Proofs about ProcMemory, for any number of processes and frames and any *)
(* size of the tables: first what a change of a directory or a table does  *)
(* to the pages of every process, then the inductive invariant.            *)
(***************************************************************************)
EXTENDS ProcMemory, TLAPS

\* The time the provers have for a step.
USE ZenonT(60)

(* What \div and % compute.                                                 *)
LEMMA DivMod ==
  ASSUME NEW x \in Nat, NEW a \in Nat \ {0}
  PROVE  x % a \in 0..(a - 1) /\ x \div a \in Nat /\ x = a * (x \div a) + (x % a)
BY SMTT(30)

(* No multiple of y but 0 is below y.                                       *)
LEMMA NoMultiple ==
  ASSUME NEW y \in Nat \ {0}, NEW q \in Int, NEW z \in 0..(y - 1), y * q = z
  PROVE  z = 0
<1>1. CASE q = 0
  BY <1>1, SMTT(30)
<1>2. CASE q >= 1
  <2>1. y * q >= y
    BY <1>2, SMTT(30)
  <2> QED BY <2>1, SMTT(30)
<1>3. CASE q <= -1
  <2>1. y * q <= -y
    BY <1>3, SMTT(30)
  <2> QED BY <2>1, SMTT(30)
<1> QED BY <1>1, <1>2, <1>3, SMTT(30)

(* Division is monotone.                                                    *)
LEMMA DivGrows ==
  ASSUME NEW x \in Nat, NEW y \in Nat, x <= y, NEW p \in Nat \ {0}
  PROVE  x \div p <= y \div p
<1> DEFINE d == x \div p
           e == y \div p
           m == x % p
           n == y % p
<1>1. x = p * d + m /\ d \in Nat /\ m \in 0..(p-1)
  BY DivMod
<1>2. y = p * e + n /\ e \in Nat /\ n \in 0..(p-1)
  BY DivMod
<1> HIDE DEF d, e, m, n
<1>3. ASSUME e < d PROVE FALSE
  <2>1. d - e >= 1 /\ d - e \in Int
    BY <1>1, <1>2, <1>3, SMTT(30)
  <2>2. p * (d - e) >= p
    BY <2>1, SMTT(30)
  <2>3. p * (d - e) = p * d - p * e
    BY <1>1, <1>2, SMTT(30)
  <2> QED BY <1>1, <1>2, <2>2, <2>3, SMTT(30)
<1>4. d <= e
  BY <1>1, <1>2, <1>3, SMTT(30)
<1> QED BY <1>4 DEF d, e

AllPages == 0..(Entries * Entries - 1)
Ent == [frame : Frames, present : BOOLEAN]

MemType ==
  /\ freeFrames \subseteq 1..NofFrames /\ pd \in [Procs -> Frames]
  /\ dir \in [Frames -> [Index -> Ent]] /\ table \in [Frames -> [Index -> Ent]]
  /\ content \in [Frames -> [Offsets -> Values]]
  /\ vfrom \in [Procs -> Nat] /\ vto \in [Procs -> Nat]
  /\ vbreak \in [Procs -> Nat] /\ cur_vbreak \in [Procs -> Nat]
  /\ brkJob \in [Procs -> [v : Nat, page : Nat]]
  /\ forkJob \in [Procs -> [child : SUBSET Procs, page : Nat]]
  /\ failed \in BOOLEAN /\ writes \in Nat
  /\ expected \in [Procs -> [UserPages -> [Offsets -> Values]]]

(* The frame behind a page of a process, 0 if there is none.                *)
PageFrame(p, page) == FrameAt(p, DirIndex(page), TableIndex(page))

(* A frame is free or in one place; none is lost unless memory runs out.    *)
Owning ==
  /\ \A p \in Procs, d, t \in Slots : FrameAt(p, d, t) \notin freeFrames
  /\ \A p, q \in Procs, d, e, t, u \in Slots :
       FrameAt(p, d, t) # 0 /\ FrameAt(p, d, t) = FrameAt(q, e, u) => p = q /\ d = e /\ t = u
  /\ ~failed => \A f \in (1..NofFrames) \ freeFrames :
       \E p \in Procs, d, t \in Slots : FrameAt(p, d, t) = f

(* An entry with a frame is present, one without only when memory has run   *)
(* out; free frames are clear.                                              *)
Rows ==
  /\ \A f \in Frames, i \in Index :
       /\ dir[f][i].frame # 0 => dir[f][i].present
       /\ table[f][i].frame # 0 => table[f][i].present
       /\ f \in freeFrames => table[f][i] = Absent
       /\ ~failed /\ i \notin KernelDirs /\ dir[f][i].present => dir[f][i].frame # 0
       /\ ~failed /\ table[f][i].present => table[f][i].frame # 0
  /\ failed => freeFrames = {}

(* The child has copies of the pages of its parent up to the next one.      *)
Copied(p, q, k) ==
  /\ \A d \in Index : d * Entries >= k => FrameAt(q, d, -1) = 0
  /\ \A page \in AllPages : PageFrame(q, page) # 0 => page < k /\ PageFrame(p, page) # 0
  /\ ~failed =>
       /\ \A d \in Index : d * Entries < k /\ FrameAt(p, d, -1) # 0 => FrameAt(q, d, -1) # 0
       /\ \A page \in AllPages : page < k /\ PageFrame(p, page) # 0 => PageFrame(q, page) # 0
       /\ \A page \in UserPages :
            PageFrame(q, page) # 0 => content[PageFrame(q, page)] = expected[p][page]

(* Quotient and remainder are unique.                                       *)
LEMMA SplitUnique ==
  ASSUME NEW a \in Nat \ {0}, NEW d \in Nat, NEW e \in Nat,
         NEW r \in 0..(a - 1), NEW s \in 0..(a - 1), a * d + r = a * e + s
  PROVE  d = e /\ r = s
<1>1. PICK k \in Int : k = d - e
  BY SMTT(30)
<1>2. a * k = a * d - a * e
  BY <1>1, SMTT(30)
<1>3. a * (-k) = a * e - a * d
  BY <1>1, SMTT(30)
<1>4. r = s
  <2>1. CASE s >= r
    <3>1. s - r \in 0..(a - 1) /\ a * k = s - r
      BY <1>2, <2>1, SMTT(30)
    <3>2. s - r = 0
      BY <3>1, NoMultiple
    <3> QED BY <3>2, SMTT(30)
  <2>2. CASE s < r
    <3>1. r - s \in 0..(a - 1) /\ a * (-k) = r - s /\ -k \in Int
      BY <1>3, <2>2, SMTT(30)
    <3>2. r - s = 0
      BY <3>1, NoMultiple
    <3> QED BY <3>2, SMTT(30)
  <2> QED BY <2>1, <2>2, SMTT(30)
<1>5. a * k = 0
  BY <1>2, <1>4, SMTT(30)
<1>6. k = 0
  BY <1>5, SMTT(30)
<1> QED BY <1>1, <1>4, <1>6, SMTT(30)

-----------------------------------------------------------------------------

(* The constants, one by one.                                               *)
LEMMA MemConstants ==
  /\ NofFrames \in Nat \ {0} /\ Entries \in Nat \ {0} /\ BytesPerPage \in Nat \ {0}
  /\ KernelDirs \subseteq Index /\ Zero \in Values /\ LoadPages \subseteq UserPages
  /\ UserPages \subseteq AllPages /\ AllPages \subseteq Nat /\ Entries * Entries \in Nat \ {0}
  BY ProcMemoryAssumption, SMTT(30) DEF Index, UserPages, AllPages

(* A page is an entry of a directory and one of a table.                    *)
LEMMA PageIndexes ==
  ASSUME NEW page \in AllPages
  PROVE  /\ DirIndex(page) \in Index /\ TableIndex(page) \in Index
         /\ page = Entries * DirIndex(page) + TableIndex(page)
<1> DEFINE d == page \div Entries
           t == page % Entries
<1>1. page \in Nat /\ Entries \in Nat \ {0} /\ page < Entries * Entries
  BY MemConstants, SMTT(30) DEF AllPages
<1>2. t \in 0..(Entries - 1) /\ d \in Nat /\ page = Entries * d + t
  BY <1>1, DivMod
<1> HIDE DEF d, t
<1>3. d < Entries
  <2> SUFFICES ASSUME d >= Entries PROVE FALSE
    BY <1>1, <1>2, SMTT(30)
  <2>1. Entries * d >= Entries * Entries
    BY <1>1, <1>2, SMTT(30)
  <2> QED BY <1>1, <1>2, <2>1, SMTT(30)
<1>4. d \in Index /\ t \in Index
  BY <1>1, <1>2, <1>3, SMTT(30) DEF Index
<1> QED BY <1>2, <1>4 DEF d, t, DirIndex, TableIndex

(* Two pages differ in one of the two.                                      *)
LEMMA SamePage ==
  ASSUME NEW page \in AllPages, NEW g \in AllPages,
         DirIndex(page) = DirIndex(g), TableIndex(page) = TableIndex(g)
  PROVE  page = g
<1>1. page = Entries * DirIndex(page) + TableIndex(page) /\ g = Entries * DirIndex(g) + TableIndex(g)
  BY PageIndexes
<1> QED BY <1>1

(* The first page of a directory entry.                                     *)
LEMMA FirstPage ==
  ASSUME NEW page \in AllPages, NEW d \in Index, d * Entries = page
  PROVE  d = DirIndex(page) /\ TableIndex(page) = 0
<1> DEFINE e == DirIndex(page)
           t == TableIndex(page)
<1>1. /\ e \in Nat /\ t \in 0..(Entries - 1) /\ page = Entries * e + t
      /\ Entries \in Nat \ {0} /\ d \in Nat
  BY PageIndexes, MemConstants, SMTT(30) DEF Index
<1> HIDE DEF e, t
<1>2. Entries * d + 0 = Entries * e + t /\ 0 \in 0..(Entries - 1)
  BY <1>1, SMTT(30)
<1>3. d = e /\ 0 = t
  BY <1>1, <1>2, SplitUnique
<1> QED BY <1>3 DEF e, t

(* Addresses lie in user pages.                                             *)
LEMMA AddressPage ==
  ASSUME NEW v \in Addresses
  PROVE  v \in Nat /\ PageOf(v) \in UserPages
<1> DEFINE q == v \div BytesPerPage
           r == v % BytesPerPage
           E == Entries * Entries
<1>1. /\ BytesPerPage \in Nat \ {0} /\ v \in Nat /\ v >= BytesPerPage
      /\ E \in Nat \ {0} /\ v < E * BytesPerPage
  BY MemConstants, SMTT(30) DEF Addresses
<1>2. r \in 0..(BytesPerPage - 1) /\ q \in Nat /\ v = BytesPerPage * q + r
  BY <1>1, DivMod
<1> HIDE DEF q, r, E
<1>3. q # 0
  BY <1>1, <1>2, SMTT(30)
<1>4. q < E
  <2> SUFFICES ASSUME q >= E PROVE FALSE
    BY <1>1, <1>2, SMTT(30)
  <2>1. BytesPerPage * q >= BytesPerPage * E
    BY <1>1, <1>2, SMTT(30)
  <2> QED BY <1>1, <1>2, <2>1, SMTT(30)
<1>5. q \in 1..(E - 1)
  BY <1>1, <1>2, <1>3, <1>4, SMTT(30)
<1> QED BY <1>1, <1>5 DEF q, E, PageOf, UserPages

(* What lies behind the first page is in a page with a number.              *)
LEMMA PageAbove ==
  ASSUME NEW v \in Nat, BytesPerPage <= v
  PROVE  PageOf(v) \in Nat \ {0}
<1> DEFINE q == v \div BytesPerPage
           r == v % BytesPerPage
<1>1. BytesPerPage \in Nat \ {0}
  BY MemConstants
<1>2. r \in 0..(BytesPerPage - 1) /\ q \in Nat /\ v = BytesPerPage * q + r
  BY <1>1, DivMod
<1> HIDE DEF q, r
<1>3. q # 0
  BY <1>1, <1>2, SMTT(30)
<1> QED BY <1>2, <1>3 DEF q, PageOf

-----------------------------------------------------------------------------

LEMMA SlotFacts ==
  /\ Index \subseteq Slots /\ -1 \in Slots /\ -1 \notin Index
  /\ \A s \in Slots : s # -1 => s \in Index
  BY MemConstants, SMTT(30) DEF Index, Slots

(* The frames that a process has as directory, tables and pages.            *)
LEMMA DirectoryFrame ==
  ASSUME NEW p \in Procs
  PROVE  FrameAt(p, -1, -1) = pd[p]
  BY MemConstants, SlotFacts DEF FrameAt

LEMMA UserFrames ==
  ASSUME NEW p \in Procs, pd[p] # 0, NEW d \in Index, d \notin KernelDirs
  PROVE  /\ FrameAt(p, d, -1) = dir[pd[p]][d].frame
         /\ \A t \in Index : FrameAt(p, d, t) =
              IF dir[pd[p]][d].frame = 0 THEN 0 ELSE table[dir[pd[p]][d].frame][t].frame
  BY SlotFacts DEF FrameAt

LEMMA FrameTypes ==
  ASSUME MemType, NEW p \in Procs, NEW d \in Slots, NEW t \in Slots
  PROVE  FrameAt(p, d, t) \in Frames
<1>1. 0 \in Frames /\ pd[p] \in Frames
  BY MemConstants, SMTT(30) DEF MemType, Frames
<1>2. CASE pd[p] = 0 \/ d \in KernelDirs \/ d = -1
  BY <1>1, <1>2 DEF FrameAt
<1>3. CASE pd[p] # 0 /\ d \in Index /\ d \notin KernelDirs
  <2>1. dir[pd[p]][d].frame \in Frames
    BY <1>1, <1>3, SMTT(30) DEF MemType, Ent
  <2>2. CASE t = -1
    BY <1>3, <2>1, <2>2, UserFrames
  <2>3. CASE t \in Index
    <3>1. table[dir[pd[p]][d].frame][t].frame \in Frames
      BY <2>1, <2>3, SMTT(30) DEF MemType, Ent
    <3> QED BY <1>1, <1>3, <2>3, <3>1, UserFrames
  <2> QED BY <2>2, <2>3, SlotFacts
<1> QED BY <1>2, <1>3, SlotFacts

LEMMA PageFrameIs ==
  ASSUME NEW p \in Procs, pd[p] # 0, NEW page \in AllPages
  PROVE  PageFrame(p, page) = IF DirIndex(page) \in KernelDirs THEN 0 ELSE paging_get(p, page)
<1>1. DirIndex(page) \in Index /\ TableIndex(page) \in Index
  BY PageIndexes
<1>2. CASE DirIndex(page) \in KernelDirs
  BY <1>2 DEF PageFrame, FrameAt
<1>3. CASE DirIndex(page) \notin KernelDirs
  BY <1>1, <1>3, UserFrames DEF PageFrame, paging_get
<1> QED BY <1>2, <1>3

LEMMA TranslatedIs ==
  ASSUME NEW p \in Procs, pd[p] # 0
  PROVE  \A page \in UserPages :
           /\ page \in Translated(p) <=> PageFrame(p, page) # 0
           /\ page \in Translated(p) => paging_get(p, page) = PageFrame(p, page)
  BY PageFrameIs, MemConstants DEF Translated

(* A process that does not exist has no frames.                             *)
LEMMA NoFrames ==
  ASSUME NEW p \in Procs, pd[p] = 0
  PROVE  \A d, t : FrameAt(p, d, t) = 0
  BY DEF FrameAt

(* A new directory is one more frame of its process, and has no others.     *)
LEMMA NewDirectory ==
  ASSUME MemType, Owning, NEW p \in Procs, pd[p] = 0, NEW f \in freeFrames,
         pd' = [pd EXCEPT ![p] = f], dir' = [dir EXCEPT ![f] = KernelDirectory], table' = table
  PROVE  \A r \in Procs, e, u \in Slots :
           FrameAt(r, e, u)' = IF r = p /\ e = -1 /\ u = -1 THEN f ELSE FrameAt(r, e, u)
<1> SUFFICES ASSUME NEW r \in Procs, NEW e \in Slots, NEW u \in Slots
             PROVE  FrameAt(r, e, u)' = IF r = p /\ e = -1 /\ u = -1 THEN f ELSE FrameAt(r, e, u)
  OBVIOUS
<1>1. f \in Frames /\ f # 0 /\ -1 \notin KernelDirs
  BY MemConstants, SlotFacts, SMTT(30) DEF MemType, Frames
<1>2. CASE r = p
  <2>1. pd'[p] = f /\ dir'[f] = KernelDirectory /\ FrameAt(p, e, u) = 0
    BY <1>1, NoFrames DEF MemType
  <2>2. CASE e = -1
    BY <1>1, <1>2, <2>1, <2>2 DEF FrameAt
  <2>3. CASE e \in KernelDirs
    BY <1>1, <1>2, <2>1, <2>3 DEF FrameAt
  <2>4. CASE e \in Index /\ e \notin KernelDirs
    <3>1. dir'[pd'[p]][e].frame = 0
      BY <2>1, <2>4, SMTT(30) DEF KernelDirectory, Absent
    <3> QED BY <1>1, <1>2, <2>1, <2>4, <3>1, SlotFacts DEF FrameAt
  <2> QED BY <2>2, <2>3, <2>4, SlotFacts
<1>3. CASE r # p
  <2>1. pd'[r] = pd[r]
    BY <1>3 DEF MemType
  <2>2. pd[r] # f
    BY DirectoryFrame, SlotFacts, SMTT(30) DEF Owning
  <2>3. dir'[pd[r]] = dir[pd[r]]
    BY <2>2 DEF MemType
  <2> QED BY <1>3, <2>1, <2>3, SMTT(30) DEF FrameAt
<1> QED BY <1>2, <1>3

(* A step lets entry d of the directory of p refer to the table pt, its old *)
(* one or a free frame, and entry t of the table to the frame n.            *)
Linked(p, d, t, pt, n) ==
  /\ FrameAt(p, d, -1) = pt \/ (FrameAt(p, d, -1) = 0 /\ pt \in freeFrames)
  /\ dir'[pd[p]][d] = Entry(pt)
  /\ \A x \in Frames, i \in Index : ~(x = pd[p] /\ i = d) => dir'[x][i] = dir[x][i]
  /\ \A x \in Frames \ {pt} : table'[x] = table[x]
  /\ IF pt = 0 THEN n = 0 ELSE table'[pt][t].frame = n
  /\ pt # 0 => \A j \in Index \ {t} :
       table'[pt][j].frame = IF FrameAt(p, d, -1) = 0 THEN 0 ELSE table[pt][j].frame

(* A step puts the frames m and n in the places s and t under d.            *)
Placed(p, d, s, t, m, n) ==
  \A r \in Procs, e, u \in Slots : FrameAt(r, e, u)' =
    IF r = p /\ e = d /\ u = s THEN m
    ELSE IF r = p /\ e = d /\ u = t THEN n ELSE FrameAt(r, e, u)

LEMMA Mapping ==
  ASSUME MemType, Owning, NEW p \in Procs, pd[p] # 0, NEW d \in Index, d \notin KernelDirs,
         NEW t \in Index, NEW pt \in Frames, NEW n \in Frames, pd' = pd, Linked(p, d, t, pt, n)
  PROVE  Placed(p, d, -1, t, pt, n)
<1> DEFINE New(r, e, u) == IF r = p /\ e = d /\ u = -1 THEN pt
                           ELSE IF r = p /\ e = d /\ u = t THEN n ELSE FrameAt(r, e, u)
<1> SUFFICES ASSUME NEW r \in Procs, NEW e \in Slots, NEW u \in Slots
             PROVE  FrameAt(r, e, u)' = New(r, e, u)
  BY DEF Placed
<1>0. /\ FrameAt(p, d, -1) = pt \/ (FrameAt(p, d, -1) = 0 /\ pt \in freeFrames)
      /\ \A x \in Frames \ {pt} : table'[x] = table[x]
      /\ IF pt = 0 THEN n = 0 ELSE table'[pt][t].frame = n
      /\ pt # 0 => \A j \in Index \ {t} :
           table'[pt][j].frame = IF FrameAt(p, d, -1) = 0 THEN 0 ELSE table[pt][j].frame
  BY DEF Linked
<1>1. d # -1 /\ t # -1 /\ pd[p] \in Frames
  BY SlotFacts DEF MemType
<1>2. /\ dir'[pd[p]][d] = Entry(pt) /\ Entry(pt).frame = pt
      /\ \A i \in Index \ {d} : dir'[pd[p]][i] = dir[pd[p]][i]
      /\ \A x \in Frames \ {pd[p]}, i \in Index : dir'[x][i] = dir[x][i]
  BY <1>1 DEF Linked, Entry
<1>3. CASE pd[r] = 0 \/ e \in KernelDirs \/ e = -1
  <2>1. ~(r = p /\ e = d)
    BY <1>1, <1>3
  <2>2. FrameAt(r, e, u)' = FrameAt(r, e, u)
    BY <1>3 DEF FrameAt
  <2> QED BY <2>1, <2>2
<1>4. CASE pd[r] # 0 /\ e \in Index /\ e \notin KernelDirs /\ ~(r = p /\ e = d)
  <2>1. dir'[pd[r]][e] = dir[pd[r]][e]
    <3>1. CASE r = p
      BY <1>2, <1>4, <3>1
    <3>2. CASE r # p
      <4>1. pd[r] # pd[p]
        BY <1>4, <3>2, DirectoryFrame, SlotFacts, SMTT(30) DEF Owning
      <4> QED BY <1>2, <1>4, <4>1 DEF MemType
    <3> QED BY <3>1, <3>2
  <2> DEFINE T == dir[pd[r]][e].frame
  <2>2. T = FrameAt(r, e, -1) /\ T \in Frames
    BY <1>4, UserFrames, FrameTypes, SlotFacts, SMTT(30)
  <2> HIDE DEF T
  <2>3. T # 0 => T # pt
    <3>1. CASE FrameAt(p, d, -1) = pt
      BY <1>4, <2>2, <3>1, SlotFacts, SMTT(30) DEF Owning
    <3>2. CASE pt \in freeFrames
      BY <2>2, <3>2, SlotFacts, SMTT(30) DEF Owning
    <3> QED BY <1>0, <3>1, <3>2
  <2>4. T # 0 => table'[T] = table[T]
    BY <1>0, <2>2, <2>3
  <2>5. FrameAt(r, e, u)' = FrameAt(r, e, u)
    <3>1. dir'[pd'[r]][e].frame = T /\ dir[pd[r]][e].frame = T
      BY <2>1 DEF T
    <3>2. CASE T = 0
      BY <1>4, <3>1, <3>2 DEF FrameAt
    <3>3. CASE T # 0
      BY <1>4, <2>4, <3>1, <3>3 DEF FrameAt
    <3> QED BY <3>2, <3>3
  <2> QED BY <1>4, <2>5
<1>5. CASE r = p /\ e = d
  <2>1. CASE u = -1
    BY <1>1, <1>2, <1>5, <2>1 DEF FrameAt
  <2>2. CASE u \in Index /\ pt = 0
    <3>1. FrameAt(r, e, u)' = 0
      BY <1>1, <1>2, <1>5, <2>2, SlotFacts DEF FrameAt
    <3>2. FrameAt(p, d, -1) = 0
      BY <1>0, <2>2, MemConstants DEF MemType
    <3>3. FrameAt(p, d, u) = 0
      BY <2>2, <3>2, UserFrames, SMTT(30)
    <3> QED BY <1>0, <1>5, <2>2, <3>1, <3>3, SlotFacts
  <2>3. CASE u \in Index /\ pt # 0
    <3>1. FrameAt(r, e, u)' = table'[pt][u].frame
      BY <1>1, <1>2, <1>5, <2>3, SlotFacts DEF FrameAt
    <3>2. CASE u = t
      BY <1>0, <1>1, <1>5, <2>3, <3>1, <3>2
    <3>3. CASE u # t
      <4>1. table'[pt][u].frame = IF FrameAt(p, d, -1) = 0 THEN 0 ELSE table[pt][u].frame
        BY <1>0, <2>3, <3>3
      <4>2. FrameAt(p, d, u) = IF FrameAt(p, d, -1) = 0 THEN 0 ELSE table[FrameAt(p, d, -1)][u].frame
        BY <2>3, UserFrames, SMTT(30)
      <4>3. FrameAt(p, d, -1) = 0 \/ FrameAt(p, d, -1) = pt
        BY <1>0
      <4>4. FrameAt(r, e, u)' = FrameAt(p, d, u)
        BY <3>1, <4>1, <4>2, <4>3
      <4> QED BY <1>5, <2>3, <3>3, <4>4, SlotFacts
    <3> QED BY <3>2, <3>3
  <2> QED BY <2>1, <2>2, <2>3, SlotFacts
<1> QED BY <1>3, <1>4, <1>5, SlotFacts

-----------------------------------------------------------------------------

(* Frames that are taken from the free ones, at most two, one of them for a *)
(* place that had none before, stay owned once.                             *)
LEMMA OwningStep ==
  ASSUME MemType, Owning, NEW p \in Procs, NEW d \in Slots, NEW s \in Slots, NEW t \in Slots, s # t,
         NEW m \in Frames, NEW n \in Frames,
         Placed(p, d, s, t, m, n), FrameAt(p, d, s) = m \/ (FrameAt(p, d, s) = 0 /\ m \in freeFrames),
         FrameAt(p, d, t) = 0, n = 0 \/ (n \in freeFrames /\ n # m),
         freeFrames' = freeFrames \ {m, n}, failed => failed'
  PROVE  Owning'
<1> DEFINE New(r, e, u) == IF r = p /\ e = d /\ u = s THEN m
                           ELSE IF r = p /\ e = d /\ u = t THEN n ELSE FrameAt(r, e, u)
<1>1. \A r \in Procs, e, u \in Slots : FrameAt(r, e, u)' = New(r, e, u)
  BY DEF Placed
<1>2. ASSUME NEW r \in Procs, NEW e \in Slots, NEW u \in Slots
      PROVE  FrameAt(r, e, u)' \notin freeFrames'
  <2>1. FrameAt(r, e, u) \notin freeFrames /\ FrameAt(p, d, s) \notin freeFrames
    BY DEF Owning
  <2>2. 0 \notin freeFrames
    BY SMTT(30) DEF MemType
  <2> QED BY <1>1, <2>1, <2>2
<1>3. ASSUME NEW r \in Procs, NEW e \in Slots, NEW u \in Slots,
             NEW q \in Procs, NEW b \in Slots, NEW w \in Slots,
             FrameAt(r, e, u)' # 0, FrameAt(r, e, u)' = FrameAt(q, b, w)'
      PROVE  r = q /\ e = b /\ u = w
  <2>1. FrameAt(r, e, u) \notin freeFrames /\ FrameAt(q, b, w) \notin freeFrames
    BY DEF Owning
  <2>2. New(r, e, u) # 0 /\ New(r, e, u) = New(q, b, w)
    BY <1>1, <1>3, SMTT(30)
  <2>3. /\ FrameAt(r, e, u) # 0 /\ FrameAt(r, e, u) = FrameAt(q, b, w) => r = q /\ e = b /\ u = w
        /\ FrameAt(p, d, s) # 0 /\ FrameAt(p, d, s) = FrameAt(q, b, w) => p = q /\ d = b /\ s = w
        /\ FrameAt(p, d, s) # 0 /\ FrameAt(p, d, s) = FrameAt(r, e, u) => p = r /\ d = e /\ s = u
    BY SMTT(30) DEF Owning
  <2>4. CASE r = p /\ e = d /\ u = s
    BY <2>1, <2>2, <2>3, <2>4
  <2>5. CASE r = p /\ e = d /\ u = t
    BY <2>1, <2>2, <2>3, <2>5
  <2>6. CASE ~(r = p /\ e = d /\ u \in {s, t})
    BY <2>1, <2>2, <2>3, <2>6
  <2> QED BY <2>4, <2>5, <2>6
<1>4. ASSUME ~failed', NEW f \in (1..NofFrames) \ freeFrames'
      PROVE  \E r \in Procs, e, u \in Slots : FrameAt(r, e, u)' = f
  <2>1. CASE f = m
    BY <1>1, <2>1
  <2>2. CASE f = n
    <3>1. FrameAt(p, d, t)' = n
      BY <1>1
    <3> QED BY <2>2, <3>1
  <2>3. CASE f # m /\ f # n
    <3>1. PICK r \in Procs, e \in Slots, u \in Slots : FrameAt(r, e, u) = f
      BY <1>4, <2>3 DEF Owning
    <3>2. f # 0
      BY MemConstants, SMTT(30)
    <3>3. New(r, e, u) = f
      BY <2>3, <3>1, <3>2
    <3> QED BY <1>1, <3>3
  <2> QED BY <2>1, <2>2, <2>3
<1>5. (\A r \in Procs, e, u \in Slots : FrameAt(r, e, u) \notin freeFrames)'
  BY <1>2
<1>6. (\A r, q \in Procs, e, b, u, w \in Slots :
         FrameAt(r, e, u) # 0 /\ FrameAt(r, e, u) = FrameAt(q, b, w) => r = q /\ e = b /\ u = w)'
  BY <1>3, SMTT(30)
<1>7. (~failed => \A f \in (1..NofFrames) \ freeFrames :
         \E r \in Procs, e, u \in Slots : FrameAt(r, e, u) = f)'
  BY <1>4
<1> QED BY <1>5, <1>6, <1>7 DEF Owning

(* Frames that stay where they are.                                         *)
LEMMA SameFrames ==
  ASSUME pd' = pd, dir' = dir, table' = table
  PROVE  /\ \A r, e, u : FrameAt(r, e, u)' = FrameAt(r, e, u)
         /\ \A r, page : PageFrame(r, page)' = PageFrame(r, page)
<1>1. \A r, e, u : FrameAt(r, e, u)' = FrameAt(r, e, u)
  BY DEF FrameAt
<1> QED BY <1>1 DEF PageFrame

LEMMA SameOwning ==
  ASSUME Owning, Rows, pd' = pd, dir' = dir, table' = table, freeFrames' = freeFrames, failed' = failed
  PROVE  Owning' /\ Rows'
<1>1. Owning'
  BY SameFrames, SMTT(30) DEF Owning
<1> QED BY <1>1 DEF Rows

(* What a step on one page of a process does to the pages.                  *)
LEMMA PageMapped ==
  ASSUME NEW p \in Procs, NEW g \in AllPages, NEW pt, NEW n,
         Placed(p, DirIndex(g), -1, TableIndex(g), pt, n)
  PROVE  \A r \in Procs, page \in AllPages :
           PageFrame(r, page)' = IF r = p /\ page = g THEN n ELSE PageFrame(r, page)
<1> SUFFICES ASSUME NEW r \in Procs, NEW page \in AllPages
             PROVE  PageFrame(r, page)' = IF r = p /\ page = g THEN n ELSE PageFrame(r, page)
  OBVIOUS
<1>1. DirIndex(page) \in Slots /\ TableIndex(page) \in Slots /\ TableIndex(page) # -1
  BY PageIndexes, SlotFacts
<1>2. page # g => DirIndex(page) # DirIndex(g) \/ TableIndex(page) # TableIndex(g)
  BY SamePage
<1> QED BY <1>1, <1>2, SlotFacts DEF PageFrame, Placed

(* palloc returns a free frame, or PHYS_NULL when there is none.            *)
LEMMA NextFrameIs ==
  ASSUME NEW S
  PROVE  (S = {} /\ NextFrame(S) = 0) \/ NextFrame(S) \in S
  BY DEF NextFrame

-----------------------------------------------------------------------------

(* A step gives page g of process p the frame f and changes no other page   *)
(* and the contents of no frame that was in use.                            *)
Mapped(p, g, f) ==
  /\ \A r \in Procs, page \in AllPages :
       PageFrame(r, page)' = IF r = p /\ page = g THEN f ELSE PageFrame(r, page)
  /\ \A r \in Procs \ {p}, d \in Index : FrameAt(r, d, -1)' = FrameAt(r, d, -1)
  /\ \A x \in Frames : x # 0 /\ x \notin freeFrames => content'[x] = content[x]
  /\ failed => failed'

MemoryTypes ==
  /\ freeFrames \subseteq 1..NofFrames
  /\ dir \in [Frames -> [Index -> Ent]] /\ table \in [Frames -> [Index -> Ent]]
  /\ content \in [Frames -> [Offsets -> Values]] /\ failed \in BOOLEAN

LEMMA EntryTypes ==
  /\ Absent \in Ent /\ Absent.frame = 0 /\ Absent.present = FALSE
  /\ \A f \in Frames : Entry(f) \in Ent /\ Entry(f).frame = f /\ Entry(f).present = TRUE
  /\ Cleared \in [Offsets -> Values] /\ 0 \in Frames /\ 1..NofFrames \subseteq Frames
  BY MemConstants, SMTT(30) DEF Absent, Entry, Ent, Frames, Cleared

(* unsafe_vmreserve gives the page a cleared frame of its own, unless it    *)
(* has one or memory has run out.                                           *)
LEMMA ReserveEffect ==
  ASSUME MemType, Owning, Rows, NEW p \in Procs, pd[p] # 0, NEW g \in UserPages,
         DirIndex(g) \notin KernelDirs, unsafe_vmreserve(p, g), pd' = pd
  PROVE  /\ Owning' /\ Rows' /\ MemoryTypes'
         /\ \E f : /\ Mapped(p, g, f) /\ (f = 0 => failed')
                   /\ IF PageFrame(p, g) # 0 THEN f = PageFrame(p, g) /\ vfrom' = vfrom /\ vto' = vto
                      ELSE /\ f # 0 => f \in freeFrames /\ content'[f] = Cleared
                           /\ vfrom' = [vfrom EXCEPT ![p] = IF @ = UVNULL \/ @ > g THEN g ELSE @]
                           /\ vto' = [vto EXCEPT ![p] = IF @ = UVNULL \/ @ < g THEN g ELSE @]
<1>1. g \in AllPages /\ DirIndex(g) \in Index /\ TableIndex(g) \in Index
  BY MemConstants, PageIndexes
<1>2. paging_get(p, g) = PageFrame(p, g)
  BY <1>1, PageFrameIs
<1>3. CASE PageFrame(p, g) # 0
  <2>1. /\ freeFrames' = freeFrames /\ dir' = dir /\ table' = table /\ content' = content
        /\ vfrom' = vfrom /\ vto' = vto /\ failed' = failed
    BY <1>2, <1>3 DEF unsafe_vmreserve
  <2>2. Owning' /\ Rows'
    BY <2>1, SameOwning
  <2>3. MemoryTypes'
    BY <2>1 DEF MemType, MemoryTypes
  <2>4. Mapped(p, g, PageFrame(p, g))
    BY <2>1, SameFrames DEF Mapped
  <2> QED BY <1>3, <2>1, <2>2, <2>3, <2>4
<1>4. CASE PageFrame(p, g) = 0
  <2> DEFINE d == DirIndex(g)
             t == TableIndex(g)
             old == dir[pd[p]][d].frame
             f == NextFrame(freeFrames)
             pt == IF old = 0 THEN NextFrame(freeFrames \ {f}) ELSE old
             row == IF old = 0 THEN [i \in Index |-> Absent] ELSE table[pt]
  <2>1. /\ pt # 0 /\ freeFrames' = freeFrames \ {f, pt}
        /\ dir' = [dir EXCEPT ![pd[p]][d] = Entry(pt)]
        /\ table' = [table EXCEPT ![pt] = [row EXCEPT ![t] = Entry(f)]]
        /\ content' = [content EXCEPT ![f] = IF f = 0 THEN @ ELSE Cleared]
        /\ vfrom' = [vfrom EXCEPT ![p] = IF @ = UVNULL \/ @ > g THEN g ELSE @]
        /\ vto' = [vto EXCEPT ![p] = IF @ = UVNULL \/ @ < g THEN g ELSE @]
        /\ failed' = (failed \/ f = 0)
    BY <1>2, <1>4 DEF unsafe_vmreserve
  <2>2. d \in Index /\ t \in Index /\ d \notin KernelDirs /\ pd[p] \in Frames
    BY <1>1 DEF MemType
  <2>3. old = FrameAt(p, d, -1) /\ old \in Frames /\ old \notin freeFrames /\ FrameAt(p, d, t) = 0
    BY <1>4, <2>2, UserFrames, FrameTypes, SlotFacts, SMTT(30) DEF Owning, PageFrame
  <2>4. (f = 0 /\ freeFrames = {}) \/ f \in freeFrames
    BY NextFrameIs
  <2>5. f \in Frames /\ (f # 0 => f \in freeFrames) /\ (f = 0 => freeFrames = {})
    <3>1. freeFrames \subseteq Frames /\ 0 \notin freeFrames /\ 0 \in Frames
      <4>1. freeFrames \subseteq 1..NofFrames
        BY DEF MemType
      <4> QED BY <4>1, EntryTypes, SMTT(30)
    <3> HIDE DEF f
    <3> QED BY <2>4, <3>1
  <2>6. pt = old \/ (old = 0 /\ pt \in freeFrames /\ pt # f)
    BY <2>1, NextFrameIs
  <2> HIDE DEF d, t, old, f, pt
  <2>7. pt \in Frames /\ pt # f
    BY <2>1, <2>3, <2>5, <2>6, EntryTypes DEF MemType
  <2>8. row \in [Index -> Ent] /\ \A i \in Index : row[i] = IF old = 0 THEN Absent ELSE table[pt][i]
    BY <2>7, EntryTypes DEF MemType
  <2> HIDE DEF row
  <2>9. /\ table' \in [Frames -> [Index -> Ent]]
        /\ \A x \in Frames \ {pt} : table'[x] = table[x]
        /\ table'[pt][t] = Entry(f)
        /\ \A i \in Index \ {t} : table'[pt][i] = IF old = 0 THEN Absent ELSE table[pt][i]
    BY <2>1, <2>2, <2>5, <2>7, <2>8, EntryTypes DEF MemType
  <2>10. /\ dir' \in [Frames -> [Index -> Ent]] /\ dir'[pd[p]][d] = Entry(pt)
         /\ \A x \in Frames, i \in Index : ~(x = pd[p] /\ i = d) => dir'[x][i] = dir[x][i]
    BY <2>1, <2>2, <2>7, EntryTypes DEF MemType
  <2>11. /\ content' \in [Frames -> [Offsets -> Values]]
         /\ \A x \in Frames \ {f} : content'[x] = content[x]
         /\ f # 0 => content'[f] = Cleared
    BY <2>1, <2>5, EntryTypes DEF MemType
  <2>12. Placed(p, d, -1, t, pt, f)
    <3>1. table'[pt][t].frame = f
      BY <2>5, <2>9, EntryTypes
    <3>2. \A j \in Index \ {t} :
            table'[pt][j].frame = IF FrameAt(p, d, -1) = 0 THEN 0 ELSE table[pt][j].frame
      BY <2>3, <2>9, EntryTypes
    <3>3. FrameAt(p, d, -1) = pt \/ (FrameAt(p, d, -1) = 0 /\ pt \in freeFrames)
      BY <2>3, <2>6
    <3>4. Linked(p, d, t, pt, f)
      BY <2>1, <2>9, <2>10, <3>1, <3>2, <3>3 DEF Linked
    <3> QED BY <2>2, <2>5, <2>7, <3>4, Mapping
  <2>13. Owning'
    <3>1. freeFrames' = freeFrames \ {pt, f} /\ (failed => failed')
      BY <2>1
    <3>2. d \in Slots /\ t \in Slots /\ -1 \in Slots /\ -1 # t
      BY <2>2, SlotFacts
    <3>3. FrameAt(p, d, -1) = pt \/ (FrameAt(p, d, -1) = 0 /\ pt \in freeFrames)
      BY <2>3, <2>6
    <3> QED BY <2>3, <2>5, <2>7, <2>12, <3>1, <3>2, <3>3, OwningStep
  <2>14. Rows'
    <3>1. failed' => freeFrames' = {}
      BY <2>1, <2>5 DEF Rows, MemType
    <3>2. ASSUME NEW x \in Frames, NEW i \in Index
          PROVE  /\ dir'[x][i].frame # 0 => dir'[x][i].present
                 /\ ~failed' /\ i \notin KernelDirs /\ dir'[x][i].present => dir'[x][i].frame # 0
      BY <2>1, <2>7, <2>10, EntryTypes, SMTT(30) DEF Rows, MemType
    <3>3. ASSUME NEW x \in Frames, NEW i \in Index
          PROVE  /\ table'[x][i].frame # 0 => table'[x][i].present
                 /\ x \in freeFrames' => table'[x][i] = Absent
                 /\ ~failed' /\ table'[x][i].present => table'[x][i].frame # 0
      <4>1. CASE x = pt /\ i = t
        BY <2>1, <2>5, <2>9, <4>1, EntryTypes
      <4>2. CASE x = pt /\ i # t
        <5>1. table'[pt][i] = IF old = 0 THEN Absent ELSE table[pt][i]
          BY <2>9, <4>2
        <5>2. x \notin freeFrames' /\ (~failed' => ~failed)
          BY <2>1, <4>2 DEF MemType
        <5>3. CASE old = 0
          BY <4>2, <5>1, <5>2, <5>3, EntryTypes
        <5>4. CASE old # 0
          BY <2>7, <4>2, <5>1, <5>2, <5>4, SMTT(30) DEF Rows
        <5> QED BY <5>3, <5>4
      <4>3. CASE x # pt
        BY <2>1, <2>9, <4>3, SMTT(30) DEF Rows, MemType
      <4> QED BY <4>1, <4>2, <4>3
    <3> QED BY <3>1, <3>2, <3>3, SMTT(30) DEF Rows
  <2>15. Mapped(p, g, f)
    <3>1. \A r \in Procs, page \in AllPages :
            PageFrame(r, page)' = IF r = p /\ page = g THEN f ELSE PageFrame(r, page)
      BY <1>1, <2>12, PageMapped, SMTT(30) DEF d, t
    <3>2. \A r \in Procs \ {p}, e \in Index : FrameAt(r, e, -1)' = FrameAt(r, e, -1)
      BY <2>12, SlotFacts DEF Placed
    <3>3. \A x \in Frames : x # 0 /\ x \notin freeFrames => content'[x] = content[x]
      BY <2>5, <2>11
    <3> QED BY <2>1, <3>1, <3>2, <3>3 DEF Mapped
  <2>16. MemoryTypes'
    BY <2>1, <2>9, <2>10, <2>11 DEF MemType, MemoryTypes
  <2>17. f = 0 => failed'
    BY <2>1
  <2> QED BY <1>4, <2>1, <2>5, <2>11, <2>13, <2>14, <2>15, <2>16, <2>17
<1> QED BY <1>3, <1>4

(* What vmdup relies on: a child that has got the pages before g has no     *)
(* table yet if g is the first page of one, and otherwise has one if its    *)
(* parent has, unless memory has run out.                                   *)
LEMMA DupFrames ==
  ASSUME MemType, Owning, Rows, NEW p \in Procs, NEW q \in Procs, pd[p] # 0, pd[q] # 0,
         NEW g \in AllPages, Copied(p, q, g), DirIndex(g) \notin KernelDirs
  PROVE  /\ FrameAt(q, DirIndex(g), TableIndex(g)) = 0
         /\ TableIndex(g) = 0 => FrameAt(q, DirIndex(g), -1) = 0
         /\ ~failed /\ TableIndex(g) # 0 /\ FrameAt(p, DirIndex(g), -1) # 0 => FrameAt(q, DirIndex(g), -1) # 0
<1> DEFINE d == DirIndex(g)
           t == TableIndex(g)
<1>1. d \in Index /\ t \in Index /\ g = Entries * d + t
  BY PageIndexes
<1>2. Entries \in Nat /\ d \in Nat /\ t \in Nat /\ g \in Nat
  BY <1>1, MemConstants, SMTT(30) DEF Index
<1>3. PageFrame(q, g) = 0
  BY <1>2, SMTT(30) DEF Copied
<1> HIDE DEF d, t
<1>4. (t = 0 => d * Entries >= g) /\ (t # 0 => d * Entries < g)
  BY <1>1, <1>2, SMTT(30)
<1>5. /\ t = 0 => FrameAt(q, d, -1) = 0
      /\ ~failed /\ t # 0 /\ FrameAt(p, d, -1) # 0 => FrameAt(q, d, -1) # 0
  BY <1>1, <1>4 DEF Copied
<1> QED BY <1>3, <1>5 DEF d, t, PageFrame

(* vmdup gives the child a copy of the page, if the parent has it and       *)
(* memory has not run out, and the table for it.                            *)
LEMMA DupEffect ==
  ASSUME MemType, Owning, Rows, NEW p \in Procs, NEW q \in Procs, pd[p] # 0, pd[q] # 0,
         NEW g \in AllPages, Copied(p, q, g), vmdup(p, q, g), pd' = pd
  PROVE  /\ Owning' /\ Rows' /\ MemoryTypes'
         /\ \A d \in Index \ {DirIndex(g)} : FrameAt(q, d, -1)' = FrameAt(q, d, -1)
         /\ ~failed' /\ FrameAt(p, DirIndex(g), -1) # 0 => FrameAt(q, DirIndex(g), -1)' # 0
         /\ \E f : /\ Mapped(q, g, f)
                   /\ f # 0 => /\ f \in freeFrames /\ PageFrame(p, g) # 0
                               /\ content'[f] = content[PageFrame(p, g)]
                   /\ ~failed' /\ PageFrame(p, g) # 0 => f # 0
<1> DEFINE d == DirIndex(g)
           t == TableIndex(g)
           pde == dir[pd[p]][d]
           copied == pde.present /\ d \notin KernelDirs
<1>1. d \in Index /\ t \in Index /\ d \in Slots /\ t \in Slots /\ -1 \in Slots /\ t # -1
  BY PageIndexes, SlotFacts
<1>2. /\ pd[p] \in Frames /\ pd[q] \in Frames /\ pde \in Ent /\ pde.frame \in Frames
      /\ 0 \notin freeFrames /\ freeFrames \subseteq Frames
  <2>1. pd[p] \in Frames /\ pd[q] \in Frames /\ pde \in Ent
    BY <1>1 DEF MemType
  <2>2. freeFrames \subseteq 1..NofFrames
    BY DEF MemType
  <2> QED BY <2>1, <2>2, EntryTypes, SMTT(30) DEF Ent
<1>3. CASE ~copied
  <2>1. freeFrames' = freeFrames /\ dir' = dir /\ table' = table /\ content' = content /\ failed' = failed
    BY <1>3 DEF vmdup
  <2>2. Owning' /\ Rows'
    BY <2>1, SameOwning
  <2>3. FrameAt(p, d, -1) = 0 /\ FrameAt(p, d, t) = 0
    <3>1. CASE d \in KernelDirs
      BY <3>1 DEF FrameAt
    <3>2. CASE d \notin KernelDirs /\ ~pde.present
      <4>1. pde.frame = 0
        BY <1>1, <1>2, <3>2 DEF Rows
      <4> QED BY <1>1, <3>2, <4>1, UserFrames
    <3> QED BY <1>3, <3>1, <3>2
  <2>4. PageFrame(p, g) = 0 /\ PageFrame(q, g) = 0
    BY <2>3, MemConstants DEF PageFrame, Copied
  <2>5. Mapped(q, g, 0)
    BY <2>1, <2>4, SameFrames DEF Mapped
  <2>6. MemoryTypes' /\ \A e \in Index \ {d} : FrameAt(q, e, -1)' = FrameAt(q, e, -1)
    BY <2>1, SameFrames DEF MemType, MemoryTypes
  <2> QED BY <2>2, <2>3, <2>4, <2>5, <2>6
<1>4. CASE copied
  <2> DEFINE newTable == t = 0
             pt == IF newTable THEN NextFrame(freeFrames) ELSE dir[pd[q]][d].frame
             src == table[pde.frame][t]
             rest == IF newTable THEN freeFrames \ {pt} ELSE freeFrames
             f == NextFrame(rest)
             n == IF src.present THEN f ELSE 0
  <2>1. /\ dir' = [dir EXCEPT ![pd[q]][d] = Entry(pt)]
        /\ failed' = (failed \/ pt = 0 \/ (src.present /\ f = 0))
        /\ IF ~src.present THEN freeFrames' = rest /\ table' = table /\ content' = content
           ELSE /\ freeFrames' = rest \ {f}
                /\ table' = [table EXCEPT ![pt][t] = Entry(f)]
                /\ content' = [content EXCEPT ![f] = content[src.frame]]
    BY <1>4 DEF vmdup
  <2>2. src \in Ent /\ src.present \in BOOLEAN /\ src.frame \in Frames
    <3>1. src \in Ent
      <4> HIDE DEF pde
      <4>1. table \in [Frames -> [Index -> Ent]]
        BY DEF MemType
      <4> QED BY <1>1, <1>2, <4>1
    <3> QED BY <3>1 DEF Ent
  <2>3. /\ FrameAt(p, d, -1) = pde.frame
        /\ FrameAt(p, d, t) = IF pde.frame = 0 THEN 0 ELSE src.frame
    BY <1>1, <1>4, UserFrames
  <2>4. /\ FrameAt(q, d, t) = 0 /\ (t = 0 => FrameAt(q, d, -1) = 0)
        /\ ~failed /\ t # 0 /\ FrameAt(p, d, -1) # 0 => FrameAt(q, d, -1) # 0
    BY <1>4, DupFrames
  <2>5. dir[pd[q]][d].frame = FrameAt(q, d, -1) /\ FrameAt(q, d, -1) \in Frames \ freeFrames
    BY <1>1, <1>4, UserFrames, FrameTypes DEF Owning
  <2>6. pt = FrameAt(q, d, -1) \/ (FrameAt(q, d, -1) = 0 /\ pt \in freeFrames)
    BY <2>4, <2>5, NextFrameIs
  <2>7. (~failed => pde.frame # 0 /\ (src.present => src.frame # 0)) /\ (failed => freeFrames = {})
    BY <1>1, <1>2, <1>4 DEF Rows
  <2>8. pt = 0 => freeFrames = {}
    <3>1. CASE newTable
      BY <1>2, <3>1, NextFrameIs
    <3>2. CASE ~newTable
      BY <2>3, <2>4, <2>5, <2>7, <3>2
    <3> QED BY <3>1, <3>2
  <2>9. rest = freeFrames \ {pt} /\ ((f = 0 /\ rest = {}) \/ f \in rest)
    <3>1. rest = freeFrames \ {pt}
      BY <2>5
    <3> QED BY <3>1, NextFrameIs
  <2> HIDE DEF pde, src, pt, rest, f
  <2>10. /\ pt \in Frames /\ f \in Frames /\ n \in Frames /\ (f # 0 => f \in freeFrames /\ f # pt)
         /\ (pt = 0 => f = 0) /\ (f = 0 => rest = {}) /\ rest = freeFrames \ {pt}
    BY <1>2, <2>5, <2>6, <2>8, <2>9, EntryTypes
  <2>11. freeFrames' = freeFrames \ {pt, n}
    BY <1>2, <2>1, <2>10
  <2>12. /\ dir' \in [Frames -> [Index -> Ent]] /\ dir'[pd[q]][d] = Entry(pt)
         /\ \A x \in Frames, i \in Index : ~(x = pd[q] /\ i = d) => dir'[x][i] = dir[x][i]
    BY <1>1, <1>2, <2>1, <2>10, EntryTypes DEF MemType
  <2>13. /\ table' \in [Frames -> [Index -> Ent]]
         /\ \A x \in Frames \ {pt} : table'[x] = table[x]
         /\ \A i \in Index \ {t} : table'[pt][i] = table[pt][i]
         /\ table'[pt][t] = IF src.present THEN Entry(f) ELSE table[pt][t]
    <3>1. table \in [Frames -> [Index -> Ent]] /\ Entry(f) \in Ent
      BY <2>10, EntryTypes DEF MemType
    <3>2. CASE src.present
      <4>1. table' = [table EXCEPT ![pt][t] = Entry(f)]
        BY <2>1, <3>2
      <4> HIDE DEF t
      <4> QED BY <1>1, <2>10, <3>1, <3>2, <4>1
    <3>3. CASE ~src.present
      <4>1. table' = table
        BY <2>1, <3>3
      <4> QED BY <3>1, <3>3, <4>1
    <3> QED BY <3>2, <3>3
  <2>14. /\ content' \in [Frames -> [Offsets -> Values]]
         /\ \A x \in Frames \ {f} : content'[x] = content[x]
         /\ src.present => content'[f] = content[src.frame]
    BY <2>1, <2>2, <2>10 DEF MemType
  <2>15. FrameAt(q, d, -1) # 0 => pt = FrameAt(q, d, -1) /\ table[pt][t].frame = 0
    BY <1>1, <1>4, <2>4, <2>5, <2>6, UserFrames, SMTT(30)
  <2>16. pt # 0 /\ FrameAt(q, d, -1) = 0 => \A i \in Index : table[pt][i].frame = 0
    BY <2>6, <2>10, EntryTypes DEF Rows
  <2>17. Placed(q, d, -1, t, pt, n)
    <3>1. IF pt = 0 THEN n = 0 ELSE table'[pt][t].frame = n
      BY <1>1, <2>10, <2>13, <2>15, <2>16, EntryTypes
    <3>2. pt # 0 => \A j \in Index \ {t} :
            table'[pt][j].frame = IF FrameAt(q, d, -1) = 0 THEN 0 ELSE table[pt][j].frame
      BY <2>13, <2>16
    <3>3. Linked(q, d, t, pt, n)
      BY <2>6, <2>12, <2>13, <3>1, <3>2 DEF Linked
    <3> HIDE DEF d, t, n
    <3> QED BY <1>1, <1>4, <2>10, <3>3, Mapping
  <2>18. Owning'
    <3>1. n = 0 \/ (n \in freeFrames /\ n # pt)
      BY <2>10
    <3>2. failed => failed'
      BY <2>1
    <3> HIDE DEF d, t, n
    <3> QED BY <1>1, <2>4, <2>6, <2>10, <2>11, <2>17, <3>1, <3>2, OwningStep
  <2>19. Rows'
    <3>1. failed' => freeFrames' = {}
      BY <1>2, <2>1, <2>7, <2>8, <2>10, <2>11
    <3>2. ASSUME NEW x \in Frames, NEW i \in Index
          PROVE  /\ dir'[x][i].frame # 0 => dir'[x][i].present
                 /\ ~failed' /\ i \notin KernelDirs /\ dir'[x][i].present => dir'[x][i].frame # 0
      <4>1. ~failed' => ~failed /\ pt # 0
        BY <2>1 DEF MemType
      <4>2. CASE x = pd[q] /\ i = d
        BY <2>10, <2>12, <4>1, <4>2, EntryTypes
      <4>3. CASE ~(x = pd[q] /\ i = d)
        BY <2>12, <4>1, <4>3, SMTT(30) DEF Rows
      <4> QED BY <4>2, <4>3
    <3>3. ASSUME NEW x \in Frames, NEW i \in Index
          PROVE  /\ table'[x][i].frame # 0 => table'[x][i].present
                 /\ x \in freeFrames' => table'[x][i] = Absent
                 /\ ~failed' /\ table'[x][i].present => table'[x][i].frame # 0
      <4>1. ~failed' => ~failed /\ (src.present => f # 0)
        BY <2>1 DEF MemType
      <4>2. x \in freeFrames' => x # pt /\ x \in freeFrames
        BY <2>11
      <4>3. CASE x = pt /\ i = t /\ src.present
        BY <2>10, <2>13, <4>1, <4>2, <4>3, EntryTypes
      <4>4. CASE ~(x = pt /\ i = t /\ src.present)
        <5>1. table'[x][i] = table[x][i]
          BY <2>13, <4>4
        <5> QED BY <4>1, <4>2, <5>1, SMTT(30) DEF Rows
      <4> QED BY <4>3, <4>4
    <3> QED BY <3>1, <3>2, <3>3, SMTT(30) DEF Rows
  <2>20. Mapped(q, g, n)
    <3>1. \A r \in Procs, page \in AllPages :
            PageFrame(r, page)' = IF r = q /\ page = g THEN n ELSE PageFrame(r, page)
      <4> HIDE DEF n
      <4> QED BY <2>17, PageMapped, SMTT(30)
    <3>2. \A r \in Procs \ {q}, e \in Index : FrameAt(r, e, -1)' = FrameAt(r, e, -1)
      BY <2>17, SlotFacts DEF Placed
    <3>3. \A x \in Frames : x # 0 /\ x \notin freeFrames => content'[x] = content[x]
      BY <2>10, <2>14
    <3>4. failed => failed'
      BY <2>1
    <3> QED BY <3>1, <3>2, <3>3, <3>4 DEF Mapped
  <2>21. MemoryTypes'
    <3>1. freeFrames' \subseteq 1..NofFrames
      BY <2>11 DEF MemType
    <3>2. failed' \in BOOLEAN
      BY <2>1
    <3> QED BY <2>12, <2>13, <2>14, <3>1, <3>2 DEF MemoryTypes
  <2>22. /\ \A e \in Index \ {d} : FrameAt(q, e, -1)' = FrameAt(q, e, -1)
         /\ ~failed' => FrameAt(q, d, -1)' # 0
    <3>1. FrameAt(q, d, -1)' = pt /\ \A e \in Index \ {d} : FrameAt(q, e, -1)' = FrameAt(q, e, -1)
      BY <1>1, <2>17, SlotFacts DEF Placed
    <3> QED BY <2>1, <3>1
  <2>23. n # 0 => /\ n \in freeFrames /\ PageFrame(p, g) # 0
                  /\ content'[n] = content[PageFrame(p, g)]
    <3>1. SUFFICES ASSUME n # 0
                   PROVE  n \in freeFrames /\ FrameAt(p, d, t) # 0 /\ content'[n] = content[FrameAt(p, d, t)]
      BY DEF PageFrame
    <3>2. src.present /\ n = f /\ f \in freeFrames
      BY <2>10, <3>1
    <3>3. FrameAt(p, d, t) = src.frame /\ src.frame # 0
      BY <2>3, <2>7, <3>2
    <3> QED BY <2>14, <3>2, <3>3
  <2>24. ~failed' /\ PageFrame(p, g) # 0 => n # 0
    <3>1. PageFrame(p, g) # 0 => src.present
      <4>1. PageFrame(p, g) # 0 => src.frame # 0
        BY <2>3 DEF PageFrame
      <4>2. src.frame # 0 => src.present
        BY <1>1, <1>2 DEF Rows, src
      <4> QED BY <4>1, <4>2
    <3> QED BY <2>1, <3>1
  <2> HIDE DEF n
  <2> QED BY <2>18, <2>19, <2>20, <2>21, <2>22, <2>23, <2>24
<1> QED BY <1>3, <1>4

-----------------------------------------------------------------------------

(* The frame of a page is in use, and by no other page.                     *)
LEMMA PageFacts ==
  ASSUME MemType, Owning, NEW r \in Procs, NEW page \in AllPages
  PROVE  /\ PageFrame(r, page) \in Frames \ freeFrames
         /\ \A q \in Procs, g \in AllPages :
              PageFrame(r, page) # 0 /\ PageFrame(r, page) = PageFrame(q, g) => r = q /\ page = g
<1>1. \A g \in AllPages : DirIndex(g) \in Slots /\ TableIndex(g) \in Slots
  BY PageIndexes, SlotFacts
<1>2. PageFrame(r, page) \in Frames \ freeFrames
  BY <1>1, FrameTypes DEF Owning, PageFrame
<1>3. ASSUME NEW q \in Procs, NEW g \in AllPages, PageFrame(r, page) # 0, PageFrame(r, page) = PageFrame(q, g)
      PROVE  r = q /\ page = g
  BY <1>1, <1>3, SamePage, SMTT(30) DEF Owning, PageFrame
<1> QED BY <1>2, <1>3

(* What Mapped says of the contents of the pages.                           *)
LEMMA MappedContent ==
  ASSUME MemType, Owning, NEW p, NEW g, NEW f, Mapped(p, g, f), NEW r \in Procs, NEW page \in AllPages,
         PageFrame(r, page) # 0
  PROVE  content'[PageFrame(r, page)] = content[PageFrame(r, page)]
  BY PageFacts DEF Mapped

-----------------------------------------------------------------------------
(* A process has a break once it is loaded, behind the first page; a brk    *)
(* moves it to an address.                                                  *)
Breaks ==
  \A p \in Procs :
    /\ pd[p] = 0 => vbreak[p] = UVNULL
    /\ vbreak[p] # UVNULL =>
         /\ BytesPerPage <= vbreak[p] /\ vbreak[p] <= cur_vbreak[p]
         /\ cur_vbreak[p] # vbreak[p] => cur_vbreak[p] \in Addresses

(* A brk in progress has reserved the pages up to the next one.             *)
BrkJobs ==
  \A p \in Procs : brkJob[p] # NoJob =>
    /\ vbreak[p] # UVNULL /\ brkJob[p].v \in Addresses /\ vbreak[p] <= brkJob[p].v
    /\ PageOf(vbreak[p]) <= brkJob[p].page
    /\ ~failed => \A page \in UserPages :
         PageOf(vbreak[p]) <= page /\ page < brkJob[p].page => PageFrame(p, page) # 0

(* A fork has one child, which does nothing before it is over.              *)
ForkJobs ==
  \A p \in Procs :
    /\ forkJob[p].child = {} => forkJob[p] = NoFork
    /\ \A q \in forkJob[p].child :
         /\ forkJob[p].child = {q} /\ pd[q] # 0 /\ vbreak[q] = UVNULL
         /\ vbreak[p] # UVNULL /\ brkJob[p] = NoJob /\ forkJob[p].page <= Entries * Entries
         /\ \A r \in Procs : q \in forkJob[r].child => r = p

(* The child of a fork has copies of the pages up to the next one.          *)
Copies == \A p \in Procs : \A q \in forkJob[p].child : Copied(p, q, forkJob[p].page)

(* What is reserved lies in the range, is what was written, and reaches to  *)
(* the break once a brk has moved it.                                       *)
Ranges ==
  \A p \in Procs : ~BeingForked(p) => \A page \in UserPages :
    PageFrame(p, page) # 0 => vfrom[p] # UVNULL /\ vfrom[p] <= page /\ page <= vto[p]
Contents ==
  ~failed => \A p \in Procs : ~BeingForked(p) => \A page \in UserPages :
    IF PageFrame(p, page) = 0 THEN expected[p][page] = Cleared
    ELSE content[PageFrame(p, page)] = expected[p][page]
Backed ==
  ~failed => \A p \in Procs : vbreak[p] # UVNULL /\ cur_vbreak[p] # vbreak[p] =>
    \A page \in UserPages :
      PageOf(vbreak[p]) <= page /\ page <= PageOf(cur_vbreak[p]) => PageFrame(p, page) # 0

MemInv ==
  /\ MemType /\ Owning /\ Rows /\ Breaks /\ BrkJobs /\ ForkJobs /\ Copies
  /\ Ranges /\ Contents /\ Backed

(* Which process is being forked.                                           *)
LEMMA ForkedIs ==
  ASSUME ForkJobs, NEW p
  PROVE  BeingForked(p) <=> \E r \in Procs : p \in forkJob[r].child
  BY DEF ForkJobs, BeingForked

(* Steps between natural numbers.                                           *)
LEMMA AtMostTrans ==
  ASSUME NEW a \in Nat, NEW b \in Nat, NEW c \in Nat, a <= b, b <= c
  PROVE  a <= c
BY SMTT(30)

LEMMA AtMostBelow ==
  ASSUME NEW a \in Nat, NEW b \in Nat, a < b
  PROVE  a <= b
BY SMTT(30)

LEMMA BelowNext ==
  ASSUME NEW a \in Nat, NEW b \in Nat, a < b + 1, a # b
  PROVE  a < b
BY SMTT(30)

(* The pages of a table begin at or before each of them.                    *)
LEMMA RowStart ==
  /\ \A k \in AllPages : DirIndex(k) * Entries <= k
  /\ \A d \in Index : d * Entries \in Nat
<1>1. Entries \in Nat \ {0} /\ Index \subseteq Nat /\ AllPages \subseteq Nat
  BY MemConstants, SMTT(30) DEF Index
<1>2. ASSUME NEW d \in Index PROVE d * Entries \in Nat
  BY <1>1, SMTT(30)
<1>3. ASSUME NEW k \in AllPages PROVE DirIndex(k) * Entries <= k
  <2>1. PICK d \in Nat, t \in Nat : d = DirIndex(k) /\ k = Entries * d + t
    BY <1>1, PageIndexes
  <2> QED BY <1>1, <2>1, SMTT(30)
<1> QED BY <1>2, <1>3

(* A step that leaves tables, contents and forks alone leaves the copies.   *)
LEMMA SameCopies ==
  ASSUME Copies, UNCHANGED <<forkJob, content, failed, expected>>,
         \A r, page : PageFrame(r, page)' = PageFrame(r, page),
         \A r, d, t : FrameAt(r, d, t)' = FrameAt(r, d, t)
  PROVE  Copies'
<1> SUFFICES ASSUME NEW p \in Procs, NEW q \in forkJob[p].child
             PROVE  Copied(p, q, forkJob[p].page)'
  BY DEF Copies
<1>1. Copied(p, q, forkJob[p].page)
  BY DEF Copies
<1> QED BY <1>1 DEF Copied

(* Reserving a page for a process that no fork is about.                    *)
LEMMA ReserveKeeps ==
  ASSUME MemInv, NEW p \in Procs, pd[p] # 0, ~BeingForked(p), forkJob[p].child = {},
         NEW g \in UserPages, DirIndex(g) \notin KernelDirs, unsafe_vmreserve(p, g),
         UNCHANGED <<pd, vbreak, cur_vbreak, forkJob, writes, expected>>,
         brkJob' \in [Procs -> [v : Nat, page : Nat]], \A r \in Procs \ {p} : brkJob'[r] = brkJob[r]
  PROVE  /\ MemType' /\ Owning' /\ Rows' /\ Breaks' /\ ForkJobs' /\ Copies'
         /\ Ranges' /\ Contents' /\ Backed' /\ (failed => failed')
         /\ \A r \in Procs, page \in AllPages : PageFrame(r, page) # 0 => PageFrame(r, page)' # 0
         /\ ~failed' => PageFrame(p, g)' # 0
<1> DEFINE Grown == /\ vfrom' = [vfrom EXCEPT ![p] = IF @ = UVNULL \/ @ > g THEN g ELSE @]
                    /\ vto' = [vto EXCEPT ![p] = IF @ = UVNULL \/ @ < g THEN g ELSE @]
<1> /\ MemType /\ Owning /\ Rows /\ Breaks /\ BrkJobs /\ ForkJobs /\ Copies
    /\ Ranges /\ Contents /\ Backed
  BY DEF MemInv
<1>2. Owning' /\ Rows' /\ MemoryTypes'
  BY ReserveEffect
<1>3. PICK f : /\ Mapped(p, g, f) /\ (f = 0 => failed')
               /\ IF PageFrame(p, g) # 0 THEN f = PageFrame(p, g) /\ vfrom' = vfrom /\ vto' = vto
                  ELSE (f # 0 => f \in freeFrames /\ content'[f] = Cleared) /\ Grown
  BY ReserveEffect
<1>4. /\ g \in Nat \ {0} /\ g \in AllPages /\ UserPages \subseteq AllPages /\ UserPages \subseteq Nat \ {0}
      /\ vfrom[p] \in Nat /\ vto[p] \in Nat
  BY MemConstants, SMTT(30) DEF MemType, UserPages
<1>5. /\ vfrom' \in [Procs -> Nat] /\ vto' \in [Procs -> Nat]
      /\ \A r \in Procs \ {p} : vfrom'[r] = vfrom[r] /\ vto'[r] = vto[r]
      /\ vfrom'[p] \in {vfrom[p], g} /\ vto'[p] \in {vto[p], g}
      /\ vfrom[p] # UVNULL => vfrom'[p] # UVNULL /\ vfrom'[p] <= vfrom[p]
      /\ vto[p] # UVNULL => vto'[p] # UVNULL
      /\ vto[p] <= vto'[p]
      /\ PageFrame(p, g) = 0 => vfrom'[p] # UVNULL /\ vfrom'[p] <= g /\ g <= vto'[p]
  <2>1. CASE PageFrame(p, g) # 0
    BY <1>3, <1>4, <2>1, SMTT(30) DEF MemType
  <2>2. CASE PageFrame(p, g) = 0
    <3>1. vfrom \in [Procs -> Nat] /\ vto \in [Procs -> Nat] /\ Grown
      BY <1>3, <2>2 DEF MemType
    <3>2. /\ vfrom' \in [Procs -> Nat] /\ vto' \in [Procs -> Nat]
          /\ \A r \in Procs \ {p} : vfrom'[r] = vfrom[r] /\ vto'[r] = vto[r]
          /\ vfrom'[p] = IF vfrom[p] = UVNULL \/ vfrom[p] > g THEN g ELSE vfrom[p]
          /\ vto'[p] = IF vto[p] = UVNULL \/ vto[p] < g THEN g ELSE vto[p]
      BY <1>4, <3>1
    <3> QED BY <1>4, <3>2, SMTT(30) DEF UVNULL
  <2> QED BY <2>1, <2>2
<1> HIDE DEF Grown
<1>6. /\ failed => failed'
      /\ ~failed' => ~failed /\ f # 0
      /\ \A r \in Procs, page \in AllPages :
           PageFrame(r, page)' = IF r = p /\ page = g THEN f ELSE PageFrame(r, page)
      /\ \A r \in Procs \ {p}, d \in Index : FrameAt(r, d, -1)' = FrameAt(r, d, -1)
  BY <1>3 DEF Mapped, MemType
<1>7. \A r \in Procs, page \in AllPages : PageFrame(r, page) # 0 => PageFrame(r, page)' # 0
  BY <1>3, <1>6
<1>8. ~failed' => PageFrame(p, g)' # 0
  BY <1>4, <1>6
<1>9. \A r \in Procs : BeingForked(r)' = BeingForked(r)
  BY DEF BeingForked
<1>10. MemType'
  BY <1>2, <1>5 DEF MemType, MemoryTypes
<1>11. Breaks'
  BY DEF Breaks
<1>12. ForkJobs'
  <2>1. \A r \in Procs : forkJob[r].child # {} => brkJob'[r] = brkJob[r]
    OBVIOUS
  <2> QED BY <2>1 DEF ForkJobs
<1>13. Copies'
  <2> SUFFICES ASSUME NEW r \in Procs, NEW q \in forkJob[r].child
               PROVE  Copied(r, q, forkJob[r].page)'
    BY DEF Copies
  <2>1. q \in Procs /\ r # p /\ q # p /\ BeingForked(q) /\ Copied(r, q, forkJob[r].page)
    <3>1. q \in Procs
      BY DEF MemType
    <3>2. BeingForked(q)
      BY DEF ForkJobs, BeingForked
    <3> QED BY <3>1, <3>2 DEF Copies
  <2>2. /\ \A page \in AllPages : /\ PageFrame(r, page)' = PageFrame(r, page)
                                  /\ PageFrame(q, page)' = PageFrame(q, page)
        /\ \A d \in Index : /\ FrameAt(r, d, -1)' = FrameAt(r, d, -1)
                            /\ FrameAt(q, d, -1)' = FrameAt(q, d, -1)
    BY <1>6, <2>1
  <2>3. \A page \in AllPages : PageFrame(q, page) # 0 => content'[PageFrame(q, page)] = content[PageFrame(q, page)]
    BY <1>3, <2>1, MappedContent
  <2> QED BY <1>4, <1>6, <2>1, <2>2, <2>3 DEF Copied
<1>14. Ranges'
  <2> SUFFICES ASSUME NEW r \in Procs, ~BeingForked(r), NEW page \in UserPages, PageFrame(r, page)' # 0
               PROVE  vfrom'[r] # UVNULL /\ vfrom'[r] <= page /\ page <= vto'[r]
    BY <1>9 DEF Ranges
  <2>1. PageFrame(r, page) # 0 => vfrom[r] # UVNULL /\ vfrom[r] <= page /\ page <= vto[r]
    BY DEF Ranges
  <2>2. CASE r # p
    BY <1>4, <1>5, <1>6, <2>1, <2>2
  <2>3. CASE r = p /\ PageFrame(r, page) # 0
    <3>1. vfrom[p] \in Nat /\ vto[p] \in Nat /\ vfrom'[p] \in Nat /\ vto'[p] \in Nat /\ page \in Nat
      BY <1>4, <1>5
    <3>2. /\ vfrom'[p] # UVNULL /\ vfrom'[p] <= vfrom[p] /\ vfrom[p] <= page
          /\ page <= vto[p] /\ vto[p] <= vto'[p]
      BY <1>5, <2>1, <2>3
    <3> QED BY <2>3, <3>1, <3>2, AtMostTrans
  <2>4. CASE r = p /\ PageFrame(r, page) = 0
    BY <1>4, <1>5, <1>6, <2>4
  <2> QED BY <2>2, <2>3, <2>4
<1>15. Contents'
  <2> SUFFICES ASSUME ~failed', NEW r \in Procs, ~BeingForked(r), NEW page \in UserPages
               PROVE  IF PageFrame(r, page)' = 0 THEN expected[r][page] = Cleared
                      ELSE content'[PageFrame(r, page)'] = expected[r][page]
    BY <1>9 DEF Contents
  <2>1. IF PageFrame(r, page) = 0 THEN expected[r][page] = Cleared
        ELSE content[PageFrame(r, page)] = expected[r][page]
    BY <1>6 DEF Contents
  <2>2. PageFrame(r, page) # 0 => content'[PageFrame(r, page)] = content[PageFrame(r, page)]
    BY <1>3, <1>4, MappedContent
  <2>3. PageFrame(r, page)' = IF r = p /\ page = g THEN f ELSE PageFrame(r, page)
    BY <1>4, <1>6
  <2>4. CASE r = p /\ page = g
    BY <1>3, <1>6, <2>1, <2>2, <2>3, <2>4
  <2>5. CASE ~(r = p /\ page = g)
    BY <2>1, <2>2, <2>3, <2>5
  <2> QED BY <2>4, <2>5
<1>16. Backed'
  BY <1>4, <1>6, <1>7 DEF Backed
<1> QED BY <1>2, <1>6, <1>7, <1>8, <1>10, <1>11, <1>12, <1>13, <1>14, <1>15, <1>16

(* A process that is made gets a directory from the free frames; no page    *)
(* and no table changes hands.                                              *)
LEMMA DirectoryEffect ==
  ASSUME MemType, Owning, Rows, NEW p \in Procs, pd[p] = 0, NEW f \in freeFrames,
         pd' = [pd EXCEPT ![p] = f], freeFrames' = freeFrames \ {f},
         dir' = [dir EXCEPT ![f] = KernelDirectory], UNCHANGED <<table, content, failed>>
  PROVE  /\ Owning' /\ Rows' /\ MemoryTypes' /\ pd' \in [Procs -> Frames]
         /\ \A r \in Procs, page \in AllPages : PageFrame(r, page)' = PageFrame(r, page)
         /\ \A r \in Procs, d \in Index : FrameAt(r, d, -1)' = FrameAt(r, d, -1)
<1>1. /\ \A r \in Procs, e, u \in Slots :
           FrameAt(r, e, u)' = IF r = p /\ e = -1 /\ u = -1 THEN f ELSE FrameAt(r, e, u)
  BY NewDirectory
<1>2. f \in Frames /\ f # 0 /\ 0 \in Slots /\ -1 \in Slots /\ 0 \in Frames /\ 0 \notin freeFrames
  BY EntryTypes, SlotFacts, MemConstants, SMTT(30) DEF MemType, Slots
<1>3. \A u : FrameAt(p, -1, u) = 0
  BY NoFrames
<1>4. Owning'
  <2>1. Placed(p, -1, -1, 0, f, 0)
    BY <1>1, <1>2, <1>3 DEF Placed
  <2>2. freeFrames' = freeFrames \ {f, 0}
    BY <1>2
  <2> QED BY <1>2, <1>3, <2>1, <2>2, OwningStep, SMTT(30)
<1>5. /\ dir' \in [Frames -> [Index -> Ent]]
      /\ \A x \in Frames \ {f} : dir'[x] = dir[x]
      /\ \A i \in Index : dir'[f][i] = IF i \in KernelDirs THEN Entry(0) ELSE Absent
  <2>1. KernelDirectory \in [Index -> Ent]
    BY <1>2, EntryTypes DEF KernelDirectory
  <2>2. dir \in [Frames -> [Index -> Ent]]
    BY DEF MemType
  <2>3. dir' \in [Frames -> [Index -> Ent]] /\ dir'[f] = KernelDirectory /\ \A x \in Frames \ {f} : dir'[x] = dir[x]
    BY <1>2, <2>1, <2>2
  <2> QED BY <2>3 DEF KernelDirectory
<1>6. Rows'
  <2>1. ASSUME NEW x \in Frames, NEW i \in Index
        PROVE  /\ dir'[x][i].frame # 0 => dir'[x][i].present
               /\ ~failed' /\ i \notin KernelDirs /\ dir'[x][i].present => dir'[x][i].frame # 0
    <3>1. CASE x = f
      BY <1>2, <1>5, <3>1, EntryTypes
    <3>2. CASE x # f
      BY <1>5, <3>2 DEF Rows
    <3> QED BY <3>1, <3>2
  <2> QED BY <2>1 DEF Rows
<1>7. MemoryTypes' /\ pd' \in [Procs -> Frames]
  BY <1>2, <1>5 DEF MemType, MemoryTypes
<1>8. \A r \in Procs, page \in AllPages : PageFrame(r, page)' = PageFrame(r, page)
  BY <1>1, PageIndexes, SlotFacts DEF PageFrame
<1>9. \A r \in Procs, d \in Index : FrameAt(r, d, -1)' = FrameAt(r, d, -1)
  BY <1>1, SlotFacts
<1> QED BY <1>4, <1>6, <1>7, <1>8, <1>9

LEMMA AllocKeeps ==
  ASSUME MemInv, NEW p \in Procs, proc_alloc(p)
  PROVE  MemInv'
<1> DEFINE f == NextFrame(freeFrames)
<1>1. /\ pd[p] = 0 /\ f # 0 /\ pd' = [pd EXCEPT ![p] = f] /\ freeFrames' = freeFrames \ {f}
      /\ dir' = [dir EXCEPT ![f] = KernelDirectory]
      /\ UNCHANGED <<table, content, vfrom, vto, vbreak, cur_vbreak, brkJob, forkJob, writes, failed, expected>>
  BY DEF proc_alloc
<1> /\ MemType /\ Owning /\ Rows /\ Breaks /\ BrkJobs /\ ForkJobs /\ Copies
    /\ Ranges /\ Contents /\ Backed
  BY DEF MemInv
<1>3. f \in freeFrames
  BY <1>1, NextFrameIs
<1> HIDE DEF f
<1>4. /\ Owning' /\ Rows' /\ MemoryTypes' /\ pd' \in [Procs -> Frames]
      /\ \A r \in Procs, page \in AllPages : PageFrame(r, page)' = PageFrame(r, page)
      /\ \A r \in Procs, d \in Index : FrameAt(r, d, -1)' = FrameAt(r, d, -1)
  BY <1>1, <1>3, DirectoryEffect
<1>5. UserPages \subseteq AllPages /\ \A r \in Procs : BeingForked(r)' = BeingForked(r)
  BY <1>1, MemConstants DEF BeingForked
<1>6. \A r \in Procs : pd[r] # 0 => pd'[r] # 0
  BY <1>1 DEF MemType
<1>7. MemType'
  BY <1>1, <1>4 DEF MemType, MemoryTypes
<1>8. Breaks'
  BY <1>1, <1>6 DEF Breaks
<1>9. BrkJobs'
  BY <1>1, <1>4, <1>5 DEF BrkJobs
<1>10. ForkJobs'
  <2>1. \A r \in Procs, q \in Procs : q \in forkJob[r].child => pd'[q] # 0
    BY <1>6 DEF ForkJobs
  <2>2. \A r \in Procs : forkJob[r].child \subseteq Procs
    BY DEF MemType
  <2> QED BY <1>1, <2>1, <2>2 DEF ForkJobs
<1>11. Copies'
  <2>1. \A r \in Procs : forkJob[r].child \subseteq Procs
    BY DEF MemType
  <2> QED BY <1>1, <1>4, <1>5, <2>1, SMTT(30) DEF Copies, Copied
<1>12. Ranges'
  BY <1>1, <1>4, <1>5 DEF Ranges
<1>13. Contents'
  BY <1>1, <1>4, <1>5 DEF Contents
<1>14. Backed'
  BY <1>1, <1>4, <1>5 DEF Backed
<1> QED BY <1>4, <1>7, <1>8, <1>9, <1>10, <1>11, <1>12, <1>13, <1>14 DEF MemInv

LEMMA ForkStartKeeps ==
  ASSUME MemInv, NEW p \in Procs, NEW q \in Procs, ForkStart(p, q)
  PROVE  MemInv'
<1> DEFINE f == NextFrame(freeFrames)
<1>1. /\ Running(p) /\ pd[q] = 0 /\ f # 0 /\ pd' = [pd EXCEPT ![q] = f] /\ freeFrames' = freeFrames \ {f}
      /\ dir' = [dir EXCEPT ![f] = KernelDirectory]
      /\ forkJob' = [forkJob EXCEPT ![p] = [child |-> {q}, page |-> 0]]
      /\ UNCHANGED <<table, content, vfrom, vto, vbreak, cur_vbreak, brkJob, writes, failed, expected>>
  BY DEF ForkStart
<1> /\ MemType /\ Owning /\ Rows /\ Breaks /\ BrkJobs /\ ForkJobs /\ Copies
    /\ Ranges /\ Contents /\ Backed
  BY DEF MemInv
<1>3. f \in freeFrames
  BY <1>1, NextFrameIs
<1> HIDE DEF f
<1>4. /\ Owning' /\ Rows' /\ MemoryTypes' /\ pd' \in [Procs -> Frames]
      /\ \A r \in Procs, page \in AllPages : PageFrame(r, page)' = PageFrame(r, page)
      /\ \A r \in Procs, d \in Index : FrameAt(r, d, -1)' = FrameAt(r, d, -1)
  BY <1>1, <1>3, DirectoryEffect
<1>5. /\ forkJob[p] = NoFork /\ brkJob[p] = NoJob /\ vbreak[p] # UVNULL /\ pd[p] # 0
      /\ vbreak[q] = UVNULL /\ \A r \in Procs : q \notin forkJob[r].child
  BY <1>1 DEF Running, Unlocked, Breaks, ForkJobs
<1>6. /\ forkJob' \in [Procs -> [child : SUBSET Procs, page : Nat]]
      /\ forkJob'[p] = [child |-> {q}, page |-> 0]
      /\ \A r \in Procs \ {p} : forkJob'[r] = forkJob[r]
  BY <1>1 DEF MemType
<1>7. /\ UserPages \subseteq AllPages /\ AllPages \subseteq Nat /\ Entries * Entries \in Nat
  BY MemConstants
<1>8. \A r \in Procs : pd[r] # 0 => pd'[r] # 0
  BY <1>1 DEF MemType
<1>9. pd'[q] # 0
  BY <1>1, <1>3 DEF MemType
<1>10. \A r \in Procs : BeingForked(r) => BeingForked(r)'
  <2> SUFFICES ASSUME NEW r \in Procs, NEW s \in Procs, forkJob[s].child = {r}
               PROVE  \E a \in Procs : forkJob'[a].child = {r}
    BY DEF BeingForked
  <2>1. s # p
    BY <1>5, SMTT(30) DEF NoFork
  <2> QED BY <1>6, <2>1
<1>11. MemType'
  BY <1>1, <1>4, <1>6 DEF MemType, MemoryTypes
<1>12. Breaks'
  BY <1>1, <1>8 DEF Breaks
<1>13. BrkJobs'
  BY <1>1, <1>4, <1>7 DEF BrkJobs
<1>14. ForkJobs'
  <2> SUFFICES ASSUME NEW r \in Procs
               PROVE  /\ forkJob'[r].child = {} => forkJob'[r] = NoFork
                      /\ \A s \in forkJob'[r].child :
                           /\ forkJob'[r].child = {s} /\ pd'[s] # 0 /\ vbreak[s] = UVNULL
                           /\ vbreak[r] # UVNULL /\ brkJob[r] = NoJob /\ forkJob'[r].page <= Entries * Entries
                           /\ \A a \in Procs : s \in forkJob'[a].child => a = r
    BY <1>1, SMTT(30) DEF ForkJobs
  <2>1. CASE r = p
    BY <1>5, <1>6, <1>7, <1>9, <2>1, SMTT(30)
  <2>2. CASE r # p
    <3>1. forkJob'[r] = forkJob[r] /\ forkJob[r].child \subseteq Procs
      BY <1>6, <2>2 DEF MemType
    <3>2. ASSUME NEW s \in forkJob[r].child
          PROVE  pd'[s] # 0 /\ \A a \in Procs : s \in forkJob'[a].child => a = r
      <4>1. pd[s] # 0 /\ s \in Procs /\ \A a \in Procs : s \in forkJob[a].child => a = r
        BY <3>1 DEF ForkJobs
      <4>2. s # q
        BY <1>1, <4>1
      <4> QED BY <1>6, <1>8, <4>1, <4>2, SMTT(30)
    <3> QED BY <3>1, <3>2, SMTT(30) DEF ForkJobs
  <2> QED BY <2>1, <2>2
<1>15. Copies'
  <2> SUFFICES ASSUME NEW r \in Procs, NEW s \in forkJob'[r].child
               PROVE  Copied(r, s, forkJob[r].page)'
    BY DEF Copies
  <2>1. CASE r = p
    <3>1. s = q /\ forkJob'[r].page = 0
      BY <1>6, <2>1, SMTT(30)
    <3>2. \A d, t : FrameAt(q, d, t) = 0
      BY <1>1, NoFrames
    <3>3. /\ \A d \in Index : FrameAt(q, d, -1)' = 0 /\ d \in Nat /\ ~(d * Entries < 0)
          /\ \A page \in AllPages : PageFrame(q, page)' = 0 /\ ~(page < 0)
      <4>1. \A d \in Index : d \in Nat /\ ~(d * Entries < 0)
        BY MemConstants, SMTT(30) DEF Index
      <4>2. \A page \in AllPages : ~(page < 0)
        BY <1>7, SMTT(30)
      <4> QED BY <1>4, <3>2, <4>1, <4>2 DEF PageFrame
    <3> QED BY <1>7, <3>1, <3>3 DEF Copied
  <2>2. CASE r # p
    <3>1. forkJob'[r] = forkJob[r] /\ s \in Procs /\ Copied(r, s, forkJob[r].page)
      BY <1>6, <2>2 DEF MemType, Copies
    <3> QED BY <1>1, <1>4, <1>7, <3>1 DEF Copied
  <2> QED BY <2>1, <2>2
<1>16. Ranges'
  BY <1>1, <1>4, <1>7, <1>10 DEF Ranges
<1>17. Contents'
  <2> SUFFICES ASSUME ~failed, NEW r \in Procs, ~BeingForked(r), NEW page \in UserPages
               PROVE  IF PageFrame(r, page)' = 0 THEN expected[r][page] = Cleared
                      ELSE content[PageFrame(r, page)'] = expected[r][page]
    BY <1>1, <1>10 DEF Contents
  <2> QED BY <1>4, <1>7 DEF Contents
<1>18. Backed'
  BY <1>1, <1>4, <1>7 DEF Backed
<1> QED BY <1>4, <1>11, <1>12, <1>13, <1>14, <1>15, <1>16, <1>17, <1>18 DEF MemInv

(* A page more is copied.                                                   *)
LEMMA CopiedNext ==
  ASSUME MemType, Owning, NEW p \in Procs, NEW q \in Procs, p # q, NEW k \in AllPages, Copied(p, q, k),
         ~failed => \A page \in UserPages :
           PageFrame(p, page) # 0 => content[PageFrame(p, page)] = expected[p][page],
         expected' = expected, NEW f, Mapped(q, k, f),
         \A d \in Index \ {DirIndex(k)} : FrameAt(q, d, -1)' = FrameAt(q, d, -1),
         ~failed' /\ FrameAt(p, DirIndex(k), -1) # 0 => FrameAt(q, DirIndex(k), -1)' # 0,
         f # 0 => PageFrame(p, k) # 0 /\ content'[f] = content[PageFrame(p, k)],
         ~failed' /\ PageFrame(p, k) # 0 => f # 0
  PROVE  Copied(p, q, k + 1)'
<1> DEFINE e == DirIndex(k)
<1>1. e \in Index /\ k = Entries * e + TableIndex(k) /\ TableIndex(k) \in Index
  BY PageIndexes
<1>2. /\ k \in Nat /\ Entries \in Nat \ {0} /\ Index \subseteq Nat /\ AllPages \subseteq Nat
      /\ UserPages \subseteq AllPages
  BY MemConstants, SMTT(30) DEF Index
<1> HIDE DEF e
<1>3. /\ \A d \in Index : FrameAt(p, d, -1)' = FrameAt(p, d, -1)
      /\ \A page \in AllPages : PageFrame(p, page)' = PageFrame(p, page)
      /\ \A page \in AllPages : PageFrame(q, page)' = IF page = k THEN f ELSE PageFrame(q, page)
      /\ ~failed' => ~failed
  BY DEF Mapped, MemType
<1>4. e * Entries <= k
  BY RowStart DEF e
<1>5. ASSUME NEW d \in Index, d * Entries >= k + 1
      PROVE  FrameAt(q, d, -1)' = 0
  <2>1. d # e /\ d * Entries >= k
    BY <1>1, <1>2, <1>4, <1>5, SMTT(30)
  <2> QED BY <2>1 DEF Copied, e
<1>6. ASSUME NEW page \in AllPages, PageFrame(q, page)' # 0
      PROVE  page < k + 1 /\ PageFrame(p, page)' # 0
  <2>1. CASE page = k
    BY <1>2, <1>3, <1>6, <2>1, SMTT(30)
  <2>2. CASE page # k
    BY <1>2, <1>3, <1>6, <2>2, SMTT(30) DEF Copied
  <2> QED BY <2>1, <2>2
<1>7. ASSUME ~failed', NEW d \in Index, d * Entries < k + 1, FrameAt(p, d, -1)' # 0
      PROVE  FrameAt(q, d, -1)' # 0
  <2>1. CASE d = e
    BY <1>1, <1>3, <1>7, <2>1 DEF e
  <2>2. CASE d # e
    <3>1. d * Entries # k
      BY <2>2, FirstPage DEF e
    <3>2. d * Entries < k
      BY <1>2, <1>7, <3>1, RowStart, BelowNext
    <3> QED BY <1>3, <1>7, <2>2, <3>2 DEF Copied, e
  <2> QED BY <2>1, <2>2
<1>8. ASSUME ~failed', NEW page \in AllPages, page < k + 1, PageFrame(p, page)' # 0
      PROVE  PageFrame(q, page)' # 0
  <2>1. CASE page = k
    BY <1>3, <1>8, <2>1
  <2>2. CASE page # k
    <3>1. page < k
      BY <1>2, <1>8, <2>2, BelowNext
    <3> QED BY <1>3, <1>8, <2>2, <3>1 DEF Copied
  <2> QED BY <2>1, <2>2
<1>9. ASSUME ~failed', NEW page \in UserPages, PageFrame(q, page)' # 0
      PROVE  content'[PageFrame(q, page)'] = expected[p][page]
  <2>1. page \in AllPages
    BY <1>2
  <2>2. CASE page = k
    BY <1>3, <1>9, <2>1, <2>2
  <2>3. CASE page # k
    <3>1. PageFrame(q, page)' = PageFrame(q, page)
      BY <1>3, <2>1, <2>3
    <3>2. content'[PageFrame(q, page)] = content[PageFrame(q, page)]
      BY <1>9, <2>1, <3>1, MappedContent
    <3> QED BY <1>3, <1>9, <3>1, <3>2 DEF Copied
  <2> QED BY <2>2, <2>3
<1> QED BY <1>5, <1>6, <1>7, <1>8, <1>9 DEF Copied

LEMMA ForkPageKeeps ==
  ASSUME MemInv, NEW p \in Procs, ForkPage(p)
  PROVE  MemInv'
<1> /\ MemType /\ Owning /\ Rows /\ Breaks /\ BrkJobs /\ ForkJobs /\ Copies
    /\ Ranges /\ Contents /\ Backed
  BY DEF MemInv
<1>2. PICK q \in forkJob[p].child :
        /\ forkJob[p].page < Entries * Entries
        /\ vmdup(p, q, forkJob[p].page)
        /\ forkJob' = [forkJob EXCEPT ![p].page = @ + 1]
        /\ UNCHANGED <<pd, vfrom, vto, vbreak, cur_vbreak, brkJob, writes, expected>>
  BY DEF ForkPage
<1>0. PICK k : k = forkJob[p].page
  OBVIOUS
<1>3. /\ forkJob[p].child = {q} /\ q \in Procs /\ k \in Nat /\ k + 1 <= Entries * Entries /\ k \in AllPages
      /\ UserPages \subseteq AllPages
  BY <1>0, <1>2, MemConstants, SMTT(30) DEF MemType, ForkJobs, AllPages
<1>4. /\ pd[q] # 0 /\ vbreak[q] = UVNULL /\ vbreak[p] # UVNULL /\ brkJob[p] = NoJob /\ pd[p] # 0 /\ p # q
      /\ \A r \in Procs : q \in forkJob[r].child => r = p
  BY <1>3 DEF ForkJobs, Breaks
<1>5. Copied(p, q, k)
  BY <1>0 DEF Copies
<1>6. vmdup(p, q, k)
  BY <1>0, <1>2
<1>7. /\ forkJob' \in [Procs -> [child : SUBSET Procs, page : Nat]]
      /\ forkJob'[p].child = {q} /\ forkJob'[p].page = k + 1
      /\ \A r \in Procs \ {p} : forkJob'[r] = forkJob[r]
  <2>1. forkJob \in [Procs -> [child : SUBSET Procs, page : Nat]]
    BY DEF MemType
  <2>2. forkJob' = [forkJob EXCEPT ![p] = [child |-> {q}, page |-> k + 1]]
    <3>1. forkJob[p] \in [child : SUBSET Procs, page : Nat]
      BY <2>1
    <3>2. [forkJob[p] EXCEPT !.page = @ + 1] = [child |-> {q}, page |-> k + 1]
      <4>1. [forkJob[p] EXCEPT !.page = @ + 1] = [child |-> forkJob[p].child, page |-> forkJob[p].page + 1]
        BY <3>1, SMTT(30)
      <4> QED BY <1>0, <1>3, <4>1
    <3> QED BY <1>2, <3>2
  <2> QED BY <1>3, <2>1, <2>2, SMTT(30)
<1>8. /\ Owning' /\ Rows' /\ MemoryTypes'
      /\ \A d \in Index \ {DirIndex(k)} : FrameAt(q, d, -1)' = FrameAt(q, d, -1)
      /\ ~failed' /\ FrameAt(p, DirIndex(k), -1) # 0 => FrameAt(q, DirIndex(k), -1)' # 0
  BY <1>2, <1>3, <1>4, <1>5, <1>6, DupEffect, SMTT(30)
<1>9. PICK f : /\ Mapped(q, k, f)
               /\ f # 0 => /\ f \in freeFrames /\ PageFrame(p, k) # 0
                           /\ content'[f] = content[PageFrame(p, k)]
               /\ ~failed' /\ PageFrame(p, k) # 0 => f # 0
  BY <1>2, <1>3, <1>4, <1>5, <1>6, DupEffect, SMTT(30)
<1>10. /\ ~failed' => ~failed
       /\ \A r \in Procs \ {q}, page \in AllPages : PageFrame(r, page)' = PageFrame(r, page)
       /\ \A r \in Procs \ {q}, d \in Index : FrameAt(r, d, -1)' = FrameAt(r, d, -1)
  BY <1>9 DEF Mapped, MemType
<1>11. \A r \in Procs : BeingForked(r)' = BeingForked(r)
  BY <1>3, <1>7 DEF BeingForked
<1>12. BeingForked(q) /\ ~BeingForked(p)
  BY <1>3, <1>4 DEF BeingForked, ForkJobs
<1>13. MemType'
  BY <1>2, <1>7, <1>8 DEF MemType, MemoryTypes
<1>14. Breaks'
  BY <1>2 DEF Breaks
<1>15. BrkJobs'
  <2>1. \A r \in Procs : brkJob[r] # NoJob => r # q
    BY <1>4 DEF BrkJobs
  <2> QED BY <1>2, <1>3, <1>10, <2>1 DEF BrkJobs
<1>16. ForkJobs'
  <2> SUFFICES ASSUME NEW r \in Procs
               PROVE  /\ forkJob'[r].child = {} => forkJob'[r] = NoFork
                      /\ \A s \in forkJob'[r].child :
                           /\ forkJob'[r].child = {s} /\ pd[s] # 0 /\ vbreak[s] = UVNULL
                           /\ vbreak[r] # UVNULL /\ brkJob[r] = NoJob /\ forkJob'[r].page <= Entries * Entries
                           /\ \A a \in Procs : s \in forkJob'[a].child => a = r
    BY <1>2, SMTT(30) DEF ForkJobs
  <2>1. \A a \in Procs : forkJob'[a].child = forkJob[a].child
    BY <1>3, <1>7
  <2>2. CASE r = p
    BY <1>3, <1>4, <1>7, <2>1, <2>2
  <2>3. CASE r # p
    BY <1>7, <2>1, <2>3, SMTT(30) DEF ForkJobs
  <2> QED BY <2>2, <2>3
<1>17. Copies'
  <2> SUFFICES ASSUME NEW r \in Procs, NEW s \in forkJob'[r].child
               PROVE  Copied(r, s, forkJob[r].page)'
    BY DEF Copies
  <2>1. CASE r = p
    <3>1. s = q /\ forkJob'[r].page = k + 1
      BY <1>7, <2>1
    <3>2. ~failed => \A page \in UserPages :
            PageFrame(p, page) # 0 => content[PageFrame(p, page)] = expected[p][page]
      BY <1>12 DEF Contents
    <3>3. Copied(p, q, k + 1)'
      BY <1>2, <1>3, <1>4, <1>5, <1>8, <1>9, <3>2, CopiedNext
    <3> QED BY <2>1, <3>1, <3>3
  <2>2. CASE r # p
    <3>1. forkJob'[r] = forkJob[r] /\ s \in Procs /\ Copied(r, s, forkJob[r].page)
      BY <1>7, <2>2 DEF MemType, Copies
    <3>2. r # q /\ s # q
      BY <1>4, <2>2, <3>1, SMTT(30) DEF ForkJobs
    <3>3. \A page \in AllPages : PageFrame(s, page) # 0 => content'[PageFrame(s, page)] = content[PageFrame(s, page)]
      BY <1>9, <3>1, MappedContent
    <3> QED BY <1>2, <1>3, <1>10, <3>1, <3>2, <3>3 DEF Copied
  <2> QED BY <2>1, <2>2
<1>18. Ranges'
  <2>1. \A r \in Procs : ~BeingForked(r) => r # q
    BY <1>12
  <2> QED BY <1>2, <1>3, <1>10, <1>11, <2>1 DEF Ranges
<1>19. Contents'
  <2> SUFFICES ASSUME ~failed', NEW r \in Procs, ~BeingForked(r), NEW page \in UserPages
               PROVE  IF PageFrame(r, page)' = 0 THEN expected[r][page] = Cleared
                      ELSE content'[PageFrame(r, page)'] = expected[r][page]
    BY <1>2, <1>11 DEF Contents
  <2>1. PageFrame(r, page)' = PageFrame(r, page)
    BY <1>3, <1>10, <1>12
  <2>2. PageFrame(r, page) # 0 => content'[PageFrame(r, page)] = content[PageFrame(r, page)]
    BY <1>3, <1>9, MappedContent
  <2> QED BY <1>10, <2>1, <2>2 DEF Contents
<1>20. Backed'
  <2>1. \A r \in Procs : vbreak[r] # UVNULL => r # q
    BY <1>4
  <2> QED BY <1>2, <1>3, <1>10, <2>1 DEF Backed
<1> QED BY <1>8, <1>13, <1>14, <1>15, <1>16, <1>17, <1>18, <1>19, <1>20 DEF MemInv

LEMMA ForkReturnKeeps ==
  ASSUME MemInv, NEW p \in Procs, ForkReturn(p)
  PROVE  MemInv'
<1> /\ MemType /\ Owning /\ Rows /\ Breaks /\ BrkJobs /\ ForkJobs /\ Copies
    /\ Ranges /\ Contents /\ Backed
  BY DEF MemInv
<1>2. PICK q \in forkJob[p].child :
        /\ forkJob[p].page = Entries * Entries
        /\ vfrom' = [vfrom EXCEPT ![q] = vfrom[p]] /\ vto' = [vto EXCEPT ![q] = vto[p]]
        /\ vbreak' = [vbreak EXCEPT ![q] = vbreak[p]]
        /\ cur_vbreak' = [cur_vbreak EXCEPT ![q] = cur_vbreak[p]]
        /\ expected' = [expected EXCEPT ![q] = expected[p]]
        /\ forkJob' = [forkJob EXCEPT ![p] = NoFork]
        /\ UNCHANGED <<freeFrames, pd, dir, table, content, brkJob, writes, failed>>
  BY DEF ForkReturn
<1>3. /\ forkJob[p].child = {q} /\ q \in Procs
      /\ pd[q] # 0 /\ vbreak[q] = UVNULL /\ vbreak[p] # UVNULL /\ brkJob[p] = NoJob /\ pd[p] # 0 /\ p # q
      /\ \A r \in Procs : q \in forkJob[r].child => r = p
      /\ brkJob[q] = NoJob /\ forkJob[q].child = {}
  <2>1. /\ forkJob[p].child = {q} /\ pd[q] # 0 /\ vbreak[q] = UVNULL /\ vbreak[p] # UVNULL
        /\ brkJob[p] = NoJob /\ \A r \in Procs : q \in forkJob[r].child => r = p
    BY DEF ForkJobs
  <2>2. q \in Procs
    BY DEF MemType
  <2>3. pd[p] # 0 /\ p # q
    BY <2>1 DEF Breaks
  <2>4. brkJob[q] = NoJob
    BY <2>1, <2>2 DEF BrkJobs
  <2>5. forkJob[q].child = {}
    BY <2>1, <2>2 DEF ForkJobs
  <2> QED BY <2>1, <2>2, <2>3, <2>4, <2>5
<1>4. Copied(p, q, Entries * Entries)
  BY <1>2 DEF Copies
<1>5. /\ vfrom' \in [Procs -> Nat] /\ vto' \in [Procs -> Nat]
      /\ vbreak' \in [Procs -> Nat] /\ cur_vbreak' \in [Procs -> Nat]
      /\ expected' \in [Procs -> [UserPages -> [Offsets -> Values]]]
      /\ vfrom'[q] = vfrom[p] /\ vto'[q] = vto[p] /\ vbreak'[q] = vbreak[p]
      /\ cur_vbreak'[q] = cur_vbreak[p] /\ expected'[q] = expected[p]
      /\ \A r \in Procs \ {q} : /\ vfrom'[r] = vfrom[r] /\ vto'[r] = vto[r] /\ vbreak'[r] = vbreak[r]
                                /\ cur_vbreak'[r] = cur_vbreak[r] /\ expected'[r] = expected[r]
  BY <1>2, <1>3 DEF MemType
<1>6. /\ forkJob' \in [Procs -> [child : SUBSET Procs, page : Nat]]
      /\ forkJob'[p].child = {} /\ forkJob'[p] = NoFork
      /\ \A r \in Procs \ {p} : forkJob'[r] = forkJob[r]
  BY <1>2 DEF MemType, NoFork
<1>7. Owning' /\ Rows'
  BY <1>2, SameOwning
<1>8. /\ \A r, page : PageFrame(r, page)' = PageFrame(r, page)
      /\ \A r, d, t : FrameAt(r, d, t)' = FrameAt(r, d, t)
  BY <1>2, SameFrames
<1>9. MemType'
  BY <1>2, <1>5, <1>6 DEF MemType
<1>10. UserPages \subseteq AllPages /\ \A page \in UserPages : page < Entries * Entries
  BY MemConstants, SMTT(30) DEF UserPages, AllPages
<1>11. ~BeingForked(p) /\ ~BeingForked(p)' /\ \A r \in Procs \ {q} : BeingForked(r)' = BeingForked(r)
  <2>1. ~BeingForked(p)
    BY <1>3 DEF BeingForked, ForkJobs
  <2>2. \A r \in Procs \ {q} : BeingForked(r)' = BeingForked(r)
    <3>1. ASSUME NEW r \in Procs \ {q} PROVE BeingForked(r)' <=> BeingForked(r)
      BY <1>3, <1>6, <3>1 DEF BeingForked
    <3> QED BY <3>1 DEF BeingForked
  <2> QED BY <1>3, <2>1, <2>2
<1>12. Breaks'
  <2> SUFFICES ASSUME NEW r \in Procs
               PROVE  /\ pd[r] = 0 => vbreak'[r] = UVNULL
                      /\ vbreak'[r] # UVNULL =>
                           /\ BytesPerPage <= vbreak'[r] /\ vbreak'[r] <= cur_vbreak'[r]
                           /\ cur_vbreak'[r] # vbreak'[r] => cur_vbreak'[r] \in Addresses
    BY <1>2 DEF Breaks
  <2>1. CASE r = q
    BY <1>3, <1>5, <2>1 DEF Breaks
  <2>2. CASE r # q
    BY <1>5, <2>2 DEF Breaks
  <2> QED BY <2>1, <2>2
<1>13. BrkJobs'
  <2>1. \A r \in Procs : brkJob[r] # NoJob => vbreak'[r] = vbreak[r]
    BY <1>3, <1>5
  <2> QED BY <1>2, <1>8, <2>1 DEF BrkJobs
<1>14. ForkJobs'
  <2> SUFFICES ASSUME NEW r \in Procs
               PROVE  /\ forkJob'[r].child = {} => forkJob'[r] = NoFork
                      /\ \A s \in forkJob'[r].child :
                           /\ forkJob'[r].child = {s} /\ pd[s] # 0 /\ vbreak'[s] = UVNULL
                           /\ vbreak'[r] # UVNULL /\ brkJob[r] = NoJob /\ forkJob'[r].page <= Entries * Entries
                           /\ \A a \in Procs : s \in forkJob'[a].child => a = r
    BY <1>2, SMTT(30) DEF ForkJobs
  <2>1. CASE r = p
    BY <1>6, <2>1
  <2>2. CASE r # p
    <3>1. forkJob'[r] = forkJob[r] /\ forkJob[r].child \subseteq Procs
      BY <1>6, <2>2 DEF MemType
    <3>2. ASSUME NEW s \in forkJob[r].child
          PROVE  s # q /\ r # q /\ vbreak'[s] = vbreak[s] /\ vbreak'[r] = vbreak[r]
      BY <1>3, <1>5, <2>2, <3>1, <3>2
    <3>3. \A a \in Procs : forkJob'[a].child \subseteq forkJob[a].child
      BY <1>6
    <3> QED BY <3>1, <3>2, <3>3, SMTT(30) DEF ForkJobs
  <2> QED BY <2>1, <2>2
<1>15. Copies'
  <2> SUFFICES ASSUME NEW r \in Procs, NEW s \in forkJob'[r].child
               PROVE  Copied(r, s, forkJob[r].page)'
    BY DEF Copies
  <2>1. r # p /\ forkJob'[r] = forkJob[r] /\ s \in Procs /\ Copied(r, s, forkJob[r].page)
    BY <1>6 DEF MemType, Copies
  <2>2. r # q
    BY <1>3, <2>1
  <2> QED BY <1>2, <1>5, <1>8, <2>1, <2>2 DEF Copied
<1>16. Ranges'
  <2> SUFFICES ASSUME NEW r \in Procs, ~BeingForked(r)', NEW page \in UserPages, PageFrame(r, page) # 0
               PROVE  vfrom'[r] # UVNULL /\ vfrom'[r] <= page /\ page <= vto'[r]
    BY <1>8 DEF Ranges
  <2>1. CASE r = q
    <3>1. PageFrame(p, page) # 0
      BY <1>4, <1>10, <2>1 DEF Copied
    <3> QED BY <1>5, <1>11, <2>1, <3>1 DEF Ranges
  <2>2. CASE r # q
    BY <1>5, <1>11, <2>2 DEF Ranges
  <2> QED BY <2>1, <2>2
<1>17. Contents'
  <2> SUFFICES ASSUME ~failed, NEW r \in Procs, ~BeingForked(r)', NEW page \in UserPages
               PROVE  IF PageFrame(r, page) = 0 THEN expected'[r][page] = Cleared
                      ELSE content[PageFrame(r, page)] = expected'[r][page]
    BY <1>2, <1>8 DEF Contents
  <2>1. CASE r = q
    <3>1. CASE PageFrame(q, page) = 0
      <4>1. PageFrame(p, page) = 0
        BY <1>4, <1>10, <3>1 DEF Copied
      <4>2. expected[p][page] = Cleared
        BY <1>11, <4>1 DEF Contents
      <4> QED BY <1>5, <2>1, <3>1, <4>2
    <3>2. CASE PageFrame(q, page) # 0
      BY <1>4, <1>5, <2>1, <3>2 DEF Copied
    <3> QED BY <3>1, <3>2
  <2>2. CASE r # q
    <3>1. ~BeingForked(r) /\ expected'[r] = expected[r]
      BY <1>5, <1>11, <2>2
    <3> QED BY <3>1 DEF Contents
  <2> QED BY <2>1, <2>2
<1>18. Backed'
  <2> SUFFICES ASSUME ~failed, NEW r \in Procs,
                      vbreak'[r] # UVNULL, cur_vbreak'[r] # vbreak'[r], NEW page \in UserPages,
                      PageOf(vbreak'[r]) <= page, page <= PageOf(cur_vbreak'[r])
               PROVE  PageFrame(r, page) # 0
    BY <1>2, <1>8 DEF Backed
  <2>1. CASE r = q
    <3>1. PageFrame(p, page) # 0
      BY <1>3, <1>5, <2>1 DEF Backed
    <3> QED BY <1>4, <1>10, <2>1, <3>1 DEF Copied
  <2>2. CASE r # q
    BY <1>5, <2>2 DEF Backed
  <2> QED BY <2>1, <2>2
<1> QED BY <1>7, <1>9, <1>12, <1>13, <1>14, <1>15, <1>16, <1>17, <1>18 DEF MemInv

LEMMA SetBreakKeeps ==
  ASSUME MemInv, NEW p \in Procs, proc_set_break(p)
  PROVE  MemInv'
<1> /\ MemType /\ Owning /\ Rows /\ Breaks /\ BrkJobs /\ ForkJobs /\ Copies
    /\ Ranges /\ Contents /\ Backed
  BY DEF MemInv
<1>2. /\ Unlocked(p) /\ vbreak[p] = UVNULL /\ vto[p] # UVNULL
      /\ vbreak' = [vbreak EXCEPT ![p] = (vto[p] + 1) * BytesPerPage]
      /\ cur_vbreak' = [cur_vbreak EXCEPT ![p] = (vto[p] + 1) * BytesPerPage]
      /\ UNCHANGED <<freeFrames, pd, dir, table, content, vfrom, vto, brkJob, forkJob, writes, failed, expected>>
  BY DEF proc_set_break
<1>3. PICK b : b = (vto[p] + 1) * BytesPerPage
  OBVIOUS
<1>5. b \in Nat /\ BytesPerPage <= b
  <2>1. vto[p] \in Nat /\ BytesPerPage \in Nat
    BY MemConstants DEF MemType
  <2> QED BY <1>3, <2>1, SMTT(30)
<1>6. /\ vbreak' \in [Procs -> Nat] /\ cur_vbreak' \in [Procs -> Nat]
      /\ vbreak'[p] = b /\ cur_vbreak'[p] = b
      /\ \A r \in Procs \ {p} : vbreak'[r] = vbreak[r] /\ cur_vbreak'[r] = cur_vbreak[r]
  BY <1>2, <1>3, <1>5 DEF MemType
<1>7. Owning' /\ Rows'
  BY <1>2, SameOwning
<1>8. /\ \A r, page : PageFrame(r, page)' = PageFrame(r, page)
      /\ \A r, d, t : FrameAt(r, d, t)' = FrameAt(r, d, t)
  BY <1>2, SameFrames
<1>9. MemType'
  BY <1>2, <1>6 DEF MemType
<1>10. /\ pd[p] # 0 /\ brkJob[p] = NoJob /\ forkJob[p] = NoFork /\ ~BeingForked(p)
       /\ \A r \in Procs : BeingForked(r)' = BeingForked(r)
  BY <1>2 DEF Unlocked, BeingForked
<1>11. Breaks'
  <2> SUFFICES ASSUME NEW r \in Procs
               PROVE  /\ pd[r] = 0 => vbreak'[r] = UVNULL
                      /\ vbreak'[r] # UVNULL =>
                           /\ BytesPerPage <= vbreak'[r] /\ vbreak'[r] <= cur_vbreak'[r]
                           /\ cur_vbreak'[r] # vbreak'[r] => cur_vbreak'[r] \in Addresses
    BY <1>2 DEF Breaks
  <2>1. CASE r = p
    BY <1>5, <1>6, <1>10, <2>1, SMTT(30)
  <2>2. CASE r # p
    BY <1>6, <2>2 DEF Breaks
  <2> QED BY <2>1, <2>2
<1>12. BrkJobs'
  <2>1. \A r \in Procs : brkJob[r] # NoJob => vbreak'[r] = vbreak[r]
    BY <1>6, <1>10
  <2> QED BY <1>2, <1>8, <2>1 DEF BrkJobs
<1>13. ForkJobs'
  <2>1. \A r \in Procs : \A q \in forkJob[r].child : q \in Procs /\ r # p /\ q # p
    <3>1. ASSUME NEW r \in Procs, NEW q \in forkJob[r].child
          PROVE  q \in Procs /\ BeingForked(q) /\ r # p
      <4>1. q \in Procs
        BY DEF MemType
      <4>2. forkJob[r].child = {q}
        BY DEF ForkJobs
      <4>3. r # p
        BY <1>10, <4>2, SMTT(30) DEF NoFork
      <4> QED BY <4>1, <4>2, <4>3 DEF BeingForked
    <3> QED BY <1>10, <3>1
  <2>2. \A r \in Procs : \A q \in forkJob[r].child : vbreak'[r] = vbreak[r] /\ vbreak'[q] = vbreak[q]
    BY <1>6, <2>1
  <2> QED BY <1>2, <2>2 DEF ForkJobs
<1>14. Copies'
  BY <1>2, <1>8, SameCopies
<1>15. Ranges'
  BY <1>2, <1>8, <1>10 DEF Ranges
<1>16. Contents'
  BY <1>2, <1>8, <1>10 DEF Contents
<1>17. Backed'
  BY <1>2, <1>6, <1>8 DEF Backed
<1> QED BY <1>7, <1>9, <1>11, <1>12, <1>13, <1>14, <1>15, <1>16, <1>17 DEF MemInv

(* A brk starts at the page of the break, below which all is reserved.      *)
LEMMA BrkKeeps ==
  ASSUME MemInv, NEW p \in Procs, Running(p), NEW v \in Addresses, unsafe_brk(p, v)
  PROVE  MemInv'
<1> /\ MemType /\ Owning /\ Rows /\ Breaks /\ BrkJobs /\ ForkJobs /\ Copies
    /\ Ranges /\ Contents /\ Backed
  BY DEF MemInv
<1>2. /\ v >= vbreak[p]
      /\ brkJob' = [brkJob EXCEPT ![p] = [v |-> v, page |-> PageOf(cur_vbreak[p])]]
      /\ UNCHANGED <<freeFrames, pd, dir, table, content, vfrom, vto, vbreak, cur_vbreak, forkJob, writes, failed, expected>>
  BY DEF unsafe_brk
<1>3. /\ vbreak[p] # UVNULL /\ BytesPerPage <= vbreak[p] /\ vbreak[p] <= cur_vbreak[p]
      /\ forkJob[p] = NoFork
  BY DEF Running, Unlocked, Breaks
<1>4. /\ v \in Nat /\ vbreak[p] \in Nat /\ cur_vbreak[p] \in Nat /\ PageOf(cur_vbreak[p]) \in Nat
      /\ UserPages \subseteq Nat /\ BytesPerPage \in Nat \ {0}
  <2>1. v \in Nat /\ vbreak[p] \in Nat /\ cur_vbreak[p] \in Nat /\ BytesPerPage \in Nat \ {0}
    BY AddressPage, MemConstants DEF MemType
  <2> QED BY <2>1, DivMod, MemConstants DEF PageOf
<1>5. /\ brkJob' \in [Procs -> [v : Nat, page : Nat]]
      /\ brkJob'[p] = [v |-> v, page |-> PageOf(cur_vbreak[p])]
      /\ \A r \in Procs \ {p} : brkJob'[r] = brkJob[r]
  <2>1. brkJob \in [Procs -> [v : Nat, page : Nat]] /\ PageOf(cur_vbreak[p]) \in Nat
    BY <1>4 DEF MemType
  <2> QED BY <1>2, <1>4, <2>1
<1>8. PageOf(vbreak[p]) <= PageOf(cur_vbreak[p])
  BY <1>3, <1>4, DivGrows DEF PageOf
<1>9. Owning' /\ Rows'
  BY <1>2, SameOwning
<1>10. /\ \A r, page : PageFrame(r, page)' = PageFrame(r, page)
       /\ \A r, d, t : FrameAt(r, d, t)' = FrameAt(r, d, t)
  BY <1>2, SameFrames
<1>11. \A r \in Procs : BeingForked(r)' = BeingForked(r)
  BY <1>2 DEF BeingForked
<1>12. MemType'
  BY <1>2, <1>5 DEF MemType
<1>13. Breaks'
  BY <1>2 DEF Breaks
<1>14. BrkJobs'
  <2> SUFFICES ASSUME NEW r \in Procs, brkJob'[r] # NoJob
               PROVE  /\ vbreak[r] # UVNULL /\ brkJob'[r].v \in Addresses /\ vbreak[r] <= brkJob'[r].v
                      /\ PageOf(vbreak[r]) <= brkJob'[r].page
                      /\ ~failed => \A page \in UserPages :
                           PageOf(vbreak[r]) <= page /\ page < brkJob'[r].page => PageFrame(r, page) # 0
    BY <1>2, <1>10 DEF BrkJobs
  <2>1. CASE r = p
    <3>1. brkJob'[r].v = v /\ brkJob'[r].page = PageOf(cur_vbreak[p])
      BY <1>5, <2>1, SMTT(30)
    <3>2. ASSUME ~failed, NEW page \in UserPages, PageOf(vbreak[p]) <= page, page < PageOf(cur_vbreak[p])
          PROVE  PageFrame(p, page) # 0
      <4>1. page \in Nat /\ page <= PageOf(cur_vbreak[p])
        BY <1>4, <3>2, AtMostBelow
      <4>2. cur_vbreak[p] # vbreak[p]
        <5>1. ~(PageOf(cur_vbreak[p]) <= page)
          BY <1>4, <3>2, <4>1, SMTT(30)
        <5> QED BY <3>2, <5>1
      <4> QED BY <1>3, <3>2, <4>1, <4>2 DEF Backed
    <3>4. vbreak[p] <= v
      BY <1>2, <1>4
    <3> QED BY <1>3, <1>8, <2>1, <3>1, <3>2, <3>4
  <2>2. CASE r # p
    BY <1>5, <2>2 DEF BrkJobs
  <2> QED BY <2>1, <2>2
<1>15. ForkJobs'
  <2>1. \A r \in Procs : \A q \in forkJob[r].child : brkJob'[r] = brkJob[r]
    BY <1>3, <1>5, SMTT(30) DEF NoFork
  <2> QED BY <1>2, <2>1 DEF ForkJobs
<1>16. Copies'
  BY <1>2, <1>10, SameCopies
<1>17. Ranges'
  BY <1>2, <1>10, <1>11 DEF Ranges
<1>18. Contents'
  BY <1>2, <1>10, <1>11 DEF Contents
<1>19. Backed'
  BY <1>2, <1>10 DEF Backed
<1> QED BY <1>9, <1>12, <1>13, <1>14, <1>15, <1>16, <1>17, <1>18, <1>19 DEF MemInv

LEMMA BrkReserveKeeps ==
  ASSUME MemInv, NEW p \in Procs, BrkReserve(p)
  PROVE  MemInv'
<1> /\ MemType /\ Breaks /\ BrkJobs /\ ForkJobs
  BY DEF MemInv
<1>2. PICK g : g = brkJob[p].page
  OBVIOUS
<1>3. /\ brkJob[p] # NoJob /\ g <= PageOf(brkJob[p].v) /\ unsafe_vmreserve(p, g)
      /\ brkJob' = [brkJob EXCEPT ![p].page = @ + 1]
      /\ UNCHANGED <<pd, vbreak, cur_vbreak, forkJob, writes, expected>>
  BY <1>2 DEF BrkReserve
<1>4. /\ vbreak[p] # UVNULL /\ brkJob[p].v \in Addresses /\ vbreak[p] <= brkJob[p].v
      /\ PageOf(vbreak[p]) <= g
      /\ ~failed => \A page \in UserPages : PageOf(vbreak[p]) <= page /\ page < g => PageFrame(p, page) # 0
  BY <1>2, <1>3 DEF BrkJobs
<1>5. /\ PageOf(vbreak[p]) \in Nat \ {0} /\ PageOf(brkJob[p].v) \in UserPages /\ g \in Nat
      /\ UserPages \subseteq Nat /\ UserPages \subseteq AllPages
  <2>1. vbreak[p] \in Nat /\ BytesPerPage <= vbreak[p]
    BY <1>4 DEF MemType, Breaks
  <2>2. PageOf(brkJob[p].v) \in UserPages /\ g \in Nat
    BY <1>2, <1>4, AddressPage DEF MemType
  <2> QED BY <2>1, <2>2, PageAbove, MemConstants
<1>6. g \in UserPages
  BY <1>3, <1>4, <1>5, MemConstants, SMTT(30) DEF UserPages
<1>7. DirIndex(g) \notin KernelDirs
  BY <1>3 DEF unsafe_vmreserve
<1>8. /\ brkJob' \in [Procs -> [v : Nat, page : Nat]]
      /\ brkJob'[p].v = brkJob[p].v /\ brkJob'[p].page = g + 1
      /\ \A r \in Procs \ {p} : brkJob'[r] = brkJob[r]
  <2>1. brkJob \in [Procs -> [v : Nat, page : Nat]] /\ brkJob[p] \in [v : Nat, page : Nat]
    BY DEF MemType
  <2>2. [brkJob[p] EXCEPT !.page = @ + 1] = [v |-> brkJob[p].v, page |-> brkJob[p].page + 1]
    BY <2>1, SMTT(30)
  <2>3. brkJob' = [brkJob EXCEPT ![p] = [v |-> brkJob[p].v, page |-> g + 1]]
    BY <1>2, <1>3, <2>2
  <2> QED BY <1>5, <2>1, <2>3, SMTT(30)
<1>9. pd[p] # 0 /\ ~BeingForked(p) /\ forkJob[p].child = {}
  <2>1. forkJob[p].child \subseteq Procs
    BY DEF MemType
  <2> QED BY <1>3, <1>4, <2>1 DEF Breaks, ForkJobs, BeingForked
<1>10. /\ MemType' /\ Owning' /\ Rows' /\ Breaks' /\ ForkJobs' /\ Copies'
       /\ Ranges' /\ Contents' /\ Backed' /\ (failed => failed')
       /\ \A r \in Procs, page \in AllPages : PageFrame(r, page) # 0 => PageFrame(r, page)' # 0
       /\ ~failed' => PageFrame(p, g)' # 0
  BY <1>3, <1>6, <1>7, <1>8, <1>9, ReserveKeeps
<1>11. BrkJobs'
  <2> SUFFICES ASSUME NEW r \in Procs, brkJob'[r] # NoJob
               PROVE  /\ vbreak[r] # UVNULL /\ brkJob'[r].v \in Addresses /\ vbreak[r] <= brkJob'[r].v
                      /\ PageOf(vbreak[r]) <= brkJob'[r].page
                      /\ ~failed' => \A page \in UserPages :
                           PageOf(vbreak[r]) <= page /\ page < brkJob'[r].page => PageFrame(r, page)' # 0
    BY <1>3 DEF BrkJobs
  <2>1. CASE r = p
    <3>1. ASSUME ~failed', NEW page \in UserPages, PageOf(vbreak[p]) <= page, page < g + 1
          PROVE  PageFrame(p, page)' # 0
      <4>1. CASE page = g
        BY <1>10, <3>1, <4>1
      <4>2. CASE page # g
        <5>1. page < g
          BY <1>5, <3>1, <4>2, SMTT(30)
        <5>2. PageFrame(p, page) # 0
          BY <1>4, <1>10, <3>1, <5>1
        <5> QED BY <1>5, <1>10, <5>2
      <4> QED BY <4>1, <4>2
    <3>2. PageOf(vbreak[p]) <= g + 1
      <4>1. PageOf(vbreak[p]) \in Nat
        BY <1>5
      <4> QED BY <1>4, <1>5, <4>1, SMTT(30)
    <3> QED BY <1>4, <1>8, <2>1, <3>1, <3>2
  <2>2. CASE r # p
    BY <1>5, <1>8, <1>10, <2>2 DEF BrkJobs
  <2> QED BY <2>1, <2>2
<1> QED BY <1>10, <1>11 DEF MemInv

LEMMA BrkReturnKeeps ==
  ASSUME MemInv, NEW p \in Procs, BrkReturn(p)
  PROVE  MemInv'
<1> /\ MemType /\ Owning /\ Rows /\ Breaks /\ BrkJobs /\ ForkJobs /\ Copies
    /\ Ranges /\ Contents /\ Backed
  BY DEF MemInv
<1>2. PICK b : b = brkJob[p].v
  OBVIOUS
<1>3. /\ brkJob[p] # NoJob /\ brkJob[p].page > PageOf(b)
      /\ cur_vbreak' = [cur_vbreak EXCEPT ![p] = b]
      /\ vto' = [vto EXCEPT ![p] = IF @ < PageOf(b) THEN PageOf(b) ELSE @]
      /\ brkJob' = [brkJob EXCEPT ![p] = NoJob]
      /\ UNCHANGED <<freeFrames, pd, dir, table, content, vfrom, vbreak, forkJob, writes, failed, expected>>
  BY <1>2 DEF BrkReturn
<1>4. /\ vbreak[p] # UVNULL /\ b \in Addresses /\ vbreak[p] <= b
      /\ ~failed => \A page \in UserPages : PageOf(vbreak[p]) <= page /\ page < brkJob[p].page => PageFrame(p, page) # 0
      /\ pd[p] # 0 /\ BytesPerPage <= vbreak[p]
  BY <1>2, <1>3 DEF BrkJobs, Breaks
<1>5. b \in Nat /\ PageOf(b) \in UserPages /\ UserPages \subseteq Nat
  BY <1>4, AddressPage, MemConstants
<1>6. /\ cur_vbreak' \in [Procs -> Nat] /\ cur_vbreak'[p] = b
      /\ \A r \in Procs \ {p} : cur_vbreak'[r] = cur_vbreak[r]
  BY <1>3, <1>5 DEF MemType
<1>7. /\ vto' \in [Procs -> Nat] /\ vto[p] <= vto'[p]
      /\ \A r \in Procs \ {p} : vto'[r] = vto[r]
  <2>1. vto \in [Procs -> Nat] /\ PageOf(b) \in Nat
    BY <1>5 DEF MemType
  <2> QED BY <1>3, <2>1, SMTT(30)
<1>8. /\ brkJob' \in [Procs -> [v : Nat, page : Nat]] /\ brkJob'[p] = NoJob
      /\ \A r \in Procs \ {p} : brkJob'[r] = brkJob[r]
  BY <1>3 DEF MemType, NoJob
<1>9. Owning' /\ Rows'
  BY <1>3, SameOwning
<1>10. /\ \A r, page : PageFrame(r, page)' = PageFrame(r, page)
       /\ \A r, d, t : FrameAt(r, d, t)' = FrameAt(r, d, t)
  BY <1>3, SameFrames
<1>11. \A r \in Procs : BeingForked(r)' = BeingForked(r)
  BY <1>3 DEF BeingForked
<1>12. MemType'
  BY <1>3, <1>6, <1>7, <1>8 DEF MemType
<1>13. Breaks'
  <2> SUFFICES ASSUME NEW r \in Procs
               PROVE  /\ pd[r] = 0 => vbreak[r] = UVNULL
                      /\ vbreak[r] # UVNULL =>
                           /\ BytesPerPage <= vbreak[r] /\ vbreak[r] <= cur_vbreak'[r]
                           /\ cur_vbreak'[r] # vbreak[r] => cur_vbreak'[r] \in Addresses
    BY <1>3 DEF Breaks
  <2>1. CASE r = p
    BY <1>4, <1>6, <2>1
  <2>2. CASE r # p
    BY <1>6, <2>2 DEF Breaks
  <2> QED BY <2>1, <2>2
<1>14. BrkJobs'
  <2>1. \A r \in Procs : brkJob'[r] # NoJob => brkJob'[r] = brkJob[r]
    BY <1>8
  <2> QED BY <1>3, <1>10, <2>1 DEF BrkJobs
<1>15. ForkJobs'
  <2>1. \A r \in Procs : brkJob[r] = NoJob => brkJob'[r] = NoJob
    BY <1>8
  <2> QED BY <1>3, <2>1 DEF ForkJobs
<1>16. Copies'
  BY <1>3, <1>10, SameCopies
<1>17. Ranges'
  <2> SUFFICES ASSUME NEW r \in Procs, ~BeingForked(r), NEW page \in UserPages, PageFrame(r, page) # 0
               PROVE  vfrom[r] # UVNULL /\ vfrom[r] <= page /\ page <= vto'[r]
    BY <1>3, <1>10, <1>11 DEF Ranges
  <2>1. vfrom[r] # UVNULL /\ vfrom[r] <= page /\ page <= vto[r]
    BY DEF Ranges
  <2>2. vto[r] <= vto'[r] /\ vto[r] \in Nat /\ vto'[r] \in Nat /\ page \in Nat
    <3>1. vto \in [Procs -> Nat] /\ page \in Nat
      BY <1>5 DEF MemType
    <3> QED BY <1>7, <3>1, SMTT(30)
  <2> QED BY <2>1, <2>2, SMTT(30)
<1>18. Contents'
  BY <1>3, <1>10, <1>11 DEF Contents
<1>19. Backed'
  <2> SUFFICES ASSUME ~failed, NEW r \in Procs, vbreak[r] # UVNULL, cur_vbreak'[r] # vbreak[r],
                      NEW page \in UserPages, PageOf(vbreak[r]) <= page, page <= PageOf(cur_vbreak'[r])
               PROVE  PageFrame(r, page) # 0
    BY <1>3, <1>10 DEF Backed
  <2>1. CASE r = p
    <3>1. brkJob[p].page \in Nat
      BY DEF MemType
    <3>2. page < brkJob[p].page
      <4>1. PageOf(b) \in Nat /\ page \in Nat /\ page <= PageOf(b)
        BY <1>5, <1>6, <2>1
      <4> QED BY <1>3, <3>1, <4>1, SMTT(30)
    <3> QED BY <1>4, <1>6, <2>1, <3>2
  <2>2. CASE r # p
    BY <1>6, <2>2 DEF Backed
  <2> QED BY <2>1, <2>2
<1> QED BY <1>9, <1>12, <1>13, <1>14, <1>15, <1>16, <1>17, <1>18, <1>19 DEF MemInv

LEMMA VmreserveKeeps ==
  ASSUME MemInv, NEW p \in Procs, NEW g \in LoadPages, proc_vmreserve(p, g)
  PROVE  MemInv'
<1>1. MemType /\ BrkJobs
  BY DEF MemInv
<1>2. /\ Unlocked(p) /\ DirIndex(g) \notin KernelDirs /\ unsafe_vmreserve(p, g)
      /\ UNCHANGED <<pd, vbreak, cur_vbreak, brkJob, forkJob, writes, expected>>
  BY DEF proc_vmreserve, unsafe_vmreserve
<1>3. pd[p] # 0 /\ ~BeingForked(p) /\ forkJob[p].child = {} /\ g \in UserPages /\ UserPages \subseteq AllPages
  BY <1>2, MemConstants, SMTT(30) DEF Unlocked, NoFork
<1>4. brkJob' \in [Procs -> [v : Nat, page : Nat]] /\ \A r \in Procs \ {p} : brkJob'[r] = brkJob[r]
  BY <1>1, <1>2 DEF MemType
<1>5. /\ MemType' /\ Owning' /\ Rows' /\ Breaks' /\ ForkJobs' /\ Copies'
      /\ Ranges' /\ Contents' /\ Backed' /\ (failed => failed')
      /\ \A r \in Procs, page \in AllPages : PageFrame(r, page) # 0 => PageFrame(r, page)' # 0
  BY <1>2, <1>3, <1>4, ReserveKeeps
<1>6. BrkJobs'
  <2>1. \A r \in Procs, page \in UserPages : PageFrame(r, page) # 0 => PageFrame(r, page)' # 0
    BY <1>3, <1>5
  <2> QED BY <1>1, <1>2, <1>5, <2>1 DEF BrkJobs
<1> QED BY <1>5, <1>6 DEF MemInv

(* vmxchg puts byte k of the buffer at the address v + k.                   *)
LEMMA VmxchgByte ==
  ASSUME NEW v \in Nat, NEW num \in Nat \ {0}, NEW k \in 0..(num - 1)
  PROVE  \E a \in Nat, o \in Offsets :
           vmxchg(v, num)[k] = <<a, o>> /\ BytesPerPage * a + o = v + k
<1> DEFINE B == BytesPerPage
           off == v % BytesPerPage
           pv == v \div BytesPerPage
           first == IF B - off < num THEN B - off ELSE num
<1>1. B \in Nat \ {0}
  BY MemConstants
<1>2. off \in 0..(B - 1) /\ pv \in Nat /\ v = B * pv + off
  BY <1>1, DivMod
<1>3. vmxchg(v, num)[k] = IF k < first THEN <<pv, off + k>>
                          ELSE <<pv + 1 + ((k - first) \div B), (k - first) % B>>
  BY DEF vmxchg, PageOf
<1> HIDE DEF off, pv, B
<1>4. CASE k < first
  <2>1. off + k \in 0..(B - 1)
    BY <1>1, <1>2, <1>4, SMTT(30)
  <2>2. B * pv + (off + k) = v + k
    <3>1. B * pv \in Nat
      BY <1>1, <1>2, SMTT(30)
    <3> QED BY <1>2, <3>1, SMTT(30)
  <2> QED BY <1>2, <1>3, <1>4, <2>1, <2>2 DEF B, Offsets
<1>5. CASE ~(k < first)
  <2>1. first = B - off /\ k - first \in Nat /\ first \in Nat
    BY <1>1, <1>2, <1>5, SMTT(30)
  <2> DEFINE j == k - first
             d == j \div B
             m == j % B
  <2> HIDE DEF first
  <2>2. j \in Nat /\ j + B = k + off
    BY <1>1, <1>2, <2>1, SMTT(30)
  <2>3. m \in 0..(B - 1) /\ d \in Nat /\ j = B * d + m
    BY <1>1, <2>1, DivMod
  <2>4. vmxchg(v, num)[k] = <<pv + 1 + d, m>>
    BY <1>3, <1>5
  <2> HIDE DEF j, d, m
  <2>5. B * (pv + 1 + d) = B * pv + B + B * d
    BY <1>1, <1>2, <2>3, SMTT(30)
  <2>6. B * (pv + 1 + d) + m = v + k
    <3>1. B * pv \in Nat /\ B * d \in Nat
      BY <1>1, <1>2, <2>3, SMTT(30)
    <3> QED BY <1>1, <1>2, <2>2, <2>3, <2>5, <3>1, SMTT(30)
  <2>7. pv + 1 + d \in Nat
    BY <1>2, <2>3, SMTT(30)
  <2> QED BY <2>3, <2>4, <2>6, <2>7 DEF B, Offsets
<1> QED BY <1>4, <1>5

(* A byte of memory is written if its address is one of those asked for.    *)
LEMMA VmxchgHit ==
  ASSUME NEW v \in Nat, NEW num \in Nat \ {0}, NEW page \in Nat, NEW o \in Offsets
  PROVE  (\E k \in 0..(num - 1) : vmxchg(v, num)[k] = <<page, o>>)
           <=> page * BytesPerPage + o \in v..(v + num - 1)
<1>1. BytesPerPage \in Nat \ {0} /\ o \in 0..(BytesPerPage - 1) /\ page * BytesPerPage = BytesPerPage * page
  BY MemConstants, SMTT(30) DEF Offsets
<1>2. BytesPerPage * page \in Nat /\ o \in Nat
  BY <1>1, SMTT(30)
<1>3. ASSUME NEW k \in 0..(num - 1), vmxchg(v, num)[k] = <<page, o>>
      PROVE  page * BytesPerPage + o \in v..(v + num - 1)
  <2>1. BytesPerPage * page + o = v + k
    BY <1>3, VmxchgByte, SMTT(30)
  <2> QED BY <1>1, <1>2, <2>1, SMTT(30)
<1>4. ASSUME page * BytesPerPage + o \in v..(v + num - 1)
      PROVE  \E k \in 0..(num - 1) : vmxchg(v, num)[k] = <<page, o>>
  <2>1. PICK k \in 0..(num - 1) : BytesPerPage * page + o = v + k
    <3>1. PICK w : w = BytesPerPage * page
      OBVIOUS
    <3>2. w + o - v \in 0..(num - 1) /\ w + o = v + (w + o - v)
      BY <1>1, <1>2, <1>4, <3>1, SMTT(30)
    <3> QED BY <3>1, <3>2
  <2>2. PICK a \in Nat, i \in Offsets : vmxchg(v, num)[k] = <<a, i>> /\ BytesPerPage * a + i = v + k
    BY VmxchgByte
  <2>3. a = page /\ i = o
    BY <1>1, <2>1, <2>2, SplitUnique, SMTT(30) DEF Offsets
  <2> QED BY <2>2, <2>3
<1> QED BY <1>3, <1>4

(* A write changes the bytes asked for, in the pages of the process only.   *)
LEMMA WriteEffect ==
  ASSUME MemType, Owning, NEW p \in Procs, NEW v \in Nat, NEW num \in Nat \ {0}, NEW x \in Values,
         proc_vmwrite(p, v, num, x)
  PROVE  /\ content' \in [Frames -> [Offsets -> Values]]
         /\ \A r \in Procs, g \in UserPages, o \in Offsets : PageFrame(r, g) # 0 =>
              content'[PageFrame(r, g)][o] =
                IF r = p /\ g * BytesPerPage + o \in v..(v + num - 1) THEN x ELSE content[PageFrame(r, g)][o]
         /\ \A g \in UserPages, o \in Offsets :
              g * BytesPerPage + o \in v..(v + num - 1) => PageFrame(p, g) # 0
<1> DEFINE at == vmxchg(v, num)
           pages == {at[k][1] : k \in DOMAIN at}
           hit(page, o) == \E k \in DOMAIN at : at[k] = <<page, o>>
<1>1. DOMAIN at = 0..(num - 1)
  BY DEF vmxchg
<1>2. /\ pd[p] # 0 /\ pages \subseteq Translated(p)
      /\ content' = [f \in Frames |-> [o \in Offsets |->
           IF \E page \in pages : paging_get(p, page) = f /\ hit(page, o) THEN x ELSE content[f][o]]]
  BY DEF proc_vmwrite, Unlocked
<1>3. UserPages \subseteq AllPages /\ UserPages \subseteq Nat
  BY MemConstants
<1>4. \A g \in UserPages, o \in Offsets : hit(g, o) <=> g * BytesPerPage + o \in v..(v + num - 1)
  <2> SUFFICES ASSUME NEW g \in UserPages, NEW o \in Offsets
               PROVE  hit(g, o) <=> g * BytesPerPage + o \in v..(v + num - 1)
    OBVIOUS
  <2>1. g \in Nat
    BY <1>3
  <2>2. (\E k \in 0..(num - 1) : at[k] = <<g, o>>) <=> g * BytesPerPage + o \in v..(v + num - 1)
    BY <2>1, VmxchgHit
  <2> QED BY <1>1, <2>2
<1>5. \A g, o : hit(g, o) => g \in pages
  BY SMTT(30)
<1> HIDE DEF at, pages, hit
<1>6. \A g \in pages : g \in UserPages /\ PageFrame(p, g) # 0 /\ paging_get(p, g) = PageFrame(p, g)
  <2>1. \A g \in pages : g \in UserPages /\ g \in Translated(p)
    BY <1>2 DEF Translated
  <2> QED BY <1>2, <2>1, TranslatedIs
<1>7. content' \in [Frames -> [Offsets -> Values]]
  <2>1. content \in [Frames -> [Offsets -> Values]]
    BY DEF MemType
  <2> QED BY <1>2, <2>1
<1>8. ASSUME NEW r \in Procs, NEW g \in UserPages, NEW o \in Offsets, PageFrame(r, g) # 0
      PROVE  content'[PageFrame(r, g)][o] =
               IF r = p /\ g * BytesPerPage + o \in v..(v + num - 1) THEN x ELSE content[PageFrame(r, g)][o]
  <2>1. PageFrame(r, g) \in Frames
    BY <1>3, PageFacts
  <2>2. content'[PageFrame(r, g)][o] =
          IF \E page \in pages : paging_get(p, page) = PageFrame(r, g) /\ hit(page, o) THEN x
          ELSE content[PageFrame(r, g)][o]
    BY <1>2, <2>1
  <2>3. ASSUME NEW page \in pages, paging_get(p, page) = PageFrame(r, g), hit(page, o)
        PROVE  r = p /\ hit(g, o)
    <3>1. page \in AllPages /\ g \in AllPages /\ PageFrame(r, g) = PageFrame(p, page)
      BY <1>3, <1>6, <2>3
    <3>2. r = p /\ g = page
      BY <1>8, <3>1, PageFacts
    <3> QED BY <2>3, <3>2
  <2>4. ASSUME r = p, hit(g, o)
        PROVE  \E page \in pages : paging_get(p, page) = PageFrame(r, g) /\ hit(page, o)
    BY <1>5, <1>6, <2>4
  <2> QED BY <1>4, <2>2, <2>3, <2>4
<1>9. \A g \in UserPages, o \in Offsets :
        g * BytesPerPage + o \in v..(v + num - 1) => PageFrame(p, g) # 0
  BY <1>4, <1>5, <1>6
<1> QED BY <1>7, <1>8, <1>9

LEMMA VmwriteKeeps ==
  ASSUME MemInv, NEW p \in Procs, NEW v \in Addresses, NEW num \in Nat \ {0}, NEW x \in Values,
         proc_vmwrite(p, v, num, x)
  PROVE  MemInv'
<1> /\ MemType /\ Owning /\ Rows /\ Breaks /\ BrkJobs /\ ForkJobs /\ Copies
    /\ Ranges /\ Contents /\ Backed
  BY DEF MemInv
<1> DEFINE In(g, o) == g * BytesPerPage + o \in v..(v + num - 1)
<1>2. /\ Unlocked(p) /\ writes' = writes + 1
      /\ expected' = [expected EXCEPT ![p] = [g \in UserPages |-> [o \in Offsets |->
           IF In(g, o) THEN x ELSE @[g][o]]]]
      /\ UNCHANGED <<freeFrames, pd, dir, table, vfrom, vto, vbreak, cur_vbreak, brkJob, forkJob, failed>>
  BY DEF proc_vmwrite
<1>3. v \in Nat
  BY AddressPage
<1>4. /\ content' \in [Frames -> [Offsets -> Values]]
      /\ \A r \in Procs, g \in UserPages, o \in Offsets : PageFrame(r, g) # 0 =>
           content'[PageFrame(r, g)][o] = IF r = p /\ In(g, o) THEN x ELSE content[PageFrame(r, g)][o]
      /\ \A g \in UserPages, o \in Offsets : In(g, o) => PageFrame(p, g) # 0
  BY <1>3, WriteEffect
<1> HIDE DEF In
<1>5. /\ expected' \in [Procs -> [UserPages -> [Offsets -> Values]]]
      /\ \A r \in Procs \ {p} : expected'[r] = expected[r]
      /\ \A g \in UserPages, o \in Offsets :
           expected'[p][g][o] = IF In(g, o) THEN x ELSE expected[p][g][o]
  <2>1. expected \in [Procs -> [UserPages -> [Offsets -> Values]]]
    BY DEF MemType
  <2> DEFINE new == [g \in UserPages |-> [o \in Offsets |-> IF In(g, o) THEN x ELSE expected[p][g][o]]]
  <2>2. new \in [UserPages -> [Offsets -> Values]]
    BY <2>1, SMTT(30)
  <2>3. expected' = [expected EXCEPT ![p] = new]
    BY <1>2
  <2>4. \A g \in UserPages, o \in Offsets : new[g][o] = IF In(g, o) THEN x ELSE expected[p][g][o]
    OBVIOUS
  <2> HIDE DEF new
  <2> QED BY <2>1, <2>2, <2>3, <2>4
<1>6. Owning' /\ Rows'
  BY <1>2, SameOwning
<1>7. /\ \A r, page : PageFrame(r, page)' = PageFrame(r, page)
      /\ \A r, d, t : FrameAt(r, d, t)' = FrameAt(r, d, t)
  BY <1>2, SameFrames
<1>8. \A r \in Procs : BeingForked(r)' = BeingForked(r)
  BY <1>2 DEF BeingForked
<1>9. UserPages \subseteq AllPages
  BY MemConstants
<1>10. content \in [Frames -> [Offsets -> Values]] /\ expected \in [Procs -> [UserPages -> [Offsets -> Values]]]
  BY DEF MemType
<1>11. MemType'
  BY <1>2, <1>4, <1>5, SMTT(30) DEF MemType
<1>12. ASSUME NEW r \in Procs, r # p, NEW g \in UserPages, PageFrame(r, g) # 0
       PROVE  content'[PageFrame(r, g)] = content[PageFrame(r, g)]
  <2>1. PageFrame(r, g) \in Frames
    BY <1>9, PageFacts
  <2>2. \A o \in Offsets : content'[PageFrame(r, g)][o] = content[PageFrame(r, g)][o]
    BY <1>4, <1>12
  <2>3. content'[PageFrame(r, g)] \in [Offsets -> Values] /\ content[PageFrame(r, g)] \in [Offsets -> Values]
    BY <1>4, <1>10, <2>1
  <2> QED BY <2>2, <2>3, SMTT(30)
<1>13. Breaks'
  BY <1>2 DEF Breaks
<1>14. BrkJobs'
  BY <1>2, <1>7 DEF BrkJobs
<1>15. ForkJobs'
  BY <1>2 DEF ForkJobs
<1>16. Copies'
  <2> SUFFICES ASSUME NEW r \in Procs, NEW q \in forkJob[r].child
               PROVE  Copied(r, q, forkJob[r].page)'
    BY <1>2 DEF Copies
  <2>1. q \in Procs /\ Copied(r, q, forkJob[r].page)
    BY DEF MemType, Copies
  <2>2. BeingForked(q)
    BY DEF ForkJobs, BeingForked
  <2>3. r # p /\ q # p
    <3>1. forkJob[p] = NoFork /\ ~BeingForked(p)
      BY <1>2 DEF Unlocked
    <3>2. NoFork.child = {}
      BY DEF NoFork
    <3> QED BY <2>2, <3>1, <3>2
  <2>4. \A g \in UserPages : PageFrame(q, g) # 0 => content'[PageFrame(q, g)] = content[PageFrame(q, g)]
    BY <1>12, <2>1, <2>3
  <2>5. expected'[r] = expected[r]
    BY <1>5, <2>3
  <2> QED BY <1>2, <1>7, <2>1, <2>4, <2>5 DEF Copied
<1>17. Ranges'
  BY <1>2, <1>7, <1>8 DEF Ranges
<1>18. Contents'
  <2> SUFFICES ASSUME ~failed, NEW r \in Procs, ~BeingForked(r), NEW g \in UserPages
               PROVE  IF PageFrame(r, g) = 0 THEN expected'[r][g] = Cleared
                      ELSE content'[PageFrame(r, g)] = expected'[r][g]
    BY <1>2, <1>7, <1>8 DEF Contents
  <2>1. IF PageFrame(r, g) = 0 THEN expected[r][g] = Cleared ELSE content[PageFrame(r, g)] = expected[r][g]
    BY DEF Contents
  <2>2. CASE r # p
    BY <1>5, <1>12, <2>1, <2>2
  <2>3. CASE r = p
    <3>1. expected'[p][g] \in [Offsets -> Values] /\ expected[p][g] \in [Offsets -> Values]
      BY <1>5, <1>10
    <3>2. CASE PageFrame(p, g) = 0
      <4>1. \A o \in Offsets : expected'[p][g][o] = expected[p][g][o]
        BY <1>4, <1>5, <3>2
      <4>2. expected'[p][g] = expected[p][g]
        BY <3>1, <4>1, SMTT(30)
      <4> QED BY <2>1, <2>3, <3>2, <4>2
    <3>3. CASE PageFrame(p, g) # 0
      <4>1. content'[PageFrame(p, g)] \in [Offsets -> Values]
        BY <1>4, <1>9, PageFacts
      <4>2. \A o \in Offsets : content'[PageFrame(p, g)][o] = expected'[p][g][o]
        BY <1>4, <1>5, <2>1, <2>3, <3>3, SMTT(30)
      <4>3. content'[PageFrame(p, g)] = expected'[p][g]
        BY <3>1, <4>1, <4>2, SMTT(30)
      <4> QED BY <2>3, <3>3, <4>3
    <3> QED BY <3>2, <3>3
  <2> QED BY <2>2, <2>3
<1>19. Backed'
  BY <1>2, <1>7 DEF Backed
<1> QED BY <1>6, <1>11, <1>13, <1>14, <1>15, <1>16, <1>17, <1>18, <1>19 DEF MemInv

-----------------------------------------------------------------------------

LEMMA MemInvInit ==
  ASSUME ProcMemoryInit
  PROVE  MemInv
<1>1. /\ freeFrames = 1..NofFrames /\ pd = [p \in Procs |-> 0]
      /\ dir = [f \in Frames |-> [i \in Index |-> Absent]]
      /\ table = [f \in Frames |-> [i \in Index |-> Absent]]
      /\ content = [f \in Frames |-> Cleared]
      /\ vfrom = [p \in Procs |-> UVNULL] /\ vto = [p \in Procs |-> UVNULL]
      /\ vbreak = [p \in Procs |-> UVNULL] /\ cur_vbreak = [p \in Procs |-> UVNULL]
      /\ brkJob = [p \in Procs |-> NoJob] /\ forkJob = [p \in Procs |-> NoFork]
      /\ writes = 0 /\ failed = FALSE
      /\ expected = [p \in Procs |-> [page \in UserPages |-> Cleared]]
  BY DEF ProcMemoryInit
<1>2. \A p \in Procs : /\ pd[p] = 0 /\ vbreak[p] = UVNULL /\ vto[p] = UVNULL
                       /\ brkJob[p] = NoJob /\ forkJob[p] = NoFork /\ forkJob[p].child = {}
  BY <1>1 DEF NoFork
<1>3. \A p \in Procs : (\A d, t : FrameAt(p, d, t) = 0) /\ (\A page : PageFrame(p, page) = 0)
  BY <1>2, NoFrames DEF PageFrame
<1>4. MemType
  <2>1. NoJob \in [v : Nat, page : Nat] /\ NoFork \in [child : SUBSET Procs, page : Nat] /\ UVNULL \in Nat
    BY DEF NoJob, NoFork, UVNULL
  <2>2. Cleared \in [Offsets -> Values] /\ Absent \in Ent /\ 0 \in Frames
    BY EntryTypes
  <2> QED BY <1>1, <2>1, <2>2 DEF MemType
<1>5. Owning
  BY <1>1, <1>3, SMTT(30) DEF Owning
<1>6. Rows
  BY <1>1, EntryTypes DEF Rows
<1>7. Breaks /\ BrkJobs /\ ForkJobs /\ Copies
  BY <1>2 DEF Breaks, BrkJobs, ForkJobs, Copies
<1>8. Ranges /\ Backed
  BY <1>2, <1>3 DEF Ranges, Backed
<1>9. Contents
  BY <1>1, <1>3 DEF Contents
<1> QED BY <1>4, <1>5, <1>6, <1>7, <1>8, <1>9 DEF MemInv

LEMMA MemInvNext ==
  ASSUME MemInv, [ProcMemoryNext]_procVars
  PROVE  MemInv'
<1>1. ASSUME NEW p \in Procs, proc_alloc(p) PROVE MemInv'
  BY <1>1, AllocKeeps
<1>2. ASSUME NEW p \in Procs, proc_set_break(p) PROVE MemInv'
  BY <1>2, SetBreakKeeps
<1>3. ASSUME NEW p \in Procs, NEW page \in LoadPages, proc_vmreserve(p, page) PROVE MemInv'
  BY <1>3, VmreserveKeeps
<1>4. ASSUME NEW p \in Procs, NEW v \in Addresses, proc_brk(p, v) PROVE MemInv'
  BY <1>4, BrkKeeps DEF proc_brk
<1>5. ASSUME NEW p \in Procs, NEW v \in Addresses, proc_sbrk(p, v - cur_vbreak[p]) PROVE MemInv'
  <2>1. cur_vbreak[p] \in Nat /\ v \in Nat
    BY AddressPage DEF MemInv, MemType
  <2>2. cur_vbreak[p] + (v - cur_vbreak[p]) = v
    BY <2>1, SMTT(30)
  <2>3. Running(p) /\ unsafe_brk(p, v)
    BY <1>5, <2>2 DEF proc_sbrk
  <2> QED BY <2>3, BrkKeeps
<1>6. ASSUME NEW p \in Procs, BrkReserve(p) PROVE MemInv'
  BY <1>6, BrkReserveKeeps
<1>7. ASSUME NEW p \in Procs, BrkReturn(p) PROVE MemInv'
  BY <1>7, BrkReturnKeeps
<1>8. ASSUME NEW p \in Procs, NEW q \in Procs, ForkStart(p, q) PROVE MemInv'
  BY <1>8, ForkStartKeeps
<1>9. ASSUME NEW p \in Procs, ForkPage(p) PROVE MemInv'
  BY <1>9, ForkPageKeeps
<1>10. ASSUME NEW p \in Procs, ForkReturn(p) PROVE MemInv'
  BY <1>10, ForkReturnKeeps
<1>11. ASSUME NEW p \in Procs, NEW v \in Addresses, NEW num \in 1..(BytesPerPage + 1),
              NEW x \in Values \ {Zero}, proc_vmwrite(p, v, num, x)
       PROVE  MemInv'
  <2>1. num \in Nat \ {0}
    BY MemConstants, SMTT(30)
  <2> QED BY <1>11, <2>1, VmwriteKeeps
<1>12. ASSUME UNCHANGED procVars PROVE MemInv'
  <2>1. /\ UNCHANGED <<freeFrames, pd, dir, table, content, vfrom, vto, vbreak, cur_vbreak>>
        /\ UNCHANGED <<brkJob, forkJob, writes, failed, expected>>
    BY <1>12 DEF procVars
  <2> /\ MemType /\ Owning /\ Rows /\ Breaks /\ BrkJobs /\ ForkJobs /\ Copies
      /\ Ranges /\ Contents /\ Backed
    BY DEF MemInv
  <2>3. Owning' /\ Rows'
    BY <2>1, SameOwning
  <2>4. /\ \A r, page : PageFrame(r, page)' = PageFrame(r, page)
        /\ \A r, d, t : FrameAt(r, d, t)' = FrameAt(r, d, t)
        /\ \A r \in Procs : BeingForked(r)' = BeingForked(r)
    BY <2>1, SameFrames DEF BeingForked
  <2>5. MemType' /\ Breaks' /\ ForkJobs'
    BY <2>1 DEF MemType, Breaks, ForkJobs
  <2>6. BrkJobs'
    BY <2>1, <2>4 DEF BrkJobs
  <2>7. Copies'
    BY <2>1, <2>4, SameCopies
  <2>8. Ranges' /\ Backed'
    BY <2>1, <2>4 DEF Ranges, Backed
  <2>9. Contents'
    BY <2>1, <2>4 DEF Contents
  <2> QED BY <2>3, <2>5, <2>6, <2>7, <2>8, <2>9 DEF MemInv
<1> QED
  BY <1>1, <1>2, <1>3, <1>4, <1>5, <1>6, <1>7, <1>8, <1>9, <1>10, <1>11, <1>12 DEF ProcMemoryNext

LEMMA MemInvOwn ==
  ASSUME MemInv
  PROVE  MemoryOwn
<1>1. MemType /\ Owning /\ Contents
  BY DEF MemInv
<1>2. ASSUME ~failed, NEW f \in 1..NofFrames
      PROVE  IF f \in freeFrames THEN Places(f) = {} ELSE \E a \in Places(f) : Places(f) = {a}
  <2>1. CASE f \in freeFrames
    BY <1>1, <2>1, SMTT(30) DEF Owning, Places
  <2>2. CASE f \notin freeFrames
    <3>1. PICK p \in Procs, d \in Slots, t \in Slots : FrameAt(p, d, t) = f
      BY <1>1, <1>2, <2>2 DEF Owning
    <3>2. f # 0
      BY MemConstants, SMTT(30)
    <3>3. Places(f) = {<<p, d, t>>}
      <4>1. <<p, d, t>> \in Places(f)
        BY <3>1 DEF Places
      <4>2. ASSUME NEW a \in Places(f) PROVE a = <<p, d, t>>
        <5>1. PICK q \in Procs, e \in Slots, u \in Slots : a = <<q, e, u>> /\ FrameAt(q, e, u) = f
          BY SMTT(30) DEF Places
        <5> QED BY <1>1, <3>1, <3>2, <5>1, SMTT(30) DEF Owning
      <4> QED BY <4>1, <4>2
    <3> QED BY <2>2, <3>3
  <2> QED BY <2>1, <2>2
<1>3. MemoryPrivate
  <2> SUFFICES ASSUME ~failed, NEW p \in Procs, pd[p] # 0, ~BeingForked(p), NEW page \in Translated(p)
               PROVE  content[paging_get(p, page)] = expected[p][page]
    BY DEF MemoryPrivate, Live
  <2>1. page \in UserPages
    BY DEF Translated
  <2>2. PageFrame(p, page) # 0 /\ paging_get(p, page) = PageFrame(p, page)
    BY <2>1, TranslatedIs
  <2> QED BY <1>1, <2>1, <2>2 DEF Contents
<1> QED BY <1>2, <1>3 DEF MemoryOwn, FramesOwnedOnce

LEMMA MemInvReserved ==
  ASSUME MemInv
  PROVE  MemoryReserved
<1>1. MemType /\ Breaks /\ Ranges /\ Backed
  BY DEF MemInv
<1>2. BreakBacked
  <2> SUFFICES ASSUME ~failed, NEW p \in Procs, pd[p] # 0, vbreak[p] # UVNULL,
                      NEW v \in vbreak[p]..(cur_vbreak[p] - 1)
               PROVE  PageOf(v) \in Translated(p)
    BY DEF BreakBacked, Live
  <2>1. vbreak[p] \in Nat /\ cur_vbreak[p] \in Nat /\ BytesPerPage \in Nat \ {0}
    BY <1>1, MemConstants DEF MemType
  <2>2. /\ v \in Nat /\ vbreak[p] <= v /\ v <= cur_vbreak[p] - 1 /\ v <= cur_vbreak[p]
        /\ cur_vbreak[p] # vbreak[p]
    BY <2>1, SMTT(30)
  <2>3. BytesPerPage <= vbreak[p] /\ cur_vbreak[p] \in Addresses
    BY <1>1, <2>2 DEF Breaks
  <2>4. v \in Addresses
    BY <2>1, <2>2, <2>3, MemConstants, SMTT(30) DEF Addresses
  <2>5. PageOf(v) \in UserPages /\ PageOf(vbreak[p]) <= PageOf(v) /\ PageOf(v) <= PageOf(cur_vbreak[p])
    BY <2>1, <2>2, <2>4, AddressPage, DivGrows DEF PageOf
  <2>6. PageFrame(p, PageOf(v)) # 0
    BY <1>1, <2>2, <2>5 DEF Backed
  <2> QED BY <2>5, <2>6, TranslatedIs
<1>3. RangeCovers
  <2> SUFFICES ASSUME NEW p \in Procs, pd[p] # 0, ~BeingForked(p), NEW page \in Translated(p)
               PROVE  page \in vfrom[p]..vto[p]
    BY DEF RangeCovers, Live
  <2>1. page \in UserPages
    BY DEF Translated
  <2>2. vfrom[p] <= page /\ page <= vto[p]
    BY <1>1, <2>1, TranslatedIs DEF Ranges
  <2>3. page \in Nat /\ vfrom[p] \in Nat /\ vto[p] \in Nat
    BY <1>1, <2>1, MemConstants DEF MemType
  <2> QED BY <2>2, <2>3, SMTT(30)
<1> QED BY <1>2, <1>3 DEF MemoryReserved

(* The memory of a process is its own: until palloc fails every frame is    *)
(* free or in one place, and what a process reads is what it last wrote or  *)
(* had when it was forked, with exec, brk, fork and vmwrite of any number   *)
(* of processes interleaved page by page.                                   *)
THEOREM MemoryCorrect == ProcMemorySpec => []MemoryOwn
<1>1. ProcMemoryInit => MemInv
  BY MemInvInit
<1>2. MemInv /\ [ProcMemoryNext]_procVars => MemInv'
  BY MemInvNext
<1>3. MemInv => MemoryOwn
  BY MemInvOwn
<1> QED BY <1>1, <1>2, <1>3, PTL DEF ProcMemorySpec

(* proc_brk and proc_fork: until palloc fails the memory from the base of   *)
(* the break up to the break, without the byte at the break, is there, and  *)
(* vfrom and vto enclose all that a process has.                            *)
THEOREM ReservedCorrect == ProcMemorySpec => []MemoryReserved
<1>1. ProcMemoryInit => MemInv
  BY MemInvInit
<1>2. MemInv /\ [ProcMemoryNext]_procVars => MemInv'
  BY MemInvNext
<1>3. MemInv => MemoryReserved
  BY MemInvReserved
<1> QED BY <1>1, <1>2, <1>3, PTL DEF ProcMemorySpec

================================================================================
