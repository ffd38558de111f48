--------------------------- MODULE OpenFilesProofs ---------------------------
(***************************************************************************)
(* Proofs about OpenFiles, for any number of processes, descriptors, files *)
(* and cached nodes.                                                       *)
(***************************************************************************)
EXTENDS OpenFiles, FiniteSetTheorems, SequenceTheorems, WellFoundedInduction, TLAPS

\* The time the provers have for a step.
USE ZenonT(60)

-----------------------------------------------------------------------------
\* Numbers, sets and lists.

Less == {p \in Nat \X Nat : p[1] < p[2]}

(* Naturals do not descend for ever.                                        *)
LEMMA LessWellFounded == IsWellFoundedOn(Less, Nat)
<1>1. IsWellFoundedOn(OpToRel(<, Nat), Nat)
  BY ONLY NatLessThanWellFounded
<1>2. OpToRel(<, Nat) = Less
  BY ONLY ZenonT(60) DEF OpToRel, Less
<1> QED
  BY ONLY <1>1, <1>2

(* The loops over descriptors and nodes stop at one that qualifies.         *)
LEMMA LowestIsMember ==
  ASSUME NEW S \in SUBSET Nat, S # {}
  PROVE  Lowest(S) \in S /\ \A m \in S : Lowest(S) <= m
<1>1. PICK n \in S : \A m \in S : ~(<<m, n>> \in Less)
  BY LessWellFounded, WFMin
<1>2. ASSUME NEW m \in S PROVE n <= m
  <2>1. m \in Nat /\ n \in Nat
    OBVIOUS
  <2>2. <<m, n>> \notin Less
    BY <1>1
  <2>3. m < n => <<m, n>> \in Less
    BY <2>1 DEF Less
  <2> QED
    BY <2>1, <2>2, <2>3, SMTT(30)
<1> QED
  BY <1>2 DEF Lowest

\* How much a member adds to a count.
One(b) == IF b THEN 1 ELSE 0

(* Two finite sets that differ at most in x.                                *)
LEMMA CountOne ==
  ASSUME NEW S, NEW T, NEW x, IsFiniteSet(S), S \ {x} = T \ {x}
  PROVE  /\ IsFiniteSet(T) /\ Cardinality(S) \in Nat /\ Cardinality(T) \in Nat
         /\ Cardinality(T) = Cardinality(S) + One(x \in T) - One(x \in S)
<1> DEFINE R == S \ {x}
<1>1. IsFiniteSet(R) /\ Cardinality(R) = Cardinality(S) - One(x \in S)
  <2>1. /\ IsFiniteSet(S \ {x})
        /\ Cardinality(S \ {x}) = IF x \in S THEN Cardinality(S) - 1 ELSE Cardinality(S)
    BY FS_RemoveElement
  <2> QED
    BY <2>1, FS_CardinalityType, SMTT(30) DEF One
<1>2. IsFiniteSet(R \cup {x}) /\ Cardinality(R \cup {x}) = Cardinality(R) + 1
  BY <1>1, FS_AddElement
<1>3. T = IF x \in T THEN R \cup {x} ELSE R
  OBVIOUS
<1>4. Cardinality(S) \in Nat /\ Cardinality(R) \in Nat
  BY <1>1, FS_CardinalityType
<1> HIDE DEF R
<1> QED
  BY <1>1, <1>2, <1>3, <1>4, SMTT(30) DEF One

(* A list without its i-th member.                                          *)
LEMMA Removed ==
  ASSUME NEW s \in Seq(Clusters), NEW i \in 1..Len(s)
  PROVE  /\ DropAt(s, i) \in Seq(Clusters) /\ Len(DropAt(s, i)) = Len(s) - 1
         /\ \A j \in 1..(Len(s) - 1) :
              DropAt(s, i)[j] = IF j < i THEN s[j] ELSE s[j + 1]
<1> DEFINE a == SubSeq(s, 1, i - 1)
           b == SubSeq(s, i + 1, Len(s))
<1>1. a \in Seq(Clusters) /\ Len(a) = i - 1 /\ \A j \in 1..(i - 1) : a[j] = s[j]
  BY SMTT(30)
<1>2. /\ b \in Seq(Clusters) /\ Len(b) = Len(s) - i
      /\ \A j \in 1..(Len(s) - i) : b[j] = s[i + j]
  BY SMTT(30)
<1> HIDE DEF a, b
<1>3. /\ a \o b \in Seq(Clusters) /\ Len(a \o b) = Len(a) + Len(b)
      /\ \A j \in 1..(Len(a) + Len(b)) : (a \o b)[j] = IF j <= Len(a) THEN a[j] ELSE b[j - Len(a)]
  BY <1>1, <1>2, ConcatProperties
<1>4. DropAt(s, i) = a \o b
  BY DEF DropAt, a, b
<1>5. Len(s) \in Nat
  BY SMTT(30)
<1>6. Len(a) + Len(b) = Len(s) - 1
  BY <1>1, <1>2, <1>5, SMTT(30)
<1>7. ASSUME NEW j \in 1..(Len(s) - 1)
      PROVE  (a \o b)[j] = IF j < i THEN s[j] ELSE s[j + 1]
  <2>1. (a \o b)[j] = IF j <= Len(a) THEN a[j] ELSE b[j - Len(a)]
    BY <1>3, <1>6
  <2>2. CASE j < i
    BY <1>1, <1>5, <2>1, <2>2, SMTT(30)
  <2>3. CASE ~(j < i)
    <3>1. j - (i - 1) \in 1..(Len(s) - i) /\ i + (j - (i - 1)) = j + 1 /\ ~(j <= i - 1)
      BY <1>5, <2>3, SMTT(30)
    <3> QED
      BY <1>1, <1>2, <2>1, <2>3, <3>1
  <2> QED
    BY <2>2, <2>3
<1> QED
  BY <1>3, <1>4, <1>6, <1>7

(* Removal keeps the members of a list apart, and all but the removed one.  *)
LEMMA RemovedKeeps ==
  ASSUME NEW s \in Seq(Clusters), NEW i \in 1..Len(s), IsInjective(s)
  PROVE  /\ IsInjective(DropAt(s, i))
         /\ \A c \in Members(s) : c # s[i] => c \in Members(DropAt(s, i))
<1> DEFINE r == DropAt(s, i)
<1>1. /\ r \in Seq(Clusters) /\ Len(r) = Len(s) - 1
      /\ \A j \in 1..(Len(s) - 1) : r[j] = IF j < i THEN s[j] ELSE s[j + 1]
  BY Removed
<1> HIDE DEF r
<1>2. DOMAIN r = 1..(Len(s) - 1) /\ DOMAIN s = 1..Len(s) /\ Len(s) \in Nat
  BY <1>1, SMTT(30)
<1>3. ASSUME NEW a \in DOMAIN r, NEW b \in DOMAIN r, r[a] = r[b] PROVE a = b
  <2> DEFINE Old(j) == IF j < i THEN j ELSE j + 1
  <2>1. Old(a) \in DOMAIN s /\ Old(b) \in DOMAIN s
    BY <1>2, SMTT(30)
  <2>2. s[Old(a)] = s[Old(b)]
    BY <1>1, <1>2, <1>3
  <2>3. Old(a) = Old(b)
    BY <2>1, <2>2 DEF IsInjective
  <2> QED
    BY <1>2, <2>3, SMTT(30)
<1>4. ASSUME NEW c \in Members(s), c # s[i] PROVE c \in Members(r)
  <2>1. PICK j \in 1..Len(s) : s[j] = c
    BY <1>2 DEF Members
  <2>2. CASE j < i
    <3>1. j \in DOMAIN r /\ r[j] = c
      BY <1>1, <1>2, <2>1, <2>2, SMTT(30)
    <3> QED
      BY <3>1 DEF Members
  <2>3. CASE j > i
    <3>1. j - 1 \in DOMAIN r /\ r[j - 1] = c
      BY <1>1, <1>2, <2>1, <2>3, SMTT(30)
    <3> QED
      BY <3>1 DEF Members
  <2> QED
    BY <1>4, <2>1, <2>2, <2>3, SMTT(30)
<1> QED
  BY <1>3, <1>4 DEF r, IsInjective

-----------------------------------------------------------------------------
\* The inductive invariant.

CallType ==
  [at : {"user", "open", "bind", "read", "seek", "unref", "put"},
   file : FileObjects \cup {NULLFILE}, node : Clusters \cup {0}, count : Int]

FilesType ==
  /\ fdTable \in [UserProcs -> [Fds -> FileObjects \cup {NULLFILE}]]
  /\ forked \subseteq UserProcs
  /\ DOMAIN files \subseteq FileObjects /\ IsFiniteSet(DOMAIN files)
  /\ files \in [DOMAIN files -> [node : Clusters, ref : Int, offset : Int]]
  /\ nodeList \in Seq(Clusters)
  /\ nodes \in [Clusters -> [ref : Int, hit : Nat]]
  /\ call \in [UserThreads -> CallType]

\* What a call has got so far; only a process that is there makes one.
CallsHave ==
  \A t \in UserThreads :
    /\ call[t].at # "user" => ProcOf[t] \in forked
    /\ call[t].at = "open" => call[t].node \in Clusters
    /\ call[t].at \in {"user", "open"} <=> call[t].file = NULLFILE
    /\ call[t].file \in DOMAIN files \cup {NULLFILE}

\* Descriptors are of live files, and a process that is not there yet has none.
Bindings ==
  \A p \in UserProcs, fd \in Fds :
    /\ fdTable[p][fd] \in DOMAIN files \cup {NULLFILE}
    /\ p \notin forked => fdTable[p][fd] = NULLFILE

RefsCounted ==
  \A f \in DOMAIN files : files[f].ref = Cardinality(Bound(f)) + Cardinality(Uses(f))

\* A file without references is being put, by one call.
PutsLast ==
  /\ \A t \in UserThreads : call[t].at = "put" => files[call[t].file].ref = 0
  /\ \A f \in DOMAIN files : files[f].ref = 0 =>
       \E t \in UserThreads : call[t].at = "put" /\ call[t].file = f
  /\ \A t, u \in UserThreads :
       call[t].at = "put" /\ call[u].at = "put" /\ call[t].file = call[u].file => t = u

NodesCounted ==
  /\ IsInjective(nodeList)
  /\ \A c \in Clusters :
       /\ nodes[c].ref = Cardinality(FilesOf(c)) + Cardinality(Opens(c))
       /\ nodes[c].ref > 0 => c \in Members(nodeList)

FilesInv == FilesType /\ CallsHave /\ Bindings /\ RefsCounted /\ PutsLast /\ NodesCounted

-----------------------------------------------------------------------------
\* What a step adds to the counts.

UsesFile(r, f) == r.file = f /\ r.at \in {"bind", "read", "seek", "unref"}
OpensNode(r, c) == r.at = "open" /\ r.node = c

\* Only t takes a step in its system call.
CallsOf(t) ==
  /\ call' \in [UserThreads -> CallType]
  /\ \A u \in UserThreads \ {t} : call'[u] = call[u]

(* A system call starts, ends or goes on.                                   *)
LEMMA CallMoves ==
  ASSUME call \in [UserThreads -> CallType], NEW t \in UserThreads, NEW r \in CallType,
         call' = [call EXCEPT ![t] = r]
  PROVE  CallsOf(t) /\ call'[t] = r
  BY DEF CallsOf

(* A system call goes on with what it has.                                  *)
LEMMA CallGoes ==
  ASSUME call \in [UserThreads -> CallType], NEW t \in UserThreads,
         NEW at \in {"unref", "put"}, call' = [call EXCEPT ![t].at = at]
  PROVE  CallsOf(t) /\ call'[t].at = at /\ call'[t].file = call[t].file
<1>1. call' \in [UserThreads -> CallType]
  BY DEF CallType
<1>2. call'[t].at = at /\ call'[t].file = call[t].file
  BY DEF CallType
<1> QED
  BY <1>1, <1>2 DEF CallsOf

(* A step of t changes the uses of a file by what t does with it.           *)
LEMMA CallCounts ==
  ASSUME FilesType, NEW t \in UserThreads, CallsOf(t)
  PROVE  /\ \A f : /\ Cardinality(Uses(f)) \in Nat
                   /\ Cardinality(Uses(f)') = Cardinality(Uses(f))
                         + One(UsesFile(call'[t], f)) - One(UsesFile(call[t], f))
         /\ \A c : /\ Cardinality(Opens(c)) \in Nat
                   /\ Cardinality(Opens(c)') = Cardinality(Opens(c))
                         + One(OpensNode(call'[t], c)) - One(OpensNode(call[t], c))
<1>1. ASSUME NEW f
      PROVE  /\ Cardinality(Uses(f)) \in Nat
             /\ Cardinality(Uses(f)') = Cardinality(Uses(f))
                   + One(UsesFile(call'[t], f)) - One(UsesFile(call[t], f))
  <2>1. IsFiniteSet(Uses(f))
    BY FS_Subset, OpenFilesAssumption DEF Uses
  <2>2. Uses(f) \ {t} = Uses(f)' \ {t}
    BY DEF Uses, CallsOf
  <2>3. (t \in Uses(f) <=> UsesFile(call[t], f)) /\ (t \in Uses(f)' <=> UsesFile(call'[t], f))
    BY DEF Uses, UsesFile
  <2>4. /\ Cardinality(Uses(f)) \in Nat
        /\ Cardinality(Uses(f)') = Cardinality(Uses(f)) + One(t \in Uses(f)') - One(t \in Uses(f))
    BY <2>1, <2>2, CountOne
  <2> QED
    BY <2>3, <2>4 DEF One
<1>2. ASSUME NEW c
      PROVE  /\ Cardinality(Opens(c)) \in Nat
             /\ Cardinality(Opens(c)') = Cardinality(Opens(c))
                   + One(OpensNode(call'[t], c)) - One(OpensNode(call[t], c))
  <2>1. IsFiniteSet(Opens(c))
    BY FS_Subset, OpenFilesAssumption DEF Opens
  <2>2. Opens(c) \ {t} = Opens(c)' \ {t}
    BY DEF Opens, CallsOf
  <2>3. (t \in Opens(c) <=> OpensNode(call[t], c)) /\ (t \in Opens(c)' <=> OpensNode(call'[t], c))
    BY DEF Opens, OpensNode
  <2>4. /\ Cardinality(Opens(c)) \in Nat
        /\ Cardinality(Opens(c)') = Cardinality(Opens(c)) + One(t \in Opens(c)') - One(t \in Opens(c))
    BY <2>1, <2>2, CountOne
  <2> QED
    BY <2>3, <2>4 DEF One
<1> QED
  BY <1>1, <1>2

(* There are finitely many descriptors in all.                              *)
LEMMA BoundFinite ==
  /\ IsFiniteSet(UserProcs \X Fds)
  /\ \A f : IsFiniteSet(Bound(f)) /\ Cardinality(Bound(f)) \in Nat
<1>1. IsFiniteSet(UserProcs)
  <2>1. ProcOf \in Surjection(UserThreads, UserProcs)
    BY OpenFilesAssumption DEF Surjection, UserProcs
  <2> QED
    BY <2>1, FS_Surjection, OpenFilesAssumption
<1>2. IsFiniteSet(UserProcs \X Fds)
  BY <1>1, FS_Product, OpenFilesAssumption
<1>3. ASSUME NEW f PROVE IsFiniteSet(Bound(f)) /\ Cardinality(Bound(f)) \in Nat
  <2>1. Bound(f) \in SUBSET (UserProcs \X Fds)
    BY DEF Bound
  <2> QED
    BY <1>2, <2>1, FS_Subset, FS_CardinalityType
<1> QED
  BY <1>2, <1>3

(* A descriptor that changes counts for the file it was of and is of.       *)
LEMMA BindCounts ==
  ASSUME FilesType, NEW p \in UserProcs, NEW fd \in Fds, NEW g \in FileObjects \cup {NULLFILE},
         proc_bind(p, fd, g)
  PROVE  \A f : Cardinality(Bound(f)') = Cardinality(Bound(f)) + One(g = f) - One(fdTable[p][fd] = f)
<1> SUFFICES ASSUME NEW f
             PROVE  Cardinality(Bound(f)')
                      = Cardinality(Bound(f)) + One(g = f) - One(fdTable[p][fd] = f)
  OBVIOUS
<1> DEFINE d == <<p, fd>>
<1>1. \A e \in UserProcs \X Fds : fdTable'[e[1]][e[2]] = IF e = d THEN g ELSE fdTable[e[1]][e[2]]
  BY SMTT(30) DEF FilesType, proc_bind
<1>2. Bound(f) \ {d} = Bound(f)' \ {d}
  BY <1>1 DEF Bound
<1>3. d \in UserProcs \X Fds /\ d[1] = p /\ d[2] = fd
  OBVIOUS
<1>4. (d \in Bound(f) <=> fdTable[p][fd] = f) /\ (d \in Bound(f)' <=> g = f)
  BY <1>1, <1>3 DEF Bound
<1>5. Cardinality(Bound(f)') = Cardinality(Bound(f)) + One(d \in Bound(f)') - One(d \in Bound(f))
  BY <1>2, BoundFinite, CountOne
<1> QED
  BY <1>4, <1>5 DEF One

(* A file that appears or goes counts for its node.                         *)
LEMMA FilesCounts ==
  ASSUME FilesType, NEW f, DOMAIN files' \ {f} = DOMAIN files \ {f},
         \A g \in DOMAIN files \ {f} : files'[g].node = files[g].node
  PROVE  \A c : /\ Cardinality(FilesOf(c)) \in Nat
               /\ Cardinality(FilesOf(c)') = Cardinality(FilesOf(c))
                     + One(f \in FilesOf(c)') - One(f \in FilesOf(c))
<1> SUFFICES ASSUME NEW c
             PROVE  /\ Cardinality(FilesOf(c)) \in Nat
                    /\ Cardinality(FilesOf(c)') = Cardinality(FilesOf(c))
                          + One(f \in FilesOf(c)') - One(f \in FilesOf(c))
  OBVIOUS
<1>1. IsFiniteSet(FilesOf(c))
  <2>1. FilesOf(c) \in SUBSET DOMAIN files /\ IsFiniteSet(DOMAIN files)
    BY DEF FilesOf, FilesType
  <2> QED
    BY <2>1, FS_Subset
<1>2. FilesOf(c) \ {f} = FilesOf(c)' \ {f}
  BY DEF FilesOf
<1> QED
  BY <1>1, <1>2, CountOne

(* A file in use has a reference.                                           *)
LEMMA InUseReferenced ==
  ASSUME FilesInv, NEW f \in DOMAIN files
  PROVE  /\ \A p \in UserProcs, fd \in Fds : fdTable[p][fd] = f => files[f].ref > 0
         /\ \A t \in UserThreads : UsesFile(call[t], f) => files[f].ref > 0
<1>1. /\ IsFiniteSet(Bound(f)) /\ IsFiniteSet(Uses(f))
      /\ Cardinality(Bound(f)) \in Nat /\ Cardinality(Uses(f)) \in Nat
  <2>1. IsFiniteSet(Uses(f))
    BY FS_Subset, OpenFilesAssumption DEF Uses
  <2> QED
    BY <2>1, BoundFinite, FS_CardinalityType
<1>2. files[f].ref = Cardinality(Bound(f)) + Cardinality(Uses(f))
  BY DEF FilesInv, RefsCounted
<1>3. ASSUME NEW p \in UserProcs, NEW fd \in Fds, fdTable[p][fd] = f PROVE files[f].ref > 0
  <2>1. <<p, fd>> \in Bound(f)
    BY <1>3 DEF Bound
  <2>2. Cardinality(Bound(f)) # 0
    BY <1>1, <2>1, FS_EmptySet
  <2> QED
    BY <1>1, <1>2, <2>2, SMTT(30)
<1>4. ASSUME NEW t \in UserThreads, UsesFile(call[t], f) PROVE files[f].ref > 0
  <2>1. t \in Uses(f)
    BY <1>4 DEF UsesFile, Uses
  <2>2. Cardinality(Uses(f)) # 0
    BY <1>1, <2>1, FS_EmptySet
  <2> QED
    BY <1>1, <1>2, <2>2, SMTT(30)
<1> QED
  BY <1>3, <1>4

-----------------------------------------------------------------------------
\* What steps that open and free no file have in common.

SameFiles ==
  /\ DOMAIN files' = DOMAIN files
  /\ \A f \in DOMAIN files : files'[f].node = files[f].node

(* The call of t goes on, with a live file when it has one.                 *)
LEMMA CallsHaveKept ==
  ASSUME FilesInv, NEW t \in UserThreads, CallsOf(t), SameFiles, UNCHANGED forked,
         ProcOf[t] \in forked,
         call'[t].at = "open" => call'[t].node \in Clusters,
         call'[t].at \in {"user", "open"} <=> call'[t].file = NULLFILE,
         call'[t].file \in DOMAIN files \cup {NULLFILE}
  PROVE  CallsHave'
<1>1. CallsHave
  BY DEF FilesInv
<1> SUFFICES ASSUME NEW u \in UserThreads
             PROVE  /\ call'[u].at # "user" => ProcOf[u] \in forked
                    /\ call'[u].at = "open" => call'[u].node \in Clusters
                    /\ call'[u].at \in {"user", "open"} <=> call'[u].file = NULLFILE
                    /\ call'[u].file \in DOMAIN files \cup {NULLFILE}
  BY DEF CallsHave, SameFiles
<1>2. CASE u = t
  BY <1>2
<1>3. CASE u # t
  BY <1>1, <1>3 DEF CallsHave, CallsOf
<1> QED
  BY <1>2, <1>3

(* The descriptors stay, and t's reference comes and goes with its use.     *)
LEMMA RefsKept ==
  ASSUME FilesInv, NEW t \in UserThreads, CallsOf(t), DOMAIN files' = DOMAIN files,
         UNCHANGED fdTable,
         \A f \in DOMAIN files : files'[f].ref =
           files[f].ref + One(UsesFile(call'[t], f)) - One(UsesFile(call[t], f))
  PROVE  RefsCounted'
<1> SUFFICES ASSUME NEW f \in DOMAIN files
             PROVE  files'[f].ref = Cardinality(Bound(f)') + Cardinality(Uses(f)')
  BY DEF RefsCounted
<1>1. Bound(f)' = Bound(f)
  BY DEF Bound
<1>2. /\ Cardinality(Uses(f)) \in Nat
      /\ Cardinality(Uses(f)') = Cardinality(Uses(f))
            + One(UsesFile(call'[t], f)) - One(UsesFile(call[t], f))
  BY CallCounts DEF FilesInv
<1>3. files[f].ref = Cardinality(Bound(f)) + Cardinality(Uses(f)) /\ Cardinality(Bound(f)) \in Nat
  BY BoundFinite DEF FilesInv, RefsCounted
<1>4. One(UsesFile(call'[t], f)) \in Int /\ One(UsesFile(call[t], f)) \in Int
  BY SMTT(30) DEF One
<1> QED
  BY <1>1, <1>2, <1>3, <1>4, SMTT(30)

(* No file gets or loses its last reference, and t puts none.               *)
LEMMA PutsKept ==
  ASSUME FilesInv, NEW t \in UserThreads, CallsOf(t), DOMAIN files' = DOMAIN files,
         \A f \in DOMAIN files : files'[f].ref = 0 <=> files[f].ref = 0,
         call[t].at # "put", call'[t].at # "put"
  PROVE  PutsLast'
<1>1. PutsLast /\ CallsHave
  BY DEF FilesInv
<1>2. ASSUME NEW u \in UserThreads, call'[u].at = "put"
      PROVE  u # t /\ call'[u] = call[u]
  BY <1>2 DEF CallsOf
<1>3. ASSUME NEW u \in UserThreads, call'[u].at = "put" PROVE files'[call'[u].file].ref = 0
  <2>1. call[u].at = "put" /\ call'[u].file = call[u].file /\ call[u].file \in DOMAIN files
    BY <1>1, <1>2, <1>3 DEF CallsHave
  <2> QED
    BY <1>1, <2>1 DEF PutsLast
<1>4. ASSUME NEW f \in DOMAIN files, files'[f].ref = 0
      PROVE  \E u \in UserThreads : call'[u].at = "put" /\ call'[u].file = f
  <2>1. PICK u \in UserThreads : call[u].at = "put" /\ call[u].file = f
    BY <1>1, <1>4 DEF PutsLast
  <2>2. call'[u] = call[u]
    BY <2>1 DEF CallsOf
  <2> QED
    BY <2>1, <2>2
<1>5. ASSUME NEW u \in UserThreads, NEW v \in UserThreads,
             call'[u].at = "put", call'[v].at = "put", call'[u].file = call'[v].file
      PROVE  u = v
  BY <1>1, <1>2, <1>5, SMTT(30) DEF PutsLast
<1> QED
  BY <1>3, <1>4, <1>5 DEF PutsLast

(* The nodes and who counts in them stay.                                   *)
LEMMA NodesKept ==
  ASSUME FilesInv, NEW t \in UserThreads, CallsOf(t), SameFiles, UNCHANGED <<nodeList, nodes>>,
         call[t].at # "open", call'[t].at # "open"
  PROVE  NodesCounted'
<1>1. ASSUME NEW c \in Clusters
      PROVE  Cardinality(FilesOf(c)') = Cardinality(FilesOf(c))
             /\ Cardinality(Opens(c)') = Cardinality(Opens(c))
  <2>1. FilesOf(c)' = FilesOf(c)
    BY DEF FilesOf, SameFiles
  <2>2. Opens(c)' = Opens(c)
    BY DEF Opens, CallsOf
  <2> QED
    BY <2>1, <2>2
<1> QED
  BY <1>1 DEF FilesInv, NodesCounted

-----------------------------------------------------------------------------
\* The actions.

(* Before the first call there is nothing.                                  *)
LEMMA FilesInitInv ==
  ASSUME OpenFilesInit
  PROVE  FilesInv
<1>1. FilesType
  BY FS_EmptySet, OpenFilesAssumption, SMTT(30) DEF OpenFilesInit, UserProcs, FilesType, CallType, Idle, InCall, Uncached, NULLFILE
<1>2. CallsHave /\ Bindings /\ RefsCounted /\ PutsLast
  BY DEF OpenFilesInit, CallsHave, Bindings, RefsCounted, PutsLast, Idle, InCall, NULLFILE
<1>3. IsInjective(nodeList)
  BY SMTT(30) DEF OpenFilesInit, IsInjective
<1>4. ASSUME NEW c \in Clusters PROVE FilesOf(c) = {} /\ Opens(c) = {} /\ nodes[c].ref = 0
  BY DEF OpenFilesInit, FilesOf, Opens, Idle, InCall, Uncached
<1>5. ASSUME NEW c \in Clusters
      PROVE  /\ nodes[c].ref = Cardinality(FilesOf(c)) + Cardinality(Opens(c))
             /\ ~(nodes[c].ref > 0)
  <2>1. Cardinality(FilesOf(c)) = 0 /\ Cardinality(Opens(c)) = 0
    BY <1>4, FS_EmptySet
  <2> QED
    BY <1>4, <2>1, SMTT(30)
<1>6. NodesCounted
  BY <1>3, <1>5 DEF NodesCounted
<1> QED
  BY <1>1, <1>2, <1>6 DEF FilesInv

(* open looks the node up and references it.                                *)
LEMMA GetNodeInv ==
  ASSUME FilesInv, NEW t \in UserThreads, NEW c \in Clusters, GetNode(t, c)
  PROVE  FilesInv'
<1>1. /\ call[t] = Idle /\ call[t].at = "user" /\ call[t].file = NULLFILE /\ ProcOf[t] \in forked
      /\ UNCHANGED <<fdTable, forked, files>>
  BY SMTT(30) DEF GetNode, InUser, Idle, InCall
<1>2. CallsOf(t) /\ call'[t].at = "open" /\ call'[t].file = NULLFILE /\ call'[t].node = c
  <2> DEFINE r == InCall("open", NULLFILE, c, 0)
  <2>1. r \in CallType /\ r.at = "open" /\ r.file = NULLFILE /\ r.node = c
    BY SMTT(30) DEF CallType, InCall
  <2>2. call' = [call EXCEPT ![t] = r]
    BY DEF GetNode
  <2> HIDE DEF r
  <2>3. CallsOf(t) /\ call'[t] = r
    BY <2>1, <2>2, CallMoves DEF FilesInv, FilesType
  <2> QED
    BY <2>1, <2>3
<1>3. SameFiles
  BY <1>1 DEF SameFiles
<1>4. nodes' = [nodes EXCEPT ![c] = [ref |-> nodes[c].ref + 1, hit |-> nodes[c].hit + 1]]
  BY DEF GetNode
<1>5. nodeList' \in Seq(Clusters)
  BY SMTT(30) DEF GetNode, FilesInv, FilesType
<1>6. FilesType'
  <2>1. nodes' \in [Clusters -> [ref : Int, hit : Nat]]
    BY <1>4, SMTT(30) DEF FilesInv, FilesType
  <2> QED
    BY <1>1, <1>2, <1>5, <2>1 DEF FilesInv, FilesType, CallsOf
<1>7. CallsHave'
  BY <1>1, <1>2, <1>3, CallsHaveKept
<1>8. Bindings'
  BY <1>1 DEF FilesInv, Bindings
<1>9. RefsCounted'
  <2>1. \A f : ~UsesFile(call'[t], f) /\ ~UsesFile(call[t], f)
    BY <1>1, <1>2 DEF UsesFile
  <2>2. \A f \in DOMAIN files : files'[f].ref =
          files[f].ref + One(UsesFile(call'[t], f)) - One(UsesFile(call[t], f))
    BY <1>1, <2>1, SMTT(30) DEF One, FilesInv, FilesType
  <2> QED
    BY <1>1, <1>2, <2>2, RefsKept
<1>10. PutsLast'
  BY <1>1, <1>2, PutsKept
<1>11. NodesCounted'
  <2>1. IsInjective(nodeList') /\ Members(nodeList') = Members(nodeList) \cup {c}
    <3>1. nodeList \in Seq(Clusters) /\ IsInjective(nodeList)
      BY DEF FilesInv, FilesType, NodesCounted
    <3>2. CASE c \in Members(nodeList)
      BY <3>1, <3>2 DEF GetNode, unsafe_fat_get
    <3>3. CASE c \notin Members(nodeList)
      <4>1. nodeList' = <<c>> \o nodeList
        BY <3>3 DEF GetNode, unsafe_fat_get
      <4>2. /\ DOMAIN nodeList' = 1..(Len(nodeList) + 1) /\ nodeList'[1] = c
            /\ \A i \in 1..Len(nodeList) : nodeList'[i + 1] = nodeList[i]
            /\ \A i \in 2..(Len(nodeList) + 1) : nodeList'[i] = nodeList[i - 1]
            /\ DOMAIN nodeList = 1..Len(nodeList) /\ Len(nodeList) \in Nat
        BY <3>1, <4>1, SMTT(30)
      <4>3. \A i \in 1..Len(nodeList) : nodeList[i] # c
        BY <3>3, <4>2 DEF Members
      <4>4. ASSUME NEW i \in DOMAIN nodeList', NEW j \in DOMAIN nodeList',
                   nodeList'[i] = nodeList'[j]
            PROVE  i = j
        <5>1. CASE i = 1 \/ j = 1
          BY <4>2, <4>3, <4>4, <5>1, SMTT(30)
        <5>2. CASE i # 1 /\ j # 1
          <6>1. i - 1 \in DOMAIN nodeList /\ j - 1 \in DOMAIN nodeList
            BY <4>2, <5>2, SMTT(30)
          <6>2. nodeList[i - 1] = nodeList[j - 1]
            BY <4>2, <4>4, <5>2, SMTT(30)
          <6>3. i - 1 = j - 1
            BY <3>1, <6>1, <6>2 DEF IsInjective
          <6> QED
            BY <4>2, <6>3, SMTT(30)
        <5> QED
          BY <5>1, <5>2
      <4>5. Members(nodeList') = Members(nodeList) \cup {c}
        <5>1. ASSUME NEW x \in Members(nodeList') PROVE x \in Members(nodeList) \cup {c}
          <6>1. PICK i \in DOMAIN nodeList' : x = nodeList'[i]
            BY DEF Members
          <6>2. i = 1 \/ (i - 1 \in DOMAIN nodeList /\ x = nodeList[i - 1])
            BY <4>2, <6>1, SMTT(30)
          <6> QED
            BY <4>2, <6>1, <6>2 DEF Members
        <5>2. ASSUME NEW x \in Members(nodeList) PROVE x \in Members(nodeList')
          <6>1. PICK i \in DOMAIN nodeList : x = nodeList[i]
            BY DEF Members
          <6>2. i + 1 \in DOMAIN nodeList' /\ x = nodeList'[i + 1]
            BY <4>2, <6>1, SMTT(30)
          <6> QED
            BY <6>2 DEF Members
        <5>3. c \in Members(nodeList')
          BY <4>2, SMTT(30) DEF Members
        <5> QED
          BY <5>1, <5>2, <5>3
      <4> QED
        BY <4>4, <4>5 DEF IsInjective
    <3> QED
      BY <3>2, <3>3
  <2>2. ASSUME NEW d \in Clusters
        PROVE  /\ nodes'[d].ref = Cardinality(FilesOf(d)') + Cardinality(Opens(d)')
               /\ nodes'[d].ref > 0 => d \in Members(nodeList')
    <3>1. FilesOf(d)' = FilesOf(d) /\ Cardinality(FilesOf(d)) \in Nat
      <4>1. FilesOf(d) \in SUBSET DOMAIN files /\ IsFiniteSet(DOMAIN files)
        BY DEF FilesOf, FilesInv, FilesType
      <4> QED
        BY <1>1, <4>1, FS_Subset, FS_CardinalityType DEF FilesOf
    <3>2. /\ Cardinality(Opens(d)) \in Nat
          /\ Cardinality(Opens(d)') = Cardinality(Opens(d)) + One(d = c)
      <4>1. ~OpensNode(call[t], d) /\ (OpensNode(call'[t], d) <=> d = c)
        BY <1>1, <1>2 DEF OpensNode
      <4>2. /\ Cardinality(Opens(d)) \in Nat
            /\ Cardinality(Opens(d)') = Cardinality(Opens(d))
                  + One(OpensNode(call'[t], d)) - One(OpensNode(call[t], d))
        BY <1>2, CallCounts DEF FilesInv
      <4> QED
        BY <4>1, <4>2, SMTT(30) DEF One
    <3>3. nodes'[d].ref = nodes[d].ref + One(d = c)
      BY <1>4, SMTT(30) DEF One, FilesInv, FilesType
    <3>4. /\ nodes[d].ref = Cardinality(FilesOf(d)) + Cardinality(Opens(d))
          /\ nodes[d].ref > 0 => d \in Members(nodeList)
      BY DEF FilesInv, NodesCounted
    <3>5. nodes'[d].ref = Cardinality(FilesOf(d)') + Cardinality(Opens(d)')
      BY <3>1, <3>2, <3>3, <3>4, SMTT(30) DEF One
    <3>6. nodes'[d].ref > 0 => d \in Members(nodeList')
      BY <2>1, <3>1, <3>2, <3>3, <3>4, SMTT(30) DEF One
    <3> QED
      BY <3>5, <3>6
  <2> QED
    BY <2>1, <2>2 DEF NodesCounted
<1> QED
  BY <1>6, <1>7, <1>8, <1>9, <1>10, <1>11 DEF FilesInv

(* open makes the file object, with the reference that open has itself.     *)
LEMMA OpenInv ==
  ASSUME FilesInv, NEW t \in UserThreads, vfs_open(t)
  PROVE  FilesInv'
<1> DEFINE n == call[t].node
<1>1. /\ call[t].at = "open" /\ n \in Clusters /\ call[t].file = NULLFILE
      /\ ProcOf[t] \in forked
  BY DEF vfs_open, FilesInv, CallsHave
<1>2. PICK f \in FileObjects \ DOMAIN files :
        /\ files' = [g \in DOMAIN files \cup {f} |->
             IF g = f THEN [node |-> n, ref |-> 1, offset |-> 0] ELSE files[g]]
        /\ call' = [call EXCEPT ![t] = InCall("bind", f, 0, 0)]
  BY DEF vfs_open
<1>3. UNCHANGED <<fdTable, forked, nodeList, nodes>>
  BY DEF vfs_open
<1>4. CallsOf(t) /\ call'[t].at = "bind" /\ call'[t].file = f
  <2>1. InCall("bind", f, 0, 0) \in CallType
    BY SMTT(30) DEF CallType, InCall
  <2>2. CallsOf(t) /\ call'[t] = InCall("bind", f, 0, 0)
    BY <1>2, <2>1, CallMoves DEF FilesInv, FilesType
  <2> QED
    BY <2>2, SMTT(30) DEF InCall
<1>5. f # NULLFILE
  BY OpenFilesAssumption DEF NULLFILE
<1>6. /\ DOMAIN files' = DOMAIN files \cup {f} /\ files'[f].node = n /\ files'[f].ref = 1
      /\ \A g \in DOMAIN files : files'[g] = files[g]
  BY <1>2
<1>7. FilesType'
  <2>1. IsFiniteSet(DOMAIN files') /\ DOMAIN files' \subseteq FileObjects
    BY <1>6, FS_AddElement, SMTT(30) DEF FilesInv, FilesType
  <2>2. files' \in [DOMAIN files' -> [node : Clusters, ref : Int, offset : Int]]
    BY <1>1, <1>2, SMTT(30) DEF FilesInv, FilesType
  <2> QED
    BY <1>3, <1>4, <2>1, <2>2 DEF FilesInv, FilesType, CallsOf
<1>8. CallsHave'
  <2> SUFFICES ASSUME NEW u \in UserThreads
               PROVE  /\ call'[u].at # "user" => ProcOf[u] \in forked'
                      /\ call'[u].at = "open" => call'[u].node \in Clusters
                      /\ call'[u].at \in {"user", "open"} <=> call'[u].file = NULLFILE
                      /\ call'[u].file \in DOMAIN files' \cup {NULLFILE}
    BY DEF CallsHave
  <2>1. CASE u = t
    BY <1>1, <1>3, <1>4, <1>5, <1>6, <2>1
  <2>2. CASE u # t
    BY <1>3, <1>4, <1>6, <2>2 DEF CallsOf, FilesInv, CallsHave
  <2> QED
    BY <2>1, <2>2
<1>9. Bindings'
  BY <1>3, <1>6 DEF FilesInv, Bindings
<1>10. RefsCounted'
  <2> SUFFICES ASSUME NEW g \in DOMAIN files'
               PROVE  files'[g].ref = Cardinality(Bound(g)') + Cardinality(Uses(g)')
    BY DEF RefsCounted
  <2>1. Bound(g)' = Bound(g) /\ Cardinality(Bound(g)) \in Nat
    BY <1>3, BoundFinite DEF Bound
  <2>2. ~UsesFile(call[t], g) /\ (UsesFile(call'[t], g) <=> g = f)
    BY <1>1, <1>4 DEF UsesFile
  <2>3. Cardinality(Uses(g)) \in Nat /\ Cardinality(Uses(g)') = Cardinality(Uses(g)) + One(g = f)
    <3>1. /\ Cardinality(Uses(g)) \in Nat
          /\ Cardinality(Uses(g)') = Cardinality(Uses(g))
                + One(UsesFile(call'[t], g)) - One(UsesFile(call[t], g))
      BY <1>4, CallCounts DEF FilesInv
    <3> QED
      BY <2>2, <3>1, SMTT(30) DEF One
  <2>4. CASE g # f
    <3>1. files'[g].ref = files[g].ref /\ files[g].ref = Cardinality(Bound(g)) + Cardinality(Uses(g))
      BY <1>6, <2>4 DEF FilesInv, RefsCounted
    <3> QED
      BY <2>1, <2>3, <2>4, <3>1, SMTT(30) DEF One
  <2>5. CASE g = f
    <3>1. Bound(f) = {}
      BY <1>2, <1>5 DEF Bound, FilesInv, Bindings
    <3>2. Uses(f) = {}
      BY <1>2, <1>5 DEF Uses, FilesInv, CallsHave
    <3>3. Cardinality(Bound(f)) = 0 /\ Cardinality(Uses(f)) = 0
      BY <3>1, <3>2, FS_EmptySet
    <3> QED
      BY <1>6, <2>1, <2>3, <2>5, <3>3, SMTT(30) DEF One
  <2> QED
    BY <2>4, <2>5
<1>11. PutsLast'
  <2>1. PutsLast /\ CallsHave
    BY DEF FilesInv
  <2>2. ASSUME NEW u \in UserThreads
        PROVE  /\ call'[u].at = "put" <=> call[u].at = "put"
               /\ call'[u].at = "put" => call'[u].file = call[u].file /\ call[u].file \in DOMAIN files
    <3>1. CASE u = t
      BY <1>1, <1>4, <3>1
    <3>2. CASE u # t
      BY <1>4, <2>1, <3>2 DEF CallsOf, CallsHave
    <3> QED
      BY <3>1, <3>2
  <2>3. \A u \in UserThreads : call'[u].at = "put" => files'[call'[u].file].ref = 0
    BY <1>6, <2>1, <2>2, SMTT(30) DEF PutsLast
  <2>4. ASSUME NEW g \in DOMAIN files', files'[g].ref = 0
        PROVE  \E u \in UserThreads : call'[u].at = "put" /\ call'[u].file = g
    <3>1. g \in DOMAIN files /\ files[g].ref = 0
      BY <1>6, <2>4, SMTT(30)
    <3>2. PICK u \in UserThreads : call[u].at = "put" /\ call[u].file = g
      BY <2>1, <3>1 DEF PutsLast
    <3> QED
      BY <2>2, <3>2
  <2>5. \A u, v \in UserThreads :
          call'[u].at = "put" /\ call'[v].at = "put" /\ call'[u].file = call'[v].file => u = v
    BY <2>1, <2>2, SMTT(30) DEF PutsLast
  <2> QED
    BY <2>3, <2>4, <2>5 DEF PutsLast
<1>12. NodesCounted'
  <2> SUFFICES ASSUME NEW c \in Clusters
               PROVE  nodes[c].ref = Cardinality(FilesOf(c)') + Cardinality(Opens(c)')
    BY <1>3 DEF FilesInv, NodesCounted
  <2>1. f \notin FilesOf(c) /\ (f \in FilesOf(c)' <=> c = n)
    BY <1>2, <1>6 DEF FilesOf
  <2>2. /\ Cardinality(FilesOf(c)) \in Nat
        /\ Cardinality(FilesOf(c)') = Cardinality(FilesOf(c))
              + One(f \in FilesOf(c)') - One(f \in FilesOf(c))
    BY <1>6, FilesCounts DEF FilesInv
  <2>3. (OpensNode(call[t], c) <=> c = n) /\ ~OpensNode(call'[t], c)
    BY <1>1, <1>4 DEF OpensNode
  <2>4. /\ Cardinality(Opens(c)) \in Nat
        /\ Cardinality(Opens(c)') = Cardinality(Opens(c))
              + One(OpensNode(call'[t], c)) - One(OpensNode(call[t], c))
    BY <1>4, CallCounts DEF FilesInv
  <2>5. nodes[c].ref = Cardinality(FilesOf(c)) + Cardinality(Opens(c))
    BY DEF FilesInv, NodesCounted
  <2> QED
    BY <2>1, <2>2, <2>3, <2>4, <2>5, SMTT(30) DEF One
<1> QED
  BY <1>7, <1>8, <1>9, <1>10, <1>11, <1>12 DEF FilesInv

(* A reference passes between a descriptor and the call of t.               *)
LEMMA RefsRebound ==
  ASSUME FilesInv, NEW t \in UserThreads, CallsOf(t), UNCHANGED files,
         NEW p \in UserProcs, NEW fd \in Fds, NEW g \in FileObjects \cup {NULLFILE},
         proc_bind(p, fd, g),
         \A f \in DOMAIN files :
           One(g = f) + One(UsesFile(call'[t], f)) = One(fdTable[p][fd] = f) + One(UsesFile(call[t], f))
  PROVE  RefsCounted'
<1> SUFFICES ASSUME NEW f \in DOMAIN files
             PROVE  files[f].ref = Cardinality(Bound(f)') + Cardinality(Uses(f)')
  BY DEF RefsCounted
<1>1. Cardinality(Bound(f)') = Cardinality(Bound(f)) + One(g = f) - One(fdTable[p][fd] = f)
  <2>1. FilesType
    BY DEF FilesInv
  <2> QED
    BY <2>1, BindCounts, SMTT(30)
<1>2. /\ Cardinality(Uses(f)) \in Nat
      /\ Cardinality(Uses(f)') = Cardinality(Uses(f))
            + One(UsesFile(call'[t], f)) - One(UsesFile(call[t], f))
  BY CallCounts, SMTT(30) DEF FilesInv
<1>3. files[f].ref = Cardinality(Bound(f)) + Cardinality(Uses(f)) /\ Cardinality(Bound(f)) \in Nat
  BY BoundFinite DEF FilesInv, RefsCounted
<1>4. /\ One(UsesFile(call'[t], f)) \in Int /\ One(UsesFile(call[t], f)) \in Int
      /\ One(g = f) \in Int /\ One(fdTable[p][fd] = f) \in Int
  BY SMTT(30) DEF One
<1> QED
  BY <1>1, <1>2, <1>3, <1>4, SMTT(30)

(* open gives its reference to a descriptor, or is about to drop it.        *)
LEMMA BindFdInv ==
  ASSUME FilesInv, NEW t \in UserThreads, BindFd(t)
  PROVE  FilesInv'
<1> DEFINE p == ProcOf[t]
           f == call[t].file
<1>1. /\ call[t].at = "bind" /\ f \in DOMAIN files /\ f # NULLFILE /\ f \in FileObjects
      /\ p \in forked
      /\ UNCHANGED <<forked, files, nodeList, nodes>>
  BY DEF BindFd, FilesInv, CallsHave, FilesType
<1>2. SameFiles
  BY <1>1 DEF SameFiles
<1>3. CASE VacantFds(p) = {}
  <2>1. call' = [call EXCEPT ![t].at = "unref"] /\ UNCHANGED fdTable
    BY <1>3 DEF BindFd, GoTo
  <2>2. CallsOf(t) /\ call'[t].at = "unref" /\ call'[t].file = f
    BY <2>1, CallGoes DEF FilesInv, FilesType
  <2>3. FilesType' /\ Bindings'
    BY <1>1, <2>1, <2>2 DEF FilesInv, FilesType, Bindings, CallsOf
  <2>4. CallsHave'
    BY <1>1, <1>2, <2>2, CallsHaveKept
  <2>5. RefsCounted'
    <3>1. \A g : UsesFile(call'[t], g) <=> UsesFile(call[t], g)
      BY <1>1, <2>2 DEF UsesFile
    <3>2. \A g \in DOMAIN files : files'[g].ref =
            files[g].ref + One(UsesFile(call'[t], g)) - One(UsesFile(call[t], g))
      BY <1>1, <3>1, SMTT(30) DEF One, FilesInv, FilesType
    <3> QED
      BY <1>1, <2>1, <2>2, <3>2, RefsKept
  <2>6. PutsLast'
    BY <1>1, <2>2, PutsKept
  <2>7. NodesCounted'
    BY <1>1, <1>2, <2>2, NodesKept
  <2> QED
    BY <2>3, <2>4, <2>5, <2>6, <2>7 DEF FilesInv
<1>4. CASE VacantFds(p) # {}
  <2> DEFINE fd == Lowest(VacantFds(p))
  <2>1. fd \in Fds /\ fdTable[p][fd] = NULLFILE
    BY <1>4, LowestIsMember, OpenFilesAssumption DEF VacantFds
  <2>2. proc_bind(p, fd, f) /\ call' = [call EXCEPT ![t] = Idle]
    BY <1>4 DEF BindFd
  <2> HIDE DEF fd
  <2>3. CallsOf(t) /\ call'[t].at = "user" /\ call'[t].file = NULLFILE
    <3>1. Idle \in CallType
      BY SMTT(30) DEF Idle, InCall, CallType
    <3>2. CallsOf(t) /\ call'[t] = Idle
      BY <2>2, <3>1, CallMoves DEF FilesInv, FilesType
    <3> QED
      BY <3>2, SMTT(30) DEF Idle, InCall
  <2>4. p \in UserProcs
    BY DEF UserProcs
  <2>5. FilesType'
    BY <1>1, <2>1, <2>2, <2>3, <2>4 DEF FilesInv, FilesType, CallsOf, proc_bind
  <2>6. Bindings'
    BY <1>1, <2>1, <2>2, <2>4 DEF FilesInv, FilesType, Bindings, proc_bind
  <2>7. CallsHave'
    BY <1>1, <1>2, <2>3, CallsHaveKept
  <2>8. RefsCounted'
    <3>1. \A g \in DOMAIN files :
            One(f = g) + One(UsesFile(call'[t], g)) = One(fdTable[p][fd] = g) + One(UsesFile(call[t], g))
      <4>1. \A g \in DOMAIN files : g # NULLFILE
        BY OpenFilesAssumption DEF FilesInv, FilesType, NULLFILE
      <4>2. \A g \in DOMAIN files : ~UsesFile(call'[t], g) /\ (UsesFile(call[t], g) <=> f = g)
        BY <1>1, <2>3 DEF UsesFile
      <4> QED
        BY <2>1, <4>1, <4>2, SMTT(30) DEF One
    <3> QED
      BY <1>1, <2>1, <2>2, <2>3, <2>4, <3>1, RefsRebound, SMTT(30)
  <2>9. PutsLast'
    BY <1>1, <2>3, PutsKept
  <2>10. NodesCounted'
    BY <1>1, <1>2, <2>3, NodesKept
  <2> QED
    BY <2>5, <2>6, <2>7, <2>8, <2>9, <2>10 DEF FilesInv
<1> QED
  BY <1>3, <1>4

(* close takes the reference of the descriptor.                             *)
LEMMA UnbindInv ==
  ASSUME FilesInv, NEW t \in UserThreads, NEW fd \in Fds, Unbind(t, fd)
  PROVE  FilesInv'
<1> DEFINE p == ProcOf[t]
           f == fdTable[p][fd]
<1>1. p \in UserProcs
  BY DEF UserProcs
<1>2. /\ call[t].at = "user" /\ call[t].file = NULLFILE /\ f # NULLFILE /\ p \in forked
      /\ proc_bind(p, fd, NULLFILE)
      /\ call' = [call EXCEPT ![t] = InCall("unref", f, 0, 0)]
      /\ UNCHANGED <<forked, files, nodeList, nodes>>
  BY SMTT(30) DEF Unbind, InUser, Idle, InCall, proc_unbind, proc_bind, proc_get_file
<1>3. f \in DOMAIN files /\ f \in FileObjects
  BY <1>1, <1>2 DEF FilesInv, FilesType, Bindings
<1>4. CallsOf(t) /\ call'[t].at = "unref" /\ call'[t].file = f
  <2>1. InCall("unref", f, 0, 0) \in CallType
    BY <1>3, SMTT(30) DEF InCall, CallType
  <2>2. CallsOf(t) /\ call'[t] = InCall("unref", f, 0, 0)
    BY <1>2, <2>1, CallMoves DEF FilesInv, FilesType
  <2> QED
    BY <2>2, SMTT(30) DEF InCall
<1>5. SameFiles
  BY <1>2 DEF SameFiles
<1>6. FilesType' /\ Bindings'
  BY <1>1, <1>2, <1>4, SMTT(30) DEF FilesInv, FilesType, Bindings, CallsOf, proc_bind
<1>7. CallsHave'
  BY <1>2, <1>3, <1>4, <1>5, CallsHaveKept
<1>8. RefsCounted'
  <2>1. \A g \in DOMAIN files : One(NULLFILE = g) + One(UsesFile(call'[t], g))
                                 = One(fdTable[p][fd] = g) + One(UsesFile(call[t], g))
    <3>1. \A g \in DOMAIN files : g # NULLFILE
      BY OpenFilesAssumption DEF FilesInv, FilesType, NULLFILE
    <3>2. \A g \in DOMAIN files : ~UsesFile(call[t], g) /\ (UsesFile(call'[t], g) <=> f = g)
      BY <1>2, <1>4 DEF UsesFile
    <3> QED
      BY <3>1, <3>2, SMTT(30) DEF One
  <2> QED
    BY <1>1, <1>2, <1>4, <2>1, RefsRebound, SMTT(30)
<1>9. PutsLast'
  BY <1>2, <1>4, PutsKept
<1>10. NodesCounted'
  BY <1>2, <1>4, <1>5, NodesKept
<1> QED
  BY <1>6, <1>7, <1>8, <1>9, <1>10 DEF FilesInv

FileRecords == [node : Clusters, ref : Int, offset : Int]

(* A step that keeps files, descriptors and nodes, but for the references   *)
(* that the call of t takes and gives up, keeps the invariant.              *)
LEMMA CallInv ==
  ASSUME FilesInv, NEW t \in UserThreads, CallsOf(t), SameFiles,
         files' \in [DOMAIN files -> FileRecords],
         UNCHANGED <<fdTable, forked, nodeList, nodes>>,
         ProcOf[t] \in forked,
         call[t].at \notin {"open", "put"}, call'[t].at \notin {"open", "put"},
         call'[t].at = "user" <=> call'[t].file = NULLFILE,
         call'[t].file \in DOMAIN files \cup {NULLFILE},
         \A f \in DOMAIN files : files'[f].ref =
           files[f].ref + One(UsesFile(call'[t], f)) - One(UsesFile(call[t], f)),
         \A f \in DOMAIN files : files'[f].ref = 0 <=> files[f].ref = 0
  PROVE  FilesInv'
<1>1. FilesType'
  BY DEF FilesInv, FilesType, CallsOf, SameFiles, FileRecords
<1>2. Bindings'
  BY DEF FilesInv, Bindings, SameFiles
<1>3. CallsHave'
  BY CallsHaveKept
<1>4. DOMAIN files' = DOMAIN files
  BY DEF SameFiles
<1>5. RefsCounted'
  BY <1>4, RefsKept
<1>6. PutsLast'
  BY <1>4, PutsKept
<1>7. NodesCounted'
  BY NodesKept
<1> QED
  BY <1>1, <1>2, <1>3, <1>5, <1>6, <1>7 DEF FilesInv

(* read, write and lseek take a reference of their own.                     *)
LEMMA UseFileInv ==
  ASSUME FilesInv, NEW t \in UserThreads, NEW fd \in Fds, NEW at \in {"read", "seek"},
         NEW n \in Int, UseFile(t, fd, at, n)
  PROVE  FilesInv'
<1> DEFINE p == ProcOf[t]
           f == fdTable[p][fd]
<1>1. p \in UserProcs
  BY DEF UserProcs
<1>2. /\ call[t].at = "user" /\ call[t].file = NULLFILE /\ f # NULLFILE /\ p \in forked
      /\ files' = [files EXCEPT ![f].ref = @ + 1]
      /\ call' = [call EXCEPT ![t] = InCall(at, f, 0, n)]
      /\ UNCHANGED <<fdTable, forked, nodeList, nodes>>
  BY SMTT(30) DEF UseFile, InUser, Idle, InCall, vfs_file_dup, proc_get_file
<1>3. f \in DOMAIN files /\ f \in FileObjects
  BY <1>1, <1>2 DEF FilesInv, FilesType, Bindings
<1>4. CallsOf(t) /\ call'[t].at = at /\ call'[t].file = f
  <2>1. InCall(at, f, 0, n) \in CallType
    BY <1>3 DEF InCall, CallType
  <2>2. CallsOf(t) /\ call'[t] = InCall(at, f, 0, n)
    BY <1>2, <2>1, CallMoves DEF FilesInv, FilesType
  <2> QED
    BY <2>2, SMTT(30) DEF InCall
<1>5. files \in [DOMAIN files -> FileRecords]
  BY DEF FilesInv, FilesType, FileRecords
<1>6. /\ files' \in [DOMAIN files -> FileRecords] /\ SameFiles
      /\ \A g \in DOMAIN files : files'[g].ref = IF g = f THEN files[g].ref + 1 ELSE files[g].ref
  BY <1>2, <1>3, <1>5, SMTT(30) DEF FileRecords, SameFiles
<1>7. ASSUME NEW g \in DOMAIN files
      PROVE  /\ files'[g].ref = files[g].ref + One(UsesFile(call'[t], g)) - One(UsesFile(call[t], g))
             /\ files'[g].ref = 0 <=> files[g].ref = 0
  <2>1. files[g].ref \in Int
    BY <1>5 DEF FileRecords
  <2>2. ~UsesFile(call[t], g) /\ (UsesFile(call'[t], g) <=> g = f)
    BY <1>2, <1>4 DEF UsesFile
  <2>3. files[f].ref > 0
    BY <1>1, <1>3, InUseReferenced
  <2> QED
    BY <1>6, <2>1, <2>2, <2>3, SMTT(30) DEF One
<1> QED
  BY <1>2, <1>3, <1>4, <1>6, <1>7, CallInv

(* A call that has its file moves the offset, and holds on to the file.     *)
LEMMA OffsetInv ==
  ASSUME FilesInv, NEW t \in UserThreads, call[t].at \in {"read", "seek"}, CallsOf(t),
         call'[t].at \in {"read", "unref"}, call'[t].file = call[t].file,
         NEW offset \in Int,
         files' = [files EXCEPT ![call[t].file].offset = offset],
         UNCHANGED <<fdTable, forked, nodeList, nodes>>
  PROVE  FilesInv'
<1>1. call[t].file \in DOMAIN files /\ call[t].file # NULLFILE /\ ProcOf[t] \in forked
  BY DEF FilesInv, CallsHave
<1>2. files \in [DOMAIN files -> FileRecords]
  BY DEF FilesInv, FilesType, FileRecords
<1>3. /\ files' \in [DOMAIN files -> FileRecords] /\ SameFiles
      /\ \A g \in DOMAIN files : files'[g].ref = files[g].ref
  BY <1>1, <1>2 DEF FileRecords, SameFiles
<1>4. ASSUME NEW g \in DOMAIN files
      PROVE  files'[g].ref = files[g].ref + One(UsesFile(call'[t], g)) - One(UsesFile(call[t], g))
  <2>1. files[g].ref \in Int
    BY <1>2 DEF FileRecords
  <2>2. UsesFile(call[t], g) <=> UsesFile(call'[t], g)
    BY DEF UsesFile
  <2> QED
    BY <1>3, <2>1, <2>2, SMTT(30) DEF One
<1> QED
  BY <1>1, <1>3, <1>4, CallInv

(* A batch of read.                                                         *)
LEMMA ReadBatchInv ==
  ASSUME FilesInv, NEW t \in UserThreads, ReadBatch(t)
  PROVE  FilesInv'
<1> DEFINE f == call[t].file
           n == NumRead(files[f], Batch(call[t].count))
<1>1. /\ call[t].at = "read" /\ f \in DOMAIN files /\ f \in FileObjects /\ call[t].count \in Int
      /\ files[f].node \in Clusters /\ files[f].offset \in Int
  BY DEF ReadBatch, FilesInv, CallsHave, FilesType, CallType
<1>2. n \in Int
  <2>1. Batch(call[t].count) \in Int
    BY <1>1, OpenFilesAssumption, SMTT(30) DEF Batch
  <2>2. Size[files[f].node] \in Int
    BY <1>1, OpenFilesAssumption, SMTT(30)
  <2> QED
    BY <1>1, <2>1, <2>2, SMTT(30) DEF NumRead, fat_vfs_node_read
<1> HIDE DEF n
<1>3. /\ files' = [files EXCEPT ![f].offset = files[f].offset + n]
      /\ call' = [call EXCEPT ![t] = InCall(IF n = 0 THEN "unref" ELSE "read", f, 0, call[t].count - n)]
      /\ UNCHANGED <<fdTable, forked, nodeList, nodes>>
  BY DEF ReadBatch, n
<1>4. CallsOf(t) /\ call'[t].at \in {"read", "unref"} /\ call'[t].file = f
  <2> DEFINE r == InCall(IF n = 0 THEN "unref" ELSE "read", f, 0, call[t].count - n)
  <2>1. r \in CallType /\ r.at \in {"read", "unref"} /\ r.file = f
    BY <1>1, <1>2, SMTT(30) DEF InCall, CallType
  <2> HIDE DEF r
  <2>2. CallsOf(t) /\ call'[t] = r
    BY <1>3, <2>1, CallMoves DEF FilesInv, FilesType, r
  <2> QED
    BY <2>1, <2>2
<1>5. files[f].offset + n \in Int
  BY <1>1, <1>2, SMTT(30)
<1> QED
  BY <1>1, <1>3, <1>4, <1>5, OffsetInv

(* The end of read.                                                         *)
LEMMA ReadDoneInv ==
  ASSUME FilesInv, NEW t \in UserThreads, ReadDone(t)
  PROVE  FilesInv'
<1>1. /\ call[t].at = "read" /\ call' = [call EXCEPT ![t].at = "unref"]
      /\ UNCHANGED <<fdTable, forked, files, nodeList, nodes>>
  BY DEF ReadDone, GoTo
<1>2. CallsOf(t) /\ call'[t].at = "unref" /\ call'[t].file = call[t].file
  BY <1>1, CallGoes DEF FilesInv, FilesType
<1>3. /\ call[t].file \in DOMAIN files /\ call[t].file # NULLFILE /\ ProcOf[t] \in forked
      /\ files' \in [DOMAIN files -> FileRecords] /\ SameFiles
  BY <1>1 DEF FilesInv, CallsHave, FilesType, FileRecords, SameFiles
<1>4. ASSUME NEW g \in DOMAIN files
      PROVE  files'[g].ref = files[g].ref + One(UsesFile(call'[t], g)) - One(UsesFile(call[t], g))
  <2>1. files[g].ref \in Int
    BY DEF FilesInv, FilesType
  <2>2. UsesFile(call[t], g) <=> UsesFile(call'[t], g)
    BY <1>1, <1>2 DEF UsesFile
  <2> QED
    BY <1>1, <2>1, <2>2, SMTT(30) DEF One
<1> QED
  BY <1>1, <1>2, <1>3, <1>4, CallInv

(* lseek sets the offset.                                                   *)
LEMMA SeekInv ==
  ASSUME FilesInv, NEW t \in UserThreads, NEW whence, NEW offset, Seek(t, whence, offset)
  PROVE  FilesInv'
<1> DEFINE cur == vfs_file_seek(files[call[t].file], offset, whence)
<1>1. /\ call[t].at = "seek" /\ cur \in 0..MaxOffset
      /\ files' = [files EXCEPT ![call[t].file].offset = cur]
      /\ call' = [call EXCEPT ![t].at = "unref"]
      /\ UNCHANGED <<fdTable, forked, nodeList, nodes>>
  BY DEF Seek, GoTo
<1> HIDE DEF cur
<1>2. CallsOf(t) /\ call'[t].at = "unref" /\ call'[t].file = call[t].file
  BY <1>1, CallGoes DEF FilesInv, FilesType
<1>3. cur \in Int
  BY <1>1, SMTT(30)
<1> QED
  BY <1>1, <1>2, <1>3, OffsetInv

(* The end of a call, or the last reference: the file is about to go.       *)
LEMMA UnrefInv ==
  ASSUME FilesInv, NEW t \in UserThreads, Unref(t)
  PROVE  FilesInv'
<1> DEFINE f == call[t].file
<1>1. /\ call[t].at = "unref" /\ f \in DOMAIN files /\ f # NULLFILE /\ ProcOf[t] \in forked
      /\ files' = [files EXCEPT ![f].ref = @ - 1]
      /\ UNCHANGED <<fdTable, forked, nodeList, nodes>>
  BY DEF Unref, FilesInv, CallsHave
<1>2. files \in [DOMAIN files -> FileRecords]
  BY DEF FilesInv, FilesType, FileRecords
<1>3. /\ files' \in [DOMAIN files -> FileRecords] /\ SameFiles
      /\ \A g \in DOMAIN files : files'[g].ref = IF g = f THEN files[g].ref - 1 ELSE files[g].ref
  BY <1>1, <1>2, SMTT(30) DEF FileRecords, SameFiles
<1>4. files[f].ref > 0 /\ \A g \in DOMAIN files : files[g].ref \in Int
  <2>1. UsesFile(call[t], f)
    BY <1>1 DEF UsesFile
  <2> QED
    BY <1>1, <1>2, <2>1, InUseReferenced DEF FileRecords
<1>5. \A g : UsesFile(call[t], g) <=> g = f
  BY <1>1 DEF UsesFile
<1>6. CASE files[f].ref = 1
  <2>1. call' = [call EXCEPT ![t].at = "put"]
    BY <1>6 DEF Unref
  <2>2. CallsOf(t) /\ call'[t].at = "put" /\ call'[t].file = f
    BY <2>1, CallGoes DEF FilesInv, FilesType
  <2>3. FilesType' /\ Bindings'
    BY <1>1, <1>3, <2>2 DEF FilesInv, FilesType, Bindings, CallsOf, SameFiles, FileRecords
  <2>4. CallsHave'
    BY <1>1, <1>3, <2>2, CallsHaveKept
  <2>5. RefsCounted'
    <3>1. ASSUME NEW g \in DOMAIN files
          PROVE  files'[g].ref = files[g].ref + One(UsesFile(call'[t], g)) - One(UsesFile(call[t], g))
      <4>1. ~UsesFile(call'[t], g)
        BY <2>2 DEF UsesFile
      <4> QED
        BY <1>3, <1>4, <1>5, <4>1, SMTT(30) DEF One
    <3> QED
      BY <1>1, <1>3, <2>2, <3>1, RefsKept DEF SameFiles
  <2>6. PutsLast'
    <3>1. PutsLast /\ CallsHave
      BY DEF FilesInv
    <3>2. ASSUME NEW u \in UserThreads, call'[u].at = "put", u # t
          PROVE  /\ call[u].at = "put" /\ call'[u].file = call[u].file /\ call[u].file \in DOMAIN files
                 /\ call[u].file # f /\ files[call[u].file].ref = 0
      <4>1. call'[u] = call[u]
        BY <2>2, <3>2 DEF CallsOf
      <4> QED
        BY <1>6, <3>1, <3>2, <4>1, SMTT(30) DEF PutsLast, CallsHave
    <3>3. ASSUME NEW u \in UserThreads, call'[u].at = "put" PROVE files'[call'[u].file].ref = 0
      <4>1. CASE u = t
        BY <1>1, <1>3, <1>6, <2>2, <4>1, SMTT(30)
      <4>2. CASE u # t
        BY <1>3, <3>2, <3>3, <4>2
      <4> QED
        BY <4>1, <4>2
    <3>4. ASSUME NEW g \in DOMAIN files', files'[g].ref = 0
          PROVE  \E u \in UserThreads : call'[u].at = "put" /\ call'[u].file = g
      <4>1. CASE g = f
        BY <2>2, <4>1
      <4>2. CASE g # f
        <5>1. g \in DOMAIN files /\ files[g].ref = 0
          BY <1>3, <3>4, <4>2 DEF SameFiles
        <5>2. PICK u \in UserThreads : call[u].at = "put" /\ call[u].file = g
          BY <3>1, <5>1 DEF PutsLast
        <5>3. call'[u] = call[u]
          BY <2>2, <4>2, <5>2 DEF CallsOf
        <5> QED
          BY <5>2, <5>3
      <4> QED
        BY <4>1, <4>2
    <3>5. ASSUME NEW u \in UserThreads, NEW v \in UserThreads,
                 call'[u].at = "put", call'[v].at = "put", call'[u].file = call'[v].file
          PROVE  u = v
      <4>1. CASE u # t /\ v # t
        BY <3>1, <3>2, <3>5, <4>1, SMTT(30) DEF PutsLast
      <4>2. CASE u = t \/ v = t
        BY <2>2, <3>2, <3>5, <4>2
      <4> QED
        BY <4>1, <4>2
    <3> QED
      BY <3>3, <3>4, <3>5 DEF PutsLast
  <2>7. NodesCounted'
    BY <1>1, <1>3, <2>2, NodesKept
  <2> QED
    BY <2>3, <2>4, <2>5, <2>6, <2>7 DEF FilesInv
<1>7. CASE files[f].ref # 1
  <2>1. call' = [call EXCEPT ![t] = Idle]
    BY <1>7 DEF Unref
  <2>2. CallsOf(t) /\ call'[t].at = "user" /\ call'[t].file = NULLFILE
    <3>1. Idle \in CallType
      BY SMTT(30) DEF Idle, InCall, CallType
    <3>2. CallsOf(t) /\ call'[t] = Idle
      BY <2>1, <3>1, CallMoves DEF FilesInv, FilesType
    <3> QED
      BY <3>2, SMTT(30) DEF Idle, InCall
  <2>3. ASSUME NEW g \in DOMAIN files
        PROVE  /\ files'[g].ref = files[g].ref + One(UsesFile(call'[t], g)) - One(UsesFile(call[t], g))
               /\ files'[g].ref = 0 <=> files[g].ref = 0
    <3>1. ~UsesFile(call'[t], g)
      BY <2>2 DEF UsesFile
    <3> QED
      BY <1>3, <1>4, <1>5, <1>7, <3>1, SMTT(30) DEF One
  <2> QED
    BY <1>1, <1>3, <2>2, <2>3, CallInv
<1> QED
  BY <1>6, <1>7

NodeRecords == [ref : Int, hit : Nat]

(* Truncation takes an unreferenced node or none.                           *)
LEMMA TruncateKeeps ==
  ASSUME nodeList \in Seq(Clusters), IsInjective(nodeList),
         NEW ns \in [Clusters -> NodeRecords], unsafe_truncate(ns)
  PROVE  /\ nodeList' \in Seq(Clusters) /\ IsInjective(nodeList')
         /\ nodes' \in [Clusters -> NodeRecords]
         /\ \A c \in Clusters : nodes'[c].ref = ns[c].ref
         /\ \A c \in Members(nodeList) : ns[c].ref # 0 => c \in Members(nodeList')
<1>1. CASE Len(nodeList) <= Threshold \/ Victims(ns) = {}
  BY <1>1 DEF unsafe_truncate
<1>2. CASE ~(Len(nodeList) <= Threshold \/ Victims(ns) = {})
  <2> DEFINE V == Victims(ns)
             H == {ns[nodeList[i]].hit : i \in V}
             M == {i \in V : \A j \in V : ns[nodeList[i]].hit <= ns[nodeList[j]].hit}
             k == TruncateIndex(ns)
  <2>1. V # {} /\ V \in SUBSET Nat /\ V \subseteq 1..Len(nodeList)
    BY <1>2, SMTT(30) DEF Victims
  <2>2. \A i \in V : nodeList[i] \in Clusters /\ ns[nodeList[i]].ref = 0 /\ ns[nodeList[i]].hit \in Nat
    BY <2>1, SMTT(30) DEF Victims, NodeRecords
  <2>3. k \in V
    <3> HIDE DEF V
    <3>1. H \in SUBSET Nat /\ H # {}
      BY <2>1, <2>2
    <3>2. Lowest(H) \in H /\ \A h \in H : Lowest(H) <= h
      BY <3>1, LowestIsMember
    <3>3. PICK i \in V : ns[nodeList[i]].hit = Lowest(H)
      BY <3>2
    <3>4. \A j \in V : ns[nodeList[j]].hit \in H
      OBVIOUS
    <3>5. i \in M
      BY <3>2, <3>3, <3>4
    <3>6. M \in SUBSET Nat /\ M # {}
      BY <2>1, <3>5
    <3>7. Lowest(M) \in M
      BY <3>6, LowestIsMember
    <3>8. k = Lowest(M)
      BY DEF TruncateIndex, V
    <3> QED
      BY <3>7, <3>8
  <2>4. k \in 1..Len(nodeList) /\ nodeList[k] \in Clusters /\ ns[nodeList[k]].ref = 0
    BY <2>1, <2>2, <2>3
  <2>5. nodes' = [ns EXCEPT ![nodeList[k]] = Uncached] /\ nodeList' = DropAt(nodeList, k)
    BY <1>2 DEF unsafe_truncate
  <2> HIDE DEF k
  <2>6. /\ nodes' \in [Clusters -> NodeRecords]
        /\ \A c \in Clusters : nodes'[c].ref = ns[c].ref
    BY <2>4, <2>5 DEF Uncached, NodeRecords
  <2>7. nodeList' \in Seq(Clusters)
    BY <2>4, <2>5, Removed
  <2>8. /\ IsInjective(nodeList')
        /\ \A c \in Members(nodeList) : c # nodeList[k] => c \in Members(nodeList')
    BY <2>4, <2>5, RemovedKeeps
  <2> QED
    BY <2>4, <2>6, <2>7, <2>8
<1> QED
  BY <1>1, <1>2

(* The last reference is gone: the node is put back and the file is freed.  *)
LEMMA PutNodeInv ==
  ASSUME FilesInv, NEW t \in UserThreads, PutNode(t)
  PROVE  FilesInv'
<1> DEFINE f == call[t].file
           n == files[f].node
           ns == [nodes EXCEPT ![n].ref = @ - 1]
<1>1. /\ call[t].at = "put" /\ f \in DOMAIN files /\ f # NULLFILE /\ n \in Clusters
      /\ files[f].ref = 0
  <2>1. call[t].at = "put" /\ FilesType /\ CallsHave /\ PutsLast
    BY DEF PutNode, FilesInv
  <2>2. f \in DOMAIN files /\ f # NULLFILE
    BY <2>1 DEF CallsHave
  <2>3. n \in Clusters
    BY <2>1, <2>2 DEF FilesType
  <2>4. files[f].ref = 0
    BY <2>1 DEF PutsLast
  <2> QED
    BY <2>1, <2>2, <2>3, <2>4
<1>2. /\ unsafe_truncate(ns) /\ files' = [g \in DOMAIN files \ {f} |-> files[g]]
      /\ call' = [call EXCEPT ![t] = Idle] /\ UNCHANGED <<fdTable, forked>>
  BY DEF PutNode
<1>3. CallsOf(t) /\ call'[t].at = "user" /\ call'[t].file = NULLFILE
  <2>1. Idle \in CallType
    BY SMTT(30) DEF Idle, InCall, CallType
  <2>2. CallsOf(t) /\ call'[t] = Idle
    BY <1>2, <2>1, CallMoves DEF FilesInv, FilesType
  <2> QED
    BY <2>2, SMTT(30) DEF Idle, InCall
<1>4. DOMAIN files' = DOMAIN files \ {f} /\ \A g \in DOMAIN files' : files'[g] = files[g]
  BY <1>2
<1>5. ns \in [Clusters -> NodeRecords] /\ \A c \in Clusters : ns[c].ref = nodes[c].ref - One(c = n)
  <2>1. n \in Clusters /\ nodes \in [Clusters -> NodeRecords]
    BY <1>1 DEF FilesInv, FilesType, NodeRecords
  <2> HIDE DEF n
  <2> QED
    BY <2>1, SMTT(30) DEF NodeRecords, One
<1> HIDE DEF ns
<1>6. /\ nodeList' \in Seq(Clusters) /\ IsInjective(nodeList')
      /\ nodes' \in [Clusters -> NodeRecords]
      /\ \A c \in Clusters : nodes'[c].ref = ns[c].ref
      /\ \A c \in Members(nodeList) : ns[c].ref # 0 => c \in Members(nodeList')
  <2>1. nodeList \in Seq(Clusters) /\ IsInjective(nodeList)
    BY DEF FilesInv, FilesType, NodesCounted
  <2> QED
    BY <1>2, <1>5, <2>1, TruncateKeeps
<1>7. /\ \A p \in UserProcs, fd \in Fds : fdTable[p][fd] # f
      /\ \A u \in UserThreads \ {t} : call[u].file # f
  <2>1. \A p \in UserProcs, fd \in Fds : fdTable[p][fd] # f
    BY <1>1, InUseReferenced, SMTT(30)
  <2>2. ASSUME NEW u \in UserThreads \ {t}, call[u].file = f PROVE FALSE
    <3>1. ~UsesFile(call[u], f)
      BY <1>1, InUseReferenced, SMTT(30)
    <3>2. call[u] \in CallType /\ call[u].at \notin {"user", "open"}
      BY <1>1, <2>2 DEF FilesInv, FilesType, CallsHave
    <3>3. call[u].at = "put"
      BY <2>2, <3>1, <3>2 DEF UsesFile, CallType
    <3> QED
      BY <1>1, <2>2, <3>3 DEF FilesInv, PutsLast
  <2> QED
    BY <2>1, <2>2
<1>8. FilesType'
  <2>1. IsFiniteSet(DOMAIN files') /\ DOMAIN files' \subseteq FileObjects
    <3>1. IsFiniteSet(DOMAIN files) /\ DOMAIN files \subseteq FileObjects
      BY DEF FilesInv, FilesType
    <3>2. IsFiniteSet(DOMAIN files \ {f})
      BY <3>1, FS_RemoveElement
    <3> QED
      BY <1>4, <3>1, <3>2
  <2>2. files' \in [DOMAIN files' -> [node : Clusters, ref : Int, offset : Int]]
    BY <1>2 DEF FilesInv, FilesType
  <2> QED
    BY <1>2, <1>3, <1>6, <2>1, <2>2 DEF FilesInv, FilesType, CallsOf, NodeRecords
<1>9. CallsHave'
  <2> SUFFICES ASSUME NEW u \in UserThreads
               PROVE  /\ call'[u].at # "user" => ProcOf[u] \in forked'
                      /\ call'[u].at = "open" => call'[u].node \in Clusters
                      /\ call'[u].at \in {"user", "open"} <=> call'[u].file = NULLFILE
                      /\ call'[u].file \in DOMAIN files' \cup {NULLFILE}
    BY DEF CallsHave
  <2>1. CASE u = t
    BY <1>3, <2>1
  <2>2. CASE u # t
    BY <1>2, <1>3, <1>4, <1>7, <2>2 DEF CallsOf, FilesInv, CallsHave
  <2> QED
    BY <2>1, <2>2
<1>10. Bindings'
  BY <1>2, <1>4, <1>7 DEF FilesInv, Bindings
<1>11. RefsCounted'
  <2> SUFFICES ASSUME NEW g \in DOMAIN files'
               PROVE  files'[g].ref = Cardinality(Bound(g)') + Cardinality(Uses(g)')
    BY DEF RefsCounted
  <2>1. Bound(g)' = Bound(g)
    BY <1>2 DEF Bound
  <2>2. Uses(g)' = Uses(g)
    BY <1>1, <1>3 DEF Uses, CallsOf
  <2> QED
    BY <1>4, <2>1, <2>2 DEF FilesInv, RefsCounted
<1>12. PutsLast'
  <2>1. PutsLast /\ CallsHave
    BY DEF FilesInv
  <2>2. ASSUME NEW u \in UserThreads, call'[u].at = "put"
        PROVE  u # t /\ call'[u] = call[u] /\ call[u].file \in DOMAIN files'
    <3>1. u # t /\ call'[u] = call[u]
      BY <1>3, <2>2 DEF CallsOf
    <3> QED
      BY <1>4, <1>7, <2>1, <2>2, <3>1 DEF CallsHave
  <2>3. \A u \in UserThreads : call'[u].at = "put" => files'[call'[u].file].ref = 0
    BY <1>4, <2>1, <2>2, SMTT(30) DEF PutsLast
  <2>4. ASSUME NEW g \in DOMAIN files', files'[g].ref = 0
        PROVE  \E u \in UserThreads : call'[u].at = "put" /\ call'[u].file = g
    <3>1. g \in DOMAIN files /\ g # f /\ files[g].ref = 0
      BY <1>4, <2>4
    <3>2. PICK u \in UserThreads : call[u].at = "put" /\ call[u].file = g
      BY <2>1, <3>1 DEF PutsLast
    <3>3. call'[u] = call[u]
      BY <1>3, <3>1, <3>2 DEF CallsOf
    <3> QED
      BY <3>2, <3>3
  <2>5. \A u, v \in UserThreads :
          call'[u].at = "put" /\ call'[v].at = "put" /\ call'[u].file = call'[v].file => u = v
    BY <2>1, <2>2, SMTT(30) DEF PutsLast
  <2> QED
    BY <2>3, <2>4, <2>5 DEF PutsLast
<1>13. NodesCounted'
  <2>1. ASSUME NEW c \in Clusters
        PROVE  /\ nodes'[c].ref = Cardinality(FilesOf(c)') + Cardinality(Opens(c)')
               /\ nodes'[c].ref > 0 => c \in Members(nodeList')
    <3>1. (f \in FilesOf(c) <=> c = n) /\ f \notin FilesOf(c)'
      BY <1>1, <1>4 DEF FilesOf
    <3>2. /\ Cardinality(FilesOf(c)) \in Nat
          /\ Cardinality(FilesOf(c)') = Cardinality(FilesOf(c))
                + One(f \in FilesOf(c)') - One(f \in FilesOf(c))
      BY <1>4, FilesCounts DEF FilesInv
    <3>3. Opens(c)' = Opens(c) /\ Cardinality(Opens(c)) \in Nat
      BY <1>1, <1>3, CallCounts DEF Opens, CallsOf, FilesInv
    <3>4. /\ nodes[c].ref = Cardinality(FilesOf(c)) + Cardinality(Opens(c))
          /\ nodes[c].ref > 0 => c \in Members(nodeList)
      BY DEF FilesInv, NodesCounted
    <3>5. nodes'[c].ref = nodes[c].ref - One(c = n) /\ nodes'[c].ref = ns[c].ref
      BY <1>5, <1>6
    <3>6. nodes'[c].ref = Cardinality(FilesOf(c)') + Cardinality(Opens(c)')
      BY <3>1, <3>2, <3>3, <3>4, <3>5, SMTT(30) DEF One
    <3>7. ASSUME nodes'[c].ref > 0 PROVE c \in Members(nodeList')
      <4>1. nodes[c].ref > 0
        BY <3>2, <3>3, <3>4, <3>5, <3>7, SMTT(30) DEF One
      <4>2. ns[c].ref # 0
        BY <3>5, <3>7, SMTT(30)
      <4> QED
        BY <1>6, <3>4, <4>1, <4>2
    <3> QED
      BY <3>6, <3>7
  <2> QED
    BY <1>6, <2>1 DEF NodesCounted
<1> QED
  BY <1>8, <1>9, <1>10, <1>11, <1>12, <1>13 DEF FilesInv

(* fork gives the child the descriptors of the parent, with references.     *)
LEMMA ForkFilesInv ==
  ASSUME FilesInv, NEW t \in UserThreads, NEW q \in UserProcs, ForkFiles(t, q)
  PROVE  FilesInv'
<1> DEFINE p == ProcOf[t]
           K(g) == {fd \in Fds : fdTable[p][fd] = g}
<1>1. /\ call[t].at = "user" /\ p \in UserProcs /\ p \in forked /\ q \notin forked
      /\ forked' = forked \cup {q} /\ fdTable' = [fdTable EXCEPT ![q] = fdTable[p]]
      /\ files' = [g \in DOMAIN files |-> [files[g] EXCEPT !.ref = @ + Cardinality(K(g))]]
      /\ UNCHANGED <<nodeList, nodes, call>>
  BY SMTT(30) DEF ForkFiles, InUser, Idle, InCall, UserProcs
<1>2. \A g : IsFiniteSet(K(g)) /\ Cardinality(K(g)) \in Nat
  BY FS_Subset, FS_CardinalityType, OpenFilesAssumption
<1>3. \A g : K(g) = {fd \in Fds : fdTable[p][fd] = g}
  OBVIOUS
<1> HIDE DEF K
<1>4. CallsOf(t)
  BY <1>1 DEF CallsOf, FilesInv, FilesType
<1>5. /\ files' \in [DOMAIN files -> FileRecords] /\ SameFiles
      /\ \A g \in DOMAIN files : files'[g].ref = files[g].ref + Cardinality(K(g))
  <2>1. files \in [DOMAIN files -> FileRecords]
    BY DEF FilesInv, FilesType, FileRecords
  <2> QED
    BY <1>1, <1>2, <2>1, SMTT(30) DEF FileRecords, SameFiles
<1>6. /\ fdTable' \in [UserProcs -> [Fds -> FileObjects \cup {NULLFILE}]]
      /\ fdTable'[q] = fdTable[p] /\ \A r \in UserProcs \ {q} : fdTable'[r] = fdTable[r]
  BY <1>1 DEF FilesInv, FilesType
<1>7. FilesType'
  BY <1>1, <1>4, <1>5, <1>6 DEF FilesInv, FilesType, CallsOf, SameFiles, FileRecords
<1>8. CallsHave'
  BY <1>1, <1>5 DEF FilesInv, CallsHave, SameFiles
<1>9. Bindings'
  <2> SUFFICES ASSUME NEW r \in UserProcs, NEW fd \in Fds
               PROVE  /\ fdTable'[r][fd] \in DOMAIN files \cup {NULLFILE}
                      /\ r \notin forked' => fdTable'[r][fd] = NULLFILE
    BY <1>5 DEF Bindings, SameFiles
  <2>1. Bindings
    BY DEF FilesInv
  <2>2. CASE r = q
    BY <1>1, <1>6, <2>1, <2>2 DEF Bindings
  <2>3. CASE r # q
    BY <1>1, <1>6, <2>1, <2>3 DEF Bindings
  <2> QED
    BY <2>2, <2>3
<1>10. ASSUME NEW g \in DOMAIN files
       PROVE  Cardinality(Bound(g)') = Cardinality(Bound(g)) + Cardinality(K(g))
  <2> DEFINE N == {q} \X K(g)
  <2>1. IsFiniteSet(N) /\ Cardinality(N) = Cardinality(K(g))
    <3>1. IsFiniteSet({q}) /\ Cardinality({q}) = 1
      BY FS_Singleton
    <3>2. IsFiniteSet(N) /\ Cardinality(N) = Cardinality({q}) * Cardinality(K(g))
      BY <1>2, <3>1, FS_Product
    <3> HIDE DEF N
    <3> QED
      BY <1>2, <3>1, <3>2, SMTT(30)
  <2>2. \A fd \in Fds : fdTable[q][fd] # g
    <3>1. g # NULLFILE
      BY OpenFilesAssumption DEF FilesInv, FilesType, NULLFILE
    <3> QED
      BY <1>1, <3>1 DEF FilesInv, Bindings
  <2>3. Bound(g)' = Bound(g) \cup N
    <3>1. ASSUME NEW d \in UserProcs \X Fds
          PROVE  fdTable'[d[1]][d[2]] = g <=> (fdTable[d[1]][d[2]] = g \/ d \in N)
      <4>1. PICK r \in UserProcs, fd \in Fds : d = <<r, fd>>
        BY SMTT(30)
      <4>2. d \in N <=> r = q /\ fdTable[p][fd] = g
        BY <1>3, <4>1
      <4>3. CASE r = q
        BY <1>6, <2>2, <4>1, <4>2, <4>3
      <4>4. CASE r # q
        BY <1>6, <4>1, <4>2, <4>4
      <4> QED
        BY <4>3, <4>4
    <3>2. N \subseteq UserProcs \X Fds
      BY <1>3
    <3> HIDE DEF N
    <3> QED
      BY <3>1, <3>2 DEF Bound
  <2>4. Bound(g) \cap N = {}
    BY <2>2, <1>3 DEF Bound
  <2> HIDE DEF N
  <2>5. IsFiniteSet(Bound(g)) /\ Cardinality(Bound(g)) \in Nat
    BY BoundFinite
  <2>6. Cardinality(Bound(g) \cup N)
          = Cardinality(Bound(g)) + Cardinality(N) - Cardinality(Bound(g) \cap N)
    BY <2>1, <2>5, FS_Union
  <2>7. Cardinality(Bound(g) \cap N) = 0
    BY <2>4, FS_EmptySet
  <2> QED
    BY <1>2, <2>1, <2>3, <2>5, <2>6, <2>7, SMTT(30)
<1>11. RefsCounted'
  <2> SUFFICES ASSUME NEW g \in DOMAIN files
               PROVE  files'[g].ref = Cardinality(Bound(g)') + Cardinality(Uses(g)')
    BY <1>5 DEF RefsCounted, SameFiles
  <2>1. Uses(g)' = Uses(g) /\ Cardinality(Uses(g)) \in Nat
    BY <1>1, <1>4, CallCounts DEF Uses, FilesInv
  <2>2. files[g].ref = Cardinality(Bound(g)) + Cardinality(Uses(g)) /\ Cardinality(Bound(g)) \in Nat
    BY BoundFinite DEF FilesInv, RefsCounted
  <2> QED
    BY <1>2, <1>5, <1>10, <2>1, <2>2, SMTT(30)
<1>12. ASSUME NEW g \in DOMAIN files PROVE files'[g].ref = 0 <=> files[g].ref = 0
  <2>1. files[g].ref \in Nat
    BY <1>4, CallCounts, BoundFinite, SMTT(30) DEF FilesInv, RefsCounted
  <2>2. ASSUME files[g].ref = 0 PROVE Cardinality(K(g)) = 0
    <3>1. \A fd \in Fds : fdTable[p][fd] # g
      BY <1>1, <2>2, InUseReferenced, SMTT(30)
    <3>2. K(g) = {}
      BY <1>3, <3>1
    <3> QED
      BY <3>2, FS_EmptySet
  <2> QED
    BY <1>2, <1>5, <2>1, <2>2, SMTT(30)
<1>13. PutsLast'
  BY <1>1, <1>4, <1>5, <1>12, PutsKept DEF SameFiles
<1>14. NodesCounted'
  BY <1>1, <1>4, <1>5, NodesKept
<1> QED
  BY <1>7, <1>8, <1>9, <1>11, <1>13, <1>14 DEF FilesInv

(* Every step keeps the invariant.                                          *)
LEMMA FilesNextInv == FilesInv /\ [OpenFilesNext]_fileVars => FilesInv'
<1> SUFFICES ASSUME FilesInv, [OpenFilesNext]_fileVars PROVE FilesInv'
  OBVIOUS
<1>1. CASE UNCHANGED fileVars
  <2>1. FilesType' /\ CallsHave' /\ Bindings' /\ PutsLast'
    BY <1>1, SMTT(30) DEF fileVars, FilesInv, FilesType, CallsHave, Bindings, PutsLast
  <2>2. RefsCounted'
    BY <1>1 DEF fileVars, FilesInv, RefsCounted, Bound, Uses
  <2>3. NodesCounted'
    BY <1>1 DEF fileVars, FilesInv, NodesCounted, FilesOf, Opens
  <2> QED
    BY <2>1, <2>2, <2>3 DEF FilesInv
<1>2. ASSUME NEW t \in UserThreads, NEW fd \in Fds, NEW n \in 1..MaxCount, UseFile(t, fd, "read", n)
      PROVE  FilesInv'
  BY <1>2, UseFileInv, SMTT(30)
<1>3. ASSUME NEW t \in UserThreads, NEW fd \in Fds, UseFile(t, fd, "seek", 0) PROVE FilesInv'
  BY <1>3, UseFileInv, SMTT(30)
<1>4. ASSUME NEW t \in UserThreads, NEW whence, NEW offset, Seek(t, whence, offset) PROVE FilesInv'
  BY <1>4, SeekInv
<1> QED
  BY <1>1, <1>2, <1>3, <1>4, GetNodeInv, OpenInv, BindFdInv, UnbindInv, ReadBatchInv, ReadDoneInv,
     UnrefInv, PutNodeInv, ForkFilesInv DEF OpenFilesNext

-----------------------------------------------------------------------------

(* Whoever opens, closes, reads, seeks and forks in between, a file object  *)
(* counts exactly the descriptors and calls that use it, and is freed by    *)
(* one call once there are none; a node counts the files and opens that use *)
(* it and stays in the cache, in one copy, as long as there are any.        *)
THEOREM RefsCorrect == OpenFilesSpec => []RefsExact
<1>1. FilesInv => RefsExact
  <2> SUFFICES ASSUME FilesInv PROVE RefsExact
    OBVIOUS
  <2>1. ASSUME NEW f \in DOMAIN files, files[f].ref = 0
        PROVE  Cardinality({t \in UserThreads : call[t].at = "put" /\ call[t].file = f}) = 1
    <3>1. PICK t \in UserThreads : call[t].at = "put" /\ call[t].file = f
      BY <2>1 DEF FilesInv, PutsLast
    <3>2. {u \in UserThreads : call[u].at = "put" /\ call[u].file = f} = {t}
      BY <3>1 DEF FilesInv, PutsLast
    <3> QED
      BY <3>2, FS_Singleton
  <2>2. FileRefsExact
    BY <2>1 DEF FilesInv, RefsCounted, Bindings, CallsHave, FileRefsExact
  <2>3. NodeRefsExact
    BY DEF FilesInv, NodesCounted, NodeRefsExact
  <2> QED
    BY <2>2, <2>3 DEF RefsExact
<1>2. OpenFilesInit => FilesInv
  BY FilesInitInv
<1> QED
  BY <1>1, <1>2, FilesNextInv, PTL DEF OpenFilesSpec

===============================================================================
