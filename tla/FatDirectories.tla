---------------------------- MODULE FatDirectories ----------------------------
(***************************************************************************)
(* The directories of a FAT volume: fat_read_entry and fat_walk_path of    *)
(* kernel/kernel/fs/fat_core.c and the directory half of fat_vfs.c.  The   *)
(* entries lie in the clusters of the volume and come through fat_read     *)
(* (FatFs), a name is a sequence of characters.  The sizes of an entry and *)
(* of the names in it and the cache of 16 leaves are scaled down.          *)
(***************************************************************************)
EXTENDS FatFs

CONSTANTS
  FAT_ENTRY_SIZE,
  LfnChars,            \* FAT_LFN_CHARS
  LfnNameSize,         \* FAT_LFN_NAME_SIZE: the limit of a component of a path
  LfnNameBufSize,      \* FAT_LFN_NAME_BUF_SIZE
  BaseChars, ExtChars, \* the 8 and 3 characters of a short name
  CacheLeaves,         \* FAT_VFS_CACHE_LEAVES
  FatDirs, FatWalks    \* the cases to try

Zero == "0"            \* the character that ends a string
Space == " "           \* 20h, which fills up a short name

\* What an operator returns where the code fails or stops the kernel.
FAT_ENTRY_LAST == -1
FAT_ENTRY_ERROR == -2
EntryPanic == -3
NoResult == [name |-> <<>>, isDir |-> FALSE, cluster |-> 0]
PanicResult == [name |-> <<>>, isDir |-> FALSE, cluster |-> -1]
PanicLeaves == <<EntryPanic>>

-----------------------------------------------------------------------------
\* fat_read_entry: one file of a directory, its LFN entries joined.  An entry is
\* "last", "unused", "lfn" (its number, its characters, whether it is deleted)
\* or "short" (the 8.3 name, attributes and first cluster); v.entries is the
\* entry at an address.

UpToZero(s) ==
  LET end == SelectInSeq(s, LAMBDA c : c = Zero) IN IF end = 0 THEN s ELSE SubSeq(s, 1, end - 1)

\* The blanks stay, and the extension is only left out if it starts with a zero.
ShortName(e) ==
  UpToZero(e.base) \o IF e.ext[1] = Zero THEN <<>> ELSE <<".">> \o UpToZero(e.ext)

\* The entries of a directory by their index, as fat_read returns them.
EntryIn(v, bytes) ==
  CASE bytes = <<>> -> [kind |-> "error"] [] bytes = PanicBytes -> [kind |-> "panic"] [] OTHER -> v.entries[bytes[1]]
EntriesRead(v, first) ==
  [idx \in Nat |-> EntryIn(v, fat_read(v, first, idx * FAT_ENTRY_SIZE, FAT_ENTRY_SIZE))]

\* The first LFN entry says how many there are, the others count down; parts is
\* the name in the buffer.
RECURSIVE ScanEntry(_, _, _, _, _)
ScanEntry(dir, idx, old, iseq, parts) ==
  LET e == dir[idx]
      nr == IF parts = <<>> THEN e.nr ELSE iseq - 1
      buffer == IF parts = <<>> THEN [i \in 1..e.nr |-> [j \in 1..LfnChars |-> Zero]] ELSE parts IN
  CASE e.kind = "error" -> [next |-> FAT_ENTRY_ERROR, result |-> old]
    [] e.kind = "panic" -> [next |-> EntryPanic, result |-> old]
    [] e.kind = "last" -> [next |-> FAT_ENTRY_LAST, result |-> old]
    [] e.kind = "unused" \/ (e.kind = "lfn" /\ e.deleted) -> ScanEntry(dir, idx + 1, old, iseq, parts)
    [] e.kind = "lfn" /\ ~e.deleted ->
         IF nr < 1 \/ (parts = <<>> /\ e.nr * LfnChars >= LfnNameBufSize)
         THEN [next |-> EntryPanic, result |-> old]
         ELSE ScanEntry(dir, idx + 1, old, nr, [buffer EXCEPT ![nr] = e.chars])
    [] e.kind = "short" ->
         [next |-> idx + 1,
          result |-> [name |-> IF parts # <<>> THEN UpToZero(FlattenSeq(parts)) ELSE ShortName(e),
                      isDir |-> e.isDir, cluster |-> e.cluster]]

fat_read_entry(v, first, idx, old) == ScanEntry(EntriesRead(v, first), idx, old, 0, <<>>)

Failed(read) == read.next \in {FAT_ENTRY_ERROR, EntryPanic}

-----------------------------------------------------------------------------
\* fat_walk_path.  The name is compared over the length of the path's component
\* only, and the entry of the round before is looked at again at the end.

WalkMatch(entry, component, isLeaf) ==
  IsPrefix(component, entry.name) /\ (isLeaf = ~entry.isDir)

RECURSIVE fat_walk_path(_, _, _, _, _)
fat_walk_path(v, path, cluster, idx, old) ==
  LET read == fat_read_entry(v, cluster, idx, old)
      isLeaf == Len(path) = 1 IN
  IF Len(path[1]) >= LfnNameSize \/ Failed(read) THEN PanicResult
  ELSE IF WalkMatch(read.result, path[1], isLeaf)
  THEN IF isLeaf THEN read.result
       ELSE fat_walk_path(v, Tail(path), read.result.cluster, 0, read.result)
  ELSE IF read.next = FAT_ENTRY_LAST THEN NoResult
  ELSE fat_walk_path(v, path, cluster, read.next, read.result)

-----------------------------------------------------------------------------
\* The leaves of a directory node: the first ones are cached by their index.

RECURSIVE FillLeaves(_, _, _, _)
FillLeaves(v, first, idx, leaves) ==
  LET read == fat_read_entry(v, first, idx, NoResult) IN
  IF Failed(read) THEN PanicLeaves
  ELSE IF read.next = FAT_ENTRY_LAST THEN leaves
  ELSE FillLeaves(v, first, read.next, Append(leaves, idx))

num_leaves(v, first) == Len(FillLeaves(v, first, 0, <<>>))

RECURSIVE SkipLeaves(_, _, _, _, _)
SkipLeaves(v, first, idx, rounds, old) ==
  LET read == fat_read_entry(v, first, idx, old) IN
  IF rounds = 0 THEN old
  ELSE IF idx = FAT_ENTRY_LAST \/ Failed(read) THEN PanicResult
  ELSE SkipLeaves(v, first, read.next, rounds - 1, read.result)

\* Mutation: one round too few past the cache.
LeafOffByOne(v, first, n) ==
  LET leaves == FillLeaves(v, first, 0, <<>>) IN
  IF leaves = PanicLeaves \/ n >= Len(leaves) THEN PanicResult
  ELSE IF n < CacheLeaves THEN SkipLeaves(v, first, leaves[n + 1], 1, NoResult)
  ELSE SkipLeaves(v, first, leaves[CacheLeaves], n - CacheLeaves + 1, NoResult)

\* fat_vfs_node_get_leaf_node for n > 0; leaf 0 is the directory itself.
get_leaf_node(v, first, n) ==
  LET leaves == FillLeaves(v, first, 0, <<>>) IN
  IF leaves = PanicLeaves \/ n >= Len(leaves) THEN PanicResult
  ELSE IF n < CacheLeaves THEN SkipLeaves(v, first, leaves[n + 1], 1, NoResult)
  ELSE SkipLeaves(v, first, leaves[CacheLeaves], n - CacheLeaves + 2, NoResult)

-----------------------------------------------------------------------------
\* What the volume holds, for the properties to compare with.  A case is a tree
\* of directories, each by its first cluster, with the chain of each and a path
\* to resolve.

VARIABLE dirCase

DirInit == dirCase \in FatDirs \/ dirCase \in FatWalks

Root == 2

Padded(s, n, c) == [i \in 1..n |-> IF i <= Len(s) THEN s[i] ELSE c]

\* The entries of a directory that holds the files, each after so many unused
\* ones, a file with a long name after entries of deleted long names.
LfnEntries(name) ==
  LET n == (Len(name) + LfnChars - 1) \div LfnChars IN
  [j \in 1..n |-> LET nr == n - j + 1 IN
     [kind |-> "lfn", nr |-> nr, deleted |-> FALSE,
      chars |-> Padded(SubSeq(name, (nr - 1) * LfnChars + 1, Len(name)), LfnChars, Zero)]]
FileEntries(f) ==
  [j \in 1..f.gap |->
     IF f.long THEN [kind |-> "lfn", nr |-> 1, deleted |-> TRUE, chars |-> Padded(<<>>, LfnChars, Space)]
     ELSE [kind |-> "unused"]]
    \o (IF f.long THEN LfnEntries(f.name) ELSE <<>>)
    \o << [kind |-> "short", base |-> Padded(f.base, BaseChars, Space), ext |-> Padded(f.ext, ExtChars, Space),
           isDir |-> f.isDir, cluster |-> f.cluster] >>
DirEntries(fs) == FlattenSeq([i \in DOMAIN fs |-> FileEntries(fs[i])])

\* The volume; what follows the entries of a directory in its clusters is zero.
DirFile(case, c) == [bs |-> case.bs, chain |-> case.chains[c]]
Slots(case, c) == (Len(case.chains[c]) * ClusterBytes(case)) \div FAT_ENTRY_SIZE
OnDisk(case, c) ==
  LET es == DirEntries(case.tree[c])
      At(i) == FileByte(DirFile(case, c), i * FAT_ENTRY_SIZE) IN
  [a \in {At(i) : i \in 0..(Slots(case, c) - 1)} |->
     LET i == CHOOSE j \in 0..(Slots(case, c) - 1) : At(j) = a IN
     IF i < Len(es) THEN es[i + 1] ELSE [kind |-> "last"]]
Union(fs) ==
  [x \in UNION {DOMAIN f : f \in fs} |-> (CHOOSE f \in fs : x \in DOMAIN f)[x]]
Volume(case) ==
  [bs |-> case.bs,
   fat |-> Union({VolumeOf(DirFile(case, c)).fat : c \in DOMAIN case.tree}),
   entries |-> Union({OnDisk(case, c) : c \in DOMAIN case.tree})]

\* The name of a file, and the name the kernel shows for it.
FileName(f) == IF f.long THEN f.name ELSE IF f.ext = <<>> THEN f.base ELSE f.base \o <<".">> \o f.ext
Shown(f) ==
  IF f.long THEN f.name ELSE Padded(f.base, BaseChars, Space) \o <<".">> \o Padded(f.ext, ExtChars, Space)
Result(f) == [name |-> Shown(f), isDir |-> f.isDir, cluster |-> f.cluster]

RECURSIVE ListDir(_, _, _)
ListDir(v, first, idx) ==
  LET read == fat_read_entry(v, first, idx, NoResult) IN
  IF Failed(read) THEN <<PanicResult>>
  ELSE IF read.next = FAT_ENTRY_LAST THEN <<>>
  ELSE <<read.result>> \o ListDir(v, first, read.next)

\* Whether the name shown starts with the name: a short one's blanks come
\* between its base and its extension.
Findable(f) == f.long \/ f.ext = <<>> \/ Len(f.base) = BaseChars

RECURSIVE Resolve(_, _, _)
Resolve(tree, path, cluster) ==
  LET found == {i \in DOMAIN tree[cluster] :
                  /\ FileName(tree[cluster][i]) = path[1] /\ Findable(tree[cluster][i])
                  /\ tree[cluster][i].isDir = (Len(path) > 1)} IN
  IF found = {} THEN NoResult
  ELSE LET f == tree[cluster][CHOOSE i \in found : TRUE] IN
       IF Len(path) = 1 THEN Result(f) ELSE Resolve(tree, Tail(path), f.cluster)

\* The directory ends before its last cluster does, and unless a cluster is a
\* sector, in the first sector of its first cluster: fat_read goes wrong behind it.
Readable(case, c) ==
  LET n == Len(DirEntries(case.tree[c])) IN
  n < Slots(case, c) /\ (case.bs.spc = 1 \/ (n + 1) * FAT_ENTRY_SIZE <= BytesPerSector)

\* No name that is shown in the tree starts with a component of the path, but
\* the component itself, and no two files of a directory have one name.
Unambiguous(tree, path) ==
  \A c \in DOMAIN tree :
    /\ \A i, j \in DOMAIN tree[c] : FileName(tree[c][i]) = FileName(tree[c][j]) => i = j
    /\ \A i \in DOMAIN tree[c], k \in DOMAIN path :
         IsPrefix(path[k], Shown(tree[c][i])) => path[k] = FileName(tree[c][i])

\* The clusters are those of a mounted volume, no directory of a walk is empty
\* (the result the code then looks at is uninitialised), and names have the
\* lengths that FAT allows.
ASSUME FatDirectoriesAssumption ==
  /\ {FAT_ENTRY_SIZE, LfnChars, LfnNameSize, LfnNameBufSize, BaseChars, ExtChars, CacheLeaves} \subseteq Nat \ {0}
  /\ BytesPerSector % FAT_ENTRY_SIZE = 0 /\ ((LfnNameSize + LfnChars - 2) \div LfnChars) * LfnChars < LfnNameBufSize
  /\ \A d \in FatDirs \cup FatWalks :
       /\ Mountable(d.bs) /\ HasRoom(d.bs) /\ DOMAIN d.chains = DOMAIN d.tree /\ Root \in DOMAIN d.tree
       /\ \A c \in DOMAIN d.tree :
            /\ d.chains[c] \in Seq(2..(num_clusters(d.bs) + 1)) /\ IsInjective(d.chains[c]) /\ d.chains[c][1] = c
            /\ \A i \in DOMAIN d.tree[c] : LET f == d.tree[c][i] IN
                 Len(f.name) < LfnNameSize /\ Len(f.base) \in 1..BaseChars /\ Len(f.ext) \in 0..ExtChars
       /\ \A c1, c2 \in DOMAIN d.tree : c1 # c2 => ToSet(d.chains[c1]) \cap ToSet(d.chains[c2]) = {}
  /\ \A d \in FatWalks : \A c \in DOMAIN d.tree : d.tree[c] # <<>>

-----------------------------------------------------------------------------

(* Reading a readable directory from its first entry lists its files in     *)
(* order, unused entries skipped.  Long names are put together from entries *)
(* that are stored back to front; a short name keeps the blanks it is       *)
(* stored with and has a dot even without an extension, which is not the    *)
(* file's name (fat_core.c:309: "TODO: This is wrong").                     *)
NamesRestored ==
  dirCase.kind = "dir" /\ Readable(dirCase, Root) =>
    LET files == dirCase.tree[Root] IN
    ListDir(Volume(dirCase), Root, 0) = [i \in DOMAIN files |-> Result(files[i])]

(* Leaf n of a readable directory's node is its n-th file, in the cache of  *)
(* leaf indices and past the end of it.                                     *)
LeavesMatch ==
  dirCase.kind = "dir" /\ Readable(dirCase, Root) =>
    LET files == dirCase.tree[Root] IN
    /\ num_leaves(Volume(dirCase), Root) = Len(files)
    /\ \A n \in 1..Len(files) - 1 : get_leaf_node(Volume(dirCase), Root, n) = Result(files[n + 1])

(* fat_walk_path finds the file a path names, and nothing when there is     *)
(* none, in a tree of readable directories in which no name shown starts    *)
(* with a component of the path: the code compares over the component's     *)
(* length only.  A file or directory with a short name that has an          *)
(* extension and fewer than eight characters before it is never found.      *)
WalkFinds ==
  /\ dirCase.kind = "walk" /\ \A c \in DOMAIN dirCase.tree : Readable(dirCase, c)
  /\ Unambiguous(dirCase.tree, dirCase.path)
  => fat_walk_path(Volume(dirCase), dirCase.path, Root, 0, NoResult) = Resolve(dirCase.tree, dirCase.path, Root)

(* Names, leaves and paths together: a directory that fat_read can read     *)
(* shows the files that are in it.                                          *)
DirectoriesRight == NamesRestored /\ LeavesMatch /\ WalkFinds

=============================================================================
