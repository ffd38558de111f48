-------------------------------- MODULE FatFs --------------------------------
(***************************************************************************)
(* Reading a FAT volume: fat_create_super of kernel/kernel/fs/fat.c,       *)
(* fat_read_fat and fat_read of fat_core.c.  A byte of the volume is its   *)
(* address, so a read returns the addresses of the bytes it copied.  The   *)
(* 28 bits of a FAT entry and the cluster counts that tell the types apart *)
(* are scaled down; their relations are kept.                              *)
(***************************************************************************)
EXTENDS Integers, Sequences, SequencesExt

CONSTANTS
  BytesPerSector,      \* the block size of the device
  EntryMask,           \* 2^28: the bits of a FAT entry that count
  Word,                \* 2^32
  Fat16Min, Fat32Min, ExFatMin,  \* cluster counts that tell the types apart
  FatVolumes, FatReads           \* the cases to try

FAT_OK == "ok"
FAT_LAST_CLUSTER == "last"
FAT_BAD_CLUSTER == "bad"

\* What an operator returns where the code fails or stops the kernel.
NoCluster == 0
PanicBytes == <<-1>>

-----------------------------------------------------------------------------
\* fat_create_super: the layout of a volume, from its boot sector.

\* bs.root_bytes is root_entry_count * FAT_ENTRY_SIZE.
RootDirSectors(bs) == (bs.root_bytes + bs.bytes_per_sector - 1) \div bs.bytes_per_sector
SectorsBefore(bs) == bs.reserved + bs.table_count * bs.fat_size + RootDirSectors(bs)   \* the data
first_data_sector(bs) == SectorsBefore(bs) % Word
num_clusters(bs) == ((bs.num_sectors - SectorsBefore(bs)) % Word) \div bs.spc
FatType(bs) ==
  CASE num_clusters(bs) < Fat16Min -> "FAT12"
    [] num_clusters(bs) \in Fat16Min..(Fat32Min - 1) -> "FAT16"
    [] num_clusters(bs) \in Fat32Min..(ExFatMin - 1) -> "FAT32"
    [] OTHER -> "ExFAT"
Mountable(bs) ==
  bs.labelled /\ bs.bytes_per_sector = BytesPerSector /\ FatType(bs) = "FAT32"

fat_first_sector_of_cluster(bs, c) == ((c - 2) * bs.spc + first_data_sector(bs)) % Word

-----------------------------------------------------------------------------
\* fat_read_fat: the link after a cluster.  Only FAT32 volumes are mounted.

fat_read_fat(fat, c) ==
  LET next == fat[c] % EntryMask IN
  [state |-> IF next >= EntryMask - 8 THEN FAT_LAST_CLUSTER
             ELSE IF next = EntryMask - 9 THEN FAT_BAD_CLUSTER ELSE FAT_OK,
   next |-> next]

\* The cluster behind the first n links of a chain.
Links(fat, c, n) ==
  LET at[k \in 0..n] ==
        IF k = 0 THEN c
        ELSE IF at[k - 1] = NoCluster \/ fat_read_fat(fat, at[k - 1]).state # FAT_OK THEN NoCluster
        ELSE fat_read_fat(fat, at[k - 1]).next
  IN  at
FollowChain(fat, c, n) == Links(fat, c, n)[n]

\* n bytes from address a on.
Run(a, n) == [i \in 1..n |-> a + i - 1]

\* A block of a cluster.  s is what is left to read (the offset, the number) and
\* what was read.  An offset past the first sector of the cluster makes the
\* portion wrap around, which gen_ata_bd_read asserts against.
ReadBlock(sector, bl_i, s) ==
  LET portion == IF s.num + s.offset > BytesPerSector THEN BytesPerSector - s.offset ELSE s.num IN
  IF s.panic \/ portion < 0 \/ (portion > 0 /\ s.offset >= BytesPerSector) THEN [s EXCEPT !.panic = TRUE]
  ELSE [offset |-> 0, num |-> s.num - portion, panic |-> FALSE,
        got |-> s.got \o Run((sector + bl_i) * BytesPerSector + s.offset, portion)]

\* The loop over bl_i, up to and with cl_portion / sectors_per_cluster.
Blocks(sector, last, offset, num) ==
  LET after[k \in 0..(last + 1)] ==
        IF k = 0 THEN [offset |-> offset, num |-> num, panic |-> FALSE, got |-> <<>>]
        ELSE ReadBlock(sector, k - 1, after[k - 1])
  IN  after
ReadBlocks(sector, last, offset, num) == Blocks(sector, last, offset, num)[last + 1]

\* What a round of the loop over the clusters comes to, given the blocks it read
\* and the link of its cluster; state says how fat_read returned.
AfterBlocks(s, read, link) ==
  CASE read.panic -> [s EXCEPT !.state = "panic"]
    [] ~read.panic /\ read.num = 0 -> [s EXCEPT !.state = "read", !.got = @ \o read.got]
    [] ~read.panic /\ read.num > 0 /\ link.state # FAT_OK -> [s EXCEPT !.state = "failed"]
    [] OTHER -> [s EXCEPT !.cluster = link.next, !.offset = 0, !.num = read.num, !.got = @ \o read.got]

\* Such a round.
ReadCluster(v, s) ==
  LET bytes_per_cluster == v.bs.spc * BytesPerSector
      cl_portion == IF s.num + s.offset > bytes_per_cluster THEN bytes_per_cluster - s.offset ELSE s.num IN
  IF s.state # "reading" THEN s
  ELSE AfterBlocks(s, ReadBlocks(fat_first_sector_of_cluster(v.bs, s.cluster), cl_portion \div v.bs.spc, s.offset, s.num),
                   fat_read_fat(v.fat, s.cluster))

\* Only the first round may be without a byte, so that there are at most num + 1.
Rounds(v, c, offset, num) ==
  LET after[k \in 0..(num + 1)] ==
        IF k = 0 THEN [cluster |-> c, offset |-> offset, num |-> num, got |-> <<>>, state |-> "reading"]
        ELSE ReadCluster(v, after[k - 1])
  IN  after

\* What fat_read returns after the last round.
Returned(s) == CASE s.state = "read" -> s.got [] s.state = "failed" -> <<>> [] OTHER -> PanicBytes

\* Mutation: the chain is followed one link too far.
ReadFromNext(v, first, off, num) ==
  LET bytes_per_cluster == v.bs.spc * BytesPerSector
      c == FollowChain(v.fat, first, (off + 1) \div bytes_per_cluster) IN
  IF num <= 0 \/ c = NoCluster THEN <<>>
  ELSE Returned(Rounds(v, c, off % bytes_per_cluster, num)[num + 1])

fat_read(v, first, off, num) ==
  LET bytes_per_cluster == v.bs.spc * BytesPerSector
      c == FollowChain(v.fat, first, off \div bytes_per_cluster) IN
  IF num <= 0 \/ c = NoCluster THEN <<>>
  ELSE Returned(Rounds(v, c, off % bytes_per_cluster, num)[num + 1])

-----------------------------------------------------------------------------
\* What the volume holds, for the properties to compare with.  A case is a boot
\* sector, or a read of a file given by its chain.

VARIABLE fatCase

FatInit == fatCase \in FatVolumes \/ fatCase \in FatReads

\* Nothing is ever written.
FatSpec == FatInit /\ [][UNCHANGED fatCase]_fatCase

\* The volume of a file that occupies the clusters of chain; the reserved bits
\* of the links are set.
VolumeOf(case) ==
  [bs |-> case.bs,
   fat |-> [c \in ToSet(case.chain) |-> LET i == CHOOSE j \in DOMAIN case.chain : case.chain[j] = c IN
     EntryMask + IF i = Len(case.chain) THEN EntryMask - 1 ELSE case.chain[i + 1]]]

ClusterBytes(case) == case.bs.spc * BytesPerSector

\* The address of byte number i of the file.
FileByte(case, i) ==
  fat_first_sector_of_cluster(case.bs, case.chain[(i \div ClusterBytes(case)) + 1]) * BytesPerSector
    + (i % ClusterBytes(case))

FileBytes(case) == [i \in 1..case.num |-> FileByte(case, case.off + i - 1)]

ReadResult(case) == fat_read(VolumeOf(case), case.chain[1], case.off, case.num)

Contiguous(chain) == \A i \in 1..Len(chain) - 1 : chain[i + 1] = chain[i] + 1

\* Whether the volume has room for what is in front of the data.
HasRoom(bs) == SectorsBefore(bs) <= bs.num_sectors

\* A read is of a file of a mounted volume, and not past the end of its clusters.
ASSUME FatAssumption ==
  /\ {BytesPerSector, Word} \subseteq Nat \ {0} /\ {EntryMask, Fat16Min, Fat32Min, ExFatMin} \subseteq Nat
  /\ Fat16Min < Fat32Min /\ Fat32Min < ExFatMin /\ ExFatMin + 11 <= EntryMask /\ EntryMask < Word
  /\ \A c \in FatVolumes \cup FatReads :
       /\ {c.bs.reserved, c.bs.table_count, c.bs.fat_size, c.bs.root_bytes} \subseteq Nat
       /\ {c.bs.spc, c.bs.bytes_per_sector} \subseteq Nat \ {0} /\ c.bs.num_sectors \in 0..(Word - 1)
  /\ \A c \in FatVolumes : c.kind = "volume"
  /\ \A c \in FatReads :
       /\ c.kind = "read" /\ Mountable(c.bs) /\ HasRoom(c.bs)
       /\ c.chain \in Seq(2..(num_clusters(c.bs) + 1)) /\ IsInjective(c.chain)
       /\ c.off \in Nat /\ c.num \in Nat /\ c.off + c.num <= Len(c.chain) * ClusterBytes(c)

-----------------------------------------------------------------------------

(* A volume that fat_create_super mounts has every cluster it counts        *)
(* between the FATs and the end of the volume, provided the boot sector     *)
(* leaves room for the FATs (the subtraction wraps otherwise).              *)
VolumeInside ==
  fatCase.kind = "volume" =>
    LET bs == fatCase.bs IN
    Mountable(bs) /\ HasRoom(bs) =>
      \A c \in 2..(num_clusters(bs) + 1) :
        /\ fat_first_sector_of_cluster(bs, c) + bs.spc <= bs.num_sectors
        /\ fat_first_sector_of_cluster(bs, c) >= SectorsBefore(bs)

(* fat_read returns the bytes of the file in order, when it starts in the   *)
(* first sector of a cluster and either stays inside that sector (what the  *)
(* directory code does) or reads at most a sector (a batch of a system      *)
(* call), at least as many bytes as a cluster has sectors, of a file whose  *)
(* clusters lie one after the other.                                        *)
ReadReturnsFileBytes ==
  fatCase.kind = "read" =>
    LET start == fatCase.off % ClusterBytes(fatCase) IN
    /\ start < BytesPerSector
    /\ \/ start + fatCase.num <= BytesPerSector
       \/ fatCase.num \in fatCase.bs.spc..BytesPerSector /\ Contiguous(fatCase.chain)
    => ReadResult(fatCase) = FileBytes(fatCase)

(* "Read the data from the cluster and read more clusters if needed."       *)
(* (fat_core.c): whatever the offset and wherever the next clusters lie,    *)
(* the bytes are those of the file's chain.                                 *)
ReadFollowsChain ==
  fatCase.kind = "read" => ReadResult(fatCase) = FileBytes(fatCase)

(* Volume and reads together: bytes of a file come from the clusters of the *)
(* file, which are clusters of the volume.                                  *)
FileBytesRight == VolumeInside /\ ReadReturnsFileBytes

=============================================================================
