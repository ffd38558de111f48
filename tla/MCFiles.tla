-------------------------------- MODULE MCFiles -------------------------------
(***************************************************************************)
(* The devices and files of the kernel, the tables it finds them in, and   *)
(* the input and output of the C library, side by side: a behaviour is a   *)
(* behaviour of one of the parts, while the others stay in their initial   *)
(* states.                                                                 *)
(***************************************************************************)
EXTENDS BlockCache, OpenFiles, FatDirectories, Mounts, BlockDevices, Serial, Stream, Text, Machine, TLC

CONSTANT Parts

VARIABLE part

allVars == <<cacheVars, fileVars, fatCase, dirCase, mountVars, blockCase, serialVars, streamVars, textCase, machineVars, part>>

NoCase == [kind |-> "none"]

SeqsUpTo(A, n) == UNION {[1..k -> A] : k \in 0..n}

-----------------------------------------------------------------------------
\* BlockCache, OpenFiles, Serial: blocks of two drives, one process with each
\* of two threads, a file of one sector and one of two, two ports' devices.
BlockIdSet == {<<0, 0>>, <<0, 1>>, <<1, 0>>}
ProcOfThread == "t1" :> "p1" @@ "t2" :> "p2"
FileSizes == 2 :> 1 @@ 3 :> 2
SubscriberList == <<"com1", "com2">>
ReaderSymmetry == Permutations(Readers)

\* FatFs: boot sectors of volumes of every type, and chains of up to three of
\* the five clusters of a volume.
BootSector(ns, tc, re, spc, lab, bps) ==
  [num_sectors |-> ns, reserved |-> 1, table_count |-> tc, fat_size |-> 2, root_bytes |-> re, spc |-> spc,
   labelled |-> lab, bytes_per_sector |-> bps]
VolumeSet ==
  {[kind |-> "volume", bs |-> BootSector(ns, tc, re, spc, lab, bps)] :
     ns \in 0..40, tc \in 1..2, re \in {0, 1, 5}, spc \in 1..3, lab \in BOOLEAN, bps \in {2, 4}}
Chains == {s \in UNION {[1..n -> 2..5] : n \in 1..3} : IsInjective(s)}
ReadSet ==
  {r \in {[kind |-> "read", bs |-> BootSector(3 + 5 * spc, 1, 0, spc, TRUE, BytesPerSector), chain |-> ch, off |-> o,
           num |-> n] : spc \in {1, 2, 4}, ch \in Chains, o \in 0..19, n \in {0, 1, 2, 3, 4, 5, 9}} :
     r.off + r.num <= Len(r.chain) * r.bs.spc * BytesPerSector}

\* FatDirectories: directories of up to three files in clusters of one, two or
\* four sectors, some without an end mark, and paths of one or two names.
Short(b, e, d, g) ==
  [name |-> <<>>, base |-> b, ext |-> e, long |-> FALSE, isDir |-> d, cluster |-> IF d THEN 3 ELSE 4, gap |-> g]
Long(n, d, g) == [Short(<<"~">>, <<>>, d, g) EXCEPT !.name = n, !.long = TRUE]
DirCase(kind, spc, tree, room, path) ==
  [kind |-> kind, bs |-> BootSector(3 + 12 * spc, 1, 0, spc, TRUE, BytesPerSector), tree |-> tree, path |-> path,
   chains |-> [c \in DOMAIN tree |->
     SubSeq(IF c = 2 THEN <<2, 6, 5, 7, 8, 9, 10>> ELSE <<3, 12, 11>>, 1,
            1 + (Len(DirEntries(tree[c])) + room - 1) \div (spc * (BytesPerSector \div FAT_ENTRY_SIZE)))]]
FatFiles ==
  {Short(b, e, FALSE, g) : b \in {<<"a">>, <<"a", "b">>}, e \in {<<>>, <<"b">>}, g \in 0..1}
  \cup {Long(n, FALSE, g) : n \in {<<"a", "b">>, <<"a", "b", "a">>}, g \in 0..1}
DirSet ==
  {DirCase("dir", 1, 2 :> f, 1, <<>>) : f \in SeqsUpTo(FatFiles, 3)}
  \cup {DirCase("dir", spc, 2 :> f, room, <<>>) : spc \in {1, 2, 4}, room \in 0..1, f \in SeqsUpTo(FatFiles, 1) \ {<<>>}}
TreeFiles ==
  {Short(b, e, d, 0) : b \in {<<"a">>, <<"b">>}, e \in {<<>>, <<"b">>}, d \in BOOLEAN}
  \cup {Short(<<"b", "b">>, <<"b">>, FALSE, 0)} \cup {Long(<<"b", "b">>, d, 0) : d \in BOOLEAN}
WalkSet ==
  {DirCase("walk", spc, 2 :> r @@ 3 :> <<d>>, 1, p) :
     spc \in 1..2, r \in {<<e>> : e \in TreeFiles} \cup {<<e, f>> : e \in TreeFiles, f \in TreeFiles},
     d \in {Short(<<"a">>, <<>>, FALSE, 0), Short(<<"b">>, <<"b">>, FALSE, 0)},
     p \in {<<<<"a">>>>, <<<<"a">>, <<"a">>>>, <<<<"b", "b">>, <<"a">>>>, <<<<"b", "b", ".", "b">>>>,
            <<<<"a">>, <<"b", ".", "b">>>>, <<<<"c">>>>}}

\* Mounts: mount points below each other and with the names of devices.
MountSet ==
  <<"/">> :> "fat" @@ <<"/", "d">> :> "devfs" @@ <<"/", "d", "/", "e">> :> "fat2" @@ <<"/", "d", "e">> :> "fat3"
  @@ <<"/", "e", "/">> :> "fat4"
DeviceNameSet == {<<"e">>, <<"e", "1">>, <<"d">>}
PathSet ==
  {<<"/">>, <<"/", "d">>, <<"/", "d", "e">>, <<"/", "d", "/">>, <<"/", "d", "/", "e">>, <<"/", "d", "/", "e", "1">>,
   <<"/", "d", "/", "e", "/", "d">>, <<"/", "e">>, <<"/", "d", "e", "/", "d">>}

\* BlockDevices: drives with partition tables in tables, and addresses around
\* the limits of the two ways to give one to a drive.
Entry(s, f, n) == [status |-> s, lba_first |-> f, sectors |-> n]
NoEntry == Entry("absent", 0, 0)
EntrySet == {Entry("present", f, n) : f \in 0..2, n \in {1, 3}}
MbrSet ==
  {<<NoEntry, p, NoEntry, NoEntry>> : p \in EntrySet \cup {NoEntry}}
  \cup {<<p, Entry("present", 1, 1), NoEntry, NoEntry>> : p \in EntrySet}
InnerTables == {[b \in {} |-> 0]} \cup {[b \in {f} |-> m] : f \in 1..3, m \in MbrSet}
DiskSet ==
  {Disk("data", FALSE, 6, 0, [b \in {0} \cup DOMAIN i |-> IF b = 0 THEN m ELSE i[b]]) : m \in MbrSet, i \in InnerTables}
  \cup {Disk("data", FALSE, 6, 0, [b \in {0} |-> <<Entry("present", 2, 31), NoEntry, NoEntry, NoEntry>>])}
OtherDisks ==
  {Disk("none", FALSE, 4, 4, [b \in {} |-> 0]), Disk("data", TRUE, 4, 35, [b \in {} |-> 0]),
   Disk("error", FALSE, 4, 4, [b \in {} |-> 0])}
DriveSet == {[kind |-> "drives", disks |-> <<a, d>>] : a \in OtherDisks, d \in DiskSet}
Boundaries ==
  UNION {{x - 1, x} : x \in {1, 256, 65536, 16777216, 268435456}} \cup {268435200, 268435201, 500000000}
AddressSet == {[kind |-> "address", lba |-> l, sectors |-> n] : l \in Boundaries, n \in {1, 255, 256, 257, 65535}}

\* Text: numbers of eight bits, moves that overlap, strings, formats and environments.
NumberSet == {[kind |-> "number", value |-> v, base |-> b] : v \in -128..127, b \in {2, 10, 16}}
MoveSet ==
  {m \in {[kind |-> "move", size |-> 6, dst |-> d, src |-> s, n |-> n] : d \in 1..6, s \in 1..6, n \in 0..5} :
     m.dst + m.n <= 7 /\ m.src + m.n <= 7}
StringSet == {[kind |-> "string", s1 |-> a, s2 |-> b] : a \in SeqsUpTo({1, 2}, 4), b \in SeqsUpTo({1, 2}, 3)}
FormatItems ==
  {[letter |-> "literal", arg |-> 7], [letter |-> "literal", arg |-> Percent], [letter |-> "literal", arg |-> 13],
   [letter |-> "c", arg |-> 5], [letter |-> "s", arg |-> <<1, Percent>>], [letter |-> "s", arg |-> [i \in 1..127 |-> 1]],
   [letter |-> "d", arg |-> -128], [letter |-> "u", arg |-> 200], [letter |-> "x", arg |-> 255],
   [letter |-> "p", arg |-> 3], [letter |-> "p", arg |-> 33]}
FormatSet == {[kind |-> "format", items |-> f, room |-> r] : f \in SeqsUpTo(FormatItems, 3), r \in {0, 1, 3, 4}}
EnvVar(n, v) == [name |-> n, value |-> v]
EnvVars == {EnvVar(<<1>>, <<>>), EnvVar(<<1, 1>>, <<3>>), EnvVar(<<2>>, <<1, Equals>>), EnvVar(<<1>>, <<4>>)}
EnvSet == {[kind |-> "env", vars |-> v, name |-> n] : v \in SeqsUpTo(EnvVars, 3), n \in {<<1>>, <<2>>, <<1, 1>>, <<1, 2>>}}

\* Machine: MP tables of up to three entries of any kind, and some with too
\* many; two devices, one of up to three functions, and a second bus.
Proc(id) == [type |-> "MP_CONF_PROC", lapic_id |-> id]
Ioapic(id, on) == [type |-> "MP_CONF_IOAPIC", ioapic_id |-> id, enabled |-> on]
TableSet ==
  SeqsUpTo({Proc(0), Ioapic(1, TRUE), Ioapic(2, FALSE), [type |-> "MP_CONF_BUS"]}, 3)
  \cup {<<Proc(0), Proc(1), Proc(2)>>, [i \in 1..5 |-> Ioapic(i, TRUE)]}
ConfigBytes(device, header) ==
  [o \in {0, 1, 2, 3, 8, 9, 10, 11, 14, 15, 60, 61} |->
     CASE o = CFG_DEVICE_ID -> device [] o = CFG_HEADER_TYPE -> header [] OTHER -> 10 + o]
DeviceId(device) == <<<<10, 11>>, <<device, 13>>>>
ConfigSet ==
  {c \in UNION {[S -> {ConfigBytes(1, 0), ConfigBytes(1, 128), ConfigBytes(2, 0)}] :
                  S \in SUBSET {<<0, 0, 0>>, <<0, 0, 1>>, <<0, 1, 0>>, <<0, 1, 1>>, <<0, 1, 2>>, <<1, 0, 0>>}} :
     \A a \in DOMAIN c : a[3] > 0 \/ a[1] > 0 => c[a][CFG_HEADER_TYPE] = 0}
MachineSet ==
  {[table |-> t, config |-> <<>>] : t \in TableSet} \cup {[table |-> <<Proc(0)>>, config |-> c] : c \in ConfigSet}
DriverList == <<{DeviceId(2)}, {DeviceId(1), DeviceId(2)}>>

-----------------------------------------------------------------------------
Init ==
  /\ part \in Parts
  /\ BlockCacheInit /\ OpenFilesInit /\ MountsInit /\ SerialInit
  /\ IF part = "fat" THEN FatInit ELSE fatCase = NoCase
  /\ IF part = "dirs" THEN DirInit ELSE dirCase = NoCase
  /\ IF part = "drives" THEN BlockInit ELSE blockCase = NoCase
  /\ IF part = "text" THEN TextInit ELSE textCase = NoCase
  /\ IF part = "stream" THEN StreamInit ELSE buf_mode = "FBM_NEWLINE" /\ StreamInit
  /\ IF part = "machine" THEN MachineInit ELSE machine = [table |-> <<>>, config |-> <<>>] /\ Unexplored

CacheStep ==
  /\ part = "cache" /\ BlockCacheNext
  /\ UNCHANGED <<fileVars, fatCase, dirCase, mountVars, blockCase, serialVars, streamVars, textCase, machineVars, part>>
FilesStep ==
  /\ part = "files" /\ OpenFilesNext
  /\ UNCHANGED <<cacheVars, fatCase, dirCase, mountVars, blockCase, serialVars, streamVars, textCase, machineVars, part>>
MountsStep ==
  /\ part = "mounts" /\ MountsNext
  /\ UNCHANGED <<cacheVars, fileVars, fatCase, dirCase, blockCase, serialVars, streamVars, textCase, machineVars, part>>
SerialStep ==
  /\ part = "serial" /\ SerialNext
  /\ UNCHANGED <<cacheVars, fileVars, fatCase, dirCase, mountVars, blockCase, streamVars, textCase, machineVars, part>>
StreamStep ==
  /\ part = "stream" /\ StreamNext
  /\ UNCHANGED <<cacheVars, fileVars, fatCase, dirCase, mountVars, blockCase, serialVars, textCase, machineVars, part>>
MachineStep ==
  /\ part = "machine" /\ MachineNext
  /\ UNCHANGED <<cacheVars, fileVars, fatCase, dirCase, mountVars, blockCase, serialVars, streamVars, textCase, part>>

Next == CacheStep \/ FilesStep \/ MountsStep \/ SerialStep \/ StreamStep \/ MachineStep

Spec == Init /\ [][Next]_allVars

===============================================================================
