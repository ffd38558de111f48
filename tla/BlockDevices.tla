----------------------------- MODULE BlockDevices -----------------------------
(***************************************************************************)
(* Block devices: the drives that kernel/kernel/drivers/ata/generic.c      *)
(* finds, the registry of kernel/kernel/block/registry.c, the partitions   *)
(* of kernel/kernel/block/mbr.c, and the registers that a read of          *)
(* kernel/kernel/devices/ata_pio.c sets.  All of it is sequential.         *)
(***************************************************************************)
EXTENDS Integers, Sequences, SequencesExt, FiniteSets

CONSTANTS
  MaxDevices,        \* MAX_BLOCK_DEVICES
  DriveCases,        \* what the drives hold: a sequence of disks
  AddressCases,      \* block addresses and counts to try
  UintMod,           \* a uint counts modulo this
  Bits28, Bits8      \* 2^28 and 2^8

ASSUME BlockDevicesAssumption ==
  {MaxDevices, Bits28} \subseteq Nat /\ {Bits8, UintMod} \subseteq Nat \ {0}

\* A disk is how the drive answers ATA_CMD_IDENTIFY ("none": ALT STATUS is 0;
\* "error": ERR is set, as by ATAPI drives; "data": DRQ is set), the two numbers
\* of sectors it then gives, whether it has 48-bit addresses, and where a master
\* boot record is, by block, the four partitions.
Disk(answer, lba48, max_lba, max_lba_ext, mbrs) ==
  [answer |-> answer, lba48 |-> lba48, max_lba |-> max_lba, max_lba_ext |-> max_lba_ext, mbrs |-> mbrs]
Present(part) == part.status = "present"

\* gen_ata_init_drive: valid and num_blocks of the drive's struct block_dev.
gen_ata_init_drive(disk) ==
  [valid |-> disk.answer = "data",
   num_blocks |-> IF disk.answer # "data" THEN 0
                  ELSE IF disk.lba48 THEN disk.max_lba_ext % UintMod ELSE disk.max_lba]

\* A registered device: its name, the blocks of its drive that are its own.
\* A list that is refused with a kpanic or a kassert is Refused.
Refused == << [name |-> <<>>, drive |-> 0, first |-> 0, size |-> 0] >>

\* The block of the drive that mbr_part_bd_lock asks for, through its parents.
DriveBlock(dev, num) == dev.first + num

\* mbr_create_partition
PartitionOf(dev, part, num) ==
  [name |-> Append(dev.name, num), drive |-> dev.drive,
   first |-> dev.first + part.lba_first, size |-> part.sectors]

\* Mutation: a partition may end past the end of its parent.
ValidStart(dev, part) == part.lba_first # 0 /\ part.sectors # 0 /\ part.lba_first <= dev.size

\* mbr_handle_partition's assertions.
PartitionValid(dev, part) ==
  part.lba_first # 0 /\ part.sectors # 0
  /\ (part.lba_first + part.sectors) % UintMod <= dev.size

\* mbr_table_scan goes on to the next partition only while none was present.
FirstPresent(mbr) == {n \in 1..4 : Present(mbr[n]) /\ \A k \in 1..(n - 1) : ~Present(mbr[k])}

\* bdev_add: the device takes the first free slot, and what its first block says
\* of partitions is added in turn.
RECURSIVE bdev_add(_, _, _)
bdev_add(registry, disk, dev) ==
  LET added == Append(registry, dev)
      hasMbr == dev.first \in DOMAIN disk.mbrs
      which == IF hasMbr THEN FirstPresent(disk.mbrs[dev.first]) ELSE {} IN
  IF registry = Refused \/ Len(registry) = MaxDevices THEN Refused
  ELSE IF which = {} THEN added
  ELSE LET n == CHOOSE k \in which : TRUE
           part == disk.mbrs[dev.first][n] IN
       IF ~PartitionValid(dev, part) THEN Refused
       ELSE bdev_add(added, disk, PartitionOf(dev, part, n - 1))

\* ata_gen_install: the drives that gen_ata_init_drive found, in order.
RECURSIVE ata_gen_install(_, _, _)
ata_gen_install(disks, i, registry) ==
  IF i > Len(disks) THEN registry
  ELSE LET found == gen_ata_init_drive(disks[i])
           dev == [name |-> <<i>>, drive |-> i, first |-> 0, size |-> found.num_blocks] IN
       ata_gen_install(disks, i + 1, IF found.valid THEN bdev_add(registry, disks[i], dev) ELSE registry)

bdev_get(registry, name) ==
  LET found == {i \in DOMAIN registry : registry[i].name = name} IN
  IF found = {} THEN 0 ELSE CHOOSE i \in found : \A j \in found : i <= j

-----------------------------------------------------------------------------
\* ata_pio_read: the bytes of the registers, and the command.

Byte(lba, n) == (lba \div (Bits8 ^ n)) % Bits8

Lba48(lba, sectors) == lba >= Bits28 \/ lba + sectors >= Bits28 \/ sectors >= Bits8

ata_pio_read(lba, sectors) ==
  [ext |-> Lba48(lba, sectors),
   high |-> IF Lba48(lba, sectors) THEN 0 ELSE Byte(lba, 3) % 16,   \* of HDDEVSEL
   lba |-> [n \in 0..2 |-> Byte(lba, n)],
   lbaExt |-> IF Lba48(lba, sectors) THEN [n \in 3..5 |-> Byte(lba, n)] ELSE [n \in 3..5 |-> 0],
   count |-> Byte(sectors, 0), countExt |-> IF Lba48(lba, sectors) THEN Byte(sectors, 1) ELSE 0]

\* External: the drive, of an address and a count of registers.  A count of 0
\* stands for all the counts the registers cannot hold.
DriveAddress(r) ==
  r.lba[0] + Bits8 * r.lba[1] + (Bits8 ^ 2) * r.lba[2]
    + (Bits8 ^ 3) * (IF r.ext THEN r.lbaExt[3] ELSE r.high)
DriveCount(r) ==
  LET n == r.count + IF r.ext THEN Bits8 * r.countExt ELSE 0 IN
  IF n # 0 THEN n ELSE IF r.ext THEN Bits8 ^ 2 ELSE Bits8

-----------------------------------------------------------------------------
VARIABLE blockCase

BlockInit == blockCase \in DriveCases \/ blockCase \in AddressCases

Registry(case) == ata_gen_install(case.disks, 1, <<>>)

\* Whether no partition ends at a block whose number is no uint: the assertion of
\* mbr_handle_partition holds for some of those, their sum being taken modulo.
SumsAreUint(disks) ==
  \A i \in DOMAIN disks : \A b \in DOMAIN disks[i].mbrs : \A n \in 1..4 :
    disks[i].mbrs[b][n].lba_first + disks[i].mbrs[b][n].sectors < UintMod

(* A partition's blocks are blocks of its drive, and of the partition it is *)
(* in, so that a block number below its size leads nowhere else; and the    *)
(* drive has the blocks its device is said to have.                         *)
PartitionsInside ==
  blockCase.kind = "drives" /\ SumsAreUint(blockCase.disks) =>
    LET reg == Registry(blockCase) IN
    reg # Refused => \A i \in DOMAIN reg :
      /\ LET disk == blockCase.disks[reg[i].drive] IN
         reg[i].first + reg[i].size <= IF disk.lba48 THEN disk.max_lba_ext ELSE disk.max_lba
      /\ \A j \in DOMAIN reg : IsPrefix(reg[j].name, reg[i].name) =>
           reg[i].first >= reg[j].first /\ reg[i].first + reg[i].size <= reg[j].first + reg[j].size

(* Every registered device is found under its name, drives and partitions   *)
(* alike.                                                                   *)
FoundByName ==
  blockCase.kind = "drives" =>
    LET reg == Registry(blockCase) IN
    reg # Refused => \A i \in DOMAIN reg : bdev_get(reg, reg[i].name) = i

(* The drive is asked for the block and the number of sectors that          *)
(* ata_pio_read was, at every boundary of 28-bit addresses and 8-bit counts.*)
AddressReachesDrive ==
  blockCase.kind = "address" =>
    LET r == ata_pio_read(blockCase.lba, blockCase.sectors) IN
    DriveAddress(r) = blockCase.lba /\ DriveCount(r) = blockCase.sectors

(* The three together: a block of a device found by its name is a block of  *)
(* that device, and the registers say which.                                *)
BlocksReached == PartitionsInside /\ FoundByName /\ AddressReachesDrive

=============================================================================
