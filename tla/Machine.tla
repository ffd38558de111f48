-------------------------------- MODULE Machine -------------------------------
(***************************************************************************)
(* What the kernel finds out about the machine while it boots, and what it *)
(* does with it: the processors and I/O APICs of the MP table (mpt.c), the *)
(* interrupt lines masked and unmasked afterwards (apic.c), and the PCI    *)
(* functions and the drivers registered for them (pci.c).                  *)
(*                                                                         *)
(* machine is what the firmware and the buses say.  The MP table is a      *)
(* sequence of entries in memory cells of four bytes, the configuration    *)
(* space of a PCI function is the function from offsets to bytes.          *)
(***************************************************************************)
EXTENDS Integers, Sequences, FiniteSets, SequencesExt

CONSTANTS
  Machines,       \* the machines the kernel may be started on
  MAX_CPUS, MAX_PCI_FUNCTIONS, CFG_MAX_FUNC, CFG_MAX_DEVICE,
  IoapicSize,     \* the lines of an I/O APIC, 24 in the code
  ByteMod,        \* 2^8, the modulus of ioapic_offset
  INT_IRQ0,
  MaskVectors,    \* the vectors ioapic_set_mask and ioapic_clear_mask are called for
  PciDrivers      \* the drivers: sets of the ids they support, in the order of registration

VARIABLES
  machine,
  found,          \* "no", "yes" or "panic": whether the tables have been enumerated
  cpus,           \* the lapic ids, in the order of cpu_add
  ioapics,        \* the list, the last one registered first
  redirection,    \* the redirection table of every I/O APIC: the vector, 0 if masked
  pci_functions,
  drivers,        \* how many drivers have been registered
  \* The vector last asked for on each line, and the calls of init.
  asked, inits

machineVars == <<machine, found, cpus, ioapics, redirection, pci_functions, drivers, asked, inits>>

\* Nothing is known of the machine yet.
Unexplored ==
  /\ found = "no" /\ cpus = <<>> /\ ioapics = <<>> /\ redirection = <<>>
  /\ pci_functions = <<>> /\ drivers = 0
  /\ asked = [irq \in {v - INT_IRQ0 : v \in MaskVectors} |-> 0] /\ inits = <<>>

MachineInit == machine \in Machines /\ Unexplored

-----------------------------------------------------------------------------
\* mpt.c.

\* The cells the firmware gives to an entry.
EntryCells(entry) == IF entry.type = "MP_CONF_PROC" THEN 5 ELSE 2

\* Where each entry of the table begins, after the cells of the ones before.
RECURSIVE BeginsAt(_)
BeginsAt(i) == IF i = 1 THEN 0 ELSE BeginsAt(i - 1) + EntryCells(machine.table[i - 1])

\* What is read at an address: an entry, or the middle of one.
EntryAt(ptr) ==
  IF \E i \in DOMAIN machine.table : BeginsAt(i) = ptr
  THEN machine.table[CHOOSE i \in DOMAIN machine.table : BeginsAt(i) = ptr]
  ELSE [type |-> "unknown"]

\* sizeof of the member of mp_conf_entry that the type selects.
Sizeof(type) == IF type = "MP_CONF_PROC" THEN 5 ELSE 2

\* The entries the receiver is called with; the last one is unknown if it panics.
RECURSIVE WalkFrom(_, _)
WalkFrom(i, ptr) ==
  IF i = Len(machine.table) THEN <<>>
  ELSE LET entry == EntryAt(ptr) IN
       <<entry>> \o IF entry.type = "unknown" THEN <<>> ELSE WalkFrom(i + 1, ptr + Sizeof(entry.type))
mpt_walk == WalkFrom(0, 0)

Unknown == \E i \in DOMAIN mpt_walk : mpt_walk[i].type = "unknown"

mpt_enum_cpus_receiver(entry) == entry.type = "MP_CONF_PROC"

\* cpu_add for each of them, which panics when there is no room.
mpt_enum_cpus ==
  LET procs == SelectSeq(mpt_walk, mpt_enum_cpus_receiver) IN [i \in DOMAIN procs |-> procs[i].lapic_id]

mpt_enum_ioapics_receiver(entry) == entry.type = "MP_CONF_IOAPIC" /\ entry.enabled

\* ioapic_register for the n-th one: ioapic_offset has been advanced n - 1 times.
ioapic_register(entry, n) ==
  [id |-> entry.ioapic_id, offset |-> (n - 1) * IoapicSize % ByteMod, size |-> IoapicSize]

mpt_enum_ioapics ==
  LET enabled == SelectSeq(mpt_walk, mpt_enum_ioapics_receiver) IN
  Reverse([n \in DOMAIN enabled |-> ioapic_register(enabled[n], n)])

\* Every line is masked.
init_ioapics(ias) == [i \in DOMAIN ias |-> [line \in 0..ias[i].size - 1 |-> 0]]

-----------------------------------------------------------------------------
\* The configuration space: what is read at an offset, the low bit of which
\* neither of the functions uses.

CFG_VENDOR_ID == 0
CFG_DEVICE_ID == 2
CFG_REVISION_ID == 8
CFG_PROG_IF == 9
CFG_SUBCLASS == 10
CFG_CLASS == 11
CFG_HEADER_TYPE == 14
CFG_INT_LINE == 60
CFG_INT_PIN == 61

Bytes(a, offset) == IF a \in DOMAIN machine.config THEN machine.config[a][offset] ELSE 255

config_read_word(a, offset) == LET word == 2 * (offset \div 2) IN <<Bytes(a, word), Bytes(a, word + 1)>>

config_read_byte(a, offset) == Bytes(a, 2 * (offset \div 2))

config_is_valid(a) == config_read_word(a, CFG_VENDOR_ID) # <<255, 255>>

cfg_is_multifunction(header_type) == header_type >= 128

visit_function(a) ==
  IF ~config_is_valid(a) THEN <<>>
  ELSE <<[address |-> a, id |-> <<config_read_word(a, CFG_VENDOR_ID), config_read_word(a, CFG_DEVICE_ID)>>,
          revision |-> config_read_byte(a, CFG_REVISION_ID), prog_if |-> config_read_byte(a, CFG_PROG_IF),
          subclass |-> config_read_byte(a, CFG_SUBCLASS), class |-> config_read_byte(a, CFG_CLASS),
          int_line |-> config_read_byte(a, CFG_INT_LINE), int_pin |-> config_read_byte(a, CFG_INT_PIN),
          header_type |-> config_read_byte(a, CFG_HEADER_TYPE), driver |-> 0]>>

\* The functions from the first one up to the first that is not valid.
ValidFrom(bus, dev, first) ==
  LET ends == {f \in first..CFG_MAX_FUNC - 1 : ~config_is_valid(<<bus, dev, f>>)}
      end == IF ends = {} THEN CFG_MAX_FUNC ELSE CHOOSE f \in ends : \A g \in ends : f <= g
  IN  [i \in 1..end - first |-> first + i - 1]

Multifunction(bus, dev) == cfg_is_multifunction(config_read_byte(<<bus, dev, 0>>, CFG_HEADER_TYPE))

visit_device(bus, dev) ==
  LET funcs == IF ~config_is_valid(<<bus, dev, 0>>) THEN <<>>
               ELSE IF Multifunction(bus, dev) THEN ValidFrom(bus, dev, 0) ELSE <<0>>
  IN  FlattenSeq([i \in DOMAIN funcs |-> visit_function(<<bus, dev, funcs[i]>>)])

visit_bus(bus) == FlattenSeq([d \in 1..CFG_MAX_DEVICE |-> visit_device(bus, d - 1)])

init_pci ==
  LET hosts == IF Multifunction(0, 0) THEN ValidFrom(0, 0, 1) ELSE <<>> IN
  IF ~config_is_valid(<<0, 0, 0>>) THEN <<>>
  ELSE visit_bus(0) \o FlattenSeq([i \in DOMAIN hosts |-> visit_bus(hosts[i])])

-----------------------------------------------------------------------------
\* The boot processor enumerates everything before it starts the others.
Enumerate ==
  /\ found = "no"
  /\ found' = IF Unknown \/ Len(mpt_enum_cpus) > MAX_CPUS \/ Len(init_pci) > MAX_PCI_FUNCTIONS
              THEN "panic" ELSE "yes"
  /\ IF found' = "panic" THEN UNCHANGED <<cpus, ioapics, redirection, pci_functions>>
     ELSE /\ cpus' = mpt_enum_cpus /\ ioapics' = mpt_enum_ioapics
          /\ redirection' = init_ioapics(mpt_enum_ioapics) /\ pci_functions' = init_pci
  /\ UNCHANGED <<machine, drivers, asked, inits>>

\* The first of the list that has the line, 0 if none has.
ioapic_get(irq) ==
  LET has == {i \in DOMAIN ioapics : ioapics[i].offset <= irq /\ irq - ioapics[i].offset < ioapics[i].size} IN
  IF has = {} THEN 0 ELSE CHOOSE i \in has : \A j \in has : i <= j

\* kassert(ia) fails if there is no I/O APIC for the line.
WriteLine(vector, entry) ==
  LET irq == vector - INT_IRQ0 ia == ioapic_get(irq) IN
  /\ found = "yes"
  /\ IF ia = 0 THEN found' = "panic" /\ UNCHANGED <<redirection, asked>>
     ELSE /\ redirection' = [redirection EXCEPT ![ia][irq - ioapics[ia].offset] = entry]
          /\ asked' = [asked EXCEPT ![irq] = entry] /\ UNCHANGED found
  /\ UNCHANGED <<machine, cpus, ioapics, pci_functions, drivers, inits>>

ioapic_set_mask(vector) == WriteLine(vector, 0)

ioapic_clear_mask(vector) == WriteLine(vector, vector)

Matches(f, d) == f.id \in PciDrivers[d]

\* Mutation: a function that has a driver is not passed over.
Rematched(d) ==
  /\ pci_functions' = [i \in DOMAIN pci_functions |->
       IF Matches(pci_functions[i], d) THEN [pci_functions[i] EXCEPT !.driver = d] ELSE pci_functions[i]]
  /\ inits' = inits \o [k \in 1..Cardinality({i \in DOMAIN pci_functions : Matches(pci_functions[i], d)}) |->
                          <<d, SetToSortSeq({i \in DOMAIN pci_functions : Matches(pci_functions[i], d)}, <)[k]>>]

\* The driver is initialised for each function that matches and has none yet.
Matched(d) ==
  LET new == {i \in DOMAIN pci_functions : pci_functions[i].driver = 0 /\ Matches(pci_functions[i], d)}
      order == SetToSortSeq(new, <) IN
  /\ pci_functions' = [i \in DOMAIN pci_functions |->
       IF i \in new THEN [pci_functions[i] EXCEPT !.driver = d] ELSE pci_functions[i]]
  /\ inits' = inits \o [k \in DOMAIN order |-> <<d, order[k]>>]

\* pci_register_driver of the next driver, under pci_config_mutex.
pci_register_driver ==
  /\ found = "yes" /\ drivers < Len(PciDrivers) /\ drivers' = drivers + 1
  /\ Matched(drivers + 1)
  /\ UNCHANGED <<machine, found, cpus, ioapics, redirection, asked>>

MachineNext ==
  \/ Enumerate
  \/ \E v \in MaskVectors : ioapic_set_mask(v) \/ ioapic_clear_mask(v)
  \/ pci_register_driver

-----------------------------------------------------------------------------
(* Every processor entry of the MP table becomes one CPU, in the order of   *)
(* the table and wherever the longer and shorter entries stand, unless      *)
(* there are too many; the table is never read from the middle of an entry. *)
CpusOfTable ==
  LET ids == SelectSeq(machine.table, LAMBDA e : e.type = "MP_CONF_PROC") IN
  /\ found = "yes" => cpus = [i \in DOMAIN ids |-> ids[i].lapic_id]
  /\ found # "no" => ~Unknown

(* A line is masked and unmasked where no other line is: after any calls    *)
(* each line of an I/O APIC has the vector last asked for, as long as the   *)
(* enabled I/O APICs have no more lines than ioapic_offset can count.       *)
LinesApart ==
  Len(ioapics) * IoapicSize <= ByteMod /\ found = "yes" =>
    \A irq \in DOMAIN asked :
      irq < Len(ioapics) * IoapicSize =>
        redirection[Len(ioapics) - irq \div IoapicSize][irq % IoapicSize] = asked[irq]

\* The function numbers of a device have no gap, where visit_device would stop.
Gapless(bus, dev) ==
  \A f \in 1..CFG_MAX_FUNC - 1 : config_is_valid(<<bus, dev, f>>) => config_is_valid(<<bus, dev, f - 1>>)

(* The functions of the first bus, but for devices with a gap in their      *)
(* function numbers, are each registered once, and every function that is   *)
(* has its own id and header; it is initialised once, by the first driver   *)
(* that supports it.                                                        *)
FunctionsDriven ==
  found = "yes" =>
    /\ \A a \in DOMAIN machine.config :
         /\ {<<0, 0, 0>>, <<0, a[2], 0>>} \subseteq DOMAIN machine.config /\ a[1] = 0 /\ Gapless(0, a[2])
         /\ a[3] > 0 => machine.config[<<0, a[2], 0>>][CFG_HEADER_TYPE] >= 128
         =>
           Cardinality({i \in DOMAIN pci_functions : pci_functions[i].address = a}) = 1
    /\ \A i \in DOMAIN pci_functions :
         LET f == pci_functions[i]
             config == machine.config[f.address]
             supporting == {d \in 1..drivers : f.id \in PciDrivers[d]} IN
         /\ f.id = <<<<config[0], config[1]>>, <<config[2], config[3]>>>> /\ f.header_type = config[CFG_HEADER_TYPE]
         /\ f.driver = IF supporting = {} THEN 0 ELSE CHOOSE d \in supporting : \A e \in supporting : d <= e
         /\ SelectSeq(inits, LAMBDA c : c[2] = i) = IF f.driver = 0 THEN <<>> ELSE <<<<f.driver, i>>>>

(* The three together: the CPUs, lines and functions the machine has are    *)
(* the ones the kernel uses, each once.                                     *)
MachineFound == CpusOfTable /\ LinesApart /\ FunctionsDriven

===============================================================================
