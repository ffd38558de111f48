-------------------------------- MODULE Loader --------------------------------
(***************************************************************************)
(* The ELF loader, kernel/kernel/exec/elf/core.c: where it puts a program, *)
(* its stack and its environment.  A case is an executable (its segments   *)
(* and sections) and the lengths of the environment's strings; the process *)
(* is not scheduled before the loader is done, so a case has one result:   *)
(* the pages reserved and every range of bytes written.  The calls it      *)
(* makes are in ProcMemory (proc_vmreserve, proc_vmwrite, proc_set_break), *)
(* OpenFiles (vfs_open, proc_bind) and Scheduler (schedule_proc).  Left    *)
(* out: the kasserts on the file's header, and the contents.               *)
(***************************************************************************)
EXTENDS Integers, Sequences

CONSTANTS
  UserPage,       \* PAGE_SIZE
  Pointer,        \* sizeof(char *)
  Programs        \* cases: segments and sections, <<mem_offset, size>>; strings, lengths

\* The linker puts sections into segments.
ASSUME LoaderAssumption ==
  /\ {UserPage, Pointer} \subseteq Nat \ {0}
  /\ \A p \in Programs :
       /\ p.segments \in Seq(Nat \X Nat) /\ p.sections \in Seq(Nat \X Nat) /\ p.strings \in Seq(Nat)
       /\ \A i \in DOMAIN p.sections : p.sections[i][2] > 0 /\ p.sections[i][1] > 0 =>
            \E j \in DOMAIN p.segments :
              /\ p.segments[j][1] <= p.sections[i][1]
              /\ p.sections[i][1] + p.sections[i][2] <= p.segments[j][1] + p.segments[j][2]

VARIABLE program

LoaderInit == program \in Programs

\* Nobody else is in the process before the loader is done.
LoaderSpec == LoaderInit /\ [][UNCHANGED program]_program

mask_to_page(a) == a - (a % UserPage)
PagesBetween(from, to) == {mask_to_page(a) : a \in from..to}

\* Mutation: the page in which the segment ends is left out.
SegmentPagesShort(seg) ==
  {v \in PagesBetween(seg[1], seg[1] + seg[2]) : v < mask_to_page(seg[1] + seg[2]) \/ v = mask_to_page(seg[1])}

\* From the page of the first byte to that of the byte behind the last.
SegmentPages(seg) == PagesBetween(seg[1], seg[1] + seg[2])

\* Mutation: the break follows the segments in the order of the file.
BreakOfLast(segments) ==
  IF segments = <<>> THEN 0 ELSE LET seg == segments[Len(segments)] IN mask_to_page(seg[1] + seg[2])

\* vbreak behind the loop over the segments: the highest vto.
SegmentBreak(segments) ==
  LET ends == {0} \cup {mask_to_page(segments[i][1] + segments[i][2]) : i \in DOMAIN segments}
  IN  CHOOSE b \in ends : \A e \in ends : e <= b

\* handle_section: sections without contents or address are not loaded.
LoadedSections == {i \in DOMAIN program.sections : program.sections[i][2] > 0 /\ program.sections[i][1] > 0}

\* One page, at vbreak.
StackPage == SegmentBreak(program.segments)
EnvTable == StackPage + UserPage

EnvNum == Len(program.strings) + 1

\* env_strings_offset behind the first n strings.
StringOffsets ==
  LET offset[n \in 0..Len(program.strings)] ==
        IF n = 0 THEN 0 ELSE offset[n - 1] + program.strings[n] + 1
  IN offset

EnvPages(size) == size \div UserPage + 1

FormattedEnvSize == Pointer * EnvNum + StringOffsets[Len(program.strings)]
Break == EnvTable + EnvPages(FormattedEnvSize) * UserPage

EnvReserved == {EnvTable + i * UserPage : i \in 0..(EnvPages(FormattedEnvSize) - 1)}

Reserved ==
  (UNION {SegmentPages(program.segments[i]) : i \in DOMAIN program.segments}) \cup {StackPage} \cup EnvReserved

\* The strings follow the table of their addresses and its NULL.
StringAt(i) == EnvTable + EnvNum * Pointer + StringOffsets[i - 1]

\* The ranges proc_vmwrite is called with: first byte, number of bytes.
SectionWrites == {program.sections[i] : i \in LoadedSections}
PointerWrites == {<<EnvTable + (i - 1) * Pointer, Pointer>> : i \in 1..EnvNum}
StringWrites == {<<StringAt(i), program.strings[i] + 1>> : i \in DOMAIN program.strings}

-----------------------------------------------------------------------------
BytesOf(w) == w[1]..(w[1] + w[2] - 1)
Inside(bytes) == \A a \in bytes : mask_to_page(a) \in Reserved /\ a < Break

(* Every byte the loader writes, and every byte of a segment, is on a page  *)
(* that was reserved and below the break, which later moves up from there.  *)
WritesReserved ==
  /\ \A w \in SectionWrites \cup PointerWrites \cup StringWrites : Inside(BytesOf(w))
  /\ \A i \in DOMAIN program.segments : Inside(BytesOf(program.segments[i]))

(* The environment's table, its strings and the stack are apart from each   *)
(* other, and table and strings from the executable too: getenv reads the   *)
(* strings of the table until the program ends.                             *)
EnvironmentApart ==
  LET env == PointerWrites \cup StringWrites IN
  /\ \A w \in env, x \in env : w = x \/ BytesOf(w) \cap BytesOf(x) = {}
  /\ \A w \in env : BytesOf(w) \cap StackPage..(StackPage + UserPage - 1) = {}
  /\ \A w \in env, i \in DOMAIN program.segments : BytesOf(w) \cap BytesOf(program.segments[i]) = {}

(* The two together: where exec_user_elf_program writes there is memory,    *)
(* and the environment it writes stays as it was written.                   *)
LoadedSound == WritesReserved /\ EnvironmentApart

===============================================================================
