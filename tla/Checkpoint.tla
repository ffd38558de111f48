----------------------------- MODULE Checkpoint -----------------------------
(***************************************************************************)
(* How the CPUs come to the scheduler loop: the boot CPU starts the others *)
(* one by one (kernel/arch/i386/cpu/smp.c), each one counts itself active  *)
(* (cpu.c), and all meet in cpu_checkpoint_enter (kernel/cpu/checkpoint.c).*)
(*                                                                         *)
(* The checkpoint compares two counters that other CPUs are incrementing.  *)
(* They are loaded one after the other, num first: C leaves the order of   *)
(* the operands of != open, and this is the order of the -O0 build.        *)
(***************************************************************************)
EXTENDS Integers, FiniteSets

CONSTANTS
  CPUs,     \* the CPUs the MP table lists
  BootCPU

ASSUME CheckpointAssumption == BootCPU \in CPUs /\ IsFiniteSet(CPUs)

VARIABLES
  num,               \* scheduler_checkpoint.num
  nof_active_cpus,
  active,            \* cpu->active
  pc,                \* the next statement of each CPU
  loaded             \* the value of num in a register of the CPU

vars == <<num, nof_active_cpus, active, pc, loaded>>

Init ==
  /\ num = 0 /\ nof_active_cpus = 0
  /\ active = [c \in CPUs |-> FALSE]
  /\ pc = [c \in CPUs |-> IF c = BootCPU THEN "count" ELSE "off"]
  /\ loaded = [c \in CPUs |-> 0]

-----------------------------------------------------------------------------
(* cpu_set_active(true) *)

CountActive(c) ==
  /\ pc[c] = "count"
  /\ nof_active_cpus' = IF active[c] THEN nof_active_cpus ELSE nof_active_cpus + 1
  /\ pc' = [pc EXCEPT ![c] = "active"]
  /\ UNCHANGED <<num, active, loaded>>

SetActive(c) ==
  /\ pc[c] = "active"
  /\ active' = [active EXCEPT ![c] = TRUE]
  /\ pc' = [pc EXCEPT ![c] = IF c = BootCPU THEN "start" ELSE "enter"]
  /\ UNCHANGED <<num, nof_active_cpus, loaded>>

(* start_aps: the boot CPU starts one, and waits for its flag.              *)

Starting(c) == c # BootCPU /\ pc[c] # "off" /\ ~active[c]

start_ap(c) ==
  /\ pc[BootCPU] = "start" /\ c # BootCPU /\ pc[c] = "off"
  /\ \A d \in CPUs : ~Starting(d)
  /\ pc' = [pc EXCEPT ![c] = "count"]
  /\ UNCHANGED <<num, nof_active_cpus, active, loaded>>

AllStarted ==
  /\ pc[BootCPU] = "start" /\ \A d \in CPUs : pc[d] # "off" /\ ~Starting(d)
  /\ pc' = [pc EXCEPT ![BootCPU] = "enter"]
  /\ UNCHANGED <<num, nof_active_cpus, active, loaded>>

(* cpu_checkpoint_enter *)

\* Mutation: the CPU does not count itself.
EnterUncounted(c) ==
  /\ pc[c] = "enter"
  /\ pc' = [pc EXCEPT ![c] = "load_num"]
  /\ UNCHANGED <<num, nof_active_cpus, active, loaded>>

Enter(c) ==
  /\ pc[c] = "enter"
  /\ num' = num + 1
  /\ pc' = [pc EXCEPT ![c] = "load_num"]
  /\ UNCHANGED <<nof_active_cpus, active, loaded>>

LoadNum(c) ==
  /\ pc[c] = "load_num"
  /\ loaded' = [loaded EXCEPT ![c] = num]
  /\ pc' = [pc EXCEPT ![c] = "compare"]
  /\ UNCHANGED <<num, nof_active_cpus, active>>

\* Loads nof_active_cpus, and passes or tries again.
Compare(c) ==
  /\ pc[c] = "compare"
  /\ pc' = [pc EXCEPT ![c] = IF loaded[c] = nof_active_cpus THEN "passed" ELSE "load_num"]
  /\ UNCHANGED <<num, nof_active_cpus, active, loaded>>

\* Mutation: the operands are loaded in the other order.
CheckingSwapped(c) ==
  \/ /\ pc[c] = "load_num"
     /\ loaded' = [loaded EXCEPT ![c] = nof_active_cpus]
     /\ pc' = [pc EXCEPT ![c] = "compare"]
     /\ UNCHANGED <<num, nof_active_cpus, active>>
  \/ /\ pc[c] = "compare"
     /\ pc' = [pc EXCEPT ![c] = IF num = loaded[c] THEN "passed" ELSE "load_num"]
     /\ UNCHANGED <<num, nof_active_cpus, active, loaded>>

Checking(c) == LoadNum(c) \/ Compare(c)

-----------------------------------------------------------------------------

CPUStep(c) ==
  \/ CountActive(c) \/ SetActive(c) \/ start_ap(c) \/ (c = BootCPU /\ AllStarted)
  \/ Enter(c) \/ Checking(c)

AllPassed == \A c \in CPUs : pc[c] = "passed"

\* In the scheduler loop.
Done == AllPassed /\ UNCHANGED vars

Next == (\E c \in CPUs : CPUStep(c)) \/ Done

\* Every CPU that has been started runs, with interrupts still disabled.
Spec == Init /\ [][Next]_vars /\ \A c \in CPUs : WF_vars(CPUStep(c))

-----------------------------------------------------------------------------

(* Every variable has its type.                                             *)
TypeOK ==
  /\ num \in Nat /\ nof_active_cpus \in Nat
  /\ active \in [CPUs -> BOOLEAN]
  /\ pc \in [CPUs -> {"off", "count", "active", "start", "enter", "load_num", "compare", "passed"}]
  /\ loaded \in [CPUs -> Nat]

Entered == {c \in CPUs : pc[c] \in {"load_num", "compare", "passed"}}
Passed == {c \in CPUs : pc[c] = "passed"}

Bar == INSTANCE Barrier WITH entered <- Entered, passed <- Passed

(* The checkpoint is a barrier: no CPU passes it before every CPU has       *)
(* entered, although both counters grow while a CPU compares them.          *)
ImplementsBarrier == Bar!BarrierSpec

(* Every CPU gets through: the equality that is tested for is not jumped    *)
(* over, nor missed for ever.                                               *)
EverybodyPasses == <>AllPassed

=============================================================================
