----------------------------- MODULE KernelLocks -----------------------------
(***************************************************************************)
(* The kernel's spinlocks together: who holds which lock while it waits    *)
(* for another, or for the other CPUs to acknowledge a TLB flush.          *)
(*                                                                         *)
(* A routine is the sequence of the locks it takes and releases; what it   *)
(* does in between is in Palloc, KernelHeap, ProcMemory and Scheduler.     *)
(* cpu_spinlock_acquire leaves interrupts enabled (Spinlock), so a handler *)
(* may run on top of a routine that holds locks; interrupts are off while  *)
(* a handler runs.                                                         *)
(***************************************************************************)
EXTENDS Integers, Sequences

CONSTANTS
  LockCPUs,   \* 1..n: the active CPUs, in the order of the cpus array
  Routines    \* what the threads and the scheduler loops of the CPUs call

ASSUME KernelLocksAssumption == LockCPUs \subseteq Nat \ {0}

VARIABLES
  holder,         \* the CPU that holds each lock, 0 if none; its spinlock->num
  routine,        \* what is left of the routine each CPU runs, <<>> if nothing
  handler,        \* ... and of the handler that runs on top of it
  pendingIpi,     \* CPUs with an undelivered INT_FLUSH_TLB_IPI
  ipi_target,     \* the CPU unsafe_propagate_to_cpu waits for, 0 before the first
  ipi_received

lockVars == <<holder, routine, handler, pendingIpi, ipi_target, ipi_received>>

Locks == {"sched", "heap", "kp", "palloc", "ipi"}

Acquire(l) == [op |-> "acquire", lock |-> l]
Release(l) == [op |-> "release", lock |-> l]
Propagate == <<Acquire("ipi"), [op |-> "propagate", lock |-> "ipi"], Release("ipi")>>
pallocLocks == <<Acquire("palloc"), Release("palloc")>>

\* kp_map, with the page table that paging_map may have to allocate.
kp_mapLocks == <<Acquire("kp")>> \o pallocLocks \o Propagate \o <<Release("kp")>>

\* kalloc, when the heap has to grow by a page.
kallocLocks == <<Acquire("heap")>> \o pallocLocks \o kp_mapLocks \o <<Release("heap")>>

kfreeLocks == <<Acquire("heap"), Release("heap")>>

\* unsafe_vmreserve of one page, which propagates a user mapping.
vmreserveLocks == pallocLocks \o pallocLocks \o Propagate

\* destroy_thread, in the scheduler loop: thread_free with the lock held.
reapLocks == <<Acquire("sched")>> \o kfreeLocks \o <<Release("sched")>>

\* Code that holds no spinlock.
userLocks == <<[op |-> "run", lock |-> "none"]>>

\* Everything else that takes the scheduler's lock waits for nothing inside.
schedLocks == <<Acquire("sched"), Release("sched")>>

\* Mutation: a handler that allocates memory, without kalloc's check of IF.
AllocatingHandler(h) == kallocLocks

\* com_irq_handler notifies a condition; the timer's tick may yield.
Handler(h) == schedLocks

Routine(r) ==
  CASE r = "kalloc" -> kallocLocks
    [] r = "kfree" -> kfreeLocks
    [] r = "vmreserve" -> vmreserveLocks
    [] r = "reap" -> reapLocks
    [] r = "notify" -> schedLocks
    [] r = "user" -> userLocks

LocksInit ==
  /\ holder = [l \in Locks |-> [cpu |-> 0, num |-> 0]]
  /\ routine = [c \in LockCPUs |-> <<>>] /\ handler = [c \in LockCPUs |-> <<>>]
  /\ pendingIpi = {} /\ ipi_target = 0 /\ ipi_received = FALSE

InHandler(c) == handler[c] # <<>>
HoldsSome(c) == \E l \in Locks : holder[l].cpu = c

\* The next thing a CPU does.
NextOp(c) ==
  IF InHandler(c) THEN Head(handler[c])
  ELSE IF routine[c] # <<>> THEN Head(routine[c]) ELSE [op |-> "none", lock |-> "none"]

\* The CPU is done with it, and returns after the last one.
Advance(c) ==
  IF InHandler(c)
  THEN handler' = [handler EXCEPT ![c] = Tail(@)] /\ UNCHANGED routine
  ELSE routine' = [routine EXCEPT ![c] = Tail(@)] /\ UNCHANGED handler

Call(c, r) ==
  /\ routine[c] = <<>>
  /\ routine' = [routine EXCEPT ![c] = Routine(r)]
  /\ UNCHANGED <<holder, handler, pendingIpi, ipi_target, ipi_received>>

RunUnlocked(c) ==
  /\ NextOp(c).op = "run" /\ Advance(c)
  /\ UNCHANGED <<holder, pendingIpi, ipi_target, ipi_received>>

\* A lock the CPU already holds is acquired once more.
AcquireLock(c) ==
  LET l == NextOp(c).lock IN
  /\ NextOp(c).op = "acquire" /\ holder[l].cpu \in {0, c}
  /\ holder' = [holder EXCEPT ![l] = [cpu |-> c, num |-> @.num + 1]]
  /\ Advance(c)
  /\ UNCHANGED <<pendingIpi, ipi_target, ipi_received>>

ReleaseLock(c) ==
  LET l == NextOp(c).lock IN
  /\ NextOp(c).op = "release"
  /\ holder' = [holder EXCEPT ![l] = [cpu |-> IF @.num = 1 THEN 0 ELSE c, num |-> @.num - 1]]
  /\ Advance(c)
  /\ UNCHANGED <<pendingIpi, ipi_target, ipi_received>>

\* cpu_enumerate_other_cpus(unsafe_propagate_to_cpu): the CPUs still to ask.
OthersAfter(c, t) == {d \in LockCPUs : d > t /\ d # c}
LowestOf(S) == CHOOSE d \in S : \A e \in S : d <= e

\* Mutation: the flag of the last acknowledgement is not cleared.
PropagateUncleared(c) ==
  LET rest == OthersAfter(c, ipi_target) IN
  /\ NextOp(c).op = "propagate" /\ (ipi_target = 0 \/ ipi_received)
  /\ \/ /\ rest # {}
        /\ ipi_target' = LowestOf(rest) /\ UNCHANGED <<ipi_received, routine, handler>>
        /\ pendingIpi' = pendingIpi \cup {LowestOf(rest)}
     \/ /\ rest = {} /\ Advance(c)
        /\ ipi_target' = 0 /\ UNCHANGED <<pendingIpi, ipi_received>>
  /\ UNCHANGED holder

unsafe_propagate_to_cpu(c) ==
  LET rest == OthersAfter(c, ipi_target) IN
  /\ NextOp(c).op = "propagate" /\ (ipi_target = 0 \/ ipi_received)
  /\ \/ /\ rest # {}
        /\ ipi_target' = LowestOf(rest) /\ ipi_received' = FALSE
        /\ pendingIpi' = pendingIpi \cup {LowestOf(rest)}
        /\ UNCHANGED <<routine, handler>>
     \/ /\ rest = {} /\ Advance(c)
        /\ ipi_target' = 0 /\ UNCHANGED <<pendingIpi, ipi_received>>
  /\ UNCHANGED holder

ipi_flush_tlb_handler(c) ==
  /\ c \in pendingIpi /\ ~InHandler(c)
  /\ pendingIpi' = pendingIpi \ {c} /\ ipi_received' = TRUE
  /\ UNCHANGED <<holder, routine, handler, ipi_target>>

\* The tick yields only if preemption is not disabled, that is, if the CPU
\* holds no spinlock.
generic_interrupt_handler(c, h) ==
  /\ ~InHandler(c) /\ (h = "tick" => ~HoldsSome(c))
  /\ routine[c] # <<>>
  /\ handler' = [handler EXCEPT ![c] = Handler(h)]
  /\ UNCHANGED <<holder, routine, pendingIpi, ipi_target, ipi_received>>

LocksNext ==
  \E c \in LockCPUs :
    \/ \E r \in Routines : Call(c, r)
    \/ RunUnlocked(c) \/ AcquireLock(c) \/ ReleaseLock(c)
    \/ unsafe_propagate_to_cpu(c) \/ ipi_flush_tlb_handler(c)
    \/ \E h \in {"tick", "com"} : generic_interrupt_handler(c, h)

LocksSpec == LocksInit /\ [][LocksNext]_lockVars

-----------------------------------------------------------------------------

\* c cannot go on before d does: d has the lock c spins on, or c has sent d
\* an IPI that d, with its interrupts off, does not take.
WaitsFor(c, d) ==
  \/ NextOp(c).op = "acquire" /\ holder[NextOp(c).lock].cpu = d /\ c # d
  \/ NextOp(c).op = "propagate" /\ ipi_target = d /\ d \in pendingIpi /\ InHandler(d)

(* "If we try to acquire the heap spinlock with interrupts off, we might    *)
(* run into a deadlock where one CPU is waiting on the lock with interrupts *)
(* off and the other is waiting to deliver a flush TLB IPI" (kalloc): no    *)
(* set of CPUs ever waits for locks and acknowledgements in a circle.       *)
NoCircularWait ==
  ~ \E S \in SUBSET LockCPUs : S # {} /\ \A c \in S : \E d \in S : WaitsFor(c, d)

(* An acknowledgement is never taken for that of an earlier IPI: when the   *)
(* flag is set, the CPU that was asked last has flushed.                    *)
AcknowledgedByTarget ==
  ipi_received => ipi_target \notin pendingIpi

==============================================================================
