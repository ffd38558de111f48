------------------------------ MODULE Spinlock ------------------------------
(***************************************************************************)
(* A recursive CPU spinlock, kernel/arch/i386/cpu/spinlock.c, on the       *)
(* interrupt and preemption counters of kernel/arch/i386/cpu/cpu.c.        *)
(*                                                                         *)
(* Every CPU runs a thread and, when interrupts are enabled, an interrupt  *)
(* handler on top of it; both use the same lock.  A step makes at most one *)
(* access to the fields of the lock, which all CPUs share; the counters    *)
(* belong to one CPU and are only touched with its interrupts disabled, so *)
(* push_no_interrupts and its kin are one step each.                       *)
(***************************************************************************)
EXTENDS Integers

CONSTANTS
  CPUs,
  NoCPU,     \* CPU_SPINLOCK_INVALID_CPU
  MaxDepth   \* how often one context may hold the lock at a time

ASSUME SpinlockAssumption == NoCPU \notin CPUs /\ MaxDepth \in Nat \ {0}

VARIABLES
  locked, num, cpu,   \* the fields of struct cpu_spinlock
  if_flag,            \* EFLAGS_IF of each CPU
  int_enabled,        \* cpu->int_enabled
  cli_stack,          \* cpu->cli_stack
  preempt_disabled,   \* cpu->preempt_disabled
  in_irq,             \* is an interrupt handler running on the CPU?
  pc,                 \* where each context of the CPU is in the lock's code
  eflags,             \* the local variable of cpu_spinlock_acquire
  depth               \* how often each context holds the lock

lockVars == <<locked, num, cpu>>
intVars == <<if_flag, int_enabled, cli_stack>>
vars == <<lockVars, intVars, preempt_disabled, in_irq, pc, eflags, depth>>

Contexts == {"thread", "irq"}

\* The statement a context executes next; "out" is the caller's code.
Acquiring == {"acq_push", "acq_locked", "acq_cpu", "acq_nest", "acq_xchg", "acq_relax",
              "acq_num", "acq_owner", "acq_pop"}
Releasing == {"rel_num", "rel_owner", "rel_unlock", "rel_pop", "rel_preempt"}

\* Threads run with interrupts enabled, or disabled by their own
\* push_no_interrupts (as proc_exit does).
Init ==
  /\ locked = 0 /\ num = 0 /\ cpu = NoCPU
  /\ cli_stack \in [CPUs -> {0, 1}]
  /\ if_flag = [c \in CPUs |-> cli_stack[c] = 0]
  /\ int_enabled = [c \in CPUs |-> TRUE]
  /\ preempt_disabled = [c \in CPUs |-> 0]
  /\ in_irq = [c \in CPUs |-> FALSE]
  /\ pc = [c \in CPUs |-> [x \in Contexts |-> "out"]]
  /\ eflags = [c \in CPUs |-> [x \in Contexts |-> FALSE]]
  /\ depth = [c \in CPUs |-> [x \in Contexts |-> 0]]

-----------------------------------------------------------------------------
(* cpu.c                                                                    *)

push_no_interrupts(c) ==
  /\ if_flag' = [if_flag EXCEPT ![c] = FALSE]
  /\ int_enabled' = [int_enabled EXCEPT ![c] = IF cli_stack[c] = 0 THEN if_flag[c] ELSE @]
  /\ cli_stack' = [cli_stack EXCEPT ![c] = @ + 1]

\* Mutation: the level at which interrupts were disabled first is forgotten.
pop_no_interruptsEager(c) ==
  /\ cli_stack' = [cli_stack EXCEPT ![c] = @ - 1]
  /\ if_flag' = [if_flag EXCEPT ![c] = int_enabled[c]]
  /\ UNCHANGED int_enabled

pop_no_interrupts(c) ==
  /\ cli_stack' = [cli_stack EXCEPT ![c] = @ - 1]
  /\ if_flag' = [if_flag EXCEPT ![c] = @ \/ (cli_stack[c] = 1 /\ int_enabled[c])]
  /\ UNCHANGED int_enabled

\* What a push and the matching pop leave: int_enabled may have been written.
PushPop(c) ==
  /\ int_enabled' = [int_enabled EXCEPT ![c] = IF cli_stack[c] = 0 THEN if_flag[c] ELSE @]
  /\ UNCHANGED <<if_flag, cli_stack>>

preempt_disable(c) ==
  preempt_disabled' = [preempt_disabled EXCEPT ![c] = @ + 1] /\ PushPop(c)

preempt_enable(c) ==
  preempt_disabled' = [preempt_disabled EXCEPT ![c] = @ - 1] /\ PushPop(c)

-----------------------------------------------------------------------------

Current(c) == IF in_irq[c] THEN "irq" ELSE "thread"

At(c, x, l) == x = Current(c) /\ pc[c][x] = l
Goto(c, x, l) == pc' = [pc EXCEPT ![c][x] = l]

(* cpu_spinlock_acquire *)

AcqStart(c, x) ==
  /\ At(c, x, "out") /\ depth[c][x] < MaxDepth
  /\ eflags' = [eflags EXCEPT ![c][x] = if_flag[c]]
  /\ preempt_disable(c)
  /\ Goto(c, x, "acq_push")
  /\ UNCHANGED <<lockVars, in_irq, depth>>

AcqPush(c, x) ==
  /\ At(c, x, "acq_push")
  /\ push_no_interrupts(c)
  /\ Goto(c, x, "acq_locked")
  /\ UNCHANGED <<lockVars, preempt_disabled, in_irq, eflags, depth>>

\* cpu_spinlock_held reads two fields that another CPU may be writing.
AcqReadLocked(c, x) ==
  /\ At(c, x, "acq_locked")
  /\ Goto(c, x, IF locked = 1 THEN "acq_cpu" ELSE "acq_xchg")
  /\ UNCHANGED <<lockVars, intVars, preempt_disabled, in_irq, eflags, depth>>

AcqReadCpu(c, x) ==
  /\ At(c, x, "acq_cpu")
  /\ Goto(c, x, IF cpu = c THEN "acq_nest" ELSE "acq_xchg")
  /\ UNCHANGED <<lockVars, intVars, preempt_disabled, in_irq, eflags, depth>>

AcqNest(c, x) ==
  /\ At(c, x, "acq_nest")
  /\ num' = num + 1
  /\ Goto(c, x, "acq_pop")
  /\ UNCHANGED <<locked, cpu, intVars, preempt_disabled, in_irq, eflags, depth>>

\* The exchange of spin_interruptible and spin_uninterruptible; only the
\* former enables interrupts between two attempts.
AcqXchg(c, x) ==
  /\ At(c, x, "acq_xchg")
  /\ locked' = 1
  /\ IF locked = 0
     THEN Goto(c, x, "acq_num") /\ UNCHANGED if_flag
     ELSE IF eflags[c][x]
     THEN Goto(c, x, "acq_relax") /\ if_flag' = [if_flag EXCEPT ![c] = TRUE]
     ELSE UNCHANGED <<pc, if_flag>>
  /\ UNCHANGED <<num, cpu, int_enabled, cli_stack, preempt_disabled, in_irq, eflags, depth>>

\* Mutation: interrupts are still enabled at the next attempt.
AcqRelaxOpen(c, x) ==
  /\ At(c, x, "acq_relax")
  /\ Goto(c, x, "acq_xchg")
  /\ UNCHANGED <<lockVars, intVars, preempt_disabled, in_irq, eflags, depth>>

AcqRelax(c, x) ==
  /\ At(c, x, "acq_relax")
  /\ if_flag' = [if_flag EXCEPT ![c] = FALSE]
  /\ Goto(c, x, "acq_xchg")
  /\ UNCHANGED <<lockVars, int_enabled, cli_stack, preempt_disabled, in_irq, eflags, depth>>

AcqSetNum(c, x) ==
  /\ At(c, x, "acq_num")
  /\ num' = 1
  /\ Goto(c, x, "acq_owner")
  /\ UNCHANGED <<locked, cpu, intVars, preempt_disabled, in_irq, eflags, depth>>

AcqSetCpu(c, x) ==
  /\ At(c, x, "acq_owner")
  /\ cpu' = c
  /\ Goto(c, x, "acq_pop")
  /\ UNCHANGED <<locked, num, intVars, preempt_disabled, in_irq, eflags, depth>>

AcqPop(c, x) ==
  /\ At(c, x, "acq_pop")
  /\ pop_no_interrupts(c)
  /\ depth' = [depth EXCEPT ![c][x] = @ + 1]
  /\ Goto(c, x, "out")
  /\ UNCHANGED <<lockVars, preempt_disabled, in_irq, eflags>>

(* cpu_spinlock_release *)

RelStart(c, x) ==
  /\ At(c, x, "out") /\ depth[c][x] > 0
  /\ push_no_interrupts(c)
  /\ depth' = [depth EXCEPT ![c][x] = @ - 1]
  /\ Goto(c, x, "rel_num")
  /\ UNCHANGED <<lockVars, preempt_disabled, in_irq, eflags>>

\* Mutation: the lock is given up whatever its nesting.
RelAll(c, x) ==
  /\ At(c, x, "rel_num")
  /\ num' = num - 1
  /\ Goto(c, x, "rel_owner")
  /\ UNCHANGED <<locked, cpu, intVars, preempt_disabled, in_irq, eflags, depth>>

RelDecrement(c, x) ==
  /\ At(c, x, "rel_num")
  /\ num' = num - 1
  /\ Goto(c, x, IF num - 1 > 0 THEN "rel_pop" ELSE "rel_owner")
  /\ UNCHANGED <<locked, cpu, intVars, preempt_disabled, in_irq, eflags, depth>>

\* Mutation: the owner is left in the lock.
RelKeepCpu(c, x) ==
  /\ At(c, x, "rel_owner")
  /\ Goto(c, x, "rel_unlock")
  /\ UNCHANGED <<lockVars, intVars, preempt_disabled, in_irq, eflags, depth>>

RelClearCpu(c, x) ==
  /\ At(c, x, "rel_owner")
  /\ cpu' = NoCPU
  /\ Goto(c, x, "rel_unlock")
  /\ UNCHANGED <<locked, num, intVars, preempt_disabled, in_irq, eflags, depth>>

\* Mutation: the lock stays locked.
RelForget(c, x) ==
  /\ At(c, x, "rel_unlock")
  /\ Goto(c, x, "rel_pop")
  /\ UNCHANGED <<lockVars, intVars, preempt_disabled, in_irq, eflags, depth>>

RelUnlock(c, x) ==
  /\ At(c, x, "rel_unlock")
  /\ locked' = 0
  /\ Goto(c, x, "rel_pop")
  /\ UNCHANGED <<num, cpu, intVars, preempt_disabled, in_irq, eflags, depth>>

RelPop(c, x) ==
  /\ At(c, x, "rel_pop")
  /\ pop_no_interrupts(c)
  /\ Goto(c, x, "rel_preempt")
  /\ UNCHANGED <<lockVars, preempt_disabled, in_irq, eflags, depth>>

RelPreempt(c, x) ==
  /\ At(c, x, "rel_preempt")
  /\ preempt_enable(c)
  /\ Goto(c, x, "out")
  /\ UNCHANGED <<lockVars, in_irq, eflags, depth>>

-----------------------------------------------------------------------------
(* All gates but the system call's are interrupt gates: a handler starts    *)
(* with interrupts disabled and iret enables them again.                    *)

Interrupt(c) ==
  /\ if_flag[c]
  /\ in_irq' = [in_irq EXCEPT ![c] = TRUE]
  /\ if_flag' = [if_flag EXCEPT ![c] = FALSE]
  /\ UNCHANGED <<lockVars, int_enabled, cli_stack, preempt_disabled, pc, eflags, depth>>

InterruptReturn(c) ==
  /\ in_irq[c] /\ pc[c]["irq"] = "out" /\ depth[c]["irq"] = 0
  /\ in_irq' = [in_irq EXCEPT ![c] = FALSE]
  /\ if_flag' = [if_flag EXCEPT ![c] = TRUE]
  /\ UNCHANGED <<lockVars, int_enabled, cli_stack, preempt_disabled, pc, eflags, depth>>

Acquire(c, x) ==
  \/ AcqPush(c, x) \/ AcqReadLocked(c, x) \/ AcqReadCpu(c, x) \/ AcqNest(c, x)
  \/ AcqXchg(c, x) \/ AcqRelax(c, x) \/ AcqSetNum(c, x) \/ AcqSetCpu(c, x) \/ AcqPop(c, x)

Release(c, x) ==
  \/ RelStart(c, x) \/ RelDecrement(c, x) \/ RelClearCpu(c, x) \/ RelUnlock(c, x)
  \/ RelPop(c, x) \/ RelPreempt(c, x)

Next ==
  \E c \in CPUs :
    \/ \E x \in Contexts : AcqStart(c, x) \/ Acquire(c, x) \/ Release(c, x)
    \/ Interrupt(c) \/ InterruptReturn(c)


(* A CPU goes on executing, also between interrupts; who holds the lock     *)
(* releases it, and a handler returns.  Whether a CPU ever gets the lock is *)
(* not assumed: the exchange is not fair.                                   *)
Fairness ==
  \A c \in CPUs :
    /\ \A x \in Contexts : SF_vars(Acquire(c, x)) /\ SF_vars(Release(c, x))
    /\ WF_vars(InterruptReturn(c))

Spec == Init /\ [][Next]_vars /\ Fairness

-----------------------------------------------------------------------------

(* Every variable has its type; interrupt handlers do not nest.             *)
TypeOK ==
  /\ locked \in {0, 1} /\ num \in Int /\ cpu \in CPUs \cup {NoCPU}
  /\ if_flag \in [CPUs -> BOOLEAN] /\ int_enabled \in [CPUs -> BOOLEAN]
  /\ cli_stack \in [CPUs -> Int] /\ preempt_disabled \in [CPUs -> Int]
  /\ in_irq \in [CPUs -> BOOLEAN]
  /\ pc \in [CPUs -> [Contexts -> Acquiring \cup Releasing \cup {"out"}]]
  /\ eflags \in [CPUs -> [Contexts -> BOOLEAN]]
  /\ depth \in [CPUs -> [Contexts -> Int]]

Holds(c) == \E x \in Contexts : depth[c][x] > 0

(* Two CPUs never hold the lock, however their threads and handlers nest    *)
(* the acquisitions.                                                        *)
MutualExclusion == \A c, d \in CPUs : Holds(c) /\ Holds(d) => c = d

(* None of the panics of spinlock.c and cpu.c is reached: pop_no_interrupts *)
(* is called with interrupts disabled and a push to match, a release finds  *)
(* the lock held by its CPU, and preempt_enable does not underflow.         *)
NoPanic ==
  \A c \in CPUs : LET at == pc[c][Current(c)] IN
    /\ at \in {"acq_pop", "rel_pop"} => ~if_flag[c] /\ cli_stack[c] >= 1
    /\ at = "rel_num" => locked = 1 /\ cpu = c /\ num >= 1
    /\ at = "rel_preempt" => preempt_disabled[c] >= 1

(* The nesting survives the interrupts: outside the lock's code interrupts  *)
(* are what the caller had made them, a handler is never interrupted, and   *)
(* preemption is disabled exactly as often as the lock is held.             *)
InterruptsRestored ==
  \A c \in CPUs :
    /\ in_irq[c] => ~if_flag[c]
    /\ ~in_irq[c] /\ pc[c]["thread"] = "out" =>
         /\ cli_stack[c] \in {0, 1} /\ if_flag[c] = (cli_stack[c] = 0)
         /\ preempt_disabled[c] = depth[c]["thread"]

(* A handler never spins for the lock its own CPU has: the handler can only *)
(* interrupt a holder that has written its number into the lock.            *)
NoSelfWait ==
  \A c \in CPUs : in_irq[c] /\ pc[c]["irq"] \in {"acq_xchg", "acq_relax"} =>
    depth[c]["thread"] = 0 /\ pc[c]["thread"] \in {"out", "acq_push", "acq_relax", "rel_preempt"}

(* Whoever wants the lock, somebody gets it.                                *)
SomebodyGetsIt ==
  (\E c \in CPUs, x \in Contexts : pc[c][x] \in Acquiring) ~> (\E c \in CPUs : Holds(c))

=============================================================================
