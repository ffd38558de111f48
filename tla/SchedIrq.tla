------------------------------ MODULE SchedIrq ------------------------------
(***************************************************************************)
(* The critical section of the scheduler loop, kernel/arch/i386/           *)
(* scheduler.c, with an interrupt taken inside it.                         *)
(*                                                                         *)
(* cpu_spinlock_acquire leaves interrupts as it found them (Spinlock), and *)
(* the loop calls it with interrupts enabled.  A handler that notifies a   *)
(* condition, as com_irq_handler does, acquires the lock its own CPU holds *)
(* once more and changes the queue.  The lock keeps the other CPUs out, so *)
(* one CPU is enough; the queue is popped in the two statements the code   *)
(* pops it in, STAILQ_FIRST and STAILQ_REMOVE_HEAD.                        *)
(***************************************************************************)
EXTENDS Integers, Sequences, FiniteSets

CONSTANTS
  Threads,   \* kernel threads; they wait on one condition
  None

VARIABLES
  queue,    \* the thread queue
  tstate,   \* "READY", "RUNNING" or "BLOCKED"
  num,      \* global_scheduler_lock.num: how often this CPU holds it
  if_flag,  \* EFLAGS.IF
  pc,       \* the next statement of the loop, or "thread"
  thread    \* the loop's local variable, then cpu->thread

vars == <<queue, tstate, num, if_flag, pc, thread>>

Init ==
  /\ queue \in {q \in [1..Cardinality(Threads) -> Threads] :
                  \A i, j \in DOMAIN q : q[i] = q[j] => i = j}
  /\ tstate = [t \in Threads |-> "READY"]
  /\ num = 0 /\ if_flag = FALSE /\ pc = "acquire" /\ thread = None

\* Interrupts are enabled, then the lock is acquired.
LoopAcquire ==
  /\ pc = "acquire"
  /\ if_flag' = TRUE
  /\ num' = num + 1 /\ pc' = "first"
  /\ UNCHANGED <<queue, tstate, thread>>

LoopFirst ==
  /\ pc = "first"
  /\ thread' = IF queue = <<>> THEN None ELSE Head(queue)
  /\ pc' = IF queue = <<>> THEN "release" ELSE "remove_head"
  /\ UNCHANGED <<queue, tstate, num, if_flag>>

\* The macro reads the head of the queue again (the kernel is built with -O0).
LoopRemoveHead ==
  /\ pc = "remove_head"
  /\ queue' = Tail(queue)
  /\ pc' = IF tstate[thread] = "READY" THEN "run" ELSE "release"
  /\ UNCHANGED <<tstate, num, if_flag, thread>>

\* The thread releases the lock, and returns to where interrupts are enabled.
LoopRun ==
  /\ pc = "run"
  /\ tstate' = [tstate EXCEPT ![thread] = "RUNNING"]
  /\ num' = num - 1 /\ pc' = "thread"
  /\ UNCHANGED <<queue, if_flag, thread>>

LoopRelease ==
  /\ pc = "release"
  /\ num' = num - 1 /\ pc' = "acquire"
  /\ UNCHANGED <<queue, tstate, if_flag, thread>>

\* thread_yield is called by the timer's handler and sched_thread_wait by the
\* mutexes, both with interrupts disabled.
ThreadGivesUp(s) ==
  /\ pc = "thread"
  /\ tstate' = [tstate EXCEPT ![thread] = s]
  /\ if_flag' = FALSE
  /\ num' = num + 1 /\ pc' = "reschedule"
  /\ UNCHANGED <<queue, thread>>

ThreadYield == ThreadGivesUp("READY")
ThreadWait == ThreadGivesUp("BLOCKED")

\* And back in the loop, restore_interrupts(cpu->scheduler, cpu).
Reschedule ==
  /\ pc = "reschedule"
  /\ queue' = IF tstate[thread] = "BLOCKED" THEN queue ELSE Append(queue, thread)
  /\ if_flag' = TRUE
  /\ pc' = "release"
  /\ UNCHANGED <<tstate, num, thread>>

\* com_irq_handler: sched_thread_notify_one, on whatever the CPU was doing;
\* the nested acquire and release leave the lock as it was.
ComIrq ==
  /\ if_flag
  /\ \E t \in Threads : /\ tstate[t] = "BLOCKED"
                        /\ tstate' = [tstate EXCEPT ![t] = "READY"]
                        /\ queue' = <<t>> \o queue
  /\ UNCHANGED <<num, if_flag, pc, thread>>

Next ==
  \/ LoopAcquire \/ LoopFirst \/ LoopRemoveHead \/ LoopRun \/ LoopRelease
  \/ ThreadYield \/ ThreadWait \/ Reschedule \/ ComIrq

Spec == Init /\ [][Next]_vars

(* "Scheduler lock. This applies to all structures used by the scheduler on *)
(* all CPUs" (scheduler.c): while the lock is not held, a thread is on the  *)
(* queue exactly when it is READY, and once.                                *)
QueueProtected ==
  num = 0 => \A t \in Threads :
    Cardinality({i \in 1..Len(queue) : queue[i] = t}) = IF tstate[t] = "READY" THEN 1 ELSE 0

=============================================================================
