------------------------------ MODULE Scheduler ------------------------------
(***************************************************************************)
(* The global scheduler, kernel/arch/i386/scheduler.c, with the part of    *)
(* the timer interrupt that preempts (kernel/arch/i386/interrupts.c).      *)
(*                                                                         *)
(* Everything the scheduler owns is protected by global_scheduler_lock,    *)
(* and the lock is handed over through a thread switch: the side that is   *)
(* switched to releases what the side that was left acquired.  One action  *)
(* here is one such critical section, from acquire to release, on CPU c.   *)
(* That the lock excludes is what module Spinlock shows; what an interrupt *)
(* taken inside the critical section may do is the subject of SchedIrq.    *)
(***************************************************************************)
EXTENDS Integers, Sequences, FiniteSets

CONSTANTS
  CPUs,        \* the CPUs; CPU c also names c's scheduler thread
  BootCPU,     \* the CPU that counts ticks
  Threads,     \* the other struct thread objects that may ever be created
  BootQueue,   \* the kernel threads scheduled at boot, kernel_main the last
  Procs,       \* the user processes that may ever be created (their PIDs)
  Kernel,      \* kernel_process, PID_KERNEL
  Conds,       \* the thread_cond objects
  ThreadPids,  \* the PIDs passed to schedule_thread
  Statuses,    \* the values passed to proc_exit
  NoStatus,    \* -ENOSTATUS
  MaxSleep,    \* the longest thread_sleep, in ticks
  None         \* NULL

ASSUME SchedulerAssumption ==
  /\ BootCPU \in CPUs /\ CPUs \cap Threads = {}
  /\ Kernel \notin Procs /\ ThreadPids \subseteq Procs \cup {Kernel}
  /\ None \notin CPUs \cup Threads \cup Procs \cup Conds \cup {Kernel}
  /\ IsFiniteSet(Threads)
  /\ NoStatus \notin Statuses
  /\ MaxSleep \in Nat

ASSUME BootAssumption ==
  /\ BootQueue \in Seq(Threads)
  /\ \A i, j \in 1..Len(BootQueue) : BootQueue[i] = BootQueue[j] => i = j

VARIABLES
  queue,        \* the thread queue, head first
  tstate,       \* thread->state; "FREED" after thread_free
  tproc,        \* the process whose thread list holds the thread, or None
  cond,         \* thread->cond
  frame,        \* the function the thread is switched out in, where it matters
  collected,    \* thread->collected_pid and collected_status, or None
  sleep_left,   \* thread->sleep_until - current_ticks, not below -1
  num_waiting,  \* cond->num_waiting
  pstate,       \* proc->state; "NONE" before schedule_proc
  parent,       \* proc->parent
  exit_status,  \* proc->exit_status
  born,         \* when an object was put on its list (see WalkedBefore)
  births,       \* how many list insertions there were
  cthread,      \* cpu->thread
  cpustate,     \* how far the CPU is in enter_scheduler
  returned      \* history: how many proc_wait calls returned this PID

threadVars == <<tstate, tproc, cond, frame, collected, sleep_left, num_waiting>>
procVars == <<pstate, parent, exit_status, returned>>
listVars == <<born, births>>
cpuVars == <<cthread, cpustate>>
vars == <<queue, threadVars, procVars, listVars, cpuVars>>

AllThreads == Threads \cup CPUs
AllProcs == Procs \cup {Kernel}

ThreadStates == {"NEW", "SCHEDULER", "READY", "RUNNING", "WAITING", "BLOCKED",
                 "SLEEPING", "EXITED", "FREED"}
ProcStates == {"NONE", "READY", "EXITING", "DEFUNCT", "TRUNCATE"}
Exits == Statuses \cup {NoStatus}

-----------------------------------------------------------------------------
(* Lists.  LIST_INSERT_HEAD is the only insertion into the process list and *)
(* the thread lists, so LIST_FOREACH meets the youngest entry first.        *)

ThreadsOf(p) == {t \in AllThreads : tproc[t] = p}

WalkedBefore(t, u) ==
  IF tproc[t] = tproc[u] THEN born[t] > born[u] ELSE born[tproc[t]] > born[tproc[u]]

First(S) == {t \in S : \A u \in S \ {t} : WalkedBefore(t, u)}

\* The order in which LIST_FOREACH meets the members of S.
ListWalks(S) ==
  {w \in UNION {[1..n -> S] : n \in 0..Cardinality(S)} :
     /\ {w[i] : i \in DOMAIN w} = S
     /\ \A i, j \in DOMAIN w : i < j => WalkedBefore(w[i], w[j])}

-----------------------------------------------------------------------------
(* The system as generic_x86_init leaves it when it starts the other CPUs:  *)
(* the first kernel threads are queued and no CPU has entered the scheduler. *)

Booted(t) == \E i \in 1..Len(BootQueue) : BootQueue[i] = t

Init ==
  /\ queue = BootQueue
  /\ tstate = [t \in AllThreads |-> IF Booted(t) THEN "READY" ELSE "NEW"]
  /\ tproc = [t \in AllThreads |-> IF Booted(t) THEN Kernel ELSE None]
  /\ cond = [t \in Threads |-> None]
  /\ frame = [t \in Threads |-> "none"]
  /\ collected = [t \in Threads |-> None]
  /\ sleep_left = [t \in Threads |-> 0]
  /\ num_waiting = [cd \in Conds |-> 0]
  /\ pstate = [p \in AllProcs |-> IF p = Kernel THEN "READY" ELSE "NONE"]
  /\ parent = [p \in AllProcs |-> IF p = Kernel THEN Kernel ELSE None]
  /\ exit_status = [p \in AllProcs |-> NoStatus]
  /\ born = [x \in Threads \cup AllProcs |->
               IF Booted(x) THEN CHOOSE i \in 1..Len(BootQueue) : BootQueue[i] = x ELSE 0]
  /\ births = Len(BootQueue)
  /\ cthread = [c \in CPUs |-> None]
  /\ cpustate = [c \in CPUs |-> "boot"]
  /\ returned = [p \in Procs |-> 0]

-----------------------------------------------------------------------------
(* enter_scheduler up to the loop.                                          *)

\* Mutation: the scheduler thread is queued but not put on the kernel's list.
EnterSchedulerUnlisted(c) ==
  /\ cpustate[c] = "boot"
  /\ cpustate' = [cpustate EXCEPT ![c] = "checkpoint"]
  /\ tstate' = [tstate EXCEPT ![c] = "SCHEDULER"]
  /\ queue' = Append(queue, c)
  /\ UNCHANGED <<tproc, cond, frame, collected, sleep_left, num_waiting, procVars, listVars,
                 cthread>>

\* insert_thread queues the scheduler thread as READY before its state
\* becomes SCHEDULER: the loop has to drop it when it is popped.
EnterScheduler(c) ==
  /\ cpustate[c] = "boot"
  /\ cpustate' = [cpustate EXCEPT ![c] = "checkpoint"]
  /\ tproc' = [tproc EXCEPT ![c] = Kernel]
  /\ tstate' = [tstate EXCEPT ![c] = "SCHEDULER"]
  /\ queue' = Append(queue, c)
  /\ pstate' = [pstate EXCEPT ![Kernel] = "READY"]
  /\ exit_status' = [exit_status EXCEPT ![Kernel] = NoStatus]
  /\ UNCHANGED <<cond, frame, collected, sleep_left, num_waiting, parent, returned,
                 listVars, cthread>>

\* cpu_checkpoint_enter lets nobody pass before every CPU has entered.
PassCheckpoint(c) ==
  /\ cpustate[c] = "checkpoint"
  /\ \A d \in CPUs : cpustate[d] # "boot"
  /\ cpustate' = [cpustate EXCEPT ![c] = "loop"]
  /\ UNCHANGED <<queue, threadVars, procVars, listVars, cthread>>

-----------------------------------------------------------------------------
(* One pass of the scheduler loop of CPU c, by what it finds in the queue.  *)

Popping(c) == cpustate[c] = "loop" /\ cthread[c] = None /\ queue # <<>>

SchedIdle(c) ==
  /\ cpustate[c] = "loop" /\ cthread[c] = None /\ queue = <<>>
  /\ UNCHANGED vars

\* Mutation: no thread is woken.
WakeNobody(p) == {}

\* The threads make_process_defunct wakes for child p.
WaitingFor(p) ==
  IF parent[p] = Kernel
  THEN {}
  ELSE {t \in Threads : tproc[t] = parent[p] /\ tstate[t] = "WAITING"}

\* thread_free of t, then make_process_defunct(p); the queue has lost t already.
make_process_defunct(p, t) ==
  \E woken \in ListWalks(WaitingFor(p)) :
    /\ queue' = Tail(queue) \o woken
    /\ tstate' = [u \in AllThreads |-> IF u = t THEN "FREED"
                                       ELSE IF u \in WaitingFor(p) THEN "READY"
                                       ELSE tstate[u]]
    /\ collected' = [u \in Threads |-> IF u \in WaitingFor(p)
                                       THEN [pid |-> p, status |-> exit_status[p]]
                                       ELSE collected[u]]
    /\ pstate' = [pstate EXCEPT
                    ![p] = IF parent[p] = Kernel \/ WaitingFor(p) # {}
                           THEN "TRUNCATE" ELSE "DEFUNCT"]

\* destroy_thread of a thread that was not the last of its process.
DestroyThread(c) ==
  /\ Popping(c)
  /\ LET t == Head(queue) IN
       /\ tstate[t] = "EXITED"
       /\ ThreadsOf(tproc[t]) # {t}
       /\ tproc' = [tproc EXCEPT ![t] = None]
       /\ tstate' = [tstate EXCEPT ![t] = "FREED"]
  /\ queue' = Tail(queue)
  /\ UNCHANGED <<cond, frame, collected, sleep_left, num_waiting, procVars, listVars,
                 cpuVars>>

\* destroy_thread of the last thread of a process.
DestroyLastThread(c) ==
  /\ Popping(c)
  /\ LET t == Head(queue) IN
       /\ tstate[t] = "EXITED"
       /\ ThreadsOf(tproc[t]) = {t}
       /\ tproc' = [tproc EXCEPT ![t] = None]
       /\ make_process_defunct(tproc[t], t)
  /\ UNCHANGED <<cond, frame, sleep_left, num_waiting, parent, exit_status, returned,
                 listVars, cpuVars>>

\* sleep_until < ticks_get()
SleepOver(t) == sleep_left[t] < 0

KeepSleeping(c) ==
  /\ Popping(c)
  /\ LET t == Head(queue) IN
       /\ tstate[t] = "SLEEPING" /\ ~SleepOver(t)
       /\ queue' = Append(Tail(queue), t)
  /\ UNCHANGED <<threadVars, procVars, listVars, cpuVars>>

\* Switch to a READY thread, or to a sleeper whose time is over, and do what
\* the thread does on its side of the switch before it releases the lock.
RunThread(c) ==
  /\ Popping(c)
  /\ LET t == Head(queue) IN
       /\ tstate[t] = "READY" \/ (tstate[t] = "SLEEPING" /\ SleepOver(t))
       /\ tstate' = [tstate EXCEPT ![t] = "RUNNING"]
       /\ cthread' = [cthread EXCEPT ![c] = t]
       /\ sleep_left' = [sleep_left EXCEPT ![t] = 0]
       /\ frame' = [frame EXCEPT ![t] = "none"]
       /\ cond' = [cond EXCEPT ![t] = None]
       /\ num_waiting' = IF frame[t] = "sched_thread_wait"
                         THEN [num_waiting EXCEPT ![cond[t]] = @ - 1]
                         ELSE num_waiting
       /\ returned' = IF frame[t] = "proc_wait"
                      THEN [returned EXCEPT ![collected[t].pid] = @ + 1]
                      ELSE returned
       /\ collected' = IF frame[t] = "proc_wait"
                       THEN [collected EXCEPT ![t] = None]
                       ELSE collected
  /\ queue' = Tail(queue)
  /\ UNCHANGED <<tproc, pstate, parent, exit_status, listVars, cpustate>>

\* A popped thread in any other state is on no queue afterwards.
DropThread(c) ==
  /\ Popping(c)
  /\ tstate[Head(queue)] \notin {"EXITED", "SLEEPING", "READY"}
  /\ queue' = Tail(queue)
  /\ UNCHANGED <<threadVars, procVars, listVars, cpuVars>>

SchedulerLoop(c) ==
  \/ SchedIdle(c) \/ DestroyThread(c) \/ DestroyLastThread(c)
  \/ KeepSleeping(c) \/ RunThread(c) \/ DropThread(c)

-----------------------------------------------------------------------------
(* What the thread running on CPU c calls.                                  *)

Running(c) == cthread[c] # None
CurrentProc(c) == tproc[cthread[c]]

\* Mutations: a thread waiting for a child is queued too; the queue is a stack;
\* an exited thread is not queued.
RequeuedWaiting(t, s) == IF s = "BLOCKED" THEN queue ELSE Append(queue, t)
RequeuedAtHead(t, s) == IF s \in {"BLOCKED", "WAITING"} THEN queue ELSE <<t>> \o queue
RequeuedNotExited(t, s) ==
  IF s \in {"BLOCKED", "WAITING", "EXITED"} THEN queue ELSE Append(queue, t)

\* Put the thread back on the scheduler's queue.
Requeued(t, s) == IF s \in {"BLOCKED", "WAITING"} THEN queue ELSE Append(queue, t)

\* The thread on c gives up the CPU in state s and c is back in its loop.
reschedule(c, s) ==
  /\ tstate' = [tstate EXCEPT ![cthread[c]] = s]
  /\ queue' = Requeued(cthread[c], s)
  /\ cthread' = [cthread EXCEPT ![c] = None]
  /\ UNCHANGED <<tproc, born, births, parent, cpustate>>

thread_yield(c) ==
  /\ Running(c)
  /\ reschedule(c, "READY")
  /\ UNCHANGED <<cond, frame, collected, num_waiting, pstate, exit_status, returned>>

thread_exit(c) ==
  /\ Running(c)
  /\ reschedule(c, "EXITED")
  /\ UNCHANGED <<cond, frame, collected, num_waiting, pstate, exit_status, returned>>

thread_sleep(c, ticks) ==
  /\ Running(c)
  /\ reschedule(c, "SLEEPING")
  /\ sleep_left' = [sleep_left EXCEPT ![cthread[c]] = ticks]
  /\ UNCHANGED <<cond, frame, collected, num_waiting, pstate, exit_status, returned>>

sched_thread_wait(c, cd) ==
  /\ Running(c)
  /\ reschedule(c, "BLOCKED")
  /\ num_waiting' = [num_waiting EXCEPT ![cd] = @ + 1]
  /\ cond' = [cond EXCEPT ![cthread[c]] = cd]
  /\ frame' = [frame EXCEPT ![cthread[c]] = "sched_thread_wait"]
  /\ UNCHANGED <<collected, sleep_left, pstate, exit_status, returned>>

\* A system call: only a thread of a user process makes it.
proc_exit(c, status) ==
  /\ Running(c) /\ CurrentProc(c) # Kernel
  /\ pstate' = [pstate EXCEPT ![CurrentProc(c)] = "EXITING"]
  /\ exit_status' = [exit_status EXCEPT ![CurrentProc(c)] = status]
  /\ reschedule(c, "EXITED")
  /\ UNCHANGED <<cond, frame, collected, sleep_left, num_waiting, returned>>

\* Mutation: a child is collected in any state.
LiveChildren(p) == {q \in Procs : parent[q] = p /\ pstate[q] # "TRUNCATE"}

DefunctChildren(p) == {q \in Procs : parent[q] = p /\ pstate[q] = "DEFUNCT"}

\* Mutation: the child is not marked as collected.
ProcWaitPeek(c) ==
  /\ Running(c) /\ CurrentProc(c) # Kernel
  /\ \E q \in DefunctChildren(CurrentProc(c)) :
       returned[q] < 2 /\ returned' = [returned EXCEPT ![q] = @ + 1]
  /\ UNCHANGED <<queue, threadVars, pstate, parent, exit_status, listVars, cpuVars>>

\* proc_wait when a child is there to collect: the youngest one is.
ProcWaitCollect(c) ==
  /\ Running(c) /\ CurrentProc(c) # Kernel
  /\ \E q \in DefunctChildren(CurrentProc(c)) :
       /\ \A r \in DefunctChildren(CurrentProc(c)) \ {q} : born[q] > born[r]
       /\ pstate' = [pstate EXCEPT ![q] = "TRUNCATE"]
       /\ returned' = [returned EXCEPT ![q] = @ + 1]
  /\ UNCHANGED <<queue, threadVars, parent, exit_status, listVars, cpuVars>>

\* proc_wait when there is none.
ProcWaitBlock(c) ==
  /\ Running(c) /\ CurrentProc(c) # Kernel
  /\ DefunctChildren(CurrentProc(c)) = {}
  /\ reschedule(c, "WAITING")
  /\ frame' = [frame EXCEPT ![cthread[c]] = "proc_wait"]
  /\ UNCHANGED <<cond, collected, sleep_left, num_waiting, pstate, exit_status, returned>>

\* insert_thread of a new thread t; n is its place among the list insertions.
insert_thread(p, t, n) ==
  /\ tproc' = [tproc EXCEPT ![t] = p]
  /\ tstate' = [tstate EXCEPT ![t] = "READY"]
  /\ queue' = Append(queue, t)
  /\ pstate' = [pstate EXCEPT ![p] = "READY"]
  /\ exit_status' = [exit_status EXCEPT ![p] = NoStatus]
  /\ births' = n
  /\ UNCHANGED <<cond, frame, collected, sleep_left, num_waiting, returned, cpuVars>>

\* exec (from a kernel thread, without a parent) and fork (from a process).
schedule_proc(c, p, t) ==
  /\ Running(c)
  /\ pstate[p] = "NONE" /\ tstate[t] = "NEW"
  /\ parent' = [parent EXCEPT ![p] = CurrentProc(c)]
  /\ born' = [born EXCEPT ![p] = births + 1, ![t] = births + 2]
  /\ insert_thread(p, t, births + 2)

schedule_thread(c, p, t) ==
  /\ Running(c)
  /\ pstate[p] # "NONE" /\ tstate[t] = "NEW"
  /\ born' = [born EXCEPT ![t] = births + 1]
  /\ insert_thread(p, t, births + 1)
  /\ UNCHANGED parent

-----------------------------------------------------------------------------
(* What may run in a thread or in an interrupt handler of CPU c.            *)

\* Mutation: a thread that was notified already is notified again.
AllWaiters(cd) == {t \in Threads : cond[t] = cd}

Waiters(cd) == {t \in Threads : cond[t] = cd /\ tstate[t] = "BLOCKED"}

\* Without a waiter the call changes nothing.
sched_thread_notify_one(c, cd) ==
  /\ cpustate[c] = "loop"
  /\ \E t \in First(Waiters(cd)) :
       /\ tstate' = [tstate EXCEPT ![t] = "READY"]
       /\ queue' = <<t>> \o queue
  /\ UNCHANGED <<tproc, cond, frame, collected, sleep_left, num_waiting, procVars,
                 listVars, cpuVars>>

\* isr_timer counts a tick on the boot CPU only.
isr_timer(c) ==
  sleep_left' = IF c = BootCPU
                THEN [t \in Threads |-> IF tstate[t] = "SLEEPING" /\ sleep_left[t] >= 0
                                        THEN sleep_left[t] - 1 ELSE sleep_left[t]]
                ELSE sleep_left

\* The tick, while preemption is disabled or no thread is running.
TimerTick(c) ==
  /\ cpustate[c] = "loop"
  /\ isr_timer(c)
  /\ UNCHANGED <<queue, tstate, tproc, cond, frame, collected, num_waiting, procVars,
                 listVars, cpuVars>>

\* The tick of a preemptible thread: it leaves the CPU, for good if its
\* process is exiting.
TimerPreempt(c) ==
  /\ Running(c)
  /\ isr_timer(c)
  /\ IF pstate[CurrentProc(c)] = "EXITING" THEN thread_exit(c) ELSE thread_yield(c)

-----------------------------------------------------------------------------

\* Only kernel threads return from their entry function or call thread_exit.
ThreadExit(c) == Running(c) /\ CurrentProc(c) = Kernel /\ thread_exit(c) /\ UNCHANGED sleep_left

CPUStep(c) ==
  \/ EnterScheduler(c) \/ PassCheckpoint(c) \/ SchedulerLoop(c)
  \/ TimerTick(c) \/ TimerPreempt(c)
  \/ ThreadExit(c)
  \/ \E ticks \in 0..MaxSleep : thread_sleep(c, ticks)
  \/ \E cd \in Conds : sched_thread_wait(c, cd)
  \/ \E cd \in Conds : sched_thread_notify_one(c, cd)
  \/ \E status \in Statuses : proc_exit(c, status)
  \/ ProcWaitCollect(c) \/ ProcWaitBlock(c)
  \/ \E p \in Procs, t \in Threads : schedule_proc(c, p, t)
  \/ \E p \in ThreadPids, t \in Threads : schedule_thread(c, p, t)

Next == \E c \in CPUs : CPUStep(c)

(* Every CPU keeps running its loop, gets the lock when it keeps asking for *)
(* it, and is interrupted by its timer for ever; a thread does not keep     *)
(* preemption disabled for ever.  Nothing is assumed of what threads call.  *)
Fairness ==
  \A c \in CPUs : /\ WF_vars(EnterScheduler(c)) /\ WF_vars(PassCheckpoint(c))
                  /\ WF_vars(SchedulerLoop(c)) /\ WF_vars(TimerTick(c))
                  /\ WF_vars(TimerPreempt(c))

Spec == Init /\ [][Next]_vars /\ Fairness

-----------------------------------------------------------------------------
(* Properties.                                                              *)

Collections == [pid : Procs, status : Exits]

(* Every variable has the type of the field it stands for.                  *)
TypeOK ==
  /\ queue \in Seq(AllThreads)
  /\ tstate \in [AllThreads -> ThreadStates]
  /\ tproc \in [AllThreads -> AllProcs \cup {None}]
  /\ cond \in [Threads -> Conds \cup {None}]
  /\ frame \in [Threads -> {"none", "sched_thread_wait", "proc_wait"}]
  /\ collected \in [Threads -> Collections \cup {None}]
  /\ sleep_left \in [Threads -> -1..MaxSleep]
  /\ num_waiting \in [Conds -> Int]
  /\ pstate \in [AllProcs -> ProcStates]
  /\ parent \in [AllProcs -> AllProcs \cup {None}]
  /\ exit_status \in [AllProcs -> Exits]
  /\ born \in [Threads \cup AllProcs -> Nat]
  /\ births \in Nat
  /\ cthread \in [CPUs -> Threads \cup {None}]
  /\ cpustate \in [CPUs -> {"boot", "checkpoint", "loop"}]
  /\ returned \in [Procs -> Nat]

In(t, s) == \E i \in 1..Len(s) : s[i] = t
Distinct(s) == \A i, j \in 1..Len(s) : s[i] = s[j] => i = j
OnCPU(t) == \E c \in CPUs : cthread[c] = t

(* The STAILQ links of a thread are never used twice: no thread is on the   *)
(* queue twice, whichever of the six places of the code inserted it.        *)
QueuedOnce == Distinct(queue)

(* No two CPUs run the same thread, hence the same kernel stack.            *)
RunsOnce == \A c, d \in CPUs : cthread[c] = cthread[d] /\ cthread[c] # None => c = d

(* No thread is lost and none is in two places: the queue holds exactly the *)
(* threads the loop still has to run, wake or free, and the CPUs exactly    *)
(* the RUNNING ones, across preemption, sleeping, blocking, waiting for a   *)
(* child and being woken by another CPU before the switch is done.          *)
NoThreadLost ==
  \A t \in Threads : /\ In(t, queue) <=> tstate[t] \in {"READY", "SLEEPING", "EXITED"}
                     /\ OnCPU(t) <=> tstate[t] = "RUNNING"

(* The three together: where every thread is.                               *)
Placement == QueuedOnce /\ RunsOnce /\ NoThreadLost

(* kassert(proc != &kernel_process) of destroy_thread: the last thread of   *)
(* the kernel process never exits, because every CPU has inserted its       *)
(* scheduler thread before any thread can run.                              *)
KernelNotDestroyed ==
  \A t \in Threads : tproc[t] = Kernel /\ tstate[t] = "EXITED" => ThreadsOf(Kernel) # {t}

(* A process that can still run has a thread to do it, and a process that   *)
(* is defunct or collected has none left.                                   *)
DefunctWithoutThreads ==
  \A p \in Procs : pstate[p] \in {"READY", "EXITING"} <=> ThreadsOf(p) # {}

(* No child is missed by proc_wait: a thread does not wait for a child      *)
(* while one of its process is already there to be collected.               *)
NoMissedChild ==
  \A p \in Procs : pstate[p] = "DEFUNCT" =>
    \A t \in Threads : tstate[t] = "WAITING" => tproc[t] # parent[p]

(* The two together: what a process leaves when its last thread is gone is  *)
(* there to be collected, and nobody waits for it in vain.                  *)
ProcessesSound == DefunctWithoutThreads /\ NoMissedChild

Collectors(p) ==
  {t \in Threads : /\ frame[t] = "proc_wait" /\ tstate[t] = "READY"
                   /\ collected[t].pid = p}

(* The end of a child reaches its parent exactly once: a collected child    *)
(* has been returned by one proc_wait or is about to be, and the status     *)
(* that call returns is the one given to proc_exit.                         *)
ReturnedOnce ==
  /\ \A p \in Procs :
       IF pstate[p] = "TRUNCATE" /\ parent[p] # Kernel
       THEN \/ returned[p] = 1 /\ Collectors(p) = {}
            \/ returned[p] = 0 /\ \E t \in Threads : Collectors(p) = {t}
       ELSE returned[p] = 0 /\ Collectors(p) = {}
  /\ \A p \in Procs : \A t \in Collectors(p) :
       /\ tproc[t] = parent[p]
       /\ collected[t].status = exit_status[p] /\ exit_status[p] \in Statuses

(* thread_exit and proc_exit do not return (their kpanic): an EXITED thread *)
(* is freed without running again.                                          *)
ExitIsFinal ==
  [][\A t \in Threads : tstate[t] = "EXITED" => tstate'[t] \in {"EXITED", "FREED"}]_vars

ProcRank(s) == CASE s = "NONE" -> 0 [] s = "READY" -> 1 [] s = "EXITING" -> 2
                 [] s = "DEFUNCT" -> 3 [] s = "TRUNCATE" -> 4

(* The states of a process are passed in the order of enum proc_state, and  *)
(* the exit status does not change once the process is exiting.             *)
ProcLifecycle ==
  [][\A p \in Procs : /\ ProcRank(pstate'[p]) >= ProcRank(pstate[p])
                      /\ ProcRank(pstate[p]) >= 2 => exit_status'[p] = exit_status[p]]_vars

Notify == \E c \in CPUs, cd \in Conds : sched_thread_notify_one(c, cd)
NotifiesStop == <>[][~Notify]_vars

(* Round robin: a READY thread gets a CPU and a sleeper does after its      *)
(* time, if threads do not go on being notified for ever: a notified thread *)
(* overtakes the whole queue.                                               *)
ReadyRuns ==
  NotifiesStop => \A t \in Threads : tstate[t] \in {"READY", "SLEEPING"} ~> tstate[t] = "RUNNING"

(* An exiting process does become defunct, and a thread waiting for it is   *)
(* told.                                                                    *)
ExitCompletes ==
  NotifiesStop =>
    \A p \in Procs : /\ pstate[p] = "EXITING" ~> pstate[p] \in {"DEFUNCT", "TRUNCATE"}
                     /\ \A t \in Threads :
                          (pstate[p] = "EXITING" /\ tstate[t] = "WAITING" /\ tproc[t] = parent[p])
                            ~> tstate[t] = "RUNNING"

=============================================================================
