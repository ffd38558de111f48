----------------------------- MODULE ThreadLock -----------------------------
(***************************************************************************)
(* thread_mutex and thread_cond, kernel/arch/i386/thread_lock.c, on top of *)
(* sched_thread_wait and sched_thread_notify_one (scheduler.c): one mutex, *)
(* one condition used with it, and the threads that use them.              *)
(*                                                                         *)
(* Two locks are nested: the mutex's own spinlock, and the scheduler's,    *)
(* which sched_thread_wait takes before it gives the first one up.  Both   *)
(* are spinlocks (module Spinlock), so each is here the thread that holds  *)
(* it.  Which of several waiters a notify wakes is the order of the        *)
(* scheduler's lists (module Scheduler); here it is any of them.           *)
(***************************************************************************)
EXTENDS Integers, FiniteSets

CONSTANTS
  Threads,
  None       \* TID_INVALID, NULL

ASSUME ThreadLockAssumption == None \notin Threads

VARIABLES
  locked, tid,    \* mutex->locked, mutex->tid
  spinlock,       \* the holder of mutex->spinlock
  global_lock,    \* the holder of global_scheduler_lock
  tstate,         \* thread->state: "RUNNING", "BLOCKED", or "READY" once notified
  cond,           \* thread->cond: "wait_cond" of the mutex, "cond", or None
  pc,             \* the next step of the thread
  call            \* the call the thread is in

vars == <<locked, tid, spinlock, global_lock, tstate, cond, pc, call>>

Calls == {"acquire", "release", "cond_wait"}
Pcs == {"out", "own", "lock_spin", "check", "release", "notify", "wait_global", "unspin",
        "block", "blocked", "unlock_spin"}

Init ==
  /\ locked = FALSE /\ tid = None
  /\ spinlock = None /\ global_lock = None
  /\ tstate = [t \in Threads |-> "RUNNING"]
  /\ cond = [t \in Threads |-> None]
  /\ pc = [t \in Threads |-> "out"]
  /\ call = [t \in Threads |-> "acquire"]

Goto(t, l) == pc' = [pc EXCEPT ![t] = l]

-----------------------------------------------------------------------------
(* The calls.  A thread acquires a mutex it does not hold, and releases it  *)
(* or waits with it when it does: anything else is a kpanic.                *)

thread_mutex_acquire(t) ==
  /\ pc[t] = "out"
  /\ call' = [call EXCEPT ![t] = "acquire"] /\ Goto(t, "lock_spin")
  /\ UNCHANGED <<locked, tid, spinlock, global_lock, tstate, cond>>

thread_mutex_release(t) ==
  /\ pc[t] = "own"
  /\ call' = [call EXCEPT ![t] = "release"] /\ Goto(t, "lock_spin")
  /\ UNCHANGED <<locked, tid, spinlock, global_lock, tstate, cond>>

thread_cond_wait(t) ==
  /\ pc[t] = "own"
  /\ call' = [call EXCEPT ![t] = "cond_wait"] /\ Goto(t, "lock_spin")
  /\ UNCHANGED <<locked, tid, spinlock, global_lock, tstate, cond>>

\* cpu_spinlock_acquire(&(mutex->spinlock)); push_no_interrupts()
LockSpin(t) ==
  /\ pc[t] = "lock_spin" /\ spinlock = None
  /\ spinlock' = t
  /\ Goto(t, IF call[t] = "acquire" THEN "check" ELSE "release")
  /\ UNCHANGED <<locked, tid, global_lock, tstate, cond, call>>

\* pop_no_interrupts(); cpu_spinlock_release(&(mutex->spinlock))
UnlockSpin(t) ==
  /\ pc[t] = "unlock_spin"
  /\ spinlock' = None
  /\ Goto(t, IF call[t] = "acquire" THEN "own" ELSE "out")
  /\ UNCHANGED <<locked, tid, global_lock, tstate, cond, call>>

\* Mutation: the loop is not a loop.
MutexAcquireUnchecked(t) ==
  /\ pc[t] = "check"
  /\ Goto(t, "unlock_spin") /\ locked' = TRUE /\ tid' = t
  /\ UNCHANGED <<spinlock, global_lock, tstate, cond, call>>

\* unsafe_mutex_acquire: one round of its loop, and what follows the loop.
unsafe_mutex_acquire(t) ==
  /\ pc[t] = "check"
  /\ IF locked
       THEN Goto(t, "wait_global") /\ UNCHANGED <<locked, tid>>
       ELSE Goto(t, "unlock_spin") /\ locked' = TRUE /\ tid' = t
  /\ UNCHANGED <<spinlock, global_lock, tstate, cond, call>>

unsafe_mutex_release(t) ==
  /\ pc[t] = "release"
  /\ locked' = FALSE /\ tid' = None
  /\ Goto(t, "notify")
  /\ UNCHANGED <<spinlock, global_lock, tstate, cond, call>>

-----------------------------------------------------------------------------
(* The scheduler's part.                                                    *)

Waiters(cd) == {u \in Threads : cond[u] = cd /\ tstate[u] = "BLOCKED"}

\* sched_thread_notify_one, a critical section of the global lock.
sched_thread_notify_one(cd) ==
  /\ global_lock = None
  /\ \/ Waiters(cd) = {} /\ UNCHANGED tstate
     \/ \E u \in Waiters(cd) : tstate' = [tstate EXCEPT ![u] = "READY"]

\* Mutation: the other condition is notified.
NotifyOther(t) ==
  /\ pc[t] = "notify"
  /\ sched_thread_notify_one("cond")
  /\ Goto(t, IF call[t] = "cond_wait" THEN "wait_global" ELSE "unlock_spin")
  /\ UNCHANGED <<locked, tid, spinlock, global_lock, cond, call>>

\* The mutex is free: one of the threads that wait for it is woken.
NotifyMutex(t) ==
  /\ pc[t] = "notify"
  /\ sched_thread_notify_one("wait_cond")
  /\ Goto(t, IF call[t] = "cond_wait" THEN "wait_global" ELSE "unlock_spin")
  /\ UNCHANGED <<locked, tid, spinlock, global_lock, cond, call>>

\* thread_cond_notify, by a thread that may hold the mutex or not, or by an
\* interrupt handler.
thread_cond_notify ==
  /\ sched_thread_notify_one("cond")
  /\ UNCHANGED <<locked, tid, spinlock, global_lock, cond, pc, call>>

\* Mutation: the spinlock is released outside the global lock.
WaitUnlocked(t) ==
  /\ pc[t] = "wait_global"
  /\ spinlock' = None /\ Goto(t, "block")
  /\ UNCHANGED <<locked, tid, global_lock, tstate, cond, call>>

\* sched_thread_wait: the global lock is acquired before the spinlock is
\* released, and the scheduler loop releases it once the thread is blocked.
WaitGlobal(t) ==
  /\ pc[t] = "wait_global" /\ global_lock = None
  /\ global_lock' = t /\ Goto(t, "unspin")
  /\ UNCHANGED <<locked, tid, spinlock, tstate, cond, call>>

WaitUnspin(t) ==
  /\ pc[t] = "unspin"
  /\ spinlock' = None /\ Goto(t, "block")
  /\ UNCHANGED <<locked, tid, global_lock, tstate, cond, call>>

Block(t) ==
  /\ pc[t] = "block"
  /\ tstate' = [tstate EXCEPT ![t] = "BLOCKED"]
  /\ cond' = [cond EXCEPT ![t] = IF call[t] = "cond_wait" THEN "cond" ELSE "wait_cond"]
  /\ global_lock' = None /\ Goto(t, "blocked")
  /\ UNCHANGED <<locked, tid, spinlock, call>>

\* The thread is switched to with the global lock and releases it; it then
\* waits for the spinlock, and for the mutex as thread_mutex_acquire does.
Resume(t) ==
  /\ pc[t] = "blocked" /\ tstate[t] = "READY" /\ global_lock = None
  /\ tstate' = [tstate EXCEPT ![t] = "RUNNING"]
  /\ cond' = [cond EXCEPT ![t] = None]
  /\ call' = [call EXCEPT ![t] = "acquire"]
  /\ Goto(t, "lock_spin")
  /\ UNCHANGED <<locked, tid, spinlock, global_lock>>

-----------------------------------------------------------------------------

\* What a thread does once it has called.
Step(t) ==
  \/ LockSpin(t) \/ UnlockSpin(t) \/ unsafe_mutex_acquire(t) \/ unsafe_mutex_release(t)
  \/ NotifyMutex(t) \/ WaitGlobal(t) \/ WaitUnspin(t) \/ Block(t) \/ Resume(t)

GiveUp(t) == thread_mutex_release(t) \/ thread_cond_wait(t)

Next ==
  \/ \E t \in Threads : thread_mutex_acquire(t) \/ GiveUp(t) \/ Step(t)
  \/ thread_cond_notify

\* Threads that are READY run (module Scheduler), and a thread that holds the
\* mutex gives it up.
Spec == Init /\ [][Next]_vars /\ \A t \in Threads : WF_vars(Step(t)) /\ WF_vars(GiveUp(t))

-----------------------------------------------------------------------------

(* Every variable has its type.                                             *)
TypeOK ==
  /\ locked \in BOOLEAN
  /\ {tid, spinlock, global_lock} \subseteq Threads \cup {None}
  /\ tstate \in [Threads -> {"RUNNING", "BLOCKED", "READY"}]
  /\ cond \in [Threads -> {"wait_cond", "cond", None}]
  /\ pc \in [Threads -> Pcs]
  /\ call \in [Threads -> Calls]

\* A thread that was woken because the mutex was free, and has not looked at it yet.
OnItsWay(t) ==
  \/ /\ pc[t] = "blocked" /\ tstate[t] = "READY" /\ cond[t] = "wait_cond"
  \/ /\ pc[t] \in {"lock_spin", "check"} /\ call[t] = "acquire"

(* No wakeup is lost: while a thread is blocked on the mutex, the mutex is  *)
(* held, or its last holder has yet to notify, or somebody is about to take *)
(* it and will notify when it is done (thread_mutex_release,                *)
(* sched_thread_wait).                                                      *)
NoLostWakeup ==
  Waiters("wait_cond") # {} => locked \/ \E t \in Threads : pc[t] = "notify" \/ OnItsWay(t)

\* The thread in thread_cond_wait that no longer holds the mutex, and that
\* nobody else can see without it: it still has the spinlock.
GivingUp(t) == call[t] = "cond_wait" /\ pc[t] \in {"notify", "wait_global", "unspin"}

Owner ==
  IF \E t \in Threads : GivingUp(t) THEN CHOOSE t \in Threads : GivingUp(t) ELSE tid

Waiting ==
  {t \in Threads : /\ call[t] = "cond_wait"
                   /\ pc[t] = "block" \/ (pc[t] = "blocked" /\ tstate[t] = "BLOCKED")}

Mon == INSTANCE Monitor WITH owner <- Owner, waiting <- Waiting

(* The mutex and the condition are a monitor.  In particular a thread in    *)
(* thread_cond_wait counts as waiting from the moment another thread can    *)
(* own the mutex, although it is blocked two steps later.                   *)
ImplementsMonitor == Mon!MonitorSpec

\* In a call that ends with the mutex held.
Wants(t) == call[t] = "acquire" /\ pc[t] \notin {"out", "own"}

(* When some thread wants the mutex, some thread gets it.                   *)
SomebodyOwns == (\E t \in Threads : Wants(t)) ~> (\E t \in Threads : pc[t] = "own")

=============================================================================
