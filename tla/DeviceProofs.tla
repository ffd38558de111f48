---------------------------- MODULE DeviceProofs -----------------------------
(***************************************************************************)
(* Proofs about what files and devices rest on: the mutex and the condition *)
(* that threads wait with (ThreadLock), the way from a path to a device    *)
(* (Mounts), the serial port (Serial) and the output of the C library      *)
(* (Stream), for any number of threads, mounts, devices, bytes and         *)
(* characters.                                                             *)
(***************************************************************************)
EXTENDS ThreadLock, Mounts, Serial, Stream, WellFoundedInduction, TLAPS

\* The time the provers have for a step.
USE ZenonT(60)

-----------------------------------------------------------------------------

Less == {d \in Nat \X Nat : d[1] < d[2]}

(* Naturals do not descend for ever.                                        *)
LEMMA LessWellFounded == IsWellFoundedOn(Less, Nat)
<1>1. IsWellFoundedOn(OpToRel(<, Nat), Nat)
  BY ONLY NatLessThanWellFounded
<1>2. OpToRel(<, Nat) = Less
  BY ONLY ZenonT(60) DEF OpToRel, Less
<1> QED
  BY ONLY <1>1, <1>2

(* Hence a set of numbers that is not empty has a least member.             *)
LEMMA LeastNatural ==
  ASSUME NEW S \in SUBSET Nat, S # {}
  PROVE  \E n \in S : \A m \in S : n <= m
<1>1. PICK n \in S : \A m \in S : ~(<<m, n>> \in Less)
  BY LessWellFounded, WFMin
<1>2. ASSUME NEW m \in S PROVE n <= m
  <2>1. m \in Nat /\ n \in Nat
    OBVIOUS
  <2>2. m < n => <<m, n>> \in Less
    BY <2>1 DEF Less
  <2> QED BY <1>1, <2>1, <2>2, SMTT(30)
<1> QED BY <1>2

-----------------------------------------------------------------------------
(***************************************************************************)
(* ThreadLock.  No wakeup of a mutex is lost, and the mutex with its       *)
(* condition is a monitor, for every set of threads.                       *)
(*                                                                         *)
(* The invariant says which steps hold which of the two spinlocks, who     *)
(* owns the mutex at each of them, and what the scheduler's fields are.    *)
(* A thread on its way to be blocked counts as blocked already: it holds   *)
(* one of the two locks the notifier needs.                                *)
(***************************************************************************)

SpinPcs == {"check", "release", "notify", "wait_global", "unspin", "unlock_spin"}
GlobalPcs == {"unspin", "block"}

Owns(t) ==
  \/ pc[t] \in {"own", "release"}
  \/ pc[t] = "lock_spin" /\ call[t] # "acquire"
  \/ pc[t] = "unlock_spin" /\ call[t] = "acquire"

\* Who holds the two spinlocks and the mutex.
Holders ==
  \A t \in Threads :
    /\ spinlock = t <=> pc[t] \in SpinPcs
    /\ global_lock = t <=> pc[t] \in GlobalPcs
    /\ tid = t <=> Owns(t)
    /\ GivingUp(t) => tid = None

LockedHeld == locked <=> tid # None

\* Which call a step belongs to.
CallSteps ==
  \A t \in Threads :
    /\ pc[t] = "check" => call[t] = "acquire"
    /\ pc[t] \in {"release", "notify"} => call[t] # "acquire"
    /\ pc[t] \in {"wait_global", "unspin", "block", "blocked"} => call[t] # "release"
    /\ pc[t] = "unlock_spin" => call[t] # "cond_wait"

\* What the scheduler knows of a thread.
SchedState ==
  \A t \in Threads :
    /\ tstate[t] # "RUNNING" <=> pc[t] = "blocked"
    /\ pc[t] = "blocked" => cond[t] = IF call[t] = "cond_wait" THEN "cond" ELSE "wait_cond"

\* Blocked on the mutex, or about to be.
Blocking(t) ==
  /\ call[t] = "acquire"
  /\ \/ pc[t] \in {"wait_global", "unspin", "block"}
     \/ pc[t] = "blocked" /\ tstate[t] = "BLOCKED"

WakeupPending ==
  (\E t \in Threads : Blocking(t)) =>
    locked \/ \E t \in Threads : pc[t] = "notify" \/ OnItsWay(t)

IInv == TypeOK /\ Holders /\ LockedHeld /\ CallSteps /\ SchedState /\ WakeupPending

-----------------------------------------------------------------------------

(* The invariant holds initially.                                           *)
LEMMA InitIInv == ThreadLockAssumption /\ Init => IInv
<1> SUFFICES ASSUME ThreadLockAssumption, Init PROVE IInv
  OBVIOUS
<1>1. TypeOK
  BY DEF Init, TypeOK, Pcs, Calls
<1>2. \A t \in Threads : pc[t] = "out" /\ tstate[t] = "RUNNING" /\ None # t
  BY DEF ThreadLockAssumption, Init
<1>3. Holders /\ LockedHeld
  BY <1>2 DEF Init, Holders, LockedHeld, Owns, GivingUp, SpinPcs, GlobalPcs
<1>4. CallSteps /\ SchedState /\ WakeupPending
  BY <1>2 DEF CallSteps, SchedState, WakeupPending, Blocking
<1> QED
  BY <1>1, <1>3, <1>4 DEF IInv

(* Every step keeps the part of the invariant that no other thread's        *)
(* wakeup depends on.                                                       *)
LEMMA NextLocks ==
  ASSUME ThreadLockAssumption, IInv, [Next]_vars
  PROVE  (TypeOK /\ Holders /\ LockedHeld /\ CallSteps /\ SchedState)'
<1> DEFINE Inv == TypeOK /\ Holders /\ LockedHeld /\ CallSteps /\ SchedState
<1> USE DEF IInv, ThreadLockAssumption
<1>1. ASSUME NEW t \in Threads, thread_mutex_acquire(t) \/ GiveUp(t) PROVE Inv'
  <2> USE <1>1 DEF GiveUp, thread_mutex_acquire, thread_mutex_release, thread_cond_wait, Goto
  <2>1. TypeOK'
    BY SMTT(30) DEF TypeOK, Pcs, Calls
  <2>2. Holders' /\ LockedHeld'
    BY SMTT(30) DEF TypeOK, Pcs, Calls, Holders, LockedHeld, Owns, GivingUp, SpinPcs, GlobalPcs
  <2>3. CallSteps' /\ SchedState'
    BY SMTT(30) DEF TypeOK, Pcs, Calls, CallSteps, SchedState
  <2> QED
    BY <2>1, <2>2, <2>3
<1>2. ASSUME NEW t \in Threads, LockSpin(t) PROVE Inv'
  <2> USE <1>2 DEF LockSpin, Goto
  <2>1. TypeOK'
    BY DEF TypeOK, Pcs, Calls
  <2>2. Holders' /\ LockedHeld'
    BY DEF TypeOK, Pcs, Calls, Holders, LockedHeld, Owns, GivingUp, SpinPcs, GlobalPcs
  <2>3. CallSteps' /\ SchedState'
    BY DEF TypeOK, Pcs, Calls, CallSteps, SchedState
  <2> QED
    BY <2>1, <2>2, <2>3
<1>3. ASSUME NEW t \in Threads, UnlockSpin(t) PROVE Inv'
  <2> USE <1>3 DEF UnlockSpin, Goto
  <2>1. TypeOK'
    BY DEF TypeOK, Pcs, Calls
  <2>2. Holders' /\ LockedHeld'
    BY SMTT(30) DEF TypeOK, Pcs, Calls, Holders, LockedHeld, Owns, GivingUp, SpinPcs, GlobalPcs, CallSteps
  <2>3. CallSteps' /\ SchedState'
    BY DEF TypeOK, Pcs, Calls, CallSteps, SchedState
  <2> QED
    BY <2>1, <2>2, <2>3
<1>4. ASSUME NEW t \in Threads, unsafe_mutex_acquire(t) PROVE Inv'
  <2> USE <1>4 DEF unsafe_mutex_acquire, Goto
  <2>1. TypeOK'
    BY DEF TypeOK, Pcs, Calls
  <2>2. Holders' /\ LockedHeld'
    BY SMTT(30) DEF TypeOK, Pcs, Calls, Holders, LockedHeld, Owns, GivingUp, SpinPcs, GlobalPcs, CallSteps
  <2>3. CallSteps' /\ SchedState'
    BY SMTT(30) DEF TypeOK, Pcs, Calls, CallSteps, SchedState
  <2> QED
    BY <2>1, <2>2, <2>3
<1>5. ASSUME NEW t \in Threads, unsafe_mutex_release(t) PROVE Inv'
  <2> USE <1>5 DEF unsafe_mutex_release, Goto
  <2>1. TypeOK'
    BY DEF TypeOK, Pcs, Calls
  <2>2. Holders' /\ LockedHeld'
    BY SMTT(30) DEF TypeOK, Pcs, Calls, Holders, LockedHeld, Owns, GivingUp, SpinPcs, GlobalPcs, CallSteps
  <2>3. CallSteps' /\ SchedState'
    BY DEF TypeOK, Pcs, Calls, CallSteps, SchedState
  <2> QED
    BY <2>1, <2>2, <2>3
<1>6. ASSUME NEW t \in Threads, NotifyMutex(t) PROVE Inv'
  <2> USE <1>6 DEF NotifyMutex, Goto
  <2>1. TypeOK'
    BY DEF TypeOK, Pcs, Calls, sched_thread_notify_one, Waiters
  <2>2. Holders' /\ LockedHeld'
    BY SMTT(30) DEF TypeOK, Pcs, Calls, Holders, LockedHeld, Owns, GivingUp, SpinPcs, GlobalPcs, CallSteps
  <2>3. CallSteps'
    BY DEF TypeOK, Pcs, Calls, CallSteps
  <2>4. SchedState'
    BY DEF TypeOK, Pcs, SchedState, sched_thread_notify_one, Waiters
  <2> QED
    BY <2>1, <2>2, <2>3, <2>4
<1>7. ASSUME thread_cond_notify PROVE Inv'
  <2> USE <1>7 DEF thread_cond_notify
  <2>1. TypeOK'
    BY DEF TypeOK, sched_thread_notify_one, Waiters
  <2>2. Holders' /\ LockedHeld' /\ CallSteps'
    BY DEF Holders, LockedHeld, Owns, GivingUp, CallSteps
  <2>3. SchedState'
    BY DEF TypeOK, SchedState, sched_thread_notify_one, Waiters
  <2> QED
    BY <2>1, <2>2, <2>3
<1>8. ASSUME NEW t \in Threads, WaitGlobal(t) \/ WaitUnspin(t) PROVE Inv'
  <2> USE <1>8 DEF WaitGlobal, WaitUnspin, Goto
  <2>1. TypeOK'
    BY SMTT(30) DEF TypeOK, Pcs, Calls
  <2>2. Holders' /\ LockedHeld'
    BY SMTT(30) DEF TypeOK, Pcs, Calls, Holders, LockedHeld, Owns, GivingUp, SpinPcs, GlobalPcs, CallSteps
  <2>3. CallSteps' /\ SchedState'
    BY SMTT(30) DEF TypeOK, Pcs, Calls, CallSteps, SchedState
  <2> QED
    BY <2>1, <2>2, <2>3
<1>9. ASSUME NEW t \in Threads, Block(t) \/ Resume(t) PROVE Inv'
  <2> USE <1>9 DEF Block, Resume, Goto
  <2>1. TypeOK'
    BY SMTT(30) DEF TypeOK, Pcs, Calls
  <2>2. Holders' /\ LockedHeld'
    BY SMTT(30) DEF TypeOK, Pcs, Calls, Holders, LockedHeld, Owns, GivingUp, SpinPcs, GlobalPcs, CallSteps
  <2>3. CallSteps' /\ SchedState'
    BY SMTT(30) DEF TypeOK, Pcs, Calls, CallSteps, SchedState
  <2> QED
    BY <2>1, <2>2, <2>3
<1>10. ASSUME UNCHANGED vars PROVE Inv'
  BY <1>10 DEF vars, TypeOK, Holders, LockedHeld, CallSteps, SchedState, Owns, GivingUp
<1> QED
  BY <1>1, <1>2, <1>3, <1>4, <1>5, <1>6, <1>7, <1>8, <1>9, <1>10 DEF Next, Step

(* Every step keeps a wakeup pending while somebody needs one.              *)
LEMMA NextWakeup ==
  ASSUME ThreadLockAssumption, IInv, [Next]_vars
  PROVE  WakeupPending'
<1> USE DEF IInv, ThreadLockAssumption
<1> DEFINE Pending == locked \/ \E t \in Threads : pc[t] = "notify" \/ OnItsWay(t)
<1>1. ASSUME NEW t \in Threads, thread_mutex_acquire(t) \/ GiveUp(t) PROVE WakeupPending'
  BY <1>1, SMTT(30) DEF GiveUp, thread_mutex_acquire, thread_mutex_release, thread_cond_wait, Goto,
              WakeupPending, Blocking, OnItsWay, TypeOK
<1>2. ASSUME NEW t \in Threads, LockSpin(t) \/ UnlockSpin(t) PROVE WakeupPending'
  BY <1>2, SMTT(30) DEF LockSpin, UnlockSpin, Goto, WakeupPending, Blocking, OnItsWay, TypeOK
<1>3. ASSUME NEW t \in Threads, unsafe_mutex_acquire(t) PROVE WakeupPending'
  BY <1>3 DEF unsafe_mutex_acquire, Goto, WakeupPending, TypeOK
<1>4. ASSUME NEW t \in Threads, unsafe_mutex_release(t) PROVE WakeupPending'
  BY <1>4 DEF unsafe_mutex_release, Goto, WakeupPending, TypeOK
\* Nobody is between the check and the block: t has the mutex's spinlock and
\* the scheduler's is free.
<1>5. ASSUME NEW t \in Threads, NotifyMutex(t) PROVE WakeupPending'
  <2> SUFFICES ASSUME NEW u \in Threads, Blocking(u)' PROVE Pending'
    BY DEF WakeupPending
  <2>1. pc[t] = "notify" /\ call[t] # "acquire" /\ spinlock = t /\ global_lock = None
    BY <1>5 DEF NotifyMutex, sched_thread_notify_one, Holders, SpinPcs, CallSteps
  <2>2. u # t /\ call[u] = "acquire" /\ pc'[u] = pc[u]
    BY <1>5, <2>1 DEF NotifyMutex, Goto, Blocking, TypeOK
  <2>3. pc[u] = "blocked" /\ tstate'[u] = "BLOCKED"
    BY <1>5, <2>1, <2>2 DEF NotifyMutex, Blocking, Holders, SpinPcs, GlobalPcs
  <2>4. u \in Waiters("wait_cond")
    BY <1>5, <2>2, <2>3 DEF NotifyMutex, sched_thread_notify_one, Waiters, SchedState, TypeOK
  <2>5. PICK w \in Waiters("wait_cond") : tstate' = [tstate EXCEPT ![w] = "READY"]
    BY <1>5, <2>4 DEF NotifyMutex, sched_thread_notify_one
  <2>6. w \in Threads /\ w # t /\ cond[w] = "wait_cond" /\ pc[w] = "blocked"
    BY <2>1, <2>5 DEF Waiters, SchedState, TypeOK
  <2>7. OnItsWay(w)'
    BY <1>5, <2>5, <2>6 DEF NotifyMutex, Goto, OnItsWay, TypeOK
  <2> QED
    BY <2>6, <2>7
<1>6. ASSUME thread_cond_notify PROVE WakeupPending'
  <2> SUFFICES ASSUME NEW u \in Threads, Blocking(u)' PROVE Pending'
    BY DEF WakeupPending
  <2>1. \A w \in Threads : tstate'[w] = tstate[w] \/ (tstate'[w] = "READY" /\ tstate[w] = "BLOCKED")
    BY <1>6 DEF thread_cond_notify, sched_thread_notify_one, Waiters, TypeOK
  <2>2. Blocking(u)
    BY <1>6, <2>1 DEF thread_cond_notify, Blocking
  <2>3. \A w \in Threads : OnItsWay(w) => OnItsWay(w)'
    BY <1>6, <2>1 DEF thread_cond_notify, OnItsWay
  <2> QED
    BY <1>6, <2>2, <2>3 DEF WakeupPending, thread_cond_notify
<1>7. ASSUME NEW t \in Threads, WaitGlobal(t) \/ WaitUnspin(t) \/ Block(t) PROVE WakeupPending'
  <2>1. \A u \in Threads : Blocking(u)' => Blocking(u)
    BY <1>7 DEF WaitGlobal, WaitUnspin, Block, Goto, Blocking, TypeOK
  <2>2. \A u \in Threads : (pc[u] = "notify" \/ OnItsWay(u)) => (pc[u] = "notify" \/ OnItsWay(u))'
    BY <1>7 DEF WaitGlobal, WaitUnspin, Block, Goto, OnItsWay, TypeOK
  <2> QED
    BY <1>7, <2>1, <2>2 DEF WakeupPending, WaitGlobal, WaitUnspin, Block
<1>8. ASSUME NEW t \in Threads, Resume(t) PROVE WakeupPending'
  BY <1>8 DEF Resume, Goto, WakeupPending, Blocking, OnItsWay, TypeOK
<1>9. ASSUME UNCHANGED vars PROVE WakeupPending'
  BY <1>9 DEF vars, WakeupPending, Blocking, OnItsWay
<1> QED
  BY <1>1, <1>2, <1>3, <1>4, <1>5, <1>6, <1>7, <1>8, <1>9 DEF Next, Step

(* The invariant holds in every state.                                      *)
LEMMA Invariance == Spec => []IInv
<1>1. ThreadLockAssumption
  BY ThreadLockAssumption
<1>2. Init => IInv
  BY <1>1, InitIInv
<1>3. IInv /\ [Next]_vars => IInv'
  BY <1>1, NextLocks, NextWakeup DEF IInv
<1> QED
  BY <1>2, <1>3, PTL DEF Spec

(* Every variable of the lock has its type, for every set of threads.       *)
THEOREM TypeCorrect == Spec => []TypeOK
<1>1. IInv => TypeOK
  BY DEF IInv
<1> QED
  BY <1>1, Invariance, PTL

(* For every number of threads, no wakeup of the mutex is lost.             *)
THEOREM WakeupCorrect == Spec => []NoLostWakeup
<1>1. IInv => NoLostWakeup
  <2> SUFFICES ASSUME IInv, NEW u \in Waiters("wait_cond")
               PROVE  locked \/ \E t \in Threads : pc[t] = "notify" \/ OnItsWay(t)
    BY DEF NoLostWakeup
  <2>1. Blocking(u)
    BY DEF IInv, Waiters, SchedState, Blocking, TypeOK, CallSteps, Calls
  <2> QED
    BY <2>1 DEF IInv, WakeupPending, Waiters
<1> QED
  BY <1>1, Invariance, PTL

-----------------------------------------------------------------------------
(* The monitor.                                                             *)

(* The thread that is giving up the mutex has its spinlock, so it is alone. *)
LEMMA OwnerValue ==
  ASSUME ThreadLockAssumption, IInv
  PROVE  /\ \A t \in Threads : GivingUp(t) => Owner = t
         /\ (\A t \in Threads : ~GivingUp(t)) => Owner = tid
<1>1. ASSUME NEW t \in Threads, NEW u \in Threads, GivingUp(t), GivingUp(u) PROVE t = u
  BY <1>1 DEF IInv, Holders, GivingUp, SpinPcs
<1>2. ASSUME NEW t \in Threads, GivingUp(t) PROVE Owner = t
  BY <1>1, <1>2 DEF Owner
<1> QED
  BY <1>2 DEF Owner

(* A step that changes neither who gives up nor tid leaves the owner alone. *)
LEMMA SameOwner ==
  ASSUME tid' = tid, \A t \in Threads : GivingUp(t)' <=> GivingUp(t)
  PROVE  Owner' = Owner
<1>1. (\E t \in Threads : GivingUp(t)') <=> (\E t \in Threads : GivingUp(t))
  OBVIOUS
<1>2. (CHOOSE t \in Threads : GivingUp(t)') = (CHOOSE t \in Threads : GivingUp(t))
  OBVIOUS
<1> QED
  BY <1>1, <1>2 DEF Owner

(* Every step is a step of the monitor, or leaves it as it is.              *)
LEMMA StepImplements ==
  ASSUME ThreadLockAssumption, IInv, IInv', [Next]_vars
  PROVE  [Mon!MonitorNext]_(Mon!mvars)
<1> DEFINE Stutter == Owner' = Owner /\ Waiting' = Waiting
<1> USE DEF ThreadLockAssumption
<1>t. TypeOK /\ CallSteps /\ SchedState
  BY DEF IInv
<1>1. ASSUME NEW t \in Threads, thread_mutex_acquire(t) \/ GiveUp(t) PROVE Stutter
  <2>1. tid' = tid /\ \A u \in Threads : GivingUp(u)' <=> GivingUp(u)
    BY <1>1, <1>t DEF GiveUp, thread_mutex_acquire, thread_mutex_release, thread_cond_wait, Goto,
                      GivingUp, TypeOK
  <2>2. Waiting' = Waiting
    BY <1>1, <1>t DEF GiveUp, thread_mutex_acquire, thread_mutex_release, thread_cond_wait, Goto,
                      Waiting, TypeOK
  <2> QED
    BY <2>1, <2>2, SameOwner
<1>2. ASSUME NEW t \in Threads, LockSpin(t) \/ UnlockSpin(t) \/ WaitGlobal(t) PROVE Stutter
  <2>1. tid' = tid /\ \A u \in Threads : GivingUp(u)' <=> GivingUp(u)
    BY <1>2, <1>t DEF LockSpin, UnlockSpin, WaitGlobal, Goto, GivingUp, TypeOK
  <2>2. Waiting' = Waiting
    BY <1>2, <1>t DEF LockSpin, UnlockSpin, WaitGlobal, Goto, Waiting, TypeOK
  <2> QED
    BY <2>1, <2>2, SameOwner
<1>3. ASSUME NEW t \in Threads, unsafe_mutex_acquire(t) PROVE Mon!MonitorAcquire(t) \/ Stutter
  <2>1. Waiting' = Waiting /\ t \notin Waiting
    BY <1>3, <1>t DEF unsafe_mutex_acquire, Goto, Waiting, TypeOK
  <2>2. \A u \in Threads : ~GivingUp(u) /\ ~GivingUp(u)'
    BY <1>3, <1>t, SMTT(30) DEF unsafe_mutex_acquire, Goto, GivingUp, TypeOK, IInv, Holders, SpinPcs, CallSteps
  <2>3. Owner = tid /\ Owner' = tid'
    BY <2>2 DEF Owner
  <2> QED
    BY <1>3, <2>1, <2>3 DEF unsafe_mutex_acquire, IInv, LockedHeld, Mon!MonitorAcquire
<1>4. ASSUME NEW t \in Threads, unsafe_mutex_release(t) PROVE Mon!MonitorRelease(t) \/ Stutter
  <2>1. Waiting' = Waiting
    BY <1>4, <1>t DEF unsafe_mutex_release, Goto, Waiting, TypeOK
  <2>2. \A u \in Threads : ~GivingUp(u) /\ (u # t => ~GivingUp(u)')
    BY <1>4, <1>t, SMTT(30) DEF unsafe_mutex_release, Goto, GivingUp, TypeOK, IInv, Holders, SpinPcs
  <2>3. Owner = t
    BY <1>4, <2>2 DEF Owner, unsafe_mutex_release, IInv, Holders, Owns
  <2>4. CASE GivingUp(t)'
    <3>1. Owner' = t
      BY <2>2, <2>4 DEF Owner
    <3> QED
      BY <2>1, <2>3, <3>1
  <2>5. CASE ~GivingUp(t)'
    <3>1. Owner' = tid'
      BY <2>2, <2>5 DEF Owner
    <3> QED
      BY <1>4, <2>1, <2>3, <3>1 DEF unsafe_mutex_release, Mon!MonitorRelease
  <2> QED
    BY <2>4, <2>5
<1>5. ASSUME NEW t \in Threads, NotifyMutex(t) PROVE Stutter
  <2>1. tid' = tid /\ \A u \in Threads : GivingUp(u)' <=> GivingUp(u)
    BY <1>5, <1>t DEF NotifyMutex, Goto, GivingUp, TypeOK
  <2>2. \A u \in Threads : call[u] = "cond_wait" => tstate'[u] = tstate[u]
    BY <1>5, <1>t DEF NotifyMutex, sched_thread_notify_one, Waiters, TypeOK, SchedState
  <2>3. Waiting' = Waiting
    BY <1>5, <1>t, <2>2 DEF NotifyMutex, Goto, Waiting, TypeOK
  <2> QED
    BY <2>1, <2>3, SameOwner
<1>6. ASSUME thread_cond_notify PROVE Stutter \/ \E t \in Threads : Mon!MonitorNotify(t)
  <2>1. Owner' = Owner
    BY <1>6, SameOwner DEF thread_cond_notify, GivingUp
  <2>2. CASE UNCHANGED tstate
    BY <1>6, <2>1, <2>2 DEF thread_cond_notify, Waiting
  <2>3. ASSUME NEW u \in Waiters("cond"), tstate' = [tstate EXCEPT ![u] = "READY"]
        PROVE  Mon!MonitorNotify(u)
    <3>1. u \in Threads /\ pc[u] = "blocked" /\ call[u] = "cond_wait" /\ tstate[u] = "BLOCKED"
      BY <1>t DEF Waiters, SchedState
    <3>2. u \in Waiting /\ Waiting' = Waiting \ {u}
      BY <1>6, <1>t, <2>3, <3>1 DEF thread_cond_notify, Waiting, TypeOK
    <3> QED
      BY <2>1, <3>2 DEF Mon!MonitorNotify
  <2> QED
    BY <1>6, <2>2, <2>3 DEF thread_cond_notify, sched_thread_notify_one, Waiters
<1>7. ASSUME NEW t \in Threads, WaitUnspin(t) PROVE Mon!MonitorWait(t) \/ Stutter
  <2>1. \A u \in Threads : (u # t => ~GivingUp(u)) /\ ~GivingUp(u)'
    BY <1>7, <1>t, SMTT(30) DEF WaitUnspin, Goto, GivingUp, TypeOK, IInv, Holders, SpinPcs
  <2>2. Owner' = tid /\ tid' = tid
    BY <1>7, <2>1 DEF Owner, WaitUnspin
  <2>3. CASE call[t] = "cond_wait"
    <3>1. GivingUp(t) /\ tid = None
      BY <1>7, <2>3 DEF WaitUnspin, GivingUp, IInv, Holders
    <3>2. Owner = t
      BY <3>1, OwnerValue
    <3>3. Waiting' = Waiting \cup {t}
      BY <1>7, <1>t, <2>3, SMTT(30) DEF WaitUnspin, Goto, Waiting, TypeOK
    <3> QED
      BY <2>2, <3>1, <3>2, <3>3 DEF Mon!MonitorWait
  <2>4. CASE call[t] # "cond_wait"
    <3>1. Owner = tid
      BY <2>1, <2>4, OwnerValue DEF GivingUp
    <3>2. Waiting' = Waiting
      BY <1>7, <1>t, <2>4 DEF WaitUnspin, Goto, Waiting, TypeOK
    <3> QED
      BY <2>2, <3>1, <3>2
  <2> QED
    BY <2>3, <2>4
<1>8. ASSUME NEW t \in Threads, Block(t) \/ Resume(t) PROVE Stutter
  <2>1. tid' = tid /\ \A u \in Threads : GivingUp(u)' <=> GivingUp(u)
    BY <1>8, <1>t DEF Block, Resume, Goto, GivingUp, TypeOK
  <2>2. Waiting' = Waiting
    BY <1>8, <1>t DEF Block, Resume, Goto, Waiting, TypeOK
  <2> QED
    BY <2>1, <2>2, SameOwner
<1>9. ASSUME UNCHANGED vars PROVE Stutter
  BY <1>9, SameOwner DEF vars, GivingUp, Waiting
<1> QED
  BY <1>1, <1>2, <1>3, <1>4, <1>5, <1>6, <1>7, <1>8, <1>9
     DEF Next, Step, Mon!MonitorNext, Mon!mvars

(* thread_mutex and thread_cond implement a monitor, for every set of       *)
(* threads.                                                                 *)
THEOREM LockIsMonitor == Spec => ImplementsMonitor
<1>1. ThreadLockAssumption
  BY ThreadLockAssumption
<1>2. Init => Mon!MonitorInit
  BY DEF Init, Mon!MonitorInit, Owner, GivingUp, Waiting
<1>3. IInv /\ IInv' /\ [Next]_vars => [Mon!MonitorNext]_(Mon!mvars)
  BY <1>1, StepImplements
<1> QED
  BY <1>2, <1>3, Invariance, PTL DEF Spec, ImplementsMonitor, Mon!MonitorSpec

-----------------------------------------------------------------------------
(***************************************************************************)
(* Mounts.  vfs_mount and cdev_register refuse what would hide an older    *)
(* entry, so an earlier entry of a list never matches where a later one    *)
(* is the right one.                                                       *)
(***************************************************************************)

Name == Seq(STRING)
FileSystems == {MountPoints[p] : p \in DOMAIN MountPoints}
Mounted == [path : Name, fs : FileSystems]
Device == [name : Name, index : Nat]

(* A mount is newer, and closer to the front, than those whose path its own *)
(* could start with; a device is newer than those its name could start.     *)
MountsOrdered(list) ==
  \A i, j \in 1..Len(list) : i < j => ~kstrcmp(list[i].path, list[j].path)
DevicesOrdered(list) ==
  /\ \A i, j \in 1..Len(list) : i < j => ~kstrcmp(list[j].name, list[i].name)
  /\ \A i \in 1..Len(list) : list[i].index = Len(list) + 1 - i
MountsInv ==
  /\ mounts \in Seq(Mounted) /\ devices \in Seq(Device) /\ handle_seq = Len(devices) + 2
  /\ MountsOrdered(mounts) /\ DevicesOrdered(devices)

(* Mount points, names and paths are strings.                               *)
LEMMA Names ==
  /\ \A p \in DOMAIN MountPoints : p \in Name
  /\ \A p \in DeviceNames : p \in Name
  /\ \A p \in Paths : p \in Name
  BY MountsAssumption DEF Name

(* The list of mounts holds mounts.                                         *)
LEMMA MountFacts ==
  ASSUME NEW s \in Seq(Mounted)
  PROVE  /\ DOMAIN s = 1..Len(s) /\ Len(s) \in Nat
         /\ \A i \in DOMAIN s : s[i] \in Mounted /\ s[i].path \in Name /\ Len(s[i].path) \in Nat
<1>1. DOMAIN s = 1..Len(s) /\ Len(s) \in Nat /\ \A i \in DOMAIN s : s[i] \in Mounted
  BY SMTT(30)
<1>2. \A m \in Mounted : m.path \in Name
  BY DEF Mounted
<1>3. \A n \in Name : Len(n) \in Nat
  BY SMTT(30) DEF Name
<1> QED BY <1>1, <1>2, <1>3

(* The list of devices holds devices.                                       *)
LEMMA DeviceFacts ==
  ASSUME NEW s \in Seq(Device)
  PROVE  /\ DOMAIN s = 1..Len(s) /\ Len(s) \in Nat
         /\ \A i \in DOMAIN s : s[i] \in Device /\ s[i].name \in Name
<1>1. DOMAIN s = 1..Len(s) /\ Len(s) \in Nat /\ \A i \in DOMAIN s : s[i] \in Device
  BY SMTT(30)
<1>2. \A d \in Device : d.name \in Name
  BY DEF Device
<1> QED BY <1>1, <1>2

(* A list with a new element in front.                                      *)
LEMMA Newest ==
  ASSUME NEW T, NEW x \in T, NEW y \in Seq(T)
  PROVE  /\ <<x>> \o y \in Seq(T) /\ Len(<<x>> \o y) = Len(y) + 1 /\ (<<x>> \o y)[1] = x
         /\ \A i \in 1..(Len(y) + 1) : i # 1 => i - 1 \in 1..Len(y) /\ (<<x>> \o y)[i] = y[i - 1]
<1>1. Len(y) \in Nat /\ <<x>> \in Seq(T) /\ Len(<<x>>) = 1 /\ <<x>>[1] = x
  BY SMTT(30)
<1>2. <<x>> \o y \in Seq(T) /\ Len(<<x>> \o y) = Len(y) + 1 /\ (<<x>> \o y)[1] = x
  BY <1>1, SMTT(30)
<1>3. ASSUME NEW i \in 1..(Len(y) + 1), i # 1 PROVE i - 1 \in 1..Len(y) /\ (<<x>> \o y)[i] = y[i - 1]
  BY <1>1, <1>3, SMTT(30)
<1> QED BY <1>2, <1>3

(* The first of the places found.                                           *)
LEMMA FirstOf ==
  ASSUME NEW found \in SUBSET Nat, found # {}
  PROVE  /\ (CHOOSE j \in found : \A k \in found : j <= k) \in found
         /\ \A k \in found : (CHOOSE j \in found : \A l \in found : j <= l) <= k
<1>1. \E j \in found : \A k \in found : j <= k
  BY LeastNatural
<1> QED BY <1>1

(* Of two mounts above one path, the one with the shorter path starts the   *)
(* other one's.                                                             *)
LEMMA Comparable ==
  ASSUME NEW x \in Name, NEW y \in Name, NEW z \in Name, kstrcmp(x, z), kstrcmp(y, z), Len(x) <= Len(y)
  PROVE  kstrcmp(x, y)
<1>1. Len(x) \in Nat /\ Len(y) \in Nat /\ Len(z) \in Nat
  BY SMTT(30) DEF Name
<1>2. ASSUME NEW i \in 1..Len(x) PROVE x[i] = y[i]
  <2>1. i \in 1..Len(y)
    BY <1>1, SMTT(30)
  <2> QED BY <2>1 DEF kstrcmp
<1> QED BY <1>2 DEF kstrcmp

(* vfs_get's comparison, for a path that does not start the mount's.        *)
LEMMA MatchIsInside ==
  ASSUME NEW m \in Mounted, NEW path \in Name, ~(kstrcmp(path, m.path) /\ path # m.path)
  PROVE  MountMatches(m, path) <=> Inside(m, path)
<1> DEFINE p == m.path
           min == IF Len(p) < Len(path) THEN Len(p) ELSE Len(path)
<1>1. p \in Name /\ Len(p) \in Nat /\ Len(path) \in Nat /\ min \in Nat /\ min <= Len(p) /\ min <= Len(path)
      /\ p \in Seq(STRING) /\ path \in Seq(STRING)
  BY SMTT(30) DEF Mounted, Name
<1> HIDE DEF p
<1>2. SubSeq(path, 1, min) = SubSeq(p, 1, min) <=> \A i \in 1..min : path[i] = p[i]
  <2>1. /\ SubSeq(path, 1, min) \in Seq(STRING) /\ SubSeq(p, 1, min) \in Seq(STRING)
        /\ Len(SubSeq(path, 1, min)) = min /\ Len(SubSeq(p, 1, min)) = min
        /\ \A i \in 1..min : SubSeq(path, 1, min)[i] = path[i] /\ SubSeq(p, 1, min)[i] = p[i]
    BY <1>1, SMTT(30)
  <2> QED BY <2>1, <1>1, SMTT(30)
<1>3. MountMatches(m, path) <=> /\ \A i \in 1..min : path[i] = p[i]
                                /\ Len(path) = min \/ path[min + 1] = Sep
  BY <1>2 DEF MountMatches, p
<1>4. Inside(m, path) <=> /\ Len(p) <= Len(path) /\ \A i \in 1..Len(p) : p[i] = path[i]
                          /\ Len(path) > Len(p) => path[Len(p) + 1] = Sep
  BY DEF Inside, kstrcmp, p
<1>5. CASE Len(p) < Len(path)
  BY <1>1, <1>3, <1>4, <1>5, SMTT(30)
<1>6. CASE ~(Len(p) < Len(path))
  <2>1. min = Len(path)
    BY <1>6
  <2>2. ~((\A i \in 1..Len(path) : path[i] = p[i]) /\ path # p)
    BY <1>1, <1>6 DEF kstrcmp, p
  <2>3. Inside(m, path) => \A i \in 1..Len(path) : path[i] = p[i]
    BY <1>1, <1>4, <1>6, SMTT(30)
  <2>4. path = p => Inside(m, path)
    BY <1>1, <1>4, SMTT(30)
  <2> QED BY <1>3, <2>1, <2>2, <2>3, <2>4
<1> QED BY <1>5, <1>6

(* A mount below the path matches it, whatever follows.                     *)
LEMMA BelowMatches ==
  ASSUME NEW m \in Mounted, NEW path \in Name, kstrcmp(path, m.path)
  PROVE  MountMatches(m, path)
<1> DEFINE p == m.path
<1>1. p \in Seq(STRING) /\ path \in Seq(STRING) /\ Len(p) \in Nat /\ Len(path) \in Nat
  BY SMTT(30) DEF Mounted, Name
<1>2. Len(path) <= Len(p) /\ \A i \in 1..Len(path) : path[i] = p[i]
  BY DEF kstrcmp
<1> HIDE DEF p
<1>3. (IF Len(p) < Len(path) THEN Len(p) ELSE Len(path)) = Len(path)
  BY ONLY <1>1, <1>2, SMTT(30)
<1>4. SubSeq(path, 1, Len(path)) = SubSeq(p, 1, Len(path))
  <2>1. /\ SubSeq(path, 1, Len(path)) \in Seq(STRING) /\ SubSeq(p, 1, Len(path)) \in Seq(STRING)
        /\ Len(SubSeq(path, 1, Len(path))) = Len(path) /\ Len(SubSeq(p, 1, Len(path))) = Len(path)
        /\ \A i \in 1..Len(path) : SubSeq(path, 1, Len(path))[i] = path[i] /\ SubSeq(p, 1, Len(path))[i] = p[i]
    BY ONLY <1>1, <1>2, SMTT(30)
  <2> QED BY ONLY <1>2, <2>1, SMTT(30)
<1> QED BY <1>3, <1>4 DEF MountMatches, p

(* What starts the start of a path starts the path.                         *)
LEMMA StartsThrough ==
  ASSUME NEW x \in Name, NEW y \in Name, NEW z \in Name, kstrcmp(x, y), kstrcmp(y, z)
  PROVE  kstrcmp(x, z)
<1>1. Len(x) \in Nat /\ Len(y) \in Nat /\ Len(z) \in Nat /\ Len(x) <= Len(y) /\ Len(y) <= Len(z)
  BY SMTT(30) DEF Name, kstrcmp
<1>2. ASSUME NEW i \in 1..Len(x) PROVE x[i] = z[i]
  <2>1. i \in 1..Len(y)
    BY ONLY <1>1, i \in 1..Len(x), SMTT(30)
  <2> QED BY <2>1 DEF kstrcmp
<1>3. Len(x) <= Len(z)
  BY ONLY <1>1, SMTT(30)
<1> QED BY <1>2, <1>3 DEF kstrcmp

(* vfs_get stops at the newest mount below the path, if there is one: it is *)
(* newer than those above the path.                                         *)
LEMMA NewestBelow ==
  ASSUME MountsInv, NEW path \in Paths, Below(path) # {}
  PROVE  FindMount(path).fs = mounts[CHOOSE i \in Below(path) : \A j \in Below(path) : i <= j].fs
<1> DEFINE found == {i \in DOMAIN mounts : MountMatches(mounts[i], path)}
           first == CHOOSE j \in found : \A k \in found : j <= k
           below == Below(path)
           newest == CHOOSE i \in below : \A j \in below : i <= j
<1>1. /\ path \in Name /\ mounts \in Seq(Mounted) /\ DOMAIN mounts = 1..Len(mounts) /\ Len(mounts) \in Nat
      /\ \A i \in DOMAIN mounts : mounts[i] \in Mounted /\ mounts[i].path \in Name
  BY Names, MountFacts DEF MountsInv
<1>2. below \subseteq found
  BY <1>1, BelowMatches DEF Below
<1>3. found \in SUBSET Nat /\ below \in SUBSET Nat /\ below # {} /\ found # {}
  <2>1. DOMAIN mounts \subseteq Nat
    BY ONLY <1>1, SMTT(30)
  <2> QED BY <1>2, <2>1
<1>4. FindMount(path).fs = mounts[first].fs
  BY <1>3, SMTT(30) DEF FindMount
<1>5. first \in found /\ \A k \in found : first <= k
  BY <1>3, FirstOf
<1>6. newest \in below /\ \A k \in below : newest <= k
  BY <1>3, FirstOf
<1> HIDE DEF first, newest, found
<1>7. first \in below
  <2> SUFFICES ASSUME first \notin below PROVE FALSE
    OBVIOUS
  <2>1. first \in DOMAIN mounts /\ MountMatches(mounts[first], path)
    BY <1>5 DEF found
  <2>2. kstrcmp(mounts[first].path, path)
    <3>1. ~(kstrcmp(path, mounts[first].path) /\ path # mounts[first].path)
      BY <2>1 DEF Below
    <3> QED BY <1>1, <2>1, <3>1, MatchIsInside DEF Inside
  <2>3. newest \in DOMAIN mounts /\ kstrcmp(path, mounts[newest].path)
    BY <1>6 DEF Below
  <2>4. kstrcmp(mounts[first].path, mounts[newest].path)
    BY <1>1, <2>1, <2>2, <2>3, StartsThrough
  <2>5. first < newest
    <3>1. first <= newest /\ first # newest
      BY <1>2, <1>5, <1>6
    <3>2. first \in Nat /\ newest \in Nat
      BY <1>3, <1>5, <1>6
    <3> QED BY ONLY <3>1, <3>2, SMTT(30)
  <2> QED BY <1>1, <2>1, <2>3, <2>4, <2>5 DEF MountsInv, MountsOrdered
<1>8. first = newest
  <2>1. first <= newest /\ newest <= first
    BY <1>2, <1>5, <1>6, <1>7
  <2>2. first \in Nat /\ newest \in Nat
    BY <1>3, <1>6, <1>7
  <2> QED BY ONLY <2>1, <2>2, SMTT(30)
<1> QED BY <1>4, <1>8 DEF newest

(* vfs_get stops at the longest mount point above the path, if there is     *)
(* none below it.                                                           *)
LEMMA NearestIs == MountsInv => NearestMount
<1> SUFFICES ASSUME MountsInv, NEW path \in Paths,
                    \A i \in DOMAIN mounts : ~(kstrcmp(path, mounts[i].path) /\ path # mounts[i].path)
             PROVE  FindMount(path).fs = Home(path)
  BY NewestBelow DEF NearestMount, Below
<1> DEFINE found == {i \in DOMAIN mounts : MountMatches(mounts[i], path)}
           homes == {i \in DOMAIN mounts : Inside(mounts[i], path)}
           first == CHOOSE j \in found : \A k \in found : j <= k
           Longest(i) == \A j \in homes : Len(mounts[j].path) <= Len(mounts[i].path)
           home == CHOOSE i \in homes : Longest(i)
<1>1. /\ path \in Name /\ mounts \in Seq(Mounted) /\ DOMAIN mounts = 1..Len(mounts) /\ Len(mounts) \in Nat
      /\ \A i \in DOMAIN mounts : mounts[i] \in Mounted /\ mounts[i].path \in Name
                                  /\ Len(mounts[i].path) \in Nat
  BY Names, MountFacts DEF MountsInv
<1>2. \A i \in DOMAIN mounts : MountMatches(mounts[i], path) <=> Inside(mounts[i], path)
  BY <1>1, MatchIsInside
<1>3. found = homes /\ found \in SUBSET Nat
  BY <1>1, <1>2, SMTT(30)
<1>4. FindMount(path).fs = IF found = {} THEN "none" ELSE mounts[first].fs
  BY SMTT(30) DEF FindMount, NoMount
<1>5. Home(path) = IF homes = {} THEN "none" ELSE mounts[home].fs
  BY DEF Home
<1>6. CASE found = {}
  BY <1>3, <1>4, <1>5, <1>6
<1>7. CASE found # {}
  <2>1. first \in found /\ \A k \in found : first <= k
    BY <1>3, <1>7, FirstOf
  <2> HIDE DEF found, first
  <2>2. first \in homes /\ \A k \in homes : first <= k
    BY <1>3, <2>1
  <2>3. ASSUME NEW k \in homes, k # first PROVE Len(mounts[k].path) < Len(mounts[first].path)
    <3>1. /\ k \in DOMAIN mounts /\ first \in DOMAIN mounts /\ first < k
      BY <1>1, <2>2, <2>3, SMTT(30)
    <3>2. kstrcmp(mounts[k].path, path) /\ kstrcmp(mounts[first].path, path)
      BY <2>2 DEF Inside
    <3>3. ~kstrcmp(mounts[first].path, mounts[k].path)
      BY <1>1, <3>1 DEF MountsInv, MountsOrdered
    <3>4. ~(Len(mounts[first].path) <= Len(mounts[k].path))
      BY <1>1, <3>1, <3>2, <3>3, Comparable
    <3> QED BY <1>1, <3>1, <3>4, SMTT(30)
  <2> HIDE DEF homes
  <2>4. first \in DOMAIN mounts /\ Len(mounts[first].path) \in Nat
        /\ \A k \in homes : k \in DOMAIN mounts /\ Len(mounts[k].path) \in Nat
    BY <1>1, <2>2 DEF homes
  <2>5. Longest(first)
    BY <2>3, <2>4, SMTT(30)
  <2>6. home \in homes /\ Longest(home)
    BY <2>2, <2>5
  <2> HIDE DEF home
  <2>7. home = first
    <3>1. Len(mounts[first].path) <= Len(mounts[home].path)
      BY <2>2, <2>6
    <3> QED BY <2>3, <2>4, <2>6, <3>1, SMTT(30)
  <2> QED BY <1>3, <1>4, <1>5, <1>7, <2>7
<1> QED BY <1>6, <1>7

(* A name leads to the device registered with it.                           *)
LEMMA DevicesFound == MountsInv => DeviceFoundByName
<1> SUFFICES ASSUME MountsInv, NEW i \in DOMAIN devices
             PROVE  /\ \A j \in DOMAIN devices : devices[j].index = devices[i].index => i = j
                    /\ DeviceByName(devices[i].name) = devices[i].index
  BY DEF DeviceFoundByName
<1>1. /\ devices \in Seq(Device) /\ DOMAIN devices = 1..Len(devices) /\ Len(devices) \in Nat
      /\ \A j \in DOMAIN devices : devices[j] \in Device /\ devices[j].name \in Name
      /\ \A j \in 1..Len(devices) : devices[j].index = Len(devices) + 1 - j
  BY DeviceFacts DEF MountsInv, DevicesOrdered
<1>2. \A j \in DOMAIN devices : devices[j].index = devices[i].index => i = j
  BY <1>1, SMTT(30)
<1> DEFINE found == {j \in DOMAIN devices : kstrcmp(devices[i].name, devices[j].name)}
           first == CHOOSE j \in found : \A k \in found : j <= k
<1>3. i \in found /\ found \in SUBSET Nat
  BY <1>1, SMTT(30) DEF kstrcmp, Name
<1>4. DeviceByName(devices[i].name) = devices[first].index
  BY <1>3 DEF DeviceByName
<1>5. first \in found /\ \A k \in found : first <= k
  BY <1>3, FirstOf
<1> HIDE DEF first
<1>6. first = i
  <2>1. first \in 1..Len(devices) /\ first <= i /\ kstrcmp(devices[i].name, devices[first].name)
    BY <1>1, <1>3, <1>5
  <2>2. ~(first < i)
    BY <1>1, <2>1 DEF MountsInv, DevicesOrdered
  <2> QED BY <1>1, <2>1, <2>2, SMTT(30)
<1> QED BY <1>2, <1>4, <1>6

(* vfs_mount refuses a path that starts that of a mount.                    *)
LEMMA MountInv ==
  ASSUME MountsInv, NEW point \in DOMAIN MountPoints, vfs_mount(point, MountPoints[point])
  PROVE  MountsInv'
<1> DEFINE path == IF point = <<Sep>> THEN <<>> ELSE point
           m == [path |-> path, fs |-> MountPoints[point]]
<1>1. m \in Mounted /\ m.path = path
  <2>1. path \in Name
    <3>1. <<>> \in Name
      BY SMTT(30) DEF Name
    <3> QED BY <3>1, Names
  <2> QED BY <2>1 DEF Mounted, FileSystems
<1>2. CASE Stop
  BY <1>2 DEF Stop, MountsInv
<1>3. CASE ~Stop
  <2>1. /\ ~\E i \in DOMAIN mounts : kstrcmp(path, mounts[i].path)
        /\ mounts' = <<m>> \o mounts /\ devices' = devices /\ handle_seq' = handle_seq
    BY <1>3 DEF vfs_mount
  <2> HIDE DEF m
  <2>2. mounts \in Seq(Mounted) /\ Len(mounts) \in Nat /\ DOMAIN mounts = 1..Len(mounts)
    BY SMTT(30) DEF MountsInv
  <2>3. /\ mounts' \in Seq(Mounted) /\ Len(mounts') = Len(mounts) + 1 /\ mounts'[1] = m
        /\ \A i \in 1..(Len(mounts) + 1) : i # 1 => i - 1 \in 1..Len(mounts) /\ mounts'[i] = mounts[i - 1]
    BY <1>1, <2>1, <2>2, Newest, SMTT(30)
  <2>4. ASSUME NEW i \in 1..Len(mounts'), NEW j \in 1..Len(mounts'), i < j
        PROVE  ~kstrcmp(mounts'[i].path, mounts'[j].path)
    <3>1. j # 1 /\ j - 1 \in 1..Len(mounts) /\ mounts'[j] = mounts[j - 1]
      BY <2>2, <2>3, <2>4, SMTT(30)
    <3>2. CASE i = 1
      BY <1>1, <2>1, <2>2, <2>3, <3>1, <3>2
    <3>3. CASE i # 1
      <4>1. i - 1 \in 1..Len(mounts) /\ mounts'[i] = mounts[i - 1] /\ i - 1 < j - 1
        BY <2>2, <2>3, <2>4, <3>3, SMTT(30)
      <4> QED BY <3>1, <4>1 DEF MountsInv, MountsOrdered
    <3> QED BY <3>2, <3>3
  <2>5. MountsOrdered(mounts')
    BY <2>4 DEF MountsOrdered
  <2>6. MountsOrdered(mounts)' /\ DevicesOrdered(devices)'
    BY <2>1, <2>5 DEF MountsInv
  <2> QED BY <2>1, <2>3, <2>6 DEF MountsInv
<1> QED BY <1>2, <1>3

(* cdev_register refuses a name that starts with that of a device.          *)
LEMMA RegisterInv ==
  ASSUME MountsInv, NEW name \in DeviceNames, cdev_register(name)
  PROVE  MountsInv'
<1> DEFINE d == [name |-> name, index |-> handle_seq - 1]
<1>1. devices \in Seq(Device) /\ Len(devices) \in Nat /\ DOMAIN devices = 1..Len(devices)
      /\ handle_seq = Len(devices) + 2
  BY SMTT(30) DEF MountsInv
<1>2. d \in Device /\ d.name = name /\ d.index = Len(devices) + 1
  BY <1>1, Names, SMTT(30) DEF Device
<1>3. CASE Stop
  BY <1>3 DEF Stop, MountsInv
<1>4. CASE ~Stop
  <2>1. /\ ~\E i \in DOMAIN devices : kstrcmp(devices[i].name, name)
        /\ devices' = <<d>> \o devices /\ mounts' = mounts /\ handle_seq' = handle_seq + 1
    BY <1>4 DEF cdev_register, devfs_register_node
  <2> HIDE DEF d
  <2>3. /\ devices' \in Seq(Device) /\ Len(devices') = Len(devices) + 1 /\ devices'[1] = d
        /\ \A i \in 1..(Len(devices) + 1) : i # 1 => i - 1 \in 1..Len(devices) /\ devices'[i] = devices[i - 1]
    BY <1>1, <1>2, <2>1, Newest, SMTT(30)
  <2>4. ASSUME NEW i \in 1..Len(devices'), NEW j \in 1..Len(devices'), i < j
        PROVE  ~kstrcmp(devices'[j].name, devices'[i].name)
    <3>1. j # 1 /\ j - 1 \in 1..Len(devices) /\ devices'[j] = devices[j - 1]
      BY <1>1, <2>3, <2>4, SMTT(30)
    <3>2. CASE i = 1
      BY <1>1, <1>2, <2>1, <2>3, <3>1, <3>2
    <3>3. CASE i # 1
      <4>1. i - 1 \in 1..Len(devices) /\ devices'[i] = devices[i - 1] /\ i - 1 < j - 1
        BY <1>1, <2>3, <2>4, <3>3, SMTT(30)
      <4> QED BY <3>1, <4>1 DEF MountsInv, DevicesOrdered
    <3> QED BY <3>2, <3>3
  <2>5. ASSUME NEW i \in 1..Len(devices') PROVE devices'[i].index = Len(devices') + 1 - i
    <3>1. CASE i = 1
      BY <1>1, <1>2, <2>3, <3>1, SMTT(30)
    <3>2. CASE i # 1
      <4>1. i - 1 \in 1..Len(devices) /\ devices'[i] = devices[i - 1]
        BY <1>1, <2>3, <3>2
      <4>2. devices[i - 1].index = Len(devices) + 1 - (i - 1)
        BY <4>1 DEF MountsInv, DevicesOrdered
      <4> QED BY <1>1, <2>3, <4>1, <4>2, SMTT(30)
    <3> QED BY <3>1, <3>2
  <2>6. DevicesOrdered(devices')
    BY <2>4, <2>5 DEF DevicesOrdered
  <2>7. MountsOrdered(mounts)' /\ DevicesOrdered(devices)'
    BY <2>1, <2>6 DEF MountsInv
  <2> QED BY <1>1, <2>1, <2>3, <2>7, SMTT(30) DEF MountsInv
<1> QED BY <1>3, <1>4

(* Whatever is mounted and registered in whatever order, devfs_get_by_path  *)
(* finds each device by its name, and vfs_get takes a path to the file      *)
(* system mounted closest above it if the path does not start that of a     *)
(* mount.  If it does, vfs_get leaves it for the newest mount below it: "/" *)
(* leads to the root of "/dev", which the kernel mounts.                    *)
THEOREM PathsCorrect == MountsSpec => []PathsResolve
<1>1. MountsInit => MountsInv
  BY SMTT(30) DEF MountsInit, MountsInv, MountsOrdered, DevicesOrdered
<1>2. MountsInv /\ [MountsNext]_mountVars => MountsInv'
  <2> SUFFICES ASSUME MountsInv, [MountsNext]_mountVars PROVE MountsInv'
    OBVIOUS
  <2>1. ASSUME UNCHANGED <<mounts, devices, handle_seq>> PROVE MountsInv'
    BY <2>1 DEF MountsInv
  <2>2. CASE \E p \in DOMAIN MountPoints : vfs_mount(p, MountPoints[p])
    BY <2>2, MountInv
  <2>3. CASE \E name \in DeviceNames : cdev_register(name)
    BY <2>3, RegisterInv
  <2>4. CASE \E path \in Paths : devfs_get(path)
    BY <2>1, <2>4 DEF devfs_get, Stop
  <2>5. CASE \E n \in 1..Len(devices) : devfs_root_get_leaf_node(n)
    BY <2>1, <2>5 DEF devfs_root_get_leaf_node
  <2>6. CASE \E d \in DOMAIN devRefs : devfs_put(d)
    BY <2>1, <2>6 DEF devfs_put
  <2>7. CASE devfs_put_root
    BY <2>1, <2>7 DEF devfs_put_root, Stop
  <2>8. CASE UNCHANGED mountVars
    BY <2>1, <2>8 DEF mountVars
  <2> QED BY <2>2, <2>3, <2>4, <2>5, <2>6, <2>7, <2>8 DEF MountsNext
<1>3. MountsInv => PathsResolve
  BY NearestIs, DevicesFound DEF PathsResolve
<1> QED BY <1>1, <1>2, <1>3, PTL DEF MountsSpec

-----------------------------------------------------------------------------
(***************************************************************************)
(* Serial.  What a device has written is in three places, in its order:    *)
(* sent, taken by the handler, and still in its buffer.                    *)
(***************************************************************************)

Writers == Devices \cup {"line"}
Byte == Writers \X Nat
Tagged == Devices \X Byte

(* Place i of w holds a byte that d wrote; place i of o does.               *)
SentAt(d, w, i) == i \in 1..Len(w) /\ w[i][1] = d /\ w[i][2][1] = d
LeftAt(d, o, i) == i \in 1..Len(o) /\ o[i][1] = d

(* WritesSentInOrder for one device: w was taken, o is left, n were written. *)
InOrder(d, w, o, n) ==
  /\ \A i : SentAt(d, w, i) => w[i][2][2] \in 1..n
  /\ \A i : LeftAt(d, o, i) => o[i][2] \in 1..n
  /\ \A k \in 1..n : (\E i : SentAt(d, w, i) /\ w[i][2][2] = k) \/ (\E i : LeftAt(d, o, i) /\ o[i][2] = k)
  /\ \A i, j : SentAt(d, w, i) /\ SentAt(d, w, j) /\ i < j => w[i][2][2] < w[j][2][2]
  /\ \A i, j : LeftAt(d, o, i) /\ LeftAt(d, o, j) /\ i < j => o[i][2] < o[j][2]
  /\ \A i, j : SentAt(d, w, i) /\ LeftAt(d, o, j) => w[i][2][2] < o[j][2]

SerialInv ==
  /\ output \in [Devices -> Seq(Byte)] /\ wire \in Seq(Tagged) /\ batch \in Seq(Tagged)
  /\ written \in [Devices -> Nat] /\ rxFifo \in Seq({"line"} \X Nat) /\ arrived \in Nat
  /\ \A d \in Devices : InOrder(d, wire \o batch, output[d], written[d])

(* Lengths and places of a sequence.                                        *)
LEMMA SeqOf ==
  ASSUME NEW T, NEW s \in Seq(T)
  PROVE  Len(s) \in Nat /\ DOMAIN s = 1..Len(s) /\ \A i \in 1..Len(s) : s[i] \in T
  BY SMTT(30)

(* A received byte is no device's own.                                      *)
LEMMA NotTheLine == \A d \in Devices : d # "line"
<1> SUFFICES ASSUME NEW d \in Devices PROVE d # "line"
  OBVIOUS
<1>1. PICK i \in DOMAIN Subscribers : d = Subscribers[i]
  BY DEF Devices
<1>2. Subscribers \in Seq(STRING \ {"line"})
  BY SerialAssumption
<1>3. Subscribers[i] \in STRING \ {"line"}
  BY <1>1, <1>2, SeqOf
<1> QED BY <1>1, <1>3

(* A sequence with one element more.                                        *)
LEMMA Appended ==
  ASSUME NEW T, NEW x \in Seq(T), NEW y \in T
  PROVE  /\ Append(x, y) \in Seq(T) /\ Len(Append(x, y)) = Len(x) + 1
         /\ Append(x, y)[Len(x) + 1] = y /\ \A i \in 1..Len(x) : Append(x, y)[i] = x[i]
  BY SMTT(30)

(* A pair and its two halves.                                               *)
LEMMA PairIs ==
  ASSUME NEW S, NEW T, NEW x \in S, NEW y \in T
  PROVE  <<x, y>> \in S \X T /\ <<x, y>>[1] = x /\ <<x, y>>[2] = y
  OBVIOUS

(* The element at the end of the second part is at the end of the whole.    *)
LEMMA AppendLast ==
  ASSUME NEW T, NEW x \in Seq(T), NEW y \in Seq(T), NEW z \in T
  PROVE  x \o Append(y, z) = Append(x \o y, z)
  BY SMTT(30)

(* A sequence without its first element.                                    *)
LEMMA TailIs ==
  ASSUME NEW T, NEW x \in Seq(T), x # <<>>
  PROVE  /\ Tail(x) \in Seq(T) /\ Len(Tail(x)) = Len(x) - 1 /\ Len(x) \in Nat \ {0}
         /\ Head(x) = x[1] /\ Head(x) \in T /\ \A i \in 1..(Len(x) - 1) : Tail(x)[i] = x[i + 1]
  BY SMTT(30)

(* A write of the device puts the next number at the end of its buffer.     *)
LEMMA OrderWrite ==
  ASSUME NEW d \in Devices, NEW w \in Seq(Tagged), NEW o \in Seq(Byte), NEW n \in Nat, InOrder(d, w, o, n)
  PROVE  InOrder(d, w, Append(o, <<d, n + 1>>), n + 1)
<1> DEFINE b == <<d, n + 1>>
           q == Append(o, b)
<1>1. b \in Byte /\ b[1] = d /\ b[2] = n + 1
  <2>1. d \in Writers
    BY DEF Writers
  <2>2. n + 1 \in Nat
    BY SMTT(30)
  <2> QED BY <2>1, <2>2, PairIs DEF Byte
<1> HIDE DEF b
<1>2. Len(o) \in Nat /\ Len(q) = Len(o) + 1 /\ q[Len(o) + 1] = b /\ \A i \in 1..Len(o) : q[i] = o[i]
  BY <1>1, Appended, SMTT(30)
<1> HIDE DEF q
<1>3. \A i : LeftAt(d, q, i) <=> LeftAt(d, o, i) \/ i = Len(o) + 1
  BY <1>1, <1>2, SMTT(30) DEF LeftAt
<1>4. \A i : LeftAt(d, o, i) => q[i] = o[i] /\ q[i][2] \in 1..n /\ i < Len(o) + 1 /\ i \in Nat
  BY <1>2, SMTT(30) DEF LeftAt, InOrder
<1>5. \A i : SentAt(d, w, i) => w[i][2][2] \in 1..n
  BY DEF InOrder
<1>6. q[Len(o) + 1][2] = n + 1
  BY <1>1, <1>2
<1>7. \A k \in 1..(n + 1) : (\E i : SentAt(d, w, i) /\ w[i][2][2] = k) \/ (\E i : LeftAt(d, q, i) /\ q[i][2] = k)
  <2> TAKE k \in 1..(n + 1)
  <2>1. CASE k = n + 1
    BY <1>3, <1>6, <2>1
  <2>2. CASE k # n + 1
    <3>1. k \in 1..n
      BY <2>2, SMTT(30)
    <3>2. (\E i : SentAt(d, w, i) /\ w[i][2][2] = k) \/ (\E i : LeftAt(d, o, i) /\ o[i][2] = k)
      BY <3>1 DEF InOrder
    <3> QED BY <1>3, <1>4, <3>2
  <2> QED BY <2>1, <2>2
<1>8. ASSUME NEW i, NEW j, LeftAt(d, q, i), LeftAt(d, q, j), i < j PROVE q[i][2] < q[j][2]
  <2>1. LeftAt(d, o, i)
    BY <1>2, <1>3, <1>4, <1>8, SMTT(30)
  <2>2. CASE j = Len(o) + 1
    BY <1>4, <1>6, <2>1, <2>2, SMTT(30)
  <2>3. CASE LeftAt(d, o, j)
    <3>1. o[i][2] < o[j][2]
      BY <1>8, <2>1, <2>3 DEF InOrder
    <3> QED BY <1>4, <2>1, <2>3, <3>1, SMTT(30)
  <2> QED BY <1>3, <1>8, <2>2, <2>3
<1>9. ASSUME NEW i, NEW j, SentAt(d, w, i), LeftAt(d, q, j) PROVE w[i][2][2] < q[j][2]
  <2>1. CASE j = Len(o) + 1
    BY <1>5, <1>6, <1>9, <2>1, SMTT(30)
  <2>2. CASE LeftAt(d, o, j)
    BY <1>4, <1>9, <2>2 DEF InOrder
  <2> QED BY <1>3, <1>9, <2>1, <2>2
<1>10. \A i : SentAt(d, w, i) => w[i][2][2] \in 1..(n + 1)
  BY <1>5, SMTT(30)
<1>11. \A i : LeftAt(d, q, i) => q[i][2] \in 1..(n + 1)
  BY <1>3, <1>4, <1>6, SMTT(30)
<1>12. \A i, j : SentAt(d, w, i) /\ SentAt(d, w, j) /\ i < j => w[i][2][2] < w[j][2][2]
  BY DEF InOrder
<1>13. InOrder(d, w, q, n + 1)
  BY <1>7, <1>8, <1>9, <1>10, <1>11, <1>12 DEF InOrder
<1> QED BY <1>13 DEF q, b

(* A byte of somebody else at the end of either changes nothing.            *)
LEMMA OrderOther ==
  ASSUME NEW d \in Devices, NEW w \in Seq(Tagged), NEW o \in Seq(Byte), NEW n \in Nat, InOrder(d, w, o, n),
         NEW b \in Byte, b[1] # d
  PROVE  InOrder(d, w, Append(o, b), n)
<1> DEFINE q == Append(o, b)
<1>1. Len(o) \in Nat /\ Len(q) = Len(o) + 1 /\ q[Len(o) + 1] = b /\ \A i \in 1..Len(o) : q[i] = o[i]
  BY Appended, SMTT(30)
<1> HIDE DEF q
<1>2. \A i : LeftAt(d, q, i) <=> LeftAt(d, o, i)
  BY <1>1, SMTT(30) DEF LeftAt
<1>3. \A i : LeftAt(d, o, i) => q[i] = o[i]
  BY <1>1 DEF LeftAt
<1>4. InOrder(d, w, q, n)
  BY <1>2, <1>3 DEF InOrder
<1> QED BY <1>4 DEF q

(* The same when the handler takes a byte that the device did not write.    *)
LEMMA OrderTakeOther ==
  ASSUME NEW d \in Devices, NEW w \in Seq(Tagged), NEW o \in Seq(Byte), NEW n \in Nat, InOrder(d, w, o, n),
         NEW e \in Tagged, e[1] # d \/ e[2][1] # d
  PROVE  InOrder(d, Append(w, e), o, n)
<1> DEFINE q == Append(w, e)
<1>1. Len(w) \in Nat /\ Len(q) = Len(w) + 1 /\ q[Len(w) + 1] = e /\ \A i \in 1..Len(w) : q[i] = w[i]
  BY Appended, SMTT(30)
<1> HIDE DEF q
<1>2. \A i : SentAt(d, q, i) <=> SentAt(d, w, i)
  BY <1>1, SMTT(30) DEF SentAt
<1>3. \A i : SentAt(d, w, i) => q[i] = w[i]
  BY <1>1 DEF SentAt
<1>4. InOrder(d, q, o, n)
  BY <1>2, <1>3 DEF InOrder
<1> QED BY <1>4 DEF q

(* The handler moves the head of the device's buffer to the end of what it  *)
(* has taken.                                                               *)
LEMMA OrderTail ==
  ASSUME NEW d \in Devices, NEW w \in Seq(Tagged), NEW o \in Seq(Byte), NEW n \in Nat, InOrder(d, w, o, n),
         o # <<>>, o[1][1] # d
  PROVE  InOrder(d, w, Tail(o), n)
<1> DEFINE q == Tail(o)
<1>1. Len(o) \in Nat \ {0} /\ Len(q) = Len(o) - 1 /\ \A i \in 1..(Len(o) - 1) : q[i] = o[i + 1]
  BY TailIs
<1> HIDE DEF q
<1>2. \A i : LeftAt(d, q, i) => LeftAt(d, o, i + 1) /\ q[i] = o[i + 1] /\ i \in Nat
  BY <1>1, SMTT(30) DEF LeftAt
<1>3. \A i : LeftAt(d, o, i) => LeftAt(d, q, i - 1) /\ q[i - 1] = o[i]
  BY <1>1, SMTT(30) DEF LeftAt
<1>4. \A k \in 1..n : (\E i : SentAt(d, w, i) /\ w[i][2][2] = k) \/ (\E i : LeftAt(d, q, i) /\ q[i][2] = k)
  <2>1. ASSUME NEW k, NEW i, LeftAt(d, o, i), o[i][2] = k PROVE \E j : LeftAt(d, q, j) /\ q[j][2] = k
    <3>1. LeftAt(d, q, i - 1) /\ q[i - 1] = o[i]
      BY <1>3, <2>1
    <3> QED BY <2>1, <3>1
  <2>2. \A k \in 1..n : (\E i : SentAt(d, w, i) /\ w[i][2][2] = k) \/ (\E i : LeftAt(d, o, i) /\ o[i][2] = k)
    BY DEF InOrder
  <2> QED BY <2>1, <2>2
<1>5. ASSUME NEW i, NEW j, LeftAt(d, q, i), LeftAt(d, q, j), i < j PROVE q[i][2] < q[j][2]
  <2>1. i \in Nat /\ j \in Nat
    BY <1>2, <1>5
  <2>2. LeftAt(d, o, i + 1) /\ LeftAt(d, o, j + 1) /\ q[i] = o[i + 1] /\ q[j] = o[j + 1]
    BY <1>2, <1>5
  <2>3. i + 1 < j + 1
    BY <1>5, <2>1, SMTT(30)
  <2>4. \A x, y : LeftAt(d, o, x) /\ LeftAt(d, o, y) /\ x < y => o[x][2] < o[y][2]
    BY DEF InOrder
  <2>5. o[i + 1][2] < o[j + 1][2]
    BY <2>2, <2>3, <2>4
  <2> QED BY <2>2, <2>5
<1>6. /\ \A i : LeftAt(d, q, i) => q[i][2] \in 1..n
      /\ \A i, j : SentAt(d, w, i) /\ LeftAt(d, q, j) => w[i][2][2] < q[j][2]
  <2>1. ASSUME NEW i, LeftAt(d, q, i) PROVE q[i][2] \in 1..n
    BY <1>2, <2>1 DEF InOrder
  <2>2. ASSUME NEW i, NEW j, SentAt(d, w, i), LeftAt(d, q, j) PROVE w[i][2][2] < q[j][2]
    <3>1. LeftAt(d, o, j + 1) /\ q[j] = o[j + 1]
      BY <1>2, <2>2
    <3> QED BY <2>2, <3>1 DEF InOrder
  <2> QED BY <2>1, <2>2
<1>7. /\ \A i : SentAt(d, w, i) => w[i][2][2] \in 1..n
      /\ \A i, j : SentAt(d, w, i) /\ SentAt(d, w, j) /\ i < j => w[i][2][2] < w[j][2][2]
  BY DEF InOrder
<1>8. InOrder(d, w, q, n)
  BY <1>4, <1>5, <1>6, <1>7 DEF InOrder
<1> QED BY <1>8 DEF q

(* The handler moves the first byte of the buffer, written by the device,   *)
(* to the end of what it has taken.                                         *)
LEMMA OrderTake ==
  ASSUME NEW d \in Devices, NEW w \in Seq(Tagged), NEW o \in Seq(Byte), NEW n \in Nat, InOrder(d, w, o, n),
         o # <<>>, o[1][1] = d
  PROVE  InOrder(d, Append(w, <<d, o[1]>>), Tail(o), n)
<1> DEFINE q == Tail(o)
           e == <<d, o[1]>>
           u == Append(w, e)
<1>1. Len(o) \in Nat \ {0} /\ Len(q) = Len(o) - 1 /\ (\A i \in 1..(Len(o) - 1) : q[i] = o[i + 1]) /\ o[1] \in Byte
  BY TailIs
<1>2. e \in Tagged /\ e[1] = d /\ e[2] = o[1]
  BY <1>1 DEF Tagged
<1> HIDE DEF q, e
<1>3. Len(w) \in Nat /\ Len(u) = Len(w) + 1 /\ u[Len(w) + 1] = e /\ \A i \in 1..Len(w) : u[i] = w[i]
  BY <1>2, Appended, SMTT(30)
<1> HIDE DEF u
<1>4. \A i : LeftAt(d, q, i) => LeftAt(d, o, i + 1) /\ q[i] = o[i + 1] /\ i \in Nat /\ 1 < i + 1
  BY <1>1, SMTT(30) DEF LeftAt
<1>5. \A i : LeftAt(d, o, i) => i = 1 \/ (LeftAt(d, q, i - 1) /\ q[i - 1] = o[i])
  BY <1>1, SMTT(30) DEF LeftAt
<1>6. LeftAt(d, o, 1) /\ u[Len(w) + 1][2][2] = o[1][2] /\ o[1][2] \in 1..n
  <2>1. LeftAt(d, o, 1)
    BY <1>1, SMTT(30) DEF LeftAt
  <2>2. o[1][2] \in 1..n
    BY <2>1 DEF InOrder
  <2>3. u[Len(w) + 1][2] = o[1]
    BY <1>2, <1>3
  <2> QED BY <2>1, <2>2, <2>3
<1>7. \A i : SentAt(d, u, i) <=> SentAt(d, w, i) \/ i = Len(w) + 1
  BY <1>2, <1>3, SMTT(30) DEF SentAt
<1>8. \A i : SentAt(d, w, i) => u[i] = w[i] /\ i < Len(w) + 1 /\ i \in Nat
  BY <1>3, SMTT(30) DEF SentAt
<1>9. \A k \in 1..n : (\E i : SentAt(d, u, i) /\ u[i][2][2] = k) \/ (\E i : LeftAt(d, q, i) /\ q[i][2] = k)
  <2> TAKE k \in 1..n
  <2>1. (\E i : SentAt(d, w, i) /\ w[i][2][2] = k) \/ (\E i : LeftAt(d, o, i) /\ o[i][2] = k)
    BY DEF InOrder
  <2>2. CASE \E i : SentAt(d, w, i) /\ w[i][2][2] = k
    BY <1>7, <1>8, <2>2
  <2>3. CASE \E i : LeftAt(d, o, i) /\ o[i][2] = k
    BY <1>5, <1>6, <1>7, <2>3
  <2> QED BY <2>1, <2>2, <2>3
<1>10. ASSUME NEW i, NEW j, LeftAt(d, q, i), LeftAt(d, q, j), i < j PROVE q[i][2] < q[j][2]
  <2>1. i + 1 < j + 1
    BY <1>4, <1>10, SMTT(30)
  <2>2. LeftAt(d, o, i + 1) /\ LeftAt(d, o, j + 1) /\ q[i] = o[i + 1] /\ q[j] = o[j + 1]
    BY <1>4, <1>10
  <2>3. o[i + 1][2] < o[j + 1][2]
    BY <2>1, <2>2 DEF InOrder
  <2> QED BY <2>2, <2>3
<1>11. \A i : LeftAt(d, q, i) => q[i][2] \in 1..n
  <2>1. \A i : LeftAt(d, o, i) => o[i][2] \in 1..n
    BY DEF InOrder
  <2> QED BY <1>4, <2>1
<1>12. ASSUME NEW i, NEW j, SentAt(d, u, i), SentAt(d, u, j), i < j PROVE u[i][2][2] < u[j][2][2]
  <2>1. SentAt(d, w, i)
    BY <1>3, <1>7, <1>8, <1>12, SMTT(30)
  <2>2. CASE j = Len(w) + 1
    <3>1. w[i][2][2] < o[1][2]
      BY <1>6, <2>1 DEF InOrder
    <3> QED BY <1>6, <1>8, <2>1, <2>2, <3>1
  <2>3. CASE SentAt(d, w, j)
    BY <1>8, <1>12, <2>1, <2>3 DEF InOrder
  <2> QED BY <1>7, <1>12, <2>2, <2>3
<1>13. \A i : SentAt(d, u, i) => u[i][2][2] \in 1..n
  BY <1>6, <1>7, <1>8 DEF InOrder
<1>14. ASSUME NEW i, NEW j, SentAt(d, u, i), LeftAt(d, q, j) PROVE u[i][2][2] < q[j][2]
  <2>1. LeftAt(d, o, j + 1) /\ q[j] = o[j + 1] /\ 1 < j + 1
    BY <1>4, <1>14
  <2>2. CASE i = Len(w) + 1
    BY <1>6, <2>1, <2>2, SMTT(30) DEF InOrder
  <2>3. CASE SentAt(d, w, i)
    BY <1>8, <2>1, <2>3 DEF InOrder
  <2> QED BY <1>7, <1>14, <2>2, <2>3
<1>15. InOrder(d, u, q, n)
  BY <1>9, <1>10, <1>11, <1>12, <1>13, <1>14 DEF InOrder
<1> QED BY <1>15 DEF u, e, q

(* InOrder for every device is the property.                                *)
LEMMA OrderIsProperty == SerialInv => WritesSentInOrder
<1> SUFFICES ASSUME SerialInv, NEW d \in Devices
             PROVE  /\ {Taken[i][2][2] : i \in Sent(d)} \cup {output[d][i][2] : i \in Unsent(d)} = 1..written[d]
                    /\ \A i, j \in Sent(d) : i < j => Taken[i][2][2] < Taken[j][2][2]
                    /\ \A i, j \in Unsent(d) : i < j => output[d][i][2] < output[d][j][2]
                    /\ \A i \in Sent(d), j \in Unsent(d) : Taken[i][2][2] < output[d][j][2]
  BY DEF WritesSentInOrder
<1> DEFINE w == Taken
           o == output[d]
           n == written[d]
<1>1. w \in Seq(Tagged) /\ o \in Seq(Byte) /\ n \in Nat
  BY SMTT(30) DEF SerialInv, Taken
<1>2. DOMAIN w = 1..Len(w) /\ DOMAIN o = 1..Len(o)
  BY <1>1, SeqOf
<1>3. InOrder(d, w, o, n)
  BY DEF SerialInv, Taken
<1>4. \A i : i \in Sent(d) <=> SentAt(d, w, i)
  BY <1>2 DEF Sent, SentAt
<1>5. \A i : i \in Unsent(d) <=> LeftAt(d, o, i)
  BY <1>2 DEF Unsent, LeftAt
<1> HIDE DEF w, o, n
<1>6. {w[i][2][2] : i \in Sent(d)} \cup {o[i][2] : i \in Unsent(d)} = 1..n
  <2>1. ASSUME NEW k \in {w[i][2][2] : i \in Sent(d)} \cup {o[i][2] : i \in Unsent(d)} PROVE k \in 1..n
    BY <1>3, <1>4, <1>5 DEF InOrder
  <2>2. ASSUME NEW k \in 1..n PROVE k \in {w[i][2][2] : i \in Sent(d)} \cup {o[i][2] : i \in Unsent(d)}
    <3>1. (\E i : SentAt(d, w, i) /\ w[i][2][2] = k) \/ (\E i : LeftAt(d, o, i) /\ o[i][2] = k)
      BY <1>3 DEF InOrder
    <3> QED BY <1>4, <1>5, <3>1
  <2> QED BY <2>1, <2>2
<1>7. /\ \A i, j \in Sent(d) : i < j => w[i][2][2] < w[j][2][2]
      /\ \A i, j \in Unsent(d) : i < j => o[i][2] < o[j][2]
      /\ \A i \in Sent(d), j \in Unsent(d) : w[i][2][2] < o[j][2]
  BY <1>3, <1>4, <1>5 DEF InOrder
<1> QED BY <1>6, <1>7 DEF w, o, n

(* At first nothing is written, and nothing waits.                          *)
LEMMA SerialInitInv == SerialInit => SerialInv
<1> SUFFICES ASSUME SerialInit PROVE SerialInv
  OBVIOUS
<1>1. /\ output \in [Devices -> Seq(Byte)] /\ wire \in Seq(Tagged) /\ batch \in Seq(Tagged)
      /\ written \in [Devices -> Nat] /\ rxFifo \in Seq({"line"} \X Nat) /\ arrived \in Nat
  BY SMTT(30) DEF SerialInit
<1>2. ASSUME NEW d \in Devices PROVE InOrder(d, wire \o batch, output[d], written[d])
  <2>1. output[d] = <<>> /\ wire \o batch = <<>> /\ written[d] = 0
    BY SMTT(30) DEF SerialInit
  <2>2. Len(<<>>) = 0 /\ 1..0 = {}
    BY SMTT(30)
  <2>3. InOrder(d, <<>>, <<>>, 0)
    BY <2>2 DEF InOrder, SentAt, LeftAt
  <2> QED BY <2>1, <2>3
<1> QED BY <1>1, <1>2 DEF SerialInv

(* A byte that came in is put into buffers as somebody else's.              *)
LEMMA ReadInv == SerialInv /\ try_serial_read => SerialInv'
<1> SUFFICES ASSUME SerialInv, try_serial_read, serial_received PROVE SerialInv'
  <2>1. ASSUME SerialInv, try_serial_read, ~serial_received PROVE SerialInv'
    BY <2>1 DEF SerialInv, try_serial_read
  <2> QED BY <2>1
<1>1. /\ output' = [d \in Devices |-> TryWrite(output[d], Head(rxFifo))]
      /\ rxFifo' = Tail(rxFifo) /\ rxFifo # <<>>
      /\ wire' = wire /\ batch' = batch /\ written' = written /\ arrived' = arrived
  BY DEF try_serial_read, serial_received
<1>2. /\ output \in [Devices -> Seq(Byte)] /\ wire \in Seq(Tagged) /\ batch \in Seq(Tagged)
      /\ written \in [Devices -> Nat] /\ rxFifo \in Seq({"line"} \X Nat) /\ arrived \in Nat
  BY DEF SerialInv
<1>3. Head(rxFifo) \in {"line"} \X Nat /\ rxFifo' \in Seq({"line"} \X Nat)
  BY <1>1, <1>2, TailIs
<1>4. PICK b \in {"line"} \X Nat : b = Head(rxFifo)
  BY <1>3
<1>5. b \in Byte /\ b[1] = "line"
  <2>1. b[1] = "line" /\ b[2] \in Nat /\ b = <<b[1], b[2]>>
    BY SMTT(30)
  <2>2. "line" \in Writers
    BY DEF Writers
  <2>3. <<"line", b[2]>> \in Writers \X Nat
    BY <2>1, <2>2, PairIs
  <2> QED BY <2>1, <2>3 DEF Byte
<1>6. ASSUME NEW d \in Devices
      PROVE  output'[d] \in Seq(Byte) /\ InOrder(d, wire \o batch, output'[d], written[d])
  <2>1. output'[d] = IF Len(output[d]) < BufferSize THEN Append(output[d], b) ELSE output[d]
    BY <1>1, <1>4 DEF TryWrite
  <2>2. InOrder(d, wire \o batch, output[d], written[d]) /\ output[d] \in Seq(Byte)
        /\ wire \o batch \in Seq(Tagged) /\ written[d] \in Nat
    BY <1>2, SMTT(30) DEF SerialInv
  <2>3. b[1] # d
    BY <1>5, NotTheLine
  <2>4. Append(output[d], b) \in Seq(Byte)
    BY <1>5, <2>2, SMTT(30)
  <2>5. InOrder(d, wire \o batch, Append(output[d], b), written[d])
    BY <1>5, <2>2, <2>3, OrderOther
  <2> QED BY <2>1, <2>2, <2>4, <2>5
<1>7. output' \in [Devices -> Seq(Byte)]
  <2>1. output' = [d \in Devices |-> output'[d]]
    BY <1>1
  <2> QED BY <1>6, <2>1
<1> QED BY <1>1, <1>2, <1>3, <1>6, <1>7 DEF SerialInv

(* try_serial_write takes the next byte of the first device that has one.   *)
LEMMA FillInv == SerialInv /\ FillBatch => SerialInv'
<1> SUFFICES ASSUME SerialInv, FillBatch, Len(batch) < FifoSize, Ready # {} PROVE SerialInv'
  <2>1. ASSUME SerialInv, FillBatch, ~(Len(batch) < FifoSize /\ Ready # {}) PROVE SerialInv'
    BY <2>1 DEF SerialInv, FillBatch
  <2> QED BY <2>1
<1> DEFINE i0 == CHOOSE i \in Ready : \A j \in Ready : i <= j
<1>1. /\ output \in [Devices -> Seq(Byte)] /\ wire \in Seq(Tagged) /\ batch \in Seq(Tagged)
      /\ written \in [Devices -> Nat] /\ rxFifo \in Seq({"line"} \X Nat) /\ arrived \in Nat
  BY DEF SerialInv
<1>2. PICK f : f = FirstReady
  OBVIOUS
<1>3. f \in Devices /\ output[f] # <<>>
  <2>1. Ready \in SUBSET Nat
    <3>1. Subscribers \in Seq(STRING \ {"line"})
      BY SerialAssumption
    <3>2. DOMAIN Subscribers \subseteq Nat
      BY <3>1, SeqOf, SMTT(30)
    <3> QED BY <3>2 DEF Ready
  <2>2. \E i \in Ready : \A j \in Ready : i <= j
    BY <2>1, LeastNatural
  <2>3. i0 \in Ready
    BY <2>2
  <2>4. f = Subscribers[i0]
    BY <1>2 DEF FirstReady
  <2> HIDE DEF i0
  <2> QED BY <2>3, <2>4 DEF Ready, Devices
<1>4. /\ batch' = Append(batch, <<f, Head(output[f])>>) /\ output' = [output EXCEPT ![f] = Tail(@)]
      /\ wire' = wire /\ written' = written /\ rxFifo' = rxFifo /\ arrived' = arrived
  BY <1>2 DEF FillBatch
<1>5. output[f] \in Seq(Byte) /\ Head(output[f]) = output[f][1] /\ output[f][1] \in Byte /\ Tail(output[f]) \in Seq(Byte)
  BY <1>1, <1>3, TailIs, SMTT(30)
<1>6. PICK e \in Tagged : e = <<f, output[f][1]>>
  BY <1>3, <1>5 DEF Tagged
<1>7. batch' = Append(batch, e) /\ batch' \in Seq(Tagged) /\ output' \in [Devices -> Seq(Byte)] /\ e[1] = f
  <2>1. batch' = Append(batch, e)
    BY <1>4, <1>5, <1>6
  <2>2. e[1] = f
    BY <1>6
  <2>3. output' \in [Devices -> Seq(Byte)]
    BY <1>1, <1>4, <1>5
  <2> QED BY <1>1, <2>1, <2>2, <2>3, SMTT(30)
<1>8. wire' \o batch' = Append(wire \o batch, e) /\ wire \o batch \in Seq(Tagged)
  <2>1. wire \o Append(batch, e) = Append(wire \o batch, e)
    BY <1>1, AppendLast, SMTT(30)
  <2>2. wire' \o batch' = wire \o Append(batch, e)
    BY <1>4, <1>7
  <2>3. wire \o batch \in Seq(Tagged)
    BY <1>1, SMTT(30)
  <2> QED BY <2>1, <2>2, <2>3
<1>9. ASSUME NEW d \in Devices
      PROVE  InOrder(d, Append(wire \o batch, e), output'[d], written[d])
  <2>1. InOrder(d, wire \o batch, output[d], written[d]) /\ output[d] \in Seq(Byte) /\ written[d] \in Nat
    BY <1>1 DEF SerialInv
  <2>2. CASE d # f
    <3>1. output'[d] = output[d]
      BY <1>1, <1>4, <2>2
    <3> QED BY <1>7, <1>8, <2>1, <2>2, <3>1, OrderTakeOther
  <2>3. CASE d = f
    <3>1. output'[d] = Tail(output[d])
      BY <1>1, <1>3, <1>4, <2>3
    <3>2. CASE output[d][1][1] = d
      <4>1. InOrder(d, Append(wire \o batch, <<d, output[d][1]>>), Tail(output[d]), written[d])
        BY <1>3, <1>8, <2>1, <2>3, <3>2, OrderTake
      <4> QED BY <1>6, <2>3, <3>1, <4>1
    <3>3. CASE output[d][1][1] # d
      <4>1. InOrder(d, wire \o batch, Tail(output[d]), written[d])
        BY <1>3, <1>8, <2>1, <2>3, <3>3, OrderTail
      <4>2. e[2][1] # d
        BY <1>6, <2>3, <3>3
      <4>3. Tail(output[d]) \in Seq(Byte)
        BY <1>5, <2>3
      <4> QED BY <1>8, <2>1, <3>1, <4>1, <4>2, <4>3, OrderTakeOther
    <3> QED BY <3>2, <3>3
  <2> QED BY <2>2, <2>3
<1> QED BY <1>1, <1>4, <1>7, <1>8, <1>9 DEF SerialInv

(* Sending the batch changes nothing about the order.                       *)
LEMMA SendInv == SerialInv /\ SendBatch => SerialInv'
<1> SUFFICES ASSUME SerialInv, SendBatch PROVE SerialInv'
  OBVIOUS
<1>1. /\ output \in [Devices -> Seq(Byte)] /\ wire \in Seq(Tagged) /\ batch \in Seq(Tagged)
      /\ written \in [Devices -> Nat] /\ rxFifo \in Seq({"line"} \X Nat) /\ arrived \in Nat
  BY DEF SerialInv
<1>2. /\ wire' = wire \o batch /\ batch' = <<>> /\ UNCHANGED <<output, rxFifo, arrived, written>>
  BY DEF SendBatch
<1>3. wire' \in Seq(Tagged) /\ batch' \in Seq(Tagged) /\ wire' \o batch' = wire \o batch
  BY <1>1, <1>2, SMTT(30)
<1> QED BY <1>1, <1>2, <1>3 DEF SerialInv

(* A write of a device appends its next byte.                               *)
LEMMA WriteInv ==
  ASSUME SerialInv, NEW d \in Devices, serial_cdev_write(d)
  PROVE  SerialInv'
<1>1. /\ output \in [Devices -> Seq(Byte)] /\ wire \in Seq(Tagged) /\ batch \in Seq(Tagged)
      /\ written \in [Devices -> Nat] /\ rxFifo \in Seq({"line"} \X Nat) /\ arrived \in Nat
  BY DEF SerialInv
<1>2. /\ output' = [output EXCEPT ![d] = Append(@, <<d, written[d] + 1>>)]
      /\ written' = [written EXCEPT ![d] = @ + 1]
      /\ UNCHANGED <<wire, batch, rxFifo, arrived>>
  BY DEF serial_cdev_write
<1>3. <<d, written[d] + 1>> \in Byte
  BY <1>1, SMTT(30) DEF Byte, Writers
<1>4. PICK b \in Byte : b = <<d, written[d] + 1>>
  BY <1>3
<1>5. /\ output' = [output EXCEPT ![d] = Append(@, b)]
  BY <1>2, <1>4
<1>6. Append(output[d], b) \in Seq(Byte)
  BY <1>1, SMTT(30)
<1>7. output' \in [Devices -> Seq(Byte)] /\ written' \in [Devices -> Nat]
      /\ output'[d] = Append(output[d], b) /\ written'[d] = written[d] + 1
      /\ \A x \in Devices : x # d => output'[x] = output[x] /\ written'[x] = written[x]
  <2>1. written' \in [Devices -> Nat] /\ written'[d] = written[d] + 1
        /\ \A x \in Devices : x # d => written'[x] = written[x]
    BY <1>1, <1>2, SMTT(30)
  <2>2. output' \in [Devices -> Seq(Byte)] /\ output'[d] = Append(output[d], b)
        /\ \A x \in Devices : x # d => output'[x] = output[x]
    BY <1>1, <1>5, <1>6
  <2> QED BY <2>1, <2>2
<1>8. InOrder(d, wire \o batch, Append(output[d], <<d, written[d] + 1>>), written[d] + 1)
  <2>1. InOrder(d, wire \o batch, output[d], written[d]) /\ output[d] \in Seq(Byte) /\ written[d] \in Nat
        /\ wire \o batch \in Seq(Tagged)
    BY <1>1, SMTT(30) DEF SerialInv
  <2> QED BY <2>1, OrderWrite
<1>9. ASSUME NEW x \in Devices PROVE InOrder(x, wire \o batch, output'[x], written'[x])
  <2>1. CASE x = d
    BY <1>4, <1>7, <1>8, <2>1
  <2>2. CASE x # d
    BY <1>7, <2>2 DEF SerialInv
  <2> QED BY <2>1, <2>2
<1> QED BY <1>1, <1>2, <1>7, <1>9 DEF SerialInv

(* Whatever comes in on the line and however the devices share the port,    *)
(* the bytes a device writes are sent once and in the order of its writes.  *)
THEOREM SerialCorrect == SerialSpec => []WritesSentInOrder
<1>1. SerialInv /\ [SerialNext]_serialVars => SerialInv'
  <2> SUFFICES ASSUME SerialInv, [SerialNext]_serialVars PROVE SerialInv'
    OBVIOUS
  <2>1. ASSUME UNCHANGED <<output, wire, batch, written, rxFifo, arrived>> PROVE SerialInv'
    BY <2>1 DEF SerialInv
  <2>2. CASE ByteArrives
    <3>1. rxFifo \in Seq({"line"} \X Nat) /\ arrived \in Nat
      BY DEF SerialInv
    <3>2. /\ rxFifo' = Append(rxFifo, <<"line", arrived + 1>>) /\ arrived' = arrived + 1
          /\ UNCHANGED <<output, wire, batch, written>>
      BY <2>2 DEF ByteArrives, Received
    <3>3. <<"line", arrived + 1>> \in {"line"} \X Nat
      BY <3>1, SMTT(30)
    <3>4. rxFifo' \in Seq({"line"} \X Nat) /\ arrived' \in Nat
      BY <3>1, <3>2, <3>3, SMTT(30)
    <3> QED BY <3>2, <3>4 DEF SerialInv
  <2>3. CASE TransmitDone \/ CheckPort \/ SleepHandler
    BY <2>1, <2>3 DEF TransmitDone, CheckPort, SleepHandler
  <2>4. CASE UNCHANGED serialVars
    BY <2>1, <2>4 DEF serialVars
  <2> QED BY <2>2, <2>3, <2>4, ReadInv, FillInv, SendInv, WriteInv DEF SerialNext
<1> QED BY <1>1, SerialInitInv, OrderIsProperty, PTL DEF SerialSpec

-----------------------------------------------------------------------------
(***************************************************************************)
(* Stream.  What fwrite was given is what was written, without what short  *)
(* writes left over, followed by what is in the buffer, which holds no     *)
(* more than its mode lets it keep.                                        *)
(***************************************************************************)

\* The chunk that fwrite puts into the buffer.

(* Two runs of characters, one after the other.                             *)
LEMMA Joined ==
  ASSUME NEW s \in Seq(Chars), NEW t \in Seq(Chars)
  PROVE  /\ s \o t \in Seq(Chars)
         /\ Len(s \o t) = Len(s) + Len(t)
         /\ \A i \in 1..(Len(s) + Len(t)) :
              (s \o t)[i] = IF i <= Len(s) THEN s[i] ELSE t[i - Len(s)]
  BY SMTT(30)

(* Two runs of places, one after the other.                                 *)
LEMMA JoinedPlaces ==
  ASSUME NEW s \in Seq(Nat), NEW t \in Seq(Nat)
  PROVE  /\ s \o t \in Seq(Nat)
         /\ Len(s \o t) = Len(s) + Len(t)
         /\ \A i \in 1..(Len(s) + Len(t)) :
              (s \o t)[i] = IF i <= Len(s) THEN s[i] ELSE t[i - Len(s)]
  BY SMTT(30)

(* Nothing adds nothing.                                                    *)
LEMMA JoinedNothing ==
  /\ <<>> \in Seq(Chars) /\ Len(<<>>) = 0
  /\ \A s \in Seq(Chars) : s \o <<>> = s
<1>1. ASSUME NEW s \in Seq(Chars) PROVE s \o <<>> = s
  BY SMTT(30)
<1> QED
  BY <1>1, SMTT(30)

(* The search for a newline in a chunk that has one ends inside the chunk.  *)
LEMMA NewlineInside ==
  ASSUME NEW s \in Seq(Chars), \E i \in DOMAIN s : s[i] = Newline
  PROVE  FirstNewline(s) \in 1..Len(s)
<1> DEFINE I == {i \in 1..Len(s) : s[i] = Newline}
<1>1. I \in SUBSET Nat /\ I # {} /\ DOMAIN s = 1..Len(s) /\ Len(s) \in Nat
  BY SMTT(30)
<1>2. PICK n \in I : \A m \in I : n <= m
  BY <1>1, LeastNatural
<1>3. ASSUME NEW j \in 1..(n - 1) PROVE s[j] # Newline
  <2>1. j \in 1..Len(s) /\ ~(n <= j)
    BY <1>1, SMTT(30)
  <2> QED BY <1>2, <2>1
<1>4. n \in DOMAIN s /\ s[n] = Newline
  BY <1>1
<1> HIDE DEF I
<1> QED BY <1>1, <1>3, <1>4 DEF FirstNewline

(* What is left of the characters follows the chunk taken from them.        *)
LEMMA BatchSplits ==
  ASSUME NEW s \in Seq(Chars), NEW n \in 1..Len(s)
  PROVE  /\ SubSeq(s, 1, n) \in Seq(Chars) /\ Len(SubSeq(s, 1, n)) = n
         /\ SubSeq(s, n + 1, Len(s)) \in Seq(Chars)
  BY SMTT(30)

(* A chunk is not empty and fits.                                           *)
LEMMA BatchFits ==
  ASSUME NEW s \in Seq(Chars), s # <<>>, buf \in Seq(Chars), Len(buf) < BufSize
  PROVE  BatchSize(s) \in 1..Len(s) /\ BatchSize(s) <= BufSize - Len(buf)
<1> DEFINE fits == IF Len(s) < BufSize - Len(buf) THEN Len(s) ELSE BufSize - Len(buf)
           chunk == SubSeq(s, 1, fits)
<1>1. fits \in 1..Len(s) /\ fits <= BufSize - Len(buf)
  BY StreamAssumption, SMTT(30)
<1>2. chunk \in Seq(Chars) /\ Len(chunk) = fits
  BY <1>1, BatchSplits
<1>3. CASE FoundNewline(chunk)
  <2>1. FirstNewline(chunk) \in 1..fits
    BY <1>2, <1>3, NewlineInside DEF FoundNewline
  <2>2. BatchSize(s) = FirstNewline(chunk)
    BY <1>3 DEF BatchSize
  <2>3. BatchSize(s) \in 1..fits
    BY <2>1, <2>2
  <2>4. Len(buf) \in Nat /\ Len(s) \in Nat /\ BufSize \in Nat
    BY StreamAssumption, SMTT(30)
  <2> HIDE DEF fits
  <2> QED
    BY <1>1, <2>3, <2>4, SMTT(30)
<1>4. CASE ~FoundNewline(chunk)
  BY <1>1, <1>4 DEF BatchSize
<1> QED
  BY <1>3, <1>4

-----------------------------------------------------------------------------
\* The inductive invariant.

StreamType ==
  /\ buf_mode \in BufModes
  /\ buf \in Seq(Chars) /\ sent \in Seq(Chars) /\ given \in Seq(Chars)
  /\ fwriting \in Seq(Chars) \cup {Outside}
  /\ loc \in BOOLEAN /\ unsent \in BOOLEAN
  /\ places \in Seq(Nat) /\ Len(places) = Len(sent) /\ dropped \in Nat

\* The characters of s are those of g at the places ps, which grow up to k.
Ordered(s, ps, g, k) ==
  /\ \A i \in DOMAIN s : ps[i] \in 1..k /\ s[i] = g[ps[i]]
  /\ \A i, j \in DOMAIN s : i < j => ps[i] < ps[j]

\* t is s with n more characters, which are in g after the first k; qs and ps
\* are their places.
Longer(s, ps, t, qs, g, k, n) ==
  /\ Len(t) = Len(s) + n
  /\ \A i \in 1..Len(t) :
       IF i <= Len(s) THEN t[i] = s[i] /\ qs[i] = ps[i]
       ELSE t[i] = g[k + (i - Len(s))] /\ qs[i] = k + (i - Len(s))

\* In between the batches a newline in the buffer is known to the loop.
NewlineKnown ==
  buf_mode = "FBM_NEWLINE" /\ ~unsent /\ ~loc => \A i \in DOMAIN buf : buf[i] # Newline

\* Between calls nothing is to be flushed, and without buffering nothing is kept.
BetweenCalls ==
  /\ fwriting = Outside => ~loc
  /\ fwriting = Outside /\ ~unsent => Len(buf) < BufSize
  /\ buf_mode = "FBM_FLUSH" => fwriting = Outside /\ buf = <<>>

StreamInv == StreamType /\ StreamInOrder /\ NewlineKnown /\ BetweenCalls

(* No characters are taken for the mark of a caller that is not in fwrite.  *)
LEMMA OutsideApart == Outside \notin Seq(Chars)
  BY StreamAssumption, SMTT(30) DEF Outside

(* The invariant holds at first.                                            *)
LEMMA StreamInitInv == StreamInit => StreamInv
<1> SUFFICES ASSUME StreamInit PROVE StreamInv
  OBVIOUS
<1>1. StreamType
  <2>1. <<>> \in Seq(Nat) /\ 0 \in Nat
    BY ONLY SMTT(30)
  <2>2. /\ buf_mode \in BufModes /\ buf = <<>> /\ fwriting = Outside /\ loc = FALSE
        /\ sent = <<>> /\ given = <<>> /\ places = <<>> /\ dropped = 0 /\ unsent = FALSE
    BY DEF StreamInit
  <2> QED BY <2>1, <2>2, JoinedNothing DEF StreamType
<1>2. StreamInOrder
  BY StreamAssumption, JoinedNothing, SMTT(30) DEF StreamInit, StreamInOrder
<1>3. NewlineKnown /\ BetweenCalls
  BY StreamAssumption, JoinedNothing, SMTT(30) DEF StreamInit, NewlineKnown, BetweenCalls
<1> QED
  BY <1>1, <1>2, <1>3 DEF StreamInv

(* More characters from further behind keep the order.                      *)
LEMMA OrderGrows ==
  ASSUME NEW s \in Seq(Chars), NEW t \in Seq(Chars), NEW ps \in Seq(Nat), NEW qs \in Seq(Nat),
         NEW g, NEW k \in Nat, NEW n \in Nat, NEW m \in Nat, k + n <= m,
         Ordered(s, ps, g, k), Longer(s, ps, t, qs, g, k, n)
  PROVE  Ordered(t, qs, g, m)
<1>1. /\ Len(s) \in Nat /\ DOMAIN s = 1..Len(s) /\ DOMAIN t = 1..Len(t) /\ Len(t) = Len(s) + n
  BY SMTT(30) DEF Longer
<1>2. ASSUME NEW i \in 1..Len(t), i <= Len(s)
      PROVE  i \in 1..Len(s) /\ t[i] = s[i] /\ qs[i] = ps[i] /\ ps[i] \in 1..k /\ s[i] = g[ps[i]]
  <2>1. i \in 1..Len(s)
    BY <1>1, <1>2, SMTT(30)
  <2> QED BY <1>1, <1>2, <2>1 DEF Ordered, Longer
<1>3. ASSUME NEW i \in 1..Len(t), ~(i <= Len(s))
      PROVE  t[i] = g[k + (i - Len(s))] /\ qs[i] = k + (i - Len(s)) /\ qs[i] \in (k + 1)..m
  <2>1. t[i] = g[k + (i - Len(s))] /\ qs[i] = k + (i - Len(s))
    BY <1>3 DEF Longer
  <2>2. k + (i - Len(s)) \in (k + 1)..m
    BY <1>1, <1>3, SMTT(30)
  <2> QED BY <2>1, <2>2
<1>4. ASSUME NEW i \in 1..Len(t)
      PROVE  qs[i] \in 1..m /\ t[i] = g[qs[i]]
  <2>1. CASE i <= Len(s)
    <3>1. ps[i] \in 1..m
      BY <1>2, <2>1, SMTT(30)
    <3> QED BY <1>2, <2>1, <3>1
  <2>2. CASE ~(i <= Len(s))
    <3>1. qs[i] \in 1..m
      BY <1>3, <2>2, SMTT(30)
    <3> QED BY <1>3, <2>2, <3>1
  <2> QED BY <2>1, <2>2
<1>5. ASSUME NEW i \in 1..Len(t), NEW j \in 1..Len(t), i < j
      PROVE  qs[i] < qs[j]
  <2>1. CASE j <= Len(s)
    <3>1. i <= Len(s)
      BY <1>1, <1>5, <2>1, SMTT(30)
    <3>2. i \in DOMAIN s /\ j \in DOMAIN s /\ qs[i] = ps[i] /\ qs[j] = ps[j]
      BY <1>1, <1>2, <2>1, <3>1
    <3> QED BY <1>5, <3>2 DEF Ordered
  <2>2. CASE ~(j <= Len(s)) /\ i <= Len(s)
    <3>1. qs[j] \in (k + 1)..m /\ qs[i] \in 1..k
      BY <1>2, <1>3, <2>2
    <3> QED BY <3>1, SMTT(30)
  <2>3. CASE ~(j <= Len(s)) /\ ~(i <= Len(s))
    <3>1. qs[j] = k + (j - Len(s)) /\ qs[i] = k + (i - Len(s))
      BY <1>3, <2>3
    <3>2. k + (i - Len(s)) < k + (j - Len(s))
      BY <1>1, <1>5, SMTT(30)
    <3> QED BY <3>1, <3>2
  <2> QED BY <2>1, <2>2, <2>3
<1> QED BY <1>1, <1>4, <1>5 DEF Ordered

(* What a write adds to the file.                                           *)
LEMMA WrittenAdds ==
  ASSUME StreamType, NEW data \in Seq(Chars), NEW n \in 0..Len(data), NEW k \in Nat, NEW g,
         WriteTakes(data, n, k), \A i \in 1..n : data[i] = g[k + i]
  PROVE  /\ sent' \in Seq(Chars) /\ places' \in Seq(Nat) /\ Len(places') = Len(sent')
         /\ Longer(sent, places, sent', places', g, k, n)
<1> DEFINE head == SubSeq(data, 1, n)
           at == [i \in 1..n |-> k + i]
<1>1. /\ sent \in Seq(Chars) /\ places \in Seq(Nat) /\ Len(places) = Len(sent) /\ Len(sent) \in Nat
      /\ n \in Nat
  BY SMTT(30) DEF StreamType
<1>2. head \in Seq(Chars) /\ Len(head) = n /\ \A i \in 1..n : head[i] = data[i]
  BY SMTT(30)
<1>3. at \in Seq(Nat) /\ Len(at) = n /\ \A i \in 1..n : at[i] = k + i
  BY <1>1, SMTT(30)
<1>4. sent' = sent \o head /\ places' = places \o at
  BY DEF WriteTakes
<1> HIDE DEF head, at
<1>5. /\ sent' \in Seq(Chars) /\ Len(sent') = Len(sent) + n
      /\ \A i \in 1..(Len(sent) + n) : sent'[i] = IF i <= Len(sent) THEN sent[i] ELSE head[i - Len(sent)]
  BY <1>1, <1>2, <1>4, Joined
<1>6. /\ places' \in Seq(Nat) /\ Len(places') = Len(sent) + n
      /\ \A i \in 1..(Len(sent) + n) : places'[i] = IF i <= Len(sent) THEN places[i] ELSE at[i - Len(sent)]
  <2>1. /\ places' \in Seq(Nat) /\ Len(places') = Len(places) + Len(at)
        /\ \A i \in 1..(Len(places) + Len(at)) :
             places'[i] = IF i <= Len(places) THEN places[i] ELSE at[i - Len(places)]
    <3>1. places \in Seq(Nat) /\ at \in Seq(Nat)
      BY <1>1, <1>3
    <3> QED BY ONLY <1>4, <3>1, JoinedPlaces
  <2>2. Len(places) = Len(sent) /\ Len(at) = n
    BY <1>1, <1>3
  <2> QED BY ONLY <2>1, <2>2
<1>7. \A i \in 1..(Len(sent) + n) : ~(i <= Len(sent)) => i - Len(sent) \in 1..n
  BY ONLY <1>1, SMTT(30)
<1> QED BY <1>2, <1>3, <1>5, <1>6, <1>7 DEF Longer

(* The places before k are the same in a longer run of characters.          *)
LEMMA OrderExtends ==
  ASSUME NEW s, NEW ps, NEW g, NEW h, NEW k, Ordered(s, ps, g, k), \A i \in 1..k : h[i] = g[i]
  PROVE  Ordered(s, ps, h, k)
  BY DEF Ordered

(* A flush empties the buffer or changes nothing.                           *)
LEMMA FlushKeeps ==
  ASSUME StreamType, StreamInOrder, Flush, given' = given
  PROVE  /\ buf' \in Seq(Chars) /\ sent' \in Seq(Chars) /\ given' \in Seq(Chars)
         /\ places' \in Seq(Nat) /\ Len(places') = Len(sent') /\ dropped' \in Nat
         /\ unsent' \in BOOLEAN
         /\ StreamInOrder'
         /\ ~unsent' => buf' = <<>>
         /\ buf' \in {buf, <<>>}
<1>1. CASE FlushFails
  BY <1>1 DEF FlushFails, StreamType, StreamInOrder
<1>2. ASSUME NEW n \in 0..Len(buf), WriteTakes(buf, n, Len(given) - Len(buf)), unsent' = FALSE,
             buf' = <<>>, dropped' = dropped + (Len(buf) - n)
      PROVE  /\ buf' \in Seq(Chars) /\ sent' \in Seq(Chars)
             /\ places' \in Seq(Nat) /\ Len(places') = Len(sent') /\ dropped' \in Nat
             /\ StreamInOrder'
  <2> DEFINE k == Len(given) - Len(buf)
  <2>1. /\ buf \in Seq(Chars) /\ sent \in Seq(Chars) /\ given \in Seq(Chars) /\ places \in Seq(Nat)
        /\ Len(buf) \in Nat /\ Len(given) \in Nat /\ Len(sent) \in Nat /\ dropped \in Nat
        /\ DOMAIN buf = 1..Len(buf) /\ n \in Nat /\ n <= Len(buf)
    BY SMTT(30) DEF StreamType
  <2>2. Len(sent) + Len(buf) + dropped = Len(given)
    BY DEF StreamInOrder
  <2>3. k \in Nat /\ k + n <= Len(given) /\ k + Len(buf) = Len(given)
    BY ONLY <2>1, <2>2, SMTT(30)
  <2>4. \A i \in 1..Len(buf) : buf[i] = given[k + i]
    BY <2>1 DEF StreamInOrder
  <2>5. \A i \in 1..n : i \in 1..Len(buf)
    BY ONLY <2>1, SMTT(30)
  <2>6. WriteTakes(buf, n, k)
    BY <1>2
  <2>7. Ordered(sent, places, given, k)
    BY DEF StreamInOrder, Ordered
  <2> HIDE DEF k
  <2>8. /\ sent' \in Seq(Chars) /\ places' \in Seq(Nat) /\ Len(places') = Len(sent')
        /\ Longer(sent, places, sent', places', given, k, n)
    BY <2>1, <2>3, <2>4, <2>5, <2>6, WrittenAdds
  <2>9. Ordered(sent', places', given, Len(given))
    BY <2>1, <2>3, <2>7, <2>8, OrderGrows
  <2>10. Len(buf') = 0 /\ buf' \in Seq(Chars) /\ DOMAIN buf' = {} /\ sent' \o buf' = sent'
    <3>1. buf' \in Seq(Chars) /\ Len(buf') = 0 /\ sent' \o buf' = sent'
      BY <1>2, <2>8, JoinedNothing
    <3>2. DOMAIN buf' = {}
      BY <1>2, SMTT(30)
    <3> QED BY <3>1, <3>2
  <2>11. dropped' \in Nat /\ Len(sent') + 0 + dropped' = Len(given) /\ (dropped' = 0 => dropped = 0 /\ n = Len(buf))
    <3>1. Len(sent') = Len(sent) + n
      BY <2>8 DEF Longer
    <3>2. dropped' = dropped + (Len(buf) - n)
      BY <1>2
    <3>3. Len(buf) \in Nat /\ Len(sent) \in Nat /\ dropped \in Nat /\ n \in Nat /\ n <= Len(buf)
      BY <2>1
    <3> QED BY ONLY <2>2, <3>1, <3>2, <3>3, SMTT(30)
  <2>12. dropped' = 0 => sent' = given
    <3>1. SUFFICES ASSUME dropped' = 0 PROVE sent' = given
      OBVIOUS
    <3>2. n = Len(buf) /\ sent \o buf = given
      BY <2>11, <3>1 DEF StreamInOrder
    <3>3. SubSeq(buf, 1, n) = buf
      BY ONLY <2>1, <3>2, SMTT(30)
    <3> QED BY <2>6, <3>2, <3>3 DEF WriteTakes
  <2>13. StreamInOrder'
    <3>1. Len(given) - 0 = Len(given) /\ 0 <= BufSize
      BY <2>1, StreamAssumption, SMTT(30)
    <3>2. /\ dropped' = 0 => sent' \o buf' = given
          /\ Len(sent') + Len(buf') + dropped' = Len(given)
          /\ \A i \in DOMAIN buf' : buf'[i] = given[Len(given) - Len(buf') + i]
          /\ Len(buf') <= BufSize
      BY <2>10, <2>11, <2>12, <3>1
    <3>3. /\ \A i \in DOMAIN sent' : places'[i] \in 1..(Len(given) - Len(buf')) /\ sent'[i] = given[places'[i]]
          /\ \A i, j \in DOMAIN sent' : i < j => places'[i] < places'[j]
      BY <2>9, <2>10, <3>1 DEF Ordered
    <3> QED BY <3>2, <3>3 DEF StreamInOrder
  <2> QED BY <2>8, <2>10, <2>11, <2>13
<1>3. CASE \E n \in 0..Len(buf) :
             /\ WriteTakes(buf, n, Len(given) - Len(buf)) /\ unsent' = FALSE
             /\ buf' = <<>> /\ dropped' = dropped + (Len(buf) - n)
  BY <1>2, <1>3 DEF StreamType
<1> QED
  BY <1>1, <1>3 DEF Flush

(* A call of fwrite starts, or writes directly.                             *)
LEMMA FwriteInv ==
  ASSUME StreamInv, NEW data \in Seq(Chars), fwrite(data)
  PROVE  StreamInv'
<1>1. CASE buf_mode = "FBM_FLUSH"
  <2>1. /\ buf = <<>> /\ sent \in Seq(Chars) /\ given \in Seq(Chars) /\ places \in Seq(Nat)
        /\ Len(buf) = 0 /\ Len(given) \in Nat /\ Len(sent) \in Nat /\ Len(data) \in Nat /\ dropped \in Nat
        /\ Len(given) - Len(buf) = Len(given)
    <3>1. buf = <<>> /\ sent \in Seq(Chars) /\ given \in Seq(Chars) /\ places \in Seq(Nat) /\ dropped \in Nat
      BY <1>1 DEF StreamInv, StreamType, BetweenCalls
    <3> QED BY ONLY <3>1, data \in Seq(Chars), SMTT(30)
  <2>2. PICK n \in 0..Len(data) : WriteTakes(data, n, Len(given)) /\ given' = given \o SubSeq(data, 1, n)
    BY <1>1 DEF fwrite
  <2>3. UNCHANGED <<buf_mode, buf, fwriting, dropped, unsent>> /\ loc' = FALSE
    BY <1>1 DEF fwrite
  <2>4. n \in Nat /\ n <= Len(data)
    BY ONLY <2>1, n \in 0..Len(data), SMTT(30)
  <2>5. PICK head : head = SubSeq(data, 1, n)
    OBVIOUS
  <2>6. head \in Seq(Chars) /\ Len(head) = n /\ \A i \in 1..n : head[i] = data[i]
    BY ONLY data \in Seq(Chars), <2>4, <2>5, SMTT(30)
  <2>7. given' = given \o head
    BY <2>2, <2>5
  <2>8. /\ given' \in Seq(Chars) /\ Len(given') = Len(given) + n
        /\ \A i \in 1..(Len(given) + n) :
             given'[i] = IF i <= Len(given) THEN given[i] ELSE head[i - Len(given)]
    <3>1. /\ given' \in Seq(Chars) /\ Len(given') = Len(given) + Len(head)
          /\ \A i \in 1..(Len(given) + Len(head)) :
               given'[i] = IF i <= Len(given) THEN given[i] ELSE head[i - Len(given)]
      <4>1. given \in Seq(Chars) /\ head \in Seq(Chars)
        BY <2>1, <2>6
      <4> QED BY ONLY <2>7, <4>1, Joined
    <3>2. Len(head) = n
      BY <2>6
    <3> QED BY ONLY <3>1, <3>2
  <2>9. /\ \A i \in 1..Len(given) : given'[i] = given[i]
        /\ \A i \in 1..n : data[i] = given'[Len(given) + i]
    <3>1. ASSUME NEW i \in 1..Len(given) PROVE i \in 1..(Len(given) + n) /\ i <= Len(given)
      BY ONLY <2>1, <2>4, SMTT(30)
    <3>2. ASSUME NEW i \in 1..n
          PROVE  /\ Len(given) + i \in 1..(Len(given) + n) /\ ~(Len(given) + i <= Len(given))
                 /\ (Len(given) + i) - Len(given) = i
      BY ONLY <2>1, <2>4, SMTT(30)
    <3>3. ASSUME NEW i \in 1..n PROVE given'[Len(given) + i] = data[i]
      <4>1. given'[Len(given) + i] = head[(Len(given) + i) - Len(given)]
        BY <2>8, <3>2
      <4> QED BY <2>6, <3>2, <4>1
    <3> QED BY <2>8, <3>1, <3>3
  <2>10. Ordered(sent, places, given', Len(given))
    <3>1. Ordered(sent, places, given, Len(given))
      BY <2>1 DEF StreamInv, StreamInOrder, Ordered
    <3> QED BY <2>9, <3>1, OrderExtends
  <2>11. /\ sent' \in Seq(Chars) /\ places' \in Seq(Nat) /\ Len(places') = Len(sent')
        /\ Longer(sent, places, sent', places', given', Len(given), n)
    <3>1. PICK g : g = given'
      OBVIOUS
    <3>2. StreamType /\ \A i \in 1..n : data[i] = g[Len(given) + i]
      BY <2>9, <3>1 DEF StreamInv
    <3>3. /\ sent' \in Seq(Chars) /\ places' \in Seq(Nat) /\ Len(places') = Len(sent')
          /\ Longer(sent, places, sent', places', g, Len(given), n)
      BY <2>1, <2>2, <3>2, WrittenAdds
    <3> QED BY <3>1, <3>3
  <2>12. Ordered(sent', places', given', Len(given'))
    <3>1. Len(given) + n <= Len(given') /\ Len(given') \in Nat
      BY ONLY <2>1, <2>4, <2>8, SMTT(30)
    <3> QED BY <2>1, <2>4, <2>10, <2>11, <3>1, OrderGrows
  <2>13. dropped' = 0 => sent' \o buf' = given'
    <3>1. dropped = 0 => sent = given
      BY <2>1, JoinedNothing DEF StreamInv, StreamInOrder
    <3>2. sent' = sent \o SubSeq(data, 1, n) /\ sent' \o buf' = sent'
      BY <2>1, <2>2, <2>3, <2>11, JoinedNothing DEF WriteTakes
    <3> QED BY <2>2, <2>3, <3>1, <3>2
  <2>14. Len(sent') + Len(buf') + dropped' = Len(given')
    <3>1. Len(sent') = Len(sent) + n /\ Len(sent) + Len(buf) + dropped = Len(given)
      BY <2>11 DEF Longer, StreamInv, StreamInOrder
    <3>2. buf' = buf /\ dropped' = dropped /\ Len(given') = Len(given) + n
      BY <2>3, <2>8
    <3>3. Len(sent') + Len(buf) + dropped = Len(given) + n
      <4>1. Len(sent) \in Nat /\ Len(buf) \in Nat /\ dropped \in Nat /\ Len(given) \in Nat
        BY <2>1
      <4> QED BY ONLY <2>4, <3>1, <4>1, SMTT(30)
    <3> QED BY <3>2, <3>3
  <2>15. StreamInOrder'
    <3>1. Len(given') - Len(buf') = Len(given') /\ Len(buf') <= BufSize
      BY <2>1, <2>3, <2>8, StreamAssumption, SMTT(30)
    <3>2. DOMAIN buf' = {}
      BY ONLY <2>1, <2>3, SMTT(30)
    <3> QED BY <2>12, <2>13, <2>14, <3>1, <3>2 DEF StreamInOrder, Ordered
  <2>16. StreamType'
    BY <2>3, <2>8, <2>11 DEF StreamInv, StreamType
  <2> QED BY <1>1, <2>1, <2>3, <2>15, <2>16 DEF StreamInv, NewlineKnown, BetweenCalls
<1>2. CASE buf_mode # "FBM_FLUSH"
  <2>1. fwriting' = data /\ UNCHANGED <<buf_mode, buf, sent, given, places, dropped, unsent>> /\ loc' = FALSE
    BY <1>2 DEF fwrite
  <2>2. ~loc
    BY DEF fwrite, StreamInv, BetweenCalls
  <2>3. StreamType' /\ StreamInOrder'
    BY <2>1 DEF StreamInv, StreamType, StreamInOrder
  <2>5. NewlineKnown'
    BY <2>1, <2>2 DEF StreamInv, NewlineKnown
  <2>4. BetweenCalls'
    BY <1>2, <2>1, OutsideApart DEF BetweenCalls
  <2> QED
    BY <2>3, <2>4, <2>5 DEF StreamInv
<1> QED
  BY <1>1, <1>2

(* The loop flushes a full buffer or a line.                                *)
LEMMA FlushStepInv ==
  ASSUME StreamInv, FlushStep
  PROVE  StreamInv'
<1>1. /\ buf' \in Seq(Chars) /\ sent' \in Seq(Chars) /\ given' \in Seq(Chars)
      /\ places' \in Seq(Nat) /\ Len(places') = Len(sent') /\ dropped' \in Nat
      /\ unsent' \in BOOLEAN
      /\ StreamInOrder' /\ (~unsent' => buf' = <<>>)
  BY FlushKeeps DEF FlushStep, StreamInv
<1>2. StreamType'
  BY <1>1, StreamAssumption DEF FlushStep, StreamInv, StreamType
<1>3. NewlineKnown'
  BY <1>1, SMTT(30) DEF NewlineKnown
<1>4. BetweenCalls'
  BY <1>1, StreamAssumption, SMTT(30) DEF FlushStep, StreamInv, BetweenCalls
<1> QED
  BY <1>1, <1>2, <1>3, <1>4 DEF StreamInv

(* The loop takes a chunk, or ends.                                         *)
LEMMA FillStepInv ==
  ASSUME StreamInv, FillStep
  PROVE  StreamInv'
<1>1. /\ ~loc /\ buf_mode # "FBM_FLUSH" /\ fwriting \in Seq(Chars)
      /\ buf \in Seq(Chars) /\ sent \in Seq(Chars) /\ given \in Seq(Chars)
  BY DEF FillStep, MustFlush, StreamInv, StreamType, BetweenCalls
<1>2. Len(buf) < BufSize
  BY <1>1, StreamAssumption, SMTT(30) DEF FillStep, MustFlush, StreamInv, StreamInOrder
<1>3. CASE fwriting = <<>>
  BY <1>1, <1>2, <1>3 DEF FillStep, StreamInv, StreamType, StreamInOrder, NewlineKnown, BetweenCalls
<1>4. CASE fwriting # <<>>
  <2> DEFINE n == BatchSize(fwriting)
             chunk == SubSeq(fwriting, 1, n)
  <2>1. n \in 1..Len(fwriting) /\ n <= BufSize - Len(buf)
    BY <1>1, <1>2, <1>4, BatchFits
  <2>2. /\ chunk \in Seq(Chars) /\ Len(chunk) = n
        /\ SubSeq(fwriting, n + 1, Len(fwriting)) \in Seq(Chars)
    BY <1>1, <2>1, BatchSplits
  <2>3. /\ loc' = FoundNewline(chunk) /\ buf' = buf \o chunk /\ given' = given \o chunk
        /\ fwriting' = SubSeq(fwriting, Len(chunk) + 1, Len(fwriting))
        /\ UNCHANGED <<buf_mode, sent, places, dropped, unsent>>
    BY <1>4 DEF FillStep
  <2> HIDE DEF n, chunk
  <2>4. fwriting' \in Seq(Chars) /\ fwriting' # Outside
    BY <2>2, <2>3, OutsideApart
  <2>5. /\ buf' \in Seq(Chars) /\ given' \in Seq(Chars) /\ Len(buf') = Len(buf) + n
        /\ \A i \in DOMAIN buf' : buf'[i] = IF i <= Len(buf) THEN buf[i] ELSE chunk[i - Len(buf)]
    <3>1. buf \o chunk \in Seq(Chars) /\ given \o chunk \in Seq(Chars)
      BY <1>1, <2>2, Joined
    <3>2. /\ Len(buf \o chunk) = Len(buf) + Len(chunk)
          /\ \A i \in 1..(Len(buf) + Len(chunk)) :
               (buf \o chunk)[i] = IF i <= Len(buf) THEN buf[i] ELSE chunk[i - Len(buf)]
      BY <1>1, <2>2, Joined
    <3>3. DOMAIN buf' = 1..(Len(buf) + Len(chunk))
      <4>1. DOMAIN (buf \o chunk) = 1..Len(buf \o chunk)
        BY <3>1, SeqOf
      <4> QED
        BY <2>3, <3>2, <4>1
    <3> QED
      BY <2>2, <2>3, <3>1, <3>2, <3>3
  <2>6. StreamInOrder'
    <3>1. /\ Len(given') = Len(given) + n /\ n \in Nat /\ Len(buf) \in Nat /\ Len(given) \in Nat
          /\ \A i \in 1..(Len(given) + n) :
               given'[i] = IF i <= Len(given) THEN given[i] ELSE chunk[i - Len(given)]
      <4>1. n \in Nat /\ Len(buf) \in Nat /\ Len(given) \in Nat
        BY ONLY <1>1, <2>1, SMTT(30)
      <4> QED BY <1>1, <2>2, <2>3, <4>1, Joined
    <3>2. /\ Len(sent) + Len(buf) + dropped = Len(given) /\ Len(sent) \in Nat /\ dropped \in Nat
      <4>1. Len(sent) + Len(buf) + dropped = Len(given) /\ dropped \in Nat
        BY DEF StreamInv, StreamType, StreamInOrder
      <4> QED BY ONLY <1>1, <4>1, SMTT(30)
    <3>3. /\ Len(sent) + Len(buf') + dropped = Len(given') /\ Len(given') - Len(buf') = Len(given) - Len(buf)
          /\ Len(buf') <= BufSize
      <4>1. Len(buf') = Len(buf) + n /\ Len(given') = Len(given) + n /\ BufSize \in Nat
        BY <2>5, <3>1, StreamAssumption
      <4>2. n \in Nat /\ Len(buf) \in Nat /\ Len(given) \in Nat /\ n <= BufSize - Len(buf)
        BY <2>1, <3>1
      <4>3. /\ Len(sent) + (Len(buf) + n) + dropped = Len(given) + n
            /\ (Len(given) + n) - (Len(buf) + n) = Len(given) - Len(buf)
            /\ Len(buf) + n <= BufSize
        BY ONLY <3>2, <4>1, <4>2, SMTT(30)
      <4> QED BY <4>1, <4>3
    <3>4. dropped = 0 => sent \o buf' = given'
      <4>1. sent \o (buf \o chunk) = (sent \o buf) \o chunk
        BY ONLY <1>1, <2>2, SMTT(30)
      <4> QED BY <2>3, <4>1 DEF StreamInv, StreamInOrder
    <3>5. Ordered(sent, places, given', Len(given) - Len(buf))
      <4>1. \A i \in 1..(Len(given) - Len(buf)) : i \in 1..(Len(given) + n) /\ i <= Len(given)
        BY ONLY <3>1, SMTT(30)
      <4>2. Ordered(sent, places, given, Len(given) - Len(buf))
        BY DEF StreamInv, StreamInOrder, Ordered
      <4> QED BY <3>1, <4>1, <4>2, OrderExtends
    <3>6. ASSUME NEW i \in DOMAIN buf' PROVE buf'[i] = given'[Len(given') - Len(buf') + i]
      <4> DEFINE j == Len(given) - Len(buf) + i
      <4>1. i \in 1..(Len(buf) + n)
        BY <2>5, SeqOf
      <4>2. /\ j \in 1..(Len(given) + n) /\ (i <= Len(buf) <=> j <= Len(given)) /\ j - Len(given) = i - Len(buf)
            /\ i <= Len(buf) => i \in 1..Len(buf)
        BY ONLY <3>1, <3>2, <4>1, SMTT(30)
      <4>3. Len(given') - Len(buf') + i = j
        BY <3>3
      <4> HIDE DEF j
      <4>4. given'[j] = IF i <= Len(buf) THEN given[j] ELSE chunk[i - Len(buf)]
        BY <3>1, <4>2
      <4>5. CASE i <= Len(buf)
        <5>1. i \in DOMAIN buf
          BY <1>1, <4>2, <4>5, SeqOf
        <5>2. buf[i] = given[j]
          BY <5>1 DEF StreamInv, StreamInOrder, j
        <5> QED BY <2>5, <4>3, <4>4, <4>5, <5>2
      <4>6. CASE ~(i <= Len(buf))
        BY <2>5, <4>3, <4>4, <4>6
      <4> QED BY <4>5, <4>6
    <3> QED BY <2>3, <3>3, <3>4, <3>5, <3>6 DEF StreamInOrder, Ordered
  <2>7. StreamType'
    BY <1>1, <2>3, <2>4, <2>5 DEF StreamInv, StreamType, FoundNewline
  <2>8. NewlineKnown'
    <3> SUFFICES ASSUME buf_mode = "FBM_NEWLINE", ~unsent, ~loc', NEW i \in DOMAIN buf'
                 PROVE  buf'[i] # Newline
      BY <2>3 DEF NewlineKnown
    <3>1. CASE i <= Len(buf)
      <4>1. i \in 1..Len(buf')
        BY <2>5, SMTT(30)
      <4>2. i \in DOMAIN buf /\ buf'[i] = buf[i]
        BY <1>1, <2>5, <3>1, <4>1, SMTT(30)
      <4>3. \A j \in DOMAIN buf : buf[j] # Newline
        BY <1>1 DEF StreamInv, NewlineKnown
      <4> QED
        BY <4>2, <4>3
    <3>2. CASE ~(i <= Len(buf))
      <4>1. i - Len(buf) \in DOMAIN chunk
        BY <1>1, <2>1, <2>2, <2>5, <3>2, SMTT(30)
      <4>2. chunk[i - Len(buf)] # Newline
        BY <2>3, <4>1 DEF FoundNewline
      <4> QED
        BY <2>5, <3>2, <4>2
    <3> QED
      BY <3>1, <3>2
  <2>9. BetweenCalls'
    BY <1>1, <2>3, <2>4 DEF BetweenCalls
  <2> QED
    BY <2>6, <2>7, <2>8, <2>9 DEF StreamInv
<1> QED
  BY <1>3, <1>4

(* A program flushes between calls of fwrite.                               *)
LEMMA FflushInv ==
  ASSUME StreamInv, fflush
  PROVE  StreamInv'
<1>1. /\ buf' \in Seq(Chars) /\ sent' \in Seq(Chars) /\ given' \in Seq(Chars)
      /\ places' \in Seq(Nat) /\ Len(places') = Len(sent') /\ dropped' \in Nat
      /\ unsent' \in BOOLEAN
      /\ StreamInOrder' /\ (~unsent' => buf' = <<>>) /\ buf' \in {buf, <<>>}
  BY FlushKeeps DEF fflush, StreamInv
<1>2. StreamType' /\ NewlineKnown'
  BY <1>1, SMTT(30) DEF fflush, StreamInv, StreamType, NewlineKnown
<1>3. BetweenCalls'
  BY <1>1, StreamAssumption, SMTT(30) DEF fflush, StreamInv, BetweenCalls
<1> QED
  BY <1>1, <1>2, <1>3 DEF StreamInv

(* Every step keeps the invariant.                                          *)
LEMMA StreamNextInv == StreamInv /\ [StreamNext]_streamVars => StreamInv'
<1> SUFFICES ASSUME StreamInv, [StreamNext]_streamVars PROVE StreamInv'
  OBVIOUS
<1>1. ASSUME NEW n \in 1..MaxGiven, NEW data \in [1..n -> Chars], fwrite(data) PROVE StreamInv'
  <2>1. n \in Nat
    BY StreamAssumption, SMTT(30)
  <2> QED
    BY <1>1, <2>1, FwriteInv, SMTT(30)
<1>2. CASE UNCHANGED streamVars
  BY <1>2 DEF streamVars, StreamInv, StreamType, StreamInOrder, NewlineKnown, BetweenCalls
<1> QED
  BY <1>1, <1>2, FlushStepInv, FillStepInv, FflushInv DEF StreamNext

-----------------------------------------------------------------------------

(* As long as every write that succeeds takes the whole buffer, the file    *)
(* and the buffer hold together exactly the characters that fwrite took, in *)
(* order, whatever writes fail; a short write loses exactly what it left    *)
(* over, and what else is written stays in order.  The buffer is not        *)
(* overrun, and after fwrite no line waits in it unless a write failed.     *)
THEOREM StreamCorrect == StreamSpec => []StreamSound
<1>1. StreamInv => StreamSound
  BY DEF StreamInv, BetweenCalls, NewlineKnown, StreamSound, LinesSent
<1> QED
  BY StreamInitInv, StreamNextInv, <1>1, PTL DEF StreamSpec

==============================================================================
