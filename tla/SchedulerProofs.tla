--------------------------- MODULE SchedulerProofs ---------------------------
(***************************************************************************)
(* Proofs about Scheduler, for any number of CPUs, threads, processes and  *)
(* conditions.                                                             *)
(***************************************************************************)
EXTENDS Scheduler, TLAPS

\* The time the provers have for a step.
USE ZenonT(60)

-----------------------------------------------------------------------------
(* The queue operations of the code, by what they do to membership.         *)

(* STAILQ_INSERT_TAIL of a thread that is not on the queue.                 *)
LEMMA InsertTail ==
  ASSUME NEW S, NEW q \in Seq(S), NEW t \in S, Distinct(q), ~In(t, q)
  PROVE  /\ Append(q, t) \in Seq(S)
         /\ Distinct(Append(q, t))
         /\ \A u : In(u, Append(q, t)) <=> In(u, q) \/ u = t
<1> DEFINE r == Append(q, t)
<1>1. /\ r \in Seq(S) /\ Len(q) \in Nat /\ Len(r) = Len(q) + 1
      /\ \A i \in 1..Len(q) : r[i] = q[i]
      /\ r[Len(q) + 1] = t
  BY SMTT(30)
<1> HIDE DEF r
<1>2. Distinct(r)
  BY <1>1, SMTT(30) DEF Distinct, In
<1>3. ASSUME NEW u PROVE In(u, r) <=> In(u, q) \/ u = t
  <2>1. ASSUME In(u, r) PROVE In(u, q) \/ u = t
    BY <1>1, <2>1, SMTT(30) DEF In
  <2>2. ASSUME In(u, q) PROVE In(u, r)
    BY <1>1, <2>2, SMTT(30) DEF In
  <2>3. In(t, r)
    BY <1>1, SMTT(30) DEF In
  <2> QED BY <2>1, <2>2, <2>3
<1> QED BY <1>1, <1>2, <1>3 DEF r

(* STAILQ_REMOVE_HEAD of a queue that is not empty.                         *)
LEMMA RemoveHead ==
  ASSUME NEW S, NEW q \in Seq(S), q # << >>, Distinct(q)
  PROVE  /\ Head(q) \in S /\ In(Head(q), q)
         /\ Tail(q) \in Seq(S)
         /\ Distinct(Tail(q))
         /\ \A u : In(u, Tail(q)) <=> In(u, q) /\ u # Head(q)
<1> DEFINE r == Tail(q)  h == Head(q)
<1>1. /\ r \in Seq(S) /\ Len(q) \in Nat /\ Len(q) > 0 /\ Len(r) = Len(q) - 1
      /\ \A i \in 1..Len(r) : r[i] = q[i + 1]
      /\ h = q[1] /\ h \in S
  BY SMTT(30)
<1> HIDE DEF r, h
<1>2. Distinct(r)
  BY <1>1, SMTT(30) DEF Distinct
<1>3. In(h, q)
  BY <1>1, SMTT(30) DEF In
<1>4. ASSUME NEW u PROVE In(u, r) <=> In(u, q) /\ u # h
  <2>1. ASSUME In(u, r) PROVE In(u, q) /\ u # h
    <3>1. PICK i \in 1..Len(r) : r[i] = u
      BY <2>1 DEF In
    <3>2. i + 1 \in 1..Len(q) /\ q[i + 1] = u /\ i + 1 # 1 /\ 1 \in 1..Len(q)
      BY <1>1, <3>1, SMTT(30)
    <3> QED BY <1>1, <3>2 DEF In, Distinct
  <2>2. ASSUME In(u, q), u # h PROVE In(u, r)
    <3>1. PICK i \in 1..Len(q) : q[i] = u
      BY <2>2 DEF In
    <3>2. i - 1 \in 1..Len(r) /\ r[i - 1] = q[(i - 1) + 1]
      BY <1>1, <2>2, <3>1, SMTT(30)
    <3>3. r[i - 1] = u
      BY <3>1, <3>2, SMTT(30)
    <3> QED BY <3>2, <3>3 DEF In
  <2> QED BY <2>1, <2>2
<1> QED BY <1>1, <1>2, <1>3, <1>4 DEF r, h

(* Several insertions at the tail, of threads that are not on the queue.    *)
LEMMA InsertTails ==
  ASSUME NEW S, NEW q \in Seq(S), NEW w \in Seq(S), Distinct(q), Distinct(w),
         \A u : In(u, w) => ~In(u, q)
  PROVE  /\ q \o w \in Seq(S)
         /\ Distinct(q \o w)
         /\ \A u : In(u, q \o w) <=> In(u, q) \/ In(u, w)
<1> DEFINE r == q \o w
<1>1. /\ r \in Seq(S) /\ Len(q) \in Nat /\ Len(w) \in Nat /\ Len(r) = Len(q) + Len(w)
      /\ \A i \in 1..Len(r) : r[i] = IF i <= Len(q) THEN q[i] ELSE w[i - Len(q)]
  BY SMTT(30)
<1> HIDE DEF r
<1>2. ASSUME NEW i \in 1..Len(r)
      PROVE  \/ i \in 1..Len(q) /\ r[i] = q[i] /\ In(r[i], q)
             \/ /\ i - Len(q) \in 1..Len(w) /\ r[i] = w[i - Len(q)]
                /\ In(r[i], w)
  <2>1. CASE i <= Len(q)
    <3>1. i \in 1..Len(q) /\ r[i] = q[i]
      BY <1>1, <2>1, SMTT(30)
    <3> QED BY <3>1 DEF In
  <2>2. CASE ~(i <= Len(q))
    <3>1. i - Len(q) \in 1..Len(w) /\ r[i] = w[i - Len(q)]
      BY <1>1, <2>2, SMTT(30)
    <3> QED BY <3>1 DEF In
  <2> QED BY <2>1, <2>2
<1>3. ASSUME NEW i \in 1..Len(r), NEW j \in 1..Len(r), r[i] = r[j]
      PROVE  i = j
  <2>1. \/ i \in 1..Len(q) /\ j \in 1..Len(q) /\ q[i] = q[j]
        \/ /\ i - Len(q) \in 1..Len(w) /\ j - Len(q) \in 1..Len(w)
           /\ w[i - Len(q)] = w[j - Len(q)]
    BY <1>2, <1>3
  <2>2. i = j \/ i - Len(q) = j - Len(q)
    BY <2>1 DEF Distinct
  <2> QED BY <1>1, <2>2, SMTT(30)
<1>4. Distinct(r)
  BY <1>3 DEF Distinct
<1>5. ASSUME NEW u PROVE In(u, r) <=> In(u, q) \/ In(u, w)
  <2>1. ASSUME In(u, r) PROVE In(u, q) \/ In(u, w)
    BY <1>2, <2>1 DEF In
  <2>2. ASSUME In(u, q) PROVE In(u, r)
    BY <1>1, <2>2, SMTT(30) DEF In
  <2>3. ASSUME In(u, w) PROVE In(u, r)
    <3>1. PICK i \in 1..Len(w) : w[i] = u
      BY <2>3 DEF In
    <3>2. Len(q) + i \in 1..Len(r) /\ ~(Len(q) + i <= Len(q)) /\ (Len(q) + i) - Len(q) = i
      BY <1>1, <3>1, SMTT(30)
    <3>3. r[Len(q) + i] = u
      BY <1>1, <3>1, <3>2
    <3> QED BY <3>2, <3>3 DEF In
  <2> QED BY <2>1, <2>2, <2>3
<1> QED BY <1>1, <1>4, <1>5 DEF r

(* STAILQ_INSERT_HEAD of a thread that is not on the queue.                 *)
LEMMA InsertHead ==
  ASSUME NEW S, NEW q \in Seq(S), NEW t \in S, Distinct(q), ~In(t, q)
  PROVE  /\ <<t>> \o q \in Seq(S)
         /\ Distinct(<<t>> \o q)
         /\ \A u : In(u, <<t>> \o q) <=> In(u, q) \/ u = t
<1> DEFINE w == <<t>>
<1>1. w \in Seq(S) /\ Len(w) = 1 /\ w[1] = t
  BY SMTT(30)
<1> HIDE DEF w
<1>2. Distinct(w) /\ \A u : In(u, w) <=> u = t
  BY <1>1, SMTT(30) DEF Distinct, In
<1>3. /\ w \o q \in Seq(S) /\ Distinct(w \o q)
      /\ \A u : In(u, w \o q) <=> In(u, w) \/ In(u, q)
  BY <1>1, <1>2, InsertTails, SMTT(30)
<1> QED BY <1>2, <1>3 DEF w

-----------------------------------------------------------------------------
(* The inductive invariant.                                                 *)

(* A CPU's scheduler thread is made when the CPU enters the scheduler, no   *)
(* CPU passes the checkpoint before all of them are made, and a thread runs *)
(* (and so exits) on a CPU that has passed it.                              *)
BootOrder ==
  /\ \A c \in CPUs : cpustate[c] = "boot" => tstate[c] = "NEW" /\ tproc[c] = None /\ ~In(c, queue)
  /\ \A c \in CPUs : cpustate[c] # "boot" => tstate[c] = "SCHEDULER" /\ tproc[c] = Kernel
  /\ \A c, d \in CPUs : cpustate[c] = "loop" => cpustate[d] # "boot"
  /\ \A c \in CPUs : cthread[c] # None => cpustate[c] = "loop"
  /\ \A t \in Threads : tstate[t] = "EXITED" => cpustate[BootCPU] # "boot"

(* A thread is on the list of a process from insert_thread to thread_free.  *)
Listed == \A t \in Threads : tproc[t] # None <=> tstate[t] \notin {"NEW", "FREED"}

Where == Placement /\ BootOrder /\ Listed

IInv == TypeOK /\ Where /\ DefunctWithoutThreads /\ NoMissedChild

(* Where the threads are does not depend on the order of the queue.         *)
LEMMA WhereFrame ==
  ASSUME Where, Distinct(queue'), \A u : In(u, queue') <=> In(u, queue),
         tstate' = tstate, tproc' = tproc, cthread' = cthread, cpustate' = cpustate
  PROVE  Where'
<1>1. QueuedOnce' /\ RunsOnce'
  BY DEF Where, Placement, QueuedOnce, RunsOnce
<1>2. NoThreadLost'
  <2>1. \A t : OnCPU(t)' <=> OnCPU(t)
    BY DEF OnCPU
  <2> QED BY <2>1 DEF Where, Placement, NoThreadLost
<1>3. BootOrder'
  BY DEF Where, BootOrder
<1>4. Listed'
  BY DEF Where, Listed
<1> QED BY <1>1, <1>2, <1>3, <1>4 DEF Where, Placement

(* A step that leaves the lists and the states alone.                       *)
LEMMA ProcFrame ==
  ASSUME DefunctWithoutThreads, NoMissedChild,
         tstate' = tstate, tproc' = tproc, pstate' = pstate, parent' = parent
  PROVE  DefunctWithoutThreads' /\ NoMissedChild'
<1>1. \A p : ThreadsOf(p)' = ThreadsOf(p)
  BY DEF ThreadsOf
<1>2. DefunctWithoutThreads'
  BY <1>1 DEF DefunctWithoutThreads
<1>3. NoMissedChild'
  BY DEF NoMissedChild
<1> QED BY <1>2, <1>3

LEMMA InitIInv == Init => IInv
<1> SUFFICES ASSUME Init PROVE IInv
  OBVIOUS
<1> USE SchedulerAssumption, BootAssumption DEF Init
<1>1. queue \in Seq(Threads) /\ Len(queue) \in Nat /\ queue \in Seq(AllThreads)
  BY SMTT(30) DEF AllThreads
<1>2. \A t : Booted(t) <=> In(t, queue)
  BY DEF Booted, In
<1>3. \A t : In(t, queue) => t \in Threads
  BY <1>1, SMTT(30) DEF In
<1>4. ASSUME NEW x, Booted(x)
      PROVE  (CHOOSE i \in 1..Len(BootQueue) : BootQueue[i] = x) \in Nat
  <2>1. (CHOOSE i \in 1..Len(BootQueue) : BootQueue[i] = x) \in 1..Len(BootQueue)
    BY <1>4 DEF Booted
  <2> QED BY <1>1, <2>1, SMTT(30)
<1>5. TypeOK
  BY <1>1, <1>4, SMTT(30) DEF TypeOK, AllProcs, ThreadStates, ProcStates, Exits
<1>6. Placement
  BY <1>2 DEF Placement, QueuedOnce, RunsOnce, NoThreadLost, Distinct, OnCPU, AllThreads
<1>7. BootOrder /\ Listed
  BY <1>2, <1>3 DEF BootOrder, Listed, AllThreads
<1>8. DefunctWithoutThreads /\ NoMissedChild
  BY DEF DefunctWithoutThreads, NoMissedChild, ThreadsOf, AllThreads, AllProcs
<1> QED BY <1>5, <1>6, <1>7, <1>8 DEF IInv, Where

(* What the invariant says of a CPU that runs a thread.                     *)
LEMMA RunningFacts ==
  ASSUME IInv, NEW c \in CPUs, Running(c)
  PROVE  /\ cthread[c] \in Threads /\ cthread[c] \in AllThreads
         /\ tstate[cthread[c]] = "RUNNING" /\ ~In(cthread[c], queue)
         /\ CurrentProc(c) \in AllProcs
         /\ cpustate[c] = "loop" /\ \A d \in CPUs : cpustate[d] # "boot"
<1>1. cthread[c] \in Threads /\ cthread[c] \in AllThreads
  BY DEF IInv, TypeOK, Running, AllThreads
<1>2. tstate[cthread[c]] = "RUNNING" /\ ~In(cthread[c], queue)
  BY <1>1 DEF IInv, Where, Placement, NoThreadLost, OnCPU
<1>3. CurrentProc(c) \in AllProcs
  BY <1>1, <1>2 DEF IInv, Where, Listed, TypeOK, CurrentProc
<1>4. cpustate[c] = "loop" /\ \A d \in CPUs : cpustate[d] # "boot"
  BY DEF IInv, Where, BootOrder, Running
<1> QED BY <1>1, <1>2, <1>3, <1>4

(* What it says of the thread a CPU pops: it is a scheduler thread in state *)
(* SCHEDULER or one of the others in a state the loop handles.              *)
LEMMA PoppedFacts ==
  ASSUME IInv, NEW c \in CPUs, Popping(c)
  PROVE  /\ Head(queue) \in AllThreads /\ In(Head(queue), queue)
         /\ Tail(queue) \in Seq(AllThreads) /\ Distinct(Tail(queue))
         /\ \A u : In(u, Tail(queue)) <=> In(u, queue) /\ u # Head(queue)
         /\ Head(queue) \in CPUs => tstate[Head(queue)] = "SCHEDULER"
         /\ Head(queue) \in Threads => tstate[Head(queue)] \in {"READY", "SLEEPING", "EXITED"}
         /\ \A d \in CPUs : cpustate[d] # "boot"
<1>1. queue \in Seq(AllThreads) /\ queue # << >> /\ Distinct(queue)
  BY DEF IInv, TypeOK, Where, Placement, QueuedOnce, Popping
<1>2. /\ Head(queue) \in AllThreads /\ In(Head(queue), queue)
      /\ Tail(queue) \in Seq(AllThreads) /\ Distinct(Tail(queue))
      /\ \A u : In(u, Tail(queue)) <=> In(u, queue) /\ u # Head(queue)
  BY <1>1, RemoveHead
<1>3. \A d \in CPUs : cpustate[d] # "boot"
  BY DEF IInv, Where, BootOrder, Popping
<1>4. Head(queue) \in CPUs => tstate[Head(queue)] = "SCHEDULER"
  BY <1>3 DEF IInv, Where, BootOrder
<1>5. Head(queue) \in Threads => tstate[Head(queue)] \in {"READY", "SLEEPING", "EXITED"}
  BY <1>2 DEF IInv, Where, Placement, NoThreadLost
<1> QED BY <1>2, <1>3, <1>4, <1>5

-----------------------------------------------------------------------------
(* Steps of a running thread.                                               *)

LEMMA RescheduleStep ==
  ASSUME IInv, NEW c \in CPUs, Running(c),
         NEW s \in {"READY", "SLEEPING", "EXITED", "BLOCKED", "WAITING"}, reschedule(c, s)
  PROVE  /\ queue' \in Seq(AllThreads)
         /\ tstate' \in [AllThreads -> ThreadStates]
         /\ cthread' \in [CPUs -> Threads \cup {None}]
         /\ Where'
<1> DEFINE t == cthread[c]
<1>1. /\ t \in Threads /\ t \in AllThreads /\ tstate[t] = "RUNNING" /\ ~In(t, queue)
      /\ tproc[t] \in AllProcs /\ cpustate[c] = "loop"
      /\ \A d \in CPUs : cpustate[d] # "boot"
  BY RunningFacts DEF CurrentProc
<1>2. /\ tstate \in [AllThreads -> ThreadStates] /\ queue \in Seq(AllThreads)
      /\ cthread \in [CPUs -> Threads \cup {None}]
      /\ Placement /\ BootOrder /\ Listed
  BY DEF IInv, TypeOK, Where
<1>3. /\ tstate' = [tstate EXCEPT ![t] = s] /\ queue' = Requeued(t, s)
      /\ cthread' = [cthread EXCEPT ![c] = None]
      /\ tproc' = tproc /\ cpustate' = cpustate
  BY DEF reschedule
<1> HIDE DEF t
<1>4. /\ queue' \in Seq(AllThreads) /\ Distinct(queue')
      /\ \A u : In(u, queue') <=> In(u, queue) \/ (u = t /\ s \notin {"BLOCKED", "WAITING"})
  <2>1. CASE s \in {"BLOCKED", "WAITING"}
    BY <1>2, <1>3, <2>1 DEF Requeued, Placement, QueuedOnce
  <2>2. CASE s \notin {"BLOCKED", "WAITING"}
    <3>1. queue' = Append(queue, t)
      BY <1>3, <2>2 DEF Requeued
    <3>2. Distinct(queue)
      BY <1>2 DEF Placement, QueuedOnce
    <3> QED BY <1>1, <1>2, <2>2, <3>1, <3>2, InsertTail
  <2> QED BY <2>1, <2>2
<1>5. tstate' \in [AllThreads -> ThreadStates] /\ cthread' \in [CPUs -> Threads \cup {None}]
  BY <1>1, <1>2, <1>3 DEF ThreadStates
<1>6. \A u \in AllThreads : tstate'[u] = IF u = t THEN s ELSE tstate[u]
  BY <1>1, <1>2, <1>3
<1>7. \A d \in CPUs : cthread'[d] = IF d = c THEN None ELSE cthread[d]
  BY <1>2, <1>3
<1>8. Placement'
  <2>1. RunsOnce'
    BY <1>2, <1>7 DEF Placement, RunsOnce
  <2>2. ASSUME NEW u \in Threads
        PROVE  In(u, queue') <=> tstate'[u] \in {"READY", "SLEEPING", "EXITED"}
    BY <1>1, <1>2, <1>4, <1>6 DEF Placement, NoThreadLost, AllThreads
  <2>3. ASSUME NEW u \in Threads
        PROVE  OnCPU(u)' <=> tstate'[u] = "RUNNING"
    <3>1. CASE u = t
      <4>1. \A d \in CPUs : cthread'[d] # t
        BY <1>1, <1>2, <1>7, SchedulerAssumption DEF Placement, RunsOnce, t
      <4> QED BY <1>1, <1>6, <3>1, <4>1 DEF OnCPU
    <3>2. CASE u # t
      <4>1. \A d \in CPUs : cthread'[d] = u <=> cthread[d] = u
        BY <1>7, <3>2, SchedulerAssumption DEF t
      <4> QED BY <1>2, <1>6, <3>2, <4>1 DEF OnCPU, Placement, NoThreadLost, AllThreads
    <3> QED BY <3>1, <3>2
  <2> QED BY <1>4, <2>1, <2>2, <2>3 DEF Placement, QueuedOnce, NoThreadLost
<1>9. BootOrder'
  BY <1>1, <1>2, <1>3, <1>6, <1>7, SchedulerAssumption DEF BootOrder, AllThreads
<1>10. Listed'
  BY <1>1, <1>2, <1>3, <1>6, SchedulerAssumption DEF Listed, AllThreads, AllProcs
<1> QED BY <1>4, <1>5, <1>8, <1>9, <1>10 DEF Where

(* A switch away from a thread that leaves the processes as they are and    *)
(* does not start to wait for a child.                                      *)
LEMMA LeaveStep ==
  ASSUME IInv, NEW c \in CPUs, Running(c),
         NEW s \in {"READY", "SLEEPING", "EXITED", "BLOCKED"}, reschedule(c, s),
         UNCHANGED <<pstate, exit_status, returned, collected>>,
         cond' \in [Threads -> Conds \cup {None}],
         frame' \in [Threads -> {"none", "sched_thread_wait", "proc_wait"}],
         sleep_left' \in [Threads -> -1..MaxSleep],
         num_waiting' \in [Conds -> Int]
  PROVE  IInv'
<1>1. /\ queue' \in Seq(AllThreads)
      /\ tstate' \in [AllThreads -> ThreadStates]
      /\ cthread' \in [CPUs -> Threads \cup {None}]
      /\ Where'
  BY RescheduleStep
<1>2. UNCHANGED <<tproc, born, births, parent, cpustate>>
  BY DEF reschedule
<1>3. TypeOK'
  BY <1>1, <1>2 DEF IInv, TypeOK
<1>4. DefunctWithoutThreads'
  BY <1>2 DEF IInv, DefunctWithoutThreads, ThreadsOf
<1>5. \A t \in Threads : tstate'[t] = "WAITING" => tstate[t] = "WAITING"
  BY DEF IInv, TypeOK, reschedule, AllThreads
<1>6. NoMissedChild'
  BY <1>2, <1>5 DEF IInv, NoMissedChild
<1> QED BY <1>1, <1>3, <1>4, <1>6 DEF IInv

(* isr_timer keeps the time that is left within its bounds.                 *)
LEMMA TickType ==
  ASSUME TypeOK, NEW c \in CPUs, isr_timer(c)
  PROVE  sleep_left' \in [Threads -> -1..MaxSleep]
BY SchedulerAssumption, SMTT(30) DEF TypeOK, isr_timer

LEMMA TimerPreemptStep ==
  ASSUME IInv, NEW c \in CPUs, TimerPreempt(c)
  PROVE  IInv'
<1>1. sleep_left' \in [Threads -> -1..MaxSleep]
  BY TickType DEF IInv, TimerPreempt
<1>2. CASE thread_exit(c)
  BY <1>1, <1>2, LeaveStep DEF thread_exit, IInv, TypeOK
<1>3. CASE thread_yield(c)
  BY <1>1, <1>3, LeaveStep DEF thread_yield, IInv, TypeOK
<1> QED BY <1>2, <1>3 DEF TimerPreempt

LEMMA ThreadExitStep ==
  ASSUME IInv, NEW c \in CPUs, ThreadExit(c)
  PROVE  IInv'
BY LeaveStep DEF ThreadExit, thread_exit, IInv, TypeOK

LEMMA ThreadSleepStep ==
  ASSUME IInv, NEW c \in CPUs, NEW ticks \in 0..MaxSleep, thread_sleep(c, ticks)
  PROVE  IInv'
<1>1. ticks \in -1..MaxSleep
  BY SchedulerAssumption, SMTT(30)
<1>2. sleep_left' \in [Threads -> -1..MaxSleep]
  BY <1>1 DEF thread_sleep, IInv, TypeOK
<1> QED BY <1>2, LeaveStep DEF thread_sleep, IInv, TypeOK

LEMMA ThreadWaitStep ==
  ASSUME IInv, NEW c \in CPUs, NEW cd \in Conds, sched_thread_wait(c, cd)
  PROVE  IInv'
<1>1. cthread[c] \in Threads
  BY RunningFacts DEF sched_thread_wait
<1>2. /\ cond' \in [Threads -> Conds \cup {None}]
      /\ frame' \in [Threads -> {"none", "sched_thread_wait", "proc_wait"}]
      /\ num_waiting' \in [Conds -> Int]
  BY <1>1, SMTT(30) DEF sched_thread_wait, IInv, TypeOK
<1> QED BY <1>2, LeaveStep DEF sched_thread_wait, IInv, TypeOK

LEMMA ProcExitStep ==
  ASSUME IInv, NEW c \in CPUs, NEW status \in Statuses, proc_exit(c, status)
  PROVE  IInv'
<1> DEFINE p == CurrentProc(c)
<1>1. /\ Running(c) /\ p # Kernel /\ reschedule(c, "EXITED")
      /\ pstate' = [pstate EXCEPT ![p] = "EXITING"]
      /\ exit_status' = [exit_status EXCEPT ![p] = status]
      /\ UNCHANGED <<cond, frame, collected, sleep_left, num_waiting, returned>>
  BY DEF proc_exit
<1>2. /\ cthread[c] \in AllThreads /\ p \in AllProcs /\ p \in Procs
  BY <1>1, RunningFacts DEF AllProcs
<1>3. /\ queue' \in Seq(AllThreads)
      /\ tstate' \in [AllThreads -> ThreadStates]
      /\ cthread' \in [CPUs -> Threads \cup {None}]
      /\ Where'
  BY <1>1, RescheduleStep
<1>4. UNCHANGED <<tproc, born, births, parent, cpustate>>
  BY <1>1 DEF reschedule
<1>5. TypeOK'
  BY <1>1, <1>2, <1>3, <1>4 DEF IInv, TypeOK, ProcStates, Exits
<1>6. DefunctWithoutThreads'
  <2>1. cthread[c] \in ThreadsOf(p)
    BY <1>2 DEF ThreadsOf, CurrentProc
  <2>2. \A q \in Procs : pstate'[q] = IF q = p THEN "EXITING" ELSE pstate[q]
    BY <1>1, <1>2 DEF IInv, TypeOK, AllProcs
  <2>3. \A q \in Procs : ThreadsOf(q)' = ThreadsOf(q)
    BY <1>4 DEF ThreadsOf
  <2> QED BY <2>1, <2>2, <2>3 DEF IInv, DefunctWithoutThreads
<1>7. NoMissedChild'
  <2>1. \A t \in Threads : tstate'[t] = "WAITING" => tstate[t] = "WAITING"
    BY <1>1 DEF IInv, TypeOK, reschedule, AllThreads
  <2>2. \A q \in Procs : pstate'[q] = "DEFUNCT" => pstate[q] = "DEFUNCT"
    BY <1>1, <1>2 DEF IInv, TypeOK, AllProcs
  <2> QED BY <1>4, <2>1, <2>2 DEF IInv, NoMissedChild
<1> QED BY <1>3, <1>5, <1>6, <1>7 DEF IInv

LEMMA ProcWaitBlockStep ==
  ASSUME IInv, NEW c \in CPUs, ProcWaitBlock(c)
  PROVE  IInv'
<1>1. /\ Running(c) /\ DefunctChildren(CurrentProc(c)) = {} /\ reschedule(c, "WAITING")
      /\ frame' = [frame EXCEPT ![cthread[c]] = "proc_wait"]
      /\ UNCHANGED <<cond, collected, sleep_left, num_waiting, pstate, exit_status, returned>>
  BY DEF ProcWaitBlock
<1>2. cthread[c] \in Threads /\ cthread[c] \in AllThreads
  BY <1>1, RunningFacts
<1>3. /\ queue' \in Seq(AllThreads)
      /\ tstate' \in [AllThreads -> ThreadStates]
      /\ cthread' \in [CPUs -> Threads \cup {None}]
      /\ Where'
  BY <1>1, RescheduleStep
<1>4. UNCHANGED <<tproc, born, births, parent, cpustate>>
  BY <1>1 DEF reschedule
<1>5. TypeOK'
  BY <1>1, <1>2, <1>3, <1>4 DEF IInv, TypeOK
<1>6. DefunctWithoutThreads'
  BY <1>1, <1>4 DEF IInv, DefunctWithoutThreads, ThreadsOf
<1>7. NoMissedChild'
  <2>1. ASSUME NEW q \in Procs, pstate[q] = "DEFUNCT", NEW t \in Threads, tstate'[t] = "WAITING"
        PROVE  tproc[t] # parent[q]
    <3>1. CASE t = cthread[c]
      BY <1>1, <2>1, <3>1 DEF DefunctChildren, CurrentProc
    <3>2. CASE t # cthread[c]
      BY <1>1, <2>1, <3>2 DEF IInv, TypeOK, NoMissedChild, reschedule, AllThreads
    <3> QED BY <3>1, <3>2
  <2> QED BY <1>1, <1>4, <2>1 DEF NoMissedChild
<1> QED BY <1>3, <1>5, <1>6, <1>7 DEF IInv

LEMMA ProcWaitCollectStep ==
  ASSUME IInv, NEW c \in CPUs, ProcWaitCollect(c)
  PROVE  IInv'
<1>1. PICK q \in Procs : /\ pstate[q] = "DEFUNCT"
                         /\ pstate' = [pstate EXCEPT ![q] = "TRUNCATE"]
                         /\ returned' = [returned EXCEPT ![q] = @ + 1]
  BY DEF ProcWaitCollect, DefunctChildren
<1>2. UNCHANGED <<queue, threadVars, parent, exit_status, listVars, cpuVars>>
  BY DEF ProcWaitCollect
<1>3. TypeOK'
  BY <1>1, <1>2, SMTT(30) DEF IInv, TypeOK, ProcStates, threadVars, listVars, cpuVars, AllProcs
<1>4. Where'
  BY <1>2, WhereFrame DEF IInv, Where, Placement, QueuedOnce, threadVars, cpuVars
<1>5. \A r \in Procs : pstate'[r] = IF r = q THEN "TRUNCATE" ELSE pstate[r]
  BY <1>1 DEF IInv, TypeOK, AllProcs
<1>6. DefunctWithoutThreads'
  <2>1. \A r : ThreadsOf(r)' = ThreadsOf(r)
    BY <1>2 DEF ThreadsOf, threadVars
  <2> QED BY <1>1, <1>5, <2>1, SMTT(30) DEF IInv, DefunctWithoutThreads
<1>7. NoMissedChild'
  BY <1>2, <1>5 DEF IInv, NoMissedChild, threadVars
<1> QED BY <1>3, <1>4, <1>6, <1>7 DEF IInv

-----------------------------------------------------------------------------
(* New threads and processes.                                               *)

LEMMA InsertThreadStep ==
  ASSUME IInv, NEW p \in AllProcs, NEW t \in Threads, NEW n \in Nat, tstate[t] = "NEW",
         insert_thread(p, t, n)
  PROVE  /\ queue' \in Seq(AllThreads)
         /\ tstate' \in [AllThreads -> ThreadStates]
         /\ tproc' \in [AllThreads -> AllProcs \cup {None}]
         /\ Where'
<1>1. /\ tproc' = [tproc EXCEPT ![t] = p] /\ tstate' = [tstate EXCEPT ![t] = "READY"]
      /\ queue' = Append(queue, t) /\ cthread' = cthread /\ cpustate' = cpustate
  BY DEF insert_thread, cpuVars
<1>2. /\ tstate \in [AllThreads -> ThreadStates] /\ queue \in Seq(AllThreads)
      /\ tproc \in [AllThreads -> AllProcs \cup {None}]
      /\ Placement /\ BootOrder /\ Listed /\ Distinct(queue)
  BY DEF IInv, TypeOK, Where, Placement, QueuedOnce
<1>3. t \in AllThreads /\ t \notin CPUs /\ ~In(t, queue)
  BY <1>2, SchedulerAssumption DEF AllThreads, Placement, NoThreadLost
<1>4. /\ queue' \in Seq(AllThreads) /\ Distinct(queue')
      /\ \A u : In(u, queue') <=> In(u, queue) \/ u = t
  BY <1>1, <1>2, <1>3, InsertTail
<1>5. /\ tstate' \in [AllThreads -> ThreadStates]
      /\ tproc' \in [AllThreads -> AllProcs \cup {None}]
  BY <1>1, <1>2 DEF ThreadStates
<1>6. \A u \in AllThreads : /\ tstate'[u] = IF u = t THEN "READY" ELSE tstate[u]
                            /\ tproc'[u] = IF u = t THEN p ELSE tproc[u]
  BY <1>1, <1>2
<1>7. Placement'
  <2>1. QueuedOnce' /\ RunsOnce'
    BY <1>1, <1>2, <1>4 DEF Placement, QueuedOnce, RunsOnce
  <2>2. \A u : OnCPU(u)' <=> OnCPU(u)
    BY <1>1 DEF OnCPU
  <2>3. ~OnCPU(t)
    BY <1>2 DEF Placement, NoThreadLost
  <2>4. NoThreadLost'
    BY <1>2, <1>4, <1>6, <2>2, <2>3 DEF Placement, NoThreadLost, AllThreads
  <2> QED BY <2>1, <2>4 DEF Placement
<1>8. BootOrder'
  BY <1>1, <1>2, <1>3, <1>4, <1>6 DEF BootOrder, AllThreads
<1>9. Listed'
  BY <1>2, <1>6, SchedulerAssumption DEF Listed, AllThreads, AllProcs
<1> QED BY <1>4, <1>5, <1>7, <1>8, <1>9 DEF Where

(* Either way a process gets its first thread or one more.                  *)
LEMMA NewThreadStep ==
  ASSUME IInv, NEW p \in AllProcs, NEW t \in Threads, NEW n \in Nat, tstate[t] = "NEW",
         insert_thread(p, t, n),
         born' \in [Threads \cup AllProcs -> Nat],
         parent' \in [AllProcs -> AllProcs \cup {None}],
         \A q \in Procs : q # p => parent'[q] = parent[q]
  PROVE  IInv'
<1>1. /\ queue' \in Seq(AllThreads)
      /\ tstate' \in [AllThreads -> ThreadStates]
      /\ tproc' \in [AllThreads -> AllProcs \cup {None}]
      /\ Where'
  BY InsertThreadStep
<1>2. /\ tproc' = [tproc EXCEPT ![t] = p] /\ tstate' = [tstate EXCEPT ![t] = "READY"]
      /\ pstate' = [pstate EXCEPT ![p] = "READY"]
      /\ exit_status' = [exit_status EXCEPT ![p] = NoStatus]
      /\ births' = n
      /\ UNCHANGED <<cond, frame, collected, sleep_left, num_waiting, returned, cpuVars>>
  BY DEF insert_thread
<1>3. TypeOK'
  BY <1>1, <1>2 DEF IInv, TypeOK, ProcStates, Exits, cpuVars
<1>4. /\ \A u \in AllThreads : /\ tstate'[u] = IF u = t THEN "READY" ELSE tstate[u]
                               /\ tproc'[u] = IF u = t THEN p ELSE tproc[u]
      /\ \A q \in AllProcs : pstate'[q] = IF q = p THEN "READY" ELSE pstate[q]
      /\ t \in AllThreads /\ tproc[t] = None
  BY <1>2 DEF IInv, TypeOK, AllThreads, Where, Listed
<1>5. DefunctWithoutThreads'
  <2>1. ASSUME NEW q \in Procs
        PROVE  pstate'[q] \in {"READY", "EXITING"} <=> ThreadsOf(q)' # {}
    <3>1. CASE q = p
      <4>1. t \in ThreadsOf(q)'
        BY <1>4, <3>1 DEF ThreadsOf
      <4> QED BY <1>4, <3>1, <4>1
    <3>2. CASE q # p
      <4>1. ThreadsOf(q)' = ThreadsOf(q)
        BY <1>4, <3>2, SchedulerAssumption DEF ThreadsOf
      <4> QED BY <1>4, <3>2, <4>1 DEF IInv, DefunctWithoutThreads, AllProcs
    <3> QED BY <3>1, <3>2
  <2> QED BY <2>1 DEF DefunctWithoutThreads
<1>6. NoMissedChild'
  BY <1>4, SMTT(30) DEF IInv, NoMissedChild, AllProcs, AllThreads
<1> QED BY <1>1, <1>3, <1>5, <1>6 DEF IInv

LEMMA ScheduleProcStep ==
  ASSUME IInv, NEW c \in CPUs, NEW p \in Procs, NEW t \in Threads, schedule_proc(c, p, t)
  PROVE  IInv'
<1>1. CurrentProc(c) \in AllProcs
  BY RunningFacts DEF schedule_proc
<1>2. /\ p \in AllProcs /\ births + 2 \in Nat
      /\ born' \in [Threads \cup AllProcs -> Nat]
      /\ parent' \in [AllProcs -> AllProcs \cup {None}]
      /\ \A q \in Procs : q # p => parent'[q] = parent[q]
  BY <1>1, SMTT(30) DEF schedule_proc, IInv, TypeOK, AllProcs
<1> QED BY <1>2, NewThreadStep DEF schedule_proc

LEMMA ScheduleThreadStep ==
  ASSUME IInv, NEW c \in CPUs, NEW p \in ThreadPids, NEW t \in Threads, schedule_thread(c, p, t)
  PROVE  IInv'
<1>1. /\ p \in AllProcs /\ births + 1 \in Nat
      /\ born' \in [Threads \cup AllProcs -> Nat]
      /\ parent' \in [AllProcs -> AllProcs \cup {None}]
      /\ \A q \in Procs : q # p => parent'[q] = parent[q]
  BY SchedulerAssumption, SMTT(30) DEF schedule_thread, IInv, TypeOK, AllProcs
<1> QED BY <1>1, NewThreadStep DEF schedule_thread

-----------------------------------------------------------------------------
(* Notification and the tick.                                               *)

LEMMA NotifyStep ==
  ASSUME IInv, NEW c \in CPUs, NEW cd \in Conds, sched_thread_notify_one(c, cd)
  PROVE  IInv'
<1>1. PICK t \in Threads : /\ tstate[t] = "BLOCKED"
                           /\ tstate' = [tstate EXCEPT ![t] = "READY"]
                           /\ queue' = <<t>> \o queue
  BY DEF sched_thread_notify_one, First, Waiters
<1>2. UNCHANGED <<tproc, cond, frame, collected, sleep_left, num_waiting, procVars, listVars,
                  cpuVars>>
  BY DEF sched_thread_notify_one
<1>3. /\ TypeOK /\ Placement /\ BootOrder /\ Listed
      /\ queue \in Seq(AllThreads) /\ Distinct(queue)
  BY DEF IInv, TypeOK, Where, Placement, QueuedOnce
<1>4. t \in AllThreads /\ t \notin CPUs /\ ~In(t, queue)
  BY <1>1, <1>3, SchedulerAssumption DEF AllThreads, Placement, NoThreadLost
<1>5. /\ queue' \in Seq(AllThreads) /\ Distinct(queue')
      /\ \A u : In(u, queue') <=> In(u, queue) \/ u = t
  BY <1>1, <1>3, <1>4, InsertHead
<1>6. /\ tstate' \in [AllThreads -> ThreadStates]
      /\ \A u \in AllThreads : tstate'[u] = IF u = t THEN "READY" ELSE tstate[u]
  BY <1>1, <1>3 DEF TypeOK, ThreadStates
<1>7. TypeOK'
  BY <1>2, <1>3, <1>5, <1>6 DEF TypeOK, procVars, listVars, cpuVars
<1>8. Placement'
  BY <1>1, <1>2, <1>3, <1>5, <1>6
     DEF Placement, QueuedOnce, RunsOnce, NoThreadLost, OnCPU, AllThreads, cpuVars
<1>9. BootOrder' /\ Listed'
  BY <1>1, <1>2, <1>3, <1>4, <1>5, <1>6 DEF BootOrder, Listed, AllThreads, cpuVars
<1>10. DefunctWithoutThreads' /\ NoMissedChild'
  BY <1>2, <1>6 DEF IInv, DefunctWithoutThreads, NoMissedChild, ThreadsOf, procVars, AllThreads
<1> QED BY <1>7, <1>8, <1>9, <1>10 DEF IInv, Where

LEMMA TimerTickStep ==
  ASSUME IInv, NEW c \in CPUs, TimerTick(c)
  PROVE  IInv'
<1>1. UNCHANGED <<queue, tstate, tproc, cond, frame, collected, num_waiting, procVars, listVars,
                  cpuVars>>
  BY DEF TimerTick
<1>2. sleep_left' \in [Threads -> -1..MaxSleep]
  BY TickType DEF IInv, TimerTick
<1>3. TypeOK'
  BY <1>1, <1>2 DEF IInv, TypeOK, procVars, listVars, cpuVars
<1>4. Where'
  BY <1>1, WhereFrame DEF IInv, Where, Placement, QueuedOnce, cpuVars
<1>5. DefunctWithoutThreads' /\ NoMissedChild'
  BY <1>1, ProcFrame DEF IInv, procVars
<1> QED BY <1>3, <1>4, <1>5 DEF IInv

-----------------------------------------------------------------------------
(* Entering the scheduler.                                                  *)

LEMMA EnterSchedulerStep ==
  ASSUME IInv, NEW c \in CPUs, EnterScheduler(c)
  PROVE  IInv'
<1>1. /\ cpustate[c] = "boot" /\ cpustate' = [cpustate EXCEPT ![c] = "checkpoint"]
      /\ tproc' = [tproc EXCEPT ![c] = Kernel] /\ tstate' = [tstate EXCEPT ![c] = "SCHEDULER"]
      /\ queue' = Append(queue, c)
      /\ pstate' = [pstate EXCEPT ![Kernel] = "READY"]
      /\ exit_status' = [exit_status EXCEPT ![Kernel] = NoStatus]
      /\ UNCHANGED <<cond, frame, collected, sleep_left, num_waiting, parent, returned,
                     listVars, cthread>>
  BY DEF EnterScheduler
<1>2. /\ TypeOK /\ Placement /\ BootOrder /\ Listed
      /\ queue \in Seq(AllThreads) /\ Distinct(queue)
  BY DEF IInv, TypeOK, Where, Placement, QueuedOnce
<1>3. c \in AllThreads /\ c \notin Threads /\ ~In(c, queue)
  BY <1>1, <1>2, SchedulerAssumption DEF AllThreads, BootOrder
<1>4. /\ queue' \in Seq(AllThreads) /\ Distinct(queue')
      /\ \A u : In(u, queue') <=> In(u, queue) \/ u = c
  BY <1>1, <1>2, <1>3, InsertTail
<1>5. /\ tstate' \in [AllThreads -> ThreadStates]
      /\ tproc' \in [AllThreads -> AllProcs \cup {None}]
      /\ cpustate' \in [CPUs -> {"boot", "checkpoint", "loop"}]
      /\ pstate' \in [AllProcs -> ProcStates] /\ exit_status' \in [AllProcs -> Exits]
  BY <1>1, <1>2 DEF TypeOK, ThreadStates, AllProcs, ProcStates, Exits
<1>6. TypeOK'
  BY <1>1, <1>2, <1>4, <1>5 DEF TypeOK, listVars
<1>7. /\ \A u \in AllThreads : /\ tstate'[u] = IF u = c THEN "SCHEDULER" ELSE tstate[u]
                               /\ tproc'[u] = IF u = c THEN Kernel ELSE tproc[u]
      /\ \A d \in CPUs : cpustate'[d] = IF d = c THEN "checkpoint" ELSE cpustate[d]
      /\ \A p \in Procs : pstate'[p] = pstate[p]
  BY <1>1, <1>2, SchedulerAssumption DEF TypeOK, AllProcs
<1>8. Placement'
  <2>1. QueuedOnce' /\ RunsOnce'
    BY <1>1, <1>2, <1>4 DEF Placement, QueuedOnce, RunsOnce
  <2>2. \A u : OnCPU(u)' <=> OnCPU(u)
    BY <1>1 DEF OnCPU
  <2>3. NoThreadLost'
    BY <1>2, <1>3, <1>4, <1>7, <2>2 DEF Placement, NoThreadLost, AllThreads
  <2> QED BY <2>1, <2>3 DEF Placement
<1>9. BootOrder'
  <2>1. \A d \in CPUs : cpustate[d] # "loop"
    BY <1>1, <1>2 DEF BootOrder
  <2>2. \A t \in Threads : tstate'[t] = tstate[t]
    BY <1>3, <1>7 DEF AllThreads
  <2>3. \A d \in CPUs : cpustate'[d] = "boot" =>
          tstate'[d] = "NEW" /\ tproc'[d] = None /\ ~In(d, queue')
    BY <1>2, <1>4, <1>7 DEF BootOrder, AllThreads
  <2>4. \A d \in CPUs : cpustate'[d] # "boot" => tstate'[d] = "SCHEDULER" /\ tproc'[d] = Kernel
    BY <1>2, <1>7 DEF BootOrder, AllThreads
  <2>5. \A d \in CPUs : cpustate'[d] # "loop"
    BY <1>7, <2>1
  <2>6. \A d \in CPUs : cthread'[d] # None => cpustate'[d] = "loop"
    BY <1>1, <1>2, <2>1 DEF BootOrder
  <2>7. \A t \in Threads : tstate'[t] = "EXITED" => cpustate'[BootCPU] # "boot"
    BY <1>2, <1>7, <2>2, SchedulerAssumption DEF BootOrder
  <2> QED BY <2>3, <2>4, <2>5, <2>6, <2>7 DEF BootOrder
<1>10. Listed'
  BY <1>2, <1>3, <1>7 DEF Listed, AllThreads
<1>11. DefunctWithoutThreads' /\ NoMissedChild'
  <2>1. \A p \in Procs : ThreadsOf(p)' = ThreadsOf(p)
    <3>1. tproc[c] \notin Procs
      BY <1>1, <1>2, SchedulerAssumption DEF BootOrder
    <3> QED BY <1>7, <3>1, SchedulerAssumption DEF ThreadsOf
  <2>2. \A t \in Threads : tstate'[t] = tstate[t] /\ tproc'[t] = tproc[t]
    BY <1>3, <1>7 DEF AllThreads
  <2> QED BY <1>1, <1>7, <2>1, <2>2, SMTT(30) DEF IInv, DefunctWithoutThreads, NoMissedChild
<1> QED BY <1>6, <1>8, <1>9, <1>10, <1>11 DEF IInv, Where

LEMMA PassCheckpointStep ==
  ASSUME IInv, NEW c \in CPUs, PassCheckpoint(c)
  PROVE  IInv'
<1>1. /\ \A d \in CPUs : cpustate[d] # "boot"
      /\ cpustate' = [cpustate EXCEPT ![c] = "loop"]
      /\ UNCHANGED <<queue, threadVars, procVars, listVars, cthread>>
  BY DEF PassCheckpoint
<1>2. TypeOK'
  BY <1>1 DEF IInv, TypeOK, threadVars, procVars, listVars
<1>3. \A d \in CPUs : cpustate'[d] = IF d = c THEN "loop" ELSE cpustate[d]
  BY <1>1 DEF IInv, TypeOK
<1>4. Placement' /\ Listed'
  BY <1>1 DEF IInv, Where, Placement, QueuedOnce, RunsOnce, NoThreadLost, OnCPU, Listed,
              threadVars
<1>5. BootOrder'
  BY <1>1, <1>3, SMTT(30) DEF IInv, Where, BootOrder, threadVars
<1>6. DefunctWithoutThreads' /\ NoMissedChild'
  BY <1>1 DEF IInv, DefunctWithoutThreads, NoMissedChild, ThreadsOf, threadVars, procVars
<1> QED BY <1>2, <1>4, <1>5, <1>6 DEF IInv, Where

-----------------------------------------------------------------------------
(* The scheduler loop.                                                      *)

LEMMA DropThreadStep ==
  ASSUME IInv, NEW c \in CPUs, DropThread(c)
  PROVE  IInv'
<1> DEFINE h == Head(queue)
<1>1. /\ Popping(c) /\ tstate[h] \notin {"EXITED", "SLEEPING", "READY"}
      /\ queue' = Tail(queue) /\ UNCHANGED <<threadVars, procVars, listVars, cpuVars>>
  BY DEF DropThread
<1>2. /\ h \notin Threads /\ queue' \in Seq(AllThreads) /\ Distinct(queue')
      /\ \A u : In(u, queue') <=> In(u, queue) /\ u # h
  BY <1>1, PoppedFacts
<1> HIDE DEF h
<1>3. TypeOK'
  BY <1>1, <1>2 DEF IInv, TypeOK, threadVars, procVars, listVars, cpuVars
<1>4. Where'
  <2>1. QueuedOnce' /\ RunsOnce'
    BY <1>1, <1>2 DEF IInv, Where, Placement, QueuedOnce, RunsOnce, cpuVars
  <2>2. NoThreadLost'
    <3>1. \A t : OnCPU(t)' <=> OnCPU(t)
      BY <1>1 DEF OnCPU, cpuVars
    <3> QED BY <1>1, <1>2, <3>1 DEF IInv, Where, Placement, NoThreadLost, threadVars
  <2>3. BootOrder'
    BY <1>1, <1>2 DEF IInv, Where, BootOrder, threadVars, cpuVars
  <2>4. Listed'
    BY <1>1 DEF IInv, Where, Listed, threadVars
  <2> QED BY <2>1, <2>2, <2>3, <2>4 DEF Where, Placement
<1>5. DefunctWithoutThreads' /\ NoMissedChild'
  BY <1>1, ProcFrame DEF IInv, threadVars, procVars
<1> QED BY <1>3, <1>4, <1>5 DEF IInv

LEMMA KeepSleepingStep ==
  ASSUME IInv, NEW c \in CPUs, KeepSleeping(c)
  PROVE  IInv'
<1> DEFINE h == Head(queue)  r == Tail(queue)
<1>1. /\ Popping(c) /\ queue' = Append(r, h)
      /\ UNCHANGED <<threadVars, procVars, listVars, cpuVars>>
  BY DEF KeepSleeping
<1>2. /\ h \in AllThreads /\ In(h, queue) /\ r \in Seq(AllThreads) /\ Distinct(r)
      /\ \A u : In(u, r) <=> In(u, queue) /\ u # h
  BY <1>1, PoppedFacts
<1> HIDE DEF h, r
<1>3. /\ queue' \in Seq(AllThreads) /\ Distinct(queue')
      /\ \A u : In(u, queue') <=> In(u, r) \/ u = h
  BY <1>1, <1>2, InsertTail
<1>4. \A u : In(u, queue') <=> In(u, queue)
  BY <1>2, <1>3
<1>5. TypeOK'
  BY <1>1, <1>3 DEF IInv, TypeOK, threadVars, procVars, listVars, cpuVars
<1>6. Where'
  BY <1>1, <1>3, <1>4, WhereFrame DEF IInv, threadVars, cpuVars
<1>7. DefunctWithoutThreads' /\ NoMissedChild'
  BY <1>1, ProcFrame DEF IInv, threadVars, procVars
<1> QED BY <1>5, <1>6, <1>7 DEF IInv

LEMMA RunThreadStep ==
  ASSUME IInv, NEW c \in CPUs, RunThread(c)
  PROVE  IInv'
<1> DEFINE t == Head(queue)
<1>1. /\ Popping(c) /\ tstate[t] \in {"READY", "SLEEPING"}
      /\ tstate' = [tstate EXCEPT ![t] = "RUNNING"]
      /\ cthread' = [cthread EXCEPT ![c] = t]
      /\ queue' = Tail(queue)
      /\ UNCHANGED <<tproc, pstate, parent, exit_status, listVars, cpustate>>
  BY DEF RunThread
<1>2. /\ t \in Threads /\ t \in AllThreads /\ t \notin CPUs
      /\ queue' \in Seq(AllThreads) /\ Distinct(queue')
      /\ \A u : In(u, queue') <=> In(u, queue) /\ u # t
      /\ \A d \in CPUs : cpustate[d] # "boot"
  BY <1>1, PoppedFacts, SchedulerAssumption DEF AllThreads
<1>3. /\ sleep_left' \in [Threads -> -1..MaxSleep]
      /\ frame' \in [Threads -> {"none", "sched_thread_wait", "proc_wait"}]
      /\ cond' \in [Threads -> Conds \cup {None}]
  <2>1. 0 \in -1..MaxSleep
    BY SchedulerAssumption, SMTT(30)
  <2> QED BY <1>2, <2>1 DEF RunThread, IInv, TypeOK
<1>4. num_waiting' \in [Conds -> Int]
  <2>1. num_waiting \in [Conds -> Int]
    BY DEF IInv, TypeOK
  <2>2. ASSUME NEW x PROVE [num_waiting EXCEPT ![x] = @ - 1] \in [Conds -> Int]
    <3>1. \A y \in Conds : (IF y = x THEN num_waiting[x] - 1 ELSE num_waiting[y]) \in Int
      BY <2>1, SMTT(30)
    <3>2. [num_waiting EXCEPT ![x] = @ - 1] =
            [y \in Conds |-> IF y = x THEN num_waiting[x] - 1 ELSE num_waiting[y]]
      BY <2>1
    <3> QED BY <3>1, <3>2
  <2>3. num_waiting' \in {num_waiting, [num_waiting EXCEPT ![cond[t]] = @ - 1]}
    BY DEF RunThread
  <2> QED BY <2>1, <2>2, <2>3
<1>5. returned' \in [Procs -> Nat]
  <2>1. returned \in [Procs -> Nat]
    BY DEF IInv, TypeOK
  <2>2. ASSUME NEW x PROVE [returned EXCEPT ![x] = @ + 1] \in [Procs -> Nat]
    <3>1. \A y \in Procs : (IF y = x THEN returned[x] + 1 ELSE returned[y]) \in Nat
      BY <2>1, SMTT(30)
    <3>2. [returned EXCEPT ![x] = @ + 1] =
            [y \in Procs |-> IF y = x THEN returned[x] + 1 ELSE returned[y]]
      BY <2>1
    <3> QED BY <3>1, <3>2
  <2>3. returned' \in {returned, [returned EXCEPT ![collected[t].pid] = @ + 1]}
    BY DEF RunThread
  <2> QED BY <2>1, <2>2, <2>3, SMTT(30)
<1>13. collected' \in [Threads -> Collections \cup {None}]
  BY <1>2 DEF RunThread, IInv, TypeOK
<1> HIDE DEF t
<1>6. /\ tstate' \in [AllThreads -> ThreadStates] /\ cthread' \in [CPUs -> Threads \cup {None}]
      /\ \A u \in AllThreads : tstate'[u] = IF u = t THEN "RUNNING" ELSE tstate[u]
      /\ \A d \in CPUs : cthread'[d] = IF d = c THEN t ELSE cthread[d]
  BY <1>1, <1>2 DEF IInv, TypeOK, ThreadStates
<1>7. TypeOK'
  BY <1>1, <1>2, <1>3, <1>4, <1>5, <1>6, <1>13 DEF IInv, TypeOK, listVars
<1>8. cthread[c] = None /\ cpustate[c] = "loop" /\ \A d \in CPUs : cthread[d] # t
  BY <1>1, <1>2 DEF Popping, IInv, Where, Placement, NoThreadLost, OnCPU
<1>9. Placement'
  <2>1. RunsOnce'
    BY <1>6, <1>8 DEF IInv, Where, Placement, RunsOnce
  <2>2. ASSUME NEW u \in Threads
        PROVE  In(u, queue') <=> tstate'[u] \in {"READY", "SLEEPING", "EXITED"}
    BY <1>2, <1>6 DEF IInv, Where, Placement, NoThreadLost, AllThreads
  <2>3. ASSUME NEW u \in Threads
        PROVE  OnCPU(u)' <=> tstate'[u] = "RUNNING"
    <3>1. CASE u = t
      BY <1>2, <1>6, <3>1 DEF OnCPU
    <3>2. CASE u # t
      <4>1. \A d \in CPUs : cthread'[d] = u <=> cthread[d] = u
        BY <1>6, <1>8, <3>2, SchedulerAssumption
      <4> QED BY <1>6, <3>2, <4>1 DEF OnCPU, IInv, Where, Placement, NoThreadLost, AllThreads
    <3> QED BY <3>1, <3>2
  <2> QED BY <1>2, <2>1, <2>2, <2>3 DEF Placement, QueuedOnce, NoThreadLost
<1>10. BootOrder'
  BY <1>1, <1>2, <1>6, <1>8 DEF IInv, Where, BootOrder, AllThreads
<1>11. Listed'
  BY <1>1, <1>2, <1>6 DEF IInv, Where, Listed, AllThreads
<1>12. DefunctWithoutThreads' /\ NoMissedChild'
  BY <1>1, <1>6, SMTT(30) DEF IInv, DefunctWithoutThreads, NoMissedChild, ThreadsOf, AllThreads
<1> QED BY <1>7, <1>9, <1>10, <1>11, <1>12 DEF IInv, Where

(* The order in which make_process_defunct wakes the waiting threads is a   *)
(* sequence without repetitions that holds exactly these threads.           *)
LEMMA WalkOfWaiting ==
  ASSUME IInv, NEW p \in Procs, NEW w \in ListWalks(WaitingFor(p))
  PROVE  /\ w \in Seq(AllThreads) /\ Distinct(w)
         /\ \A u : In(u, w) <=> u \in WaitingFor(p)
<1> DEFINE W == WaitingFor(p)
<1>1. /\ W \subseteq Threads /\ W \subseteq AllThreads
      /\ \A t \in W : tproc[t] = parent[p] /\ born[t] \in Nat
  BY DEF WaitingFor, AllThreads, IInv, TypeOK
<1>2. PICK n \in Nat : w \in [1..n -> W]
  BY SMTT(30) DEF ListWalks
<1>3. /\ w \in [1..n -> W] /\ {w[i] : i \in 1..n} = W
      /\ \A i, j \in 1..n : i < j => WalkedBefore(w[i], w[j])
  BY <1>2 DEF ListWalks
<1> HIDE DEF W
<1>4. w \in Seq(AllThreads) /\ Len(w) = n
  <2>1. w \in [1..n -> AllThreads]
    BY <1>1, <1>3
  <2> QED BY <1>2, <2>1, SMTT(30)
<1>5. ASSUME NEW i \in 1..n, NEW j \in 1..n, i < j PROVE w[i] # w[j]
  <2>1. w[i] \in W /\ w[j] \in W /\ WalkedBefore(w[i], w[j])
    BY <1>3, <1>5
  <2>2. born[w[i]] > born[w[j]]
    BY <1>1, <2>1 DEF WalkedBefore
  <2> QED BY <1>1, <2>1, <2>2, SMTT(30)
<1>6. Distinct(w)
  <2>1. ASSUME NEW i \in 1..n, NEW j \in 1..n, w[i] = w[j] PROVE i = j
    <3>1. ~(i < j) /\ ~(j < i)
      BY <1>5, <2>1
    <3> QED BY <1>2, <3>1, SMTT(30)
  <2> QED BY <1>4, <2>1 DEF Distinct
<1>7. \A u : In(u, w) <=> u \in W
  BY <1>3, <1>4 DEF In
<1> QED BY <1>4, <1>6, <1>7 DEF W

(* The thread destroy_thread gets is not the last one of the kernel.        *)
LEMMA KernelKept == IInv => KernelNotDestroyed
<1> SUFFICES ASSUME IInv, NEW t \in Threads, tproc[t] = Kernel, tstate[t] = "EXITED"
             PROVE  ThreadsOf(Kernel) # {t}
  BY DEF KernelNotDestroyed
<1>1. BootCPU \in ThreadsOf(Kernel)
  BY SchedulerAssumption DEF IInv, Where, BootOrder, ThreadsOf, AllThreads
<1>2. BootCPU # t
  BY SchedulerAssumption
<1> QED BY <1>1, <1>2

LEMMA DestroyThreadStep ==
  ASSUME IInv, NEW c \in CPUs, DestroyThread(c)
  PROVE  IInv'
<1> DEFINE t == Head(queue)
<1>1. /\ Popping(c) /\ tstate[t] = "EXITED" /\ ThreadsOf(tproc[t]) # {t}
      /\ tproc' = [tproc EXCEPT ![t] = None] /\ tstate' = [tstate EXCEPT ![t] = "FREED"]
      /\ queue' = Tail(queue)
      /\ UNCHANGED <<cond, frame, collected, sleep_left, num_waiting, procVars, listVars, cpuVars>>
  BY DEF DestroyThread
<1>2. /\ t \in Threads /\ t \in AllThreads /\ t \notin CPUs
      /\ queue' \in Seq(AllThreads) /\ Distinct(queue')
      /\ \A u : In(u, queue') <=> In(u, queue) /\ u # t
  BY <1>1, PoppedFacts, SchedulerAssumption DEF AllThreads
<1> HIDE DEF t
<1>3. /\ tstate' \in [AllThreads -> ThreadStates]
      /\ tproc' \in [AllThreads -> AllProcs \cup {None}]
      /\ \A u \in AllThreads : /\ tstate'[u] = IF u = t THEN "FREED" ELSE tstate[u]
                               /\ tproc'[u] = IF u = t THEN None ELSE tproc[u]
  BY <1>1, <1>2 DEF IInv, TypeOK, ThreadStates
<1>4. TypeOK'
  BY <1>1, <1>2, <1>3 DEF IInv, TypeOK, procVars, listVars, cpuVars
<1>5. Placement'
  BY <1>1, <1>2, <1>3
     DEF IInv, Where, Placement, QueuedOnce, RunsOnce, NoThreadLost, OnCPU, AllThreads, cpuVars
<1>6. BootOrder' /\ Listed'
  <2>1. BootOrder'
    <3>1. /\ \A d \in CPUs : /\ tstate'[d] = tstate[d] /\ tproc'[d] = tproc[d]
                             /\ In(d, queue') <=> In(d, queue)
          /\ \A u \in Threads : tstate'[u] = "EXITED" => tstate[u] = "EXITED"
      BY <1>2, <1>3 DEF AllThreads
    <3>2. cthread' = cthread /\ cpustate' = cpustate
      BY <1>1 DEF cpuVars
    <3> QED BY <3>1, <3>2 DEF IInv, Where, BootOrder
  <2>2. Listed'
    BY <1>2, <1>3 DEF IInv, Where, Listed, AllThreads
  <2> QED BY <2>1, <2>2
<1>7. DefunctWithoutThreads'
  <2>1. ASSUME NEW q \in Procs PROVE ThreadsOf(q)' # {} <=> ThreadsOf(q) # {}
    <3>1. ThreadsOf(q)' = ThreadsOf(q) \ {t}
      BY <1>3, SchedulerAssumption DEF ThreadsOf
    <3>2. t \in ThreadsOf(q) => ThreadsOf(q) # {t}
      BY <1>1 DEF ThreadsOf
    <3> QED BY <3>1, <3>2
  <2> QED BY <1>1, <2>1 DEF IInv, DefunctWithoutThreads, procVars
<1>8. NoMissedChild'
  BY <1>1, <1>3 DEF IInv, NoMissedChild, AllThreads, procVars
<1> QED BY <1>4, <1>5, <1>6, <1>7, <1>8 DEF IInv, Where

LEMMA DestroyLastThreadStep ==
  ASSUME IInv, NEW c \in CPUs, DestroyLastThread(c)
  PROVE  IInv'
<1> DEFINE t == Head(queue)  p == tproc[t]  W == WaitingFor(p)
<1>1. /\ Popping(c) /\ tstate[t] = "EXITED" /\ ThreadsOf(p) = {t}
      /\ tproc' = [tproc EXCEPT ![t] = None] /\ make_process_defunct(p, t)
      /\ UNCHANGED <<cond, frame, sleep_left, num_waiting, parent, exit_status, returned,
                     listVars, cpuVars>>
  BY DEF DestroyLastThread
<1>2. PICK woken \in ListWalks(W) : queue' = Tail(queue) \o woken
  BY <1>1 DEF make_process_defunct
<1>3. /\ tstate' = [u \in AllThreads |-> IF u = t THEN "FREED"
                                         ELSE IF u \in W THEN "READY" ELSE tstate[u]]
      /\ collected' = [u \in Threads |-> IF u \in W
                                         THEN [pid |-> p, status |-> exit_status[p]]
                                         ELSE collected[u]]
      /\ pstate' = [pstate EXCEPT ![p] = IF parent[p] = Kernel \/ W # {}
                                         THEN "TRUNCATE" ELSE "DEFUNCT"]
  BY <1>1 DEF make_process_defunct
<1>4. /\ t \in Threads /\ t \in AllThreads /\ t \notin CPUs
      /\ Tail(queue) \in Seq(AllThreads) /\ Distinct(Tail(queue))
      /\ \A u : In(u, Tail(queue)) <=> In(u, queue) /\ u # t
  BY <1>1, PoppedFacts, SchedulerAssumption DEF AllThreads
<1>5. p \in Procs
  <2>1. p # Kernel
    BY <1>1, <1>4, KernelKept DEF KernelNotDestroyed
  <2>2. p \in AllProcs
    BY <1>1, <1>4 DEF IInv, Where, Listed, TypeOK
  <2> QED BY <2>1, <2>2 DEF AllProcs
<1>6. /\ woken \in Seq(AllThreads) /\ Distinct(woken)
      /\ \A u : In(u, woken) <=> u \in W
  BY <1>5, WalkOfWaiting
<1>7. W \subseteq Threads /\ \A u \in W : tstate[u] = "WAITING" /\ ~In(u, queue)
  BY DEF WaitingFor, IInv, Where, Placement, NoThreadLost
<1>8. W # {} => parent[p] # Kernel
  BY DEF WaitingFor
<1>9. \A u \in Threads : parent[p] # Kernel /\ tstate[u] = "WAITING" /\ tproc[u] = parent[p] => u \in W
  BY DEF WaitingFor
<1> HIDE DEF t, p, W
<1>10. /\ queue' \in Seq(AllThreads) /\ Distinct(queue')
       /\ \A u : In(u, queue') <=> (In(u, queue) /\ u # t) \/ u \in W
  BY <1>2, <1>4, <1>6, <1>7, InsertTails
<1>11. /\ \A u \in AllThreads : /\ tstate'[u] = IF u = t THEN "FREED"
                                               ELSE IF u \in W THEN "READY" ELSE tstate[u]
                                /\ tproc'[u] = IF u = t THEN None ELSE tproc[u]
       /\ \A q \in AllProcs : pstate'[q] = IF q # p THEN pstate[q]
                                           ELSE IF parent[p] = Kernel \/ W # {}
                                           THEN "TRUNCATE" ELSE "DEFUNCT"
  BY <1>1, <1>3 DEF IInv, TypeOK
<1>12. TypeOK'
  <2>1. tstate' \in [AllThreads -> ThreadStates] /\ tproc' \in [AllThreads -> AllProcs \cup {None}]
    BY <1>1, <1>3 DEF IInv, TypeOK, ThreadStates
  <2>2. [pid |-> p, status |-> exit_status[p]] \in Collections
    BY <1>5 DEF Collections, IInv, TypeOK, AllProcs
  <2>3. collected' \in [Threads -> Collections \cup {None}]
    BY <1>3, <2>2 DEF IInv, TypeOK
  <2>4. pstate' \in [AllProcs -> ProcStates]
    BY <1>3 DEF IInv, TypeOK, ProcStates
  <2> QED BY <1>1, <1>10, <2>1, <2>3, <2>4 DEF IInv, TypeOK, listVars, cpuVars
<1>13. Placement'
  <2>1. RunsOnce'
    BY <1>1 DEF IInv, Where, Placement, RunsOnce, cpuVars
  <2>2. ASSUME NEW u \in Threads
        PROVE  /\ In(u, queue') <=> tstate'[u] \in {"READY", "SLEEPING", "EXITED"}
               /\ tstate'[u] = "RUNNING" <=> tstate[u] = "RUNNING"
    BY <1>1, <1>7, <1>10, <1>11 DEF IInv, Where, Placement, NoThreadLost, AllThreads
  <2>3. ASSUME NEW u \in Threads
        PROVE  OnCPU(u)' <=> OnCPU(u)
    BY <1>1 DEF OnCPU, cpuVars
  <2> QED BY <1>10, <2>1, <2>2, <2>3
          DEF IInv, Where, Placement, QueuedOnce, NoThreadLost
<1>14. BootOrder' /\ Listed'
  <2>1. \A d \in CPUs : tstate'[d] = tstate[d] /\ tproc'[d] = tproc[d]
                        /\ (In(d, queue') => In(d, queue))
    BY <1>4, <1>7, <1>10, <1>11, SchedulerAssumption DEF AllThreads
  <2>2. \A u \in Threads : /\ tstate'[u] = "EXITED" => tstate[u] = "EXITED"
                           /\ tproc'[u] # None <=> tstate'[u] \notin {"NEW", "FREED"}
    BY <1>7, <1>11 DEF IInv, Where, Listed, AllThreads
  <2> QED BY <1>1, <2>1, <2>2 DEF IInv, Where, BootOrder, Listed, cpuVars
<1>15. DefunctWithoutThreads'
  <2>1. ASSUME NEW q \in Procs
        PROVE  pstate'[q] \in {"READY", "EXITING"} <=> ThreadsOf(q)' # {}
    <3>1. ThreadsOf(q)' = ThreadsOf(q) \ {t}
      BY <1>11, SchedulerAssumption DEF ThreadsOf
    <3>2. CASE q = p
      BY <1>1, <1>11, <3>1, <3>2 DEF AllProcs
    <3>3. CASE q # p
      <4>1. t \notin ThreadsOf(q)
        BY <3>3 DEF ThreadsOf, p
      <4> QED BY <1>11, <3>1, <3>3, <4>1 DEF IInv, DefunctWithoutThreads, AllProcs
    <3> QED BY <3>2, <3>3
  <2> QED BY <2>1 DEF DefunctWithoutThreads
<1>16. NoMissedChild'
  <2>1. ASSUME NEW q \in Procs, pstate'[q] = "DEFUNCT", NEW u \in Threads, tstate'[u] = "WAITING"
        PROVE  tproc'[u] # parent[q]
    <3>1. u # t /\ u \notin W /\ tstate[u] = "WAITING" /\ tproc'[u] = tproc[u]
      BY <1>11, <2>1 DEF AllThreads
    <3>2. CASE q = p
      BY <1>9, <1>11, <2>1, <3>1, <3>2 DEF AllProcs
    <3>3. CASE q # p
      BY <1>11, <2>1, <3>1, <3>3 DEF IInv, NoMissedChild, AllProcs
    <3> QED BY <3>2, <3>3
  <2> QED BY <1>1, <2>1 DEF NoMissedChild
<1> QED BY <1>12, <1>13, <1>14, <1>15, <1>16 DEF IInv, Where

-----------------------------------------------------------------------------
(* Every step keeps the invariant.                                          *)

LEMMA NextIInv == IInv /\ [Next]_vars => IInv'
<1> SUFFICES ASSUME IInv, [Next]_vars PROVE IInv'
  OBVIOUS
<1>1. CASE UNCHANGED vars
  <2>1. TypeOK'
    BY <1>1 DEF IInv, TypeOK, vars, threadVars, procVars, listVars, cpuVars
  <2>2. Where'
    BY <1>1, WhereFrame DEF IInv, Where, Placement, QueuedOnce, vars, threadVars, cpuVars
  <2>3. DefunctWithoutThreads' /\ NoMissedChild'
    BY <1>1, ProcFrame DEF IInv, vars, threadVars, procVars
  <2> QED BY <2>1, <2>2, <2>3 DEF IInv
<1>2. ASSUME NEW c \in CPUs, SchedulerLoop(c) PROVE IInv'
  BY <1>1, <1>2, DestroyThreadStep, DestroyLastThreadStep, KeepSleepingStep, RunThreadStep,
     DropThreadStep DEF SchedulerLoop, SchedIdle
<1>3. ASSUME NEW c \in CPUs, CPUStep(c), ~SchedulerLoop(c) PROVE IInv'
  BY <1>3, EnterSchedulerStep, PassCheckpointStep, TimerTickStep, TimerPreemptStep,
     ThreadExitStep, ThreadSleepStep, ThreadWaitStep, NotifyStep, ProcExitStep,
     ProcWaitCollectStep, ProcWaitBlockStep, ScheduleProcStep, ScheduleThreadStep DEF CPUStep
<1> QED BY <1>1, <1>2, <1>3 DEF Next

LEMMA Invariance == Spec => []IInv
BY InitIInv, NextIInv, PTL DEF Spec

(* The variables keep their types.                                          *)
THEOREM TypeCorrect == Spec => []TypeOK
<1>1. IInv => TypeOK
  BY DEF IInv
<1> QED BY <1>1, Invariance, PTL

(* On any number of CPUs, no thread is lost, queued twice or run twice.     *)
THEOREM PlacementCorrect == Spec => []Placement
<1>1. IInv => Placement
  BY DEF IInv, Where
<1> QED BY <1>1, Invariance, PTL

(* The assertion of destroy_thread about the kernel process holds.          *)
THEOREM KernelCorrect == Spec => []KernelNotDestroyed
BY KernelKept, Invariance, PTL

(* A process has a thread exactly as long as it can run or is exiting, and  *)
(* no thread waits in proc_wait for a child that has already finished.      *)
THEOREM ProcessesCorrect == Spec => []ProcessesSound
<1>1. IInv => ProcessesSound
  BY DEF IInv, ProcessesSound
<1> QED BY <1>1, Invariance, PTL

LEMMA ExitedStep ==
  ASSUME IInv, NEW c \in CPUs, CPUStep(c), NEW t \in Threads, tstate[t] = "EXITED"
  PROVE  tstate'[t] \in {"EXITED", "FREED"}
<1>1. t \in AllThreads /\ t \notin CPUs /\ tstate \in [AllThreads -> ThreadStates]
  BY SchedulerAssumption DEF AllThreads, IInv, TypeOK
<1>2. ASSUME NEW s, Running(c), reschedule(c, s) PROVE tstate'[t] = "EXITED"
  BY <1>1, <1>2, RunningFacts DEF reschedule
<1>3. ASSUME NEW p, NEW u, NEW n, tstate[u] = "NEW", insert_thread(p, u, n)
      PROVE  tstate'[t] = "EXITED"
  BY <1>1, <1>3 DEF insert_thread
<1>4. CASE SchedulerLoop(c)
  <2>1. CASE DestroyThread(c)
    BY <1>1, <2>1 DEF DestroyThread
  <2>2. CASE DestroyLastThread(c)
    BY <1>1, <2>2 DEF DestroyLastThread, make_process_defunct, WaitingFor
  <2>3. CASE RunThread(c)
    BY <1>1, <2>3 DEF RunThread
  <2>4. CASE SchedIdle(c) \/ KeepSleeping(c) \/ DropThread(c)
    BY <2>4 DEF SchedIdle, KeepSleeping, DropThread, vars, threadVars
  <2> QED BY <1>4, <2>1, <2>2, <2>3, <2>4 DEF SchedulerLoop
<1>5. CASE EnterScheduler(c) \/ PassCheckpoint(c) \/ TimerTick(c) \/ ProcWaitCollect(c)
  BY <1>1, <1>5 DEF EnterScheduler, PassCheckpoint, TimerTick, ProcWaitCollect, threadVars
<1>6. CASE TimerPreempt(c) \/ ThreadExit(c) \/ ProcWaitBlock(c)
  BY <1>2, <1>6 DEF TimerPreempt, ThreadExit, ProcWaitBlock, thread_exit, thread_yield
<1>7. ASSUME NEW ticks \in 0..MaxSleep, thread_sleep(c, ticks) PROVE tstate'[t] = "EXITED"
  BY <1>2, <1>7 DEF thread_sleep
<1>8. ASSUME NEW cd \in Conds, sched_thread_wait(c, cd) PROVE tstate'[t] = "EXITED"
  BY <1>2, <1>8 DEF sched_thread_wait
<1>9. ASSUME NEW cd \in Conds, sched_thread_notify_one(c, cd) PROVE tstate'[t] = "EXITED"
  BY <1>1, <1>9 DEF sched_thread_notify_one, First, Waiters
<1>10. ASSUME NEW status \in Statuses, proc_exit(c, status) PROVE tstate'[t] = "EXITED"
  BY <1>2, <1>10 DEF proc_exit
<1>11. ASSUME NEW p \in Procs, NEW u \in Threads, schedule_proc(c, p, u)
       PROVE  tstate'[t] = "EXITED"
  BY <1>3, <1>11 DEF schedule_proc
<1>12. ASSUME NEW p \in ThreadPids, NEW u \in Threads, schedule_thread(c, p, u)
       PROVE  tstate'[t] = "EXITED"
  BY <1>3, <1>12 DEF schedule_thread
<1> QED BY <1>4, <1>5, <1>6, <1>7, <1>8, <1>9, <1>10, <1>11, <1>12 DEF CPUStep

(* The kpanic after reschedule in thread_exit and proc_exit is not reached: *)
(* a thread that has exited is never run again.                             *)
THEOREM ExitFinal == Spec => ExitIsFinal
<1>1. IInv /\ [Next]_vars =>
        [\A t \in Threads : tstate[t] = "EXITED" => tstate'[t] \in {"EXITED", "FREED"}]_vars
  BY ExitedStep DEF Next
<1> QED BY <1>1, Invariance, PTL DEF Spec, ExitIsFinal

-----------------------------------------------------------------------------
(***************************************************************************)
(* Processes and their children: a child that has ended is returned to its *)
(* parent once, with its status, and processes go through their states in  *)
(* order.                                                                  *)
(*                                                                         *)
(* schedule_thread is only called by the macro schedule_kernel_thread, for *)
(* PID_KERNEL: a user process has the thread it was made with, no other.   *)
(* So one thread at most waits for the children of a process, and what     *)
(* make_process_defunct puts into it is not overwritten.                   *)
(***************************************************************************)

(* No thread is added to a user process (schedule_kernel_thread).           *)
KernelThreadsOnly == ThreadPids \subseteq {Kernel}

OneThreadEach ==
  \A t, u \in Threads : tproc[t] \in Procs /\ tproc[u] = tproc[t] => t = u

(* The frame a thread is switched out in goes with its state.               *)
FramesFit ==
  \A t \in Threads :
    /\ frame[t] = "proc_wait" => tstate[t] \in {"WAITING", "READY"} /\ tproc[t] \in Procs
    /\ tstate[t] = "WAITING" => frame[t] = "proc_wait"
    /\ frame[t] = "sched_thread_wait" => tstate[t] \in {"BLOCKED", "READY"}
    /\ tstate[t] = "BLOCKED" => frame[t] = "sched_thread_wait"

(* A user process ends by proc_exit, with a status.                         *)
EndsByExit ==
  /\ \A t \in Threads : tproc[t] \in Procs =>
       (tstate[t] = "EXITED" <=> pstate[tproc[t]] = "EXITING")
  /\ \A p \in Procs : pstate[p] \in {"EXITING", "DEFUNCT", "TRUNCATE"} => exit_status[p] \in Statuses

Collecting(t) == frame[t] = "proc_wait" /\ tstate[t] = "READY"

(* What make_process_defunct has put into a thread that it woke.            *)
Claimed ==
  \A t \in Threads : Collecting(t) =>
    /\ collected[t] \in Collections
    /\ pstate[collected[t].pid] = "TRUNCATE"
    /\ parent[collected[t].pid] = tproc[t]
    /\ collected[t].status = exit_status[collected[t].pid]
    /\ returned[collected[t].pid] = 0

Counted ==
  \A p \in Procs :
    /\ returned[p] = 0 \/ (returned[p] = 1 /\ pstate[p] = "TRUNCATE" /\ parent[p] # Kernel)
    /\ pstate[p] = "TRUNCATE" /\ parent[p] # Kernel /\ returned[p] = 0
         => \E t \in Threads : Collecting(t) /\ collected[t].pid = p

ReturnInv == OneThreadEach /\ FramesFit /\ EndsByExit /\ Claimed /\ Counted

(* A child has been returned once or one thread is about to return it.      *)
LEMMA ReturnSound ==
  ASSUME IInv, ReturnInv
  PROVE  ReturnedOnce
<1>1. ASSUME NEW p \in Procs, NEW t \in Collectors(p)
      PROVE  /\ t \in Threads /\ Collecting(t) /\ collected[t].pid = p
             /\ pstate[p] = "TRUNCATE" /\ parent[p] = tproc[t] /\ tproc[t] \in Procs
             /\ parent[p] # Kernel /\ returned[p] = 0
             /\ collected[t].status = exit_status[p] /\ exit_status[p] \in Statuses
  BY <1>1, SchedulerAssumption, SMTT(30)
     DEF Collectors, Collecting, ReturnInv, Claimed, FramesFit, EndsByExit
<1>2. ASSUME NEW p \in Procs, NEW t \in Collectors(p)
      PROVE  Collectors(p) = {t}
  <2>1. \A u \in Collectors(p) : u = t
    BY <1>1, <1>2, SMTT(30) DEF ReturnInv, OneThreadEach
  <2> QED BY <1>2, <2>1
<1>3. ASSUME NEW p \in Procs
      PROVE  IF pstate[p] = "TRUNCATE" /\ parent[p] # Kernel
             THEN \/ returned[p] = 1 /\ Collectors(p) = {}
                  \/ returned[p] = 0 /\ \E t \in Threads : Collectors(p) = {t}
             ELSE returned[p] = 0 /\ Collectors(p) = {}
  <2>1. CASE Collectors(p) = {}
    <3>1. returned[p] = IF pstate[p] = "TRUNCATE" /\ parent[p] # Kernel THEN 1 ELSE 0
      BY <2>1, SMTT(30) DEF ReturnInv, Counted, Collectors, Collecting
    <3> QED BY <2>1, <3>1
  <2>2. CASE Collectors(p) # {}
    <3>1. PICK t : t \in Collectors(p)
      BY <2>2
    <3> QED BY <1>1, <1>2, <3>1
  <2> QED BY <2>1, <2>2
<1> QED BY <1>1, <1>3 DEF ReturnedOnce

(* At first nothing has ended and nobody waits.                             *)
LEMMA InitReturn == Init => ReturnInv
BY SchedulerAssumption, SMTT(30)
   DEF Init, ReturnInv, OneThreadEach, FramesFit, EndsByExit, Claimed, Counted, Collecting,
       AllThreads, AllProcs

(* A step that changes nothing of this.                                     *)
LEMMA ReturnFrame ==
  ASSUME ReturnInv, UNCHANGED <<tstate, tproc, frame, collected, pstate, parent, exit_status, returned>>
  PROVE  ReturnInv'
BY SMTT(30) DEF ReturnInv, OneThreadEach, FramesFit, EndsByExit, Claimed, Counted, Collecting

(* A thread that is not switched out is in no frame.                        *)
LEMMA NoFrame ==
  ASSUME IInv, ReturnInv, NEW t \in Threads,
         tstate[t] \notin {"WAITING", "READY", "BLOCKED"}
  PROVE  frame[t] = "none"
<1>1. frame[t] \in {"none", "sched_thread_wait", "proc_wait"}
  BY DEF IInv, TypeOK
<1>2. frame[t] # "sched_thread_wait" /\ frame[t] # "proc_wait"
  BY DEF ReturnInv, FramesFit
<1> QED BY <1>1, <1>2

(* A thread gives up its CPU and its process goes on.                       *)
LEMMA LeaveReturn ==
  ASSUME IInv, ReturnInv, NEW c \in CPUs, Running(c),
         NEW s \in {"READY", "SLEEPING", "EXITED", "BLOCKED", "WAITING"}, reschedule(c, s),
         UNCHANGED <<pstate, exit_status, returned, collected>>,
         frame' \in [Threads -> {"none", "sched_thread_wait", "proc_wait"}],
         \A u \in Threads : u # cthread[c] => frame'[u] = frame[u],
         frame'[cthread[c]] = IF s = "BLOCKED" THEN "sched_thread_wait"
                              ELSE IF s = "WAITING" THEN "proc_wait" ELSE frame[cthread[c]],
         s = "EXITED" => CurrentProc(c) = Kernel,
         s = "WAITING" => CurrentProc(c) # Kernel
  PROVE  ReturnInv'
<1> DEFINE t == cthread[c]
<1>1. /\ t \in Threads /\ tstate[t] = "RUNNING" /\ tproc[t] \in AllProcs
      /\ s = "EXITED" => tproc[t] = Kernel
      /\ s = "WAITING" => tproc[t] \in Procs
  BY RunningFacts DEF CurrentProc, AllProcs
<1>2. /\ \A u \in Threads : tstate'[u] = IF u = t THEN s ELSE tstate[u]
      /\ tproc' = tproc /\ parent' = parent
  <2>1. tstate' = [tstate EXCEPT ![t] = s] /\ tproc' = tproc /\ parent' = parent
    BY DEF reschedule
  <2>2. tstate \in [AllThreads -> ThreadStates] /\ Threads \subseteq AllThreads
    BY DEF IInv, TypeOK, AllThreads
  <2> HIDE DEF t
  <2> QED BY <2>1, <2>2
<1>3. frame[t] = "none"
  BY <1>1, NoFrame
<1>4. \A u \in Threads : u # t => frame'[u] = frame[u]
  OBVIOUS
<1>5. frame'[t] = IF s = "BLOCKED" THEN "sched_thread_wait"
                  ELSE IF s = "WAITING" THEN "proc_wait" ELSE "none"
  BY <1>3
<1> HIDE DEF t
<1>6. \A u \in Threads : Collecting(u)' <=> Collecting(u)
  BY <1>1, <1>2, <1>4, <1>5 DEF Collecting
<1>7. OneThreadEach'
  BY <1>2 DEF ReturnInv, OneThreadEach
<1>8. FramesFit'
  BY <1>1, <1>2, <1>4, <1>5 DEF ReturnInv, FramesFit
<1>9. EndsByExit'
  BY <1>1, <1>2, SchedulerAssumption, SMTT(30) DEF ReturnInv, EndsByExit
<1>10. Claimed' /\ Counted'
  BY <1>2, <1>6 DEF ReturnInv, Claimed, Counted
<1> QED BY <1>7, <1>8, <1>9, <1>10 DEF ReturnInv

(* A thread that the timer interrupts yields, or exits when its process is  *)
(* ending.                                                                  *)
LEMMA TimerPreemptReturn ==
  ASSUME IInv, ReturnInv, NEW c \in CPUs, TimerPreempt(c)
  PROVE  ReturnInv'
<1>1. Running(c) /\ frame \in [Threads -> {"none", "sched_thread_wait", "proc_wait"}]
  BY DEF TimerPreempt, IInv, TypeOK
<1>2. CASE pstate[CurrentProc(c)] = "EXITING" /\ thread_exit(c)
  <2>1. CurrentProc(c) = Kernel
    BY <1>1, <1>2, RunningFacts DEF ReturnInv, EndsByExit, CurrentProc, AllProcs
  <2> QED BY <1>1, <1>2, <2>1, LeaveReturn DEF thread_exit
<1>3. CASE thread_yield(c)
  BY <1>1, <1>3, LeaveReturn DEF thread_yield
<1> QED BY <1>2, <1>3 DEF TimerPreempt

(* The other ways to give up the CPU: exit of a kernel thread, sleep, wait  *)
(* for a condition, wait for a child.                                       *)
LEMMA LeavesReturn ==
  ASSUME IInv, ReturnInv, NEW c \in CPUs,
         \/ ThreadExit(c)
         \/ \E ticks \in 0..MaxSleep : thread_sleep(c, ticks)
         \/ \E cd \in Conds : sched_thread_wait(c, cd)
         \/ ProcWaitBlock(c)
  PROVE  ReturnInv'
<1>1. frame \in [Threads -> {"none", "sched_thread_wait", "proc_wait"}]
  BY DEF IInv, TypeOK
<1>2. CASE ThreadExit(c)
  BY <1>1, <1>2, LeaveReturn DEF ThreadExit, thread_exit
<1>3. ASSUME NEW ticks \in 0..MaxSleep, thread_sleep(c, ticks) PROVE ReturnInv'
  BY <1>1, <1>3, LeaveReturn DEF thread_sleep
<1>4. ASSUME NEW cd \in Conds, sched_thread_wait(c, cd) PROVE ReturnInv'
  <2>1. cthread[c] \in Threads
    BY <1>4, RunningFacts DEF sched_thread_wait
  <2> QED BY <1>1, <1>4, <2>1, LeaveReturn DEF sched_thread_wait
<1>5. CASE ProcWaitBlock(c)
  <2>1. cthread[c] \in Threads
    BY <1>5, RunningFacts DEF ProcWaitBlock
  <2> QED BY <1>1, <1>5, <2>1, LeaveReturn DEF ProcWaitBlock
<1> QED BY <1>2, <1>3, <1>4, <1>5

(* proc_exit sets the status and ends the only thread of the process.       *)
LEMMA ProcExitReturn ==
  ASSUME IInv, ReturnInv, NEW c \in CPUs, NEW status \in Statuses, proc_exit(c, status)
  PROVE  ReturnInv'
<1> DEFINE t == cthread[c]  p == tproc[t]
<1>1. /\ t \in Threads /\ tstate[t] = "RUNNING" /\ p \in Procs
  BY RunningFacts DEF proc_exit, CurrentProc, AllProcs
<1>2. /\ \A u \in Threads : tstate'[u] = IF u = t THEN "EXITED" ELSE tstate[u]
      /\ \A q \in Procs : /\ pstate'[q] = IF q = p THEN "EXITING" ELSE pstate[q]
                          /\ exit_status'[q] = IF q = p THEN status ELSE exit_status[q]
      /\ UNCHANGED <<tproc, parent, frame, collected, returned>>
  BY <1>1 DEF proc_exit, reschedule, CurrentProc, IInv, TypeOK, AllThreads, AllProcs
<1>3. pstate[p] = "READY" /\ frame[t] = "none"
  <2>1. t \in ThreadsOf(p)
    BY <1>1 DEF ThreadsOf, AllThreads
  <2>2. pstate[p] \in {"READY", "EXITING"}
    BY <1>1, <2>1 DEF IInv, DefunctWithoutThreads
  <2>3. pstate[p] # "EXITING"
    BY <1>1 DEF ReturnInv, EndsByExit
  <2>4. frame[t] = "none"
    BY <1>1, NoFrame
  <2> QED BY <2>2, <2>3, <2>4
<1>4. \A u \in Threads : tproc[u] = p => u = t
  BY <1>1 DEF ReturnInv, OneThreadEach
<1> HIDE DEF t, p
<1>5. \A u \in Threads : Collecting(u)' <=> Collecting(u)
  BY <1>1, <1>2, <1>3 DEF Collecting
<1>6. OneThreadEach' /\ FramesFit'
  BY <1>1, <1>2, <1>3 DEF ReturnInv, OneThreadEach, FramesFit
<1>7. EndsByExit'
  BY <1>1, <1>2, <1>4 DEF ReturnInv, EndsByExit, p
<1>8. \A u \in Threads : Collecting(u) => collected[u].pid \in Procs /\ collected[u].pid # p
  BY <1>3 DEF ReturnInv, Claimed, Collections
<1>9. Claimed' /\ Counted'
  BY <1>2, <1>3, <1>5, <1>8, SMTT(30) DEF ReturnInv, Claimed, Counted
<1> QED BY <1>6, <1>7, <1>9 DEF ReturnInv

(* proc_wait finds a child that has ended, which nobody has been given yet. *)
LEMMA ProcWaitCollectReturn ==
  ASSUME IInv, ReturnInv, NEW c \in CPUs, ProcWaitCollect(c)
  PROVE  ReturnInv'
<1>1. PICK q \in Procs : /\ pstate[q] = "DEFUNCT" /\ parent[q] = CurrentProc(c)
                         /\ pstate' = [pstate EXCEPT ![q] = "TRUNCATE"]
                         /\ returned' = [returned EXCEPT ![q] = @ + 1]
  BY DEF ProcWaitCollect, DefunctChildren
<1>2. /\ UNCHANGED <<tstate, tproc, parent, frame, collected, exit_status>>
      /\ parent[q] # Kernel
  BY <1>1 DEF ProcWaitCollect, threadVars
<1>3. /\ \A r \in Procs : /\ pstate'[r] = IF r = q THEN "TRUNCATE" ELSE pstate[r]
                          /\ returned'[r] = IF r = q THEN returned[q] + 1 ELSE returned[r]
      /\ returned[q] = 0
  BY <1>1 DEF IInv, TypeOK, AllProcs, ReturnInv, Counted
<1>4. OneThreadEach' /\ FramesFit'
  BY <1>2 DEF ReturnInv, OneThreadEach, FramesFit
<1>5. EndsByExit'
  BY <1>1, <1>2, <1>3, SMTT(30) DEF ReturnInv, EndsByExit
<1>6. \A u \in Threads : Collecting(u) => collected[u].pid \in Procs /\ collected[u].pid # q
  BY <1>1 DEF ReturnInv, Claimed, Collections
<1>7. \A u \in Threads : Collecting(u)' <=> Collecting(u)
  BY <1>2 DEF Collecting
<1>8. Claimed' /\ Counted'
  BY <1>2, <1>3, <1>6, <1>7, SMTT(30) DEF ReturnInv, Claimed, Counted
<1> QED BY <1>4, <1>5, <1>8 DEF ReturnInv

(* insert_thread gives the kernel a thread, or a new process its own.       *)
LEMMA NewThreadReturn ==
  ASSUME IInv, ReturnInv, NEW p \in AllProcs, NEW t \in Threads, NEW n, tstate[t] = "NEW",
         insert_thread(p, t, n), p = Kernel \/ pstate[p] = "NONE",
         \A q \in Procs : q # p => parent'[q] = parent[q]
  PROVE  ReturnInv'
<1>1. /\ \A u \in Threads : /\ tstate'[u] = IF u = t THEN "READY" ELSE tstate[u]
                            /\ tproc'[u] = IF u = t THEN p ELSE tproc[u]
      /\ \A q \in Procs : /\ pstate'[q] = IF q = p THEN "READY" ELSE pstate[q]
                          /\ exit_status'[q] = IF q = p THEN NoStatus ELSE exit_status[q]
      /\ UNCHANGED <<frame, collected, returned>>
  BY DEF insert_thread, IInv, TypeOK, AllThreads, AllProcs
<1>2. frame[t] = "none"
  BY NoFrame
<1>3. p \in Procs => pstate[p] = "NONE" /\ \A u \in Threads : tproc[u] # p
  <2>1. p \in Procs => pstate[p] = "NONE"
    BY SchedulerAssumption
  <2>2. p \in Procs => ThreadsOf(p) = {}
    BY <2>1 DEF IInv, DefunctWithoutThreads
  <2> QED BY <2>1, <2>2 DEF ThreadsOf, AllThreads
<1>4. \A u \in Threads : Collecting(u)' <=> Collecting(u)
  BY <1>1, <1>2 DEF Collecting
<1>5. \A u \in Threads : Collecting(u) => u # t /\ collected[u].pid \in Procs /\ collected[u].pid # p
  BY <1>2, <1>3 DEF ReturnInv, Claimed, Collections, Collecting
<1>6. OneThreadEach' /\ FramesFit'
  BY <1>1, <1>2, <1>3, SchedulerAssumption, SMTT(30) DEF ReturnInv, OneThreadEach, FramesFit, AllProcs
<1>7. EndsByExit'
  BY <1>1, <1>3, SchedulerAssumption, SMTT(30) DEF ReturnInv, EndsByExit, AllProcs
<1>8. Claimed'
  BY <1>1, <1>4, <1>5 DEF ReturnInv, Claimed
<1>9. Counted'
  BY <1>1, <1>3, <1>4, SMTT(30) DEF ReturnInv, Counted
<1> QED BY <1>6, <1>7, <1>8, <1>9 DEF ReturnInv

(* New processes, and new threads of the kernel.                            *)
LEMMA SchedulesReturn ==
  ASSUME KernelThreadsOnly, IInv, ReturnInv, NEW c \in CPUs,
         \/ \E p \in Procs, t \in Threads : schedule_proc(c, p, t)
         \/ \E p \in ThreadPids, t \in Threads : schedule_thread(c, p, t)
  PROVE  ReturnInv'
<1>1. ASSUME NEW p \in Procs, NEW t \in Threads, schedule_proc(c, p, t) PROVE ReturnInv'
  <2>1. p \in AllProcs /\ \A q \in Procs : q # p => parent'[q] = parent[q]
    BY <1>1 DEF schedule_proc, IInv, TypeOK, AllProcs
  <2> QED BY <1>1, <2>1, NewThreadReturn DEF schedule_proc
<1>2. ASSUME NEW p \in ThreadPids, NEW t \in Threads, schedule_thread(c, p, t) PROVE ReturnInv'
  <2>1. p \in AllProcs /\ p = Kernel
    BY DEF KernelThreadsOnly, AllProcs
  <2> QED BY <1>2, <2>1, NewThreadReturn DEF schedule_thread
<1> QED BY <1>1, <1>2

(* A thread that waits for a condition is not one that waits for a child.   *)
LEMMA NotifyReturn ==
  ASSUME IInv, ReturnInv, NEW c \in CPUs, NEW cd \in Conds, sched_thread_notify_one(c, cd)
  PROVE  ReturnInv'
<1>1. PICK t \in Threads : tstate[t] = "BLOCKED" /\ tstate' = [tstate EXCEPT ![t] = "READY"]
  BY DEF sched_thread_notify_one, First, Waiters
<1>2. /\ \A u \in Threads : tstate'[u] = IF u = t THEN "READY" ELSE tstate[u]
      /\ UNCHANGED <<tproc, frame, collected, pstate, parent, exit_status, returned>>
  BY <1>1 DEF sched_thread_notify_one, procVars, IInv, TypeOK, AllThreads
<1>3. frame[t] = "sched_thread_wait"
  BY <1>1 DEF ReturnInv, FramesFit
<1>4. \A u \in Threads : Collecting(u)' <=> Collecting(u)
  BY <1>1, <1>2, <1>3 DEF Collecting
<1> QED BY <1>1, <1>2, <1>3, <1>4, SMTT(30)
        DEF ReturnInv, OneThreadEach, FramesFit, EndsByExit, Claimed, Counted

(* A CPU that enters the scheduler makes its own thread of the kernel.      *)
LEMMA EnterSchedulerReturn ==
  ASSUME IInv, ReturnInv, NEW c \in CPUs, EnterScheduler(c)
  PROVE  ReturnInv'
<1>1. /\ \A u \in Threads : tstate'[u] = tstate[u] /\ tproc'[u] = tproc[u]
      /\ \A p \in Procs : pstate'[p] = pstate[p] /\ exit_status'[p] = exit_status[p]
      /\ UNCHANGED <<frame, collected, parent, returned>>
  BY SchedulerAssumption DEF EnterScheduler, IInv, TypeOK, AllThreads, AllProcs
<1>2. \A u \in Threads : Collecting(u)' <=> Collecting(u)
  BY <1>1 DEF Collecting
<1>3. \A u \in Threads : Collecting(u) => collected[u].pid \in Procs
  BY DEF ReturnInv, Claimed, Collections
<1>4. OneThreadEach' /\ FramesFit' /\ EndsByExit'
  BY <1>1, SMTT(30) DEF ReturnInv, OneThreadEach, FramesFit, EndsByExit
<1>5. Claimed' /\ Counted'
  BY <1>1, <1>2, <1>3 DEF ReturnInv, Claimed, Counted
<1> QED BY <1>4, <1>5 DEF ReturnInv

(* A thread that was woken with a child's status returns it; the others     *)
(* return from elsewhere.                                                   *)
LEMMA RunThreadReturn ==
  ASSUME IInv, ReturnInv, NEW c \in CPUs, RunThread(c)
  PROVE  ReturnInv'
<1> DEFINE t == Head(queue)  p == collected[t].pid
<1>1. /\ Popping(c) /\ tstate[t] \in {"READY", "SLEEPING"}
      /\ tstate' = [tstate EXCEPT ![t] = "RUNNING"] /\ frame' = [frame EXCEPT ![t] = "none"]
      /\ returned' = IF frame[t] = "proc_wait" THEN [returned EXCEPT ![p] = @ + 1] ELSE returned
      /\ collected' = IF frame[t] = "proc_wait" THEN [collected EXCEPT ![t] = None] ELSE collected
      /\ UNCHANGED <<tproc, pstate, parent, exit_status>>
  BY DEF RunThread
<1>2. t \in Threads
  BY <1>1, PoppedFacts DEF AllThreads
<1>3. /\ tstate \in [AllThreads -> ThreadStates] /\ Threads \subseteq AllThreads
      /\ frame \in [Threads -> {"none", "sched_thread_wait", "proc_wait"}]
      /\ returned \in [Procs -> Nat] /\ collected \in [Threads -> Collections \cup {None}]
  BY DEF IInv, TypeOK, AllThreads
<1>4. frame[t] = "proc_wait" =>
        Collecting(t) /\ p \in Procs /\ returned[p] = 0 /\ pstate[p] = "TRUNCATE" /\ parent[p] = tproc[t]
          /\ tproc[t] \in Procs
  BY <1>1, <1>2 DEF ReturnInv, FramesFit, Claimed, Collecting, Collections
<1>5. frame[t] # "proc_wait" => ~Collecting(t)
  BY DEF Collecting
<1>6. \A u \in Threads : Collecting(u) /\ collected[u].pid = p /\ frame[t] = "proc_wait" => u = t
  BY <1>2, <1>4, SMTT(30) DEF ReturnInv, Claimed, OneThreadEach
<1>7. \A u \in Threads : Collecting(u) => collected[u].pid \in Procs
  BY DEF ReturnInv, Claimed, Collections
<1> HIDE DEF t, p
<1>8. /\ \A u \in Threads : /\ tstate'[u] = IF u = t THEN "RUNNING" ELSE tstate[u]
                            /\ frame'[u] = IF u = t THEN "none" ELSE frame[u]
                            /\ u # t => collected'[u] = collected[u]
  BY <1>1, <1>3
<1>9. \A q \in Procs : returned'[q] = IF frame[t] = "proc_wait" /\ q = p THEN 1 ELSE returned[q]
  BY <1>1, <1>3, <1>4, SMTT(30)
<1>10. \A u \in Threads : Collecting(u)' <=> Collecting(u) /\ u # t
  BY <1>8 DEF Collecting
<1>11. OneThreadEach' /\ FramesFit'
  BY <1>1, <1>8, SMTT(30) DEF ReturnInv, OneThreadEach, FramesFit
<1>12. EndsByExit'
  BY <1>1, <1>8, SMTT(30) DEF ReturnInv, EndsByExit
<1>13. Claimed'
  BY <1>1, <1>6, <1>7, <1>8, <1>9, <1>10, SMTT(30) DEF ReturnInv, Claimed
<1>14. Counted'
  <2>1. ASSUME NEW q \in Procs
        PROVE  \/ returned'[q] = 0
               \/ returned'[q] = 1 /\ pstate[q] = "TRUNCATE" /\ parent[q] # Kernel
    BY <1>4, <1>9, SchedulerAssumption DEF ReturnInv, Counted
  <2>2. ASSUME NEW q \in Procs, pstate[q] = "TRUNCATE", parent[q] # Kernel, returned'[q] = 0
        PROVE  \E u \in Threads : Collecting(u)' /\ collected'[u].pid = q
    <3>1. PICK u \in Threads : Collecting(u) /\ collected[u].pid = q
      BY <1>9, <2>2 DEF ReturnInv, Counted
    <3>2. u # t
      BY <1>4, <1>5, <1>9, <2>2, <3>1, SMTT(30) DEF p
    <3> QED BY <1>8, <1>10, <3>1, <3>2
  <2> QED BY <1>1, <2>1, <2>2 DEF Counted
<1> QED BY <1>11, <1>12, <1>13, <1>14 DEF ReturnInv

(* A thread that was not the last of its process: one of the kernel.        *)
LEMMA DestroyThreadReturn ==
  ASSUME IInv, ReturnInv, NEW c \in CPUs, DestroyThread(c)
  PROVE  ReturnInv'
<1> DEFINE t == Head(queue)
<1>1. /\ Popping(c) /\ tstate[t] = "EXITED" /\ ThreadsOf(tproc[t]) # {t}
      /\ tproc' = [tproc EXCEPT ![t] = None] /\ tstate' = [tstate EXCEPT ![t] = "FREED"]
      /\ UNCHANGED <<frame, collected, pstate, parent, exit_status, returned>>
  BY DEF DestroyThread, procVars
<1>2. t \in Threads /\ frame[t] = "none"
  BY <1>1, PoppedFacts, NoFrame DEF AllThreads
<1>3. /\ tstate \in [AllThreads -> ThreadStates] /\ Threads \subseteq AllThreads
      /\ tproc \in [AllThreads -> AllProcs \cup {None}]
  BY DEF IInv, TypeOK, AllThreads
<1> HIDE DEF t
<1>4. \A u \in Threads : /\ tstate'[u] = IF u = t THEN "FREED" ELSE tstate[u]
                         /\ tproc'[u] = IF u = t THEN None ELSE tproc[u]
  BY <1>1, <1>3
<1>5. \A u \in Threads : /\ Collecting(u)' <=> Collecting(u)
                         /\ Collecting(u) => u # t
  BY <1>1, <1>2, <1>4 DEF Collecting
<1>6. OneThreadEach' /\ FramesFit'
  BY <1>1, <1>2, <1>4, SchedulerAssumption, SMTT(30) DEF ReturnInv, OneThreadEach, FramesFit
<1>7. EndsByExit'
  BY <1>1, <1>4, SchedulerAssumption, SMTT(30) DEF ReturnInv, EndsByExit
<1>8. Claimed' /\ Counted'
  BY <1>1, <1>4, <1>5 DEF ReturnInv, Claimed, Counted
<1> QED BY <1>6, <1>7, <1>8 DEF ReturnInv

(* The process of the last thread ends: its parent's thread, if it waits,   *)
(* gets the status and nobody else does.                                    *)
LEMMA DestroyLastThreadReturn ==
  ASSUME IInv, ReturnInv, NEW c \in CPUs, DestroyLastThread(c)
  PROVE  ReturnInv'
<1> DEFINE t == Head(queue)  p == tproc[t]  W == WaitingFor(p)
           claim == [pid |-> p, status |-> exit_status[p]]
<1>1. /\ Popping(c) /\ tstate[t] = "EXITED" /\ ThreadsOf(p) = {t}
      /\ tproc' = [tproc EXCEPT ![t] = None] /\ make_process_defunct(p, t)
      /\ UNCHANGED <<frame, parent, exit_status, returned>>
  BY DEF DestroyLastThread
<1>2. /\ tstate' = [u \in AllThreads |-> IF u = t THEN "FREED"
                                         ELSE IF u \in W THEN "READY" ELSE tstate[u]]
      /\ collected' = [u \in Threads |-> IF u \in W THEN claim ELSE collected[u]]
      /\ pstate' = [pstate EXCEPT ![p] = IF parent[p] = Kernel \/ W # {}
                                         THEN "TRUNCATE" ELSE "DEFUNCT"]
  BY <1>1 DEF make_process_defunct
<1>3. t \in Threads /\ frame[t] = "none"
  BY <1>1, PoppedFacts, NoFrame DEF AllThreads
<1>4. p \in Procs
  <2>1. p # Kernel
    BY <1>1, <1>3, KernelKept DEF KernelNotDestroyed
  <2>2. p \in AllProcs
    BY <1>1, <1>3 DEF IInv, Where, Listed, TypeOK, AllThreads
  <2> QED BY <2>1, <2>2 DEF AllProcs
<1>5. pstate[p] = "EXITING" /\ exit_status[p] \in Statuses
  BY <1>1, <1>3, <1>4 DEF ReturnInv, EndsByExit
<1>6. /\ claim \in Collections /\ claim.pid = p /\ claim.status = exit_status[p]
  BY <1>4, <1>5 DEF Collections, Exits
<1>7. \A u \in W : u \in Threads /\ tstate[u] = "WAITING" /\ tproc[u] = parent[p] /\ parent[p] # Kernel
  BY DEF WaitingFor
<1>8. /\ tstate \in [AllThreads -> ThreadStates] /\ Threads \subseteq AllThreads
      /\ tproc \in [AllThreads -> AllProcs \cup {None}] /\ pstate \in [AllProcs -> ProcStates]
      /\ Procs \subseteq AllProcs
  BY DEF IInv, TypeOK, AllThreads, AllProcs
<1>9. returned[p] = 0 /\ \A u \in Threads : Collecting(u) => collected[u].pid # p
  BY <1>4, <1>5 DEF ReturnInv, Counted, Claimed
<1> HIDE DEF t, p, W, claim
<1>10. /\ \A u \in Threads : /\ tstate'[u] = IF u = t THEN "FREED"
                                             ELSE IF u \in W THEN "READY" ELSE tstate[u]
                             /\ tproc'[u] = IF u = t THEN None ELSE tproc[u]
                             /\ collected'[u] = IF u \in W THEN claim ELSE collected[u]
       /\ \A q \in Procs : pstate'[q] = IF q # p THEN pstate[q]
                                        ELSE IF parent[p] = Kernel \/ W # {}
                                        THEN "TRUNCATE" ELSE "DEFUNCT"
  BY <1>1, <1>2, <1>8
<1>11. \A u \in W : frame[u] = "proc_wait" /\ u # t /\ tproc[u] \in Procs
  BY <1>1, <1>7 DEF ReturnInv, FramesFit
<1>12. \A u \in Threads : Collecting(u)' <=> Collecting(u) \/ u \in W
  BY <1>1, <1>3, <1>10, <1>11 DEF Collecting
<1>13. \A u \in Threads : Collecting(u) => u \notin W /\ u # t /\ collected[u].pid \in Procs
  BY <1>3, <1>7 DEF Collecting, ReturnInv, Claimed, Collections
<1>14. OneThreadEach'
  BY <1>10, SchedulerAssumption, SMTT(30) DEF ReturnInv, OneThreadEach
<1>15. FramesFit'
  BY <1>1, <1>3, <1>7, <1>10, <1>11 DEF ReturnInv, FramesFit
<1>16. EndsByExit'
  <2>1. ASSUME NEW u \in Threads, tproc'[u] \in Procs
        PROVE  tstate'[u] = "EXITED" <=> pstate'[tproc'[u]] = "EXITING"
    <3>1. u # t /\ tproc'[u] = tproc[u]
      BY <1>10, <2>1, SchedulerAssumption
    <3>2. tproc[u] # p
      BY <1>1, <1>8, <3>1 DEF ThreadsOf
    <3> QED BY <1>7, <1>10, <2>1, <3>1, <3>2, SMTT(30) DEF ReturnInv, EndsByExit
  <2>2. \A q \in Procs : pstate'[q] \in {"EXITING", "DEFUNCT", "TRUNCATE"} => exit_status[q] \in Statuses
    BY <1>5, <1>10 DEF ReturnInv, EndsByExit
  <2> QED BY <1>1, <2>1, <2>2 DEF EndsByExit
<1>17. Claimed'
  <2>1. ASSUME NEW u \in Threads, Collecting(u)'
        PROVE  /\ collected'[u] \in Collections
               /\ pstate'[collected'[u].pid] = "TRUNCATE"
               /\ parent[collected'[u].pid] = tproc'[u]
               /\ collected'[u].status = exit_status[collected'[u].pid]
               /\ returned[collected'[u].pid] = 0
    <3>1. CASE u \in W
      <4>1. collected'[u] = claim /\ tproc'[u] = parent[p] /\ pstate'[p] = "TRUNCATE"
        BY <1>4, <1>7, <1>10, <1>11, <3>1
      <4> QED BY <1>6, <1>9, <4>1
    <3>2. CASE u \notin W
      <4>1. Collecting(u) /\ collected'[u] = collected[u] /\ tproc'[u] = tproc[u]
        BY <1>10, <1>12, <1>13, <2>1, <3>2
      <4> QED BY <1>9, <1>10, <1>13, <4>1, SMTT(30) DEF ReturnInv, Claimed
    <3> QED BY <3>1, <3>2
  <2> QED BY <1>1, <2>1 DEF Claimed
<1>18. Counted'
  <2>1. ASSUME NEW q \in Procs
        PROVE  \/ returned[q] = 0
               \/ returned[q] = 1 /\ pstate'[q] = "TRUNCATE" /\ parent[q] # Kernel
    BY <1>9, <1>10 DEF ReturnInv, Counted
  <2>2. ASSUME NEW q \in Procs, pstate'[q] = "TRUNCATE", parent[q] # Kernel, returned[q] = 0
        PROVE  \E u \in Threads : Collecting(u)' /\ collected'[u].pid = q
    <3>1. CASE q = p
      <4>1. PICK u : u \in W
        BY <1>10, <2>2, <3>1
      <4> QED BY <1>6, <1>7, <1>10, <1>12, <3>1, <4>1
    <3>2. CASE q # p
      <4>1. PICK u \in Threads : Collecting(u) /\ collected[u].pid = q
        BY <1>10, <2>2, <3>2 DEF ReturnInv, Counted
      <4> QED BY <1>10, <1>12, <1>13, <4>1
    <3> QED BY <3>1, <3>2
  <2> QED BY <1>1, <2>1, <2>2 DEF Counted
<1> QED BY <1>14, <1>15, <1>16, <1>17, <1>18 DEF ReturnInv

(* The rounds of the scheduler.                                             *)
LEMMA LoopReturn ==
  ASSUME IInv, ReturnInv, NEW c \in CPUs, SchedulerLoop(c)
  PROVE  ReturnInv'
<1>1. CASE SchedIdle(c) \/ KeepSleeping(c) \/ DropThread(c)
  BY <1>1, ReturnFrame DEF SchedIdle, KeepSleeping, DropThread, vars, threadVars, procVars
<1> QED BY <1>1, DestroyThreadReturn, DestroyLastThreadReturn, RunThreadReturn DEF SchedulerLoop

(* Every step keeps the invariant.                                          *)
LEMMA NextReturn ==
  ASSUME KernelThreadsOnly
  PROVE  IInv /\ ReturnInv /\ [Next]_vars => ReturnInv'
<1> SUFFICES ASSUME IInv, ReturnInv, [Next]_vars PROVE ReturnInv'
  OBVIOUS
<1>1. CASE UNCHANGED vars
  BY <1>1, ReturnFrame DEF vars, threadVars, procVars
<1>2. ASSUME NEW c \in CPUs, PassCheckpoint(c) \/ TimerTick(c) PROVE ReturnInv'
  BY <1>2, ReturnFrame DEF PassCheckpoint, TimerTick, threadVars, procVars
<1>3. ASSUME NEW c \in CPUs, CPUStep(c) PROVE ReturnInv'
  BY <1>2, <1>3, LoopReturn, EnterSchedulerReturn, TimerPreemptReturn, LeavesReturn, NotifyReturn,
     ProcExitReturn, ProcWaitCollectReturn, SchedulesReturn DEF CPUStep
<1> QED BY <1>1, <1>3 DEF Next

(* Both invariants hold in every state.                                     *)
LEMMA ReturnInvariance ==
  ASSUME KernelThreadsOnly
  PROVE  Spec => []ReturnInv
BY InitReturn, NextReturn, Invariance, PTL DEF Spec

(* On any number of CPUs, with any number of processes that fork and wait   *)
(* as they like, the end of a child reaches its parent exactly once, with   *)
(* the status that the child gave to proc_exit.                             *)
THEOREM ReturnCorrect ==
  ASSUME KernelThreadsOnly
  PROVE  Spec => []ReturnedOnce
BY ReturnSound, ReturnInvariance, Invariance, PTL

(* No step takes a process back in its life or changes the status of one    *)
(* that is exiting.                                                         *)
LEMMA LifecycleStep ==
  ASSUME KernelThreadsOnly, IInv, ReturnInv, NEW c \in CPUs, CPUStep(c), NEW p \in Procs
  PROVE  /\ ProcRank(pstate'[p]) >= ProcRank(pstate[p])
         /\ ProcRank(pstate[p]) >= 2 => exit_status'[p] = exit_status[p]
<1>1. /\ pstate \in [AllProcs -> ProcStates] /\ exit_status \in [AllProcs -> Exits]
      /\ p \in AllProcs /\ p # Kernel /\ pstate[p] \in ProcStates
  BY SchedulerAssumption DEF IInv, TypeOK, AllProcs
<1>2. /\ ProcRank("NONE") = 0 /\ ProcRank("READY") = 1 /\ ProcRank("EXITING") = 2
      /\ ProcRank("DEFUNCT") = 3 /\ ProcRank("TRUNCATE") = 4
  BY DEF ProcRank
<1>3. ProcRank(pstate[p]) \in 0..4
  BY <1>1, <1>2, SMTT(30) DEF ProcStates
<1>4. ASSUME pstate'[p] = pstate[p], exit_status'[p] = exit_status[p]
      PROVE  /\ ProcRank(pstate'[p]) >= ProcRank(pstate[p])
             /\ ProcRank(pstate[p]) >= 2 => exit_status'[p] = exit_status[p]
  BY <1>3, <1>4, SMTT(30)
<1>5. CASE SchedulerLoop(c)
  <2>1. CASE DestroyLastThread(c)
    <3> DEFINE t == Head(queue)
    <3>1. /\ Popping(c) /\ tstate[t] = "EXITED" /\ exit_status' = exit_status
          /\ make_process_defunct(tproc[t], t)
      BY <2>1 DEF DestroyLastThread
    <3>2. t \in Threads
      BY <3>1, PoppedFacts DEF AllThreads
    <3>3. pstate'[p] = pstate[p] \/ (p = tproc[t] /\ pstate'[p] \in {"DEFUNCT", "TRUNCATE"})
      BY <1>1, <3>1 DEF make_process_defunct
    <3>4. p = tproc[t] => pstate[p] = "EXITING"
      BY <3>1, <3>2 DEF ReturnInv, EndsByExit
    <3> QED BY <1>2, <1>4, <3>1, <3>3, <3>4, SMTT(30)
  <2>2. CASE ~DestroyLastThread(c)
    BY <1>4, <1>5, <2>2
       DEF SchedulerLoop, SchedIdle, DestroyThread, KeepSleeping, RunThread, DropThread, vars, procVars
  <2> QED BY <2>1, <2>2
<1>6. CASE EnterScheduler(c) \/ PassCheckpoint(c) \/ TimerTick(c)
  BY <1>1, <1>4, <1>6 DEF EnterScheduler, PassCheckpoint, TimerTick, procVars
<1>7. CASE \/ TimerPreempt(c) \/ ThreadExit(c) \/ ProcWaitBlock(c)
           \/ \E ticks \in 0..MaxSleep : thread_sleep(c, ticks)
           \/ \E cd \in Conds : sched_thread_wait(c, cd)
           \/ \E cd \in Conds : sched_thread_notify_one(c, cd)
  BY <1>4, <1>7 DEF TimerPreempt, ThreadExit, ProcWaitBlock, thread_exit, thread_yield, thread_sleep,
                    sched_thread_wait, sched_thread_notify_one, procVars
<1>8. ASSUME NEW status \in Statuses, proc_exit(c, status)
      PROVE  /\ ProcRank(pstate'[p]) >= ProcRank(pstate[p])
             /\ ProcRank(pstate[p]) >= 2 => exit_status'[p] = exit_status[p]
  <2>1. CASE p # CurrentProc(c)
    BY <1>1, <1>4, <1>8, <2>1 DEF proc_exit
  <2>2. CASE p = CurrentProc(c)
    <3>1. cthread[c] \in Threads /\ tstate[cthread[c]] = "RUNNING" /\ tproc[cthread[c]] = p
      BY <1>8, <2>2, RunningFacts DEF proc_exit, CurrentProc
    <3>2. cthread[c] \in ThreadsOf(p)
      BY <3>1 DEF ThreadsOf, AllThreads
    <3>3. pstate[p] \in {"READY", "EXITING"}
      BY <3>2 DEF IInv, DefunctWithoutThreads
    <3>4. pstate[p] = "READY"
      BY <3>1, <3>3 DEF ReturnInv, EndsByExit
    <3>5. pstate'[p] = "EXITING"
      BY <1>1, <1>8, <2>2 DEF proc_exit
    <3> QED BY <1>2, <3>4, <3>5, SMTT(30)
  <2> QED BY <2>1, <2>2
<1>9. CASE ProcWaitCollect(c)
  <2>1. PICK q \in Procs : pstate[q] = "DEFUNCT" /\ pstate' = [pstate EXCEPT ![q] = "TRUNCATE"]
    BY <1>9 DEF ProcWaitCollect, DefunctChildren
  <2>2. exit_status' = exit_status
    BY <1>9 DEF ProcWaitCollect
  <2>3. pstate'[p] = IF p = q THEN "TRUNCATE" ELSE pstate[p]
    BY <1>1, <2>1
  <2> QED BY <1>2, <1>4, <2>1, <2>2, <2>3, SMTT(30)
<1>10. ASSUME NEW q \in Procs, NEW t \in Threads, schedule_proc(c, q, t)
       PROVE  /\ ProcRank(pstate'[p]) >= ProcRank(pstate[p])
              /\ ProcRank(pstate[p]) >= 2 => exit_status'[p] = exit_status[p]
  <2>1. /\ pstate[q] = "NONE" /\ pstate' = [pstate EXCEPT ![q] = "READY"]
        /\ exit_status' = [exit_status EXCEPT ![q] = NoStatus]
    BY <1>10 DEF schedule_proc, insert_thread
  <2>2. CASE p = q
    <3>1. pstate[p] = "NONE" /\ pstate'[p] = "READY"
      BY <1>1, <2>1, <2>2
    <3> QED BY <1>2, <3>1, SMTT(30)
  <2>3. CASE p # q
    BY <1>1, <1>4, <2>1, <2>3
  <2> QED BY <2>2, <2>3
<1>11. ASSUME NEW q \in ThreadPids, NEW t \in Threads, schedule_thread(c, q, t)
       PROVE  pstate'[p] = pstate[p] /\ exit_status'[p] = exit_status[p]
  BY <1>1, <1>11 DEF schedule_thread, insert_thread, KernelThreadsOnly
<1> QED BY <1>4, <1>5, <1>6, <1>7, <1>8, <1>9, <1>10, <1>11 DEF CPUStep

(* A process passes the states of enum proc_state in their order, and its   *)
(* exit status is settled once it is exiting.                               *)
THEOREM LifecycleCorrect ==
  ASSUME KernelThreadsOnly
  PROVE  Spec => ProcLifecycle
<1>1. IInv /\ ReturnInv /\ [Next]_vars =>
        [\A p \in Procs : /\ ProcRank(pstate'[p]) >= ProcRank(pstate[p])
                          /\ ProcRank(pstate[p]) >= 2 => exit_status'[p] = exit_status[p]]_vars
  BY LifecycleStep DEF Next
<1> QED BY <1>1, ReturnInvariance, Invariance, PTL DEF Spec, ProcLifecycle

==============================================================================
