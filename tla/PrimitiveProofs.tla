--------------------------- MODULE PrimitiveProofs ---------------------------
(***************************************************************************)
(* Proofs about what the kernel and the C library rest on and which rests  *)
(* on nothing else of them: the spinlock (Spinlock), for any set of CPUs   *)
(* and any depth of nesting, and malloc and free (LibcHeap), for any       *)
(* number and sizes of allocations.                                        *)
(***************************************************************************)
EXTENDS Spinlock, LibcHeap, WellFoundedInduction, TLAPS

\* The time the provers have for a step.
USE ZenonT(60)

-----------------------------------------------------------------------------
(***************************************************************************)
(* Spinlock.  What is invariant of one CPU's counters (Counters) does not  *)
(* depend on the lock, and what is invariant of the lock (Lock) uses of    *)
(* the counters only that a context inside the lock's code is not          *)
(* interrupted.                                                            *)
(***************************************************************************)

\* Where a context is not between a push and its pop, and where it can be
\* interrupted if its caller can.
Outside == {"out", "acq_push", "rel_preempt"}
Open == Outside \cup {"acq_relax"}

Pushed(c, x) == IF pc[c][x] \in Outside THEN 0 ELSE 1
Busy(c, x) == IF pc[c][x] = "out" THEN 0 ELSE 1

\* How often the caller of the lock's code has disabled interrupts.
Base(c) == cli_stack[c] - Pushed(c, "thread") - Pushed(c, "irq")

(* A handler runs when the thread could be interrupted, and with interrupts *)
(* disabled; a thread has them as its caller, but inside the lock's code.   *)
Handler(c) ==
  /\ in_irq[c] => Base(c) = 0 /\ ~if_flag[c] /\ pc[c]["thread"] \in Open
  /\ ~in_irq[c] => /\ pc[c]["irq"] = "out" /\ depth[c]["irq"] = 0
                   /\ if_flag[c] <=> (Base(c) = 0 /\ pc[c]["thread"] \in Open)

(* What the pops and the spinning find in int_enabled and eflags.           *)
Saved(c) ==
  /\ Base(c) \in {0, 1}
  /\ pc[c]["thread"] \in Acquiring => (eflags[c]["thread"] <=> Base(c) = 0)
  /\ pc[c]["irq"] \in Acquiring => ~eflags[c]["irq"]
  /\ pc[c]["irq"] # "acq_relax"
  /\ pc[c]["thread"] = "acq_relax" => Base(c) = 0
  /\ pc[c]["thread"] \notin Outside /\ Base(c) = 0 => int_enabled[c]
  /\ pc[c]["thread"] \in Outside /\ pc[c]["irq"] \notin Outside => ~int_enabled[c]

Preemption(c) ==
  /\ depth[c]["thread"] >= 0 /\ depth[c]["irq"] >= 0
  /\ preempt_disabled[c] =
       depth[c]["thread"] + depth[c]["irq"] + Busy(c, "thread") + Busy(c, "irq")

Counted(c) == Handler(c) /\ Saved(c) /\ Preemption(c)

Counters == \A c \in CPUs : Counted(c)

-----------------------------------------------------------------------------

\* A context that has the lock while it is in its code.
Owning == {"acq_num", "acq_owner", "acq_nest", "acq_pop", "rel_num", "rel_owner", "rel_unlock"}

Owns(c) ==
  \/ depth[c]["thread"] > 0 \/ depth[c]["irq"] > 0
  \/ pc[c]["thread"] \in Owning \/ pc[c]["irq"] \in Owning

Depth(c) == depth[c]["thread"] + depth[c]["irq"]

(* What the fields of the lock are while CPU c owns it.                     *)
Fields(c) ==
  LET l == pc[c][Current(c)] IN
  /\ l = "acq_num" => Depth(c) = 0 /\ cpu # c
  /\ l = "acq_owner" => Depth(c) = 0 /\ cpu # c /\ num = 1
  /\ l = "acq_nest" => Depth(c) > 0
  /\ l = "acq_pop" \/ l = "rel_num" => cpu = c /\ num = Depth(c) + 1
  /\ l = "rel_owner" => Depth(c) = 0 /\ cpu = c /\ num = 0
  /\ l = "rel_unlock" => Depth(c) = 0 /\ cpu # c /\ num = 0
  /\ Depth(c) > 0 /\ l # "acq_pop" /\ l # "rel_num" => cpu = c /\ num = Depth(c)

(* A context that spins does not wait for its own CPU.                      *)
Spinning(c) ==
  /\ pc[c][Current(c)] = "acq_xchg" \/ pc[c][Current(c)] = "acq_relax" => ~Owns(c)
  /\ pc[c]["thread"] = "acq_relax" => depth[c]["thread"] = 0

OneOwner ==
  /\ \A c, d \in CPUs : Owns(c) /\ Owns(d) => c = d
  /\ \A c \in CPUs : (Owns(c) => locked = 1) /\ (cpu = c => Owns(c))

Lock == OneOwner /\ \A c \in CPUs : Fields(c) /\ Spinning(c)

\* Between a push and its pop, and not where spinning lets interrupts in.
Inside == (Acquiring \cup Releasing) \ Open

IInv == TypeOK /\ Counters /\ Lock

-----------------------------------------------------------------------------
(* A step of one CPU.                                                       *)

\* The variables of CPU d stay as they are.
Same(d) ==
  /\ if_flag'[d] = if_flag[d] /\ int_enabled'[d] = int_enabled[d] /\ cli_stack'[d] = cli_stack[d]
  /\ preempt_disabled'[d] = preempt_disabled[d] /\ in_irq'[d] = in_irq[d]
  /\ pc'[d] = pc[d] /\ eflags'[d] = eflags[d] /\ depth'[d] = depth[d]

\* What a step of CPU c may do to the lock: only the owner writes num and
\* cpu, and c comes to own the lock only when it was free.
OwnStep(c) ==
  /\ Owns(c) \/ (cpu' = cpu /\ num' = num /\ locked' \in {locked, 1})
  /\ cpu' \in {cpu, c, NoCPU}
  /\ Owns(c)' => (Owns(c) \/ locked = 0) /\ locked' = 1
  /\ cpu' = c => Owns(c)'

\* The other of the two contexts.
Other(x) == IF x = "thread" THEN "irq" ELSE "thread"

\* Context x of CPU c, which is running, goes from f to l in the lock's code,
\* and holds the lock n times more.
Moves(c, x, f, l, n) ==
  /\ x = Current(c) /\ in_irq'[c] = in_irq[c]
  /\ pc[c][x] = f /\ pc'[c][x] = l /\ depth'[c][x] = depth[c][x] + n
  /\ pc'[c][Other(x)] = pc[c][Other(x)] /\ depth'[c][Other(x)] = depth[c][Other(x)]

(* What one CPU does leaves the counters of the others alone.               *)
LEMMA OtherCounters ==
  ASSUME NEW d \in CPUs, Counted(d), Same(d)
  PROVE  Counted(d)'
BY DEF Same, Counted, Handler, Saved, Preemption, Base, Pushed, Busy

(* What the other CPUs have to do with the lock does not change with a step *)
(* of c that keeps cpu and num, or that c makes as the owner.               *)
LEMMA OtherOwners ==
  ASSUME IInv, NEW c \in CPUs, NEW d \in CPUs, d # c, Same(d), OwnStep(c)
  PROVE  (Owns(d)' <=> Owns(d)) /\ Fields(d)' /\ Spinning(d)'
<1>1. Fields(d) /\ Spinning(d) /\ (Owns(c) => ~Owns(d))
  BY DEF IInv, Lock, OneOwner
<1>2. pc'[d] = pc[d] /\ depth'[d] = depth[d] /\ in_irq'[d] = in_irq[d]
  BY DEF Same
<1>3. Current(d)' = Current(d) /\ Depth(d)' = Depth(d)
  BY <1>2 DEF Current, Depth
<1>4. Owns(d)' <=> Owns(d)
  BY <1>2 DEF Owns, Owning
<1>5. Spinning(d)'
  BY <1>1, <1>2, <1>3, <1>4 DEF Spinning
<1>6. CASE Owns(d)
  <2>1. cpu' = cpu /\ num' = num
    BY <1>1, <1>6 DEF OwnStep
  <2>2. Fields(d)'
    BY <1>1, <1>2, <1>3, <2>1 DEF Fields
  <2> QED BY <1>4, <1>5, <2>2
<1>7. CASE ~Owns(d)
  <2>1. pc[d][Current(d)] \notin Owning
    BY <1>7 DEF Owns, Current
  <2>2. Depth(d) \in Int /\ ~(Depth(d) > 0)
    BY <1>7, SMTT(30) DEF IInv, TypeOK, Owns, Depth, Contexts
  <2>3. Fields(d)'
    BY <1>2, <1>3, <2>1, <2>2 DEF Fields, Owning
  <2> QED BY <1>4, <1>5, <2>3
<1> QED BY <1>6, <1>7

(* So a step of c keeps the invariant if c's own part of it is kept.        *)
LEMMA StepOfOneCPU ==
  ASSUME IInv, NEW c \in CPUs, TypeOK', \A d \in CPUs \ {c} : Same(d),
         Counted(c)', OwnStep(c), Fields(c)', Spinning(c)'
  PROVE  IInv'
<1>1. ASSUME NEW d \in CPUs, d # c
      PROVE  Counted(d)' /\ (Owns(d)' <=> Owns(d)) /\ Fields(d)' /\ Spinning(d)'
  BY <1>1, OtherCounters, OtherOwners DEF IInv, Counters
<1>2. \A d \in CPUs : Owns(d) => locked = 1 /\ (Owns(c) => d = c)
  BY DEF IInv, Lock, OneOwner
<1>3. \A d, e \in CPUs : Owns(d)' /\ Owns(e)' => d = e
  <2>1. \A d, e \in CPUs : Owns(d) /\ Owns(e) => d = e
    BY DEF IInv, Lock, OneOwner
  <2> QED BY <1>1, <1>2, <2>1, SMTT(30) DEF OwnStep
<1>4. ASSUME NEW d \in CPUs PROVE (Owns(d)' => locked' = 1) /\ (cpu' = d => Owns(d)')
  <2>1. CASE d = c
    BY <2>1 DEF OwnStep
  <2>2. CASE d # c
    <3>1. Owns(d)' => locked' = 1
      BY <1>1, <1>2, <2>2 DEF OwnStep
    <3>2. cpu' = d => cpu = d
      BY <2>2, SpinlockAssumption DEF OwnStep
    <3> QED BY <1>1, <2>2, <3>1, <3>2 DEF IInv, Lock, OneOwner
  <2> QED BY <2>1, <2>2
<1> QED BY <1>1, <1>3, <1>4 DEF IInv, Counters, Lock, OneOwner

\* What a step of c starts from: only the context that is running can be in
\* the lock's code other than where it may be interrupted.
Start(c) ==
  /\ Fields(c) /\ Spinning(c)
  /\ (Owns(c) => locked = 1) /\ (cpu = c => Owns(c))
  /\ depth[c]["thread"] \in Nat /\ depth[c]["irq"] \in Nat
  /\ in_irq[c] => pc[c]["thread"] \in Open
  /\ ~in_irq[c] => pc[c]["irq"] = "out" /\ depth[c]["irq"] = 0
  /\ pc[c]["irq"] # "acq_relax"
  /\ num \in Int /\ locked \in {0, 1} /\ NoCPU # c

(* The inductive invariant gives it.                                        *)
LEMMA OwnFacts ==
  ASSUME IInv, NEW c \in CPUs
  PROVE  TypeOK /\ Counted(c) /\ Start(c)
BY SpinlockAssumption, SMTT(30)
   DEF IInv, TypeOK, Counters, Counted, Handler, Saved, Preemption, Lock, OneOwner, Contexts, Start

\* The same as the lock sees it: what the interrupted context has done does
\* not tell.
Moved(c, f, l, n) ==
  /\ pc[c][Current(c)] = f /\ pc'[c][Current(c)'] = l
  /\ Depth(c) \in Nat /\ Depth(c)' \in Nat /\ Depth(c)' = Depth(c) + n
  /\ Owns(c) <=> Depth(c) > 0 \/ f \in Owning
  /\ Owns(c)' <=> Depth(c)' > 0 \/ l \in Owning
  /\ (l = "acq_relax" => Depth(c)' = 0) => (pc'[c]["thread"] = "acq_relax" => depth'[c]["thread"] = 0)

(* The context that is not running has not got beyond where it may be       *)
(* interrupted.                                                             *)
LEMMA MovesMoved ==
  ASSUME NEW c \in CPUs, NEW x \in Contexts, NEW f, NEW l, NEW n \in {-1, 0, 1},
         TypeOK, Start(c), Moves(c, x, f, l, n), n = -1 => depth[c][x] > 0
  PROVE  Moved(c, f, l, n)
<1> USE DEF Moves, Other, Start, Current
<1>1. pc[c][Current(c)] = f /\ pc'[c][Current(c)'] = l
  BY DEF Contexts
<1>2. /\ pc[c][Other(x)] \notin Owning
      /\ pc[c]["thread"] = "acq_relax" => depth[c]["thread"] = 0
  BY DEF Contexts, Open, Outside, Owning, Spinning
<1>3. CASE x = "thread"
  <2>1. /\ depth'[c]["thread"] = depth[c]["thread"] + n /\ depth'[c]["irq"] = depth[c]["irq"]
        /\ pc[c]["thread"] = f /\ pc'[c]["thread"] = l
        /\ pc'[c]["irq"] = pc[c]["irq"] /\ pc[c]["irq"] \notin Owning
        /\ depth[c]["thread"] \in Nat /\ depth[c]["irq"] \in Nat /\ depth[c]["thread"] + n \in Nat
    BY <1>2, <1>3, SMTT(30)
  <2>2. Depth(c) \in Nat /\ Depth(c)' \in Nat /\ Depth(c)' = Depth(c) + n
    BY <2>1, SMTT(30) DEF Depth
  <2>3. Owns(c) <=> Depth(c) > 0 \/ f \in Owning
    BY <2>1, SMTT(30) DEF Depth, Owns
  <2>4. Owns(c)' <=> Depth(c)' > 0 \/ l \in Owning
    <3>1. Owns(c)' <=> \/ depth'[c]["thread"] > 0 \/ depth'[c]["irq"] > 0
                       \/ pc'[c]["thread"] \in Owning \/ pc'[c]["irq"] \in Owning
      BY DEF Owns, Owning
    <3> QED BY <2>1, <3>1, SMTT(30) DEF Depth
  <2>5. (l = "acq_relax" => Depth(c)' = 0) => (pc'[c]["thread"] = "acq_relax" => depth'[c]["thread"] = 0)
    BY <1>2, <2>1, SMTT(30) DEF Depth
  <2> QED BY <1>1, <2>2, <2>3, <2>4, <2>5 DEF Moved
<1>4. CASE x = "irq"
  <2>1. /\ depth'[c]["irq"] = depth[c]["irq"] + n /\ depth'[c]["thread"] = depth[c]["thread"]
        /\ pc[c]["irq"] = f /\ pc'[c]["irq"] = l
        /\ pc'[c]["thread"] = pc[c]["thread"] /\ pc[c]["thread"] \notin Owning
        /\ depth[c]["irq"] \in Nat /\ depth[c]["thread"] \in Nat /\ depth[c]["irq"] + n \in Nat
    BY <1>2, <1>4, SMTT(30)
  <2>2. Depth(c) \in Nat /\ Depth(c)' \in Nat /\ Depth(c)' = Depth(c) + n
    BY <2>1, SMTT(30) DEF Depth
  <2>3. Owns(c) <=> Depth(c) > 0 \/ f \in Owning
    BY <2>1, SMTT(30) DEF Depth, Owns
  <2>4. Owns(c)' <=> Depth(c)' > 0 \/ l \in Owning
    <3>1. Owns(c)' <=> \/ depth'[c]["thread"] > 0 \/ depth'[c]["irq"] > 0
                       \/ pc'[c]["thread"] \in Owning \/ pc'[c]["irq"] \in Owning
      BY DEF Owns, Owning
    <3> QED BY <2>1, <3>1, SMTT(30) DEF Depth
  <2>5. (l = "acq_relax" => Depth(c)' = 0) => (pc'[c]["thread"] = "acq_relax" => depth'[c]["thread"] = 0)
    BY <1>2, <2>1 DEF Depth
  <2> QED BY <1>1, <2>2, <2>3, <2>4, <2>5 DEF Moved
<1> QED BY <1>3, <1>4 DEF Contexts

(* A step between a push and its pop that touches the lock only.            *)
LEMMA InsideCounters ==
  ASSUME IInv, NEW c \in CPUs, NEW x \in Contexts, NEW l \in Inside,
         x = Current(c), pc[c][x] \in Inside, l \in Acquiring => pc[c][x] \in Acquiring,
         pc' = [pc EXCEPT ![c][x] = l],
         UNCHANGED <<intVars, preempt_disabled, in_irq, eflags, depth>>
  PROVE  Counted(c)'
<1>1. Counted(c) /\ TypeOK
  BY DEF IInv, Counters
<1>2. CASE x = "thread"
  BY <1>1, <1>2, SMTT(30)
     DEF Inside, Counted, Handler, Saved, Preemption, Base, Pushed, Busy, TypeOK, intVars,
       Current, Contexts, Open, Outside, Acquiring, Releasing
<1>3. CASE x = "irq"
  BY <1>1, <1>3, SMTT(30)
     DEF Inside, Counted, Handler, Saved, Preemption, Base, Pushed, Busy, TypeOK, intVars,
       Current, Contexts, Open, Outside, Acquiring, Releasing
<1> QED BY <1>2, <1>3 DEF Contexts

-----------------------------------------------------------------------------
(* The steps of cpu_spinlock_acquire.                                       *)

(* cpu_spinlock_acquire disables preemption.                                *)
LEMMA AcqStartStep ==
  ASSUME IInv, NEW c \in CPUs, NEW x \in Contexts, AcqStart(c, x)
  PROVE  IInv'
<1>0. TypeOK /\ Counted(c) /\ Start(c)
  BY OwnFacts
<1>1. TypeOK'
  BY <1>0, SMTT(30)
     DEF TypeOK, AcqStart, preempt_disable, PushPop, At, Goto, lockVars, intVars, Contexts,
       Acquiring, Releasing
<1>2. ASSUME NEW d \in CPUs \ {c} PROVE Same(d)
  BY <1>0, <1>2 DEF Same, TypeOK, AcqStart, preempt_disable, PushPop, At, Goto, lockVars, intVars
<1>3. /\ Moves(c, x, "out", "acq_push", 0)
      /\ UNCHANGED lockVars
  BY <1>0, SMTT(30)
     DEF Moves, Other, TypeOK, AcqStart, preempt_disable, PushPop, At, Goto, lockVars, intVars,
       Contexts
<1>4. Counted(c)'
  <2>1. CASE x = "thread"
    BY <1>0, <2>1, SMTT(30) DEF Counted, Handler, Saved, Preemption, Base, Pushed, Busy, TypeOK,
       AcqStart, preempt_disable, PushPop, At, Goto, lockVars, intVars, Current, Contexts, Open,
         Outside, Acquiring, Releasing
  <2>2. CASE x = "irq"
    BY <1>0, <2>2, SMTT(30) DEF Counted, Handler, Saved, Preemption, Base, Pushed, Busy, TypeOK,
       AcqStart, preempt_disable, PushPop, At, Goto, lockVars, intVars, Current, Contexts, Open,
         Outside, Acquiring, Releasing
  <2> QED BY <2>1, <2>2 DEF Contexts
<1>5. Moved(c, "out", "acq_push", 0)
  BY <1>0, <1>3, MovesMoved, SMTT(30)
<1>6. OwnStep(c) /\ Fields(c)' /\ Spinning(c)'
  BY <1>0, <1>3, <1>5, SMTT(30) DEF Start, Moved, lockVars, OwnStep, Fields, Spinning, Owning
<1> QED BY <1>1, <1>2, <1>4, <1>6, StepOfOneCPU

(* It disables interrupts.                                                  *)
LEMMA AcqPushStep ==
  ASSUME IInv, NEW c \in CPUs, NEW x \in Contexts, AcqPush(c, x)
  PROVE  IInv'
<1>0. TypeOK /\ Counted(c) /\ Start(c)
  BY OwnFacts
<1>1. TypeOK'
  BY <1>0, SMTT(30)
     DEF TypeOK, AcqPush, push_no_interrupts, At, Goto, lockVars, intVars, Contexts, Acquiring,
       Releasing
<1>2. ASSUME NEW d \in CPUs \ {c} PROVE Same(d)
  BY <1>0, <1>2 DEF Same, TypeOK, AcqPush, push_no_interrupts, At, Goto, lockVars, intVars
<1>3. /\ Moves(c, x, "acq_push", "acq_locked", 0)
      /\ UNCHANGED lockVars
  BY <1>0, SMTT(30)
     DEF Moves, Other, TypeOK, AcqPush, push_no_interrupts, At, Goto, lockVars, intVars, Contexts
<1>4. Counted(c)'
  <2>1. CASE x = "thread"
    BY <1>0, <2>1, SMTT(30) DEF Counted, Handler, Saved, Preemption, Base, Pushed, Busy, TypeOK,
       AcqPush, push_no_interrupts, At, Goto, lockVars, intVars, Current, Contexts, Open,
         Outside, Acquiring, Releasing
  <2>2. CASE x = "irq"
    BY <1>0, <2>2, SMTT(30) DEF Counted, Handler, Saved, Preemption, Base, Pushed, Busy, TypeOK,
       AcqPush, push_no_interrupts, At, Goto, lockVars, intVars, Current, Contexts, Open,
         Outside, Acquiring, Releasing
  <2> QED BY <2>1, <2>2 DEF Contexts
<1>5. Moved(c, "acq_push", "acq_locked", 0)
  BY <1>0, <1>3, MovesMoved, SMTT(30)
<1>6. OwnStep(c) /\ Fields(c)' /\ Spinning(c)'
  BY <1>0, <1>3, <1>5, SMTT(30) DEF Start, Moved, lockVars, OwnStep, Fields, Spinning, Owning
<1> QED BY <1>1, <1>2, <1>4, <1>6, StepOfOneCPU

(* It finds the lock free, so that it is not its own, or reads the owner.   *)
LEMMA AcqReadLockedStep ==
  ASSUME IInv, NEW c \in CPUs, NEW x \in Contexts, AcqReadLocked(c, x)
  PROVE  IInv'
<1>0. TypeOK /\ Counted(c) /\ Start(c)
  BY OwnFacts
<1>1. TypeOK'
  BY <1>0 DEF TypeOK, AcqReadLocked, At, Goto, lockVars, intVars, Contexts, Acquiring, Releasing
<1>2. ASSUME NEW d \in CPUs \ {c} PROVE Same(d)
  BY <1>0, <1>2 DEF Same, TypeOK, AcqReadLocked, At, Goto, lockVars, intVars
<1>3. /\ Moves(c, x, "acq_locked", IF locked = 1 THEN "acq_cpu" ELSE "acq_xchg", 0)
      /\ UNCHANGED lockVars
  BY <1>0, SMTT(30) DEF Moves, Other, TypeOK, AcqReadLocked, At, Goto, lockVars, intVars, Contexts
<1>4. Counted(c)'
  BY InsideCounters, ZenonT(20)
     DEF AcqReadLocked, At, Goto, lockVars, intVars, Inside, Open, Outside, Acquiring, Releasing
<1>5. Moved(c, "acq_locked", IF locked = 1 THEN "acq_cpu" ELSE "acq_xchg", 0)
  BY <1>0, <1>3, MovesMoved, SMTT(30)
<1>6. OwnStep(c) /\ Fields(c)' /\ Spinning(c)'
  BY <1>0, <1>3, <1>5, SMTT(30) DEF Start, Moved, lockVars, OwnStep, Fields, Spinning, Owning
<1> QED BY <1>1, <1>2, <1>4, <1>6, StepOfOneCPU

(* It finds its own number only while it is the owner.                      *)
LEMMA AcqReadCpuStep ==
  ASSUME IInv, NEW c \in CPUs, NEW x \in Contexts, AcqReadCpu(c, x)
  PROVE  IInv'
<1>0. TypeOK /\ Counted(c) /\ Start(c)
  BY OwnFacts
<1>1. TypeOK'
  BY <1>0 DEF TypeOK, AcqReadCpu, At, Goto, lockVars, intVars, Contexts, Acquiring, Releasing
<1>2. ASSUME NEW d \in CPUs \ {c} PROVE Same(d)
  BY <1>0, <1>2 DEF Same, TypeOK, AcqReadCpu, At, Goto, lockVars, intVars
<1>3. /\ Moves(c, x, "acq_cpu", IF cpu = c THEN "acq_nest" ELSE "acq_xchg", 0)
      /\ UNCHANGED lockVars
  BY <1>0, SMTT(30) DEF Moves, Other, TypeOK, AcqReadCpu, At, Goto, lockVars, intVars, Contexts
<1>4. Counted(c)'
  BY InsideCounters, ZenonT(20)
     DEF AcqReadCpu, At, Goto, lockVars, intVars, Inside, Open, Outside, Acquiring, Releasing
<1>5. Moved(c, "acq_cpu", IF cpu = c THEN "acq_nest" ELSE "acq_xchg", 0)
  BY <1>0, <1>3, MovesMoved, SMTT(30)
<1>6. OwnStep(c) /\ Fields(c)' /\ Spinning(c)'
  BY <1>0, <1>3, <1>5, SMTT(30) DEF Start, Moved, lockVars, OwnStep, Fields, Spinning, Owning
<1> QED BY <1>1, <1>2, <1>4, <1>6, StepOfOneCPU

(* It counts an acquisition more of the lock it has.                        *)
LEMMA AcqNestStep ==
  ASSUME IInv, NEW c \in CPUs, NEW x \in Contexts, AcqNest(c, x)
  PROVE  IInv'
<1>0. TypeOK /\ Counted(c) /\ Start(c)
  BY OwnFacts
<1>1. TypeOK'
  BY <1>0, SMTT(30) DEF TypeOK, AcqNest, At, Goto, lockVars, intVars, Contexts, Acquiring, Releasing
<1>2. ASSUME NEW d \in CPUs \ {c} PROVE Same(d)
  BY <1>0, <1>2 DEF Same, TypeOK, AcqNest, At, Goto, lockVars, intVars
<1>3. /\ Moves(c, x, "acq_nest", "acq_pop", 0)
      /\ UNCHANGED <<locked, cpu>> /\ num' = num + 1
  BY <1>0, SMTT(30) DEF Moves, Other, TypeOK, AcqNest, At, Goto, lockVars, intVars, Contexts
<1>4. Counted(c)'
  BY InsideCounters, ZenonT(20)
     DEF AcqNest, At, Goto, lockVars, intVars, Inside, Open, Outside, Acquiring, Releasing
<1>5. Moved(c, "acq_nest", "acq_pop", 0)
  BY <1>0, <1>3, MovesMoved, SMTT(30)
<1>6. OwnStep(c) /\ Fields(c)' /\ Spinning(c)'
  BY <1>0, <1>3, <1>5, SMTT(30) DEF Start, Moved, lockVars, OwnStep, Fields, Spinning, Owning
<1> QED BY <1>1, <1>2, <1>4, <1>6, StepOfOneCPU

(* It takes the lock, or lets interrupts in before it tries again.          *)
LEMMA AcqXchgStep ==
  ASSUME IInv, NEW c \in CPUs, NEW x \in Contexts, AcqXchg(c, x)
  PROVE  IInv'
<1>0. TypeOK /\ Counted(c) /\ Start(c)
  BY OwnFacts
<1>1. TypeOK'
  <2>1. locked' \in {0, 1} /\ if_flag' \in [CPUs -> BOOLEAN]
    BY <1>0 DEF TypeOK, AcqXchg
  <2>2. \E l \in Acquiring : pc' = [pc EXCEPT ![c][x] = l]
    <3>1. pc = [pc EXCEPT ![c][x] = "acq_xchg"]
      BY <1>0 DEF TypeOK, AcqXchg, At
    <3> QED BY <3>1 DEF AcqXchg, Goto, Acquiring
  <2>3. pc' \in [CPUs -> [Contexts -> Acquiring \cup Releasing \cup {"out"}]]
    BY <1>0, <2>2, SMTT(30) DEF TypeOK
  <2> QED BY <1>0, <2>1, <2>3 DEF TypeOK, AcqXchg
<1>2. ASSUME NEW d \in CPUs \ {c} PROVE Same(d)
  BY <1>0, <1>2 DEF Same, TypeOK, AcqXchg, At, Goto, lockVars, intVars
<1>3. /\ Moves(c, x, "acq_xchg", IF locked = 0 THEN "acq_num" ELSE IF eflags[c][x] THEN "acq_relax" ELSE "acq_xchg", 0)
      /\ UNCHANGED <<num, cpu>> /\ locked' = 1
  BY <1>0, SMTT(30) DEF Moves, Other, TypeOK, AcqXchg, At, Goto, lockVars, intVars, Contexts
<1>4. Counted(c)'
  <2>1. CASE x = "thread"
    BY <1>0, <2>1, SMTT(30) DEF Counted, Handler, Saved, Preemption, Base, Pushed, Busy, TypeOK,
       AcqXchg, At, Goto, lockVars, intVars, Current, Contexts, Open, Outside, Acquiring, Releasing
  <2>2. CASE x = "irq"
    BY <1>0, <2>2, SMTT(30) DEF Counted, Handler, Saved, Preemption, Base, Pushed, Busy, TypeOK,
       AcqXchg, At, Goto, lockVars, intVars, Current, Contexts, Open, Outside, Acquiring, Releasing
  <2> QED BY <2>1, <2>2 DEF Contexts
<1>5. Moved(c, "acq_xchg", IF locked = 0 THEN "acq_num" ELSE IF eflags[c][x] THEN "acq_relax" ELSE "acq_xchg", 0)
  BY <1>0, <1>3, MovesMoved, SMTT(30)
<1>6. OwnStep(c) /\ Fields(c)' /\ Spinning(c)'
  BY <1>0, <1>3, <1>5, SMTT(30) DEF Start, Moved, lockVars, OwnStep, Fields, Spinning, Owning
<1> QED BY <1>1, <1>2, <1>4, <1>6, StepOfOneCPU

(* It disables interrupts for the next attempt.                             *)
LEMMA AcqRelaxStep ==
  ASSUME IInv, NEW c \in CPUs, NEW x \in Contexts, AcqRelax(c, x)
  PROVE  IInv'
<1>0. TypeOK /\ Counted(c) /\ Start(c)
  BY OwnFacts
<1>1. TypeOK'
  BY <1>0 DEF TypeOK, AcqRelax, At, Goto, lockVars, intVars, Contexts, Acquiring, Releasing
<1>2. ASSUME NEW d \in CPUs \ {c} PROVE Same(d)
  BY <1>0, <1>2 DEF Same, TypeOK, AcqRelax, At, Goto, lockVars, intVars
<1>3. /\ Moves(c, x, "acq_relax", "acq_xchg", 0)
      /\ UNCHANGED lockVars
  BY <1>0, SMTT(30) DEF Moves, Other, TypeOK, AcqRelax, At, Goto, lockVars, intVars, Contexts
<1>4. Counted(c)'
  <2>1. CASE x = "thread"
    BY <1>0, <2>1, SMTT(30) DEF Counted, Handler, Saved, Preemption, Base, Pushed, Busy, TypeOK,
       AcqRelax, At, Goto, lockVars, intVars, Current, Contexts, Open, Outside, Acquiring, Releasing
  <2>2. CASE x = "irq"
    BY <1>0, <2>2, SMTT(30) DEF Counted, Handler, Saved, Preemption, Base, Pushed, Busy, TypeOK,
       AcqRelax, At, Goto, lockVars, intVars, Current, Contexts, Open, Outside, Acquiring, Releasing
  <2> QED BY <2>1, <2>2 DEF Contexts
<1>5. Moved(c, "acq_relax", "acq_xchg", 0)
  BY <1>0, <1>3, MovesMoved, SMTT(30)
<1>6. OwnStep(c) /\ Fields(c)' /\ Spinning(c)'
  BY <1>0, <1>3, <1>5, SMTT(30) DEF Start, Moved, lockVars, OwnStep, Fields, Spinning, Owning
<1> QED BY <1>1, <1>2, <1>4, <1>6, StepOfOneCPU

(* It has taken the lock and counts one acquisition.                        *)
LEMMA AcqSetNumStep ==
  ASSUME IInv, NEW c \in CPUs, NEW x \in Contexts, AcqSetNum(c, x)
  PROVE  IInv'
<1>0. TypeOK /\ Counted(c) /\ Start(c)
  BY OwnFacts
<1>1. TypeOK'
  BY <1>0, SMTT(30) DEF TypeOK, AcqSetNum, At, Goto, lockVars, intVars, Contexts, Acquiring, Releasing
<1>2. ASSUME NEW d \in CPUs \ {c} PROVE Same(d)
  BY <1>0, <1>2 DEF Same, TypeOK, AcqSetNum, At, Goto, lockVars, intVars
<1>3. /\ Moves(c, x, "acq_num", "acq_owner", 0)
      /\ UNCHANGED <<locked, cpu>> /\ num' = 1
  BY <1>0, SMTT(30) DEF Moves, Other, TypeOK, AcqSetNum, At, Goto, lockVars, intVars, Contexts
<1>4. Counted(c)'
  BY InsideCounters, ZenonT(20)
     DEF AcqSetNum, At, Goto, lockVars, intVars, Inside, Open, Outside, Acquiring, Releasing
<1>5. Moved(c, "acq_num", "acq_owner", 0)
  BY <1>0, <1>3, MovesMoved, SMTT(30)
<1>6. OwnStep(c) /\ Fields(c)' /\ Spinning(c)'
  BY <1>0, <1>3, <1>5, SMTT(30) DEF Start, Moved, lockVars, OwnStep, Fields, Spinning, Owning
<1> QED BY <1>1, <1>2, <1>4, <1>6, StepOfOneCPU

(* It writes its number into the lock.                                      *)
LEMMA AcqSetCpuStep ==
  ASSUME IInv, NEW c \in CPUs, NEW x \in Contexts, AcqSetCpu(c, x)
  PROVE  IInv'
<1>0. TypeOK /\ Counted(c) /\ Start(c)
  BY OwnFacts
<1>1. TypeOK'
  BY <1>0 DEF TypeOK, AcqSetCpu, At, Goto, lockVars, intVars, Contexts, Acquiring, Releasing
<1>2. ASSUME NEW d \in CPUs \ {c} PROVE Same(d)
  BY <1>0, <1>2 DEF Same, TypeOK, AcqSetCpu, At, Goto, lockVars, intVars
<1>3. /\ Moves(c, x, "acq_owner", "acq_pop", 0)
      /\ UNCHANGED <<locked, num>> /\ cpu' = c
  BY <1>0, SMTT(30) DEF Moves, Other, TypeOK, AcqSetCpu, At, Goto, lockVars, intVars, Contexts
<1>4. Counted(c)'
  BY InsideCounters, ZenonT(20)
     DEF AcqSetCpu, At, Goto, lockVars, intVars, Inside, Open, Outside, Acquiring, Releasing
<1>5. Moved(c, "acq_owner", "acq_pop", 0)
  BY <1>0, <1>3, MovesMoved, SMTT(30)
<1>6. OwnStep(c) /\ Fields(c)' /\ Spinning(c)'
  BY <1>0, <1>3, <1>5, SMTT(30) DEF Start, Moved, lockVars, OwnStep, Fields, Spinning, Owning
<1> QED BY <1>1, <1>2, <1>4, <1>6, StepOfOneCPU

(* It restores the interrupts of its caller.                                *)
LEMMA AcqPopStep ==
  ASSUME IInv, NEW c \in CPUs, NEW x \in Contexts, AcqPop(c, x)
  PROVE  IInv'
<1>0. TypeOK /\ Counted(c) /\ Start(c)
  BY OwnFacts
<1>1. TypeOK'
  BY <1>0, SMTT(30)
     DEF TypeOK, AcqPop, pop_no_interrupts, At, Goto, lockVars, intVars, Contexts, Acquiring,
       Releasing
<1>2. ASSUME NEW d \in CPUs \ {c} PROVE Same(d)
  BY <1>0, <1>2 DEF Same, TypeOK, AcqPop, pop_no_interrupts, At, Goto, lockVars, intVars
<1>3. /\ Moves(c, x, "acq_pop", "out", 1)
      /\ UNCHANGED lockVars
  BY <1>0, SMTT(30) DEF Moves, Other, TypeOK, AcqPop, pop_no_interrupts, At, Goto, lockVars, intVars, Contexts
<1>4. Counted(c)'
  <2>1. CASE x = "thread"
    BY <1>0, <2>1, SMTT(30) DEF Counted, Handler, Saved, Preemption, Base, Pushed, Busy, TypeOK,
       AcqPop, pop_no_interrupts, At, Goto, lockVars, intVars, Current, Contexts, Open, Outside,
         Acquiring, Releasing
  <2>2. CASE x = "irq"
    BY <1>0, <2>2, SMTT(30) DEF Counted, Handler, Saved, Preemption, Base, Pushed, Busy, TypeOK,
       AcqPop, pop_no_interrupts, At, Goto, lockVars, intVars, Current, Contexts, Open, Outside,
         Acquiring, Releasing
  <2> QED BY <2>1, <2>2 DEF Contexts
<1>5. Moved(c, "acq_pop", "out", 1)
  BY <1>0, <1>3, MovesMoved, SMTT(30)
<1>6. OwnStep(c) /\ Fields(c)' /\ Spinning(c)'
  BY <1>0, <1>3, <1>5, SMTT(30) DEF Start, Moved, lockVars, OwnStep, Fields, Spinning, Owning
<1> QED BY <1>1, <1>2, <1>4, <1>6, StepOfOneCPU

-----------------------------------------------------------------------------
(* The steps of cpu_spinlock_release.                                       *)

(* cpu_spinlock_release disables interrupts.                                *)
LEMMA RelStartStep ==
  ASSUME IInv, NEW c \in CPUs, NEW x \in Contexts, RelStart(c, x)
  PROVE  IInv'
<1>0. TypeOK /\ Counted(c) /\ Start(c)
  BY OwnFacts
<1>1. TypeOK'
  BY <1>0, SMTT(30)
     DEF TypeOK, RelStart, push_no_interrupts, At, Goto, lockVars, intVars, Contexts, Acquiring,
       Releasing
<1>2. ASSUME NEW d \in CPUs \ {c} PROVE Same(d)
  BY <1>0, <1>2 DEF Same, TypeOK, RelStart, push_no_interrupts, At, Goto, lockVars, intVars
<1>3. /\ Moves(c, x, "out", "rel_num", -1)
      /\ UNCHANGED lockVars
  BY <1>0, SMTT(30)
     DEF Moves, Other, TypeOK, RelStart, push_no_interrupts, At, Goto, lockVars, intVars, Contexts
<1>4. Counted(c)'
  <2>1. CASE x = "thread"
    BY <1>0, <2>1, SMTT(30) DEF Counted, Handler, Saved, Preemption, Base, Pushed, Busy, TypeOK,
       RelStart, push_no_interrupts, At, Goto, lockVars, intVars, Current, Contexts, Open,
         Outside, Acquiring, Releasing
  <2>2. CASE x = "irq"
    BY <1>0, <2>2, SMTT(30) DEF Counted, Handler, Saved, Preemption, Base, Pushed, Busy, TypeOK,
       RelStart, push_no_interrupts, At, Goto, lockVars, intVars, Current, Contexts, Open,
         Outside, Acquiring, Releasing
  <2> QED BY <2>1, <2>2 DEF Contexts
<1>5. Moved(c, "out", "rel_num", -1)
  <2>1. depth[c][x] > 0 /\ -1 \in {-1, 0, 1}
    BY <1>0 DEF RelStart, TypeOK
  <2> QED BY <1>0, <1>3, <2>1, MovesMoved
<1>6. OwnStep(c) /\ Fields(c)' /\ Spinning(c)'
  BY <1>0, <1>3, <1>5, SMTT(30) DEF Start, Moved, lockVars, OwnStep, Fields, Spinning, Owning
<1> QED BY <1>1, <1>2, <1>4, <1>6, StepOfOneCPU

(* It counts an acquisition less.                                           *)
LEMMA RelDecrementStep ==
  ASSUME IInv, NEW c \in CPUs, NEW x \in Contexts, RelDecrement(c, x)
  PROVE  IInv'
<1>0. TypeOK /\ Counted(c) /\ Start(c)
  BY OwnFacts
<1>1. TypeOK'
  BY <1>0, SMTT(30) DEF TypeOK, RelDecrement, At, Goto, lockVars, intVars, Contexts, Acquiring, Releasing
<1>2. ASSUME NEW d \in CPUs \ {c} PROVE Same(d)
  BY <1>0, <1>2 DEF Same, TypeOK, RelDecrement, At, Goto, lockVars, intVars
<1>3. /\ Moves(c, x, "rel_num", IF num - 1 > 0 THEN "rel_pop" ELSE "rel_owner", 0)
      /\ UNCHANGED <<locked, cpu>> /\ num' = num - 1
  BY <1>0, SMTT(30) DEF Moves, Other, TypeOK, RelDecrement, At, Goto, lockVars, intVars, Contexts
<1>4. Counted(c)'
  BY InsideCounters, ZenonT(20)
     DEF RelDecrement, At, Goto, lockVars, intVars, Inside, Open, Outside, Acquiring, Releasing
<1>5. Moved(c, "rel_num", IF num - 1 > 0 THEN "rel_pop" ELSE "rel_owner", 0)
  BY <1>0, <1>3, MovesMoved, SMTT(30)
<1>6. OwnStep(c) /\ Fields(c)' /\ Spinning(c)'
  BY <1>0, <1>3, <1>5, SMTT(30) DEF Start, Moved, lockVars, OwnStep, Fields, Spinning, Owning
<1> QED BY <1>1, <1>2, <1>4, <1>6, StepOfOneCPU

(* It takes its number out of the lock after the last.                      *)
LEMMA RelClearCpuStep ==
  ASSUME IInv, NEW c \in CPUs, NEW x \in Contexts, RelClearCpu(c, x)
  PROVE  IInv'
<1>0. TypeOK /\ Counted(c) /\ Start(c)
  BY OwnFacts
<1>1. TypeOK'
  BY <1>0 DEF TypeOK, RelClearCpu, At, Goto, lockVars, intVars, Contexts, Acquiring, Releasing
<1>2. ASSUME NEW d \in CPUs \ {c} PROVE Same(d)
  BY <1>0, <1>2 DEF Same, TypeOK, RelClearCpu, At, Goto, lockVars, intVars
<1>3. /\ Moves(c, x, "rel_owner", "rel_unlock", 0)
      /\ UNCHANGED <<locked, num>> /\ cpu' = NoCPU
  BY <1>0, SMTT(30) DEF Moves, Other, TypeOK, RelClearCpu, At, Goto, lockVars, intVars, Contexts
<1>4. Counted(c)'
  BY InsideCounters, ZenonT(20)
     DEF RelClearCpu, At, Goto, lockVars, intVars, Inside, Open, Outside, Acquiring, Releasing
<1>5. Moved(c, "rel_owner", "rel_unlock", 0)
  BY <1>0, <1>3, MovesMoved, SMTT(30)
<1>6. OwnStep(c) /\ Fields(c)' /\ Spinning(c)'
  BY <1>0, <1>3, <1>5, SMTT(30) DEF Start, Moved, lockVars, OwnStep, Fields, Spinning, Owning
<1> QED BY <1>1, <1>2, <1>4, <1>6, StepOfOneCPU

(* It frees the lock.                                                       *)
LEMMA RelUnlockStep ==
  ASSUME IInv, NEW c \in CPUs, NEW x \in Contexts, RelUnlock(c, x)
  PROVE  IInv'
<1>0. TypeOK /\ Counted(c) /\ Start(c)
  BY OwnFacts
<1>1. TypeOK'
  BY <1>0 DEF TypeOK, RelUnlock, At, Goto, lockVars, intVars, Contexts, Acquiring, Releasing
<1>2. ASSUME NEW d \in CPUs \ {c} PROVE Same(d)
  BY <1>0, <1>2 DEF Same, TypeOK, RelUnlock, At, Goto, lockVars, intVars
<1>3. /\ Moves(c, x, "rel_unlock", "rel_pop", 0)
      /\ UNCHANGED <<num, cpu>> /\ locked' = 0
  BY <1>0, SMTT(30) DEF Moves, Other, TypeOK, RelUnlock, At, Goto, lockVars, intVars, Contexts
<1>4. Counted(c)'
  BY InsideCounters, ZenonT(20)
     DEF RelUnlock, At, Goto, lockVars, intVars, Inside, Open, Outside, Acquiring, Releasing
<1>5. Moved(c, "rel_unlock", "rel_pop", 0)
  BY <1>0, <1>3, MovesMoved, SMTT(30)
<1>6. OwnStep(c) /\ Fields(c)' /\ Spinning(c)'
  BY <1>0, <1>3, <1>5, SMTT(30) DEF Start, Moved, lockVars, OwnStep, Fields, Spinning, Owning
<1> QED BY <1>1, <1>2, <1>4, <1>6, StepOfOneCPU

(* It restores the interrupts of its caller.                                *)
LEMMA RelPopStep ==
  ASSUME IInv, NEW c \in CPUs, NEW x \in Contexts, RelPop(c, x)
  PROVE  IInv'
<1>0. TypeOK /\ Counted(c) /\ Start(c)
  BY OwnFacts
<1>1. TypeOK'
  BY <1>0, SMTT(30)
     DEF TypeOK, RelPop, pop_no_interrupts, At, Goto, lockVars, intVars, Contexts, Acquiring,
       Releasing
<1>2. ASSUME NEW d \in CPUs \ {c} PROVE Same(d)
  BY <1>0, <1>2 DEF Same, TypeOK, RelPop, pop_no_interrupts, At, Goto, lockVars, intVars
<1>3. /\ Moves(c, x, "rel_pop", "rel_preempt", 0)
      /\ UNCHANGED lockVars
  BY <1>0, SMTT(30) DEF Moves, Other, TypeOK, RelPop, pop_no_interrupts, At, Goto, lockVars, intVars, Contexts
<1>4. Counted(c)'
  <2>1. CASE x = "thread"
    BY <1>0, <2>1, SMTT(30) DEF Counted, Handler, Saved, Preemption, Base, Pushed, Busy, TypeOK,
       RelPop, pop_no_interrupts, At, Goto, lockVars, intVars, Current, Contexts, Open, Outside,
         Acquiring, Releasing
  <2>2. CASE x = "irq"
    BY <1>0, <2>2, SMTT(30) DEF Counted, Handler, Saved, Preemption, Base, Pushed, Busy, TypeOK,
       RelPop, pop_no_interrupts, At, Goto, lockVars, intVars, Current, Contexts, Open, Outside,
         Acquiring, Releasing
  <2> QED BY <2>1, <2>2 DEF Contexts
<1>5. Moved(c, "rel_pop", "rel_preempt", 0)
  BY <1>0, <1>3, MovesMoved, SMTT(30)
<1>6. OwnStep(c) /\ Fields(c)' /\ Spinning(c)'
  BY <1>0, <1>3, <1>5, SMTT(30) DEF Start, Moved, lockVars, OwnStep, Fields, Spinning, Owning
<1> QED BY <1>1, <1>2, <1>4, <1>6, StepOfOneCPU

(* It enables preemption.                                                   *)
LEMMA RelPreemptStep ==
  ASSUME IInv, NEW c \in CPUs, NEW x \in Contexts, RelPreempt(c, x)
  PROVE  IInv'
<1>0. TypeOK /\ Counted(c) /\ Start(c)
  BY OwnFacts
<1>1. TypeOK'
  BY <1>0, SMTT(30)
     DEF TypeOK, RelPreempt, preempt_enable, PushPop, At, Goto, lockVars, intVars, Contexts,
       Acquiring, Releasing
<1>2. ASSUME NEW d \in CPUs \ {c} PROVE Same(d)
  BY <1>0, <1>2 DEF Same, TypeOK, RelPreempt, preempt_enable, PushPop, At, Goto, lockVars, intVars
<1>3. /\ Moves(c, x, "rel_preempt", "out", 0)
      /\ UNCHANGED lockVars
  BY <1>0, SMTT(30)
     DEF Moves, Other, TypeOK, RelPreempt, preempt_enable, PushPop, At, Goto, lockVars, intVars,
       Contexts
<1>4. Counted(c)'
  <2>1. CASE x = "thread"
    BY <1>0, <2>1, SMTT(30) DEF Counted, Handler, Saved, Preemption, Base, Pushed, Busy, TypeOK,
       RelPreempt, preempt_enable, PushPop, At, Goto, lockVars, intVars, Current, Contexts, Open,
         Outside, Acquiring, Releasing
  <2>2. CASE x = "irq"
    BY <1>0, <2>2, SMTT(30) DEF Counted, Handler, Saved, Preemption, Base, Pushed, Busy, TypeOK,
       RelPreempt, preempt_enable, PushPop, At, Goto, lockVars, intVars, Current, Contexts, Open,
         Outside, Acquiring, Releasing
  <2> QED BY <2>1, <2>2 DEF Contexts
<1>5. Moved(c, "rel_preempt", "out", 0)
  BY <1>0, <1>3, MovesMoved, SMTT(30)
<1>6. OwnStep(c) /\ Fields(c)' /\ Spinning(c)'
  BY <1>0, <1>3, <1>5, SMTT(30) DEF Start, Moved, lockVars, OwnStep, Fields, Spinning, Owning
<1> QED BY <1>1, <1>2, <1>4, <1>6, StepOfOneCPU

-----------------------------------------------------------------------------
(* Interrupts, and the theorems.                                            *)

(* A handler finds the thread where it may be interrupted.                  *)
LEMMA InterruptStep ==
  ASSUME IInv, NEW c \in CPUs, Interrupt(c)
  PROVE  IInv'
<1>0. TypeOK /\ Counted(c) /\ Start(c)
  BY OwnFacts
<1>1. TypeOK'
  BY <1>0 DEF TypeOK, Interrupt, lockVars, intVars, Contexts, Acquiring, Releasing
<1>2. ASSUME NEW d \in CPUs \ {c} PROVE Same(d)
  BY <1>0, <1>2 DEF Same, TypeOK, Interrupt, lockVars, intVars
<1>3. UNCHANGED <<lockVars, pc, depth>> /\ in_irq'[c] = TRUE
  BY <1>0 DEF TypeOK, Interrupt, lockVars, intVars
<1>4. Counted(c)'
  BY <1>0
     DEF Counted, Handler, Saved, Preemption, Base, Pushed, Busy, TypeOK, Interrupt, lockVars,
       intVars, Current, Contexts, Open, Outside, Acquiring, Releasing
<1>5. OwnStep(c) /\ Fields(c)' /\ Spinning(c)'
  <2>1. pc[c]["thread"] \in Open /\ pc[c]["irq"] = "out" /\ depth[c]["irq"] = 0
    BY <1>0 DEF TypeOK, Counted, Handler, Interrupt
  <2>2. (Owns(c)' <=> Owns(c)) /\ Depth(c)' = Depth(c)
    BY <1>3 DEF Owns, Owning, Depth
  <2>3. OwnStep(c)
    BY <1>0, <1>3, <2>2 DEF Start, lockVars, OwnStep
  <2>4. Spinning(c)'
    <3>1. pc[c]["thread"] = "acq_relax" => ~Owns(c)
      BY <1>0, <2>1, SMTT(30) DEF Start, Spinning, Owns, Owning
    <3> QED BY <1>0, <1>3, <2>1, <2>2, <3>1 DEF Start, Spinning, Current, Open, Outside
  <2>5. Fields(c)'
    <3>1. Depth(c) > 0 => cpu = c /\ num = Depth(c)
      BY <1>0, <2>1 DEF Start, Fields, Current, Open, Outside
    <3> QED BY <1>3, <2>1, <2>2, <3>1 DEF lockVars, Fields, Current, Open, Outside
  <2> QED BY <2>3, <2>4, <2>5
<1> QED BY <1>1, <1>2, <1>4, <1>5, StepOfOneCPU

(* The thread goes on where it was.                                         *)
LEMMA InterruptReturnStep ==
  ASSUME IInv, NEW c \in CPUs, InterruptReturn(c)
  PROVE  IInv'
<1>0. TypeOK /\ Counted(c) /\ Start(c)
  BY OwnFacts
<1>1. TypeOK'
  BY <1>0 DEF TypeOK, InterruptReturn, lockVars, intVars, Contexts, Acquiring, Releasing
<1>2. ASSUME NEW d \in CPUs \ {c} PROVE Same(d)
  BY <1>0, <1>2 DEF Same, TypeOK, InterruptReturn, lockVars, intVars
<1>3. UNCHANGED <<lockVars, pc, depth>> /\ in_irq'[c] = FALSE
  BY <1>0 DEF TypeOK, InterruptReturn, lockVars, intVars
<1>4. Counted(c)'
  BY <1>0
     DEF Counted, Handler, Saved, Preemption, Base, Pushed, Busy, TypeOK, InterruptReturn,
       lockVars, intVars, Current, Contexts, Open, Outside, Acquiring, Releasing
<1>5. OwnStep(c) /\ Fields(c)' /\ Spinning(c)'
  <2>1. pc[c]["thread"] \in Open /\ pc[c]["irq"] = "out" /\ depth[c]["irq"] = 0
    BY <1>0 DEF TypeOK, Counted, Handler, InterruptReturn
  <2>2. (Owns(c)' <=> Owns(c)) /\ Depth(c)' = Depth(c)
    BY <1>3 DEF Owns, Owning, Depth
  <2>3. OwnStep(c)
    BY <1>0, <1>3, <2>2 DEF Start, lockVars, OwnStep
  <2>4. Spinning(c)'
    <3>1. pc[c]["thread"] = "acq_relax" => ~Owns(c)
      BY <1>0, <2>1, SMTT(30) DEF Start, Spinning, Owns, Owning
    <3> QED BY <1>0, <1>3, <2>1, <2>2, <3>1 DEF Start, Spinning, Current, Open, Outside
  <2>5. Fields(c)'
    <3>1. Depth(c) > 0 => cpu = c /\ num = Depth(c)
      BY <1>0, <2>1 DEF Start, Fields, Current, Open, Outside
    <3> QED BY <1>3, <2>1, <2>2, <3>1 DEF lockVars, Fields, Current, Open, Outside
  <2> QED BY <2>3, <2>4, <2>5
<1> QED BY <1>1, <1>2, <1>4, <1>5, StepOfOneCPU

(* Nobody has the lock initially, and all counters are zero.                *)
LEMMA InitIInv == Init => IInv
<1> SUFFICES ASSUME Init PROVE IInv
  OBVIOUS
<1>1. TypeOK
  BY SMTT(30) DEF Init, TypeOK, Contexts
<1>2. ASSUME NEW c \in CPUs PROVE Counted(c)
  <2>1. /\ pc[c]["thread"] = "out" /\ pc[c]["irq"] = "out"
        /\ depth[c]["thread"] = 0 /\ depth[c]["irq"] = 0
        /\ preempt_disabled[c] = 0 /\ ~in_irq[c]
        /\ cli_stack[c] \in {0, 1} /\ (if_flag[c] <=> cli_stack[c] = 0)
    BY DEF Init, Contexts
  <2>2. Base(c) = cli_stack[c] /\ Busy(c, "thread") = 0 /\ Busy(c, "irq") = 0
    BY <2>1, SMTT(30) DEF Base, Pushed, Busy, Outside
  <2> QED BY <2>1, <2>2, SMTT(30) DEF Counted, Handler, Saved, Preemption, Outside, Open, Acquiring
<1>3. Lock
  BY SpinlockAssumption, SMTT(30)
     DEF Init, Lock, OneOwner, Fields, Spinning, Depth, Owns, Owning, Current, Contexts
<1> QED BY <1>1, <1>2, <1>3 DEF IInv, Counters

(* IInv is inductive: one case per step of the lock's code.                 *)
LEMMA NextIInv == IInv /\ [Next]_vars => IInv'
<1> SUFFICES ASSUME IInv, [Next]_vars PROVE IInv'
  OBVIOUS
<1>1. ASSUME NEW c \in CPUs, NEW x \in Contexts, AcqStart(c, x) \/ Acquire(c, x) PROVE IInv'
  BY <1>1, AcqStartStep, AcqPushStep, AcqReadLockedStep, AcqReadCpuStep, AcqNestStep, AcqXchgStep,
     AcqRelaxStep, AcqSetNumStep, AcqSetCpuStep, AcqPopStep DEF Acquire
<1>2. ASSUME NEW c \in CPUs, NEW x \in Contexts, Release(c, x) PROVE IInv'
  BY <1>2, RelStartStep, RelDecrementStep, RelClearCpuStep, RelUnlockStep, RelPopStep,
       RelPreemptStep
     DEF Release
<1>3. ASSUME NEW c \in CPUs, Interrupt(c) \/ InterruptReturn(c) PROVE IInv'
  BY <1>3, InterruptStep, InterruptReturnStep
<1>4. CASE UNCHANGED vars
  <2>1. TypeOK' /\ OneOwner'
    BY <1>4 DEF vars, lockVars, intVars, IInv, TypeOK, Lock, OneOwner, Owns
  <2>2. ASSUME NEW c \in CPUs PROVE Counted(c)'
    BY <1>4
       DEF vars, lockVars, intVars, IInv, Counters, Counted, Handler, Saved, Preemption, Base,
         Pushed, Busy
  <2>3. ASSUME NEW c \in CPUs PROVE Fields(c)' /\ Spinning(c)'
    BY <1>4 DEF vars, lockVars, intVars, IInv, Lock, Fields, Spinning, Depth, Owns, Current
  <2> QED BY <2>1, <2>2, <2>3 DEF IInv, Counters, Lock
<1> QED BY <1>1, <1>2, <1>3, <1>4 DEF Next

(* Every behaviour of the lock satisfies the inductive invariant.           *)
LEMMA Invariance == Spec => []IInv
BY InitIInv, NextIInv, PTL DEF Spec

(* The variables of the lock and of the interrupt counters keep their       *)
(* types.                                                                   *)
THEOREM TypeCorrect == Spec => []TypeOK
<1>1. IInv => TypeOK
  BY DEF IInv
<1> QED BY <1>1, Invariance, PTL

(* For any number of CPUs and any depth of nesting, in threads and in the   *)
(* handlers that interrupt them, two CPUs never hold the lock.              *)
THEOREM Exclusion == Spec => []MutualExclusion
<1>1. IInv => MutualExclusion
  BY DEF IInv, Lock, OneOwner, Owns, MutualExclusion, Holds, Contexts
<1> QED BY <1>1, Invariance, PTL

(* None of the panics of spinlock.c, push_no_interrupts, pop_no_interrupts  *)
(* and preempt_enable is reached.                                           *)
THEOREM PanicFree == Spec => []NoPanic
<1>1. IInv => NoPanic
  <2> SUFFICES ASSUME IInv, NEW c \in CPUs
               PROVE  LET at == pc[c][Current(c)] IN
                        /\ at \in {"acq_pop", "rel_pop"} => ~if_flag[c] /\ cli_stack[c] >= 1
                        /\ at = "rel_num" => locked = 1 /\ cpu = c /\ num >= 1
                        /\ at = "rel_preempt" => preempt_disabled[c] >= 1
    BY DEF NoPanic
  <2>0. TypeOK /\ Counted(c) /\ Start(c)
    BY OwnFacts
  <2>1. pc[c][Current(c)] \in {"acq_pop", "rel_pop"} => ~if_flag[c] /\ cli_stack[c] >= 1
    BY <2>0, SMTT(30) DEF TypeOK, Current, Contexts, Open, Counted, Handler, Saved, Base, Pushed, Outside
  <2>2. pc[c][Current(c)] = "rel_num" => locked = 1 /\ cpu = c /\ num >= 1
    BY <2>0, SMTT(30) DEF Start, Fields, Depth, Owns, Owning, Current, Contexts
  <2>3. pc[c][Current(c)] = "rel_preempt" => preempt_disabled[c] >= 1
    BY <2>0, SMTT(30) DEF TypeOK, Start, Current, Contexts, Counted, Preemption, Busy
  <2> QED BY <2>1, <2>2, <2>3
<1> QED BY <1>1, Invariance, PTL

(* Outside the lock's code interrupts and preemption are what the caller    *)
(* made them, however the code was interrupted.                             *)
THEOREM Restored == Spec => []InterruptsRestored
<1>1. IInv => InterruptsRestored
  <2> SUFFICES ASSUME IInv, NEW c \in CPUs
               PROVE  /\ in_irq[c] => ~if_flag[c]
                      /\ ~in_irq[c] /\ pc[c]["thread"] = "out" =>
                           /\ cli_stack[c] \in {0, 1} /\ if_flag[c] = (cli_stack[c] = 0)
                           /\ preempt_disabled[c] = depth[c]["thread"]
    BY DEF InterruptsRestored
  <2>1. TypeOK /\ Counted(c) /\ Start(c)
    BY OwnFacts
  <2>2. in_irq[c] => ~if_flag[c]
    BY <2>1 DEF Counted, Handler
  <2>3. ASSUME ~in_irq[c], pc[c]["thread"] = "out"
        PROVE  cli_stack[c] \in {0,
          1} /\ (if_flag[c] <=> cli_stack[c] = 0) /\ preempt_disabled[c] = depth[c]["thread"]
    <3>1. Base(c) = cli_stack[c] /\ Busy(c, "thread") = 0 /\ Busy(c, "irq") = 0
      BY <2>1, <2>3, SMTT(30) DEF Start, Base, Pushed, Busy, Outside, TypeOK
    <3> QED BY <2>1, <2>3, <3>1, SMTT(30)
       DEF Counted, Handler, Saved, Preemption, Start, Open, Outside, TypeOK
  <2>4. if_flag[c] \in BOOLEAN
    BY <2>1 DEF TypeOK
  <2> QED BY <2>2, <2>3, <2>4
<1> QED BY <1>1, Invariance, PTL

(* A handler never spins for the lock of the thread it interrupted.         *)
THEOREM NeverSelfWaiting == Spec => []NoSelfWait
<1>1. IInv => NoSelfWait
  <2> SUFFICES ASSUME IInv, NEW c \in CPUs, in_irq[c], pc[c]["irq"] \in {"acq_xchg", "acq_relax"}
               PROVE  /\ depth[c]["thread"] = 0
                      /\ pc[c]["thread"] \in {"out", "acq_push", "acq_relax", "rel_preempt"}
    BY DEF NoSelfWait
  <2>1. Start(c)
    BY OwnFacts
  <2> QED BY <2>1, SMTT(30) DEF Start, Spinning, Owns, Current, Open, Outside
<1> QED BY <1>1, Invariance, PTL

-----------------------------------------------------------------------------

Less == {d \in Nat \X Nat : d[1] < d[2]}

(* Naturals do not descend for ever.                                        *)
LEMMA LessWellFounded == IsWellFoundedOn(Less, Nat)
<1>1. IsWellFoundedOn(OpToRel(<, Nat), Nat)
  BY ONLY NatLessThanWellFounded
<1>2. OpToRel(<, Nat) = Less
  BY ONLY ZenonT(60) DEF OpToRel, Less
<1> QED
  BY ONLY <1>1, <1>2

(* Hence a set of numbers that is not empty has a least member.             *)
LEMMA LeastNatural ==
  ASSUME NEW S \in SUBSET Nat, S # {}
  PROVE  \E n \in S : \A m \in S : n <= m
<1>1. PICK n \in S : \A m \in S : ~(<<m, n>> \in Less)
  BY LessWellFounded, WFMin
<1>2. ASSUME NEW m \in S PROVE n <= m
  <2>1. m \in Nat /\ n \in Nat
    OBVIOUS
  <2>2. m < n => <<m, n>> \in Less
    BY <2>1 DEF Less
  <2> QED BY <1>1, <2>1, <2>2, SMTT(30)
<1> QED BY <1>2

-----------------------------------------------------------------------------
(***************************************************************************)
(* LibcHeap.  The invariant says that there are addresses s[1] to s[n] of  *)
(* allocations that tile the heap up to cur_size, s[n + 1], and that the   *)
(* links of the headers are between neighbours; nothing is known of the    *)
(* headers that have been cut off.                                         *)
(***************************************************************************)

AllocHeaders == [prev : Int, next : Int, size : Nat, free : BOOLEAN]

AllocOf(h, a) == [v |-> a + AllocHeader, size |-> h[a].size]

\* The allocations h has at s[1] to s[n] fill the heap up to s[n + 1].
Tiles(h, n, s) ==
  /\ n \in Nat /\ s \in [1..(n + 1) -> HeapAddresses] /\ s[1] = 0
  /\ \A i \in 1..n : s[i + 1] = s[i] + AllocHeader + h[s[i]].size

\* They are linked both ways.
Links(h, n, s) ==
  \A i \in 1..n : /\ h[s[i]].prev = IF i = 1 THEN NoAlloc ELSE s[i - 1]
                  /\ h[s[i]].next = IF i = n THEN NoAlloc ELSE s[i + 1]

\* The list has them, and the program those of them that are not free.
Listed(h, n, s) ==
  /\ libcCurSize = s[n + 1]
  /\ first = IF n = 0 THEN NoAlloc ELSE s[1]
  /\ last = IF n = 0 THEN NoAlloc ELSE s[n]
  /\ held = {AllocOf(h, s[i]) : i \in {j \in 1..n : ~h[s[j]].free}}

LibcHeapInv ==
  /\ header \in [HeapAddresses -> AllocHeaders]
  /\ libcHeapSize \in Nat /\ libcCurSize <= libcHeapSize
  /\ \E n, s : /\ Tiles(header, n, s) /\ Links(header, n, s) /\ Listed(header, n, s)
               /\ n > 0 => ~header[s[n]].free

(* A tile ends before the ones behind it begin.                             *)
LEMMA TilesGrow ==
  ASSUME NEW h \in [HeapAddresses -> AllocHeaders], NEW n, NEW s, Tiles(h, n, s),
         NEW i \in 1..n, NEW j \in 1..(n + 1), i < j
  PROVE  s[i] + AllocHeader + h[s[i]].size <= s[j]
<1> DEFINE Bad == {k \in (i + 1)..(n + 1) : ~(s[i] + AllocHeader + h[s[i]].size <= s[k])}
<1>1. n \in Nat /\ AllocHeader \in Nat \ {0} /\ MaxHeap \in Nat
  BY LibcHeapAssumption DEF Tiles
<1>2. ASSUME NEW k \in 1..(n + 1) PROVE s[k] \in HeapAddresses /\ s[k] \in Nat
  BY <1>1, <1>2, SMTT(30) DEF Tiles, HeapAddresses
<1>3. ASSUME NEW k \in 1..n PROVE h[s[k]].size \in Nat /\ s[k + 1] = s[k] + AllocHeader + h[s[k]].size
  <2>1. k \in 1..(n + 1)
    BY <1>1, SMTT(30)
  <2>2. h[s[k]] \in AllocHeaders
    BY <1>2, <2>1
  <2> QED BY <2>2, SMTT(30) DEF Tiles, AllocHeaders
<1>4. ASSUME Bad # {} PROVE FALSE
  <2>1. Bad \in SUBSET Nat
    BY <1>1, SMTT(30)
  <2>2. PICK k \in Bad : \A m \in Bad : k <= m
    BY <1>4, <2>1, LeastNatural
  <2>3. k \in (i + 1)..(n + 1) /\ ~(s[i] + AllocHeader + h[s[i]].size <= s[k])
    BY <2>2
  <2>4. CASE k = i + 1
    <3>1. s[k] = s[i] + AllocHeader + h[s[i]].size
      BY <1>3, <2>4
    <3>2. s[k] \in Nat
      BY <1>1, <1>2, <2>3, SMTT(30)
    <3> QED BY <2>3, <3>1, <3>2, SMTT(30)
  <2>5. CASE k # i + 1
    <3>1. k - 1 \in (i + 1)..(n + 1) /\ k - 1 \in 1..n /\ ~(k <= k - 1) /\ k = (k - 1) + 1
      BY <1>1, <2>3, <2>5, SMTT(30)
    <3>2. k - 1 \notin Bad
      BY <2>2, <3>1
    <3>3. s[i] + AllocHeader + h[s[i]].size <= s[k - 1]
      BY <3>1, <3>2
    <3>4. s[k] = s[k - 1] + AllocHeader + h[s[k - 1]].size /\ h[s[k - 1]].size \in Nat
      BY <1>3, <3>1
    <3>5. s[k - 1] \in Nat /\ s[i] \in Nat /\ h[s[i]].size \in Nat
      BY <1>1, <1>2, <1>3, <3>1, SMTT(30)
    <3> QED BY <1>1, <2>3, <3>3, <3>4, <3>5, SMTT(30)
  <2> QED BY <2>4, <2>5
<1>5. j \in (i + 1)..(n + 1)
  BY <1>1, SMTT(30)
<1> QED BY <1>4, <1>5

(* What is known of one tile, and that they are different.                  *)
LEMMA TileFacts ==
  ASSUME NEW h \in [HeapAddresses -> AllocHeaders], NEW n, NEW s, Tiles(h, n, s)
  PROVE  /\ n \in Nat /\ AllocHeader \in Nat \ {0} /\ MaxHeap \in Nat
         /\ \A k \in 1..(n + 1) : s[k] \in HeapAddresses /\ s[k] \in Nat /\ s[k] # NoAlloc
         /\ \A k \in 1..n : /\ h[s[k]] \in AllocHeaders /\ h[s[k]].size \in Nat
                            /\ s[k + 1] = s[k] + AllocHeader + h[s[k]].size
         /\ \A k, m \in 1..(n + 1) : s[k] = s[m] => k = m
         /\ n <= MaxHeap
<1>1. n \in Nat /\ AllocHeader \in Nat \ {0} /\ MaxHeap \in Nat
  BY LibcHeapAssumption DEF Tiles
<1>2. ASSUME NEW k \in 1..(n + 1) PROVE s[k] \in HeapAddresses /\ s[k] \in Nat /\ s[k] # NoAlloc
  BY <1>1, <1>2, SMTT(30) DEF Tiles, HeapAddresses, NoAlloc
<1>3. ASSUME NEW k \in 1..n
      PROVE  h[s[k]] \in AllocHeaders /\ h[s[k]].size \in Nat /\ s[k + 1] = s[k] + AllocHeader + h[s[k]].size
  <2>1. k \in 1..(n + 1)
    BY <1>1, SMTT(30)
  <2>2. h[s[k]] \in AllocHeaders
    BY <1>2, <2>1
  <2> QED BY <2>2, SMTT(30) DEF Tiles, AllocHeaders
<1>4. ASSUME NEW k \in 1..(n + 1), NEW m \in 1..(n + 1), k < m PROVE s[k] < s[m]
  <2>1. k \in 1..n
    BY <1>1, <1>4, SMTT(30)
  <2>2. s[k] + AllocHeader + h[s[k]].size <= s[m]
    BY <1>4, <2>1, TilesGrow
  <2>3. s[k] \in Nat /\ s[m] \in Nat /\ h[s[k]].size \in Nat
    BY <1>2, <1>3, <2>1
  <2> QED BY <1>1, <2>2, <2>3, SMTT(30)
<1>5. ASSUME NEW k \in 1..(n + 1), NEW m \in 1..(n + 1), s[k] = s[m] PROVE k = m
  <2>1. s[k] \in Nat /\ s[m] \in Nat
    BY <1>2
  <2>2. ~(k < m) /\ ~(m < k)
    BY <1>4, <1>5, <2>1, SMTT(30)
  <2> QED BY <1>1, <2>2, SMTT(30)
<1>6. n <= MaxHeap
  <2> DEFINE Bad == {k \in 1..(n + 1) : ~(k - 1 <= s[k])}
  <2>1. ASSUME Bad # {} PROVE FALSE
    <3>1. Bad \in SUBSET Nat
      BY <1>1, SMTT(30)
    <3>2. PICK k \in Bad : \A m \in Bad : k <= m
      BY <2>1, <3>1, LeastNatural
    <3>3. k \in 1..(n + 1) /\ ~(k - 1 <= s[k]) /\ s[k] \in Nat
      BY <1>2, <3>2
    <3>4. k # 1
      BY <3>3, SMTT(30)
    <3>5. k - 1 \in 1..(n + 1) /\ k - 1 < k /\ ~(k <= k - 1)
      BY <1>1, <3>3, <3>4, SMTT(30)
    <3>6. (k - 1) - 1 <= s[k - 1]
      BY <3>2, <3>5
    <3>7. s[k - 1] < s[k] /\ s[k - 1] \in Nat
      BY <1>2, <1>4, <3>3, <3>5
    <3> QED BY <3>3, <3>5, <3>6, <3>7, SMTT(30)
  <2>2. n + 1 \in 1..(n + 1)
    BY <1>1, SMTT(30)
  <2>3. (n + 1) - 1 <= s[n + 1]
    BY <2>1, <2>2
  <2>4. s[n + 1] \in 0..MaxHeap
    BY <1>2, <2>2 DEF HeapAddresses
  <2> QED BY <1>1, <2>3, <2>4, SMTT(30)
<1> QED BY <1>1, <1>2, <1>3, <1>5, <1>6

\* What the list is cut back to when the allocations behind the k-th go.
CutTo(s, k) == [last |-> IF k = 0 THEN NoAlloc ELSE s[k], cur |-> s[k + 1]]

\* The last allocation that is not free is the k-th, 0 if there is none.
LastUsed(h, n, s, k) ==
  k \in 0..n /\ (k > 0 => ~h[s[k]].free) /\ \A i \in (k + 1)..n : h[s[i]].free

LEMMA LastUsedExists ==
  ASSUME NEW h, NEW n \in Nat, NEW s
  PROVE  \E k : LastUsed(h, n, s, k)
<1> DEFINE Used(k) == k = 0 \/ ~h[s[k]].free
           Back == {d \in 0..n : Used(n - d)}
<1>1. n \in Back
  BY SMTT(30)
<1>2. Back \in SUBSET Nat /\ Back # {}
  BY <1>1, SMTT(30)
<1>3. PICK d \in Back : \A e \in Back : d <= e
  BY <1>2, LeastNatural
<1>4. d \in 0..n /\ n - d \in 0..n /\ Used(n - d)
  BY <1>3, SMTT(30)
<1>5. ASSUME NEW i \in ((n - d) + 1)..n PROVE h[s[i]].free
  <2>1. n - i \in 0..n /\ ~(d <= n - i) /\ n - (n - i) = i /\ i # 0
    BY <1>4, <1>5, SMTT(30)
  <2>2. ~Used(i)
    BY <1>3, <2>1
  <2> QED BY <2>1, <2>2
<1>6. n - d > 0 => n - d # 0
  BY <1>4, SMTT(30)
<1>7. LastUsed(h, n, s, n - d)
  BY <1>4, <1>5, <1>6 DEF LastUsed
<1> QED BY <1>7

\* The list from its end, of which the tiles behind the k-th are free.
FreeBehind(h, n, s, k) ==
  /\ h \in [HeapAddresses -> AllocHeaders] /\ Tiles(h, n, s) /\ LastUsed(h, n, s, k)
  /\ \A i \in 1..n : h[s[i]].prev = IF i = 1 THEN NoAlloc ELSE s[i - 1]
  /\ libcCurSize = s[n + 1] /\ last = IF n = 0 THEN NoAlloc ELSE s[n]

(* The loop of unsafe_truncate_heap ends at the last allocation in use.     *)
LEMMA DropIs ==
  ASSUME NEW h, NEW n, NEW s, NEW k, FreeBehind(h, n, s, k)
  PROVE  DropFree(h) = CutTo(s, k)
<1>0. /\ h \in [HeapAddresses -> AllocHeaders] /\ Tiles(h, n, s) /\ LastUsed(h, n, s, k)
      /\ \A i \in 1..n : h[s[i]].prev = IF i = 1 THEN NoAlloc ELSE s[i - 1]
      /\ libcCurSize = s[n + 1] /\ last = IF n = 0 THEN NoAlloc ELSE s[n]
  BY DEF FreeBehind
<1> USE <1>0
<1> DEFINE Round(w, m) ==
             IF m = 0 THEN [last |-> last, cur |-> libcCurSize]
             ELSE IF w[m - 1].last = NoAlloc \/ ~h[w[m - 1].last].free THEN w[m - 1]
             ELSE [last |-> h[w[m - 1].last].prev, cur |-> w[m - 1].cur - AllocHeader - h[w[m - 1].last].size]
           Rest(m) == IF n - m > k THEN n - m ELSE k
           g == [m \in 0..MaxHeap |-> CutTo(s, Rest(m))]
           f == CHOOSE w : w = [m \in 0..MaxHeap |-> Round(w, m)]
<1>1. /\ n \in Nat /\ AllocHeader \in Nat \ {0} /\ MaxHeap \in Nat /\ n <= MaxHeap
      /\ \A i \in 1..(n + 1) : s[i] \in Nat /\ s[i] # NoAlloc
      /\ \A i \in 1..n : h[s[i]].size \in Nat /\ s[i + 1] = s[i] + AllocHeader + h[s[i]].size
  BY TileFacts, SMTT(30)
<1>2. k \in 0..n
  BY DEF LastUsed
<1>3. ASSUME NEW m \in 0..MaxHeap, NEW w, m # 0 => w[m - 1] = CutTo(s, Rest(m - 1))
      PROVE  Round(w, m) = CutTo(s, Rest(m))
  <2>1. CASE m = 0
    <3>1. Rest(m) = n
      BY <1>1, <1>2, <2>1, SMTT(30)
    <3>2. Round(w, m) = [last |-> last, cur |-> libcCurSize]
      BY <2>1
    <3> QED BY <3>1, <3>2 DEF CutTo
  <2>2. CASE m # 0
    <3> DEFINE j == Rest(m - 1)
    <3>1. j \in 0..n /\ j >= k /\ Rest(m) = (IF j > k THEN j - 1 ELSE k)
      BY <1>1, <1>2, <2>2, SMTT(30)
    <3>2. w[m - 1] = CutTo(s, j)
      BY <1>3, <2>2
    <3> HIDE DEF j, Rest
    <3>3. w[m - 1].last = (IF j = 0 THEN NoAlloc ELSE s[j]) /\ w[m - 1].cur = s[j + 1]
      BY <3>2, SMTT(30) DEF CutTo
    <3>4. CASE j = k
      <4>1. j = 0 => w[m - 1].last = NoAlloc
        BY <3>3
      <4>2. j # 0 => ~h[w[m - 1].last].free
        <5>1. j # 0 => k > 0
          BY <1>2, <3>4, <1>1, SMTT(30)
        <5> QED BY <3>3, <3>4, <5>1 DEF LastUsed
      <4>3. Round(w, m) = w[m - 1]
        BY <2>2, <4>1, <4>2
      <4>4. Rest(m) = j
        BY <1>1, <1>2, <3>1, <3>4, SMTT(30)
      <4> QED BY <3>2, <4>3, <4>4
    <3>5. CASE j # k
      <4>1. j \in 1..n /\ j \in 1..(n + 1) /\ j \in (k + 1)..n /\ Rest(m) = j - 1 /\ j # 0 /\ (j - 1 = 0 <=> j = 1)
            /\ (j - 1) + 1 = j
        BY <1>1, <1>2, <3>1, <3>5, SMTT(30)
      <4>2. w[m - 1].last = s[j] /\ s[j] # NoAlloc /\ h[s[j]].free
        BY <1>1, <3>3, <4>1 DEF LastUsed
      <4>3. Round(w, m) = [last |-> h[s[j]].prev, cur |-> s[j + 1] - AllocHeader - h[s[j]].size]
        BY <2>2, <3>3, <4>2
      <4>4. h[s[j]].prev = IF j - 1 = 0 THEN NoAlloc ELSE s[j - 1]
        BY <4>1
      <4>5. s[j + 1] - AllocHeader - h[s[j]].size = s[j]
        <5>1. s[j] \in Nat /\ h[s[j]].size \in Nat /\ s[j + 1] = s[j] + AllocHeader + h[s[j]].size
          BY <1>1, <4>1
        <5> QED BY <1>1, <5>1, SMTT(30)
      <4> QED BY <4>1, <4>3, <4>4, <4>5 DEF CutTo
    <3> QED BY <3>4, <3>5
  <2> QED BY <2>1, <2>2
<1>4. DropFree(h) = f[MaxHeap]
  BY DEF DropFree
<1> HIDE DEF Round, Rest
<1>5. ASSUME NEW m \in 0..MaxHeap, m # 0 PROVE m - 1 \in 0..MaxHeap
  BY <1>1, <1>5, SMTT(30)
<1>6. g = [m \in 0..MaxHeap |-> Round(g, m)]
  <2>1. ASSUME NEW m \in 0..MaxHeap PROVE CutTo(s, Rest(m)) = Round(g, m)
    <3>1. m # 0 => g[m - 1] = CutTo(s, Rest(m - 1))
      BY <1>5
    <3> HIDE DEF g
    <3> QED BY <1>3, <3>1
  <2> QED BY <2>1
<1>7. f = [m \in 0..MaxHeap |-> Round(f, m)]
  <2> HIDE DEF g
  <2> QED BY <1>6
<1> HIDE DEF f, g
<1>8. \A m \in 0..MaxHeap : f[m] = CutTo(s, Rest(m))
  <2> DEFINE Bad == {m \in 0..MaxHeap : f[m] # CutTo(s, Rest(m))}
  <2>1. ASSUME Bad # {} PROVE FALSE
    <3>1. Bad \in SUBSET Nat
      BY <1>1, SMTT(30)
    <3>2. PICK m \in Bad : \A e \in Bad : m <= e
      BY <2>1, <3>1, LeastNatural
    <3>3. m # 0 => m - 1 \in 0..MaxHeap /\ ~(m <= m - 1)
      BY <1>1, <3>2, SMTT(30)
    <3>4. m # 0 => f[m - 1] = CutTo(s, Rest(m - 1))
      BY <3>2, <3>3
    <3>5. f[m] = Round(f, m)
      BY <1>7, <3>2
    <3>6. f[m] = CutTo(s, Rest(m))
      BY <1>3, <3>2, <3>4, <3>5
    <3> QED BY <3>2, <3>6
  <2> QED BY <2>1
<1>9. Rest(MaxHeap) = k /\ MaxHeap \in 0..MaxHeap
  BY <1>1, <1>2, SMTT(30) DEF Rest
<1> QED BY <1>4, <1>8, <1>9

(* The list along next is the tiles.                                        *)
LEMMA LinkedIs ==
  ASSUME header \in [HeapAddresses -> AllocHeaders], NEW n, NEW s, Tiles(header, n, s), n > 0,
         Links(header, n, s), Listed(header, n, s)
  PROVE  Linked = {s[i] : i \in 1..n}
<1> DEFINE Round(w, m) ==
             IF m = 0 THEN first
             ELSE IF w[m - 1] \in {NoAlloc, last} THEN w[m - 1] ELSE header[w[m - 1]].next
           Nth(m) == IF m + 1 < n THEN m + 1 ELSE n
           g == [m \in 0..MaxHeap |-> s[Nth(m)]]
           f == CHOOSE w : w = [m \in 0..MaxHeap |-> Round(w, m)]
<1>1. /\ n \in Nat /\ MaxHeap \in Nat /\ n <= MaxHeap
      /\ \A i \in 1..(n + 1) : s[i] # NoAlloc
      /\ \A i, j \in 1..(n + 1) : s[i] = s[j] => i = j
  BY TileFacts, SMTT(30)
<1>2. first = s[1] /\ last = s[n]
  <2>1. n # 0
    BY <1>1, SMTT(30)
  <2> QED BY <2>1 DEF Listed
<1>3. ASSUME NEW m \in 0..MaxHeap, NEW w, m # 0 => w[m - 1] = s[Nth(m - 1)]
      PROVE  Round(w, m) = s[Nth(m)]
  <2>1. CASE m = 0
    <3>1. Nth(m) = 1
      BY <1>1, <2>1, SMTT(30)
    <3> QED BY <1>2, <2>1, <3>1
  <2>2. CASE m # 0
    <3> DEFINE j == Nth(m - 1)
    <3>1. j \in 1..n /\ j \in 1..(n + 1) /\ n \in 1..(n + 1) /\ Nth(m) = (IF j = n THEN n ELSE j + 1)
      BY <1>1, <2>2, SMTT(30)
    <3>2. w[m - 1] = s[j]
      BY <1>3, <2>2
    <3> HIDE DEF j, Nth
    <3>3. s[j] # NoAlloc /\ (s[j] = last <=> j = n)
      BY <1>1, <1>2, <3>1
    <3>4. header[s[j]].next = IF j = n THEN NoAlloc ELSE s[j + 1]
      BY <3>1 DEF Links
    <3> QED BY <2>2, <3>1, <3>2, <3>3, <3>4
  <2> QED BY <2>1, <2>2
<1>4. Linked = {f[m] : m \in 0..MaxHeap}
  BY DEF Linked
<1> HIDE DEF Round, Nth
<1>5. ASSUME NEW m \in 0..MaxHeap, m # 0 PROVE m - 1 \in 0..MaxHeap
  BY <1>1, <1>5, SMTT(30)
<1>6. g = [m \in 0..MaxHeap |-> Round(g, m)]
  <2>1. ASSUME NEW m \in 0..MaxHeap PROVE s[Nth(m)] = Round(g, m)
    <3>1. m # 0 => g[m - 1] = s[Nth(m - 1)]
      BY <1>5
    <3> HIDE DEF g
    <3> QED BY <1>3, <3>1
  <2> QED BY <2>1
<1>7. f = [m \in 0..MaxHeap |-> Round(f, m)]
  <2> HIDE DEF g
  <2> QED BY <1>6
<1> HIDE DEF f, g
<1>8. \A m \in 0..MaxHeap : f[m] = s[Nth(m)]
  <2> DEFINE Bad == {m \in 0..MaxHeap : f[m] # s[Nth(m)]}
  <2>1. ASSUME Bad # {} PROVE FALSE
    <3>1. Bad \in SUBSET Nat
      BY <1>1, SMTT(30)
    <3>2. PICK m \in Bad : \A e \in Bad : m <= e
      BY <2>1, <3>1, LeastNatural
    <3>3. m # 0 => m - 1 \in 0..MaxHeap /\ ~(m <= m - 1)
      BY <1>1, <3>2, SMTT(30)
    <3>4. m # 0 => f[m - 1] = s[Nth(m - 1)]
      BY <3>2, <3>3
    <3>5. f[m] = Round(f, m)
      BY <1>7, <3>2
    <3>6. f[m] = s[Nth(m)]
      BY <1>3, <3>2, <3>4, <3>5
    <3> QED BY <3>2, <3>6
  <2> QED BY <2>1
<1>9. \A m \in 0..MaxHeap : Nth(m) \in 1..n
  BY <1>1, SMTT(30) DEF Nth
<1>10. \A i \in 1..n : i - 1 \in 0..MaxHeap /\ Nth(i - 1) = i
  BY <1>1, SMTT(30) DEF Nth
<1>11. Linked \subseteq {s[i] : i \in 1..n}
  BY <1>4, <1>8, <1>9
<1>12. {s[i] : i \in 1..n} \subseteq Linked
  BY <1>4, <1>8, <1>10
<1> QED BY <1>11, <1>12

(* The invariant says of the list what the property does.                   *)
LEMMA InvList == LibcHeapInv => ListWhole
<1> SUFFICES ASSUME LibcHeapInv PROVE ListWhole
  OBVIOUS
<1>1. PICK n, s : /\ Tiles(header, n, s) /\ Links(header, n, s) /\ Listed(header, n, s)
                  /\ n > 0 => ~header[s[n]].free
  BY DEF LibcHeapInv
<1>2. header \in [HeapAddresses -> AllocHeaders]
  BY DEF LibcHeapInv
<1>3. /\ n \in Nat /\ AllocHeader \in Nat
      /\ \A i \in 1..(n + 1) : s[i] \in Nat /\ s[i] # NoAlloc
      /\ \A i \in 1..n : header[s[i]].size \in Nat /\ s[i + 1] = s[i] + AllocHeader + header[s[i]].size
  BY <1>1, <1>2, TileFacts, SMTT(30)
<1>4. held = {AllocOf(header, s[i]) : i \in {j \in 1..n : ~header[s[j]].free}} /\ libcCurSize = s[n + 1]
  BY <1>1 DEF Listed
<1>5. ASSUME NEW r \in held PROVE r.v + r.size <= libcHeapSize
  <2>1. PICK i \in 1..n : r = AllocOf(header, s[i])
    BY <1>4
  <2>2. n + 1 \in 1..(n + 1) /\ i < n + 1 /\ i \in 1..(n + 1)
    BY <1>3, SMTT(30)
  <2>3. s[i] + AllocHeader + header[s[i]].size <= s[n + 1]
    BY <1>1, <1>2, <2>2, TilesGrow
  <2>4. r.v = s[i] + AllocHeader /\ r.size = header[s[i]].size
    BY <2>1, SMTT(30) DEF AllocOf
  <2>5. libcHeapSize \in Nat /\ s[n + 1] <= libcHeapSize /\ s[n + 1] \in Nat
    BY <1>3, <1>4, <2>2 DEF LibcHeapInv
  <2>6. s[i] \in Nat /\ header[s[i]].size \in Nat
    BY <1>3, <2>2
  <2> QED BY <1>3, <2>3, <2>4, <2>5, <2>6, SMTT(30)
<1>6. CASE n = 0
  <2>1. first = NoAlloc /\ last = NoAlloc
    BY <1>1, <1>6 DEF Listed
  <2>2. 1..n = {}
    BY <1>6, SMTT(30)
  <2>3. held = {}
    BY <1>4, <2>2
  <2> QED BY <1>5, <2>1, <2>3 DEF ListWhole
<1>7. CASE n # 0
  <2>1. n > 0 /\ 1 \in 1..(n + 1) /\ n \in 1..(n + 1) /\ n \in 1..n
    BY <1>3, <1>7, SMTT(30)
  <2>2. first = s[1] /\ last = s[n] /\ first # NoAlloc /\ last # NoAlloc
    BY <1>1, <1>3, <1>7, <2>1 DEF Listed
  <2>3. Linked = {s[i] : i \in 1..n}
    BY <1>1, <1>2, <2>1, LinkedIs
  <2>4. header[last].next = NoAlloc /\ ~header[last].free
    BY <1>1, <2>1, <2>2 DEF Links
  <2>5. ASSUME NEW a \in Linked \ {last} PROVE header[header[a].next].prev = a
    <3>1. PICK i \in 1..n : a = s[i]
      BY <2>3
    <3>2. i # n
      BY <2>2, <3>1
    <3>3. i + 1 \in 1..n /\ i + 1 # 1 /\ (i + 1) - 1 = i
      BY <1>3, <3>2, SMTT(30)
    <3>4. header[a].next = s[i + 1]
      BY <1>1, <3>1, <3>2 DEF Links
    <3>5. header[s[i + 1]].prev = s[i]
      BY <1>1, <3>3 DEF Links
    <3> QED BY <3>1, <3>4, <3>5
  <2>6. held = {[v |-> a + AllocHeader, size |-> header[a].size] : a \in {b \in Linked : ~header[b].free}}
    BY <1>4, <2>3 DEF AllocOf
  <2> QED BY <1>5, <2>2, <2>4, <2>5, <2>6 DEF ListWhole
<1> QED BY <1>6, <1>7

LEMMA InitLibcHeapInv == LibcHeapInit => LibcHeapInv
<1> SUFFICES ASSUME LibcHeapInit PROVE LibcHeapInv
  OBVIOUS
<1> DEFINE s == [i \in 1..1 |-> 0]
<1>1. MaxHeap \in Nat
  BY LibcHeapAssumption
<1>2. Unwritten \in AllocHeaders
  BY SMTT(30) DEF Unwritten, AllocHeaders, NoAlloc
<1>3. header \in [HeapAddresses -> AllocHeaders]
  BY <1>2 DEF LibcHeapInit
<1>4. libcHeapSize \in Nat /\ libcCurSize <= libcHeapSize
  BY SMTT(30) DEF LibcHeapInit
<1>5. 1..0 = {} /\ 0 + 1 = 1 /\ 1 \in 1..1 /\ 0 \in HeapAddresses /\ ~(0 > 0)
  BY <1>1, SMTT(30) DEF HeapAddresses
<1>6. Tiles(header, 0, s) /\ Links(header, 0, s)
  BY <1>5 DEF Tiles, Links
<1>7. Listed(header, 0, s)
  BY <1>5 DEF Listed, LibcHeapInit
<1> QED BY <1>3, <1>4, <1>5, <1>6, <1>7 DEF LibcHeapInv

(* What malloc writes: its own header and the link of the last one.         *)
LEMMA MallocHeaders ==
  ASSUME NEW size \in MallocSizes, malloc(size), header \in [HeapAddresses -> AllocHeaders],
         NEW n, NEW s, Tiles(header, n, s), Links(header, n, s), Listed(header, n, s)
  PROVE  /\ header' \in [HeapAddresses -> AllocHeaders]
         /\ header'[s[n + 1]] = [prev |-> last, next |-> NoAlloc, size |-> size, free |-> FALSE]
         /\ \A i \in 1..n : /\ header'[s[i]].prev = header[s[i]].prev
                            /\ header'[s[i]].size = header[s[i]].size
                            /\ header'[s[i]].free = header[s[i]].free
                            /\ header'[s[i]].next = IF i = n THEN s[n + 1] ELSE header[s[i]].next
<1> DEFINE new == [prev |-> last, next |-> NoAlloc, size |-> size, free |-> FALSE]
           built == [header EXCEPT ![libcCurSize] = new]
<1>1. /\ n \in Nat /\ \A i \in 1..(n + 1) : s[i] \in HeapAddresses /\ s[i] \in Nat /\ s[i] # NoAlloc
      /\ \A i \in 1..n : header[s[i]] \in AllocHeaders
      /\ \A i, j \in 1..(n + 1) : s[i] = s[j] => i = j
  BY TileFacts, SMTT(30)
<1>2. libcCurSize = s[n + 1] /\ last = IF n = 0 THEN NoAlloc ELSE s[n]
  BY DEF Listed
<1>3. n + 1 \in 1..(n + 1) /\ (n # 0 => n \in 1..(n + 1)) /\ \A i \in 1..n : i \in 1..(n + 1) /\ i # n + 1 /\ n # 0
  BY <1>1, SMTT(30)
<1>4. new \in AllocHeaders
  <2>1. last \in Int /\ NoAlloc \in Int
    BY <1>1, <1>2, <1>3, SMTT(30) DEF NoAlloc
  <2>2. size \in Nat
    BY LibcHeapAssumption
  <2> QED BY <2>1, <2>2, SMTT(30) DEF AllocHeaders
<1>5. header' = IF last = NoAlloc THEN built ELSE [built EXCEPT ![last].next = libcCurSize]
  BY DEF malloc
<1>6. last = NoAlloc <=> n = 0
  BY <1>1, <1>2, <1>3
<1> HIDE DEF new
<1>7. built \in [HeapAddresses -> AllocHeaders] /\ built[s[n + 1]] = new
  BY <1>1, <1>2, <1>3, <1>4
<1>8. \A i \in 1..n : built[s[i]] = header[s[i]]
  BY <1>1, <1>2, <1>3
<1> HIDE DEF built
<1>9. CASE n = 0
  <2>1. header' = built /\ 1..n = {}
    BY <1>5, <1>6, <1>9, SMTT(30)
  <2> QED BY <1>7, <2>1 DEF new
<1>10. CASE n # 0
  <2> DEFINE linked == [built[s[n]] EXCEPT !.next = s[n + 1]]
  <2>1. header' = [built EXCEPT ![s[n]] = linked]
    BY <1>2, <1>5, <1>6, <1>10
  <2>2. n \in 1..n /\ s[n + 1] # s[n] /\ s[n] \in HeapAddresses /\ s[n + 1] \in Int
    BY <1>1, <1>3, <1>10, SMTT(30)
  <2>3. built[s[n]] = header[s[n]] /\ header[s[n]] \in AllocHeaders
    BY <1>1, <1>8, <2>2
  <2>4. /\ linked \in AllocHeaders /\ linked.next = s[n + 1] /\ linked.prev = header[s[n]].prev
        /\ linked.size = header[s[n]].size /\ linked.free = header[s[n]].free
    BY <2>2, <2>3, SMTT(30) DEF AllocHeaders
  <2> HIDE DEF linked
  <2>5. header' \in [HeapAddresses -> AllocHeaders]
    BY <1>7, <2>1, <2>4
  <2>6. header'[s[n + 1]] = new
    BY <1>1, <1>3, <1>7, <2>1, <2>2
  <2>7. ASSUME NEW i \in 1..n
        PROVE  /\ header'[s[i]].prev = header[s[i]].prev
               /\ header'[s[i]].size = header[s[i]].size
               /\ header'[s[i]].free = header[s[i]].free
               /\ header'[s[i]].next = IF i = n THEN s[n + 1] ELSE header[s[i]].next
    <3>1. CASE i = n
      <4>1. header'[s[i]] = linked
        BY <1>7, <2>1, <2>2, <3>1
      <4> QED BY <2>4, <3>1, <4>1
    <3>2. CASE i # n
      <4>1. s[i] # s[n] /\ s[i] \in HeapAddresses
        BY <1>1, <1>3, <2>2, <3>2
      <4>2. header'[s[i]] = header[s[i]]
        BY <1>7, <1>8, <2>1, <4>1
      <4> QED BY <3>2, <4>2
    <3> QED BY <3>1, <3>2
  <2> QED BY <2>5, <2>6, <2>7 DEF new
<1> QED BY <1>9, <1>10

(* malloc appends a tile, apart from all that the program holds.            *)
LEMMA MallocInv ==
  ASSUME LibcHeapInv, NEW size \in MallocSizes, malloc(size)
  PROVE  LibcHeapInv' /\ LibcAllocator!Allocate
<1>1. PICK n, s : /\ Tiles(header, n, s) /\ Links(header, n, s) /\ Listed(header, n, s)
                  /\ n > 0 => ~header[s[n]].free
  BY DEF LibcHeapInv
<1>2. header \in [HeapAddresses -> AllocHeaders] /\ libcHeapSize \in Nat /\ libcCurSize <= libcHeapSize
  BY DEF LibcHeapInv
<1>3. /\ n \in Nat /\ AllocHeader \in Nat \ {0} /\ MaxHeap \in Nat /\ size \in Nat
      /\ \A i \in 1..(n + 1) : s[i] \in HeapAddresses /\ s[i] \in Nat /\ s[i] # NoAlloc
      /\ \A i \in 1..n : header[s[i]].size \in Nat /\ s[i + 1] = s[i] + AllocHeader + header[s[i]].size
  <2>1. size \in Nat
    BY LibcHeapAssumption
  <2> QED BY <1>1, <1>2, <2>1, TileFacts, SMTT(30)
<1> DEFINE new_size == s[n + 1] + AllocHeader + size
           t == [i \in 1..((n + 1) + 1) |-> IF i = (n + 1) + 1 THEN new_size ELSE s[i]]
<1>4. /\ header' \in [HeapAddresses -> AllocHeaders]
      /\ header'[s[n + 1]] = [prev |-> last, next |-> NoAlloc, size |-> size, free |-> FALSE]
      /\ \A i \in 1..n : /\ header'[s[i]].prev = header[s[i]].prev
                         /\ header'[s[i]].size = header[s[i]].size
                         /\ header'[s[i]].free = header[s[i]].free
                         /\ header'[s[i]].next = IF i = n THEN s[n + 1] ELSE header[s[i]].next
  BY <1>1, <1>2, MallocHeaders, SMTT(30)
<1>5. /\ libcCurSize = s[n + 1] /\ last = (IF n = 0 THEN NoAlloc ELSE s[n]) /\ first = (IF n = 0 THEN NoAlloc ELSE s[1])
      /\ held = {AllocOf(header, s[i]) : i \in {j \in 1..n : ~header[s[j]].free}}
  BY <1>1 DEF Listed
<1>6. /\ n + 1 \in 1..(n + 1) /\ n + 1 \in Nat /\ 1 \in 1..(n + 1) /\ n + 1 # 0 /\ n + 1 \in 1..((n + 1) + 1)
      /\ (n + 1) + 1 \in 1..((n + 1) + 1) /\ 1 \in 1..((n + 1) + 1)
      /\ 1 # (n + 1) + 1 /\ n + 1 # (n + 1) + 1 /\ (n + 1) - 1 = n /\ (n # 0 => n + 1 # 1)
  BY <1>3, SMTT(30)
<1>7. \A i \in 1..n : /\ i \in 1..(n + 1) /\ i \in 1..((n + 1) + 1) /\ i # n + 1 /\ i # (n + 1) + 1
                      /\ i + 1 \in 1..(n + 1) /\ i + 1 \in 1..((n + 1) + 1) /\ i + 1 # (n + 1) + 1 /\ n # 0
                      /\ (i # 1 => i - 1 \in 1..n) /\ (i = n <=> i + 1 = n + 1)
  BY <1>3, SMTT(30)
<1>8. \A i \in 1..(n + 1) : i \in 1..n \/ i = n + 1
  BY <1>3, SMTT(30)
<1>9. t[1] = s[1] /\ t[n + 1] = s[n + 1] /\ t[(n + 1) + 1] = new_size /\ \A i \in 1..n : t[i] = s[i] /\ t[i + 1] = s[i + 1]
  BY <1>6, <1>7
<1>10. new_size \in HeapAddresses /\ new_size \in Nat
  <2>1. s[n + 1] \in Nat /\ libcCurSize + AllocHeader + size <= MaxHeap
    BY <1>3, <1>6 DEF malloc
  <2> QED BY <1>3, <1>5, <2>1, SMTT(30) DEF HeapAddresses
<1> HIDE DEF new_size
<1>11. t \in [1..((n + 1) + 1) -> HeapAddresses]
  <2>1. \A i \in 1..((n + 1) + 1) : i # (n + 1) + 1 => i \in 1..(n + 1)
    BY <1>3, SMTT(30)
  <2> QED BY <1>3, <1>10, <2>1
<1> HIDE DEF t
<1>12. header'[t[n + 1]].size = size /\ header'[t[n + 1]].free = FALSE /\ header'[t[n + 1]].prev = last /\ header'[t[n + 1]].next = NoAlloc
  BY <1>4, <1>9, SMTT(30)
<1>13. Tiles(header', n + 1, t)
  <2>1. ASSUME NEW i \in 1..(n + 1) PROVE t[i + 1] = t[i] + AllocHeader + header'[t[i]].size
    <3>1. CASE i \in 1..n
      <4>1. s[i + 1] = s[i] + AllocHeader + header[s[i]].size
        BY <1>3, <3>1
      <4>2. t[i] = s[i] /\ t[i + 1] = s[i + 1]
        BY <1>9, <3>1
      <4>3. header'[s[i]].size = header[s[i]].size
        BY <1>4, <3>1
      <4> QED BY ONLY <4>1, <4>2, <4>3
    <3>2. CASE i = n + 1
      BY <1>9, <1>12, <3>2 DEF new_size
    <3> QED BY <1>8, <3>1, <3>2
  <2>2. t[1] = 0
    BY <1>1, <1>9 DEF Tiles
  <2> QED BY <1>6, <1>11, <2>1, <2>2 DEF Tiles
<1>14. Links(header', n + 1, t)
  <2>1. ASSUME NEW i \in 1..(n + 1)
        PROVE  /\ header'[t[i]].prev = IF i = 1 THEN NoAlloc ELSE t[i - 1]
               /\ header'[t[i]].next = IF i = n + 1 THEN NoAlloc ELSE t[i + 1]
    <3>1. CASE i \in 1..n
      <4>1. header[s[i]].prev = (IF i = 1 THEN NoAlloc ELSE s[i - 1]) /\ header[s[i]].next = IF i = n THEN NoAlloc ELSE s[i + 1]
        BY <1>1, <3>1 DEF Links
      <4>2. t[i] = s[i] /\ t[i + 1] = s[i + 1] /\ (i # 1 => t[i - 1] = s[i - 1]) /\ i # n + 1
        BY <1>7, <1>9, <3>1
      <4> QED BY <1>4, <3>1, <4>1, <4>2
    <3>2. CASE i = n + 1
      <4>1. header'[t[i]].next = NoAlloc
        BY <1>12, <3>2
      <4>2. n = 0 => i = 1
        BY <3>2, SMTT(30)
      <4>3. n # 0 => n \in 1..n /\ i # 1 /\ i - 1 = n
        BY <1>3, <3>2, SMTT(30)
      <4>4. header'[t[i]].prev = last /\ (n # 0 => t[i - 1] = s[n])
        BY <1>9, <1>12, <3>2, <4>3
      <4> QED BY <1>5, <3>2, <4>1, <4>2, <4>3, <4>4
    <3> QED BY <1>8, <3>1, <3>2
  <2> QED BY <2>1 DEF Links
<1> DEFINE r == [v |-> s[n + 1] + AllocHeader, size |-> size]
<1>15. libcCurSize' = new_size /\ last' = s[n + 1] /\ first' = s[1] /\ held' = held \cup {r}
  <2>1. first # NoAlloc => first = s[1]
    BY <1>5
  <2>2. first = NoAlloc => n = 0
    BY <1>3, <1>5, <1>6
  <2>3. n = 0 => n + 1 = 1
    BY SMTT(30)
  <2> QED BY <1>5, <2>1, <2>2, <2>3 DEF malloc, new_size
<1>16. held' = {AllocOf(header', t[i]) : i \in {j \in 1..(n + 1) : ~header'[t[j]].free}}
  <2>1. AllocOf(header', t[n + 1]) = r
    BY <1>9, <1>12 DEF AllocOf
  <2>2. \A i \in 1..n : AllocOf(header', t[i]) = AllocOf(header, s[i]) /\ header'[t[i]].free = header[s[i]].free
    BY <1>4, <1>9 DEF AllocOf
  <2> HIDE DEF r
  <2>3. {j \in 1..(n + 1) : ~header'[t[j]].free} = {j \in 1..n : ~header[s[j]].free} \cup {n + 1}
    BY <1>6, <1>7, <1>8, <1>12, <2>2
  <2> QED BY <1>5, <1>15, <2>1, <2>2, <2>3
<1>17. Listed(header, n + 1, t)'
  BY <1>6, <1>9, <1>15, <1>16 DEF Listed, AllocOf
<1>18. libcHeapSize' \in Nat /\ libcCurSize' <= libcHeapSize'
  <2>1. libcHeapSize' = IF libcHeapSize < new_size THEN new_size ELSE libcHeapSize
    BY <1>5 DEF malloc, new_size
  <2> QED BY <1>2, <1>10, <1>15, <2>1, SMTT(30)
<1>19. LibcHeapInv'
  <2>1. ~header'[t[n + 1]].free
    BY <1>12
  <2> QED BY <1>4, <1>13, <1>14, <1>17, <1>18, <2>1 DEF LibcHeapInv, Tiles, Links
<1>20. LibcAllocator!Allocate
  <2> DEFINE Whole(q) == [v |-> q.v - AllocHeader, size |-> AllocHeader + q.size]
             live == {Whole(q) : q \in held}
  <2>1. {Whole(q) : q \in held'} = live \cup {Whole(r)}
    BY <1>15
  <2>2. Whole(r).v = s[n + 1] /\ Whole(r).size = AllocHeader + size
    <3>1. s[n + 1] \in Nat
      BY <1>3, <1>6
    <3> QED BY <1>3, <3>1, SMTT(30)
  <2>3. ASSUME NEW q \in held PROVE Whole(q).v + Whole(q).size <= s[n + 1] /\ Whole(q).v # s[n + 1]
    <3>1. PICK i \in 1..n : q = AllocOf(header, s[i])
      BY <1>5
    <3>2. s[i] + AllocHeader + header[s[i]].size <= s[n + 1]
      <4>1. i < n + 1
        BY <1>3, SMTT(30)
      <4> QED BY <1>1, <1>2, <1>6, <4>1, TilesGrow
    <3>3. s[i] \in Nat /\ s[n + 1] \in Nat /\ header[s[i]].size \in Nat
      BY <1>3, <1>6, <1>7
    <3>4. Whole(q).v = s[i] /\ Whole(q).size = AllocHeader + header[s[i]].size
      BY <1>3, <3>1, <3>3, SMTT(30) DEF AllocOf
    <3> QED BY <1>3, <3>2, <3>3, <3>4, SMTT(30)
  <2> HIDE DEF r, Whole
  <2>4. Whole(r) \notin live
    BY <2>2, <2>3
  <2>5. \A other \in live : LibcAllocator!Apart(Whole(r), other)
    BY <2>2, <2>3 DEF LibcAllocator!Apart
  <2> QED BY <2>1, <2>4, <2>5 DEF LibcAllocator!Allocate, Whole
<1> QED BY <1>19, <1>20

\* What free writes first.
Freed(r) == [header EXCEPT ![r.v - AllocHeader].free = TRUE]

\* h is header with the k-th tile, the allocation r, made free.
FreedAt(h, n, s, r, k) ==
  /\ r = AllocOf(header, s[k]) /\ r.v - AllocHeader = s[k]
  /\ h \in [HeapAddresses -> AllocHeaders] /\ h[s[k]].free
  /\ \A i \in 1..n : /\ h[s[i]].prev = header[s[i]].prev /\ h[s[i]].next = header[s[i]].next
                     /\ h[s[i]].size = header[s[i]].size
                     /\ i # k => h[s[i]].free = header[s[i]].free
  /\ Tiles(h, n, s) /\ Links(h, n, s)
  /\ held \ {r} = {AllocOf(h, s[i]) : i \in {j \in 1..n : ~h[s[j]].free}}

(* The allocation is one of the tiles, and free then.                       *)
LEMMA FreedHeaders ==
  ASSUME header \in [HeapAddresses -> AllocHeaders],
         NEW n, NEW s, Tiles(header, n, s), Links(header, n, s), Listed(header, n, s),
         NEW r \in held
  PROVE  \E k \in 1..n : FreedAt(Freed(r), n, s, r, k)
<1> DEFINE h == Freed(r)
<1>1. /\ n \in Nat /\ AllocHeader \in Nat \ {0}
      /\ \A i \in 1..(n + 1) : s[i] \in HeapAddresses /\ s[i] \in Nat
      /\ \A i \in 1..n : header[s[i]] \in AllocHeaders
      /\ \A i, j \in 1..(n + 1) : s[i] = s[j] => i = j
  BY TileFacts, SMTT(30)
<1>2. held = {AllocOf(header, s[i]) : i \in {j \in 1..n : ~header[s[j]].free}}
  BY DEF Listed
<1>3. PICK k \in 1..n : r = AllocOf(header, s[k]) /\ ~header[s[k]].free
  BY <1>2
<1>4. \A i \in 1..n : i \in 1..(n + 1)
  BY <1>1, SMTT(30)
<1>5. r.v - AllocHeader = s[k] /\ s[k] \in HeapAddresses
  BY <1>1, <1>3, <1>4, SMTT(30) DEF AllocOf
<1> DEFINE new == [header[s[k]] EXCEPT !.free = TRUE]
<1>6. h = [header EXCEPT ![s[k]] = new]
  BY <1>5 DEF Freed
<1>7. new \in AllocHeaders /\ new.free /\ new.prev = header[s[k]].prev /\ new.next = header[s[k]].next /\ new.size = header[s[k]].size
  <2>1. header[s[k]] \in AllocHeaders
    BY <1>1
  <2>2. new \in AllocHeaders
    BY <2>1 DEF AllocHeaders
  <2>3. new.free = TRUE
    BY <2>1 DEF AllocHeaders
  <2>4. new.prev = header[s[k]].prev /\ new.next = header[s[k]].next /\ new.size = header[s[k]].size
    BY <2>1, SMTT(30) DEF AllocHeaders
  <2> QED BY <2>2, <2>3, <2>4
<1> HIDE DEF new, h
<1>8. h \in [HeapAddresses -> AllocHeaders] /\ h[s[k]] = new
  BY <1>5, <1>6, <1>7
<1>9. \A i \in 1..n : i # k => h[s[i]] = header[s[i]] /\ s[i] # s[k]
  BY <1>1, <1>4, <1>5, <1>6
<1>10. \A i \in 1..n : /\ h[s[i]].prev = header[s[i]].prev /\ h[s[i]].next = header[s[i]].next
                       /\ h[s[i]].size = header[s[i]].size /\ (i # k => h[s[i]].free = header[s[i]].free)
  BY <1>7, <1>8, <1>9
<1>11. Tiles(h, n, s) /\ Links(h, n, s)
  BY <1>10 DEF Tiles, Links
<1>12. \A i \in 1..n : AllocOf(h, s[i]) = AllocOf(header, s[i])
  BY <1>10 DEF AllocOf
<1>13. \A i \in 1..n : AllocOf(header, s[i]) = r => i = k
  <2>1. ASSUME NEW i \in 1..n, AllocOf(header, s[i]) = r PROVE i = k
    <3>1. AllocOf(header, s[i]).v = s[i] + AllocHeader /\ r.v = s[k] + AllocHeader
      BY <1>3, SMTT(30) DEF AllocOf
    <3>2. s[i] \in Nat /\ s[k] \in Nat
      BY <1>1, <1>4
    <3>3. s[i] = s[k]
      BY <1>1, <2>1, <3>1, <3>2, SMTT(30)
    <3> QED BY <1>1, <1>4, <3>3
  <2> QED BY <2>1
<1>14. {j \in 1..n : ~h[s[j]].free} = {j \in 1..n : ~header[s[j]].free} \ {k}
  BY <1>7, <1>8, <1>10
<1>15. held \ {r} = {AllocOf(h, s[i]) : i \in {j \in 1..n : ~h[s[j]].free}}
  <2> DEFINE Used == {j \in 1..n : ~header[s[j]].free}
  <2>1. {AllocOf(h, s[i]) : i \in Used \ {k}} = {AllocOf(header, s[i]) : i \in Used \ {k}}
    BY <1>12
  <2>2. \A i \in Used : i \in 1..n
    OBVIOUS
  <2> HIDE DEF Used
  <2>3. {AllocOf(header, s[i]) : i \in Used} \ {r} = {AllocOf(header, s[i]) : i \in Used \ {k}}
    BY <1>3, <1>13, <2>2
  <2> QED BY <1>2, <1>14, <2>1, <2>3 DEF Used
<1>16. h[s[k]].free
  BY <1>7, <1>8
<1>17. FreedAt(h, n, s, r, k)
  BY <1>3, <1>5, <1>8, <1>10, <1>11, <1>15, <1>16 DEF FreedAt
<1> QED BY <1>17 DEF h

(* Cutting the list back to its first k allocations.                        *)
LEMMA CutInv ==
  ASSUME NEW h \in [HeapAddresses -> AllocHeaders], NEW n, NEW s, Tiles(h, n, s), Links(h, n, s),
         NEW k, LastUsed(h, n, s, k),
         held' = {AllocOf(h, s[i]) : i \in {j \in 1..n : ~h[s[j]].free}},
         libcCurSize' = CutTo(s, k).cur, last' = CutTo(s, k).last,
         first' = IF CutTo(s, k).last = NoAlloc THEN NoAlloc ELSE s[1],
         header' = IF CutTo(s, k).last = NoAlloc THEN h ELSE [h EXCEPT ![CutTo(s, k).last].next = NoAlloc],
         libcHeapSize' \in Nat, s[n + 1] <= libcHeapSize'
  PROVE  LibcHeapInv'
<1>1. /\ n \in Nat /\ AllocHeader \in Nat \ {0}
      /\ \A i \in 1..(n + 1) : s[i] \in HeapAddresses /\ s[i] \in Nat /\ s[i] # NoAlloc
      /\ \A i \in 1..n : h[s[i]] \in AllocHeaders /\ h[s[i]].size \in Nat /\ s[i + 1] = s[i] + AllocHeader + h[s[i]].size
      /\ \A i, j \in 1..(n + 1) : s[i] = s[j] => i = j
  BY TileFacts, SMTT(30)
<1>2. k \in 0..n /\ (k > 0 => ~h[s[k]].free) /\ \A i \in (k + 1)..n : h[s[i]].free
  BY DEF LastUsed
<1>3. /\ k \in Nat /\ k + 1 \in 1..(k + 1) /\ k + 1 \in 1..(n + 1) /\ 1 \in 1..(k + 1) /\ 1 \in 1..(n + 1)
      /\ (k # 0 => k \in 1..k /\ k \in 1..n /\ k \in 1..(n + 1) /\ k \in 1..(k + 1) /\ k > 0)
      /\ \A i \in 1..(k + 1) : i \in 1..(n + 1)
      /\ \A i \in 1..k : /\ i \in 1..n /\ i \in 1..(k + 1) /\ i \in 1..(n + 1) /\ i + 1 \in 1..(k + 1) /\ k # 0
                         /\ (i # 1 => i - 1 \in 1..(k + 1)) /\ (i # k => i # n)
      /\ \A i \in 1..n : i \in 1..k \/ i \in (k + 1)..n
  BY <1>1, <1>2, SMTT(30)
<1>4. CutTo(s, k).last = (IF k = 0 THEN NoAlloc ELSE s[k]) /\ CutTo(s, k).cur = s[k + 1]
  BY SMTT(30) DEF CutTo
<1>5. CutTo(s, k).last = NoAlloc <=> k = 0
  BY <1>1, <1>3, <1>4
<1> DEFINE t == [i \in 1..(k + 1) |-> s[i]]
<1>6. t \in [1..(k + 1) -> HeapAddresses] /\ \A i \in 1..(k + 1) : t[i] = s[i]
  BY <1>1, <1>3
<1> HIDE DEF t
<1>7. /\ header' \in [HeapAddresses -> AllocHeaders]
      /\ \A i \in 1..k : /\ header'[s[i]].prev = h[s[i]].prev /\ header'[s[i]].size = h[s[i]].size
                         /\ header'[s[i]].free = h[s[i]].free
                         /\ header'[s[i]].next = IF i = k THEN NoAlloc ELSE h[s[i]].next
  <2>1. CASE k = 0
    BY <1>3, <1>5, <2>1
  <2>2. CASE k # 0
    <3> DEFINE new == [h[s[k]] EXCEPT !.next = NoAlloc]
    <3>1. header' = [h EXCEPT ![s[k]] = new] /\ s[k] \in HeapAddresses
      BY <1>1, <1>3, <1>4, <1>5, <2>2
    <3>2. h[s[k]] \in AllocHeaders /\ NoAlloc \in Int
      BY <1>1, <1>3, <2>2, SMTT(30) DEF NoAlloc
    <3>3. new \in AllocHeaders /\ new.next = NoAlloc /\ new.prev = h[s[k]].prev /\ new.size = h[s[k]].size /\ new.free = h[s[k]].free
      BY <3>2, SMTT(30) DEF AllocHeaders
    <3> HIDE DEF new
    <3>4. header' \in [HeapAddresses -> AllocHeaders] /\ header'[s[k]] = new
      BY <3>1, <3>3
    <3>5. ASSUME NEW i \in 1..k, i # k PROVE header'[s[i]] = h[s[i]]
      <4>1. s[i] # s[k] /\ s[i] \in HeapAddresses
        BY <1>1, <1>3, <2>2, <3>5
      <4> QED BY <3>1, <4>1
    <3>6. ASSUME NEW i \in 1..k
          PROVE  /\ header'[s[i]].prev = h[s[i]].prev /\ header'[s[i]].size = h[s[i]].size
                 /\ header'[s[i]].free = h[s[i]].free
                 /\ header'[s[i]].next = IF i = k THEN NoAlloc ELSE h[s[i]].next
      <4>1. CASE i = k
        BY <3>3, <3>4, <4>1, SMTT(30)
      <4>2. CASE i # k
        <5>1. header'[s[i]] = h[s[i]]
          BY <3>5, <4>2
        <5> QED BY ONLY <4>2, <5>1
      <4> QED BY <4>1, <4>2
    <3> QED BY <3>4, <3>6
  <2> QED BY <2>1, <2>2
<1>8. Tiles(header', k, t)
  <2>1. ASSUME NEW i \in 1..k PROVE t[i + 1] = t[i] + AllocHeader + header'[t[i]].size
    <3>1. t[i] = s[i] /\ t[i + 1] = s[i + 1] /\ i \in 1..n
      BY <1>3, <1>6
    <3>2. header'[s[i]].size = h[s[i]].size
      BY <1>7
    <3>3. s[i + 1] = s[i] + AllocHeader + h[s[i]].size
      BY <1>1, <3>1
    <3> QED BY <3>1, <3>2, <3>3
  <2>2. t[1] = 0
    BY <1>3, <1>6 DEF Tiles
  <2> QED BY <1>3, <1>6, <2>1, <2>2 DEF Tiles
<1>9. Links(header', k, t)
  <2>1. ASSUME NEW i \in 1..k
        PROVE  /\ header'[t[i]].prev = IF i = 1 THEN NoAlloc ELSE t[i - 1]
               /\ header'[t[i]].next = IF i = k THEN NoAlloc ELSE t[i + 1]
    <3>1. t[i] = s[i] /\ t[i + 1] = s[i + 1] /\ (i # 1 => t[i - 1] = s[i - 1]) /\ i \in 1..n /\ (i # k => i # n)
      BY <1>3, <1>6
    <3>2. h[s[i]].prev = (IF i = 1 THEN NoAlloc ELSE s[i - 1]) /\ h[s[i]].next = IF i = n THEN NoAlloc ELSE s[i + 1]
      BY <3>1 DEF Links
    <3> QED BY <1>7, <3>1, <3>2
  <2> QED BY <2>1 DEF Links
<1>10. held' = {AllocOf(header', t[i]) : i \in {j \in 1..k : ~header'[t[j]].free}}
  <2>1. \A i \in 1..k : AllocOf(header', t[i]) = AllocOf(h, s[i]) /\ header'[t[i]].free = h[s[i]].free
    BY <1>3, <1>6, <1>7 DEF AllocOf
  <2>2. {j \in 1..n : ~h[s[j]].free} = {j \in 1..k : ~header'[t[j]].free}
    BY <1>2, <1>3, <2>1
  <2> QED BY <2>1, <2>2
<1>11. libcCurSize' = t[k + 1] /\ last' = (IF k = 0 THEN NoAlloc ELSE t[k]) /\ first' = IF k = 0 THEN NoAlloc ELSE t[1]
  BY <1>3, <1>4, <1>5, <1>6
<1>12. Listed(header, k, t)'
  BY <1>10, <1>11 DEF Listed, AllocOf
<1>13. k > 0 => ~header'[t[k]].free
  <2>1. k > 0 => k # 0
    BY SMTT(30)
  <2> QED BY <1>2, <1>3, <1>6, <1>7, <2>1
<1>14. libcCurSize' <= libcHeapSize'
  <2>1. s[k + 1] <= s[n + 1]
    <3>1. CASE k = n
      <4>1. s[n + 1] \in Nat
        BY <1>1, <1>3, <3>1
      <4> QED BY <3>1, <4>1, SMTT(30)
    <3>2. CASE k # n
      <4>1. k + 1 \in 1..n /\ n + 1 \in 1..(n + 1) /\ k + 1 < n + 1
        BY <1>1, <1>2, <3>2, SMTT(30)
      <4>2. s[k + 1] + AllocHeader + h[s[k + 1]].size <= s[n + 1]
        BY <4>1, TilesGrow
      <4>3. s[k + 1] \in Nat /\ s[n + 1] \in Nat /\ h[s[k + 1]].size \in Nat
        BY <1>1, <1>3, <4>1
      <4> QED BY <1>1, <4>2, <4>3, SMTT(30)
    <3> QED BY <3>1, <3>2
  <2>2. s[k + 1] \in Nat /\ s[n + 1] \in Nat
    <3>1. n + 1 \in 1..(n + 1)
      BY <1>1, SMTT(30)
    <3> QED BY <1>1, <1>3, <3>1
  <2> QED BY <1>4, <2>1, <2>2, SMTT(30)
<1> QED BY <1>7, <1>8, <1>9, <1>12, <1>13, <1>14 DEF LibcHeapInv, Tiles, Links

(* free makes a tile free, and cuts the list if that is at its end.         *)
LEMMA FreeInv ==
  ASSUME LibcHeapInv, NEW r \in held, free(r)
  PROVE  LibcHeapInv'
<1>1. PICK n, s : /\ Tiles(header, n, s) /\ Links(header, n, s) /\ Listed(header, n, s)
                  /\ n > 0 => ~header[s[n]].free
  BY DEF LibcHeapInv
<1>2. header \in [HeapAddresses -> AllocHeaders] /\ libcHeapSize \in Nat /\ libcCurSize <= libcHeapSize
  BY DEF LibcHeapInv
<1> DEFINE h == Freed(r)
<1>3. PICK k \in 1..n :
        /\ r.v - AllocHeader = s[k]
        /\ h \in [HeapAddresses -> AllocHeaders]
        /\ \A i \in 1..n : /\ h[s[i]].prev = header[s[i]].prev /\ h[s[i]].next = header[s[i]].next
                           /\ i # k => h[s[i]].free = header[s[i]].free
        /\ Tiles(h, n, s) /\ Links(h, n, s)
        /\ held \ {r} = {AllocOf(h, s[i]) : i \in {j \in 1..n : ~h[s[j]].free}}
  <2>1. \E k \in 1..n : FreedAt(h, n, s, r, k)
    BY <1>1, <1>2, FreedHeaders
  <2> HIDE DEF h
  <2> QED BY <2>1 DEF FreedAt
<1>4. /\ libcCurSize = s[n + 1] /\ last = (IF n = 0 THEN NoAlloc ELSE s[n])
      /\ first = (IF n = 0 THEN NoAlloc ELSE s[1])
  BY <1>1 DEF Listed
<1>5. n \in Nat /\ n \in 1..n /\ n > 0 /\ n # 0
  <2>1. n \in Nat
    BY <1>1 DEF Tiles
  <2> QED BY <2>1, SMTT(30)
<1>6. held' = held \ {r} /\ libcHeapSize' = libcHeapSize
  BY DEF free
<1>7. libcHeapSize' \in Nat /\ s[n + 1] <= libcHeapSize'
  BY <1>2, <1>4, <1>6
<1>8. CASE header[s[k]].next = NoAlloc \/ header[header[s[k]].next].free
  <2>1. libc_truncate_heap(h)
    BY <1>3, <1>8 DEF free, Freed
  <2> HIDE DEF h
  <2>2. PICK m : LastUsed(h, n, s, m)
    BY <1>5, LastUsedExists
  <2>3. DropFree(h) = CutTo(s, m)
    <3>1. \A i \in 1..n : h[s[i]].prev = IF i = 1 THEN NoAlloc ELSE s[i - 1]
      BY <1>3 DEF Links
    <3>2. FreeBehind(h, n, s, m)
      BY <1>3, <1>4, <2>2, <3>1 DEF FreeBehind
    <3> QED BY <3>2, DropIs
  <2>4. /\ libcCurSize' = CutTo(s, m).cur /\ last' = CutTo(s, m).last
        /\ first' = IF CutTo(s, m).last = NoAlloc THEN NoAlloc ELSE s[1]
        /\ header' = IF CutTo(s, m).last = NoAlloc THEN h ELSE [h EXCEPT ![CutTo(s, m).last].next = NoAlloc]
    BY <1>4, <1>5, <2>1, <2>3 DEF libc_truncate_heap
  <2> QED BY <1>3, <1>6, <1>7, <2>2, <2>4, CutInv
<1>9. CASE ~(header[s[k]].next = NoAlloc \/ header[header[s[k]].next].free)
  <2>1. header' = h /\ UNCHANGED <<first, last, libcCurSize>>
    BY <1>3, <1>9 DEF free, Freed
  <2> HIDE DEF h
  <2>2. k # n
    BY <1>1, <1>5, <1>9 DEF Links
  <2>3. ~header'[s[n]].free
    BY <1>1, <1>3, <1>5, <2>1, <2>2
  <2>4. held' = {AllocOf(header', s[i]) : i \in {j \in 1..n : ~header'[s[j]].free}}
    BY <1>3, <1>6, <2>1
  <2>5. Listed(header, n, s)'
    BY <1>4, <2>1, <2>4 DEF Listed, AllocOf
  <2>6. Tiles(header', n, s) /\ Links(header', n, s) /\ header' \in [HeapAddresses -> AllocHeaders]
    BY <1>3, <2>1
  <2>7. libcHeapSize' \in Nat /\ libcCurSize' <= libcHeapSize'
    BY <1>2, <1>6, <2>1
  <2> QED BY <2>3, <2>5, <2>6, <2>7 DEF LibcHeapInv, Tiles, Links
<1> QED BY <1>8, <1>9

(* What the program has been given has a header in front.                   *)
LEMMA FreeGives ==
  ASSUME LibcHeapInv, NEW r \in held, free(r)
  PROVE  LibcAllocator!Free
<1> DEFINE Whole(q) == [v |-> q.v - AllocHeader, size |-> AllocHeader + q.size]
           live == {Whole(q) : q \in held}
<1>1. PICK n, s : Tiles(header, n, s) /\ Listed(header, n, s)
  BY DEF LibcHeapInv
<1>2. header \in [HeapAddresses -> AllocHeaders]
  BY DEF LibcHeapInv
<1>3. /\ n \in Nat /\ AllocHeader \in Nat \ {0} /\ \A i \in 1..(n + 1) : s[i] \in Nat
      /\ \A i \in 1..n : header[s[i]].size \in Nat
  BY <1>1, <1>2, TileFacts, SMTT(30)
<1>4. ASSUME NEW q \in held PROVE q \in [v : Nat, size : Nat]
  <2>1. PICK i \in 1..n : q = AllocOf(header, s[i])
    BY <1>1 DEF Listed
  <2>2. i \in 1..(n + 1)
    BY <1>3, SMTT(30)
  <2>3. s[i] \in Nat /\ header[s[i]].size \in Nat
    BY <1>3, <2>2
  <2>4. s[i] + AllocHeader \in Nat
    BY ONLY <1>3, <2>3, SMTT(30)
  <2> QED BY <2>1, <2>3, <2>4 DEF AllocOf
<1>5. ASSUME NEW q \in held, Whole(q) = Whole(r) PROVE q = r
  <2>1. q \in [v : Nat, size : Nat] /\ r \in [v : Nat, size : Nat]
    BY <1>4
  <2>2. Whole(q).v = Whole(r).v /\ Whole(q).size = Whole(r).size
    BY <1>5
  <2>3. q.v - AllocHeader = r.v - AllocHeader /\ AllocHeader + q.size = AllocHeader + r.size
    BY <2>2
  <2>4. q.v \in Nat /\ r.v \in Nat /\ q.size \in Nat /\ r.size \in Nat
    BY <2>1
  <2>5. q.v = r.v /\ q.size = r.size
    BY ONLY <1>3, <2>3, <2>4, SMTT(30)
  <2>6. q = [v |-> q.v, size |-> q.size] /\ r = [v |-> r.v, size |-> r.size]
    BY <2>1
  <2> QED BY <2>5, <2>6
<1>6. held' = held \ {r}
  BY DEF free
<1> HIDE DEF Whole
<1>7. {Whole(q) : q \in held'} = live \ {Whole(r)}
  BY <1>5, <1>6
<1>8. Whole(r) \in live
  OBVIOUS
<1> QED BY <1>7, <1>8 DEF LibcAllocator!Free, Whole

(* malloc and free implement the allocator, and keep the list whole, for    *)
(* any sizes, any header and any room for the heap.                         *)
THEOREM LibcHeapCorrect == LibcHeapSpec => LibcHeapAllocates
<1>1. LibcHeapInit => LibcHeapInv
  BY InitLibcHeapInv
<1>2. LibcHeapInv /\ [LibcHeapNext]_libcHeapVars => LibcHeapInv'
  <2>1. LibcHeapInv /\ LibcHeapNext => LibcHeapInv'
    BY MallocInv, FreeInv DEF LibcHeapNext
  <2>2. LibcHeapInv /\ UNCHANGED libcHeapVars => LibcHeapInv'
    BY DEF LibcHeapInv, libcHeapVars, Listed
  <2> QED BY <2>1, <2>2
<1>3. LibcHeapSpec => []LibcHeapInv
  BY <1>1, <1>2, PTL DEF LibcHeapSpec
<1>4. LibcHeapInit => LibcAllocator!AllocatorInit
  BY DEF LibcHeapInit, LibcAllocator!AllocatorInit
<1> DEFINE live == {[v |-> r.v - AllocHeader, size |-> AllocHeader + r.size] : r \in held}
<1>5. LibcHeapInv /\ [LibcHeapNext]_libcHeapVars => [LibcAllocator!Allocate \/ LibcAllocator!Free]_live
  <2>1. LibcHeapInv /\ LibcHeapNext => LibcAllocator!Allocate \/ LibcAllocator!Free
    BY MallocInv, FreeGives DEF LibcHeapNext
  <2>2. UNCHANGED libcHeapVars => UNCHANGED live
    BY DEF libcHeapVars
  <2> HIDE DEF live
  <2> QED BY <2>1, <2>2
<1>6. LibcHeapSpec => LibcAllocator!AllocatorSpec
  BY <1>3, <1>4, <1>5, PTL DEF LibcHeapSpec, LibcAllocator!AllocatorSpec
<1>7. LibcHeapSpec => []ListWhole
  BY <1>3, InvList, PTL
<1> QED BY <1>6, <1>7, PTL DEF LibcHeapAllocates

=============================================================================
