------------------------------ MODULE Barrier ------------------------------
(***************************************************************************)
(* What the scheduler expects of cpu_checkpoint_enter, "used to ensure all *)
(* CPUs enter the scheduler at the same time" (scheduler.c): nobody leaves *)
(* before everybody has entered.                                           *)
(***************************************************************************)
CONSTANT CPUs

VARIABLES entered, passed

bvars == <<entered, passed>>

BarrierInit == entered = {} /\ passed = {}

BarrierEnter(c) ==
  /\ c \notin entered
  /\ entered' = entered \cup {c} /\ UNCHANGED passed

BarrierPass(c) ==
  /\ entered = CPUs /\ c \notin passed
  /\ passed' = passed \cup {c} /\ UNCHANGED entered

BarrierNext == \E c \in CPUs : BarrierEnter(c) \/ BarrierPass(c)

BarrierSpec == BarrierInit /\ [][BarrierNext]_bvars

=============================================================================
