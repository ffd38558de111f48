----------------------------- MODULE MCScheduler -----------------------------
(* Instances of Scheduler for model checking.                               *)
EXTENDS Scheduler, TLC

CONSTANT main  \* the thread of kernel_main

OneThread == <<main>>

(* The other threads are interchangeable, and so are the processes but the  *)
(* kernel's, and the exit statuses.                                         *)
Symmetry == Permutations(Threads \ {main}) \cup Permutations(Procs) \cup Permutations(Statuses)

=============================================================================
