------------------------------- MODULE Allocator -------------------------------
(***************************************************************************)
(* What an allocator promises: memory it hands out is the caller's alone   *)
(* until the caller gives it back.  LibcHeap implements it.                *)
(***************************************************************************)
EXTENDS Integers

VARIABLE live   \* the ranges that are handed out

Apart(a, b) == a.v + a.size <= b.v \/ b.v + b.size <= a.v

AllocatorInit == live = {}

Allocate ==
  \E r \in live' : /\ live' = live \cup {r} /\ r \notin live
                   /\ \A other \in live : Apart(r, other)
Free == \E r \in live : live' = live \ {r}

AllocatorSpec == AllocatorInit /\ [][Allocate \/ Free]_live

===============================================================================
