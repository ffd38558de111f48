------------------------------ MODULE BlockLocks ------------------------------
(***************************************************************************)
(* What block_dev promises with lock and unlock (kernel/block.h): a block  *)
(* of a drive has at most one holder at a time.                            *)
(***************************************************************************)
CONSTANTS Blocks, Threads, Nobody

VARIABLE owner

BlockLocksInit == owner = [b \in Blocks |-> Nobody]

LockBlock(t, b) == owner[b] = Nobody /\ owner' = [owner EXCEPT ![b] = t]
UnlockBlock(t, b) == owner[b] = t /\ owner' = [owner EXCEPT ![b] = Nobody]

\* Most steps of the cache change no owner, which is told before any of these.
BlockLocksNext ==
  owner' # owner /\ \E t \in Threads, b \in Blocks : LockBlock(t, b) \/ UnlockBlock(t, b)

BlockLocksSpec == BlockLocksInit /\ [][BlockLocksNext]_owner

==============================================================================
