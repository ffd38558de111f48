------------------------------ MODULE BlockCache ------------------------------
(***************************************************************************)
(* The block cache of the ATA driver, kernel/kernel/drivers/ata/generic.c, *)
(* shared by all drives.  A thread looks its block up under the cache's    *)
(* spinlock and then waits for the mutex of the entry; it gives back the   *)
(* mutex and only then, under the spinlock, its reference.                 *)
(***************************************************************************)
EXTENDS Integers, FiniteSets

CONSTANTS
  Readers,     \* threads that read blocks, one at a time
  BlockIds,    \* <<drive, num>>
  CacheSize,   \* GEN_ATA_CACHE_SIZE
  NoReader,
  MaxHits      \* bound: hits of an entry

ASSUME BlockCacheAssumption ==
  CacheSize \in Nat \ {0} /\ MaxHits \in Nat /\ NoReader \notin Readers /\ IsFiniteSet(Readers)

VARIABLES
  blocks,     \* cache.blocks: block, ref, hit, is_valid and whose data it holds
  block_mutex,      \* the thread that holds the mutex of each entry
  want,       \* the block each thread asked for
  at,         \* the entry it was given, 0 if none
  stage       \* "idle", "waiting", "holding" or "unref"

cacheVars == <<blocks, block_mutex, want, at, stage>>

CacheEntries == 1..CacheSize

\* kmemset(cache.blocks, 0, ...): every entry looks like block 0 of drive 0.
ZeroBlock == <<0, 0>>
NoData == <<>>   \* zeroes

BlockCacheInit ==
  /\ blocks = [e \in CacheEntries |->
       [block |-> ZeroBlock, ref |-> 0, hit |-> 0, is_valid |-> FALSE, data |-> NoData]]
  /\ block_mutex = [e \in CacheEntries |-> NoReader]
  /\ want = [t \in Readers |-> ZeroBlock]
  /\ at = [t \in Readers |-> 0]
  /\ stage = [t \in Readers |-> "idle"]

LowestEntry(S) == CHOOSE e \in S : \A f \in S : e <= f

Hits(b) == {e \in CacheEntries : blocks[e].block = b}
Unreferenced == {e \in CacheEntries : blocks[e].ref = 0}

\* The entry to replace: the fewest hits, the lowest index among them.
Victim ==
  LowestEntry({e \in Unreferenced : \A f \in Unreferenced : blocks[e].hit <= blocks[f].hit})

\* Mutation: a hit is not counted while the thread waits for the mutex.
HitUnreferenced(t, b) ==
  LET e == LowestEntry(Hits(b)) IN
  /\ stage[t] = "idle" /\ Hits(b) # {} /\ blocks[e].hit < MaxHits
  /\ blocks' = [blocks EXCEPT ![e].hit = @ + 1]
  /\ want' = [want EXCEPT ![t] = b] /\ at' = [at EXCEPT ![t] = e]
  /\ stage' = [stage EXCEPT ![t] = "waiting"]
  /\ UNCHANGED block_mutex

\* Mutation: the mutex is made anew on a hit, too.
HitNewMutex(t, b) ==
  LET e == LowestEntry(Hits(b)) IN
  /\ stage[t] = "idle" /\ Hits(b) # {} /\ blocks[e].hit < MaxHits
  /\ blocks' = [blocks EXCEPT ![e].ref = @ + 1, ![e].hit = @ + 1]
  /\ block_mutex' = [block_mutex EXCEPT ![e] = NoReader]
  /\ want' = [want EXCEPT ![t] = b] /\ at' = [at EXCEPT ![t] = e]
  /\ stage' = [stage EXCEPT ![t] = "waiting"]

\* gen_ata_bd_lock, up to the release of the spinlock; through mbr_part_bd_lock
\* when the device is a partition.
CacheHit(t, b) ==
  LET e == LowestEntry(Hits(b)) IN
  /\ stage[t] = "idle" /\ Hits(b) # {} /\ blocks[e].hit < MaxHits
  /\ blocks' = [blocks EXCEPT ![e].ref = @ + 1, ![e].hit = @ + 1]
  /\ want' = [want EXCEPT ![t] = b] /\ at' = [at EXCEPT ![t] = e]
  /\ stage' = [stage EXCEPT ![t] = "waiting"]
  /\ UNCHANGED block_mutex

\* With no entry to replace, kpanic("cache is full").
CacheMiss(t, b) ==
  /\ stage[t] = "idle" /\ Hits(b) = {} /\ Unreferenced # {}
  /\ blocks' = [blocks EXCEPT ![Victim] =
       [block |-> b, ref |-> 1, hit |-> 1, is_valid |-> FALSE, data |-> NoData]]
  /\ block_mutex' = [block_mutex EXCEPT ![Victim] = NoReader]   \* thread_mutex_create
  /\ want' = [want EXCEPT ![t] = b] /\ at' = [at EXCEPT ![t] = Victim]
  /\ stage' = [stage EXCEPT ![t] = "waiting"]

\* thread_mutex_acquire(&(b->mutex)), which may wait.
MutexAcquire(t) ==
  /\ stage[t] = "waiting" /\ block_mutex[at[t]] = NoReader
  /\ block_mutex' = [block_mutex EXCEPT ![at[t]] = t]
  /\ stage' = [stage EXCEPT ![t] = "holding"]
  /\ UNCHANGED <<blocks, want, at>>

\* What the data of an entry is after ata_pio_read, which may fail.
gen_ata_read_block(e, ok) == IF ok THEN blocks[e].block ELSE blocks[e].data

\* The drive is asked once, and the entry is valid also if it reported an
\* error.  gen_ata_bd_write has no caller.
gen_ata_bd_read(t, ok) ==
  /\ stage[t] = "holding" /\ ~blocks[at[t]].is_valid
  /\ blocks' = [blocks EXCEPT ![at[t]] =
       [@ EXCEPT !.is_valid = TRUE, !.data = gen_ata_read_block(at[t], ok)]]
  /\ UNCHANGED <<block_mutex, want, at, stage>>

\* gen_ata_bd_unlock: the mutex, then the reference.
MutexRelease(t) ==
  /\ stage[t] = "holding"
  /\ block_mutex' = [block_mutex EXCEPT ![at[t]] = NoReader]
  /\ stage' = [stage EXCEPT ![t] = "unref"]
  /\ UNCHANGED <<blocks, want, at>>

Unreference(t) ==
  /\ stage[t] = "unref"
  /\ blocks' = [blocks EXCEPT ![at[t]].ref = @ - 1]
  /\ at' = [at EXCEPT ![t] = 0]
  /\ stage' = [stage EXCEPT ![t] = "idle"]
  /\ UNCHANGED <<block_mutex, want>>

BlockCacheNext ==
  \E t \in Readers :
    \/ \E b \in BlockIds : CacheHit(t, b) \/ CacheMiss(t, b)
    \/ MutexAcquire(t)
    \/ \E ok \in BOOLEAN : gen_ata_bd_read(t, ok)
    \/ MutexRelease(t) \/ Unreference(t)

BlockCacheSpec == BlockCacheInit /\ [][BlockCacheNext]_cacheVars

-----------------------------------------------------------------------------

(* "Returns an index valid until unlock" (block.h): from the look-up until  *)
(* the reference is given back, the entry a thread was given is for the     *)
(* block it asked for.  The reference, not the mutex, protects it: an entry *)
(* has one for every thread between the two.                                *)
IndexValidUntilUnlock ==
  /\ \A t \in Readers : at[t] # 0 => blocks[at[t]].block = want[t]
  /\ \A e \in CacheEntries : blocks[e].ref = Cardinality({t \in Readers : at[t] = e})

(* A valid entry has the data of its own block, or zeroes when the drive    *)
(* reported an error; never what an evicted block left behind.              *)
DataOfOwnBlock ==
  \A e \in CacheEntries : blocks[e].is_valid => blocks[e].data \in {blocks[e].block, NoData}

(* The two together: the index gen_ata_bd_lock returns leads to the data of *)
(* the block that was asked for, until unlock.                              *)
EntriesSound == IndexValidUntilUnlock /\ DataOfOwnBlock

\* The thread that holds a block.
HoldersOf(b) == {t \in Readers : stage[t] = "holding" /\ want[t] = b}
AnyReader(S) == IF S = {} THEN NoReader ELSE CHOOSE t \in S : TRUE
HolderOf(b) == AnyReader(HoldersOf(b))

Locks == INSTANCE BlockLocks WITH
  Blocks <- BlockIds, Threads <- Readers, Nobody <- NoReader, owner <- [b \in BlockIds |-> HolderOf(b)]

(* Whatever is evicted and looked up in between, the cache implements one   *)
(* lock per block: no two threads ever hold the same block, be it through   *)
(* two entries or through one whose mutex was made anew.                    *)
OneHolderPerBlock == Locks!BlockLocksSpec

==============================================================================
