---------------------------- MODULE BufferProofs -----------------------------
(***************************************************************************)
(* Proofs about buffers that threads share: the buffer of bytes            *)
(* (ExclusiveBuffer) and the cache of disk blocks (BlockCache), for any    *)
(* number of threads, bytes, blocks and entries.                           *)
(***************************************************************************)
EXTENDS ExclusiveBuffer, BlockCache, FiniteSetTheorems, WellFoundedInduction, TLAPS

\* The time the provers have for a step.
USE ZenonT(60)

-----------------------------------------------------------------------------

Less == {d \in Nat \X Nat : d[1] < d[2]}

(* Naturals do not descend for ever.                                        *)
LEMMA LessWellFounded == IsWellFoundedOn(Less, Nat)
<1>1. IsWellFoundedOn(OpToRel(<, Nat), Nat)
  BY ONLY NatLessThanWellFounded
<1>2. OpToRel(<, Nat) = Less
  BY ONLY ZenonT(60) DEF OpToRel, Less
<1> QED
  BY ONLY <1>1, <1>2

(* Hence a set of numbers that is not empty has a least member.             *)
LEMMA LeastNatural ==
  ASSUME NEW S \in SUBSET Nat, S # {}
  PROVE  \E n \in S : \A m \in S : n <= m
<1>1. PICK n \in S : \A m \in S : ~(<<m, n>> \in Less)
  BY LessWellFounded, WFMin
<1>2. ASSUME NEW m \in S PROVE n <= m
  <2>1. m \in Nat /\ n \in Nat
    OBVIOUS
  <2>2. m < n => <<m, n>> \in Less
    BY <2>1 DEF Less
  <2> QED BY <1>1, <2>1, <2>2, SMTT(30)
<1> QED BY <1>2

-----------------------------------------------------------------------------
(***************************************************************************)
(* ExclusiveBuffer, for any number of threads that make any of its calls,  *)
(* any size of the buffer and any sizes passed.                            *)
(***************************************************************************)

-----------------------------------------------------------------------------
\* The data: what Take, Put and unsafe_move_head do to them.

DataType ==
  /\ buffer \in [0..(Size - 1) -> Bytes]
  /\ tail \in 0..Size /\ head \in 0..tail
  /\ accepted \in Bytes /\ delivered \in Bytes

Queue ==
  /\ \A i \in 0..(Length - 1) : buffer[head + i] = Nth(delivered + i)
  /\ accepted = Nth(delivered + Length)

(* Numbers are counted round: m and then k bytes on is m + k bytes on.      *)
LEMMA NthOfNth ==
  ASSUME NEW a \in Bytes, NEW m \in Nat, NEW k \in Nat, m + k <= Size
  PROVE  Nth(a + m) \in Bytes /\ Nth(Nth(a + m) + k) = Nth(a + (m + k))
  BY BufferAssumption, SMTT(30) DEF Bytes, Nth

(* Bytes are read from the head.                                            *)
LEMMA TakeKeeps ==
  ASSUME DataType, NEW n \in 0..Length, Take(n)
  PROVE  DataType' /\ (Queue => Queue') /\ Length' = Length - n
<1> USE BufferAssumption
<1>1. /\ head \in Nat /\ tail \in Nat /\ head + n <= tail /\ tail <= Size
      /\ head' = head + n /\ tail' = tail /\ buffer' = buffer /\ n \in Nat
      /\ accepted' = accepted /\ delivered' = Nth(delivered + n) /\ delivered \in Bytes
  BY SMTT(30) DEF DataType, Take, Length
<1>2. delivered' \in Bytes
  BY <1>1, NthOfNth, SMTT(30)
<1>3. DataType'
  BY <1>1, <1>2, SMTT(30) DEF DataType
<1>4. Length' = Length - n
  BY <1>1, SMTT(30) DEF Length
<1>5. ASSUME Queue PROVE Queue'
  <2>1. ASSUME NEW i \in 0..(Length' - 1)
        PROVE  buffer'[head' + i] = Nth(delivered' + i)
    <3>1. n + i \in 0..(Length - 1) /\ i \in Nat /\ n + i <= Size
      BY <1>1, <1>4, SMTT(30) DEF Length
    <3>2. buffer[head + (n + i)] = Nth(delivered + (n + i))
      BY <1>5, <3>1 DEF Queue
    <3>3. Nth(delivered' + i) = Nth(delivered + (n + i))
      BY <1>1, <3>1, NthOfNth
    <3>4. head' + i = head + (n + i)
      BY <1>1, <3>1, SMTT(30)
    <3> QED
      BY <1>1, <3>2, <3>3, <3>4
  <2>2. accepted' = Nth(delivered' + Length')
    <3>1. Length' \in Nat /\ n + Length' = Length /\ Length <= Size
      BY <1>1, <1>4, SMTT(30) DEF Length
    <3>2. Nth(delivered' + Length') = Nth(delivered + Length)
      BY <1>1, <3>1, NthOfNth, SMTT(30)
    <3> QED
      BY <1>1, <1>5, <3>2 DEF Queue
  <2> QED
    BY <2>1, <2>2 DEF Queue
<1> QED
  BY <1>3, <1>4, <1>5

(* Moving the contents to the start of the array does not change them.      *)
LEMMA MovedTo ==
  ASSUME DataType
  PROVE  /\ Moved \in [0..(Size - 1) -> Bytes]
         /\ \A i \in 0..(Length - 1) : Moved[i] = buffer[head + i]
<1>1. head \in Nat /\ tail \in Nat /\ head <= tail /\ tail <= Size /\ Size \in Nat
  BY BufferAssumption, SMTT(30) DEF DataType
<1>2. \A i \in 0..(Size - 1) : i < Length => head + i \in 0..(Size - 1)
  BY <1>1, SMTT(30) DEF Length
<1>3. \A i \in 0..(Length - 1) : i \in 0..(Size - 1) /\ i < Length
  BY <1>1, SMTT(30) DEF Length
<1> QED
  BY <1>1, <1>2, <1>3 DEF Moved, DataType

(* Bytes are written behind the contents, where there is room for them.     *)
LEMMA PutKeeps ==
  ASSUME DataType, NEW n \in 0..(Size - Length), Put(n)
  PROVE  DataType' /\ (Queue => Queue') /\ Length' = Length + n
<1> USE BufferAssumption
<1>1. /\ head \in Nat /\ tail \in Nat /\ head <= tail /\ tail <= Size
      /\ Length \in Nat /\ n \in Nat /\ Length + n <= Size
      /\ accepted \in Bytes /\ delivered \in Bytes
  BY SMTT(30) DEF DataType, Length
<1>2. /\ buffer' = [i \in 0..(Size - 1) |->
           IF i \in Length..(Length + n - 1) THEN Nth(accepted + i - Length) ELSE Moved[i]]
      /\ head' = 0 /\ tail' = Length + n
      /\ accepted' = Nth(accepted + n) /\ delivered' = delivered
  BY DEF Put
<1>3. Length' = Length + n
  BY <1>1, <1>2, SMTT(30) DEF Length
<1>4. \A i \in Length..(Length + n - 1) :
        i - Length \in Nat /\ i - Length < n /\ accepted + i - Length = accepted + (i - Length)
  BY <1>1, SMTT(30) DEF Bytes
<1>5. \A i \in Length..(Length + n - 1) : Nth(accepted + i - Length) \in Bytes
  <2> SUFFICES ASSUME NEW i \in Length..(Length + n - 1) PROVE Nth(accepted + i - Length) \in Bytes
    OBVIOUS
  <2>1. i - Length \in Nat /\ i - Length + 0 <= Size
    BY <1>1, <1>4, SMTT(30)
  <2>2. Nth(accepted + (i - Length)) \in Bytes
    BY <1>1, <2>1, NthOfNth
  <2> QED
    BY <1>4, <2>2
<1>6. DataType'
  <2>1. buffer' \in [0..(Size - 1) -> Bytes]
    BY <1>2, <1>5, MovedTo
  <2>2. accepted' \in Bytes
    BY <1>1, <1>2, NthOfNth, SMTT(30)
  <2> QED
    BY <1>1, <1>2, <2>1, <2>2, SMTT(30) DEF DataType
<1>7. ASSUME Queue PROVE Queue'
  <2>1. ASSUME NEW i \in 0..(Length' - 1)
        PROVE  buffer'[head' + i] = Nth(delivered' + i)
    <3>1. i \in Nat /\ i < Length + n /\ i \in 0..(Size - 1) /\ head' + i = i
      BY <1>1, <1>2, <1>3, SMTT(30)
    <3>2. CASE i < Length
      <4>1. i \in 0..(Length - 1) /\ i \notin Length..(Length + n - 1)
        BY <1>1, <3>1, <3>2, SMTT(30)
      <4>2. buffer'[i] = buffer[head + i]
        BY <1>2, <3>1, <4>1, MovedTo
      <4> QED
        BY <1>2, <1>7, <3>1, <4>1, <4>2 DEF Queue
    <3>3. CASE ~(i < Length)
      <4>1. i \in Length..(Length + n - 1)
        BY <1>1, <3>1, <3>3, SMTT(30)
      <4>2. buffer'[i] = Nth(accepted + (i - Length))
        BY <1>2, <1>4, <3>1, <4>1
      <4>3. accepted = Nth(delivered + Length)
        BY <1>7 DEF Queue
      <4>4. i - Length \in Nat /\ Length + (i - Length) = i /\ i <= Size
        BY <1>1, <3>1, <4>1, SMTT(30)
      <4>5. Nth(Nth(delivered + Length) + (i - Length)) = Nth(delivered + i)
        BY <1>1, <4>4, NthOfNth, SMTT(30)
      <4> QED
        BY <1>2, <3>1, <4>2, <4>3, <4>5
    <3> QED
      BY <3>2, <3>3
  <2>2. accepted' = Nth(delivered' + Length')
    <3>1. accepted = Nth(delivered + Length)
      BY <1>7 DEF Queue
    <3>2. Nth(Nth(delivered + Length) + n) = Nth(delivered + (Length + n))
      BY <1>1, NthOfNth
    <3> QED
      BY <1>2, <1>3, <3>1, <3>2
  <2> QED
    BY <2>1, <2>2 DEF Queue
<1> QED
  BY <1>3, <1>6, <1>7

(* unsafe_move_head keeps the queue.                                        *)
LEMMA MoveKeeps ==
  ASSUME DataType, unsafe_move_head, accepted' = accepted, delivered' = delivered
  PROVE  DataType' /\ (Queue => Queue') /\ Length' = Length
<1>1. head \in Nat /\ tail \in Nat /\ head <= tail /\ tail <= Size /\ Size \in Nat
  BY BufferAssumption, SMTT(30) DEF DataType
<1>2. buffer' = Moved /\ head' = 0 /\ tail' = Length
  BY DEF unsafe_move_head
<1>3. Length' = Length /\ Length \in 0..Size
  BY <1>1, <1>2, SMTT(30) DEF Length
<1>4. DataType'
  BY <1>1, <1>2, <1>3, MovedTo, SMTT(30) DEF DataType
<1>5. ASSUME Queue PROVE Queue'
  <2>1. ASSUME NEW i \in 0..(Length' - 1)
        PROVE  buffer'[head' + i] = Nth(delivered' + i)
    <3>1. i \in 0..(Length - 1) /\ head' + i = i
      BY <1>2, <1>3, SMTT(30)
    <3> QED
      BY <1>2, <1>5, <3>1, MovedTo DEF Queue
  <2> QED
    BY <1>3, <1>5, <2>1 DEF Queue
<1> QED
  BY <1>3, <1>4, <1>5

-----------------------------------------------------------------------------
\* The control: who has the mutex, and who still has bytes to move.

Labels == {"out", "enter", "in", "again", "waiting", "notified", "notify", "locked", "freed"}

ControlType ==
  /\ eof \in BOOLEAN /\ multi_lock \in BOOLEAN
  /\ mutex \in Threads \cup {None}
  /\ calls \in [Threads -> SUBSET AllCalls]
  /\ pc \in [Threads -> Labels]
  /\ call \in [Threads -> AllCalls]
  /\ left \in [Threads -> 0..MaxCount]

HoldsMutex == \A t \in Threads : pc[t] \in {"in", "again", "locked", "freed"} => mutex = t

\* Between eb_lock and eb_unlock there are only try calls.
MultiHeld ==
  multi_lock => /\ mutex \in Threads
                /\ \/ pc[mutex] = "locked"
                   \/ pc[mutex] \in {"in", "notify"} /\ call[mutex] \in {"try_read", "try_write"}

LeftToDo ==
  \A t \in Threads :
    pc[t] \in {"enter", "waiting", "notified"} /\ call[t] \in {"read", "write"} => left[t] > 0

Control == ControlType /\ HoldsMutex /\ MultiHeld /\ LeftToDo

(* Who has the mutex is alone inside.                                       *)
LEMMA AloneInside ==
  ASSUME Control, NEW t \in Threads, pc[t] \in {"in", "again", "locked", "freed"}
  PROVE  /\ mutex = t
         /\ \A u \in Threads \ {t} : pc[u] \notin {"in", "again", "locked", "freed"}
  BY DEF Control, HoldsMutex

(* The steps that only move a thread along.                                 *)
LEMMA ControlOfMoves ==
  ASSUME Control, NEW t \in Threads,
         Start(t) \/ Enter(t) \/ Notify(t) \/ eb_lock(t) \/ eb_unlock(t) \/ eb_free(t) \/ eb_flush(t)
  PROVE  Control'
<1> USE BufferAssumption DEF Control, ControlType, HoldsMutex, MultiHeld, LeftToDo, Labels, Goto, data
<1>1. CASE Start(t)
  <2>1. PICK cl \in calls[t], n \in 1..MaxCount :
          /\ \/ pc[t] = "out" /\ Goto(t, "enter")
             \/ pc[t] = "locked" /\ cl \in {"try_read", "try_write"} /\ Goto(t, "in")
          /\ call' = [call EXCEPT ![t] = cl]
          /\ left' = [left EXCEPT ![t] = IF cl \in {"flush", "lock", "free"} THEN 0 ELSE n]
    BY <1>1 DEF Start
  <2>2. /\ calls' = calls /\ mutex' = mutex /\ multi_lock' = multi_lock /\ eof' = eof
        /\ cl \in AllCalls
    BY <1>1 DEF Start
  <2> QED
    BY <2>1, <2>2, SMTT(30)
<1>2. CASE Enter(t)
  BY <1>2 DEF Enter
<1>3. CASE Notify(t)
  <2> DEFINE next == IF mutex = t THEN "locked" ELSE "out"
  <2>1. /\ pc[t] = "notify" /\ UNCHANGED <<calls, eof, mutex, multi_lock, call, left>>
        /\ \/ Goto(t, next)
           \/ \E u \in Threads : pc[u] = "waiting" /\ pc' = [pc EXCEPT ![t] = next, ![u] = "notified"]
    BY <1>3 DEF Notify
  <2>2. CASE Goto(t, next)
    BY <2>1, <2>2
  <2>3. ASSUME NEW u \in Threads, pc[u] = "waiting", pc' = [pc EXCEPT ![t] = next, ![u] = "notified"]
        PROVE  Control'
    <3>1. u # t
      BY <2>1, <2>3
    <3>2. pc'[t] = next /\ pc'[u] = "notified" /\ \A v \in Threads \ {t, u} : pc'[v] = pc[v]
      BY <2>3, <3>1
    <3>3. pc' \in [Threads -> Labels]
      BY <2>3
    <3> QED
      BY <2>1, <2>3, <3>1, <3>2, <3>3, SMTT(30)
  <2> QED
    BY <2>1, <2>2, <2>3
<1>4. CASE eb_lock(t)
  BY <1>4 DEF eb_lock
<1>5. CASE eb_unlock(t)
  BY <1>5 DEF eb_unlock
<1>6. CASE eb_free(t)
  BY <1>6 DEF eb_free
<1>7. CASE eb_flush(t)
  BY <1>7, SMTT(30) DEF eb_flush, Leave, Wait
<1> QED
  BY <1>1, <1>2, <1>3, <1>4, <1>5, <1>6, <1>7

(* The sizes that are moved at a time fit both sides.                       *)
LEMMA Amounts ==
  ASSUME DataType, NEW n \in 0..MaxCount
  PROVE  /\ Lesser(Length, n) \in 0..Length /\ n - Lesser(Length, n) \in 0..MaxCount
         /\ Room(n) \in 0..(Size - Length) /\ n - Room(n) \in 0..MaxCount
         /\ n > 0 /\ Length # Size => Room(n) > 0
  BY BufferAssumption, SMTT(30) DEF DataType, Length, Lesser, Room

(* The steps that read.                                                     *)
LEMMA ControlOfReads ==
  ASSUME Control, DataType, NEW t \in Threads, eb_try_read(t) \/ ReadLoop(t) \/ ReadDone(t)
  PROVE  Control'
<1> USE BufferAssumption DEF Control, ControlType, HoldsMutex, MultiHeld, LeftToDo, Labels, Goto,
                             Leave, Wait
<1>1. left[t] \in 0..MaxCount
  OBVIOUS
<1>2. CASE eb_try_read(t)
  <2>1. eof' \in BOOLEAN
    BY <1>2 DEF eb_try_read, data
  <2>2. \E changed \in BOOLEAN : Leave(t, changed)
    BY <1>2 DEF eb_try_read
  <2>3. /\ pc[t] = "in" /\ call[t] = "try_read" /\ mutex = t
        /\ UNCHANGED <<calls, multi_lock, call, left>>
    BY <1>2 DEF eb_try_read
  <2> QED
    BY <2>1, <2>2, <2>3
<1>3. CASE ReadLoop(t)
  <2>1. CASE eof
    BY <1>3, <2>1 DEF ReadLoop, data
  <2>2. CASE ~eof
    <3>1. left[t] - Lesser(Length, left[t]) \in 0..MaxCount
      BY <1>1, Amounts
    <3>2. /\ left' = [left EXCEPT ![t] = left[t] - Lesser(Length, left[t])]
          /\ pc[t] \in {"in", "again"}
          /\ UNCHANGED <<eof, mutex, pc, calls, multi_lock, call>>
      BY <1>3, <2>2 DEF ReadLoop
    <3> HIDE DEF Leave, Wait
    <3> QED
      BY <3>1, <3>2
  <2> QED
    BY <2>1, <2>2
<1>4. CASE ReadDone(t)
  BY <1>4 DEF ReadDone
<1> QED
  BY <1>2, <1>3, <1>4

(* The steps that write.                                                    *)
LEMMA ControlOfWrites ==
  ASSUME Control, DataType, NEW t \in Threads,
         eb_try_write(t) \/ WriteWait(t) \/ WriteBatch(t) \/ WriteDone(t)
  PROVE  Control'
<1> USE BufferAssumption DEF Control, ControlType, HoldsMutex, MultiHeld, LeftToDo, Labels, Goto,
                             Leave, Wait
<1>1. left[t] \in 0..MaxCount
  OBVIOUS
<1>2. CASE eb_try_write(t)
  <2>1. eof' \in BOOLEAN
    BY <1>2 DEF eb_try_write
  <2>2. \E changed \in BOOLEAN : Leave(t, changed)
    BY <1>2 DEF eb_try_write
  <2>3. /\ pc[t] = "in" /\ call[t] = "try_write" /\ mutex = t
        /\ UNCHANGED <<calls, multi_lock, call, left>>
    BY <1>2 DEF eb_try_write
  <2> QED
    BY <2>1, <2>2, <2>3
<1>3. CASE WriteWait(t)
  BY <1>3 DEF WriteWait
<1>4. CASE WriteBatch(t)
  <2>1. left[t] - Room(left[t]) \in 0..MaxCount
    BY <1>1, Amounts
  <2>2. /\ left' = [left EXCEPT ![t] = left[t] - Room(left[t])]
        /\ pc[t] \in {"in", "again"} /\ call[t] = "write"
        /\ pc' = [pc EXCEPT ![t] = "in"]
        /\ UNCHANGED <<eof, mutex, calls, multi_lock, call>>
    BY <1>4 DEF WriteBatch
  <2> QED
    BY <2>1, <2>2
<1>5. CASE WriteDone(t)
  BY <1>5 DEF WriteDone
<1> QED
  BY <1>2, <1>3, <1>4, <1>5

-----------------------------------------------------------------------------
\* Every step keeps the queue.

NotFreed == \A t \in Threads : pc[t] # "freed"

(* A freed buffer stays so.                                                 *)
LEMMA FreedStays ==
  ASSUME Control, NEW t \in Threads, Start(t) \/ Step(t), NEW u \in Threads, pc[u] = "freed"
  PROVE  pc'[u] = "freed"
<1> USE DEF Control, ControlType, Goto, Leave, Wait
<1>1. CASE Start(t) \/ Enter(t) \/ eb_lock(t) \/ eb_unlock(t) \/ eb_free(t) \/ eb_flush(t)
  BY <1>1 DEF Start, Enter, eb_lock, eb_unlock, eb_free, eb_flush
<1>2. CASE Notify(t)
  BY <1>2 DEF Notify
<1>3. CASE eb_try_read(t) \/ ReadLoop(t) \/ ReadDone(t)
  BY <1>3 DEF eb_try_read, ReadLoop, ReadDone
<1>4. CASE eb_try_write(t) \/ WriteWait(t) \/ WriteBatch(t) \/ WriteDone(t)
  BY <1>4 DEF eb_try_write, WriteWait, WriteBatch, WriteDone
<1> QED
  BY <1>1, <1>2, <1>3, <1>4 DEF Step

(* The queue is kept by every step but eb_free.                             *)
LEMMA DataKept ==
  ASSUME Control, DataType, Fifo, NEW t \in Threads, Start(t) \/ Step(t)
  PROVE  DataType' /\ Fifo'
<1> DEFINE Unmoved == UNCHANGED <<buffer, head, tail, accepted, delivered>>
<1>1. ASSUME Unmoved PROVE DataType' /\ (Queue => Queue')
  BY <1>1 DEF DataType, Queue, Length
<1>2. left[t] \in 0..MaxCount
  BY DEF Control, ControlType
<1>3. DataType' /\ (Queue => Queue' \/ eb_free(t))
  <2>1. CASE Start(t) \/ Enter(t) \/ Notify(t) \/ eb_lock(t) \/ eb_unlock(t) \/ eb_flush(t)
    <3>1. Unmoved
      BY <2>1 DEF Start, Enter, Notify, eb_lock, eb_unlock, eb_flush, data
    <3> QED
      BY <1>1, <3>1
  <2>2. CASE eb_free(t)
    BY <2>2, BufferAssumption, SMTT(30) DEF eb_free, DataType
  <2>3. CASE ReadDone(t) \/ WriteDone(t)
    <3>1. Unmoved
      BY <2>3 DEF ReadDone, WriteDone
    <3> QED
      BY <1>1, <3>1
  <2>4. CASE eb_try_read(t) \/ ReadLoop(t)
    <3>1. CASE eof
      <4>1. Unmoved
        BY <2>4, <3>1 DEF eb_try_read, ReadLoop, data
      <4> QED
        BY <1>1, <4>1
    <3>2. CASE ~eof
      <4>1. Take(Lesser(Length, left[t]))
        BY <2>4, <3>2 DEF eb_try_read, ReadLoop
      <4> QED
        BY <1>2, <4>1, Amounts, TakeKeeps
    <3> QED
      BY <3>1, <3>2
  <2>5. CASE eb_try_write(t) \/ WriteBatch(t)
    <3>1. Put(Room(left[t]))
      BY <2>5 DEF eb_try_write, WriteBatch
    <3> QED
      BY <1>2, <3>1, Amounts, PutKeeps
  <2>6. CASE WriteWait(t)
    <3>1. /\ unsafe_move_head \/ UNCHANGED <<buffer, head, tail>>
          /\ accepted' = accepted /\ delivered' = delivered
      BY <2>6 DEF WriteWait
    <3> QED
      BY <1>1, <3>1, MoveKeeps
  <2> QED
    BY <2>1, <2>2, <2>3, <2>4, <2>5, <2>6 DEF Step
<1>4. Fifo'
  <2>1. Fifo' <=> (NotFreed' => Queue')
    BY DEF Fifo, NotFreed, Queue, Length
  <2>2. NotFreed => Queue
    BY DEF Fifo, NotFreed, Queue
  <2>3. NotFreed' => NotFreed
    BY FreedStays DEF NotFreed
  <2>4. eb_free(t) => ~NotFreed'
    BY DEF eb_free, NotFreed, Goto, Control, ControlType
  <2> QED
    BY <1>3, <2>1, <2>2, <2>3, <2>4
<1> QED
  BY <1>3, <1>4

-----------------------------------------------------------------------------
\* The flag: it may be wrong only while somebody is inside a read or a write,
\* or waits for room in the middle of its data.

Inside(t, cl) == pc[t] \in {"in", "again"} /\ call[t] = cl

NobodyWriting == \A t \in Threads : ~Writing(t)
NobodyInside == \A t \in Threads : ~Inside(t, "read") /\ ~Inside(t, "write")

EofInv ==
  /\ NobodyWriting /\ NobodyInside /\ NotFreed => (eof <=> head = tail)
  /\ \A t \in Threads : Inside(t, "read") => /\ left[t] = 0 => ~eof
                                             /\ eof /\ NobodyWriting => head = tail
  /\ \A t \in Threads : call[t] = "write" /\ pc[t] = "in" /\ left[t] = 0 => head # tail

(* The flag is as good as before when no thread goes in or out and the data *)
(* stay.                                                                    *)
LEMMA EofUntouched ==
  ASSUME EofInv, UNCHANGED <<eof, head, tail>>, NobodyWriting' => NobodyWriting,
         NobodyInside' => NobodyInside, NotFreed' => NotFreed,
         \A t \in Threads : Inside(t, "read")' => Inside(t, "read") /\ left'[t] = left[t],
         \A t \in Threads : (call[t] = "write" /\ pc[t] = "in" /\ left[t] = 0)' =>
                              (call[t] = "write" /\ pc[t] = "in" /\ left[t] = 0)
  PROVE  EofInv'
  BY DEF EofInv

(* The flag is right when somebody who was inside has left, with the flag   *)
(* set to what the data say.                                                *)
LEMMA EofOfLeaving ==
  ASSUME Control, NEW t \in Threads, pc[t] \in {"in", "again", "locked", "freed"},
         pc'[t] \notin {"in", "again"}, \A u \in Threads \ {t} : pc'[u] = pc[u],
         NobodyWriting' /\ NotFreed' => (eof' <=> head' = tail')
  PROVE  EofInv'
<1>1. \A u \in Threads : pc'[u] \notin {"in", "again"}
  BY AloneInside
<1> QED
  BY <1>1 DEF EofInv, Inside

(* Threads that make a call, get the mutex or are notified.                 *)
LEMMA EofOfMoves ==
  ASSUME Control, EofInv, NEW t \in Threads, Start(t) \/ Enter(t) \/ Notify(t)
  PROVE  EofInv'
<1> USE DEF Control, ControlType
<1>1. CASE Start(t)
  <2>1. /\ UNCHANGED <<eof, head, tail>>
        /\ \A u \in Threads \ {t} : pc'[u] = pc[u] /\ call'[u] = call[u] /\ left'[u] = left[u]
        /\ \/ pc[t] = "out" /\ pc'[t] = "enter"
           \/ pc[t] = "locked" /\ pc'[t] = "in" /\ call'[t] \in {"try_read", "try_write"}
    BY <1>1 DEF Start, Goto, data
  <2>2. \A u \in Threads : Writing(u) => Writing(u)'
    BY <2>1 DEF Writing
  <2>3. \A u \in Threads, cl \in {"read", "write"} : Inside(u, cl)' <=> Inside(u, cl)
    BY <2>1 DEF Inside
  <2>4. /\ NobodyWriting' => NobodyWriting
        /\ NobodyInside' => NobodyInside
        /\ NotFreed' => NotFreed
    BY <2>1, <2>2, <2>3 DEF NobodyWriting, NobodyInside, NotFreed
  <2>5. \A u \in Threads : Inside(u, "read")' => Inside(u, "read") /\ left'[u] = left[u]
    BY <2>1, <2>3 DEF Inside
  <2>6. \A u \in Threads : (call[u] = "write" /\ pc[u] = "in" /\ left[u] = 0)' =>
                             (call[u] = "write" /\ pc[u] = "in" /\ left[u] = 0)
    BY <2>1
  <2> QED
    BY <2>1, <2>4, <2>5, <2>6, EofUntouched
<1>2. CASE Enter(t)
  <2>1. /\ UNCHANGED <<eof, head, tail, call, left>> /\ mutex = None
        /\ pc[t] \in {"enter", "notified"}
        /\ pc'[t] = (IF pc[t] = "enter" THEN "in" ELSE "again")
        /\ \A u \in Threads \ {t} : pc'[u] = pc[u]
    BY <1>2 DEF Enter, Goto, data
  <2>2. NobodyInside /\ NotFreed
    BY <2>1, BufferAssumption DEF NobodyInside, NotFreed, Inside, HoldsMutex
  <2>3. NobodyWriting => (eof <=> head = tail)
    BY <2>2 DEF EofInv
  <2>4. \A u \in Threads : Writing(u)' \/ ~Writing(u) \/ (u = t /\ call[t] = "write")
    BY <2>1 DEF Writing
  <2>5. CASE call[t] = "write"
    <3>1. ~NobodyInside'
      BY <2>1, <2>5 DEF NobodyInside, Inside
    <3>2. \A u \in Threads : ~Inside(u, "read")'
      BY <2>1, <2>2, <2>5 DEF NobodyInside, Inside
    <3>3. left[t] > 0
      BY <2>1, <2>5 DEF LeftToDo
    <3>4. \A u \in Threads : ~(call[u] = "write" /\ pc[u] = "in" /\ left[u] = 0)'
      BY <2>1, <2>2, <3>3, SMTT(30) DEF NobodyInside, Inside
    <3> QED
      BY <3>1, <3>2, <3>4 DEF EofInv
  <2>6. CASE call[t] # "write"
    <3>1. NobodyWriting' => NobodyWriting
      BY <2>4, <2>6 DEF NobodyWriting
    <3>2. NobodyWriting' => (eof' <=> head' = tail')
      BY <2>1, <2>3, <3>1
    <3>3. \A u \in Threads : Inside(u, "read")' => u = t /\ call[t] = "read"
      BY <2>1, <2>2 DEF NobodyInside, Inside
    <3>4. call[t] = "read" => left'[t] # 0
      BY <2>1, SMTT(30) DEF LeftToDo
    <3>5. \A u \in Threads : ~(call[u] = "write" /\ pc[u] = "in" /\ left[u] = 0)'
      BY <2>1, <2>2, <2>6 DEF NobodyInside, Inside
    <3> QED
      BY <3>2, <3>3, <3>4, <3>5 DEF EofInv
  <2> QED
    BY <2>5, <2>6
<1>3. CASE Notify(t)
  <2>1. /\ UNCHANGED <<eof, head, tail, call, left>> /\ pc[t] = "notify"
        /\ pc'[t] \in {"locked", "out"}
        /\ \A u \in Threads \ {t} : pc'[u] = pc[u] \/ (pc[u] = "waiting" /\ pc'[u] = "notified")
    BY <1>3 DEF Notify, Goto, data
  <2>2. /\ NobodyWriting' => NobodyWriting
        /\ NobodyInside' => NobodyInside
        /\ NotFreed' => NotFreed
    BY <2>1 DEF NobodyWriting, NobodyInside, NotFreed, Writing, Inside
  <2>3. \A u \in Threads : Inside(u, "read")' => Inside(u, "read") /\ left'[u] = left[u]
    BY <2>1 DEF Inside
  <2>4. \A u \in Threads : (call[u] = "write" /\ pc[u] = "in" /\ left[u] = 0)' =>
                             (call[u] = "write" /\ pc[u] = "in" /\ left[u] = 0)
    BY <2>1
  <2> QED
    BY <2>1, <2>2, <2>3, <2>4, EofUntouched
<1> QED
  BY <1>1, <1>2, <1>3

(* Calls that neither read nor write find the flag right and leave it so.   *)
LEMMA EofOfOthers ==
  ASSUME Control, EofInv, NEW t \in Threads,
         eb_lock(t) \/ eb_unlock(t) \/ eb_free(t) \/ eb_flush(t)
  PROVE  EofInv'
<1> USE DEF Control, ControlType
<1>1. /\ pc[t] \in {"in", "again", "locked"} /\ pc[t] # "freed"
      /\ pc[t] = "locked" \/ call[t] \notin {"read", "write"}
      /\ pc'[t] \notin {"in", "again"} /\ \A u \in Threads \ {t} : pc'[u] = pc[u]
      /\ eof' = eof /\ call' = call
      /\ pc'[t] # "freed" => head' = head /\ tail' = tail
  BY DEF eb_lock, eb_unlock, eb_free, eb_flush, Goto, Leave, Wait, data
<1>2. NobodyInside /\ NotFreed
  BY <1>1, AloneInside DEF NobodyInside, NotFreed, Inside
<1>3. NobodyWriting' => NobodyWriting
  BY <1>1 DEF NobodyWriting, Writing
<1>4. NobodyWriting' /\ NotFreed' => (eof' <=> head' = tail')
  BY <1>1, <1>2, <1>3 DEF EofInv, NotFreed
<1> QED
  BY <1>1, <1>4, EofOfLeaving

(* What a reader inside knows of the flag.                                  *)
LEMMA EofForReader ==
  ASSUME EofInv, NEW t \in Threads, Inside(t, "read")
  PROVE  /\ left[t] = 0 => ~eof
         /\ eof /\ NobodyWriting => head = tail
  BY DEF EofInv

(* Readers set the flag exactly, once they have all they asked for.         *)
LEMMA EofOfReads ==
  ASSUME Control, DataType, EofInv, NEW t \in Threads, eb_try_read(t) \/ ReadLoop(t) \/ ReadDone(t)
  PROVE  EofInv'
<1> USE DEF Control, ControlType
<1>1. pc[t] \in {"in", "again"} /\ call' = call /\ \A u \in Threads \ {t} : pc'[u] = pc[u]
  BY DEF eb_try_read, ReadLoop, ReadDone, Goto, Leave, Wait
<1>2. NotFreed /\ \A u \in Threads \ {t} : pc[u] \notin {"in", "again"}
  BY <1>1, AloneInside DEF NotFreed
<1>3. call[t] # "write" => (NobodyWriting' => NobodyWriting)
  BY <1>1 DEF NobodyWriting, Writing
<1>4. CASE eb_try_read(t)
  <2>1. pc'[t] \notin {"in", "again"} /\ call[t] = "try_read"
    BY <1>4 DEF eb_try_read, Goto, Leave
  <2>2. CASE eof
    <3>1. UNCHANGED <<eof, head, tail>>
      BY <1>4, <2>2 DEF eb_try_read, data
    <3>2. NobodyInside
      BY <1>2, <2>1 DEF NobodyInside, Inside
    <3>3. NobodyWriting' => (eof' <=> head' = tail')
      BY <1>2, <1>3, <2>1, <3>1, <3>2 DEF EofInv
    <3> QED
      BY <1>1, <2>1, <3>3, EofOfLeaving
  <2>3. CASE ~eof
    <3>1. eof' <=> head' = tail'
      BY <1>4, <2>3 DEF eb_try_read, Take
    <3> QED
      BY <1>1, <2>1, <3>1, EofOfLeaving
  <2> QED
    BY <2>2, <2>3
<1>5. CASE ReadLoop(t)
  <2>1. Inside(t, "read") /\ call[t] = "read"
    BY <1>5 DEF ReadLoop, Inside
  <2>2. CASE eof
    <3>1. UNCHANGED <<eof, head, tail>> /\ pc'[t] \notin {"in", "again"}
      BY <1>5, <2>2 DEF ReadLoop, data, Wait, Goto
    <3>2. NobodyWriting => head = tail
      BY <2>1, <2>2, EofForReader
    <3>3. NobodyWriting' => (eof' <=> head' = tail')
      BY <1>3, <2>1, <2>2, <3>1, <3>2
    <3> QED
      BY <1>1, <3>1, <3>3, EofOfLeaving
  <2>3. CASE ~eof
    <3>1. eof' = eof /\ pc' = pc
      BY <1>5, <2>3 DEF ReadLoop
    <3>2. ~NobodyInside'
      BY <1>1, <2>1, <3>1 DEF NobodyInside, Inside
    <3>3. \A u \in Threads : ~(call[u] = "write" /\ pc[u] = "in" /\ left[u] = 0)'
      BY <1>1, <1>2, <2>1, <3>1
    <3> QED
      BY <2>3, <3>1, <3>2, <3>3 DEF EofInv
  <2> QED
    BY <2>2, <2>3
<1>6. CASE ReadDone(t)
  <2>1. /\ pc'[t] \notin {"in", "again"} /\ head' = head /\ tail' = tail
        /\ eof' = (eof \/ head = tail) /\ left[t] = 0 /\ Inside(t, "read")
    BY <1>6 DEF ReadDone, Goto, Leave, Inside
  <2>2. ~eof
    BY <2>1, EofForReader
  <2> QED
    BY <1>1, <2>1, <2>2, EofOfLeaving
<1> QED
  BY <1>4, <1>5, <1>6

(* Writers clear the flag when they have written something.                 *)
LEMMA EofOfWrites ==
  ASSUME Control, DataType, EofInv, NEW t \in Threads,
         eb_try_write(t) \/ WriteWait(t) \/ WriteBatch(t) \/ WriteDone(t)
  PROVE  EofInv'
<1> USE DEF Control, ControlType
<1>1. pc[t] \in {"in", "again"} /\ call' = call /\ \A u \in Threads \ {t} : pc'[u] = pc[u]
  BY DEF eb_try_write, WriteWait, WriteBatch, WriteDone, Goto, Leave, Wait
<1>2. NotFreed /\ \A u \in Threads \ {t} : pc[u] \notin {"in", "again"}
  BY <1>1, AloneInside DEF NotFreed
<1>3. left[t] \in 0..MaxCount /\ head \in Nat /\ tail \in Nat
  BY BufferAssumption, SMTT(30) DEF DataType
<1>4. CASE eb_try_write(t)
  <2>1. /\ pc'[t] \notin {"in", "again"} /\ call[t] = "try_write"
        /\ Put(Room(left[t])) /\ eof' = (eof /\ Room(left[t]) = 0)
    BY <1>4 DEF eb_try_write, Goto, Leave
  <2>2. NobodyInside
    BY <1>2, <2>1 DEF NobodyInside, Inside
  <2>3. NobodyWriting' => NobodyWriting
    BY <1>1, <2>1 DEF NobodyWriting, Writing
  <2>4. NobodyWriting' => (eof <=> head = tail)
    BY <1>2, <2>2, <2>3 DEF EofInv
  <2>5. Room(left[t]) \in Nat /\ head' = 0 /\ tail' = tail - head + Room(left[t])
    BY <1>3, <2>1, Amounts, SMTT(30) DEF Put, Length, DataType
  <2>6. head <= tail
    BY <1>3, SMTT(30) DEF DataType
  <2>7. head' = tail' <=> head = tail /\ Room(left[t]) = 0
    BY <1>3, <2>5, <2>6, SMTT(30)
  <2>8. NobodyWriting' => (eof' <=> head' = tail')
    BY <2>1, <2>4, <2>7
  <2> QED
    BY <1>1, <2>1, <2>8, EofOfLeaving
<1>5. CASE WriteWait(t)
  <2>1. pc'[t] = "waiting" /\ call'[t] = "write"
    BY <1>1, <1>5 DEF WriteWait, Wait, Goto
  <2>2. ~NobodyWriting'
    BY <2>1 DEF NobodyWriting, Writing
  <2> QED
    BY <1>1, <2>1, <2>2, EofOfLeaving
<1>6. CASE WriteBatch(t)
  <2>1. pc'[t] = "in" /\ call[t] = "write" /\ Put(Room(left[t])) /\ left[t] > 0 /\ Length # Size
    BY <1>3, <1>6, SMTT(30) DEF WriteBatch, Goto, Length, DataType
  <2>2. Room(left[t]) > 0 /\ Room(left[t]) \in Nat
    BY <1>3, <2>1, Amounts, SMTT(30) DEF Length, DataType
  <2>3. head' # tail'
    BY <1>3, <2>1, <2>2, SMTT(30) DEF Put, Length, DataType
  <2>4. ~NobodyInside'
    BY <1>1, <2>1 DEF NobodyInside, Inside
  <2>5. \A u \in Threads : ~Inside(u, "read")'
    BY <1>1, <1>2, <2>1 DEF Inside
  <2> QED
    BY <2>3, <2>4, <2>5 DEF EofInv
<1>7. CASE WriteDone(t)
  <2>1. /\ pc'[t] \notin {"in", "again"} /\ head' = head /\ tail' = tail /\ eof' = FALSE
        /\ call[t] = "write" /\ pc[t] = "in" /\ left[t] = 0
    BY <1>7 DEF WriteDone, Goto, Leave
  <2>2. head # tail
    BY <2>1 DEF EofInv
  <2> QED
    BY <1>1, <2>1, <2>2, EofOfLeaving
<1> QED
  BY <1>4, <1>5, <1>6, <1>7

-----------------------------------------------------------------------------

IInv == DataType /\ Fifo /\ Control /\ EofInv

(* IInv holds throughout.                                                   *)
LEMMA Invariance == Spec => []IInv
<1>1. Init => IInv
  <2> SUFFICES ASSUME Init PROVE IInv
    OBVIOUS
  <2>1. DataType
    BY BufferAssumption, SMTT(30) DEF Init, DataType, Bytes
  <2>2. Fifo
    BY BufferAssumption, SMTT(30) DEF Init, Fifo, Length, Nth
  <2>3. Control
    <3>1. calls \in [Threads -> SUBSET AllCalls]
      BY BufferAssumption DEF Init
    <3>2. ControlType
      <4>1. call \in [Threads -> AllCalls]
        BY DEF Init, AllCalls
      <4>2. pc \in [Threads -> Labels] /\ left \in [Threads -> 0..MaxCount]
        BY BufferAssumption, SMTT(30) DEF Init, Labels
      <4>3. eof \in BOOLEAN /\ multi_lock \in BOOLEAN /\ mutex \in Threads \cup {None}
        BY DEF Init
      <4> QED
        BY <3>1, <4>1, <4>2, <4>3 DEF ControlType
    <3> QED
      BY <3>2 DEF Init, Control, HoldsMutex, MultiHeld, LeftToDo
  <2>4. EofInv
    BY DEF Init, EofInv, Inside
  <2> QED
    BY <2>1, <2>2, <2>3, <2>4 DEF IInv
<1>2. IInv /\ [Next]_vars => IInv'
  <2> SUFFICES ASSUME IInv, [Next]_vars PROVE IInv'
    OBVIOUS
  <2> USE DEF IInv
  <2>1. CASE UNCHANGED vars
    <3>1. DataType' /\ Fifo'
      BY <2>1 DEF vars, DataType, Fifo, Length
    <3>2. Control'
      BY <2>1 DEF vars, Control, ControlType, HoldsMutex, MultiHeld, LeftToDo
    <3>3. NobodyWriting' = NobodyWriting /\ NobodyInside' = NobodyInside /\ NotFreed' = NotFreed
      BY <2>1 DEF vars, NobodyWriting, NobodyInside, NotFreed, Writing, Inside
    <3>4. EofInv'
      BY <2>1, <3>3 DEF vars, EofInv, Inside
    <3> QED
      BY <3>1, <3>2, <3>4
  <2>2. ASSUME NEW t \in Threads, Start(t) \/ Step(t)
        PROVE  IInv'
    <3>1. DataType' /\ Fifo'
      BY <2>2, DataKept
    <3>2. Control'
      BY <2>2, ControlOfMoves, ControlOfReads, ControlOfWrites DEF Step
    <3>3. EofInv'
      BY <2>2, EofOfMoves, EofOfOthers, EofOfReads, EofOfWrites DEF Step
    <3> QED
      BY <3>1, <3>2, <3>3
  <2> QED
    BY <2>1, <2>2 DEF Next
<1> QED
  BY <1>1, <1>2, PTL DEF Spec

(* The pointers stay inside the array and every variable has its type, for  *)
(* any number of threads in any calls and any size of the buffer.           *)
THEOREM BufferTypeCorrect == Spec => []TypeOK
<1>1. IInv => TypeOK
  BY DEF IInv, DataType, Control, ControlType, TypeOK, Labels
<1> QED
  BY <1>1, Invariance, PTL

(* The buffer is a queue: bytes come out once each, in the order in which   *)
(* they went in.                                                            *)
THEOREM BufferIsFifo == Spec => []Fifo
<1>1. IInv => Fifo
  BY DEF IInv
<1> QED
  BY <1>1, Invariance, PTL

(* EBF_EOF is exact whenever the mutex is free and no writer is half done.  *)
THEOREM EofIsExact == Spec => []EofExact
<1>1. IInv => EofExact
  <2> SUFFICES ASSUME IInv, mutex = None, NobodyWriting PROVE eof <=> head = tail
    BY DEF EofExact, NobodyWriting
  <2>1. NobodyInside /\ NotFreed
    BY BufferAssumption DEF IInv, Control, HoldsMutex, NobodyInside, NotFreed, Inside
  <2> QED
    BY <2>1 DEF IInv, EofInv
<1> QED
  BY <1>1, Invariance, PTL

(* The two together: bytes come out once each, in the order in which they   *)
(* went in, and EBF_EOF says whether there are any.                         *)
THEOREM BufferQueues == Spec => []BufferIsQueue
  BY BufferIsFifo, EofIsExact, PTL DEF BufferIsQueue

-----------------------------------------------------------------------------
(***************************************************************************)
(* BlockCache.  The counts of references follow the threads; of several    *)
(* entries for one block only the first is ever referenced, so two threads *)
(* never read or write one block through two entries.                      *)
(***************************************************************************)

(* The loop over the entries stops at the first one that qualifies.         *)
LEMMA LowestIsFirst ==
  ASSUME NEW S \in SUBSET CacheEntries, S # {}
  PROVE  LowestEntry(S) \in S /\ \A f \in S : LowestEntry(S) <= f
<1>1. S \in SUBSET Nat
  BY SMTT(30) DEF CacheEntries
<1>2. \E e \in S : \A f \in S : e <= f
  BY <1>1, LeastNatural
<1> QED
  BY <1>2 DEF LowestEntry

-----------------------------------------------------------------------------
\* The inductive invariant.

CacheBlocks == BlockIds \cup {ZeroBlock}

EntryType == [block : CacheBlocks, ref : Nat, hit : Nat, is_valid : BOOLEAN,
              data : CacheBlocks \cup {NoData}]

CacheType ==
  /\ blocks \in [CacheEntries -> EntryType]
  /\ block_mutex \in [CacheEntries -> Readers \cup {NoReader}]
  /\ want \in [Readers -> CacheBlocks]
  /\ at \in [Readers -> 0..CacheSize]
  /\ stage \in [Readers -> {"idle", "waiting", "holding", "unref"}]

\* A thread has an entry, for a block that it asked for, while it is in between
\* lock and unlock.
HasEntry == \A t \in Readers : /\ at[t] = 0 <=> stage[t] = "idle"
                               /\ at[t] # 0 => want[t] \in BlockIds

ReferencedBy(e) == {t \in Readers : at[t] = e}

\* Of the entries for one block, only the first is ever referenced.
FirstReferenced ==
  \A e \in CacheEntries, f \in CacheEntries :
    e < f /\ blocks[e].block = blocks[f].block => blocks[f].ref = 0

MutexHeld == \A t \in Readers : stage[t] = "holding" => block_mutex[at[t]] = t

\* An entry that was not read yet holds zeroes, as a failed read leaves them.
ZeroesUntilRead == \A e \in CacheEntries : ~blocks[e].is_valid => blocks[e].data = NoData

CacheInv ==
  /\ CacheType /\ HasEntry /\ IndexValidUntilUnlock /\ FirstReferenced /\ MutexHeld
  /\ DataOfOwnBlock /\ ZeroesUntilRead

(* The entry that is replaced is one that nobody has.                       *)
LEMMA VictimUnreferenced ==
  ASSUME CacheType, Unreferenced # {}
  PROVE  Victim \in Unreferenced
<1> DEFINE HitsOf == {blocks[e].hit : e \in Unreferenced}
           Fewest == {e \in Unreferenced : \A f \in Unreferenced : blocks[e].hit <= blocks[f].hit}
<1>1. HitsOf \in SUBSET Nat /\ HitsOf # {}
  <2>1. \A e \in CacheEntries : blocks[e].hit \in Nat
    BY DEF CacheType, EntryType
  <2>2. \A e \in Unreferenced : blocks[e].hit \in Nat
    BY <2>1 DEF Unreferenced
  <2> QED
    BY <2>2
<1>2. PICK h \in HitsOf : \A k \in HitsOf : h <= k
  BY <1>1, LeastNatural
<1>3. PICK e \in Unreferenced : blocks[e].hit = h
  OBVIOUS
<1>4. \A f \in Unreferenced : blocks[f].hit \in HitsOf
  OBVIOUS
<1>5. e \in Fewest
  BY <1>2, <1>3, <1>4
<1>6. Fewest \in SUBSET CacheEntries /\ Fewest # {}
  BY <1>5 DEF Unreferenced
<1>7. LowestEntry(Fewest) \in Fewest
  BY <1>6, LowestIsFirst
<1>8. Victim = LowestEntry(Fewest)
  BY DEF Victim
<1> QED
  BY <1>7, <1>8

(* Reference counts follow the threads: one more takes an entry.            *)
LEMMA OneMoreReference ==
  ASSUME NEW t \in Readers, NEW e \in CacheEntries, at \in [Readers -> 0..CacheSize], at[t] = 0,
         at' = [at EXCEPT ![t] = e]
  PROVE  /\ Cardinality(ReferencedBy(e)') = Cardinality(ReferencedBy(e)) + 1
         /\ \A f \in CacheEntries \ {e} : ReferencedBy(f)' = ReferencedBy(f)
<1>1. IsFiniteSet(ReferencedBy(e))
  BY FS_Subset, BlockCacheAssumption DEF ReferencedBy
<1>2. e # 0
  BY SMTT(30) DEF CacheEntries
<1>3. ReferencedBy(e)' = ReferencedBy(e) \cup {t}
  BY <1>2 DEF ReferencedBy
<1>4. t \notin ReferencedBy(e)
  BY <1>2 DEF ReferencedBy
<1>5. \A f \in CacheEntries \ {e} : ReferencedBy(f)' = ReferencedBy(f)
  BY SMTT(30) DEF ReferencedBy, CacheEntries
<1>6. Cardinality(ReferencedBy(e) \cup {t}) = Cardinality(ReferencedBy(e)) + 1
  BY <1>1, <1>4, FS_AddElement
<1> QED
  BY <1>3, <1>5, <1>6

(* One fewer: a thread gives its entry back.                                *)
LEMMA OneFewerReference ==
  ASSUME NEW t \in Readers, at \in [Readers -> 0..CacheSize], at[t] # 0,
         at' = [at EXCEPT ![t] = 0]
  PROVE  /\ Cardinality(ReferencedBy(at[t])) > 0
         /\ {r \in Readers : at'[r] = at[t]} = ReferencedBy(at[t]) \ {t}
         /\ Cardinality(ReferencedBy(at[t]) \ {t}) = Cardinality(ReferencedBy(at[t])) - 1
         /\ \A f \in CacheEntries \ {at[t]} : ReferencedBy(f)' = ReferencedBy(f)
<1>1. IsFiniteSet(ReferencedBy(at[t]))
  BY FS_Subset, BlockCacheAssumption DEF ReferencedBy
<1>2. t \in ReferencedBy(at[t])
  BY DEF ReferencedBy
<1>3. {r \in Readers : at'[r] = at[t]} = ReferencedBy(at[t]) \ {t}
  BY DEF ReferencedBy
<1>4. Cardinality(ReferencedBy(at[t]) \ {t}) = Cardinality(ReferencedBy(at[t])) - 1
  BY <1>1, <1>2, FS_RemoveElement
<1>5. Cardinality(ReferencedBy(at[t])) \in Nat /\ Cardinality(ReferencedBy(at[t])) # 0
  BY <1>1, <1>2, FS_CardinalityType, FS_EmptySet
<1>6. \A f \in CacheEntries \ {at[t]} : ReferencedBy(f)' = ReferencedBy(f)
  BY SMTT(30) DEF ReferencedBy, CacheEntries
<1> QED
  BY <1>3, <1>4, <1>5, <1>6, SMTT(30)

-----------------------------------------------------------------------------
\* Every step preserves the invariant.

(* The counts of an entry can be any numbers.                               *)
LEMMA EntryCounted ==
  ASSUME NEW r \in EntryType, NEW m \in Nat, NEW n \in Nat
  PROVE  /\ [r EXCEPT !.ref = m] \in EntryType
         /\ [r EXCEPT !.ref = m, !.hit = n] \in EntryType
<1>1. [r EXCEPT !.ref = m] \in EntryType
  BY DEF EntryType
<1> DEFINE q == [r EXCEPT !.ref = m]
<1>2. q \in EntryType
  BY <1>1
<1> HIDE DEF q
<1>3. [q EXCEPT !.hit = n] \in EntryType
  BY <1>2 DEF EntryType
<1>4. [r EXCEPT !.ref = m, !.hit = n] = [q EXCEPT !.hit = n]
  BY DEF q, EntryType
<1> QED
  BY <1>1, <1>3, <1>4

(* The reference counts, in terms of ReferencedBy.                          *)
LEMMA IndexRestated ==
  IndexValidUntilUnlock <=>
    /\ \A t \in Readers : at[t] # 0 => blocks[at[t]].block = want[t]
    /\ \A e \in CacheEntries : blocks[e].ref = Cardinality(ReferencedBy(e))
  BY DEF IndexValidUntilUnlock, ReferencedBy

(* At the start every entry is for block 0 and nobody has one.              *)
LEMMA CacheInitially == BlockCacheInit => CacheInv
<1> SUFFICES ASSUME BlockCacheInit PROVE CacheInv
  OBVIOUS
<1> USE DEF BlockCacheInit
<1>1. CacheType
  BY BlockCacheAssumption, SMTT(30) DEF CacheType, EntryType, CacheBlocks
<1>2. HasEntry /\ MutexHeld /\ DataOfOwnBlock /\ ZeroesUntilRead
  BY DEF HasEntry, MutexHeld, DataOfOwnBlock, ZeroesUntilRead
<1>3. FirstReferenced
  BY DEF FirstReferenced
<1>4. \A e \in CacheEntries : ReferencedBy(e) = {}
  BY SMTT(30) DEF ReferencedBy, CacheEntries
<1>5. IndexValidUntilUnlock
  BY <1>4, FS_EmptySet, IndexRestated
<1> QED
  BY <1>1, <1>2, <1>3, <1>5 DEF CacheInv

(* A hit takes a reference to the first entry for the block.                *)
LEMMA HitKeeps ==
  ASSUME CacheInv, NEW t \in Readers, NEW b \in BlockIds, CacheHit(t, b)
  PROVE  CacheInv'
<1> USE DEF CacheInv
<1>1. PICK e \in Hits(b) : e = LowestEntry(Hits(b)) /\ \A f \in Hits(b) : e <= f
  BY LowestIsFirst DEF CacheHit, Hits
<1>2. e \in CacheEntries /\ blocks[e].block = b
  BY <1>1 DEF Hits
<1>3. /\ stage[t] = "idle" /\ at[t] = 0
      /\ blocks' = [blocks EXCEPT ![e].ref = @ + 1, ![e].hit = @ + 1]
      /\ want' = [want EXCEPT ![t] = b] /\ at' = [at EXCEPT ![t] = e]
      /\ stage' = [stage EXCEPT ![t] = "waiting"] /\ block_mutex' = block_mutex
  BY <1>1 DEF CacheHit, HasEntry
<1>4. CacheType'
  <2>1. blocks[e] \in EntryType
    BY <1>2 DEF CacheType
  <2>2. [blocks[e] EXCEPT !.ref = @ + 1, !.hit = @ + 1] \in EntryType
    <3>1. blocks[e].ref + 1 \in Nat /\ blocks[e].hit + 1 \in Nat
      BY <2>1, SMTT(30) DEF EntryType
    <3> QED
      BY <2>1, <3>1, EntryCounted
  <2>3. blocks' = [blocks EXCEPT ![e] = [blocks[e] EXCEPT !.ref = @ + 1, !.hit = @ + 1]]
    BY <1>2, <1>3 DEF CacheType, EntryType
  <2>4. blocks' \in [CacheEntries -> EntryType]
    BY <1>2, <2>2, <2>3 DEF CacheType
  <2> QED
    BY <1>2, <1>3, <2>4, SMTT(30) DEF CacheType, CacheBlocks, CacheEntries
<1>5. \A f \in CacheEntries : /\ blocks'[f].block = blocks[f].block
                               /\ blocks'[f].is_valid = blocks[f].is_valid
                               /\ blocks'[f].data = blocks[f].data
                               /\ blocks'[f].ref = IF f = e THEN blocks[f].ref + 1 ELSE blocks[f].ref
  BY <1>2, <1>3 DEF CacheType, EntryType
<1>6. HasEntry' /\ MutexHeld'
  BY <1>2, <1>3, SMTT(30) DEF HasEntry, MutexHeld, CacheType, CacheEntries
<1>7. DataOfOwnBlock' /\ ZeroesUntilRead'
  BY <1>5 DEF DataOfOwnBlock, ZeroesUntilRead
<1>8. FirstReferenced'
  <2> SUFFICES ASSUME NEW g \in CacheEntries, NEW f \in CacheEntries, g < f,
                      blocks'[g].block = blocks'[f].block
               PROVE  blocks'[f].ref = 0
    BY DEF FirstReferenced
  <2>1. blocks[g].block = blocks[f].block
    BY <1>5
  <2>2. CASE f = e
    <3>1. g \in Hits(b)
      BY <1>2, <2>1, <2>2 DEF Hits
    <3>2. e <= g
      BY <1>1, <3>1
    <3> QED
      BY <2>2, <3>2, SMTT(30) DEF CacheEntries
  <2>3. CASE f # e
    BY <1>5, <2>1, <2>3 DEF FirstReferenced
  <2> QED
    BY <2>2, <2>3
<1>9. IndexValidUntilUnlock'
  <2>1. /\ Cardinality(ReferencedBy(e)') = Cardinality(ReferencedBy(e)) + 1
        /\ \A f \in CacheEntries \ {e} : ReferencedBy(f)' = ReferencedBy(f)
    BY <1>2, <1>3, OneMoreReference DEF CacheType
  <2>2. \A f \in CacheEntries : blocks[f].ref = Cardinality(ReferencedBy(f))
    BY IndexRestated
  <2>3. ASSUME NEW f \in CacheEntries
        PROVE  blocks'[f].ref = Cardinality(ReferencedBy(f)')
    <3>1. CASE f = e
      BY <1>2, <1>5, <2>1, <2>2, <3>1
    <3>2. CASE f # e
      BY <1>5, <2>1, <2>2, <3>2
    <3> QED
      BY <3>1, <3>2
  <2>4. \A r \in Readers : at'[r] # 0 => blocks'[at'[r]].block = want'[r]
    <3> SUFFICES ASSUME NEW r \in Readers, at'[r] # 0
                 PROVE  blocks'[at'[r]].block = want'[r]
      OBVIOUS
    <3>1. CASE r = t
      BY <1>2, <1>3, <1>5, <3>1 DEF CacheType
    <3>2. CASE r # t
      <4>1. at'[r] = at[r] /\ want'[r] = want[r] /\ at[r] \in CacheEntries
        BY <1>3, <3>2, SMTT(30) DEF CacheType, CacheEntries
      <4> QED
        BY <1>5, <4>1, IndexRestated
    <3> QED
      BY <3>1, <3>2
  <2> QED
    BY <2>3, <2>4 DEF IndexValidUntilUnlock, ReferencedBy
<1> QED
  BY <1>4, <1>6, <1>7, <1>8, <1>9

(* A miss replaces an entry that no thread has.                             *)
LEMMA MissKeeps ==
  ASSUME CacheInv, NEW t \in Readers, NEW b \in BlockIds, CacheMiss(t, b)
  PROVE  CacheInv'
<1> USE DEF CacheInv
<1> DEFINE fresh == [block |-> b, ref |-> 1, hit |-> 1, is_valid |-> FALSE, data |-> NoData]
<1>1. PICK v \in Unreferenced : v = Victim
  BY VictimUnreferenced DEF CacheMiss
<1>2. v \in CacheEntries /\ blocks[v].ref = 0
  BY <1>1 DEF Unreferenced
<1>3. /\ stage[t] = "idle" /\ at[t] = 0
      /\ blocks' = [blocks EXCEPT ![v] = fresh] /\ block_mutex' = [block_mutex EXCEPT ![v] = NoReader]
      /\ want' = [want EXCEPT ![t] = b] /\ at' = [at EXCEPT ![t] = v]
      /\ stage' = [stage EXCEPT ![t] = "waiting"]
  BY <1>1 DEF CacheMiss, HasEntry
<1>4. CacheType'
  <2>1. fresh \in EntryType
    BY DEF EntryType, CacheBlocks
  <2>2. blocks' \in [CacheEntries -> EntryType]
    BY <1>2, <1>3, <2>1 DEF CacheType
  <2>3. block_mutex' \in [CacheEntries -> Readers \cup {NoReader}]
    BY <1>2, <1>3 DEF CacheType
  <2>4. want' \in [Readers -> CacheBlocks]
    BY <1>3 DEF CacheType, CacheBlocks
  <2>5. at' \in [Readers -> 0..CacheSize]
    BY <1>2, <1>3, SMTT(30) DEF CacheType, CacheEntries
  <2>6. stage' \in [Readers -> {"idle", "waiting", "holding", "unref"}]
    BY <1>3 DEF CacheType
  <2> QED
    BY <2>2, <2>3, <2>4, <2>5, <2>6 DEF CacheType
<1>5. blocks'[v] = fresh /\ \A f \in CacheEntries \ {v} : blocks'[f] = blocks[f]
  BY <1>2, <1>3 DEF CacheType
<1>13. blocks'[v].block = b /\ blocks'[v].ref = 1 /\ blocks'[v].is_valid = FALSE
  BY <1>5, SMTT(30)
<1>6. ReferencedBy(v) = {}
  <2>1. Cardinality(ReferencedBy(v)) = 0
    BY <1>2, IndexRestated
  <2>2. IsFiniteSet(ReferencedBy(v))
    BY FS_Subset, BlockCacheAssumption DEF ReferencedBy
  <2> QED
    BY <2>1, <2>2, FS_EmptySet
<1>7. \A r \in Readers : at[r] # v
  BY <1>6 DEF ReferencedBy
<1>8. HasEntry' /\ MutexHeld'
  BY <1>2, <1>3, <1>7, SMTT(30) DEF HasEntry, MutexHeld, CacheType, CacheEntries
<1>9. DataOfOwnBlock'
  <2> SUFFICES ASSUME NEW f \in CacheEntries, blocks'[f].is_valid
               PROVE  blocks'[f].data \in {blocks'[f].block, NoData}
    BY DEF DataOfOwnBlock
  <2>1. f # v
    BY <1>5, SMTT(30)
  <2> QED
    BY <1>5, <2>1 DEF DataOfOwnBlock
<1>12. ZeroesUntilRead'
  BY <1>5, SMTT(30) DEF ZeroesUntilRead
<1>10. FirstReferenced'
  <2> SUFFICES ASSUME NEW g \in CacheEntries, NEW f \in CacheEntries, g < f,
                      blocks'[g].block = blocks'[f].block
               PROVE  blocks'[f].ref = 0
    BY DEF FirstReferenced
  <2>1. \A h \in CacheEntries : blocks[h].block # b
    BY DEF CacheMiss, Hits
  <2>2. g # f
    BY SMTT(30) DEF CacheEntries
  <2>3. f # v /\ g # v
    BY <1>5, <1>13, <2>1, <2>2
  <2> QED
    BY <1>5, <2>3 DEF FirstReferenced
<1>11. IndexValidUntilUnlock'
  <2>1. /\ Cardinality(ReferencedBy(v)') = Cardinality(ReferencedBy(v)) + 1
        /\ \A f \in CacheEntries \ {v} : ReferencedBy(f)' = ReferencedBy(f)
    BY <1>2, <1>3, OneMoreReference DEF CacheType
  <2>2. ASSUME NEW f \in CacheEntries
        PROVE  blocks'[f].ref = Cardinality(ReferencedBy(f)')
    <3>1. CASE f = v
      <4>1. Cardinality(ReferencedBy(v)) = 0
        BY <1>6, FS_EmptySet
      <4> QED
        BY <1>13, <2>1, <3>1, <4>1, SMTT(30)
    <3>2. CASE f # v
      BY <1>5, <2>1, <3>2, IndexRestated
    <3> QED
      BY <3>1, <3>2
  <2>3. \A r \in Readers : at'[r] # 0 => blocks'[at'[r]].block = want'[r]
    <3> SUFFICES ASSUME NEW r \in Readers, at'[r] # 0
                 PROVE  blocks'[at'[r]].block = want'[r]
      OBVIOUS
    <3>1. CASE r = t
      BY <1>2, <1>3, <1>5, <3>1 DEF CacheType
    <3>2. CASE r # t
      <4>1. at'[r] = at[r] /\ want'[r] = want[r] /\ at[r] \in CacheEntries \ {v}
        BY <1>3, <1>7, <3>2, SMTT(30) DEF CacheType, CacheEntries
      <4> QED
        BY <1>5, <4>1, IndexRestated
    <3> QED
      BY <3>1, <3>2
  <2> QED
    BY <2>2, <2>3 DEF IndexValidUntilUnlock, ReferencedBy
<1> QED
  BY <1>4, <1>8, <1>9, <1>10, <1>11, <1>12

(* A free mutex is taken by one thread.                                     *)
LEMMA AcquireKeeps ==
  ASSUME CacheInv, NEW t \in Readers, MutexAcquire(t)
  PROVE  CacheInv'
<1> USE DEF CacheInv, MutexAcquire
<1>1. at[t] \in CacheEntries
  BY SMTT(30) DEF CacheType, HasEntry, CacheEntries
<1>2. CacheType' /\ HasEntry'
  BY <1>1 DEF CacheType, HasEntry, CacheEntries
<1>3. FirstReferenced' /\ DataOfOwnBlock' /\ ZeroesUntilRead' /\ IndexValidUntilUnlock'
  BY DEF FirstReferenced, DataOfOwnBlock, ZeroesUntilRead, IndexValidUntilUnlock
<1>4. MutexHeld'
  BY <1>1, BlockCacheAssumption, SMTT(30) DEF MutexHeld, CacheType
<1> QED
  BY <1>2, <1>3, <1>4

(* A thread releases only its own mutex.                                    *)
LEMMA ReleaseKeeps ==
  ASSUME CacheInv, NEW t \in Readers, MutexRelease(t)
  PROVE  CacheInv'
<1> USE DEF CacheInv, MutexRelease
<1>1. at[t] \in CacheEntries
  BY SMTT(30) DEF CacheType, HasEntry, CacheEntries
<1>2. CacheType' /\ HasEntry'
  BY <1>1 DEF CacheType, HasEntry, CacheEntries
<1>3. FirstReferenced' /\ DataOfOwnBlock' /\ ZeroesUntilRead' /\ IndexValidUntilUnlock'
  BY DEF FirstReferenced, DataOfOwnBlock, ZeroesUntilRead, IndexValidUntilUnlock
<1>4. MutexHeld'
  BY <1>1, BlockCacheAssumption, SMTT(30) DEF MutexHeld, CacheType
<1> QED
  BY <1>2, <1>3, <1>4

(* Reading fills the entry, with the data of its block or not at all.       *)
LEMMA ReadKeeps ==
  ASSUME CacheInv, NEW t \in Readers, NEW ok \in BOOLEAN, gen_ata_bd_read(t, ok)
  PROVE  CacheInv'
<1> USE DEF CacheInv
<1> DEFINE e == at[t]
           bytes == gen_ata_read_block(e, ok)
           filled == [blocks[e] EXCEPT !.is_valid = TRUE, !.data = bytes]
<1>1. e \in CacheEntries
  BY SMTT(30) DEF CacheType, HasEntry, CacheEntries, gen_ata_bd_read
<1>2. blocks' = [blocks EXCEPT ![e] = filled] /\ UNCHANGED <<block_mutex, want, at, stage>>
  BY DEF gen_ata_bd_read
<1>3. ~blocks[e].is_valid
  BY DEF gen_ata_bd_read
<1>4. blocks[e] \in EntryType
  BY <1>1 DEF CacheType
<1>5. bytes \in CacheBlocks \cup {NoData}
  BY <1>4 DEF gen_ata_read_block, EntryType
<1>6. filled \in EntryType /\ filled.data = bytes
      /\ filled.block = blocks[e].block /\ filled.ref = blocks[e].ref
  <2> HIDE DEF bytes
  <2> QED
    BY <1>4, <1>5 DEF EntryType
<1>7. blocks'[e] = filled /\ \A f \in CacheEntries \ {e} : blocks'[f] = blocks[f]
  BY <1>1, <1>2 DEF CacheType
<1>8. \A f \in CacheEntries : blocks'[f].block = blocks[f].block /\ blocks'[f].ref = blocks[f].ref
  BY <1>6, <1>7
<1>9. CacheType'
  <2>1. blocks' \in [CacheEntries -> EntryType]
    BY <1>1, <1>2, <1>6 DEF CacheType
  <2> QED
    BY <1>2, <2>1 DEF CacheType
<1>10. HasEntry' /\ MutexHeld'
  BY <1>2 DEF HasEntry, MutexHeld
<1>11. FirstReferenced'
  BY <1>8 DEF FirstReferenced
<1>12. IndexValidUntilUnlock'
  <2>1. \A r \in Readers : at[r] # 0 => at[r] \in CacheEntries
    BY SMTT(30) DEF CacheType, CacheEntries
  <2>2. \A r \in Readers : at'[r] # 0 => blocks'[at'[r]].block = want'[r]
    BY <1>2, <1>8, <2>1 DEF IndexValidUntilUnlock
  <2>3. \A f \in CacheEntries : blocks'[f].ref = Cardinality(ReferencedBy(f))
    BY <1>8, IndexRestated
  <2>4. \A f \in CacheEntries : ReferencedBy(f)' = ReferencedBy(f)
    BY <1>2 DEF ReferencedBy
  <2> QED
    BY <2>2, <2>3, <2>4 DEF IndexValidUntilUnlock, ReferencedBy
<1>13. DataOfOwnBlock'
  <2> SUFFICES ASSUME NEW f \in CacheEntries, blocks'[f].is_valid
               PROVE  blocks'[f].data \in {blocks'[f].block, NoData}
    BY DEF DataOfOwnBlock
  <2>1. CASE f # e
    BY <1>7, <2>1 DEF DataOfOwnBlock
  <2>2. CASE f = e
    <3>1. bytes \in {blocks[e].block, NoData}
      BY <1>1, <1>3 DEF gen_ata_read_block, ZeroesUntilRead
    <3> QED
      BY <1>6, <1>7, <2>2, <3>1
  <2> QED
    BY <2>1, <2>2
<1>14. ZeroesUntilRead'
  BY <1>4, <1>5, <1>6, <1>7 DEF ZeroesUntilRead, EntryType
<1> QED
  BY <1>9, <1>10, <1>11, <1>12, <1>13, <1>14

(* The reference is given back last.                                        *)
LEMMA UnreferenceKeeps ==
  ASSUME CacheInv, NEW t \in Readers, Unreference(t)
  PROVE  CacheInv'
<1> USE DEF CacheInv
<1> DEFINE e == at[t]
<1>1. e \in CacheEntries /\ stage[t] = "unref"
  BY SMTT(30) DEF CacheType, HasEntry, CacheEntries, Unreference
<1>2. /\ blocks' = [blocks EXCEPT ![e].ref = @ - 1] /\ at' = [at EXCEPT ![t] = 0]
      /\ stage' = [stage EXCEPT ![t] = "idle"] /\ block_mutex' = block_mutex /\ want' = want
  BY DEF Unreference
<1>3. /\ Cardinality(ReferencedBy(e)) > 0
      /\ {r \in Readers : at'[r] = e} = ReferencedBy(e) \ {t}
      /\ Cardinality(ReferencedBy(e) \ {t}) = Cardinality(ReferencedBy(e)) - 1
      /\ \A f \in CacheEntries \ {e} : ReferencedBy(f)' = ReferencedBy(f)
  <2>1. at \in [Readers -> 0..CacheSize] /\ at[t] # 0
    BY <1>1, SMTT(30) DEF CacheType, CacheEntries
  <2>2. at' = [at EXCEPT ![t] = 0]
    BY <1>2
  <2> QED
    BY ONLY <2>1, <2>2, OneFewerReference, t \in Readers
<1>4. blocks[e] \in EntryType /\ blocks[e].ref = Cardinality(ReferencedBy(e))
  BY <1>1, IndexRestated DEF CacheType
<1>5. blocks[e].ref - 1 \in Nat
  BY <1>3, <1>4, SMTT(30) DEF EntryType
<1>6. CacheType'
  <2>1. [blocks[e] EXCEPT !.ref = @ - 1] \in EntryType
    BY <1>4, <1>5, EntryCounted
  <2>2. blocks' = [blocks EXCEPT ![e] = [blocks[e] EXCEPT !.ref = @ - 1]]
    BY <1>1, <1>2 DEF CacheType, EntryType
  <2>3. blocks' \in [CacheEntries -> EntryType]
    BY <1>1, <2>1, <2>2 DEF CacheType
  <2> QED
    BY <1>2, <2>3, BlockCacheAssumption, SMTT(30) DEF CacheType
<1>7. \A f \in CacheEntries : /\ blocks'[f].block = blocks[f].block
                               /\ blocks'[f].is_valid = blocks[f].is_valid
                               /\ blocks'[f].data = blocks[f].data
                               /\ blocks'[f].ref = IF f = e THEN blocks[f].ref - 1 ELSE blocks[f].ref
  BY <1>1, <1>2 DEF CacheType, EntryType
<1>8. HasEntry' /\ MutexHeld'
  BY <1>1, <1>2 DEF HasEntry, MutexHeld, CacheType
<1>9. DataOfOwnBlock' /\ ZeroesUntilRead'
  BY <1>7 DEF DataOfOwnBlock, ZeroesUntilRead
<1>10. FirstReferenced'
  <2> SUFFICES ASSUME NEW g \in CacheEntries, NEW f \in CacheEntries, g < f,
                      blocks'[g].block = blocks'[f].block
               PROVE  blocks'[f].ref = 0
    BY DEF FirstReferenced
  <2>1. blocks[f].ref = 0
    BY <1>7, SMTT(30) DEF FirstReferenced
  <2>2. f # e
    BY <1>3, <1>4, <2>1, SMTT(30)
  <2> QED
    BY <1>7, <2>1, <2>2
<1>11. IndexValidUntilUnlock'
  <2>1. ASSUME NEW f \in CacheEntries
        PROVE  blocks'[f].ref = Cardinality({r \in Readers : at'[r] = f})
    <3>1. CASE f = e
      BY <1>3, <1>4, <1>7, <3>1
    <3>2. CASE f # e
      <4>1. ReferencedBy(f)' = ReferencedBy(f)
        BY <1>3, <3>2
      <4>2. {r \in Readers : at'[r] = f} = ReferencedBy(f)
        BY <4>1 DEF ReferencedBy
      <4>3. blocks[f].ref = Cardinality(ReferencedBy(f))
        BY IndexRestated
      <4>4. blocks'[f].ref = blocks[f].ref
        BY <1>7, <3>2
      <4> QED
        BY <4>2, <4>3, <4>4
    <3> QED
      BY <3>1, <3>2
  <2>2. \A r \in Readers : at'[r] # 0 => blocks'[at'[r]].block = want'[r]
    <3> SUFFICES ASSUME NEW r \in Readers, at'[r] # 0
                 PROVE  blocks'[at'[r]].block = want'[r]
      OBVIOUS
    <3>1. at'[r] = at[r] /\ at[r] \in CacheEntries
      BY <1>2, SMTT(30) DEF CacheType, CacheEntries
    <3> QED
      BY <1>2, <1>7, <3>1, IndexRestated
  <2> QED
    BY <2>1, <2>2 DEF IndexValidUntilUnlock
<1> QED
  BY <1>6, <1>8, <1>9, <1>10, <1>11

(* CacheInv holds throughout.                                               *)
LEMMA CacheInvariant == BlockCacheSpec => []CacheInv
<1>1. CacheInv /\ [BlockCacheNext]_cacheVars => CacheInv'
  <2> SUFFICES ASSUME CacheInv, [BlockCacheNext]_cacheVars PROVE CacheInv'
    OBVIOUS
  <2>1. CASE UNCHANGED cacheVars
    <3>1. CacheType' /\ HasEntry' /\ MutexHeld'
      BY <2>1 DEF cacheVars, CacheInv, CacheType, HasEntry, MutexHeld
    <3>2. IndexValidUntilUnlock' /\ FirstReferenced'
      BY <2>1 DEF cacheVars, CacheInv, IndexValidUntilUnlock, FirstReferenced
    <3>3. DataOfOwnBlock' /\ ZeroesUntilRead'
      BY <2>1 DEF cacheVars, CacheInv, DataOfOwnBlock, ZeroesUntilRead
    <3> QED
      BY <3>1, <3>2, <3>3 DEF CacheInv
  <2>2. ASSUME NEW t \in Readers, NEW b \in BlockIds, CacheHit(t, b) \/ CacheMiss(t, b)
        PROVE  CacheInv'
    BY <2>2, HitKeeps, MissKeeps
  <2>3. ASSUME NEW t \in Readers, MutexAcquire(t) \/ MutexRelease(t) \/ Unreference(t)
        PROVE  CacheInv'
    BY <2>3, AcquireKeeps, ReleaseKeeps, UnreferenceKeeps
  <2>4. ASSUME NEW t \in Readers, NEW ok \in BOOLEAN, gen_ata_bd_read(t, ok)
        PROVE  CacheInv'
    BY <2>4, ReadKeeps
  <2> QED
    BY <2>1, <2>2, <2>3, <2>4 DEF BlockCacheNext
<1> QED
  BY <1>1, CacheInitially, PTL DEF BlockCacheSpec

-----------------------------------------------------------------------------

(* gen_ata_bd_lock's index is valid until unlock, for any number of threads *)
(* and blocks and any size of the cache: an entry has one reference for     *)
(* every thread that was given it, and is not replaced before.              *)
THEOREM IndexStaysValid == BlockCacheSpec => []IndexValidUntilUnlock
<1>1. CacheInv => IndexValidUntilUnlock
  BY DEF CacheInv
<1> QED
  BY <1>1, CacheInvariant, PTL

(* No evicted block's data is ever read as another block's.                 *)
THEOREM DataIsOwn == BlockCacheSpec => []DataOfOwnBlock
<1>1. CacheInv => DataOfOwnBlock
  BY DEF CacheInv
<1> QED
  BY <1>1, CacheInvariant, PTL

(* The two together: the index of gen_ata_bd_lock leads to the data of the  *)
(* block that was asked for, until unlock.                                  *)
THEOREM EntriesCorrect == BlockCacheSpec => []EntriesSound
  BY IndexStaysValid, DataIsOwn, PTL DEF EntriesSound

(* Two threads whose entries are for the same block have the same entry.    *)
LEMMA SameBlockSameEntry ==
  ASSUME CacheInv, NEW t \in Readers, NEW u \in Readers, at[t] # 0, at[u] # 0, want[t] = want[u]
  PROVE  at[t] = at[u]
<1> USE DEF CacheInv
<1>1. ASSUME NEW r \in Readers, at[r] # 0
      PROVE  at[r] \in CacheEntries /\ blocks[at[r]].ref # 0 /\ blocks[at[r]].block = want[r]
  <2>1. at[r] \in CacheEntries
    BY <1>1, SMTT(30) DEF CacheType, CacheEntries
  <2>2. r \in ReferencedBy(at[r])
    BY DEF ReferencedBy
  <2>3. IsFiniteSet(ReferencedBy(at[r]))
    BY FS_Subset, BlockCacheAssumption DEF ReferencedBy
  <2>4. Cardinality(ReferencedBy(at[r])) # 0
    BY <2>2, <2>3, FS_EmptySet
  <2> QED
    BY <1>1, <2>1, <2>4, IndexRestated
<1>2. /\ at[t] \in CacheEntries /\ at[u] \in CacheEntries
      /\ blocks[at[t]].ref # 0 /\ blocks[at[u]].ref # 0
      /\ blocks[at[t]].block = blocks[at[u]].block
  BY <1>1
<1>3. ~(at[t] < at[u]) /\ ~(at[u] < at[t])
  BY <1>2 DEF FirstReferenced
<1> QED
  BY <1>2, <1>3, SMTT(30) DEF CacheEntries

(* The holder, where there is at most one.                                  *)
LEMMA AnyOfFew ==
  AnyReader({}) = NoReader /\ \A t \in Readers : AnyReader({t}) = t
  BY DEF AnyReader

(* Who holds a block is alone.                                              *)
LEMMA HolderAlone ==
  ASSUME CacheInv, NEW t \in Readers, stage[t] = "holding"
  PROVE  HoldersOf(want[t]) = {t} /\ HolderOf(want[t]) = t
<1> USE DEF CacheInv
<1>1. ASSUME NEW u \in Readers, stage[u] = "holding", want[u] = want[t]
      PROVE  u = t
  <2>1. at[t] # 0 /\ at[u] # 0
    BY <1>1 DEF HasEntry
  <2>2. at[t] = at[u]
    BY <1>1, <2>1, SameBlockSameEntry
  <2> QED
    BY <1>1, <2>2 DEF MutexHeld
<1>2. HoldersOf(want[t]) = {t}
  BY <1>1 DEF HoldersOf
<1> QED
  BY <1>2, AnyOfFew DEF HolderOf

(* A thread that takes a free mutex takes a block that nobody holds.        *)
LEMMA AcquireLocks ==
  ASSUME CacheInv, NEW t \in Readers, MutexAcquire(t)
  PROVE  /\ want[t] \in BlockIds /\ HolderOf(want[t]) = NoReader /\ HolderOf(want[t])' = t
         /\ \A b \in BlockIds \ {want[t]} : HolderOf(b)' = HolderOf(b)
<1> USE DEF CacheInv, MutexAcquire
<1>1. at[t] # 0 /\ want[t] \in BlockIds
  BY DEF HasEntry
<1>2. HoldersOf(want[t]) = {}
  <2> SUFFICES ASSUME NEW u \in Readers, stage[u] = "holding", want[u] = want[t]
               PROVE  FALSE
    BY DEF HoldersOf
  <2>1. at[u] = at[t]
    BY <1>1, SameBlockSameEntry DEF HasEntry
  <2>2. block_mutex[at[t]] = u
    BY <2>1 DEF MutexHeld
  <2> QED
    BY <2>2, BlockCacheAssumption
<1>3. want' = want /\ stage' = [stage EXCEPT ![t] = "holding"]
      /\ stage \in [Readers -> {"idle", "waiting", "holding", "unref"}]
  BY DEF CacheType
<1>4. HoldersOf(want[t])' = {t}
  <2>1. \A u \in Readers : stage'[u] = "holding" /\ want'[u] = want[t] <=> u = t
    BY <1>2, <1>3 DEF HoldersOf
  <2> QED
    BY <1>3, <2>1 DEF HoldersOf
<1>5. \A b \in BlockIds \ {want[t]} : HoldersOf(b)' = HoldersOf(b)
  BY <1>3 DEF HoldersOf
<1>6. HolderOf(want[t])' = AnyReader(HoldersOf(want[t])')
  BY <1>3 DEF HolderOf, HoldersOf
<1> QED
  BY <1>1, <1>2, <1>4, <1>5, <1>6, AnyOfFew DEF HolderOf

(* A thread that releases a mutex frees the block that it held.             *)
LEMMA ReleaseUnlocks ==
  ASSUME CacheInv, NEW t \in Readers, MutexRelease(t)
  PROVE  /\ want[t] \in BlockIds /\ HolderOf(want[t]) = t /\ HolderOf(want[t])' = NoReader
         /\ \A b \in BlockIds \ {want[t]} : HolderOf(b)' = HolderOf(b)
<1> USE DEF CacheInv, MutexRelease
<1>1. want[t] \in BlockIds
  BY DEF HasEntry
<1>2. HoldersOf(want[t]) = {t} /\ HolderOf(want[t]) = t
  BY HolderAlone
<1>3. want' = want /\ stage' = [stage EXCEPT ![t] = "unref"]
      /\ stage \in [Readers -> {"idle", "waiting", "holding", "unref"}]
  BY DEF CacheType
<1>4. HoldersOf(want[t])' = {}
  BY <1>2, <1>3 DEF HoldersOf
<1>5. \A b \in BlockIds \ {want[t]} : HoldersOf(b)' = HoldersOf(b)
  BY <1>3 DEF HoldersOf
<1>6. HolderOf(want[t])' = AnyReader(HoldersOf(want[t])')
  BY <1>3 DEF HolderOf, HoldersOf
<1> QED
  BY <1>1, <1>2, <1>4, <1>5, <1>6, AnyOfFew DEF HolderOf

(* No other step changes who holds what.                                    *)
LEMMA OthersKeepHolders ==
  ASSUME CacheInv, NEW t \in Readers, stage[t] # "holding", stage'[t] # "holding",
         \A u \in Readers \ {t} : stage'[u] = stage[u] /\ want'[u] = want[u]
  PROVE  \A b \in BlockIds : HolderOf(b)' = HolderOf(b)
<1>1. \A b \in BlockIds : HoldersOf(b)' = HoldersOf(b)
  BY DEF HoldersOf
<1> QED
  BY <1>1 DEF HolderOf

(* The cache implements one lock per block, for any number of threads and   *)
(* blocks and any size of the cache.                                        *)
THEOREM CacheLocksBlocks == BlockCacheSpec => OneHolderPerBlock
<1> DEFINE owner == [b \in BlockIds |-> HolderOf(b)]
           LocksStep == \E t \in Readers, b \in BlockIds : Locks!LockBlock(t, b) \/ Locks!UnlockBlock(t, b)
<1>1. BlockCacheInit => Locks!BlockLocksInit
  <2> SUFFICES ASSUME BlockCacheInit PROVE owner = [b \in BlockIds |-> NoReader]
    BY DEF Locks!BlockLocksInit
  <2>1. \A b \in BlockIds : HoldersOf(b) = {}
    BY DEF BlockCacheInit, HoldersOf
  <2> QED
    BY <2>1, AnyOfFew DEF HolderOf
<1>2. CacheInv /\ [BlockCacheNext]_cacheVars => [LocksStep]_owner
  <2> SUFFICES ASSUME CacheInv, [BlockCacheNext]_cacheVars PROVE LocksStep \/ owner' = owner
    OBVIOUS
  <2>1. CASE UNCHANGED cacheVars
    <3>1. \A b \in BlockIds : HoldersOf(b)' = HoldersOf(b)
      BY <2>1 DEF HoldersOf, cacheVars
    <3> QED
      BY <3>1 DEF HolderOf
  <2>2. ASSUME NEW t \in Readers, MutexAcquire(t)
        PROVE  LocksStep
    <3>1. /\ want[t] \in BlockIds /\ HolderOf(want[t]) = NoReader /\ HolderOf(want[t])' = t
          /\ \A b \in BlockIds \ {want[t]} : HolderOf(b)' = HolderOf(b)
      BY <2>2, AcquireLocks
    <3>2. want' = want
      BY <2>2 DEF MutexAcquire
    <3>3. owner[want[t]] = NoReader
      BY <3>1
    <3>4. owner' = [owner EXCEPT ![want[t]] = t]
      BY <3>1, <3>2
    <3>5. Locks!LockBlock(t, want[t])
      BY <3>3, <3>4 DEF Locks!LockBlock
    <3> QED
      BY <3>1, <3>5
  <2>3. ASSUME NEW t \in Readers, MutexRelease(t)
        PROVE  LocksStep
    <3>1. /\ want[t] \in BlockIds /\ HolderOf(want[t]) = t /\ HolderOf(want[t])' = NoReader
          /\ \A b \in BlockIds \ {want[t]} : HolderOf(b)' = HolderOf(b)
      BY <2>3, ReleaseUnlocks
    <3>2. want' = want
      BY <2>3 DEF MutexRelease
    <3>3. owner[want[t]] = t
      BY <3>1
    <3>4. owner' = [owner EXCEPT ![want[t]] = NoReader]
      BY <3>1, <3>2
    <3>5. Locks!UnlockBlock(t, want[t])
      BY <3>3, <3>4 DEF Locks!UnlockBlock
    <3> QED
      BY <3>1, <3>5
  <2>4. ASSUME NEW t \in Readers,
               \/ Unreference(t)
               \/ \E b \in BlockIds : CacheHit(t, b) \/ CacheMiss(t, b)
        PROVE  owner' = owner
    <3>1. /\ stage[t] # "holding" /\ stage'[t] # "holding"
          /\ \A u \in Readers \ {t} : stage'[u] = stage[u] /\ want'[u] = want[u]
      BY <2>4 DEF CacheInv, CacheType, Unreference, CacheHit, CacheMiss
    <3> QED
      BY <3>1, OthersKeepHolders
  <2>5. ASSUME NEW t \in Readers, NEW ok \in BOOLEAN, gen_ata_bd_read(t, ok)
        PROVE  owner' = owner
    <3>1. \A b \in BlockIds : HoldersOf(b)' = HoldersOf(b)
      BY <2>5 DEF HoldersOf, gen_ata_bd_read
    <3> QED
      BY <3>1 DEF HolderOf
  <2> QED
    BY <2>1, <2>2, <2>3, <2>4, <2>5 DEF BlockCacheNext
<1>3. [LocksStep]_owner => [Locks!BlockLocksNext]_owner
  BY DEF Locks!BlockLocksNext
<1> QED
  BY <1>1, <1>2, <1>3, CacheInvariant, PTL DEF BlockCacheSpec, OneHolderPerBlock, Locks!BlockLocksSpec

==============================================================================
