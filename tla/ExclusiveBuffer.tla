--------------------------- MODULE ExclusiveBuffer ---------------------------
(***************************************************************************)
(* exclusive_buffer, kernel/kernel/exclusive_buffer.c: a byte buffer of    *)
(* fixed size that threads read and write under one thread mutex, waiting  *)
(* on one condition, "changed", for data, for room and for the end of the  *)
(* data.                                                                   *)
(*                                                                         *)
(* The mutex and the condition are a monitor (module ThreadLock): a step   *)
(* here is what a thread does from getting the mutex to the next point at  *)
(* which it may give it up.  The condition is notified after the mutex is  *)
(* released, so that is a step of its own.  Nobody creates a buffer with   *)
(* EBF_GROWING; it is left out.                                            *)
(***************************************************************************)
EXTENDS Integers, FiniteSets

CONSTANTS
  Threads,
  Callers,    \* what the threads may be: functions from threads to sets of calls
  Size,       \* buffer_size
  MaxCount,   \* the largest size passed to a call
  None

AllCalls == {"read", "try_read", "write", "try_write", "flush", "lock", "free"}

ASSUME BufferAssumption ==
  /\ Callers \subseteq [Threads -> SUBSET AllCalls]
  /\ Size \in Nat \ {0} /\ MaxCount \in Nat \ {0} /\ None \notin Threads

VARIABLES
  buffer, head, tail,   \* the array, and the two pointers as offsets into it
  eof,                  \* flags & EBF_EOF
  mutex,                \* the thread that holds the mutex, or None
  multi_lock,
  calls,                \* the calls each thread makes; it never changes
  pc, call, left,       \* of each thread: where it is, the call it is in, and
                        \* the bytes it still has to read or write
  accepted, delivered   \* history: how many bytes were written and read so far

vars == <<buffer, head, tail, eof, mutex, multi_lock, calls, pc, call, left, accepted,
          delivered>>
data == <<buffer, head, tail, eof, accepted, delivered>>

\* The bytes are numbered in the order in which they are written; two bytes
\* that are in the buffer together have different numbers.
Bytes == 0..Size
Nth(n) == IF n <= Size THEN n ELSE n - (Size + 1)

Lesser(a, b) == IF a < b THEN a ELSE b

Init ==
  /\ buffer = [i \in 0..(Size - 1) |-> 0] /\ head = 0 /\ tail = 0
  /\ eof = TRUE
  /\ mutex = None /\ multi_lock = FALSE
  /\ calls \in Callers
  /\ pc = [t \in Threads |-> "out"]
  /\ call = [t \in Threads |-> "lock"]
  /\ left = [t \in Threads |-> 0]
  /\ accepted = 0 /\ delivered = 0

Goto(t, l) == pc' = [pc EXCEPT ![t] = l]

-----------------------------------------------------------------------------
(* Calls, and the mutex.                                                    *)

\* The sizes passed are 1..MaxCount; a call for no bytes changes nothing.
\* eb_read, eb_write and eb_flush panic between eb_lock and eb_unlock, and so
\* does a second eb_lock: the try calls are what is left, and need no mutex.
Start(t) ==
  /\ \E cl \in calls[t], n \in 1..MaxCount :
       /\ \/ pc[t] = "out" /\ Goto(t, "enter")
          \/ pc[t] = "locked" /\ cl \in {"try_read", "try_write"} /\ Goto(t, "in")
       /\ call' = [call EXCEPT ![t] = cl]
       /\ left' = [left EXCEPT ![t] = IF cl \in {"flush", "lock", "free"} THEN 0 ELSE n]
  /\ UNCHANGED <<calls, data, mutex, multi_lock>>

\* thread_mutex_acquire, and the end of thread_cond_wait.
Enter(t) ==
  /\ pc[t] \in {"enter", "notified"} /\ mutex = None
  /\ mutex' = t
  /\ Goto(t, IF pc[t] = "enter" THEN "in" ELSE "again")
  /\ UNCHANGED <<calls, data, multi_lock, call, left>>

\* thread_cond_wait(&(buffer->changed), &(buffer->mutex))
Wait(t) == mutex' = None /\ Goto(t, "waiting")

\* The end of a call that holds the mutex: what n > 0 bytes have changed is
\* notified once it is released.
Leave(t, changed) ==
  /\ mutex' = IF multi_lock THEN mutex ELSE None
  /\ Goto(t, IF changed THEN "notify" ELSE IF multi_lock THEN "locked" ELSE "out")

Notify(t) ==
  /\ pc[t] = "notify"
  /\ LET next == IF mutex = t THEN "locked" ELSE "out"
         waiting == {u \in Threads : pc[u] = "waiting"}
     IN  \/ waiting = {} /\ Goto(t, next)
         \/ \E u \in waiting : pc' = [pc EXCEPT ![t] = next, ![u] = "notified"]
  /\ UNCHANGED <<calls, data, mutex, multi_lock, call, left>>

-----------------------------------------------------------------------------
(* Reading.                                                                 *)

Length == tail - head

\* n bytes are moved from the head of the buffer to their reader.
Take(n) ==
  /\ head' = head + n
  /\ delivered' = Nth(delivered + n)
  /\ UNCHANGED <<buffer, tail, accepted>>

\* Mutation: nobody is told that data were read.
TryReadSilent(t) ==
  /\ pc[t] = "in" /\ call[t] = "try_read"
  /\ IF eof
     THEN UNCHANGED data
     ELSE Take(Lesser(Length, left[t])) /\ eof' = (head' = tail)
  /\ Leave(t, FALSE)
  /\ UNCHANGED <<calls, multi_lock, call, left>>

eb_try_read(t) ==
  /\ pc[t] = "in" /\ call[t] = "try_read"
  /\ IF eof
     THEN Leave(t, FALSE) /\ UNCHANGED data
     ELSE /\ Take(Lesser(Length, left[t]))
          /\ eof' = (head' = tail)
          /\ Leave(t, Lesser(Length, left[t]) > 0)
  /\ UNCHANGED <<calls, multi_lock, call, left>>

\* One round of the loop of eb_read.
ReadLoop(t) ==
  /\ pc[t] \in {"in", "again"} /\ call[t] = "read" /\ left[t] > 0
  /\ \/ eof /\ Wait(t) /\ UNCHANGED <<data, left>>
     \/ /\ ~eof
        /\ Take(Lesser(Length, left[t]))
        /\ left' = [left EXCEPT ![t] = @ - Lesser(Length, @)]
        /\ UNCHANGED <<eof, mutex, pc>>
  /\ UNCHANGED <<calls, multi_lock, call>>

\* Every call reads at least one byte.
ReadDone(t) ==
  /\ pc[t] \in {"in", "again"} /\ call[t] = "read" /\ left[t] = 0
  /\ eof' = (eof \/ head = tail)
  /\ Leave(t, TRUE)
  /\ UNCHANGED <<calls, buffer, head, tail, accepted, delivered, multi_lock, call, left>>

-----------------------------------------------------------------------------
(* Writing.                                                                 *)

\* Mutation: the bytes are moved from the last one on.
MovedBackwards == [i \in 0..(Size - 1) |-> IF i < Length THEN buffer[tail - 1 - i] ELSE buffer[i]]

\* unsafe_move_head: the array after the contents were moved to its start.
Moved == [i \in 0..(Size - 1) |-> IF i < Length THEN buffer[head + i] ELSE buffer[i]]

unsafe_move_head ==
  buffer' = Moved /\ head' = 0 /\ tail' = Length

\* The bytes that are written when n are asked for.
Room(n) == Lesser(Size - Length, n)

\* The contents are moved, and n bytes are put behind them.
Put(n) ==
  /\ buffer' = [i \in 0..(Size - 1) |->
                  IF i \in Length..(Length + n - 1) THEN Nth(accepted + i - Length) ELSE Moved[i]]
  /\ head' = 0 /\ tail' = Length + n
  /\ accepted' = Nth(accepted + n)
  /\ UNCHANGED delivered

eb_try_write(t) ==
  /\ pc[t] = "in" /\ call[t] = "try_write"
  /\ Put(Room(left[t]))
  /\ eof' = (eof /\ Room(left[t]) = 0)
  /\ Leave(t, Room(left[t]) > 0)
  /\ UNCHANGED <<calls, multi_lock, call, left>>

\* The loop of eb_write: it moves the contents before it waits for room, and
\* after it has found some, but not each time it looks.
WriteWait(t) ==
  /\ call[t] = "write" /\ left[t] > 0
  /\ \/ pc[t] = "in" /\ Length = Size /\ unsafe_move_head
     \/ pc[t] = "again" /\ tail = Size /\ UNCHANGED <<buffer, head, tail>>
  /\ Wait(t)
  /\ UNCHANGED <<calls, eof, accepted, delivered, multi_lock, call, left>>

WriteBatch(t) ==
  /\ call[t] = "write" /\ left[t] > 0
  /\ \/ pc[t] = "in" /\ Length # Size
     \/ pc[t] = "again" /\ tail # Size
  /\ Put(Room(left[t]))
  /\ left' = [left EXCEPT ![t] = @ - Room(@)]
  /\ Goto(t, "in")
  /\ UNCHANGED <<calls, eof, mutex, multi_lock, call>>

WriteDone(t) ==
  /\ pc[t] = "in" /\ call[t] = "write" /\ left[t] = 0
  /\ eof' = FALSE
  /\ Leave(t, TRUE)
  /\ UNCHANGED <<calls, buffer, head, tail, accepted, delivered, multi_lock, call, left>>

-----------------------------------------------------------------------------
(* The other calls.                                                         *)

eb_flush(t) ==
  /\ pc[t] \in {"in", "again"} /\ call[t] = "flush"
  /\ IF eof THEN Leave(t, FALSE) ELSE Wait(t)
  /\ UNCHANGED <<calls, data, multi_lock, call, left>>

eb_lock(t) ==
  /\ pc[t] = "in" /\ call[t] = "lock"
  /\ multi_lock' = TRUE /\ Goto(t, "locked")
  /\ UNCHANGED <<calls, data, mutex, call, left>>

eb_unlock(t) ==
  /\ pc[t] = "locked"
  /\ multi_lock' = FALSE /\ mutex' = None /\ Goto(t, "out")
  /\ UNCHANGED <<calls, data, call, left>>

\* The mutex is kept for ever: whoever still comes waits for it.  All three
\* pointers become NULL.
eb_free(t) ==
  /\ pc[t] = "in" /\ call[t] = "free"
  /\ head' = 0 /\ tail' = 0
  /\ Goto(t, "freed")
  /\ UNCHANGED <<calls, buffer, eof, accepted, delivered, mutex, multi_lock, call, left>>

-----------------------------------------------------------------------------

Step(t) ==
  \/ Enter(t) \/ Notify(t) \/ eb_try_read(t) \/ ReadLoop(t) \/ ReadDone(t)
  \/ eb_try_write(t) \/ WriteWait(t) \/ WriteBatch(t) \/ WriteDone(t)
  \/ eb_flush(t) \/ eb_lock(t) \/ eb_unlock(t) \/ eb_free(t)

Next == \E t \in Threads : Start(t) \/ Step(t)

Polls(t) == calls[t] = {"try_read"}

(* A thread in a call goes on, and gets the mutex if others give it up      *)
(* again and again.  A thread that only calls eb_try_read is the serial     *)
(* port's handler: it never stops polling.                                  *)
Fairness ==
  \A t \in Threads : /\ SF_vars(Step(t))
                     /\ WF_vars(Polls(t) /\ Start(t))

Spec == Init /\ [][Next]_vars /\ Fairness

-----------------------------------------------------------------------------

(* Every variable has its type, and the pointers stay inside the array.     *)
TypeOK ==
  /\ buffer \in [0..(Size - 1) -> Bytes]
  /\ tail \in 0..Size /\ head \in 0..tail
  /\ eof \in BOOLEAN /\ multi_lock \in BOOLEAN
  /\ mutex \in Threads \cup {None}
  /\ calls \in [Threads -> SUBSET AllCalls]
  /\ pc \in [Threads -> {"out", "enter", "in", "again", "waiting", "notified", "notify",
                         "locked", "freed"}]
  /\ call \in [Threads -> AllCalls]
  /\ left \in [Threads -> 0..MaxCount]
  /\ accepted \in Bytes /\ delivered \in Bytes

(* The buffer is a queue: it holds the bytes that were written and not yet  *)
(* read, in order, however the contents were moved in between, until it is  *)
(* freed.                                                                   *)
Fifo == (\A t \in Threads : pc[t] # "freed") =>
  /\ \A i \in 0..(Length - 1) : buffer[head + i] = Nth(delivered + i)
  /\ accepted = Nth(delivered + Length)

\* A writer that waits for room in the middle of its data.
Writing(t) == call[t] = "write" /\ pc[t] \in {"waiting", "notified"}

(* EBF_EOF, "No data is remaining in the read buffer", says so whenever the *)
(* mutex is free and no writer is in the middle of its data.                *)
EofExact == mutex = None /\ (\A t \in Threads : ~Writing(t)) => (eof <=> head = tail)

(* The two together: the buffer is a queue that knows whether it is empty,  *)
(* whatever calls of other threads come in between.                         *)
BufferIsQueue == Fifo /\ EofExact

Waits(t, cl) == call[t] = cl /\ pc[t] \in {"enter", "in", "again", "waiting", "notified"}
Drained == eof /\ \A t \in Threads : call[t] \in {"write", "try_write"} => pc[t] = "out"

\* As at boot: debug_flush is called by one thread, and nobody else waits.
OnlyWaiter(t) ==
  \A u \in Threads : calls[u] \subseteq IF u = t THEN {"flush"} ELSE {"try_read", "try_write"}

(* "Waits until EBF_EOF has been set" (eb_flush): once the data are drained *)
(* for good, a thread in eb_flush returns, if no other thread waits for the *)
(* same condition.                                                          *)
FlushReturns == <>[]Drained => \A t \in Threads : OnlyWaiter(t) => []<>~Waits(t, "flush")

(* "Waits until all data has been written to the buffer" (eb_write), and    *)
(* then returns, while the other side goes on reading.                      *)
WriteReturns == \A t \in Threads : Waits(t, "write") ~> ~Waits(t, "write")

=============================================================================
