------------------------------ MODULE Monitor ------------------------------
(***************************************************************************)
(* What thread_mutex and thread_cond promise their users: one owner, and a *)
(* wait that gives the mutex up and becomes a waiter in one step, so that  *)
(* a notify by the next owner is not missed.                               *)
(***************************************************************************)
CONSTANTS Threads, None

VARIABLES
  owner,     \* the thread that holds the mutex, or None
  waiting    \* the threads in thread_cond_wait that are not yet notified

mvars == <<owner, waiting>>

MonitorInit == owner = None /\ waiting = {}

MonitorAcquire(t) ==
  /\ owner = None /\ t \notin waiting
  /\ owner' = t /\ UNCHANGED waiting

MonitorRelease(t) ==
  /\ owner = t
  /\ owner' = None /\ UNCHANGED waiting

MonitorWait(t) ==
  /\ owner = t
  /\ owner' = None /\ waiting' = waiting \cup {t}

MonitorNotify(t) ==
  /\ t \in waiting
  /\ waiting' = waiting \ {t} /\ UNCHANGED owner

MonitorNext ==
  \E t \in Threads :
    MonitorAcquire(t) \/ MonitorRelease(t) \/ MonitorWait(t) \/ MonitorNotify(t)

MonitorSpec == MonitorInit /\ [][MonitorNext]_mvars

=============================================================================
