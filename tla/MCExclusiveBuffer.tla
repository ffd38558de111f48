------------------------- MODULE MCExclusiveBuffer -------------------------
(* ExclusiveBuffer with the callers the kernel has, and all it could have.  *)
EXTENDS ExclusiveBuffer, TLC

CONSTANTS t1, t2, t3

\* Two threads that make every call there is.
AnyCalls == (t1 :> AllCalls) @@ (t2 :> AllCalls) @@ (t3 :> {})

\* kdprintf and debug_flush on one side, the serial port's handler on the other.
DebugCalls ==
  (t1 :> {"try_write"}) @@ (t2 :> {"flush"}) @@ (t3 :> {"try_read"})

\* A thread that reads and one that writes, with calls of both kinds, and one
\* that waits for the end of the data.
MixedCalls ==
  (t1 :> {"write", "try_write"}) @@ (t2 :> {"read", "try_read"}) @@ (t3 :> {"flush", "lock"})

AllCallers == {AnyCalls, DebugCalls, MixedCalls}

\* write(2) on a serial port.
PortCallers == {(t1 :> {"write"}) @@ (t2 :> {}) @@ (t3 :> {"try_read"})}

=============================================================================
