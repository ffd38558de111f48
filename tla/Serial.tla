-------------------------------- MODULE Serial --------------------------------
(***************************************************************************)
(* A serial port, arch/i386/serial.c: the thread that moves bytes between  *)
(* the port and the buffers of its subscribers, the interrupt that wakes   *)
(* it, and the character devices of the port, which write to their output  *)
(* buffer and read from their input buffer.  An exclusive_buffer is a      *)
(* bounded queue here (module ExclusiveBuffer); the port is external.      *)
(***************************************************************************)
EXTENDS Integers, Sequences

CONSTANTS
  Subscribers,      \* the subscribed devices, in the order of their slots
  OwnDevices,       \* those of them that belong to the port
  MaxSubscribers,   \* MAX_SUBSCRIBERS
  BufferSize,       \* the size of a device's buffers
  FifoSize,         \* COM_FIFO_SIZE
  MaxBytes          \* bound: bytes each device writes, and bytes that come in

Devices == {Subscribers[i] : i \in DOMAIN Subscribers}

ASSUME SerialAssumption ==
  /\ Subscribers \in Seq(STRING \ {"line"}) /\ Len(Subscribers) <= MaxSubscribers
  /\ \A i, j \in DOMAIN Subscribers : Subscribers[i] = Subscribers[j] => i = j
  /\ OwnDevices \subseteq Devices
  /\ {BufferSize, FifoSize, MaxBytes} \subseteq Nat \ {0}

VARIABLES
  input, output,    \* the two buffers of each device
  rxFifo, txFifo,   \* the port's FIFOs
  wire,             \* history: the bytes that were handed to the port
  arrived, taken,   \* how many bytes came in, how many the handler has read
  written,          \* how many bytes each device has accepted
  handler,          \* where serial_handler_main is
  batch             \* the bytes try_serial_write has collected

serialVars == <<input, output, rxFifo, txFifo, wire, arrived, taken, written, handler, batch>>

Received(n) == <<"line", n>>

SerialInit ==
  /\ input = [d \in Devices |-> <<>>] /\ output = [d \in Devices |-> <<>>]
  /\ rxFifo = <<>> /\ txFifo = <<>> /\ wire = <<>>
  /\ arrived = 0 /\ taken = 0
  /\ written = [d \in Devices |-> 0]
  /\ handler = "check" /\ batch = <<>>

serial_received == rxFifo # <<>>
is_transmit_empty == txFifo = <<>>

\* eb_try_write of one byte: dropped when there is no room.
TryWrite(b, byte) == IF Len(b) < BufferSize THEN Append(b, byte) ELSE b

\* thread_cond_notify(&(s->data_available)): a handler that does not wait yet
\* misses it.
NotifyHandler == handler' = IF handler = "waiting" THEN "check" ELSE handler

-----------------------------------------------------------------------------
\* The port and its interrupt (com_irq_handler).

ByteArrives ==
  /\ arrived < MaxBytes /\ Len(rxFifo) < FifoSize
  /\ rxFifo' = Append(rxFifo, Received(arrived + 1)) /\ arrived' = arrived + 1
  /\ NotifyHandler
  /\ UNCHANGED <<input, output, txFifo, wire, taken, written, batch>>

TransmitDone ==
  /\ txFifo # <<>>
  /\ txFifo' = <<>>
  /\ NotifyHandler
  /\ UNCHANGED <<input, output, rxFifo, wire, arrived, taken, written, batch>>

-----------------------------------------------------------------------------
\* serial_handler_main.  Its mutex keeps it apart from subscriptions only.

CheckPort ==
  /\ handler = "check"
  /\ handler' = IF serial_received THEN "read" ELSE IF is_transmit_empty THEN "fill" ELSE "sleep"
  /\ UNCHANGED <<input, output, rxFifo, txFifo, wire, arrived, taken, written, batch>>

SleepHandler ==
  /\ handler = "sleep"
  /\ handler' = "waiting"
  /\ UNCHANGED <<input, output, rxFifo, txFifo, wire, arrived, taken, written, batch>>

\* try_serial_read: the output buffers get what came in.
try_serial_read ==
  /\ handler = "read"
  /\ IF serial_received
     THEN /\ output' = [d \in Devices |-> TryWrite(output[d], Head(rxFifo))]
          /\ rxFifo' = Tail(rxFifo) /\ taken' = taken + 1
          /\ UNCHANGED handler
     ELSE /\ handler' = IF is_transmit_empty THEN "fill" ELSE "check"
          /\ UNCHANGED <<output, rxFifo, taken>>
  /\ UNCHANGED <<input, txFifo, wire, arrived, written, batch>>

Ready == {i \in DOMAIN Subscribers : output[Subscribers[i]] # <<>>}
FirstReady == Subscribers[CHOOSE i \in Ready : \A j \in Ready : i <= j]

\* Mutation: a byte is taken when there is no room for it in the FIFO.
FillOverrun ==
  /\ handler = "fill"
  /\ IF Len(batch) <= FifoSize /\ Ready # {}
     THEN /\ batch' = IF Len(batch) < FifoSize THEN Append(batch, <<FirstReady, Head(output[FirstReady])>>) ELSE batch
          /\ output' = [output EXCEPT ![FirstReady] = Tail(@)]
          /\ handler' = IF Len(batch) = FifoSize THEN "send" ELSE handler
     ELSE handler' = "send" /\ UNCHANGED <<output, batch>>
  /\ UNCHANGED <<input, rxFifo, txFifo, wire, arrived, taken, written>>

\* try_serial_write: each byte is the next one of the first subscriber that has
\* one; then all of them are sent.
FillBatch ==
  /\ handler = "fill"
  /\ IF Len(batch) < FifoSize /\ Ready # {}
     THEN /\ batch' = Append(batch, <<FirstReady, Head(output[FirstReady])>>)
          /\ output' = [output EXCEPT ![FirstReady] = Tail(@)]
          /\ UNCHANGED handler
     ELSE handler' = "send" /\ UNCHANGED <<output, batch>>
  /\ UNCHANGED <<input, rxFifo, txFifo, wire, arrived, taken, written>>

SendBatch ==
  /\ handler = "send"
  /\ txFifo' = batch /\ wire' = wire \o batch /\ batch' = <<>>
  /\ handler' = "check"
  /\ UNCHANGED <<input, output, rxFifo, arrived, taken, written>>

-----------------------------------------------------------------------------
\* The character devices: eb_write of one byte waits for room, and serial_write
\* notifies the handler of the device's own port after it; com2 is subscribed
\* to com1.  A read waits for the input buffer.

serial_cdev_write(d) ==
  /\ written[d] < MaxBytes /\ Len(output[d]) < BufferSize
  /\ output' = [output EXCEPT ![d] = Append(@, <<d, written[d] + 1>>)]
  /\ written' = [written EXCEPT ![d] = @ + 1]
  /\ IF d \in OwnDevices THEN NotifyHandler ELSE UNCHANGED handler
  /\ UNCHANGED <<input, rxFifo, txFifo, wire, arrived, taken, batch>>

SerialNext ==
  \/ ByteArrives \/ TransmitDone
  \/ CheckPort \/ SleepHandler \/ try_serial_read \/ FillBatch \/ SendBatch
  \/ \E d \in Devices : serial_cdev_write(d)

SerialSpec == SerialInit /\ [][SerialNext]_serialVars

-----------------------------------------------------------------------------

\* What the handler has taken, in its order: <<subscriber, byte>>.
Taken == wire \o batch

\* The places of bytes that device d wrote: received ones are among them.
Sent(d) == {i \in DOMAIN Taken : Taken[i][1] = d /\ Taken[i][2][1] = d}
Unsent(d) == {i \in DOMAIN output[d] : output[d][i][1] = d}

(* What a device writes goes over the line once and in order: what was sent *)
(* for it and what is still in its buffer are the bytes that its writes     *)
(* accepted, whatever comes in and however the buffers share the port.      *)
WritesSentInOrder ==
  \A d \in Devices :
    /\ {Taken[i][2][2] : i \in Sent(d)} \cup {output[d][i][2] : i \in Unsent(d)} = 1..written[d]
    /\ \A i, j \in Sent(d) : i < j => Taken[i][2][2] < Taken[j][2][2]
    /\ \A i, j \in Unsent(d) : i < j => output[d][i][2] < output[d][j][2]
    /\ \A i \in Sent(d), j \in Unsent(d) : Taken[i][2][2] < output[d][j][2]

=============================================================================
