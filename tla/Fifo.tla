-------------------------------- MODULE Fifo --------------------------------
(***************************************************************************)
(* fifo.c: the ring buffer in which genindex collects the segments of a    *)
(* subtitle.  Full and empty are told apart by head and tail alone, so one *)
(* byte of the buffer stays unused.                                        *)
(*                                                                         *)
(* A step is one iteration of the loop in fifo_write or fifo_read, so that *)
(* the order of test, copy and wrap-around is the code's.                  *)
(***************************************************************************)
EXTENDS Naturals, Sequences

CONSTANTS
  Byte,     \* the values of a byte
  Size,     \* parameter size of fifo_init
  MaxCall   \* bound: nbytes of one call

ASSUME FifoAssumption == Size \in Nat \ {0} /\ MaxCall \in Nat

VARIABLES
  head, tail, buf,  \* fields of fifo_t
  call,    \* the function under way: "none", "write" or "read"
  nbytes,  \* its parameter nbytes
  data,    \* write: its parameter buf; read: what it has copied to its buf
  i,       \* its loop counter
  ret      \* what the last call returned

ring == <<head, tail, buf>>
vars == <<head, tail, buf, call, nbytes, data, i, ret>>

Slots == 0..(Size - 1)
Arguments == UNION {[1..n -> Byte] : n \in 0..MaxCall}

-----------------------------------------------------------------------------

\* fifo_init does not clear the buffer.
Init ==
  /\ head = 0 /\ tail = 0 /\ buf \in [Slots -> Byte]
  /\ call = "none" /\ nbytes = 0 /\ data = <<>> /\ i = 0 /\ ret = 0

\* Slip: the last slot is not followed by the first.
AdvanceOverrun(x) == IF x = Size THEN 0 ELSE x + 1

\* The next slot: increment and wrap around.
Advance(x) == IF x + 1 = Size THEN 0 ELSE x + 1

\* Slip: the wrap-around is forgotten in the test for a full buffer.
FullUnwrapped == head + 1 = tail

\* The head has run into the tail.
Full == head + 1 = tail \/ (head + 1 = Size /\ tail = 0)

CallWrite(d) ==
  /\ call = "none" /\ call' = "write"
  /\ data' = d /\ nbytes' = Len(d) /\ i' = 0
  /\ UNCHANGED <<head, tail, buf, ret>>

CallRead(n) ==
  /\ call = "none" /\ call' = "read"
  /\ data' = <<>> /\ nbytes' = n /\ i' = 0
  /\ UNCHANGED <<head, tail, buf, ret>>

WriteByte ==
  /\ call = "write" /\ i < nbytes /\ ~Full
  /\ buf' = [buf EXCEPT ![head] = data[i + 1]]
  /\ head' = Advance(head)
  /\ i' = i + 1
  /\ UNCHANGED <<tail, call, nbytes, data, ret>>

ReadByte ==
  /\ call = "read" /\ i < nbytes /\ tail # head
  /\ data' = Append(data, buf[tail])
  /\ tail' = Advance(tail)
  /\ i' = i + 1
  /\ UNCHANGED <<head, buf, call, nbytes, ret>>

Returns ==
  /\ call' = "none" /\ ret' = i
  /\ data' = <<>> /\ nbytes' = 0 /\ i' = 0
  /\ UNCHANGED ring

\* Slip: the loop spins until there is room instead of returning the count.
WriteSpins ==
  /\ call = "write"
  /\ \/ i = nbytes /\ Returns
     \/ i < nbytes /\ Full /\ UNCHANGED vars

WriteReturns == call = "write" /\ (i = nbytes \/ Full) /\ Returns
ReadReturns == call = "read" /\ (i = nbytes \/ tail = head) /\ Returns

Work == WriteByte \/ ReadByte \/ WriteReturns \/ ReadReturns

Next ==
  \/ \E d \in Arguments : CallWrite(d)
  \/ \E n \in 0..MaxCall : CallRead(n)
  \/ Work

Spec == Init /\ [][Next]_vars

\* One thread runs the call to its end.
FairSpec == Spec /\ WF_vars(Work)

-----------------------------------------------------------------------------
(* Properties.                                                             *)

TypeOK ==
  /\ head \in Slots /\ tail \in Slots
  /\ buf \in [Slots -> Byte]
  /\ call \in {"none", "write", "read"}
  /\ nbytes \in 0..MaxCall
  /\ data \in Seq(Byte)
  /\ i \in 0..nbytes /\ ret \in 0..MaxCall
  /\ call = "write" => Len(data) = nbytes
  /\ call = "read" => Len(data) = i

\* The bytes between tail and head are the queue.
Count == IF tail <= head THEN head - tail ELSE head - tail + Size
Slot(k) == IF tail + k <= Size THEN tail + k - 1 ELSE tail + k - 1 - Size
Contents == [k \in 1..Count |-> buf[Slot(k)]]

Queue == INSTANCE BoundedQueue WITH queue <- Contents, Capacity <- Size - 1

\* The ring buffer is a queue of Size - 1 bytes: no byte is lost, doubled,
\* overwritten or out of order, over any number of wrap-arounds, and a call
\* stops short only when the queue is full, or empty.
ImplementsQueue == Queue!Spec

\* A call comes back even when the queue has too little room, or too few bytes.
CallReturns == call # "none" ~> call = "none"
=============================================================================
