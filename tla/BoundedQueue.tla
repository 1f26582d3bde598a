---------------------------- MODULE BoundedQueue ----------------------------
(***************************************************************************)
(* What fifo_t promises its user: a queue of at most Capacity bytes.  A    *)
(* write takes bytes until all are in or the queue is full, a read hands   *)
(* out the oldest bytes until it has enough or the queue is empty, and     *)
(* both return the number of bytes they moved.                             *)
(***************************************************************************)
EXTENDS Naturals, Sequences

CONSTANTS Byte, Capacity, MaxCall

VARIABLES
  queue,   \* the bytes written and not read yet, oldest first
  call,    \* the function under way: "none", "write" or "read"
  nbytes,  \* its parameter nbytes
  data,    \* write: the bytes to take; read: the bytes handed out so far
  i,       \* bytes moved by the call
  ret      \* what the last call returned

vars == <<queue, call, nbytes, data, i, ret>>

Arguments == UNION {[1..n -> Byte] : n \in 0..MaxCall}

Init ==
  /\ queue = <<>> /\ call = "none"
  /\ nbytes = 0 /\ data = <<>> /\ i = 0 /\ ret = 0

CallWrite(d) ==
  /\ call = "none" /\ call' = "write"
  /\ data' = d /\ nbytes' = Len(d) /\ i' = 0
  /\ UNCHANGED <<queue, ret>>

CallRead(n) ==
  /\ call = "none" /\ call' = "read"
  /\ data' = <<>> /\ nbytes' = n /\ i' = 0
  /\ UNCHANGED <<queue, ret>>

Put ==
  /\ call = "write" /\ i < nbytes /\ Len(queue) < Capacity
  /\ queue' = Append(queue, data[i + 1])
  /\ i' = i + 1
  /\ UNCHANGED <<call, nbytes, data, ret>>

Get ==
  /\ call = "read" /\ i < nbytes /\ queue # <<>>
  /\ data' = Append(data, Head(queue))
  /\ queue' = Tail(queue)
  /\ i' = i + 1
  /\ UNCHANGED <<call, nbytes, ret>>

\* A call stops short only at the limit of the queue.
Return ==
  /\ \/ call = "write" /\ (i = nbytes \/ Len(queue) = Capacity)
     \/ call = "read" /\ (i = nbytes \/ queue = <<>>)
  /\ call' = "none" /\ ret' = i
  /\ data' = <<>> /\ nbytes' = 0 /\ i' = 0
  /\ UNCHANGED queue

Next ==
  \/ \E d \in Arguments : CallWrite(d)
  \/ \E n \in 0..MaxCall : CallRead(n)
  \/ Put \/ Get \/ Return

Spec == Init /\ [][Next]_vars
=============================================================================
