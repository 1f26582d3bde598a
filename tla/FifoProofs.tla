----------------------------- MODULE FifoProofs -----------------------------
(***************************************************************************)
(* For a ring buffer of any size, bytes of any kind and calls of any       *)
(* length: fifo_t is a queue of Size - 1 bytes.                            *)
(*                                                                         *)
(* The invariant is TypeOK: head and tail stay within the buffer.  All     *)
(* else follows from where a slot lies: the slots between tail and head    *)
(* are numbered 1..Count, no two of them are one slot, and head is not     *)
(* among them.                                                             *)
(***************************************************************************)
EXTENDS Fifo, TLAPS

-----------------------------------------------------------------------------
(* Arithmetic of the ring.                                                 *)

\* The slots of the waiting bytes are slots of the buffer, and the next byte
\* is written to none of them.
LEMMA Waiting ==
  ASSUME head \in Slots, tail \in Slots
  PROVE  /\ Count \in 0..(Size - 1)
         /\ \A k \in 1..Count : Slot(k) \in Slots /\ Slot(k) # head
         /\ Slot(Count + 1) = head
BY FifoAssumption DEF Count, Slot, Slots

\* Tests on head and tail are tests on the number of waiting bytes.
LEMMA Limits ==
  ASSUME head \in Slots, tail \in Slots
  PROVE  /\ Full <=> Count = Size - 1
         /\ tail = head <=> Count = 0
         /\ Advance(head) \in Slots /\ Advance(tail) \in Slots
BY FifoAssumption DEF Count, Slots, Full, Advance

\* Moving the head adds a slot at the end.
LEMMA HeadMoves ==
  ASSUME head \in Slots, tail \in Slots, ~Full,
         head' = Advance(head), tail' = tail
  PROVE  Count' = Count + 1 /\ \A k \in 1..Count' : Slot(k)' = Slot(k)
BY FifoAssumption DEF Count, Slot, Slots, Full, Advance

\* Moving the tail takes the first slot away.
LEMMA TailMoves ==
  ASSUME head \in Slots, tail \in Slots, tail # head,
         head' = head, tail' = Advance(tail)
  PROVE  /\ Count \in Nat \ {0} /\ Slot(1) = tail
         /\ Count' = Count - 1
         /\ \A k \in 1..Count' : Slot(k)' = Slot(k + 1)
BY FifoAssumption DEF Count, Slot, Slots, Advance

-----------------------------------------------------------------------------
(* Types.                                                                  *)

\* An argument of fifo_write is a sequence of bytes that is not too long.
LEMMA ArgumentTypes ==
  ASSUME NEW d \in Arguments
  PROVE  d \in Seq(Byte) /\ Len(d) \in 0..MaxCall
<1>1. PICK n \in 0..MaxCall : d \in [1..n -> Byte]
  BY DEF Arguments
<1>2. n \in Nat
  BY <1>1, FifoAssumption
<1>3. d \in Seq(Byte) /\ Len(d) = n
  BY <1>1, <1>2
<1> QED
  BY <1>1, <1>3

\* The indices never leave the buffer, and the loop counters never leave the
\* range of their call.
THEOREM TypeCorrect == Spec => []TypeOK
<1>1. Init => TypeOK
  <2> SUFFICES ASSUME Init PROVE TypeOK
    OBVIOUS
  <2>1. 0 \in Slots /\ 0 \in 0..MaxCall /\ 0 \in 0..0
    BY FifoAssumption DEF Slots
  <2>2. <<>> \in Seq(Byte) /\ Len(<<>>) = 0
    OBVIOUS
  <2> QED
    BY <2>1, <2>2 DEF Init, TypeOK
<1>2. TypeOK /\ [Next]_vars => TypeOK'
  <2> SUFFICES ASSUME TypeOK, [Next]_vars PROVE TypeOK'
    OBVIOUS
  <2> USE FifoAssumption
  <2>1. ASSUME NEW d \in Arguments, CallWrite(d) PROVE TypeOK'
    BY <2>1, ArgumentTypes DEF CallWrite, TypeOK
  <2>2. ASSUME NEW n \in 0..MaxCall, CallRead(n) PROVE TypeOK'
    BY <2>2 DEF CallRead, TypeOK
  <2>3. CASE WriteByte
    <3>1. head' \in Slots
      BY <2>3, Limits DEF WriteByte, TypeOK
    <3>2. data[i + 1] \in Byte
      BY <2>3 DEF WriteByte, TypeOK
    <3>3. buf' \in [Slots -> Byte]
      BY <2>3, <3>2 DEF WriteByte, TypeOK
    <3> QED
      BY <2>3, <3>1, <3>3 DEF WriteByte, TypeOK
  <2>4. CASE ReadByte
    <3>1. tail' \in Slots
      BY <2>4, Limits DEF ReadByte, TypeOK
    <3>2. buf[tail] \in Byte
      BY DEF TypeOK
    <3>3. data' \in Seq(Byte) /\ Len(data') = Len(data) + 1
      BY <2>4, <3>2 DEF ReadByte, TypeOK
    <3> QED
      BY <2>4, <3>1, <3>3 DEF ReadByte, TypeOK
  <2>5. CASE WriteReturns
    BY <2>5 DEF WriteReturns, Returns, ring, TypeOK
  <2>6. CASE ReadReturns
    BY <2>6 DEF ReadReturns, Returns, ring, TypeOK
  <2>7. CASE UNCHANGED vars
    BY <2>7 DEF vars, TypeOK
  <2> QED
    BY <2>1, <2>2, <2>3, <2>4, <2>5, <2>6, <2>7 DEF Next, Work
<1> QED
  BY <1>1, <1>2, PTL DEF Spec

-----------------------------------------------------------------------------
(* The queue.                                                              *)

\* The contents are a sequence of bytes.
LEMMA ContentsTypes ==
  ASSUME TypeOK
  PROVE  Contents \in Seq(Byte) /\ Len(Contents) = Count /\ Count \in Nat
<1>1. Count \in Nat /\ \A k \in 1..Count : Slot(k) \in Slots
  BY Waiting, FifoAssumption DEF TypeOK
<1>2. \A k \in 1..Count : buf[Slot(k)] \in Byte
  BY <1>1 DEF TypeOK
<1> QED
  BY <1>1, <1>2 DEF Contents

\* A sequence is the function of its elements.
LEMMA Elements ==
  ASSUME NEW S, NEW s \in Seq(S)
  PROVE  s = [k \in 1..Len(s) |-> s[k]]
OBVIOUS

\* A write of one byte appends it, and leaves those that wait alone.
LEMMA WritePuts ==
  ASSUME TypeOK, WriteByte
  PROVE  Queue!Put
<1>1. Count' = Count + 1 /\ \A k \in 1..Count' : Slot(k)' = Slot(k)
  BY HeadMoves DEF TypeOK, WriteByte
<1>2. /\ Count \in Nat /\ Slot(Count + 1) = head
      /\ \A k \in 1..Count : Slot(k) \in Slots /\ Slot(k) # head
  BY Waiting, FifoAssumption DEF TypeOK
<1>3. buf' = [buf EXCEPT ![head] = data[i + 1]] /\ head \in Slots
  BY DEF WriteByte, TypeOK
<1>4. \A k \in 1..Count : buf'[Slot(k)'] = buf[Slot(k)]
  BY <1>1, <1>2, <1>3 DEF TypeOK
<1>5. ASSUME NEW k \in Nat, k = Count + 1 PROVE buf'[Slot(k)'] = data[i + 1]
  <2>1. k \in 1..Count' /\ Slot(k) = head
    BY <1>1, <1>2, <1>5
  <2>2. Slot(k)' = head
    BY <1>1, <2>1
  <2> QED
    BY <1>3, <2>2 DEF TypeOK
<1>6. Contents' = [k \in 1..(Count + 1) |-> buf'[Slot(k)']]
  BY <1>1 DEF Contents
<1>7. Contents \in Seq(Byte) /\ Len(Contents) = Count
  BY ContentsTypes
<1>8. Contents' = Append(Contents, data[i + 1])
  <2>1. Append(Contents, data[i + 1])
          = [k \in 1..(Count + 1) |-> IF k = Count + 1 THEN data[i + 1]
                                      ELSE Contents[k]]
    BY <1>2, <1>7
  <2>2. \A k \in 1..Count : Contents[k] = buf[Slot(k)]
    BY DEF Contents
  <2> QED
    BY <1>2, <1>4, <1>5, <1>6, <2>1, <2>2, Z3
<1>9. Len(Contents) < Size - 1
  BY <1>7, Limits, Waiting, FifoAssumption DEF TypeOK, WriteByte
<1> QED
  BY <1>8, <1>9 DEF WriteByte, Queue!Put

\* A read of one byte takes the oldest.
LEMMA ReadGets ==
  ASSUME TypeOK, ReadByte
  PROVE  Queue!Get
<1>1. /\ Count \in Nat \ {0} /\ Slot(1) = tail
      /\ Count' = Count - 1
      /\ \A k \in 1..Count' : Slot(k)' = Slot(k + 1)
  BY TailMoves DEF TypeOK, ReadByte
<1>2. Contents \in Seq(Byte) /\ Len(Contents) = Count
  BY ContentsTypes
<1>3. Contents # <<>> /\ Head(Contents) = buf[tail]
  BY <1>1, <1>2 DEF Contents
<1>4. Contents' = [k \in 1..(Count - 1) |-> buf[Slot(k + 1)]]
  BY <1>1 DEF Contents, ReadByte
<1>5. Tail(Contents) = [k \in 1..(Count - 1) |-> Contents[k + 1]]
  <2>1. /\ Tail(Contents) \in Seq(Byte)
        /\ Len(Tail(Contents)) = Count - 1
        /\ \A k \in 1..(Count - 1) : Tail(Contents)[k] = Contents[k + 1]
    BY <1>1, <1>2, <1>3
  <2>2. Tail(Contents) = [k \in 1..(Count - 1) |-> Tail(Contents)[k]]
    BY <2>1, Elements
  <2> QED
    BY <2>1, <2>2
<1>6. \A k \in 1..(Count - 1) : Contents[k + 1] = buf[Slot(k + 1)]
  BY <1>1 DEF Contents
<1>7. Contents' = Tail(Contents)
  BY <1>4, <1>5, <1>6
<1> QED
  BY <1>3, <1>7 DEF ReadByte, Queue!Get

\* fifo_t implements the bounded queue: every behaviour of the ring buffer is
\* one of a queue of Size - 1 bytes.
THEOREM Implementation == Spec => ImplementsQueue
<1>1. Init => Queue!Init
  <2> SUFFICES ASSUME Init PROVE Queue!Init
    OBVIOUS
  <2>1. Count = 0
    BY DEF Init, Count
  <2>2. Contents = <<>>
    BY <2>1 DEF Contents
  <2> QED
    BY <2>2 DEF Init, Queue!Init
<1>2. TypeOK /\ [Next]_vars => [Queue!Next]_Queue!vars
  <2> SUFFICES ASSUME TypeOK, [Next]_vars PROVE [Queue!Next]_Queue!vars
    OBVIOUS
  <2>1. ASSUME UNCHANGED ring PROVE Contents' = Contents
    BY <2>1 DEF ring, Contents, Count, Slot
  <2>2. ASSUME NEW d \in Arguments, CallWrite(d) PROVE Queue!CallWrite(d)
    BY <2>1, <2>2 DEF CallWrite, Queue!CallWrite, ring
  <2>3. ASSUME NEW n \in 0..MaxCall, CallRead(n) PROVE Queue!CallRead(n)
    BY <2>1, <2>3 DEF CallRead, Queue!CallRead, ring
  <2>4. CASE WriteReturns \/ ReadReturns
    <3>1. Contents' = Contents
      BY <2>1, <2>4 DEF WriteReturns, ReadReturns, Returns
    <3>2. /\ Full => Len(Contents) = Size - 1
          /\ tail = head => Contents = <<>>
      <4>1. Contents \in Seq(Byte) /\ Len(Contents) = Count
        BY ContentsTypes
      <4>2. /\ Full => Count = Size - 1
            /\ tail = head => Count = 0
        BY Limits DEF TypeOK
      <4>3. Count = 0 => Contents = <<>>
        BY <4>1
      <4> QED
        BY <4>1, <4>2, <4>3
    <3>3. CASE WriteReturns
      BY <3>1, <3>2, <3>3 DEF WriteReturns, Returns, Queue!Return, Queue!Next
    <3>4. CASE ReadReturns
      BY <3>1, <3>2, <3>4 DEF ReadReturns, Returns, Queue!Return, Queue!Next
    <3> QED
      BY <2>4, <3>3, <3>4
  <2>5. CASE UNCHANGED vars
    <3>1. Contents' = Contents
      BY <2>1, <2>5 DEF vars, ring
    <3> QED
      BY <2>5, <3>1 DEF vars, Queue!vars
  <2>6. Queue!Arguments = Arguments
    BY DEF Arguments, Queue!Arguments
  <2> QED
    BY <2>2, <2>3, <2>4, <2>5, <2>6, WritePuts, ReadGets
       DEF Next, Work, Queue!Next
<1> QED
  BY <1>1, <1>2, TypeCorrect, PTL DEF Spec, Queue!Spec, ImplementsQueue
=============================================================================
