----------------------------- MODULE PesStream ------------------------------
(***************************************************************************)
(* What the parser of class cPES promises: it goes through a stream of     *)
(* bytes from front to back, finds the packets at their start codes and    *)
(* hands on those it is told to, whole and in their order, however the     *)
(* stream is cut into the chunks of bytes that are read.                   *)
(*                                                                         *)
(* Nothing here knows of chunks, but for two weaknesses of the code: a     *)
(* read of less than four bytes may cost a start code, and a packet of     *)
(* private stream 1 that genindex --build takes apart may be damaged.  No  *)
(* other packet is damaged with it as long as its first piece of payload   *)
(* is longer than the four bytes that are stripped.                        *)
(***************************************************************************)
EXTENDS Integers, Sequences

CONSTANT Streams  \* the streams to choose from, as sequences of bytes

VARIABLES
  conf,    \* what genindex does with the packets: "index", "rewrite" or "build"
  stream,  \* the bytes to read
  short,   \* a read has returned less than four bytes
  pos,     \* bytes that have been dealt with
  pkt,     \* where the packet begins that pos is in, or None
  out      \* bytes handed on, each with the place in the stream it comes from

vars == <<conf, stream, short, pos, pkt, out>>

None == -1

Byte(p) == IF p < Len(stream) THEN stream[p + 1] ELSE 0
Word(p) == 256 * Byte(p) + Byte(p + 1)

Cell(p) == [at |-> p, val |-> Byte(p)]
Cells(p, n) == [i \in 1..n |-> Cell(p + i - 1)]

-----------------------------------------------------------------------------
(* The syntax of a packet, ISO 13818-1 and ISO 11172-1.                    *)

StartCode(p) ==
  p + 4 <= Len(stream) /\ <<Byte(p), Byte(p + 1), Byte(p + 2)>> = <<0, 0, 1>>

StreamId(p) == Byte(p + 3)

\* Packets of video, audio and private stream 1 have a header of variable size.
Elementary == {189} \cup 192..239
Sized == {190, 191} \cup Elementary

\* The first byte of such a header that is not stuffing.
Flags(p) == CHOOSE q \in (p + 6)..(Len(stream) + 6) :
              /\ Byte(q) \div 64 # 3
              /\ \A r \in (p + 6)..(q - 1) : Byte(r) \div 64 = 3

ElementaryHeader(p) ==
  LET q == Flags(p)
      r == IF Byte(q) \div 64 = 1 THEN q + 2 ELSE q  \* after the size of a buffer
      stamps == CASE (Byte(r) \div 16) % 4 = 2 -> 5  \* PTS
                  [] (Byte(r) \div 16) % 4 = 3 -> 10 \* PTS and DTS
                  [] OTHER -> 1
  IN IF Byte(q) \div 64 = 2 THEN q + 3 + Byte(q + 2) - p ELSE r + stamps - p

HeaderSize(p) ==
  CASE StreamId(p) = 186 -> IF Byte(p + 4) \div 64 = 1 THEN 14 + (Byte(p + 13) % 8) ELSE 12
    [] StreamId(p) = 187 -> 6 + Word(p + 4)
    [] StreamId(p) \in {190, 191} -> 6
    [] StreamId(p) \in Elementary -> ElementaryHeader(p)
    [] OTHER -> 4

Size(p) == IF StreamId(p) \in Sized THEN 6 + Word(p + 4) ELSE HeaderSize(p)

Complete(p) == StartCode(p) /\ p + HeaderSize(p) <= Len(stream)
Valid(p) == StreamId(p) > 184 /\ Size(p) >= HeaderSize(p)

Private(p) == conf = "build" /\ StreamId(p) = 189
Passed(p) == conf = "index" \/ StreamId(p) \in {189, 190} \cup 192..207 \cup 224..239

-----------------------------------------------------------------------------
Init ==
  /\ conf \in {"index", "rewrite", "build"} /\ stream \in Streams
  /\ short = FALSE /\ pos = 0 /\ pkt = None /\ out = <<>>

Advance(n) ==
  /\ pos' = pos + n
  /\ UNCHANGED <<conf, stream>>

\* Bytes none of which starts a packet.
Skip(n) ==
  /\ pkt = None /\ \A p \in pos..(pos + n - 1) : ~StartCode(p)
  /\ Advance(n) /\ UNCHANGED <<pkt, out>>

\* After a short read a start code may be overlooked.
Overlook(n) ==
  /\ pkt = None /\ short /\ n <= 4
  /\ Advance(n) /\ UNCHANGED <<pkt, out>>

\* The header of something that is no packet is dropped.
Invalid ==
  /\ pkt = None /\ Complete(pos) /\ ~Valid(pos)
  /\ Advance(HeaderSize(pos)) /\ UNCHANGED <<pkt, out>>

\* A packet begins: its header, and if it is dropped perhaps a part of its payload.
Begin(n) ==
  /\ pkt = None /\ Complete(pos) /\ Valid(pos) /\ ~Private(pos)
  /\ n \in HeaderSize(pos)..Size(pos)
  /\ Passed(pos) => n = HeaderSize(pos)
  /\ out' = IF Passed(pos) THEN out \o Cells(pos, n) ELSE out
  /\ pkt' = pos /\ Advance(n)

\* n bytes of its payload
Body(n) ==
  /\ pkt # None /\ ~Private(pkt) /\ pos + n <= pkt + Size(pkt)
  /\ out' = IF Passed(pkt) THEN out \o Cells(pos, n) ELSE out
  /\ Advance(n) /\ UNCHANGED pkt

\* It is complete.
End ==
  /\ pkt # None /\ pos = pkt + Size(pkt)
  /\ pkt' = None /\ UNCHANGED <<conf, stream, pos, out>>

\* Of a packet of private stream 1 some bytes are handed on, each at most once and
\* in their order; its size may be changed.
TakeApart(n) ==
  LET new == SubSeq(out', Len(out) + 1, Len(out'))
  IN
  /\ \/ pkt = None /\ Complete(pos) /\ Valid(pos) /\ Private(pos) /\ pkt' = pos
     \/ pkt # None /\ Private(pkt) /\ pkt' = pkt
  /\ pos + n <= pkt' + Size(pkt')
  /\ out = SubSeq(out', 1, Len(out))
  /\ \A i \in 1..Len(new) :
       /\ new[i].at \in pos..(pos + n - 1)
       /\ i > 1 => new[i - 1].at < new[i].at
       /\ new[i] = Cell(new[i].at) \/ new[i].at - pkt' \in {4, 5}
  /\ Advance(n)

\* The rest of such a packet may be taken for bytes that belong to no packet.
Leave == pkt # None /\ Private(pkt) /\ pkt' = None /\ UNCHANGED <<conf, stream, pos, out>>

Next ==
  /\ short' \in {short, TRUE}
  /\ \/ Invalid \/ End \/ Leave
     \/ UNCHANGED <<conf, stream, pos, pkt, out>>
     \/ \E n \in 1..Len(stream) :
          Skip(n) \/ Overlook(n) \/ Begin(n) \/ Body(n) \/ TakeApart(n)

Spec == Init /\ [][Next]_vars
=============================================================================
