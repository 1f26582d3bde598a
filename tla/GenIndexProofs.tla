--------------------------- MODULE GenIndexProofs ---------------------------
(***************************************************************************)
(* For inputs and packets of any sizes, in chunks of any size, with writes *)
(* that may fail: what genindex has written is a prefix of what it was     *)
(* passed, in order; what it holds back is part of one packet, so that its *)
(* store never overflows; a new file begins with the first byte of a packet *)
(* with an I-frame; every picture has one entry in the index; and the entry *)
(* leads to the first byte of the picture's packet.                        *)
(*                                                                         *)
(* The store stays small because the first piece of every packet finds     *)
(* pstart set and writes what an earlier packet has left there.  IInv      *)
(* therefore relates pstart, the packet that the stored bytes come from, and *)
(* the bytes of the packet passed so far.                                  *)
(*                                                                         *)
(* A file begins where it should because what is held back of a packet is  *)
(* all of it so far (HeldWhole).  No picture is missed because the scanner *)
(* is on until it has met the picture of the packet (Scanning).  An entry  *)
(* leads to its packet because Count is where the output is (Written) or,  *)
(* when the files are left alone, where the input is (Indexed).            *)
(* Written and Indexed are about the entries genindex has; as long as      *)
(* index.vdr takes them all, it holds these (Kept), with their numbers cut *)
(* to an uchar.                                                            *)
(***************************************************************************)
EXTENDS GenIndex, LeastNumber, SequenceTheorems, TLAPS

\* As much of the types as the argument needs.
Shape ==
  /\ rewrite \in BOOLEAN /\ scan \in BOOLEAN /\ pstart \in BOOLEAN
  /\ mode \in {"sync", "header", "payload", "emit", "done"}
  /\ packet \in Packets \cup {NoPacket}
  /\ pkt \in Nat /\ at \in Nat /\ have \in Nat
  /\ store \in Seq(ByteType) /\ out \in Seq(ByteType) /\ passed \in Seq(ByteType)

\* The output and what is held back are what was passed.
Ordered ==
  rewrite =>
    /\ error = "none" => out \o store = passed
    /\ \E rest \in Seq(ByteType) : passed = out \o rest

\* The stored bytes are of the current packet.
StoreOf(k) == \A j \in 1..Len(store) : store[j].pkt = k
Current == StoreOf(pkt) /\ Len(store) <= at

\* Before its first piece is output, a packet has pstart set; afterwards the store
\* holds nothing of the packets before it.
Fresh ==
  /\ \E k \in Nat : StoreOf(k)
  /\ mode \in {"header", "payload"} => packet \in Packets
  /\ mode = "header" => pstart /\ at = 0 /\ have = 0
  /\ mode \in {"header", "payload"} /\ Rule(packet) = "act3" => ~scan
  /\ mode = "emit" => ~scan /\ packet \in Packets /\ Rule(packet) = "act3"
  /\ mode = "payload" /\ Rule(packet) \in {"act1", "act2"} =>
       ~pstart /\ Current /\ at <= packet.head + have

\* Genindex stops at the first error, and none is an overflow of the store.
Stops == error # "none" => error = "write" /\ mode = "done"

IInv == Shape /\ Ordered /\ Stops /\ Fresh

-----------------------------------------------------------------------------
(* Sequences.                                                              *)

\* The bytes of a piece.
LEMMA BytesTypes ==
  ASSUME pkt \in Nat, at \in Nat, NEW n \in Nat
  PROVE  /\ Bytes(n) \in Seq(ByteType) /\ Len(Bytes(n)) = n
         /\ \A j \in 1..n : Bytes(n)[j].pkt = pkt
<1>1. \A k \in 1..n : [pkt |-> pkt, at |-> at + k] \in ByteType
  BY DEF ByteType
<1> QED
  BY <1>1 DEF Bytes

\* Concatenation of three, in both groupings: stated without a parameter, for the
\* provers to find the sequences.
LEMMA Associative == \A a, b, c \in Seq(ByteType) : (a \o b) \o c = a \o (b \o c)
<1> TAKE a \in Seq(ByteType), b \in Seq(ByteType), c \in Seq(ByteType)
<1> QED
  BY ConcatAssociative

\* The same for any set, with the types.
LEMMA Regroup ==
  ASSUME NEW S, NEW a \in Seq(S), NEW b \in Seq(S), NEW c \in Seq(S)
  PROVE  /\ (a \o b) \o c = a \o (b \o c)
         /\ a \o b \in Seq(S) /\ Len(a \o b) = Len(a) + Len(b)
         /\ a \o <<>> = a /\ <<>> \o a = a /\ <<>> \in Seq(S)
BY ConcatAssociative, ConcatProperties, ConcatEmptySeq, EmptySeq

\* A sequence is what comes before a point and what comes after it.
LEMMA Cut ==
  ASSUME NEW S, NEW s \in Seq(S), NEW k \in 0..Len(s)
  PROVE  /\ SubSeq(s, 1, k) \in Seq(S)
         /\ \E t \in Seq(S) : s = SubSeq(s, 1, k) \o t
<1>1. Len(s) \in Nat /\ \A j \in 1..Len(s) : s[j] \in S
  BY LenProperties, ElementOfSeq
<1>2. SubSeq(s, 1, k) \in Seq(S)
  BY <1>1, SubSeqProperties
<1>3. SubSeq(s, k + 1, Len(s)) \in Seq(S)
  BY <1>1, SubSeqProperties
<1>4. SubSeq(s, 1, k) \o SubSeq(s, k + 1, Len(s)) = SubSeq(s, 1, Len(s))
  <2>1. 1 \in 1..(Len(s) + 1) /\ k \in (1 - 1)..Len(s) /\ Len(s) \in k..Len(s)
    BY <1>1
  <2> QED
    BY ONLY <2>1, s \in Seq(S), ConcatAdjacentSubSeq, Zenon
<1>5. SubSeq(s, 1, Len(s)) = s
  BY SubSeqFull
<1> QED
  BY <1>2, <1>3, <1>4, <1>5

\* The first part of a concatenation is a prefix of it.
LEMMA Prefix ==
  ASSUME NEW S, NEW a \in Seq(S), NEW b \in Seq(S)
  PROVE  Len(a) <= Len(a \o b) /\ a = SubSeq(a \o b, 1, Len(a))
<1>1. Len(a) \in Nat /\ Len(b) \in Nat /\ Len(a \o b) = Len(a) + Len(b)
  BY ConcatProperties, LenProperties
<1>2. CASE a = <<>>
  BY <1>1, <1>2, SubSeqEmpty, EmptySeq
<1>3. CASE a # <<>>
  <2>1. Len(a) >= 1
    BY <1>1, <1>3, EmptySeq
  <2>2. SubSeq(a \o b, 1, Len(a)) = SubSeq(a, 1, Len(a))
    BY <1>1, <2>1, SubSeqOfConcat1
  <2> QED
    BY <1>1, <2>2, SubSeqFull
<1> QED
  BY <1>2, <1>3

-----------------------------------------------------------------------------
(* Output.                                                                 *)

\* What there is after the pieces of an earlier packet have been written.
LEMMA Writes ==
  ASSUME Shape
  PROVE  /\ WrittenBefore \in Seq(ByteType) /\ Held \in Seq(ByteType)
         /\ rewrite => WrittenBefore \o Held = out \o store
<1>1. CASE rewrite /\ pstart
  BY <1>1, Regroup DEF Shape, WrittenBefore, Held
<1>2. CASE ~(rewrite /\ pstart)
  BY <1>2 DEF Shape, WrittenBefore, Held
<1> QED
  BY <1>1, <1>2

\* A piece that fits goes into the store, or after all the others into the output.
LEMMA Passes ==
  ASSUME Shape, Ordered, error = "none", NEW n \in Nat, NEW f, Output(n, f),
         ~(Holds(f) /\ Len(Held) + n > StoreSize)
  PROVE  /\ error' = "none" /\ pstart' = FALSE /\ at' = at + n
         /\ scan' = (scan /\ f = "none")
         /\ store' = IF Holds(f) THEN Held \o Bytes(n) ELSE <<>>
         /\ out' \in Seq(ByteType) /\ store' \in Seq(ByteType)
         /\ passed' \in Seq(ByteType)
         /\ rewrite => out' \o store' = passed'
<1> DEFINE d == Bytes(n)
<1>1. d \in Seq(ByteType)
  BY BytesTypes DEF Shape
<1>2. /\ error' = "none" /\ pstart' = FALSE /\ at' = at + n
      /\ scan' = (scan /\ f = "none")
      /\ passed' = passed \o d
      /\ store' = IF Holds(f) THEN Held \o d ELSE <<>>
      /\ out' = IF ~rewrite THEN out
                ELSE IF Holds(f) THEN WrittenBefore ELSE WrittenBefore \o Held \o d
  BY DEF Output
<1>3. /\ WrittenBefore \in Seq(ByteType) /\ Held \in Seq(ByteType)
      /\ rewrite => WrittenBefore \o Held = out \o store
  BY Writes
<1>4. /\ Held \o d \in Seq(ByteType) /\ passed \o d \in Seq(ByteType)
      /\ WrittenBefore \o Held \in Seq(ByteType)
      /\ (WrittenBefore \o Held) \o d \in Seq(ByteType)
      /\ <<>> \in Seq(ByteType)
  <2> HIDE DEF d
  <2> QED
    BY <1>1, <1>3, Regroup DEF Shape
<1>5. out' \in Seq(ByteType) /\ store' \in Seq(ByteType) /\ passed' \in Seq(ByteType)
  <2> HIDE DEF d
  <2> QED
    BY <1>2, <1>3, <1>4 DEF Shape
<1>6. ASSUME rewrite
      PROVE  out' \o store' = passed'
  <2> HIDE DEF d
  <2>1. passed' = (WrittenBefore \o Held) \o d
    BY <1>2, <1>3, <1>6 DEF Ordered
  <2>2. CASE Holds(f)
    <3>1. (WrittenBefore \o Held) \o d = WrittenBefore \o (Held \o d)
      BY <1>1, <1>3, Associative, ZenonT(60)
    <3>2. out' = WrittenBefore /\ store' = Held \o d
      BY <1>2, <1>6, <2>2
    <3> QED
      BY <2>1, <3>1, <3>2
  <2>3. CASE ~Holds(f)
    BY <1>2, <1>4, <1>6, <2>1, <2>3, Regroup
  <2> QED
    BY <2>2, <2>3
<1> QED
  BY <1>2, <1>5, <1>6

\* With or without an error, what was passed begins with what is written.
LEMMA Keeps ==
  ASSUME out' \in Seq(ByteType), store' \in Seq(ByteType),
         rewrite' => out' \o store' = passed'
  PROVE  Ordered'
BY DEF Ordered

\* A step that fails leaves a prefix behind.
LEMMA Fails ==
  ASSUME IInv, error = "none", NEW n \in Nat, NEW f, OutputFails(n, f)
  PROVE  IInv'
<1>1. Shape /\ Ordered
  BY DEF IInv
<1>2. /\ rewrite /\ rewrite' = rewrite /\ error' = "write" /\ mode' = "done"
      /\ at' = at + n /\ passed' = passed \o Bytes(n) /\ store' = <<>>
      /\ UNCHANGED <<packet, have, scan, pstart, pkt>>
  BY DEF OutputFails, input
<1>3. PICK k \in 0..(Len(store \o Bytes(n)) - 1) :
        out' = out \o SubSeq(store \o Bytes(n), 1, k)
  BY DEF OutputFails
<1>4. /\ out \in Seq(ByteType) /\ store \in Seq(ByteType) /\ passed \in Seq(ByteType)
      /\ Bytes(n) \in Seq(ByteType)
      /\ passed = out \o store
  BY <1>1, <1>2, BytesTypes DEF Shape, Ordered
<1>5. PICK p : p = store \o Bytes(n)
  OBVIOUS
<1>6. p \in Seq(ByteType) /\ Len(p) \in Nat
  BY <1>4, <1>5, ConcatProperties, LenProperties
<1>7. k \in 0..Len(p)
  BY <1>3, <1>5, <1>6
<1>8. PICK h \in Seq(ByteType), t \in Seq(ByteType) : h = SubSeq(p, 1, k) /\ p = h \o t
  <2>1. /\ SubSeq(p, 1, k) \in Seq(ByteType)
        /\ \E t \in Seq(ByteType) : p = SubSeq(p, 1, k) \o t
    BY ONLY <1>6, <1>7, Cut, Zenon
  <2> QED
    BY ONLY <2>1, Zenon
<1>9. out' = out \o h
  BY <1>3, <1>5, <1>8
<1>10. passed' = out' \o t
  <2>1. PICK d \in Seq(ByteType) : d = Bytes(n)
    BY <1>4
  <2>2. out \in Seq(ByteType) /\ store \in Seq(ByteType)
    BY <1>4
  <2>3. (out \o store) \o d = out \o (store \o d)
    BY ONLY <2>2, d \in Seq(ByteType), Associative, ZenonT(60)
  <2>4. passed' = out \o p
    BY <1>2, <1>4, <1>5, <2>1, <2>3
  <2>5. out \o p = (out \o h) \o t
    <3>1. (out \o h) \o t = out \o (h \o t)
      <4>1. out \in Seq(ByteType) /\ h \in Seq(ByteType) /\ t \in Seq(ByteType)
        BY <1>4, <1>8
      <4> QED
        BY ONLY <4>1, Associative, ZenonT(60)
    <3> QED
      BY <1>8, <3>1
  <2> QED
    BY <1>9, <2>4, <2>5
<1>11. out' \in Seq(ByteType) /\ passed' \in Seq(ByteType) /\ store' \in Seq(ByteType)
  BY ONLY <1>2, <1>4, <1>8, <1>9, ConcatProperties, EmptySeq
<1>12. Shape'
  BY <1>1, <1>2, <1>11 DEF Shape
<1>13. Ordered'
  BY <1>2, <1>10 DEF Ordered
<1>14. Stops'
  BY <1>2 DEF Stops
<1>15. Fresh'
  <2>1. StoreOf(0)'
    BY <1>2, EmptySeq DEF StoreOf
  <2> QED
    BY <1>2, <2>1 DEF Fresh
<1> QED
  BY <1>12, <1>13, <1>14, <1>15 DEF IInv

-----------------------------------------------------------------------------
(* The invariant.                                                          *)

\* It holds at the start ...
LEMMA InitInv == Init => IInv
<1> SUFFICES ASSUME Init PROVE IInv
  OBVIOUS
<1>1. Shape
  BY EmptySeq DEF Init, Shape
<1>2. Ordered
  <2>1. <<>> \in Seq(ByteType) /\ <<>> \o <<>> = <<>>
    BY EmptySeq, ConcatEmptySeq
  <2> QED
    BY <2>1 DEF Init, Ordered
<1>3. Fresh /\ Stops
  <2>1. StoreOf(0)
    BY EmptySeq DEF Init, StoreOf
  <2> QED
    BY <2>1 DEF Init, Fresh, Stops
<1> QED
  BY <1>1, <1>2, <1>3 DEF IInv

\* What the steps that output nothing leave alone.
Silent == UNCHANGED <<rewrite, store, error, out, passed>>

\* They need only look after the packet.
LEMMA SilentInv ==
  ASSUME IInv, Silent, error = "none", Shape',
         mode' = "header" => pstart' /\ at' = 0 /\ have' = 0,
         mode' \in {"header", "payload"} => packet' \in Packets,
         mode' \in {"header", "payload"} /\ Rule(packet)' = "act3" => ~scan',
         mode' # "emit",
         mode' = "payload" /\ Rule(packet)' \in {"act1", "act2"} =>
           ~pstart' /\ Current' /\ at' <= packet'.head + have'
  PROVE  IInv'
<1>1. Ordered'
  BY DEF IInv, Ordered, Silent
<1>2. Stops'
  BY DEF Silent, Stops
<1>3. Fresh'
  BY DEF IInv, Fresh, StoreOf, Silent
<1> QED
  BY <1>1, <1>2, <1>3 DEF IInv

-----------------------------------------------------------------------------
(* The steps that output a piece.                                          *)

\* What is held back after a piece is of its packet, if what was held before it is.
LEMMA Piece ==
  ASSUME IInv, error = "none", NEW n \in Nat, NEW f, Output(n, f),
         Holds(f) => /\ Held = <<>> \/ Current
                     /\ Len(Held) + n <= StoreSize,
         rewrite' = rewrite, packet' = packet, pkt' = pkt, have' \in Nat,
         error' = "none" => mode' \in {"sync", "payload", "emit"},
         mode' \in {"payload", "emit"} => packet \in Packets,
         mode' = "payload" /\ Rule(packet) \in {"act1", "act2"} =>
           at + n <= packet.head + have',
         mode' = "payload" /\ Rule(packet) = "act3" => ~scan,
         mode' = "emit" => ~scan /\ Rule(packet) = "act3"
  PROVE  IInv'
<1>1. Shape /\ Ordered
  BY DEF IInv
<1>2. ~(Holds(f) /\ Len(Held) + n > StoreSize)
  <2>1. Len(Held) \in Nat /\ StoreSize \in Nat
    BY <1>1, Writes, LenProperties, GenIndexAssumption
  <2> QED
    BY <2>1
<1>3. /\ error' = "none" /\ pstart' = FALSE /\ at' = at + n
      /\ scan' = (scan /\ f = "none")
      /\ store' = IF Holds(f) THEN Held \o Bytes(n) ELSE <<>>
      /\ out' \in Seq(ByteType) /\ store' \in Seq(ByteType) /\ passed' \in Seq(ByteType)
      /\ rewrite => out' \o store' = passed'
  BY <1>1, <1>2, Passes
<1>4. Shape'
  <2>1. scan' \in BOOLEAN /\ at' \in Nat
    BY <1>1, <1>3 DEF Shape
  <2> QED
    BY <1>1, <1>3, <2>1 DEF Shape
<1>5. Ordered' /\ Stops'
  BY <1>3, Keeps DEF Stops
<1>6. Current'
  <2>1. CASE Holds(f)
    <3>1. /\ Bytes(n) \in Seq(ByteType) /\ Len(Bytes(n)) = n
          /\ \A j \in 1..n : Bytes(n)[j].pkt = pkt
      BY <1>1, BytesTypes DEF Shape
    <3>2. Held \in Seq(ByteType) /\ Held \in {<<>>, store}
      BY <1>1, Writes DEF Held
    <3>3. Len(Held) \in Nat /\ Len(Held) <= at
      BY <1>1, <2>1, <3>2, LenProperties, EmptySeq DEF Current, Shape
    <3>4. \A j \in 1..Len(Held) : Held[j].pkt = pkt
      BY <2>1, <3>2, EmptySeq DEF Current, StoreOf
    <3>5. PICK h \in Seq(ByteType), d \in Seq(ByteType) : h = Held /\ d = Bytes(n)
      BY <3>1, <3>2
    <3>6. /\ Len(h \o d) = Len(h) + Len(d)
          /\ \A j \in 1..(Len(h) + Len(d)) :
               (h \o d)[j] = IF j <= Len(h) THEN h[j] ELSE d[j - Len(h)]
      BY ConcatProperties
    <3>7. store' = h \o d
      BY <1>3, <2>1, <3>5
    <3>8. Len(store') <= at'
      BY <1>1, <1>3, <3>1, <3>3, <3>5, <3>6, <3>7 DEF Shape
    <3>9. \A j \in 1..Len(store') : store'[j].pkt = pkt
      <4>1. Len(h) \in Nat /\ Len(d) = n
        BY <3>1, <3>3, <3>5
      <4>2. ASSUME NEW j \in 1..Len(h)
            PROVE  h[j].pkt = pkt
        BY <3>4, <3>5, <4>2
      <4>3. ASSUME NEW j \in 1..n
            PROVE  d[j].pkt = pkt
        BY <3>1, <3>5, <4>3
      <4>4. ASSUME NEW j \in 1..(Len(h) + n)
            PROVE  (h \o d)[j].pkt = pkt
        <5>1. CASE j <= Len(h)
          BY <3>6, <4>1, <4>2, <5>1
        <5>2. CASE ~(j <= Len(h))
          <6>1. j - Len(h) \in 1..n
            BY <4>1, <5>2
          <6> QED
            BY <3>6, <4>1, <4>3, <5>2, <6>1
        <5> QED
          BY <5>1, <5>2
      <4> QED
        BY <3>6, <3>7, <4>1, <4>4
    <3> QED
      BY <3>8, <3>9 DEF Current, StoreOf
  <2>2. CASE ~Holds(f)
    BY <1>1, <1>3, <2>2, EmptySeq DEF Current, StoreOf, Shape
  <2> QED
    BY <2>1, <2>2
<1>7. Fresh'
  <2>1. \E k \in Nat : StoreOf(k)'
    BY <1>1, <1>6 DEF Current, Shape
  <2>2. Rule(packet)' = Rule(packet)
    BY DEF Rule
  <2>3. mode' # "header" /\ ~pstart' /\ (~scan => ~scan')
    BY <1>3
  <2>4. /\ mode' \in {"payload", "emit"} => packet' \in Packets
        /\ mode' = "payload" /\ Rule(packet) \in {"act1", "act2"} =>
             at' <= packet'.head + have'
    BY <1>3
  <2> QED
    BY <1>6, <2>1, <2>2, <2>3, <2>4 DEF Fresh
<1> QED
  BY <1>4, <1>5, <1>7 DEF IInv

\* The header of a packet: its first piece, before which the store is emptied.
LEMMA PassHeaderInv == IInv /\ error = "none" /\ PassHeader => IInv'
<1> SUFFICES ASSUME IInv, error = "none", PassHeader
             PROVE  IInv'
  OBVIOUS
<1> DEFINE n == packet.head
<1>1. /\ Shape /\ mode = "header" /\ pstart /\ at = 0 /\ have = 0 /\ packet \in Packets
      /\ Rule(packet) = "act3" => ~scan
  BY DEF PassHeader, IInv, Fresh
<1>2. n \in Nat /\ packet.size \in Nat /\ n + packet.size <= StoreSize /\ StoreSize \in Nat
  BY <1>1, GenIndexAssumption DEF PacketType
<1>3. CASE /\ Output(n, "none")
           /\ After(IF packet.size = 0 THEN "sync" ELSE "payload")
           /\ UNCHANGED <<input, packet, have, pos, pkt, pictures, broken>>
  <2>1. Holds("none") => Held = <<>>
    BY <1>1 DEF Holds, Held
  <2>2. Holds("none") => Len(Held) + n <= StoreSize
    BY <1>2, <2>1, EmptySeq
  <2>3. /\ rewrite' = rewrite /\ packet' = packet /\ pkt' = pkt /\ have' = have
        /\ error' = "none" => mode' \in {"sync", "payload"}
        /\ mode' # "emit"
    BY <1>3 DEF After, input
  <2>4. at + n <= packet.head + have' /\ have' \in Nat
    BY <1>1, <1>2, <2>3
  <2> HIDE DEF n
  <2> QED
    BY <1>1, <1>2, <1>3, <2>1, <2>2, <2>3, <2>4, Piece
<1>4. CASE OutputFails(n, "none")
  <2> HIDE DEF n
  <2> QED
    BY <1>2, <1>4, Fails
<1> QED
  BY <1>3, <1>4 DEF PassHeader

\* A piece of the payload: with what is held back of its packet, no longer than
\* the packet.
LEMMA PassPayloadInv ==
  ASSUME IInv, error = "none", NEW n \in Pieces, PassPayload(n)
  PROVE  IInv'
<1>1. /\ Shape /\ mode = "payload" /\ packet \in Packets
      /\ Rule(packet) \in {"act1", "act2"}
      /\ ~pstart /\ Current /\ at <= packet.head + have
  BY DEF PassPayload, IInv, Fresh
<1>2. /\ n \in Nat /\ have \in Nat /\ at \in Nat /\ n <= packet.size - have
      /\ packet.head \in Nat /\ packet.size \in Nat /\ StoreSize \in Nat
      /\ packet.head + packet.size <= StoreSize
  BY <1>1, GenIndexAssumption DEF PacketType, Pieces, PassPayload, Shape
<1>3. CASE /\ Output(n, Found(n))
           /\ have' = have + n
           /\ After(IF have + n = packet.size THEN "sync" ELSE "payload")
           /\ UNCHANGED <<input, packet, pkt, broken>>
  <2>1. Held = store /\ Len(store) \in Nat /\ Len(store) <= at
    BY <1>1, LenProperties DEF Held, Current, Shape
  <2>2. Len(Held) + n <= StoreSize
    BY <1>1, <1>2, <2>1
  <2>3. /\ rewrite' = rewrite /\ packet' = packet /\ pkt' = pkt
        /\ error' = "none" => mode' \in {"sync", "payload"}
        /\ mode' # "emit"
    BY <1>3 DEF After, input
  <2>4. at + n <= packet.head + have' /\ have' \in Nat
    BY <1>1, <1>2, <1>3
  <2> QED
    BY <1>1, <1>2, <1>3, <2>2, <2>3, <2>4, Piece
<1>4. CASE OutputFails(n, Found(n))
  BY <1>2, <1>4, Fails
<1> QED
  BY <1>3, <1>4 DEF PassPayload

\* The first piece of an assembled subtitle: no picture is looked for in them.
LEMMA EmitHeaderInv ==
  ASSUME IInv, error = "none", NEW n \in Pieces, EmitHeader(n)
  PROVE  IInv'
<1>1. /\ Shape /\ mode = "payload" /\ packet \in Packets /\ ~scan
      /\ Rule(packet) = "act3"
      /\ n \in Nat /\ have \in Nat
  BY GenIndexAssumption DEF EmitHeader, IInv, Fresh, Shape, Pieces
<1>2. CASE /\ Output(1, "none") /\ have' = have + n /\ After("emit")
           /\ UNCHANGED <<input, packet, pkt, pictures, broken>>
  <2>1. ~Holds("none")
    BY <1>1 DEF Holds
  <2>2. /\ rewrite' = rewrite /\ packet' = packet /\ pkt' = pkt /\ have' \in Nat
        /\ error' = "none" => mode' = "emit"
        /\ mode' # "payload"
    BY <1>1, <1>2 DEF After, input
  <2> QED
    BY <1>1, <1>2, <2>1, <2>2, Piece
<1>3. CASE OutputFails(1, "none")
  BY <1>3, Fails
<1> QED
  BY <1>2, <1>3 DEF EmitHeader

\* The second piece of an assembled subtitle.
LEMMA EmitPayloadInv == IInv /\ error = "none" /\ EmitPayload => IInv'
<1> SUFFICES ASSUME IInv, error = "none", EmitPayload
             PROVE  IInv'
  OBVIOUS
<1>1. /\ Shape /\ mode = "emit" /\ ~scan /\ have \in Nat
      /\ packet \in Packets /\ Rule(packet) = "act3"
  BY DEF EmitPayload, IInv, Fresh, Shape
<1>2. CASE /\ Output(1, "none")
           /\ After(IF have = packet.size THEN "sync" ELSE "payload")
           /\ UNCHANGED <<input, packet, have, pos, pkt, pictures, broken>>
  <2>1. ~Holds("none")
    BY <1>1 DEF Holds
  <2>2. /\ rewrite' = rewrite /\ packet' = packet /\ pkt' = pkt /\ have' = have
        /\ error' = "none" => mode' \in {"sync", "payload"}
        /\ mode' # "emit"
    BY <1>2 DEF After, input
  <2> QED
    BY <1>1, <1>2, <2>1, <2>2, Piece
<1>3. CASE OutputFails(1, "none")
  BY <1>3, Fails
<1> QED
  BY <1>2, <1>3 DEF EmitPayload

-----------------------------------------------------------------------------
(* The theorems.                                                           *)

\* ... and is kept by every step, one case per action.
LEMMA NextInv == IInv /\ [Next]_vars => IInv'
<1> SUFFICES ASSUME IInv, [Next]_vars
             PROVE  IInv'
  OBVIOUS
<1>1. Shape /\ Stops /\ Fresh
  BY DEF IInv
<1>2. CASE NextFile
  <2>1. /\ Silent /\ UNCHANGED <<mode, packet, have, scan, pstart, at, pkt, rewrite>>
        /\ error = "none"
    BY <1>1, <1>2 DEF NextFile, parser, output, Silent, Stops
  <2>2. Shape'
    BY <1>1, <2>1 DEF Shape, Silent
  <2> QED
    <3>1. Rule(packet)' = Rule(packet) /\ Current' = Current
      BY <2>1 DEF Rule, Current, StoreOf, Silent
    <3>2. /\ mode' = "header" => pstart' /\ at' = 0 /\ have' = 0
          /\ mode' \in {"header", "payload"} => packet' \in Packets
          /\ mode' \in {"header", "payload"} /\ Rule(packet)' = "act3" => ~scan'
          /\ mode' # "emit"
      BY <1>1, <1>2, <2>1, <3>1 DEF Fresh, NextFile
    <3>3. mode' = "payload" /\ Rule(packet)' \in {"act1", "act2"} =>
            ~pstart' /\ Current' /\ at' <= packet'.head + have'
      BY <1>1, <2>1, <3>1 DEF Fresh
    <3> QED
      BY <2>1, <2>2, <3>2, <3>3, SilentInv
<1>3. CASE Garbage
  <2>1. /\ Silent /\ mode' = "sync" /\ UNCHANGED <<packet, have, scan, pstart, at, pkt>>
        /\ error = "none"
    BY <1>1, <1>3 DEF Garbage, input, output, Silent, Stops
  <2>2. Shape'
    BY <1>1, <2>1 DEF Shape, Silent
  <2> QED
    BY <2>1, <2>2, SilentInv
<1>12. CASE Drop
  <2>1. /\ Silent /\ mode' = "sync" /\ UNCHANGED <<packet, have, scan, pstart, at, pkt>>
        /\ error = "none"
    BY <1>1, <1>12 DEF Drop, input, output, Silent, Stops
  <2>2. Shape'
    BY <1>1, <2>1 DEF Shape, Silent
  <2> QED
    BY <2>1, <2>2, SilentInv
<1>4. CASE Finish
  <2>1. /\ Silent /\ mode' = "done" /\ UNCHANGED <<packet, have, scan, pstart, at, pkt>>
        /\ error = "none"
    BY <1>1, <1>4 DEF Finish, input, Silent, Stops
  <2>2. Shape'
    BY <1>1, <2>1 DEF Shape, Silent
  <2> QED
    BY <2>1, <2>2, SilentInv
<1>5. ASSUME NEW p \in Packets, Header(p)
      PROVE  IInv'
  <2>1. mode = "sync" /\ error = "none" /\ rewrite' = rewrite
    BY <1>1, <1>5 DEF Header, input, Stops
  <2>2. CASE Invalid(p)
    <3>1. Silent /\ mode' = "sync" /\ UNCHANGED <<packet, have, scan, pstart, at, pkt>>
      BY <2>1, <2>2 DEF Invalid, output, Silent
    <3>2. Shape'
      BY <1>1, <3>1 DEF Shape, Silent
    <3> QED
      BY <2>1, <3>1, <3>2, SilentInv
  <2>3. CASE PacketBegins(p)
    <3>1. /\ packet' = p /\ have' = 0 /\ pkt' = pkt + 1 /\ at' = 0
          /\ mode' = IF Rule(p) \in {"act1", "act2"} THEN "header"
                     ELSE IF p.size = 0 THEN "sync" ELSE "payload"
          /\ scan' = IF Rule(p) = "skip" THEN scan ELSE Rule(p) = "act2"
          /\ pstart' = (pstart \/ Rule(p) # "skip")
          /\ UNCHANGED <<store, error, out, passed>>
      BY <2>3 DEF PacketBegins
    <3>2. Silent
      BY <2>1, <3>1 DEF Silent
    <3>3. scan' \in BOOLEAN /\ pstart' \in BOOLEAN
      BY <1>1, <3>1 DEF Shape
    <3>4. mode' \in {"sync", "header", "payload"}
      BY <3>1
    <3>5. Shape'
      BY <1>1, <1>5, <2>1, <3>1, <3>3, <3>4 DEF Shape
    <3>6. Rule(packet)' = Rule(p)
      BY <2>1, <3>1 DEF Rule
    <3>7. /\ mode' = "header" => pstart' /\ at' = 0 /\ have' = 0
          /\ mode' \in {"header", "payload"} => packet' \in Packets
          /\ Rule(p) = "act3" => ~scan'
          /\ mode' = "payload" => Rule(p) \notin {"act1", "act2"}
      BY <1>5, <3>1
    <3> QED
      BY <2>1, <3>2, <3>4, <3>5, <3>6, <3>7, SilentInv
  <2> QED
    BY <1>5, <2>2, <2>3 DEF Header
<1>6. ASSUME NEW n \in Pieces, DropPayload(n)
      PROVE  IInv'
  <2>1. /\ mode = "payload" /\ error = "none" /\ Rule(packet) \in {"skip", "act3"}
        /\ UNCHANGED <<packet, scan, pstart, at, pkt>> /\ Silent
        /\ have' = have + n /\ mode' \in {"sync", "payload"}
    BY <1>1, <1>6 DEF DropPayload, input, output, Silent, Stops
  <2>2. n \in Nat
    BY GenIndexAssumption DEF Pieces
  <2>3. Shape'
    BY <1>1, <2>1, <2>2 DEF Shape, Silent
  <2>4. Rule(packet)' = Rule(packet)
    BY <2>1 DEF Rule, Silent
  <2>5. packet' \in Packets /\ (Rule(packet) = "act3" => ~scan')
    BY <1>1, <2>1 DEF Fresh
  <2> QED
    BY <2>1, <2>3, <2>4, <2>5, SilentInv
<1>7. CASE PassHeader
  BY <1>1, <1>7, PassHeaderInv DEF PassHeader, Stops
<1>8. CASE EmitPayload
  BY <1>1, <1>8, EmitPayloadInv DEF EmitPayload, Stops
<1>9. ASSUME NEW n \in Pieces, PassPayload(n)
      PROVE  IInv'
  BY <1>1, <1>9, PassPayloadInv DEF PassPayload, Stops
<1>10. ASSUME NEW n \in Pieces, EmitHeader(n)
       PROVE  IInv'
  BY <1>1, <1>10, EmitHeaderInv DEF EmitHeader, Stops
<1>11. CASE UNCHANGED vars
  BY <1>11 DEF vars, IInv, Shape, Ordered, Stops, Fresh, Current, StoreOf, Rule
<1> QED
  BY <1>2, <1>3, <1>4, <1>5, <1>6, <1>7, <1>8, <1>9, <1>10, <1>11, <1>12 DEF Next

\* So it holds always.
LEMMA Invariant == Spec => []IInv
BY InitInv, NextInv, PTL DEF Spec

\* What genindex has written is, byte by byte, the beginning of what cPES passed to
\* it, also after a failed write; and as long as nothing has failed the rest is in
\* the store.
THEOREM InOrder == Spec => []OutputInOrder
<1>1. IInv => OutputInOrder
  <2> SUFFICES ASSUME IInv, rewrite
               PROVE  /\ error = "none" => out \o store = passed
                      /\ Len(out) <= Len(passed) /\ out = SubSeq(passed, 1, Len(out))
    BY DEF OutputInOrder
  <2>1. PICK rest \in Seq(ByteType) : passed = out \o rest
    BY DEF IInv, Ordered
  <2>2. out \in Seq(ByteType) /\ (error = "none" => out \o store = passed)
    BY DEF IInv, Shape, Ordered
  <2> QED
    BY <2>1, <2>2, Prefix
<1> QED
  BY <1>1, Invariant, PTL

\* The store holds pieces of one packet and never overflows, however the packets
\* are cut, if no packet is longer than the store.
THEOREM HeldBack == Spec => []HeldFits
<1>1. IInv => HeldFits
  BY DEF IInv, Stops, Fresh, StoreOf, HeldFits
<1> QED
  BY <1>1, Invariant, PTL

-----------------------------------------------------------------------------
(* Sums of file sizes.                                                    *)

\* The sums of the file sizes: the recursive function exists ...
LEMMA UptoIs ==
  /\ Upto[0] = 0
  /\ \A n \in Files : Upto[n] = Upto[n - 1] + InputSizes[n]
<1> DEFINE N == Len(InputSizes)
           Sum(f, n) == f = [k \in 0..n |-> IF k = 0 THEN 0 ELSE f[k - 1] + InputSizes[k]]
           Missing == {n \in 0..N : ~\E f : Sum(f, n)}
<1>1. N \in Nat
  BY GenIndexAssumption, LenProperties
<1>2. Missing = {}
  <2>1. SUFFICES ASSUME Missing # {} PROVE FALSE
    OBVIOUS
  <2>2. PICK m \in Missing : \A n \in Missing : m <= n
    <3>1. Missing \subseteq Nat
      BY <1>1
    <3> HIDE DEF Missing
    <3> QED
      BY <2>1, <3>1, LeastNumber
  <2>3. m # 0
    <3>1. Sum([k \in 0..0 |-> 0], 0)
      OBVIOUS
    <3> QED
      BY <3>1
  <2>4. m \in 1..N /\ m - 1 \in 0..N /\ m - 1 \notin Missing
    <3>1. m \in 0..N
      BY <2>2
    <3>2. m \in 1..N /\ m - 1 \in 0..N /\ ~(m <= m - 1)
      BY <1>1, <2>3, <3>1
    <3> HIDE DEF Missing
    <3> QED
      BY <2>2, <3>2
  <2>5. PICK f : Sum(f, m - 1)
    BY <2>4
  <2> DEFINE g == [k \in 0..m |-> IF k = m THEN f[m - 1] + InputSizes[m] ELSE f[k]]
  <2>6. \A k \in 0..m : g[k] = IF k = 0 THEN 0 ELSE g[k - 1] + InputSizes[k]
    <3>1. \A k \in 0..(m - 1) : f[k] = IF k = 0 THEN 0 ELSE f[k - 1] + InputSizes[k]
      BY <2>5
    <3>2. \A k \in 0..(m - 1) : g[k] = f[k]
      BY <2>4
    <3>3. g[m] = f[m - 1] + InputSizes[m]
      BY <2>4
    <3>4. ASSUME NEW k \in 0..m
          PROVE  g[k] = IF k = 0 THEN 0 ELSE g[k - 1] + InputSizes[k]
      <4> HIDE DEF g
      <4>1. CASE k = m
        BY <2>4, <3>2, <3>3, <4>1
      <4>2. CASE k # m
        <5>1. k \in 0..(m - 1) /\ (k # 0 => k - 1 \in 0..(m - 1))
          BY <2>4, <4>2
        <5> QED
          BY <3>1, <3>2, <5>1
      <4> QED
        BY <4>1, <4>2
    <3> QED
      BY <3>4
  <2>7. Sum(g, m)
    BY <2>6
  <2> QED
    BY <2>2, <2>7
<1>3. \E f : Sum(f, N)
  BY <1>1, <1>2
<1>4. Upto = [n \in 0..N |-> IF n = 0 THEN 0 ELSE Upto[n - 1] + InputSizes[n]]
  BY <1>3 DEF Upto
<1>5. \A n \in 0..N : Upto[n] = IF n = 0 THEN 0 ELSE Upto[n - 1] + InputSizes[n]
  <2> DEFINE F == [n \in 0..N |-> IF n = 0 THEN 0 ELSE Upto[n - 1] + InputSizes[n]]
  <2>1. \A n \in 0..N : F[n] = IF n = 0 THEN 0 ELSE Upto[n - 1] + InputSizes[n]
    OBVIOUS
  <2>2. Upto = F
    BY <1>4
  <2> HIDE DEF F
  <2> QED
    BY <2>1, <2>2
<1>6. 0 \in 0..N /\ \A n \in Files : n \in 0..N /\ n # 0
  BY <1>1 DEF Files
<1> QED
  BY <1>5, <1>6

\* ... it is a number, and grows with every file.
LEMMA UptoGrows ==
  \A n \in 0..Len(InputSizes) :
    Upto[n] \in Nat /\ \A m \in 0..n : Upto[m] <= Upto[n]
<1> DEFINE N == Len(InputSizes)
           Fine(n) == Upto[n] \in Nat /\ \A m \in 0..n : Upto[m] <= Upto[n]
           Others == {n \in 0..N : ~Fine(n)}
<1>1. N \in Nat /\ \A n \in 1..N : InputSizes[n] \in Nat
  BY GenIndexAssumption, LenProperties, ElementOfSeq
<1>2. Others = {}
  <2>1. SUFFICES ASSUME Others # {} PROVE FALSE
    OBVIOUS
  <2>2. PICK k \in Others : \A n \in Others : k <= n
    <3>1. Others \subseteq Nat
      BY <1>1
    <3> HIDE DEF Others
    <3> QED
      BY <2>1, <3>1, LeastNumber
  <2>3. k # 0
    <3>1. Fine(0)
      BY UptoIs
    <3> QED
      BY <2>2, <3>1
  <2>4. k \in 1..N /\ k - 1 \in 0..N /\ k - 1 \notin Others
    BY <1>1, <2>2, <2>3
  <2>5. Fine(k - 1)
    BY <2>4
  <2>6. Upto[k] = Upto[k - 1] + InputSizes[k] /\ InputSizes[k] \in Nat
    BY <1>1, <2>4, UptoIs DEF Files
  <2>7. Upto[k] \in Nat /\ Upto[k - 1] <= Upto[k]
    BY <2>5, <2>6
  <2>8. ASSUME NEW m \in 0..k PROVE Upto[m] <= Upto[k]
    <3>1. CASE m = k
      BY <2>7, <3>1
    <3>2. CASE m # k
      <4>1. m \in 0..(k - 1) /\ Upto[m] <= Upto[k - 1]
        BY <2>4, <2>5, <3>2
      <4>2. Upto[m] \in Nat
        <5>1. m \in 0..N /\ m \notin Others
          BY <2>2, <2>4, <4>1
        <5> QED
          BY <5>1
      <4> QED
        BY <2>5, <2>7, <4>1, <4>2
    <3> QED
      BY <3>1, <3>2
  <2> QED
    BY <2>2, <2>7, <2>8
<1> QED
  BY <1>2

-----------------------------------------------------------------------------
(* Steps.                                                                  *)

\* In a state in which the program goes on.
Going == IInv /\ TypeOK /\ error = "none"

\* All that a step does which outputs a piece and does not fail.
LEMMA Whole ==
  ASSUME Going, IInv', NEW n, NEW f, Output(n, f)
  PROVE  /\ error' = "none"
         /\ at' = at + n /\ passed' = passed \o Bytes(n)
         /\ scan' = (scan /\ f = "none") /\ pstart' = FALSE
         /\ store' = IF Holds(f) THEN Held \o Bytes(n) ELSE <<>>
         /\ begins' = IF Splits(f) THEN Append(begins, Len(WrittenBefore) + 1) ELSE begins
         /\ entries' = IF f \in {"I", "P"} THEN Append(entries, Entry(f)) ELSE entries
         /\ packetNo' = IF Splits(f) THEN fileNo + 1 ELSE packetNo
         /\ packetOffset' = IF Splits(f) THEN 0 ELSE packetOffset
         /\ IF Splits(f) THEN Count(Len(Held), fileNo + 1, n)
                         ELSE Count(fileOffset, fileNo, n)
<1>1. error' # "overflow"
  BY DEF IInv, Stops
<1> QED
  BY <1>1 DEF Output, Indexes, Write, file, Going

\* The parts of TypeOK that depend on what is output ...
OutputTypes ==
  /\ fileNo \in Nat \ {0} /\ fileOffset \in -IntLimit..(IntLimit - 1)
  /\ packetNo \in Nat \ {0} /\ packetOffset \in -IntLimit..(IntLimit - 1)
  /\ begins \in Seq(Nat \ {0})
  /\ entries \in Seq(EntryType)
  /\ wrapped \in BOOLEAN

\* ... and on the input, or are of index.vdr; the others are among those of Shape.
InputTypes ==
  /\ have \in 0..packet.size /\ pos \in 0..Total /\ readNo \in Files
  /\ broken \in BOOLEAN

IndexTypes == index \in Seq(EntryType) /\ indexFailed \in BOOLEAN

LEMMA TypeParts ==
  IInv /\ OutputTypes /\ InputTypes /\ IndexTypes => TypeOK
<1> SUFFICES ASSUME IInv, OutputTypes, InputTypes, IndexTypes PROVE TypeOK
  OBVIOUS
<1>1. error \in {"none", "write", "overflow"}
  BY DEF IInv, Stops
<1> QED
  BY <1>1 DEF IInv, Shape, OutputTypes, InputTypes, IndexTypes, TypeOK

\* An int stays one.
LEMMA Counts ==
  ASSUME NEW o \in -IntLimit..(IntLimit - 1), NEW no \in Nat \ {0}, NEW n \in 0..IntLimit,
         Going, Count(o, no, n)
  PROVE  /\ fileOffset' \in -IntLimit..(IntLimit - 1) /\ fileNo' \in Nat \ {0}
         /\ wrapped' \in BOOLEAN
<1>1. IntLimit \in Nat
  BY GenIndexAssumption
<1>2. PICK x : x = Wrap(o + n)
  OBVIOUS
<1>3. x \in -IntLimit..(IntLimit - 1)
  BY <1>1, <1>2 DEF Wrap
<1>4. PICK s \in Nat : s = FileSize(no)
  <2>1. readNo \in Files
    BY DEF Going, TypeOK
  <2>2. no <= readNo => InputSizes[no] \in Nat
    <3>1. Len(InputSizes) \in Nat /\ \A k \in Files : InputSizes[k] \in Nat
      BY GenIndexAssumption, LenProperties, ElementOfSeq DEF Files
    <3> QED
      BY <2>1, <3>1 DEF Files
  <2> QED
    BY <2>2 DEF FileSize
<1>5. /\ fileOffset' = IF ~rewrite /\ x >= s THEN x - s ELSE x
      /\ fileNo' = IF ~rewrite /\ x >= s THEN no + 1 ELSE no
      /\ wrapped' = (wrapped \/ x # o + n)
  BY <1>2, <1>4 DEF Count
<1>6. fileOffset' \in -IntLimit..(IntLimit - 1)
  <2>1. x >= s => x - s \in -IntLimit..(IntLimit - 1)
    BY <1>1, <1>3, <1>4
  <2> QED
    BY <1>3, <1>5, <2>1
<1>7. fileNo' \in Nat \ {0}
  BY <1>5
<1>8. wrapped' \in BOOLEAN
  BY <1>5 DEF Going, TypeOK
<1> QED
  BY <1>6, <1>7, <1>8

LEMMA EntryIs ==
  ASSUME Going, NEW f \in {"I", "P"}
  PROVE  Entry(f) \in EntryType
<1>1. packetNo \in Nat /\ packetOffset \in Int /\ fileNo + 1 \in Nat
  BY GenIndexAssumption DEF Going, TypeOK
<1> QED
  BY <1>1 DEF Entry, EntryType

\* A piece no longer than the store, and an entry for a picture, if there is one.
LEMMA WholeTypes ==
  ASSUME Going, IInv', NEW n \in Nat, NEW f, Output(n, f), n <= StoreSize,
         Splits(f) => Len(Held) <= StoreSize
  PROVE  OutputTypes'
<1>1. /\ StoreSize \in Nat /\ IntLimit \in Nat /\ StoreSize < IntLimit
      /\ n \in 0..IntLimit
  BY GenIndexAssumption
<1>2. /\ fileNo \in Nat \ {0} /\ fileOffset \in -IntLimit..(IntLimit - 1)
      /\ packetNo \in Nat \ {0} /\ packetOffset \in -IntLimit..(IntLimit - 1)
      /\ begins \in Seq(Nat \ {0})
      /\ entries \in Seq(EntryType)
  BY DEF Going, TypeOK
<1>3. WrittenBefore \in Seq(ByteType) /\ Held \in Seq(ByteType)
  BY Writes DEF Going, IInv
<1>4. Len(WrittenBefore) \in Nat /\ Len(Held) \in Nat
  BY <1>3, LenProperties
<1>5. begins' \in Seq(Nat \ {0})
  <2>1. Len(WrittenBefore) + 1 \in Nat \ {0}
    BY <1>4
  <2>2. Append(begins, Len(WrittenBefore) + 1) \in Seq(Nat \ {0})
    BY <1>2, <2>1, AppendProperties
  <2> QED
    BY <1>2, <2>2, Whole
<1>6. entries' \in Seq(EntryType)
  <2>1. CASE f \in {"I", "P"}
    <3>1. Append(entries, Entry(f)) \in Seq(EntryType)
      BY <1>2, <2>1, EntryIs, AppendProperties
    <3> QED
      BY <2>1, <3>1, Whole
  <2> QED
    BY <1>2, <2>1, Whole
<1>7. packetNo' \in Nat \ {0}
  <2>1. packetNo' = IF Splits(f) THEN fileNo + 1 ELSE packetNo
    BY Whole
  <2> QED
    BY <1>2, <2>1
<1>8. packetOffset' \in -IntLimit..(IntLimit - 1)
  <2>1. packetOffset' = IF Splits(f) THEN 0 ELSE packetOffset
    BY Whole
  <2>2. 0 \in -IntLimit..(IntLimit - 1)
    BY <1>1
  <2> QED
    BY <1>2, <2>1, <2>2
<1>9. /\ fileOffset' \in -IntLimit..(IntLimit - 1) /\ fileNo' \in Nat \ {0}
      /\ wrapped' \in BOOLEAN
  <2>1. CASE Splits(f)
    <3>1. Count(Len(Held), fileNo + 1, n)
      BY <2>1, Whole
    <3>2. Len(Held) \in -IntLimit..(IntLimit - 1) /\ fileNo + 1 \in Nat \ {0}
      BY <1>1, <1>2, <1>4, <2>1
    <3> QED
      BY <1>1, <3>1, <3>2, Counts
  <2>2. CASE ~Splits(f)
    BY <1>1, <1>2, <2>2, Whole, Counts
  <2> QED
    BY <2>1, <2>2
<1> QED
  BY <1>5, <1>6, <1>7, <1>8, <1>9 DEF OutputTypes

LEMMA FailTypes ==
  ASSUME Going, NEW n, NEW f, OutputFails(n, f)
  PROVE  OutputTypes' /\ InputTypes'
<1>1. entries' \in Seq(EntryType)
  <2>1. entries' = entries \/ (f \in {"I", "P"} /\ entries' = Append(entries, Entry(f)))
    BY DEF OutputFails, Indexes, Write, file
  <2>2. entries \in Seq(EntryType)
    BY DEF Going, TypeOK
  <2>3. CASE f \in {"I", "P"}
    <3>1. Append(entries, Entry(f)) \in Seq(EntryType)
      BY <2>2, <2>3, EntryIs, AppendProperties
    <3> QED
      BY <2>1, <2>2, <3>1
  <2> QED
    BY <2>1, <2>2, <2>3
<1>2. UNCHANGED <<readNo, packet, have, pos, place, current, begins, broken>>
  BY DEF OutputFails, input
<1> QED
  BY <1>1, <1>2 DEF OutputTypes, InputTypes, place, current, Going, TypeOK

\* Where the input ends that has been opened.
LEMMA Reached ==
  ASSUME Going
  PROVE  /\ Len(InputSizes) \in Nat /\ readNo \in Nat /\ readNo >= 1
         /\ Upto[readNo] \in Nat /\ Total \in Nat /\ pos \in Nat
         /\ Upto[readNo] <= Total
<1>1. Len(InputSizes) \in Nat
  BY GenIndexAssumption, LenProperties
<1>2. readNo \in 1..Len(InputSizes) /\ pos \in 0..Total
  BY DEF Going, TypeOK, Files
<1>3. PICK n : n = Len(InputSizes)
  OBVIOUS
<1>4. Upto[n] \in Nat /\ Upto[readNo] <= Upto[n] /\ Upto[readNo] \in Nat
  BY <1>1, <1>2, <1>3, UptoGrows
<1> QED
  BY <1>1, <1>2, <1>3, <1>4 DEF Total

\* What a packet may be.
LEMMA PacketIs ==
  ASSUME NEW p \in Packets
  PROVE  /\ p.head \in Nat /\ p.head >= 1 /\ p.head <= MaxHead /\ p.size \in Nat
         /\ p.head + p.size <= StoreSize /\ p.size <= StoreSize /\ p.head <= StoreSize
         /\ p.pic \in {"none", "I", "P", "D"} /\ p.picAt \in Nat /\ p.picAt >= 1
         /\ p.pic # "none" => p.kind = "video" /\ p.picAt <= p.size
         /\ MaxHead \in Nat /\ StoreSize \in Nat
<1>1. /\ p \in PacketType /\ p.head + p.size <= StoreSize /\ MaxHead \in Nat \ {0}
      /\ p.pic # "none" => p.kind = "video" /\ p.picAt <= p.size
      /\ StoreSize \in Nat
  BY GenIndexAssumption
<1> QED
  BY <1>1 DEF PacketType

\* A piece of a packet's payload, or the header that goes before it.
LEMMA PieceIs ==
  ASSUME Going, NEW n \in Pieces, mode = "payload",
         n <= packet.size - have, pos + n <= Upto[readNo]
  PROVE  /\ packet \in Packets /\ n \in Nat /\ n >= 1 /\ n <= packet.size /\ n <= StoreSize
         /\ have + n \in 0..packet.size /\ pos + n \in 0..Total
<1>1. packet \in Packets /\ have \in Nat /\ n \in Nat /\ n >= 1
  BY GenIndexAssumption DEF Going, IInv, Fresh, Shape, Pieces
<1>2. PICK s, h, t, u : s = packet.size /\ h = have /\ t = Total /\ u = Upto[readNo]
  OBVIOUS
<1>3. s \in Nat /\ s <= StoreSize /\ StoreSize \in Nat /\ h \in Nat /\ t \in Nat /\ u \in Nat
      /\ u <= t /\ pos \in Nat
  BY <1>1, <1>2, PacketIs, Reached
<1>4. n <= s - h /\ pos + n <= u
  BY <1>2
<1>5. /\ n <= s /\ n <= StoreSize /\ h + n \in 0..s /\ pos + n \in 0..t
  BY <1>1, <1>3, <1>4
<1> QED
  BY <1>1, <1>2, <1>5

\* What is left alone by the steps that output nothing.
Unwritten == UNCHANGED <<store, error, out, begins, entries, passed, rewrite>>

LEMMA PassHeaderTypes == Going /\ IInv' /\ PassHeader => OutputTypes' /\ InputTypes'
<1> SUFFICES ASSUME Going, IInv', PassHeader PROVE OutputTypes' /\ InputTypes'
  OBVIOUS
<1>1. packet \in Packets
  BY DEF Going, IInv, Fresh, PassHeader
<1>2. CASE /\ Output(packet.head, "none")
           /\ UNCHANGED <<input, packet, have, pos, pkt, pictures, broken>>
  <2>1. ~Splits("none")
    BY DEF Splits
  <2>2. PICK n \in Nat : n = packet.head /\ n <= StoreSize
    BY <1>1, PacketIs
  <2>3. Output(n, "none")
    BY <1>2, <2>2
  <2>4. OutputTypes'
    BY <2>1, <2>2, <2>3, WholeTypes
  <2> QED
    BY <1>2, <2>4 DEF InputTypes, Going, TypeOK, input
<1>3. CASE OutputFails(packet.head, "none")
  BY <1>3, FailTypes
<1> QED
  BY <1>2, <1>3 DEF PassHeader

\* In the payload, what is held back is of this packet.
LEMMA HeldIs ==
  ASSUME Going, mode = "payload", Rule(packet) \in {"act1", "act2"}
  PROVE  /\ ~pstart /\ Held = store /\ Len(store) \in Nat /\ at \in Nat
         /\ Len(store) <= at /\ at <= packet.head + have
         /\ \A j \in 1..Len(store) : store[j].pkt = pkt
BY LenProperties DEF Going, IInv, Shape, Fresh, Current, StoreOf, Held

LEMMA PassPayloadTypes ==
  ASSUME Going, IInv', NEW n \in Pieces, PassPayload(n)
  PROVE  OutputTypes' /\ InputTypes'
<1>1. /\ mode = "payload" /\ Rule(packet) \in {"act1", "act2"}
      /\ n <= packet.size - have /\ pos + n <= Upto[readNo]
  BY DEF PassPayload
<1>2. /\ packet \in Packets /\ n \in Nat /\ n <= StoreSize
      /\ have + n \in 0..packet.size /\ pos + n \in 0..Total
  BY <1>1, PieceIs
<1>3. CASE /\ Output(n, Found(n)) /\ pos' = pos + n /\ have' = have + n
           /\ UNCHANGED <<input, packet, pkt, broken>>
  <2>1. Len(Held) <= StoreSize
    <3>1. PICK h, s, a, l : /\ h = packet.head /\ s = packet.size /\ a = at /\ l = Len(Held)
      OBVIOUS
    <3>2. /\ h \in Nat /\ s \in Nat /\ h + s <= StoreSize /\ have \in Nat /\ have <= s
          /\ StoreSize \in Nat
      BY <1>2, <3>1, PacketIs DEF Going, TypeOK
    <3>3. l <= a /\ l \in Nat /\ a \in Nat /\ a <= h + have
      BY <1>1, <3>1, HeldIs
    <3> QED
      BY <3>1, <3>2, <3>3
  <2>2. PICK f : f = Found(n)
    OBVIOUS
  <2>3. OutputTypes'
    BY <1>2, <1>3, <2>1, <2>2, WholeTypes
  <2> QED
    BY <1>2, <1>3, <2>3 DEF InputTypes, Going, TypeOK, input
<1>4. CASE OutputFails(n, Found(n))
  BY <1>4, FailTypes
<1> QED
  BY <1>3, <1>4 DEF PassPayload

LEMMA EmitHeaderTypes ==
  ASSUME Going, IInv', NEW n \in Pieces, EmitHeader(n)
  PROVE  OutputTypes' /\ InputTypes'
<1>1. /\ mode = "payload" /\ n <= packet.size - have /\ pos + n <= Upto[readNo]
  BY DEF EmitHeader
<1>2. /\ packet \in Packets /\ n \in Nat /\ n >= 1 /\ n <= StoreSize
      /\ have + n \in 0..packet.size /\ pos + n \in 0..Total
  BY <1>1, PieceIs
<1>3. CASE /\ Output(1, "none") /\ pos' = pos + n /\ have' = have + n
           /\ UNCHANGED <<input, packet, pkt, pictures, broken>>
  <2>1. ~Splits("none")
    BY DEF Splits
  <2>2. 1 <= StoreSize /\ 1 \in Nat
    BY <1>2, GenIndexAssumption
  <2>3. OutputTypes'
    BY <1>3, <2>1, <2>2, WholeTypes
  <2> QED
    BY <1>2, <1>3, <2>3 DEF InputTypes, Going, TypeOK, input
<1>4. CASE OutputFails(1, "none")
  BY <1>4, FailTypes
<1> QED
  BY <1>3, <1>4 DEF EmitHeader

LEMMA EmitPayloadTypes == Going /\ IInv' /\ EmitPayload => OutputTypes' /\ InputTypes'
<1> SUFFICES ASSUME Going, IInv', EmitPayload PROVE OutputTypes' /\ InputTypes'
  OBVIOUS
<1>1. packet \in Packets
  BY DEF Going, IInv, Fresh, EmitPayload
<1>2. CASE /\ Output(1, "none")
           /\ UNCHANGED <<input, packet, have, pos, pkt, pictures, broken>>
  <2>1. ~Splits("none")
    BY DEF Splits
  <2>2. 1 <= StoreSize /\ 1 \in Nat
    BY <1>1, PacketIs
  <2>3. OutputTypes'
    BY <1>2, <2>1, <2>2, WholeTypes
  <2> QED
    BY <1>2, <2>3 DEF InputTypes, Going, TypeOK, input
<1>3. CASE OutputFails(1, "none")
  BY <1>3, FailTypes
<1> QED
  BY <1>2, <1>3 DEF EmitPayload

LEMMA GarbageTypes == Going /\ IInv' /\ Garbage => OutputTypes' /\ InputTypes'
<1> SUFFICES ASSUME Going, IInv', Garbage PROVE OutputTypes' /\ InputTypes'
  OBVIOUS
<1>1. /\ fileOffset' \in -IntLimit..(IntLimit - 1) /\ fileNo' \in Nat \ {0}
      /\ wrapped' \in BOOLEAN
  <2>1. CASE Count(fileOffset, fileNo, 1)
    <3>1. 1 \in 0..IntLimit
      BY GenIndexAssumption
    <3>2. fileOffset \in -IntLimit..(IntLimit - 1) /\ fileNo \in Nat \ {0}
      BY DEF Going, TypeOK
    <3> QED
      BY <2>1, <3>1, <3>2, Counts
  <2>2. CASE UNCHANGED place
    BY <2>2 DEF place, Going, TypeOK
  <2> QED
    BY <2>1, <2>2 DEF Garbage
<1>2. pos' \in 0..Total
  <2>1. pos < Upto[readNo] /\ pos' = pos + 1
    BY DEF Garbage
  <2> QED
    BY <2>1, Reached
<1>3. UNCHANGED <<readNo, packet, have, current, begins, entries, broken>>
  BY DEF Garbage, input, output
<1> QED
  BY <1>1, <1>2, <1>3 DEF OutputTypes, InputTypes, current, Going, TypeOK

LEMMA DropTypes == Going /\ Drop => OutputTypes' /\ InputTypes'
<1> SUFFICES ASSUME Going, Drop PROVE OutputTypes' /\ InputTypes'
  OBVIOUS
<1>1. pos' \in 0..Total
  <2>1. pos < Upto[readNo] /\ pos' = pos + 1
    BY DEF Drop
  <2> QED
    BY <2>1, Reached
<1>2. UNCHANGED <<readNo, packet, have, place, current, begins, entries>> /\ broken' = TRUE
  BY DEF Drop, input, output
<1> QED
  BY <1>1, <1>2 DEF OutputTypes, InputTypes, place, current, Going, TypeOK

LEMMA HeaderTypes ==
  ASSUME Going, IInv', NEW p \in Packets, Header(p)
  PROVE  OutputTypes' /\ InputTypes'
<1>1. pos' \in 0..Total /\ readNo' = readNo
  <2>1. PICK u : u = Upto[readNo]
    OBVIOUS
  <2>2. pos + p.head < u /\ pos' = pos + p.head /\ readNo' = readNo
    BY <2>1 DEF Header, input
  <2>3. p.head \in Nat /\ u \in Nat /\ Total \in Nat /\ pos \in Nat /\ u <= Total
    BY <2>1, PacketIs, Reached
  <2> QED
    BY <2>2, <2>3
<1>2. CASE Invalid(p)
  BY <1>1, <1>2 DEF Invalid, OutputTypes, InputTypes, place, current, output, Going, TypeOK
<1>3. CASE PacketBegins(p)
  <2>1. have' \in 0..packet'.size
    BY <1>3, PacketIs DEF PacketBegins
  <2>2. UNCHANGED <<place, begins, entries, broken>>
    BY <1>3 DEF PacketBegins
  <2>3. /\ packetNo' \in Nat \ {0}
        /\ packetOffset' \in -IntLimit..(IntLimit - 1)
    BY <1>3 DEF PacketBegins, current, Going, TypeOK
  <2> QED
    BY <1>1, <2>1, <2>2, <2>3 DEF OutputTypes, InputTypes, place, Going, TypeOK
<1> QED
  BY <1>2, <1>3 DEF Header

LEMMA DropPayloadTypes ==
  ASSUME Going, IInv', NEW n \in Pieces, DropPayload(n)
  PROVE  OutputTypes' /\ InputTypes'
<1>1. /\ mode = "payload" /\ n <= packet.size - have /\ pos + n <= Upto[readNo]
      /\ pos' = pos + n /\ have' = have + n
      /\ UNCHANGED <<input, packet, place, current, output, broken>>
  BY DEF DropPayload
<1>2. have + n \in 0..packet.size /\ pos + n \in 0..Total
  BY <1>1, PieceIs
<1> QED
  BY <1>1, <1>2 DEF OutputTypes, InputTypes, input, place, current, output, Going, TypeOK

LEMMA NextFileTypes == Going /\ IInv' /\ NextFile => OutputTypes' /\ InputTypes'
<1> SUFFICES ASSUME Going, IInv', NextFile PROVE OutputTypes' /\ InputTypes'
  OBVIOUS
<1>1. readNo' \in Files
  BY Reached DEF NextFile, Files
<1>2. UNCHANGED <<parser, place, current, output, broken>>
  BY DEF NextFile
<1> QED
  BY <1>1, <1>2
     DEF OutputTypes, InputTypes, parser, place, current, output, Going, TypeOK

\* The program ends in a state in which it does nothing more.
LEMMA OnlyGoing == IInv /\ TypeOK /\ Next => Going
<1> SUFFICES ASSUME IInv, TypeOK, Next PROVE Going
  OBVIOUS
<1>1. mode # "done"
  BY DEF Next, NextFile, Garbage, Drop, PassHeader, EmitPayload, Finish, Header,
         PassPayload, DropPayload, EmitHeader
<1> QED
  BY <1>1 DEF Going, IInv, Stops

\* What becomes of the entries in a step.
FileStep ==
  \/ UNCHANGED file
  \/ \E e \in EntryType : Write(e)
  \/ entries' = entries /\ Loses

LEMMA FileSteps == IInv /\ TypeOK /\ [Next]_vars => FileStep
<1> SUFFICES ASSUME IInv, TypeOK, [Next]_vars PROVE FileStep
  OBVIOUS
<1>1. CASE UNCHANGED vars
  BY <1>1 DEF vars, FileStep, file
<1>2. CASE Next
  <2>1. Going
    BY <1>2, OnlyGoing
  <2>2. ASSUME NEW f, Indexes(f) PROVE FileStep
    <3>1. CASE f \in {"I", "P"}
      BY <2>1, <2>2, <3>1, EntryIs DEF Indexes, FileStep
    <3> QED
      BY <2>2, <3>1 DEF Indexes, FileStep
  <2>3. ASSUME NEW n, NEW f, Output(n, f) \/ OutputFails(n, f) PROVE FileStep
    <3>1. UNCHANGED file \/ Indexes(f)
      BY <2>3 DEF Output, OutputFails
    <3> QED
      BY <2>2, <3>1 DEF FileStep
  <2>4. CASE NextFile \/ Garbage \/ Drop \/ \E n \in Pieces : DropPayload(n)
    BY <2>4 DEF NextFile, Garbage, Drop, DropPayload, output, FileStep, file
  <2>5. CASE Finish
    BY <2>5 DEF Finish, FileStep, file
  <2>6. ASSUME NEW p \in Packets, Header(p) PROVE FileStep
    BY <2>6 DEF Header, Invalid, PacketBegins, output, FileStep, file
  <2>7. CASE PassHeader
    BY <2>3, <2>7 DEF PassHeader
  <2>8. CASE EmitPayload
    BY <2>3, <2>8 DEF EmitPayload
  <2>9. ASSUME NEW n \in Pieces, PassPayload(n) \/ EmitHeader(n) PROVE FileStep
    BY <2>3, <2>9 DEF PassPayload, EmitHeader
  <2> QED
    BY <1>2, <2>4, <2>5, <2>6, <2>7, <2>8, <2>9 DEF Next
<1> QED
  BY <1>1, <1>2

\* An entry with its number cut to an uchar is one.
LEMMA StoredIs ==
  ASSUME NEW e \in EntryType
  PROVE  /\ Stored(e) \in EntryType /\ Stored(e).type = e.type /\ Stored(e).off = e.off
         /\ Stored(e).no = e.no % NumberLimit
<1>1. NumberLimit \in Nat /\ NumberLimit > 0
  BY FilesAssumption, GenIndexAssumption, LenProperties
<1>2. e.no \in Nat /\ e = [no |-> e.no, off |-> e.off, type |-> e.type]
  BY DEF EntryType
<1>3. e.no % NumberLimit \in Nat
  BY <1>1, <1>2
<1>4. Stored(e) = [no |-> e.no % NumberLimit, off |-> e.off, type |-> e.type]
  BY <1>2 DEF Stored, EntryType
<1> QED
  BY <1>3, <1>4 DEF EntryType

\* index.vdr has taken all entries, as it stores them, or something has been lost.
Kept ==
  /\ IndexTypes
  /\ ~indexFailed => /\ Len(index) = Len(entries)
                     /\ \A k \in 1..Len(index) : index[k] = Stored(entries[k])

LEMMA KeptNext == IInv /\ TypeOK /\ Kept /\ [Next]_vars => Kept'
<1> SUFFICES ASSUME IInv, TypeOK, Kept, [Next]_vars PROVE Kept'
  OBVIOUS
<1>1. index \in Seq(EntryType) /\ entries \in Seq(EntryType)
  BY DEF TypeOK
<1>2. CASE UNCHANGED file
  BY <1>2 DEF file, Kept, IndexTypes
<1>3. CASE Loses
  <2>1. <<>> \in Seq(EntryType)
    OBVIOUS
  <2> QED
    BY <1>3, <2>1 DEF Loses, Kept, IndexTypes
<1>4. ASSUME NEW e \in EntryType, entries' = Append(entries, e), ~indexFailed,
             index' = Append(index, Stored(e)), indexFailed' = indexFailed
      PROVE  Kept'
  <2>1. PICK s \in EntryType : s = Stored(e)
    BY StoredIs
  <2>2. PICK i \in Seq(EntryType), c \in Seq(EntryType) : i = index /\ c = entries
    BY <1>1
  <2>3. PICK m \in Nat : /\ Len(i) = m /\ Len(c) = m
                         /\ \A k \in 1..m : i[k] = Stored(c[k])
    BY <1>4, <2>2, LenProperties DEF Kept
  <2>4. /\ Append(i, s) \in Seq(EntryType)
        /\ Len(Append(i, s)) = m + 1 /\ Append(i, s)[m + 1] = s
        /\ \A k \in 1..m : Append(i, s)[k] = i[k]
        /\ Len(Append(c, e)) = m + 1 /\ Append(c, e)[m + 1] = e
        /\ \A k \in 1..m : Append(c, e)[k] = c[k]
    BY <2>3, AppendProperties
  <2>5. index' = Append(i, s) /\ entries' = Append(c, e)
    BY <1>4, <2>1, <2>2
  <2>6. \A k \in 1..(m + 1) : k \in 1..m \/ k = m + 1
    OBVIOUS
  <2>7. \A k \in 1..(m + 1) : index'[k] = Stored(entries'[k])
    BY <2>1, <2>3, <2>4, <2>5, <2>6
  <2>8. (\A k \in 1..Len(index) : index[k] = Stored(entries[k]))'
    BY <2>4, <2>5, <2>7 DEF Stored
  <2> QED
    BY <1>4, <2>4, <2>5, <2>8 DEF Kept, IndexTypes, TypeOK
<1>5. CASE \E e \in EntryType : Write(e)
  BY <1>3, <1>4, <1>5 DEF Write
<1> QED
  BY <1>2, <1>3, <1>5, FileSteps DEF FileStep

LEMMA NextTypes == IInv /\ IInv' /\ IndexTypes' /\ TypeOK /\ [Next]_vars => TypeOK'
<1> SUFFICES ASSUME IInv, IInv', IndexTypes', TypeOK, [Next]_vars PROVE TypeOK'
  OBVIOUS
<1>1. CASE UNCHANGED vars
  BY <1>1 DEF vars, TypeOK
<1>2. CASE Next
  <2>1. Going
    BY <1>2, OnlyGoing
  <2>2. CASE NextFile
    BY <2>1, <2>2, NextFileTypes, TypeParts, PTL
  <2>3. CASE Garbage
    BY <2>1, <2>3, GarbageTypes, TypeParts, PTL
  <2>9. CASE Drop
    BY <2>1, <2>9, DropTypes, TypeParts, PTL
  <2>4. CASE Finish
    <3>1. OutputTypes' /\ InputTypes'
      BY <2>4 DEF Finish, OutputTypes, InputTypes, input, place, current, TypeOK
    <3> QED
      BY <3>1, TypeParts, PTL
  <2>5. ASSUME NEW p \in Packets, Header(p) PROVE TypeOK'
    <3>1. OutputTypes' /\ InputTypes'
      BY <2>1, <2>5, HeaderTypes
    <3> QED
      BY <3>1, TypeParts, PTL
  <2>6. CASE PassHeader
    BY <2>1, <2>6, PassHeaderTypes, TypeParts, PTL
  <2>7. CASE EmitPayload
    BY <2>1, <2>7, EmitPayloadTypes, TypeParts, PTL
  <2>8. ASSUME NEW n \in Pieces, PassPayload(n) \/ DropPayload(n) \/ EmitHeader(n)
        PROVE  TypeOK'
    <3>1. OutputTypes' /\ InputTypes'
      BY <2>1, <2>8, PassPayloadTypes, DropPayloadTypes, EmitHeaderTypes
    <3> QED
      BY <3>1, TypeParts, PTL
  <2> QED
    BY <1>2, <2>2, <2>3, <2>4, <2>5, <2>6, <2>7, <2>8, <2>9 DEF Next
<1> QED
  BY <1>1, <1>2

LEMMA InitTypes == Init => TypeOK
<1> SUFFICES ASSUME Init PROVE TypeOK
  OBVIOUS
<1>1. Len(InputSizes) \in Nat /\ Len(InputSizes) >= 1
  BY GenIndexAssumption, LenProperties, EmptySeq
<1>2. 1 \in Files /\ Total \in Nat
  <2>1. PICK n : n = Len(InputSizes)
    OBVIOUS
  <2>2. n \in 0..Len(InputSizes)
    BY <1>1, <2>1
  <2>3. Upto[n] \in Nat
    BY <2>2, UptoGrows
  <2> QED
    BY <1>1, <2>1, <2>3 DEF Files, Total
<1>3. 0 \in -IntLimit..(IntLimit - 1)
  BY GenIndexAssumption
<1>4. <<>> \in Seq(ByteType) /\ <<1>> \in Seq(Nat \ {0})
      /\ <<>> \in Seq(EntryType) /\ index = <<>> /\ indexFailed = FALSE
  BY DEF Init
<1>5. have \in 0..packet.size /\ packet \in Packets \cup {NoPacket}
  BY DEF Init, NoPacket
<1>6. /\ rewrite \in BOOLEAN /\ mode = "sync" /\ pos = 0 /\ readNo = 1
      /\ fileNo = 1 /\ fileOffset = 0 /\ packetNo = 1 /\ packetOffset = 0
      /\ scan = FALSE /\ pstart = FALSE /\ store = <<>> /\ error = "none"
      /\ out = <<>> /\ begins = <<1>> /\ entries = <<>> /\ pkt = 0 /\ at = 0
      /\ passed = <<>> /\ wrapped = FALSE /\ broken = FALSE
  BY DEF Init
<1>7. /\ pos \in 0..Total /\ readNo \in Files
      /\ fileNo \in Nat \ {0} /\ fileOffset \in -IntLimit..(IntLimit - 1)
      /\ packetNo \in Nat \ {0} /\ packetOffset \in -IntLimit..(IntLimit - 1)
      /\ pkt \in Nat /\ at \in Nat
  BY <1>2, <1>3, <1>6
<1> QED
  BY <1>4, <1>5, <1>6, <1>7 DEF TypeOK

-----------------------------------------------------------------------------
(* One entry for each picture.                                             *)

\* The pieces of a packet are passed on as they are, perhaps searched for a picture.
InPassed == mode \in {"header", "payload"} /\ Rule(packet) \in {"act1", "act2"}
InVideo == mode \in {"header", "payload"} /\ Rule(packet) = "act2"

\* Every picture has led to one entry, in the order of the stream.
EntriesComplete ==
  error = "none" =>
    /\ Len(entries) = Len(pictures)
    /\ \A k \in 1..Len(entries) : entries[k].type = pictures[k].type

\* The scanner is on until it has met the picture of the packet.
Scanning == InVideo /\ packet.pic # "none" /\ have < packet.picAt => scan

\* Of the packet, as much has been output as has been read, but for the header that
\* goes first.
Even == mode = "payload" /\ InPassed => at = packet.head + have

Tracked == Scanning /\ Even /\ EntriesComplete

\* Steps outside of a packet that is passed on.
LEMMA TrackedElsewhere ==
  ASSUME ~InPassed', UNCHANGED <<error, entries, pictures>>, EntriesComplete
  PROVE  Tracked'
<1>1. Scanning' /\ Even'
  BY DEF InPassed, InVideo, Scanning, Even
<1>2. EntriesComplete'
  BY DEF EntriesComplete
<1> QED
  BY <1>1, <1>2 DEF Tracked

\* Steps that change nothing of it.
LEMMA TrackedStill ==
  ASSUME Tracked, UNCHANGED <<mode, packet, have, at, scan, error, entries, pictures, rewrite>>
  PROVE  Tracked'
<1>1. Rule(packet)' = Rule(packet)
  BY DEF Rule
<1>2. Scanning' /\ Even'
  BY <1>1 DEF InPassed, InVideo, Scanning, Even, Tracked
<1>3. EntriesComplete'
  BY DEF EntriesComplete, Tracked
<1> QED
  BY <1>2, <1>3 DEF Tracked

LEMMA TrackedFailed ==
  ASSUME NEW n, NEW f, OutputFails(n, f)
  PROVE  Tracked'
BY DEF OutputFails, Tracked, Scanning, Even, EntriesComplete, InPassed, InVideo

LEMMA HeaderTracked ==
  ASSUME Going, IInv', Tracked, NEW p \in Packets, Header(p)
  PROVE  Tracked'
<1>1. rewrite' = rewrite /\ mode = "sync"
  BY DEF Header, input
<1>2. CASE Invalid(p)
  <2>1. ~InPassed' /\ UNCHANGED <<error, entries, pictures>> /\ EntriesComplete
    BY <1>1, <1>2 DEF Invalid, output, InPassed, Tracked
  <2> QED
    BY <2>1, TrackedElsewhere
<1>3. CASE PacketBegins(p)
  <2>1. /\ Rule(packet)' = Rule(p)
        /\ mode' = IF Rule(p) \in {"act1", "act2"} THEN "header"
                   ELSE IF p.size = 0 THEN "sync" ELSE "payload"
        /\ scan' = IF Rule(p) = "skip" THEN scan ELSE Rule(p) = "act2"
        /\ UNCHANGED <<error, entries, pictures>>
    BY <1>1, <1>3 DEF PacketBegins, Rule
  <2>2. Scanning' /\ Even'
    BY <2>1 DEF Scanning, Even, InPassed, InVideo
  <2>3. EntriesComplete'
    BY <2>1 DEF EntriesComplete, Tracked
  <2> QED
    BY <2>2, <2>3 DEF Tracked
<1> QED
  BY <1>2, <1>3 DEF Header

LEMMA PassHeaderTracked == Going /\ IInv' /\ Tracked /\ PassHeader => Tracked'
<1> SUFFICES ASSUME Going, IInv', Tracked, PassHeader PROVE Tracked'
  OBVIOUS
<1>1. mode = "header" /\ packet \in Packets /\ at = 0 /\ have = 0
  BY DEF Going, IInv, Fresh, PassHeader
<1>2. CASE /\ Output(packet.head, "none")
           /\ After(IF packet.size = 0 THEN "sync" ELSE "payload")
           /\ UNCHANGED <<input, packet, have, pos, pkt, pictures, broken>>
  <2>1. /\ error' = "none" /\ at' = at + packet.head /\ scan' = scan /\ entries' = entries
    BY <1>2, Whole DEF Going, IInv, Shape
  <2>2. /\ mode' \in {"sync", "payload"} /\ Rule(packet)' = Rule(packet)
        /\ UNCHANGED <<packet, have, pictures, rewrite>>
    BY <1>2, <2>1 DEF After, input, Rule
  <2>3. Scanning'
    BY <1>1, <2>1, <2>2 DEF Tracked, Scanning, InVideo
  <2>4. Even'
    <3>1. at' = packet'.head + have'
      BY <1>1, <2>1, <2>2, PacketIs
    <3> QED
      BY <3>1 DEF Even
  <2>5. EntriesComplete'
    BY <2>1, <2>2 DEF Going, Tracked, EntriesComplete
  <2> QED
    BY <2>3, <2>4, <2>5 DEF Tracked
<1>3. CASE OutputFails(packet.head, "none")
  BY <1>3, TrackedFailed
<1> QED
  BY <1>2, <1>3 DEF PassHeader

\* The scanner meets the pictures that genindex ought to know.
LEMMA Meets ==
  ASSUME Going, Scanning, mode = "payload", Rule(packet) \in {"act1", "act2"},
         NEW n \in Nat, packet \in Packets
  PROVE  /\ Found(n) \in {"I", "P"} <=>
              packet.pic \in {"I", "P"} /\ packet.picAt \in (have + 1)..(have + n)
         /\ Found(n) \in {"I", "P"} => scan /\ Found(n) = packet.pic
         /\ have + n < packet.picAt => Found(n) = "none"
<1>1. have \in Nat /\ packet.picAt \in Nat
  BY PacketIs DEF Going, IInv, Shape
<1>2. ASSUME packet.pic \in {"I", "P"}, packet.picAt \in (have + 1)..(have + n)
      PROVE  scan
  <2>1. packet.kind = "video"
    BY <1>2, PacketIs
  <2>2. InVideo /\ have < packet.picAt
    BY <1>1, <1>2, <2>1 DEF InVideo, Rule
  <2> QED
    BY <1>2, <2>2 DEF Scanning
<1>3. have + n < packet.picAt => packet.picAt \notin (have + 1)..(have + n)
  BY <1>1
<1> QED
  BY <1>2, <1>3 DEF Found

LEMMA PassPayloadTracked ==
  ASSUME Going, IInv', Tracked, NEW n \in Pieces, PassPayload(n)
  PROVE  Tracked'
<1>1. /\ mode = "payload" /\ Rule(packet) \in {"act1", "act2"}
      /\ n <= packet.size - have /\ pos + n <= Upto[readNo]
  BY DEF PassPayload
<1>2. packet \in Packets /\ n \in Nat /\ n >= 1 /\ have \in Nat /\ at \in Nat
  BY <1>1, PieceIs DEF Going, IInv, Shape
<1> DEFINE begun == packet.pic \in {"I", "P"} /\ packet.picAt \in (have + 1)..(have + n)
<1>3. /\ Found(n) \in {"I", "P"} <=> begun
      /\ begun => Found(n) = packet.pic
      /\ have + n < packet.picAt => Found(n) = "none"
  BY <1>1, <1>2, Meets DEF Tracked
<1>4. CASE /\ Output(n, Found(n))
           /\ have' = have + n
           /\ After(IF have + n = packet.size THEN "sync" ELSE "payload")
           /\ pictures' = IF begun
                          THEN Append(pictures,
                                      [type |-> packet.pic, pkt |-> pkt,
                                       start |-> pos - have - packet.head])
                          ELSE pictures
           /\ UNCHANGED <<input, packet, pkt, broken>>
  <2>0. PICK f : f = Found(n)
    OBVIOUS
  <2>1. /\ error' = "none" /\ at' = at + n /\ scan' = (scan /\ f = "none")
        /\ entries' = IF f \in {"I", "P"} THEN Append(entries, Entry(f)) ELSE entries
    BY <1>4, <2>0, Whole
  <2>2. /\ mode' \in {"sync", "payload"} /\ Rule(packet)' = Rule(packet)
        /\ UNCHANGED <<packet, rewrite>>
    BY <1>4, <2>1 DEF After, input, Rule
  <2>3. Scanning'
    <3>1. SUFFICES ASSUME InVideo', packet.pic # "none", have + n < packet.picAt
                   PROVE  scan'
      BY <1>4, <2>2 DEF Scanning
    <3>2. have < packet.picAt
      BY <1>2, <3>1, PacketIs
    <3>3. InVideo
      BY <1>1, <2>2, <3>1 DEF InVideo
    <3> QED
      BY <1>3, <2>0, <2>1, <3>1, <3>2, <3>3 DEF Tracked, Scanning
  <2>4. Even'
    <3>1. at = packet.head + have
      BY <1>1 DEF Tracked, Even, InPassed
    <3>2. at + n = packet.head + (have + n)
      BY <1>2, <3>1, PacketIs
    <3> QED
      BY <1>4, <2>1, <2>2, <3>2 DEF Even
  <2>5. EntriesComplete'
    <3>1. /\ Len(entries) = Len(pictures)
          /\ \A k \in 1..Len(entries) : entries[k].type = pictures[k].type
      BY DEF Tracked, EntriesComplete, Going
    <3>2. entries \in Seq(EntryType)
      BY DEF Going, TypeOK
    <3>3. CASE begun
      <4>1. PICK e, p, i, q : /\ i = entries /\ q = pictures
                              /\ e = Entry(f)
                              /\ p = [type |-> packet.pic, pkt |-> pkt,
                                      start |-> pos - have - packet.head]
        OBVIOUS
      <4>2. entries' = Append(i, e) /\ pictures' = Append(q, p)
        BY <1>3, <1>4, <2>0, <2>1, <3>3, <4>1
      <4>3. e.type = p.type
        BY <1>3, <2>0, <3>3, <4>1 DEF Entry
      <4> QED
        BY <3>1, <3>2, <4>1, <4>2, <4>3 DEF EntriesComplete
    <3>4. CASE ~begun
      BY <1>3, <1>4, <2>0, <2>1, <3>1, <3>4 DEF EntriesComplete
    <3> QED
      BY <3>3, <3>4
  <2> QED
    BY <2>3, <2>4, <2>5 DEF Tracked
<1>5. CASE OutputFails(n, Found(n))
  BY <1>5, TrackedFailed
<1> QED
  BY <1>4, <1>5 DEF PassPayload

LEMMA TrackedNext ==
  IInv /\ IInv' /\ TypeOK /\ Tracked /\ [Next]_vars => Tracked'
<1> SUFFICES ASSUME IInv, IInv', TypeOK, Tracked, [Next]_vars PROVE Tracked'
  OBVIOUS
<1>1. CASE UNCHANGED vars
  BY <1>1, TrackedStill DEF vars
<1>2. CASE Next
  <2>1. Going
    BY <1>2, OnlyGoing
  <2>2. EntriesComplete
    BY DEF Tracked
  <2>3. CASE NextFile
    BY <2>3, TrackedStill DEF NextFile, parser, output
  <2>4. CASE Garbage
    <3>1. ~InPassed' /\ UNCHANGED <<error, entries, pictures>>
      BY <2>4 DEF Garbage, output, InPassed
    <3> QED
      BY <2>2, <3>1, TrackedElsewhere
  <2>9. CASE Drop
    <3>1. ~InPassed' /\ UNCHANGED <<error, entries, pictures>>
      BY <2>9 DEF Drop, output, InPassed
    <3> QED
      BY <2>2, <3>1, TrackedElsewhere
  <2>5. CASE Finish
    <3>1. ~InPassed' /\ UNCHANGED <<error, entries, pictures>>
      BY <2>5 DEF Finish, InPassed
    <3> QED
      BY <2>2, <3>1, TrackedElsewhere
  <2>6. CASE EmitPayload
    <3>1. CASE /\ Output(1, "none")
               /\ After(IF have = packet.size THEN "sync" ELSE "payload")
               /\ UNCHANGED <<input, packet, have, pos, pkt, pictures, broken>>
      <4>1. error' = "none" /\ entries' = entries
        BY <2>1, <3>1, Whole
      <4>2. Rule(packet)' = "act3" /\ mode' \in {"sync", "payload"}
        BY <2>1, <2>6, <3>1, <4>1 DEF EmitPayload, Going, IInv, Fresh, Rule, After, input
      <4>3. ~InPassed' /\ UNCHANGED <<error, entries, pictures>>
        BY <2>1, <3>1, <4>1, <4>2 DEF InPassed, Going
      <4> QED
        BY <2>2, <4>3, TrackedElsewhere
    <3>2. CASE OutputFails(1, "none")
      BY <3>2, TrackedFailed
    <3> QED
      BY <2>6, <3>1, <3>2 DEF EmitPayload
  <2>7. ASSUME NEW n \in Pieces, DropPayload(n) PROVE Tracked'
    <3>1. ~InPassed' /\ UNCHANGED <<error, entries, pictures>>
      BY <2>7 DEF DropPayload, output, InPassed, Rule, input
    <3> QED
      BY <2>2, <3>1, TrackedElsewhere
  <2>8. ASSUME NEW n \in Pieces, EmitHeader(n) PROVE Tracked'
    <3>1. CASE Output(1, "none") /\ After("emit") /\ UNCHANGED pictures
      <4>1. error' = "none" /\ entries' = entries
        BY <2>1, <3>1, Whole
      <4>2. ~InPassed' /\ UNCHANGED <<error, entries, pictures>>
        BY <2>1, <3>1, <4>1 DEF InPassed, Going, After
      <4> QED
        BY <2>2, <4>2, TrackedElsewhere
    <3>2. CASE OutputFails(1, "none")
      BY <3>2, TrackedFailed
    <3> QED
      BY <2>8, <3>1, <3>2 DEF EmitHeader
  <2> QED
    BY <1>2, <2>1, <2>3, <2>4, <2>5, <2>6, <2>7, <2>8, <2>9, HeaderTracked,
       PassHeaderTracked,
       PassPayloadTracked DEF Next
<1> QED
  BY <1>1, <1>2

LEMMA InitTracked == Init => Tracked
BY DEF Init, Tracked, Scanning, Even, EntriesComplete, InPassed, InVideo

-----------------------------------------------------------------------------
(* New files begin with I-frames.                                          *)

\* What is held back of a packet is all of it so far.
HeldWhole ==
  rewrite /\ error = "none" =>
    /\ store # <<>> => store[1].at = 1
    /\ mode = "payload" /\ InPassed => store = <<>> \/ Len(store) = at

\* Each file begins within what was passed, where a packet with an I-frame begins.
BeginsAt(b) ==
  /\ b \in 1..Len(passed) /\ passed[b].at = 1
  /\ \E k \in 1..Len(pictures) : pictures[k].pkt = passed[b].pkt /\ pictures[k].type = "I"

FilesBegin ==
  error = "none" =>
    /\ Len(begins) >= 1 /\ begins[1] = 1
    /\ ~rewrite => Len(begins) = 1
    /\ \A n \in 2..Len(begins) : BeginsAt(begins[n])

\* What a piece adds to the bytes passed on.
LEMMA Longer ==
  ASSUME Going, IInv', NEW n \in Nat, NEW f, Output(n, f)
  PROVE  /\ Len(passed) \in Nat /\ at \in Nat /\ Len(passed') = Len(passed) + n
         /\ \A i \in 1..Len(passed) : passed'[i] = passed[i]
         /\ \A k \in 1..n : passed'[Len(passed) + k] = [pkt |-> pkt, at |-> at + k]
<1>1. at \in Nat /\ pkt \in Nat /\ passed \in Seq(ByteType)
  BY DEF Going, IInv, Shape
<1>2. PICK d \in Seq(ByteType) : d = Bytes(n) /\ Len(d) = n
  BY <1>1, BytesTypes
<1>3. \A k \in 1..n : d[k] = [pkt |-> pkt, at |-> at + k]
  BY <1>2 DEF Bytes
<1>4. PICK s \in Seq(ByteType) : s = passed
  BY <1>1
<1>5. passed' = s \o d
  BY <1>2, <1>4, Whole
<1>6. /\ Len(s) \in Nat /\ Len(s \o d) = Len(s) + Len(d)
      /\ \A i \in 1..(Len(s) + Len(d)) :
           (s \o d)[i] = IF i <= Len(s) THEN s[i] ELSE d[i - Len(s)]
  BY ConcatProperties, LenProperties
<1>7. PICK m \in Nat : m = Len(s)
  BY <1>6
<1>8. \A k \in 1..n : (s \o d)[m + k] = d[k]
  <2> TAKE k \in 1..n
  <2>1. m + k \in 1..(m + n) /\ ~(m + k <= m) /\ (m + k) - m = k
    OBVIOUS
  <2> QED
    BY <1>2, <1>6, <1>7, <2>1
<1>9. \A i \in 1..m : (s \o d)[i] = s[i]
  BY <1>2, <1>6, <1>7
<1> QED
  BY <1>1, <1>2, <1>3, <1>4, <1>5, <1>6, <1>7, <1>8, <1>9

\* The held pieces come last among the bytes passed on.
LEMMA HeldLast ==
  ASSUME Going, rewrite
  PROVE  /\ Len(passed) \in Nat /\ Len(Held) \in Nat /\ Len(WrittenBefore) \in Nat
         /\ Len(passed) = Len(WrittenBefore) + Len(Held)
         /\ \A j \in 1..Len(Held) : passed[Len(WrittenBefore) + j] = Held[j]
<1>1. PICK s \in Seq(ByteType), d \in Seq(ByteType) : s = WrittenBefore /\ d = Held
  BY Writes DEF Going, IInv
<1>2. passed = s \o d
  BY <1>1, Writes DEF Going, IInv, Ordered
<1>3. /\ Len(s) \in Nat /\ Len(d) \in Nat /\ Len(s \o d) = Len(s) + Len(d)
      /\ \A i \in 1..(Len(s) + Len(d)) :
           (s \o d)[i] = IF i <= Len(s) THEN s[i] ELSE d[i - Len(s)]
  BY ConcatProperties, LenProperties
<1>4. PICK m \in Nat, l \in Nat : m = Len(s) /\ l = Len(d)
  BY <1>3
<1>5. \A j \in 1..l : (s \o d)[m + j] = d[j]
  <2> TAKE j \in 1..l
  <2>1. m + j \in 1..(m + l) /\ ~(m + j <= m) /\ (m + j) - m = j
    OBVIOUS
  <2> QED
    BY <1>3, <1>4, <2>1
<1> QED
  BY <1>1, <1>2, <1>3, <1>4, <1>5

\* A new file begins with the packet at hand.
LEMMA SplitsHere ==
  ASSUME Going, HeldWhole, rewrite, mode = "payload", Rule(packet) \in {"act1", "act2"},
         NEW f, Splits(f)
  PROVE  /\ f = "I" /\ Len(Held) = at /\ at \in Nat /\ at >= 1 /\ at <= Len(passed)
         /\ Len(passed) \in Nat
         /\ Len(WrittenBefore) + 1 = (Len(passed) + 1) - at
         /\ passed[(Len(passed) + 1) - at] = [pkt |-> pkt, at |-> 1]
<1>1. f = "I" /\ Held # <<>>
  BY DEF Splits
<1>2. /\ Held = store /\ Len(store) = at /\ store[1].at = 1 /\ at \in Nat
      /\ \A j \in 1..Len(store) : store[j].pkt = pkt
      /\ store \in Seq(ByteType)
  BY <1>1, HeldIs DEF HeldWhole, InPassed, Going, IInv, Shape
<1>3. at >= 1
  BY <1>1, <1>2, EmptySeq
<1>4. PICK m \in Nat, l \in Nat, a \in Nat : /\ m = Len(WrittenBefore) /\ l = Len(passed)
                                             /\ a = at /\ a >= 1
  BY <1>2, <1>3, HeldLast
<1>5. l = m + a /\ passed[m + 1] = Held[1]
  BY <1>2, <1>3, <1>4, HeldLast
<1>6. m + 1 = (l + 1) - a /\ a <= l
  BY <1>4, <1>5
<1>7. Held[1] = [pkt |-> pkt, at |-> 1]
  <2>1. Held[1] \in ByteType /\ Held[1].pkt = pkt /\ Held[1].at = 1
    BY <1>2, <1>3, ElementOfSeq
  <2> QED
    BY <2>1 DEF ByteType
<1> QED
  BY <1>1, <1>2, <1>3, <1>4, <1>5, <1>6, <1>7

\* After a piece.
LEMMA HeldWholeAfter ==
  ASSUME Going, IInv', HeldWhole, NEW n \in Nat, n >= 1, NEW f, Output(n, f), rewrite,
         Holds(f) => \/ Held = <<>> /\ at = 0
                     \/ Held = store /\ store # <<>> /\ Len(store) = at
  PROVE  /\ store' # <<>> => store'[1].at = 1
         /\ store' = <<>> \/ Len(store') = at'
<1>1. CASE ~Holds(f)
  BY <1>1, Whole
<1>2. CASE Holds(f)
  <2>1. at \in Nat /\ pkt \in Nat /\ Held \in Seq(ByteType) /\ at' = at + n
    BY Writes, Whole DEF Going, IInv, Shape
  <2>2. PICK s \in Seq(ByteType), d \in Seq(ByteType) :
          /\ s = Held /\ d = Bytes(n) /\ Len(d) = n
    BY <2>1, BytesTypes
  <2>3. store' = s \o d
    BY <1>2, <2>2, Whole
  <2>4. /\ Len(s) \in Nat /\ Len(s \o d) = Len(s) + Len(d)
        /\ \A i \in 1..(Len(s) + Len(d)) :
             (s \o d)[i] = IF i <= Len(s) THEN s[i] ELSE d[i - Len(s)]
    BY ConcatProperties, LenProperties
  <2>5. CASE Held = <<>> /\ at = 0
    <3>1. Len(s) = 0
      BY <2>2, <2>5
    <3>2. (s \o d)[1] = d[1] /\ d[1] = [pkt |-> pkt, at |-> 1]
      <4>1. 1 \in 1..(Len(s) + Len(d)) /\ 1 - Len(s) = 1 /\ ~(1 <= Len(s))
        BY <2>2, <3>1
      <4>2. d[1] = [pkt |-> pkt, at |-> at + 1]
        BY <2>2 DEF Bytes
      <4> QED
        BY <2>4, <2>5, <4>1, <4>2
    <3> QED
      BY <2>1, <2>2, <2>3, <2>4, <2>5, <3>1, <3>2
  <2>6. CASE Held = store /\ store # <<>> /\ Len(store) = at
    <3>1. store[1].at = 1
      BY <2>6 DEF HeldWhole, Going
    <3>2. Len(s) >= 1
      BY <2>2, <2>4, <2>6, EmptySeq
    <3>3. (s \o d)[1] = s[1]
      <4>1. 1 \in 1..(Len(s) + Len(d)) /\ 1 <= Len(s)
        BY <2>2, <2>4, <3>2
      <4> QED
        BY <2>4, <4>1
    <3> QED
      BY <2>1, <2>2, <2>3, <2>4, <2>6, <3>1, <3>3
  <2> QED
    BY <1>2, <2>5, <2>6
<1> QED
  BY <1>1, <1>2

\* More bytes and more pictures change nothing about where a file begins.
LEMMA BeginsStill ==
  ASSUME NEW b, BeginsAt(b), Len(passed) \in Nat, Len(passed') \in Nat,
         Len(passed) <= Len(passed'),
         \A i \in 1..Len(passed) : passed'[i] = passed[i],
         Len(pictures) \in Nat, Len(pictures') \in Nat, Len(pictures) <= Len(pictures'),
         \A k \in 1..Len(pictures) : pictures'[k] = pictures[k]
  PROVE  BeginsAt(b)'
<1>1. b \in 1..Len(passed') /\ passed'[b] = passed[b]
  BY DEF BeginsAt
<1>2. PICK k \in 1..Len(pictures) : pictures[k].pkt = passed[b].pkt /\ pictures[k].type = "I"
  BY DEF BeginsAt
<1>3. k \in 1..Len(pictures') /\ pictures'[k] = pictures[k]
  BY <1>2
<1> QED
  BY <1>1, <1>2, <1>3 DEF BeginsAt

LEMMA FilesBeginAfter ==
  ASSUME Going, IInv', FilesBegin, NEW n \in Nat, NEW f, Output(n, f), rewrite' = rewrite,
         Len(pictures) \in Nat, Len(pictures') \in Nat, Len(pictures) <= Len(pictures'),
         \A k \in 1..Len(pictures) : pictures'[k] = pictures[k],
         NEW b, b = Len(WrittenBefore) + 1, Splits(f) => BeginsAt(b)'
  PROVE  FilesBegin'
<1>1. /\ Len(begins) >= 1 /\ begins[1] = 1
      /\ ~rewrite => Len(begins) = 1
      /\ \A k \in 2..Len(begins) : BeginsAt(begins[k])
      /\ begins \in Seq(Nat \ {0})
  BY DEF Going, FilesBegin, TypeOK
<1>2. PICK s \in Seq(Nat \ {0}) : s = begins
  BY <1>1
<1>3. ASSUME NEW c, BeginsAt(c) PROVE BeginsAt(c)'
  <2>1. /\ Len(passed) \in Nat /\ Len(passed') \in Nat /\ Len(passed) <= Len(passed')
        /\ \A i \in 1..Len(passed) : passed'[i] = passed[i]
    BY Longer
  <2> QED
    BY <1>3, <2>1, BeginsStill
<1>4. CASE Splits(f)
  <2>1. begins' = Append(s, b) /\ rewrite
    BY <1>2, <1>4, Whole DEF Splits
  <2>2. /\ Len(Append(s, b)) = Len(s) + 1 /\ Len(s) \in Nat
        /\ \A k \in 1..Len(s) : Append(s, b)[k] = s[k]
        /\ Append(s, b)[Len(s) + 1] = b
    <3>1. b \in Nat \ {0}
      BY <1>4, <2>1, HeldLast
    <3> QED
      BY <3>1, AppendProperties, LenProperties
  <2>3. \A k \in 2..Len(s) : BeginsAt(s[k])'
    BY <1>1, <1>2, <1>3
  <2>4. PICK m \in Nat : m = Len(s) /\ m >= 1
    BY <1>1, <1>2, <2>2
  <2>5. ASSUME NEW k \in 2..(m + 1) PROVE BeginsAt(Append(s, b)[k])'
    <3>1. CASE k = m + 1
      BY <1>4, <2>2, <2>4, <3>1
    <3>2. CASE k # m + 1
      <4>1. k \in 2..m /\ k \in 1..m
        BY <2>4, <3>2
      <4> QED
        BY <2>2, <2>3, <2>4, <4>1
    <3> QED
      BY <3>1, <3>2
  <2>6. Len(begins') = m + 1 /\ begins'[1] = 1
    BY <1>1, <1>2, <2>1, <2>2, <2>4
  <2>7. (\A k \in 2..Len(begins) : BeginsAt(begins[k]))'
    BY <2>1, <2>5, <2>6 DEF BeginsAt
  <2> QED
    BY <2>1, <2>4, <2>6, <2>7 DEF FilesBegin
<1>5. CASE ~Splits(f)
  <2>1. begins' = s
    BY <1>2, <1>5, Whole
  <2>2. \A k \in 2..Len(s) : BeginsAt(s[k])'
    BY <1>1, <1>2, <1>3
  <2> QED
    BY <1>1, <1>2, <2>1, <2>2 DEF FilesBegin
<1> QED
  BY <1>4, <1>5

Splitting == HeldWhole /\ FilesBegin

\* Steps that output nothing, and those that fail.
LEMMA SplittingStill ==
  ASSUME Splitting, UNCHANGED <<rewrite, store, error, begins, passed, pictures>>,
         mode' = "payload" /\ InPassed' => mode = "payload" /\ InPassed /\ at' = at
  PROVE  Splitting'
<1>1. HeldWhole'
  BY DEF Splitting, HeldWhole
<1>2. FilesBegin'
  BY DEF Splitting, FilesBegin, BeginsAt
<1> QED
  BY <1>1, <1>2 DEF Splitting

LEMMA SplittingFailed ==
  ASSUME NEW n, NEW f, OutputFails(n, f)
  PROVE  Splitting'
BY DEF OutputFails, Splitting, HeldWhole, FilesBegin

LEMMA SplittingPassHeader ==
  Going /\ IInv' /\ Tracked /\ Splitting /\ PassHeader => Splitting'
<1> SUFFICES ASSUME Going, IInv', Tracked, Splitting, PassHeader PROVE Splitting'
  OBVIOUS
<1>1. mode = "header" /\ packet \in Packets /\ at = 0 /\ have = 0 /\ pstart
  BY DEF Going, IInv, Fresh, PassHeader
<1>2. PICK n \in Nat : n = packet.head /\ n >= 1
  BY <1>1, PacketIs
<1>3. CASE Output(n, "none") /\ UNCHANGED <<input, pictures>>
  <2>1. rewrite' = rewrite /\ pictures' = pictures /\ ~Splits("none")
    BY <1>3 DEF input, Splits
  <2>2. Len(pictures) \in Nat
    BY LenProperties DEF Tracked, EntriesComplete, Going, TypeOK
  <2>3. FilesBegin'
    <3>1. PICK b : b = Len(WrittenBefore) + 1
      OBVIOUS
    <3> QED
      BY <1>3, <2>1, <2>2, <3>1, FilesBeginAfter DEF Splitting
  <2>4. HeldWhole'
    <3>1. rewrite => Held = <<>>
      BY <1>1 DEF Held
    <3>2. rewrite => /\ store' # <<>> => store'[1].at = 1
                     /\ store' = <<>> \/ Len(store') = at'
      BY <1>1, <1>2, <1>3, <2>1, <3>1, HeldWholeAfter DEF Splitting
    <3> QED
      BY <2>1, <3>2 DEF HeldWhole
  <2> QED
    BY <2>3, <2>4 DEF Splitting
<1>4. CASE OutputFails(n, "none")
  BY <1>4, SplittingFailed
<1> QED
  BY <1>2, <1>3, <1>4 DEF PassHeader

LEMMA SplittingPassPayload ==
  ASSUME Going, IInv', Tracked, Splitting, NEW n \in Pieces, PassPayload(n)
  PROVE  Splitting'
<1>1. /\ mode = "payload" /\ Rule(packet) \in {"act1", "act2"}
      /\ n <= packet.size - have /\ pos + n <= Upto[readNo]
  BY DEF PassPayload
<1>2. packet \in Packets /\ n \in Nat /\ n >= 1
  BY <1>1, PieceIs
<1> DEFINE begun == packet.pic \in {"I", "P"} /\ packet.picAt \in (have + 1)..(have + n)
           p == [type |-> packet.pic, pkt |-> pkt, start |-> pos - have - packet.head]
<1>3. PICK f : f = Found(n)
  OBVIOUS
<1>4. CASE /\ Output(n, f) /\ UNCHANGED input
           /\ pictures' = IF begun THEN Append(pictures, p) ELSE pictures
  <2>1. rewrite' = rewrite
    BY <1>4 DEF input
  <2>2. Len(pictures) \in Nat
    BY LenProperties DEF Tracked, EntriesComplete, Going, TypeOK
  <2>3. /\ f \in {"I", "P"} <=> begun
        /\ begun => f = packet.pic
    BY <1>1, <1>2, <1>3, Meets DEF Tracked
  <2>4. /\ Len(pictures') \in Nat /\ Len(pictures) <= Len(pictures')
        /\ \A k \in 1..Len(pictures) : pictures'[k] = pictures[k]
        /\ begun => Len(pictures') = Len(pictures) + 1 /\ pictures'[Len(pictures) + 1] = p
    <3> HIDE DEF p, begun
    <3> QED
      BY <1>4, <2>2
  <2>5. PICK b : b = Len(WrittenBefore) + 1
    OBVIOUS
  <2>6. Splits(f) => BeginsAt(b)'
    <3>1. SUFFICES ASSUME Splits(f) PROVE BeginsAt(b)'
      OBVIOUS
    <3>2. rewrite
      BY <3>1 DEF Splits
    <3>3. /\ f = "I" /\ b = (Len(passed) + 1) - at /\ passed[b] = [pkt |-> pkt, at |-> 1]
          /\ at \in Nat /\ at >= 1 /\ at <= Len(passed) /\ Len(passed) \in Nat
      BY <1>1, <2>5, <3>1, <3>2, SplitsHere DEF Splitting
    <3>4. b \in 1..Len(passed)
      BY <3>3
    <3>5. b \in 1..Len(passed') /\ passed'[b] = passed[b]
      BY <1>2, <1>4, <3>3, <3>4, Longer
    <3>6. p.type = "I" /\ p.pkt = pkt /\ begun
      BY <2>3, <3>3
    <3>7. PICK k : k = Len(pictures) + 1
      OBVIOUS
    <3>8. k \in 1..Len(pictures') /\ pictures'[k] = p
      BY <2>2, <2>4, <3>6, <3>7
    <3> HIDE DEF p, begun
    <3> QED
      BY <3>3, <3>5, <3>6, <3>8 DEF BeginsAt
  <2>7. FilesBegin'
    BY <1>2, <1>4, <2>1, <2>2, <2>4, <2>5, <2>6, FilesBeginAfter DEF Splitting
  <2>8. HeldWhole'
    <3>1. Holds(f) => Held = store /\ store # <<>> /\ (rewrite => Len(store) = at)
      BY <1>1, HeldIs DEF Holds, Splitting, HeldWhole, InPassed, Going
    <3>2. rewrite => /\ store' # <<>> => store'[1].at = 1
                     /\ store' = <<>> \/ Len(store') = at'
      BY <1>2, <1>4, <3>1, HeldWholeAfter DEF Splitting
    <3> QED
      BY <2>1, <3>2 DEF HeldWhole
  <2> QED
    BY <2>7, <2>8 DEF Splitting
<1>5. CASE OutputFails(n, f)
  BY <1>5, SplittingFailed
<1> QED
  BY <1>3, <1>4, <1>5 DEF PassPayload

\* The pieces of an assembled subtitle.
LEMMA SplittingEmit ==
  ASSUME Going, IInv', Tracked, Splitting, Output(1, "none"), ~scan,
         UNCHANGED <<input, pictures>>, ~InPassed'
  PROVE  Splitting'
<1>1. rewrite' = rewrite /\ pictures' = pictures /\ ~Splits("none") /\ ~Holds("none")
  BY DEF input, Splits, Holds
<1>2. Len(pictures) \in Nat
  BY LenProperties DEF Tracked, EntriesComplete, Going, TypeOK
<1>3. FilesBegin'
  <2>1. PICK b : b = Len(WrittenBefore) + 1
    OBVIOUS
  <2> QED
    BY <1>1, <1>2, <2>1, FilesBeginAfter DEF Splitting
<1>4. HeldWhole'
  BY <1>1, Whole DEF HeldWhole
<1> QED
  BY <1>3, <1>4 DEF Splitting

LEMMA SplittingNext ==
  IInv /\ IInv' /\ TypeOK /\ Tracked /\ Splitting /\ [Next]_vars => Splitting'
<1> SUFFICES ASSUME IInv, IInv', TypeOK, Tracked, Splitting, [Next]_vars PROVE Splitting'
  OBVIOUS
<1>1. CASE UNCHANGED vars
  BY <1>1, SplittingStill DEF vars, InPassed, Rule
<1>2. CASE Next
  <2>1. Going
    BY <1>2, OnlyGoing
  <2>2. CASE NextFile
    BY <2>2, SplittingStill DEF NextFile, parser, output, InPassed, Rule
  <2>3. CASE Garbage
    BY <2>3, SplittingStill DEF Garbage, input, output
  <2>9. CASE Drop
    BY <2>9, SplittingStill DEF Drop, input, output
  <2>4. CASE Finish
    BY <2>4, SplittingStill DEF Finish, input
  <2>5. ASSUME NEW p \in Packets, Header(p) PROVE Splitting'
    <3>1. CASE Invalid(p)
      BY <2>5, <3>1, SplittingStill DEF Header, Invalid, input, output
    <3>2. CASE PacketBegins(p)
      <4>1. UNCHANGED <<rewrite, store, error, begins, passed, pictures>>
        BY <2>5, <3>2 DEF Header, PacketBegins, input
      <4>2. ~(mode' = "payload" /\ InPassed')
        BY <3>2, <4>1 DEF PacketBegins, InPassed, Rule
      <4> QED
        BY <4>1, <4>2, SplittingStill
    <3> QED
      BY <2>5, <3>1, <3>2 DEF Header
  <2>6. CASE EmitPayload
    <3>1. CASE /\ Output(1, "none")
               /\ After(IF have = packet.size THEN "sync" ELSE "payload")
               /\ UNCHANGED <<input, packet, have, pos, pkt, pictures, broken>>
      <4>1. ~scan /\ Rule(packet) = "act3"
        BY <2>1, <2>6 DEF EmitPayload, Going, IInv, Fresh
      <4>2. ~InPassed'
        BY <3>1, <4>1 DEF InPassed, Rule, input
      <4> QED
        BY <2>1, <3>1, <4>1, <4>2, SplittingEmit
    <3>2. CASE OutputFails(1, "none")
      BY <3>2, SplittingFailed
    <3> QED
      BY <2>6, <3>1, <3>2 DEF EmitPayload
  <2>7. ASSUME NEW n \in Pieces, DropPayload(n) PROVE Splitting'
    <3>1. ~InPassed' /\ UNCHANGED <<rewrite, store, error, begins, passed, pictures>>
      BY <2>7 DEF DropPayload, output, InPassed, Rule, input
    <3> QED
      BY <3>1, SplittingStill
  <2>8. ASSUME NEW n \in Pieces, EmitHeader(n) PROVE Splitting'
    <3>1. CASE /\ Output(1, "none") /\ After("emit")
               /\ UNCHANGED <<input, packet, pkt, pictures, broken>>
      <4>1. ~scan
        BY <2>1, <2>8 DEF EmitHeader, Going, IInv, Fresh
      <4>2. ~InPassed'
        BY <3>1 DEF InPassed, After
      <4> QED
        BY <2>1, <3>1, <4>1, <4>2, SplittingEmit
    <3>2. CASE OutputFails(1, "none")
      BY <3>2, SplittingFailed
    <3> QED
      BY <2>8, <3>1, <3>2 DEF EmitHeader
  <2> QED
    BY <1>2, <2>1, <2>2, <2>3, <2>4, <2>5, <2>6, <2>7, <2>8, <2>9, SplittingPassHeader,
       SplittingPassPayload DEF Next
<1> QED
  BY <1>1, <1>2

LEMMA InitSplitting == Init => Splitting
BY DEF Init, Splitting, HeldWhole, FilesBegin

-----------------------------------------------------------------------------
(* Entries of the index, when the files are rewritten.                     *)

\* The place of an entry among all bytes of output.
Place(e) == begins[e.no] + e.off

InOutput(e, p) ==
  /\ e.no \in 1..Len(begins)
  /\ e.no < Len(begins) => Place(e) < begins[e.no + 1]
  /\ Place(e) \in 1..Len(passed)
  /\ passed[Place(e)] = [pkt |-> p.pkt, at |-> 1]

\* The current video packet begins where packetNo and packetOffset say; before its
\* picture is found, all entries are of earlier packets.
PacketPlaced ==
  /\ packetNo = fileNo /\ begins[fileNo] + packetOffset = (Len(passed) + 1) - at
  /\ at > 0 => /\ at <= Len(passed)
               /\ passed[(Len(passed) + 1) - at] = [pkt |-> pkt, at |-> 1]
  /\ scan => \A k \in 1..Len(entries) : Place(entries[k]) <= Len(passed) - at

\* The next byte goes to fileNo at fileOffset.
Written ==
  rewrite /\ error = "none" /\ ~wrapped =>
    /\ fileNo = Len(begins) /\ begins[fileNo] + fileOffset = Len(passed) + 1
    /\ InVideo => PacketPlaced
    /\ \A k \in 1..Len(entries) : InOutput(entries[k], pictures[k])

LEMMA CountsOutput ==
  ASSUME rewrite, NEW o, NEW no, NEW n, Count(o, no, n), ~wrapped'
  PROVE  fileOffset' = o + n /\ fileNo' = no /\ ~wrapped
<1>1. PICK x : x = Wrap(o + n)
  OBVIOUS
<1>2. /\ fileOffset' = x /\ fileNo' = no
      /\ wrapped' = (wrapped \/ x # o + n)
  BY <1>1 DEF Count
<1> QED
  BY <1>2

\* More output, and perhaps a new file after its place, leave an entry right.
LEMMA PlaceStill ==
  ASSUME NEW e, NEW p, InOutput(e, p),
         Len(passed) \in Nat, Len(passed') \in Nat, Len(passed) <= Len(passed'),
         \A i \in 1..Len(passed) : passed'[i] = passed[i],
         Len(begins) \in Nat,
         \/ begins' = begins
         \/ /\ Len(begins') = Len(begins) + 1
            /\ \A k \in 1..Len(begins) : begins'[k] = begins[k]
            /\ Place(e) < begins'[Len(begins) + 1]
  PROVE  InOutput(e, p)' /\ Place(e)' = Place(e)
<1>1. PICK q : q = Place(e)
  OBVIOUS
<1>2. /\ e.no \in 1..Len(begins) /\ q = begins[e.no] + e.off
      /\ e.no < Len(begins) => q < begins[e.no + 1]
      /\ q \in 1..Len(passed) /\ passed[q] = [pkt |-> p.pkt, at |-> 1]
  BY <1>1 DEF InOutput, Place
<1>3. q \in 1..Len(passed') /\ passed'[q] = [pkt |-> p.pkt, at |-> 1]
  BY <1>2
<1>4. /\ e.no \in 1..Len(begins') /\ begins'[e.no] = begins[e.no]
      /\ e.no < Len(begins') => q < begins'[e.no + 1]
  <2>1. CASE begins' = begins
    BY <1>2, <2>1
  <2>2. CASE /\ Len(begins') = Len(begins) + 1
             /\ \A k \in 1..Len(begins) : begins'[k] = begins[k]
             /\ q < begins'[Len(begins) + 1]
    <3>1. CASE e.no = Len(begins)
      BY <1>2, <2>2, <3>1
    <3>2. CASE e.no # Len(begins)
      <4>1. e.no < Len(begins) /\ e.no + 1 \in 1..Len(begins)
        BY <1>2, <3>2
      <4> QED
        BY <1>2, <2>2, <4>1
    <3> QED
      BY <3>1, <3>2
  <2> QED
    BY <1>1, <2>1, <2>2
<1>5. Place(e)' = q
  BY <1>2, <1>4 DEF Place
<1> QED
  BY <1>1, <1>2, <1>3, <1>4, <1>5 DEF InOutput

\* Types of what the arithmetic is about.
LEMMA PlaceTypes ==
  ASSUME Going, FilesBegin, rewrite
  PROVE  /\ begins \in Seq(Nat \ {0}) /\ Len(begins) \in Nat /\ Len(begins) >= 1
         /\ \A k \in 1..Len(begins) : begins[k] \in Nat
         /\ fileOffset \in Int /\ packetOffset \in Int /\ Len(entries) \in Nat
         /\ entries \in Seq(EntryType)
<1>1. begins \in Seq(Nat \ {0}) /\ entries \in Seq(EntryType)
  BY DEF Going, TypeOK
<1>2. \A k \in 1..Len(begins) : begins[k] \in Nat
  BY <1>1, ElementOfSeq
<1>3. Len(begins) >= 1
  BY DEF Going, FilesBegin
<1>4. fileOffset \in Int /\ packetOffset \in Int
  BY GenIndexAssumption DEF Going, TypeOK
<1> QED
  BY <1>1, <1>2, <1>3, <1>4, LenProperties

\* A step that counts nothing.
LEMMA WrittenStill ==
  ASSUME Written, UNCHANGED <<rewrite, error, place, begins, passed, entries, pictures>>,
         rewrite /\ error = "none" /\ ~wrapped /\ InVideo' => PacketPlaced'
  PROVE  Written'
BY DEF Written, InOutput, Place, place

\* A piece that begins no file.
LEMMA WrittenPiece ==
  ASSUME Going, IInv', FilesBegin, EntriesComplete, Written,
         NEW n \in Nat, n >= 1, NEW f, Output(n, f), ~Splits(f),
         rewrite' = rewrite, pkt' = pkt,
         NEW p, p.pkt = pkt,
         pictures' = IF f \in {"I", "P"} THEN Append(pictures, p) ELSE pictures,
         InVideo' => InVideo,
         f # "none" => InVideo /\ at >= 1
  PROVE  Written'
<1> SUFFICES ASSUME rewrite, ~wrapped' PROVE Written'
  BY DEF Written
<1>1. /\ fileOffset' = fileOffset + n /\ fileNo' = fileNo /\ ~wrapped
      /\ begins' = begins /\ packetNo' = packetNo /\ packetOffset' = packetOffset
      /\ error' = "none" /\ at' = at + n /\ scan' = (scan /\ f = "none")
      /\ entries' = IF f \in {"I", "P"} THEN Append(entries, Entry(f)) ELSE entries
  BY Whole, CountsOutput
<1>2. /\ fileNo = Len(begins) /\ begins[fileNo] + fileOffset = Len(passed) + 1
      /\ InVideo => PacketPlaced
      /\ \A k \in 1..Len(entries) : InOutput(entries[k], pictures[k])
  BY <1>1 DEF Written, Going
<1>3. PICK L \in Nat, a \in Nat, m \in Nat : L = Len(passed) /\ a = at /\ m = Len(entries)
  BY Longer, PlaceTypes
<1>4. /\ Len(passed') = L + n /\ at' = a + n
      /\ \A i \in 1..L : passed'[i] = passed[i]
      /\ \A k \in 1..n : passed'[L + k] = [pkt |-> pkt, at |-> a + k]
  BY <1>1, <1>3, Longer
<1>5. /\ fileNo \in 1..Len(begins) /\ begins[fileNo] \in Nat
      /\ fileOffset \in Int /\ packetOffset \in Int /\ Len(begins) \in Nat
  BY <1>2, PlaceTypes
<1>6. PICK B \in Nat, o \in Int, q \in Int : /\ B = begins[fileNo] /\ o = fileOffset
                                             /\ q = packetOffset
  BY <1>5
<1>7. begins'[fileNo'] + fileOffset' = Len(passed') + 1
  <2>1. B + o = L + 1
    BY <1>2, <1>3, <1>6
  <2>2. B + (o + n) = (L + n) + 1
    BY <2>1
  <2> QED
    BY <1>1, <1>4, <1>6, <2>2
<1>8. ASSUME NEW e, NEW r, InOutput(e, r) PROVE InOutput(e, r)' /\ Place(e)' = Place(e)
  <2>1. Len(passed) <= Len(passed') /\ Len(passed') \in Nat
    BY <1>3, <1>4
  <2> QED
    BY <1>1, <1>3, <1>4, <1>5, <1>8, <2>1, PlaceStill
<1>9. ASSUME InVideo PROVE
         /\ packetNo = fileNo /\ B + q = (L + 1) - a
         /\ a > 0 => a <= L /\ passed[(L + 1) - a] = [pkt |-> pkt, at |-> 1]
         /\ scan => \A k \in 1..m : Place(entries[k]) <= L - a
  BY <1>2, <1>3, <1>6, <1>9 DEF PacketPlaced
<1>10. ASSUME InVideo' PROVE PacketPlaced'
  <2>1. packetNo' = fileNo' /\ begins'[fileNo'] + packetOffset' = (Len(passed') + 1) - at'
    <3>1. B + q = (L + 1) - a /\ packetNo = fileNo
      BY <1>9, <1>10
    <3>2. B + q = ((L + n) + 1) - (a + n)
      BY <3>1
    <3> QED
      BY <1>1, <1>4, <1>6, <3>1, <3>2
  <2>2. a + n <= L + n /\ passed'[((L + n) + 1) - (a + n)] = [pkt |-> pkt, at |-> 1]
    <3>1. ((L + n) + 1) - (a + n) = (L + 1) - a
      OBVIOUS
    <3>2. CASE a > 0
      <4>1. a <= L /\ passed[(L + 1) - a] = [pkt |-> pkt, at |-> 1]
        BY <1>9, <1>10, <3>2
      <4>2. (L + 1) - a \in 1..L
        BY <3>2, <4>1
      <4> QED
        BY <1>4, <3>1, <4>1, <4>2
    <3>3. CASE a = 0
      <4>1. (L + 1) - a = L + 1 /\ 1 \in 1..n
        BY <3>3
      <4>2. passed'[L + 1] = [pkt |-> pkt, at |-> 0 + 1]
        BY <1>4, <3>3, <4>1
      <4> QED
        BY <3>1, <3>3, <4>1, <4>2
    <3> QED
      BY <3>2, <3>3
  <2>3. scan' => (\A k \in 1..Len(entries) : Place(entries[k]) <= Len(passed) - at)'
    <3>1. SUFFICES ASSUME scan, f = "none"
                   PROVE  (\A k \in 1..Len(entries) : Place(entries[k]) <= Len(passed) - at)'
      BY <1>1
    <3>2. entries' = entries
      BY <1>1, <3>1
    <3>3. ASSUME NEW k \in 1..m PROVE Place(entries[k])' <= (L + n) - (a + n)
      <4>1. PICK e : e = entries[k]
        OBVIOUS
      <4>2. InOutput(e, pictures[k]) /\ Place(e) <= L - a
        BY <1>2, <1>3, <1>9, <1>10, <3>1, <4>1
      <4>3. Place(e)' = Place(e) /\ (L + n) - (a + n) = L - a
        BY <1>8, <4>2
      <4>4. Place(entries[k])' = Place(e)'
        BY <3>2, <4>1 DEF Place
      <4> QED
        BY <4>2, <4>3, <4>4
    <3> QED
      BY <1>3, <1>4, <3>2, <3>3
  <2> QED
    BY <1>4, <2>1, <2>2, <2>3 DEF PacketPlaced
<1>11. (\A k \in 1..Len(entries) : InOutput(entries[k], pictures[k]))'
  <2>1. Len(pictures) = m
    BY <1>3 DEF EntriesComplete, Going
  <2>2. ASSUME NEW k \in 1..m PROVE InOutput(entries[k], pictures[k])'
    <3>1. PICK e, r : e = entries[k] /\ r = pictures[k]
      OBVIOUS
    <3>2. InOutput(e, r)'
      BY <1>2, <1>3, <1>8, <3>1
    <3>3. entries'[k] = e /\ pictures'[k] = r
      <4>1. entries \in Seq(EntryType)
        BY PlaceTypes
      <4> QED
        BY <1>1, <1>3, <2>1, <3>1, <4>1
    <3> QED
      BY <3>2, <3>3 DEF InOutput, Place
  <2>3. CASE f \notin {"I", "P"}
    BY <1>1, <1>3, <2>2, <2>3
  <2>4. CASE f \in {"I", "P"}
    <3>1. PICK e : e = Entry(f)
      OBVIOUS
    <3>2. e = [no |-> packetNo, off |-> packetOffset, type |-> f]
      BY <3>1 DEF Entry
    <3>3. /\ packetNo = fileNo /\ B + q = (L + 1) - a
          /\ a <= L /\ passed[(L + 1) - a] = [pkt |-> pkt, at |-> 1] /\ a >= 1
      <4>1. InVideo /\ a >= 1
        BY <1>3, <2>4
      <4> QED
        BY <1>9, <4>1
    <3>4. Place(e) = (L + 1) - a /\ e.no = fileNo
      BY <1>6, <3>2, <3>3 DEF Place
    <3>5. InOutput(e, p)
      <4>1. (L + 1) - a \in 1..L
        BY <3>3
      <4>2. ~(e.no < Len(begins)) /\ e.no \in 1..Len(begins)
        BY <1>2, <1>5, <3>4
      <4> QED
        BY <1>3, <3>3, <3>4, <4>1, <4>2 DEF InOutput
    <3>6. InOutput(e, p)'
      BY <1>8, <3>5
    <3>7. /\ Len(entries') = m + 1 /\ entries'[m + 1] = e
          /\ pictures'[m + 1] = p
      <4>1. entries \in Seq(EntryType)
        BY PlaceTypes
      <4> QED
        BY <1>1, <1>3, <2>1, <2>4, <3>1, <4>1
    <3>8. InOutput(entries[m + 1], pictures[m + 1])'
      BY <3>6, <3>7 DEF InOutput, Place
    <3>9. \A k \in 1..(m + 1) : k \in 1..m \/ k = m + 1
      OBVIOUS
    <3> QED
      BY <2>2, <3>7, <3>8, <3>9
  <2> QED
    BY <2>3, <2>4
<1> QED
  BY <1>1, <1>2, <1>7, <1>10, <1>11 DEF Written

\* A piece with which a file begins: what is held back of the packet goes there too.
LEMMA WrittenSplit ==
  ASSUME Going, IInv', Splitting, EntriesComplete, Written,
         mode = "payload", Rule(packet) \in {"act1", "act2"}, InVideo, scan,
         NEW n \in Nat, n >= 1, NEW f, Output(n, f), Splits(f),
         rewrite' = rewrite, pkt' = pkt,
         NEW p, p.pkt = pkt, pictures' = Append(pictures, p)
  PROVE  Written'
<1> SUFFICES ASSUME rewrite, ~wrapped' PROVE Written'
  BY DEF Written
<1>1. /\ f = "I" /\ Len(Held) = at /\ at \in Nat /\ at >= 1 /\ at <= Len(passed)
      /\ Len(passed) \in Nat
      /\ Len(WrittenBefore) + 1 = (Len(passed) + 1) - at
      /\ passed[(Len(passed) + 1) - at] = [pkt |-> pkt, at |-> 1]
  BY SplitsHere DEF Splitting
<1>2. /\ fileOffset' = at + n /\ fileNo' = fileNo + 1 /\ ~wrapped
      /\ packetNo' = fileNo + 1 /\ packetOffset' = 0
      /\ begins' = Append(begins, (Len(passed) + 1) - at)
      /\ error' = "none" /\ at' = at + n /\ scan' = FALSE
      /\ entries' = Append(entries, Entry(f))
  <2>1. Count(Len(Held), fileNo + 1, n)
    BY Whole
  <2>2. fileOffset' = Len(Held) + n /\ fileNo' = fileNo + 1 /\ ~wrapped
    BY <2>1, CountsOutput
  <2> QED
    BY <1>1, <2>2, Whole
<1>3. /\ fileNo = Len(begins) /\ PacketPlaced
      /\ \A k \in 1..Len(entries) : InOutput(entries[k], pictures[k])
  BY <1>2 DEF Written, Going
<1>4. PICK L \in Nat, a \in Nat, m \in Nat, N \in Nat :
        L = Len(passed) /\ a = at /\ m = Len(entries) /\ N = Len(begins) /\ a >= 1 /\ a <= L
  BY <1>1, PlaceTypes DEF Splitting
<1>5. PICK b : b = (L + 1) - a
  OBVIOUS
<1>6. b \in 1..L /\ b + (a + n) = (L + n) + 1
  BY <1>4, <1>5
<1>7. /\ Len(begins') = N + 1 /\ begins'[N + 1] = b
      /\ \A k \in 1..N : begins'[k] = begins[k]
      /\ fileNo' = N + 1
  <2>1. begins \in Seq(Nat \ {0}) /\ b \in Nat \ {0}
    BY <1>6, PlaceTypes DEF Splitting
  <2> QED
    BY <1>2, <1>3, <1>4, <1>5, <2>1, AppendProperties
<1>8. /\ Len(passed') = L + n /\ at' = a + n
      /\ \A i \in 1..L : passed'[i] = passed[i]
  BY <1>2, <1>4, Longer
<1>9. passed'[b] = [pkt |-> pkt, at |-> 1]
  BY <1>1, <1>4, <1>5, <1>6, <1>8
<1>10. begins'[fileNo'] + fileOffset' = Len(passed') + 1
  BY <1>2, <1>4, <1>6, <1>7, <1>8
<1>11. PacketPlaced'
  <2>1. packetNo' = fileNo' /\ begins'[fileNo'] + packetOffset' = (Len(passed') + 1) - at'
    <3>1. b + 0 = ((L + n) + 1) - (a + n)
      BY <1>5
    <3> QED
      BY <1>2, <1>7, <1>8, <3>1
  <2>2. at' <= Len(passed') /\ (Len(passed') + 1) - at' = b
    <3>1. a + n <= L + n /\ ((L + n) + 1) - (a + n) = b
      BY <1>4, <1>5
    <3> QED
      BY <1>8, <3>1
  <2> QED
    BY <1>2, <1>9, <2>1, <2>2 DEF PacketPlaced
<1>12. (\A k \in 1..Len(entries) : InOutput(entries[k], pictures[k]))'
  <2>1. Len(pictures) = m
    BY <1>4 DEF EntriesComplete, Going
  <2>2. ASSUME NEW k \in 1..m PROVE InOutput(entries[k], pictures[k])'
    <3>1. PICK e, r : e = entries[k] /\ r = pictures[k]
      OBVIOUS
    <3>2. InOutput(e, r) /\ Place(e) <= L - a
      BY <1>3, <1>4, <3>1 DEF PacketPlaced
    <3>3. Place(e) < b
      <4>1. Place(e) \in 1..L
        BY <1>4, <3>2 DEF InOutput
      <4> QED
        BY <1>5, <3>2, <4>1
    <3>4. InOutput(e, r)'
      <4>1. Len(passed) <= Len(passed') /\ Len(passed') \in Nat
        BY <1>4, <1>8
      <4> QED
        BY <1>4, <1>7, <1>8, <3>2, <3>3, <4>1, PlaceStill
    <3>5. entries'[k] = e /\ pictures'[k] = r
      <4>1. entries \in Seq(EntryType)
        BY PlaceTypes DEF Splitting
      <4> QED
        BY <1>2, <1>4, <2>1, <3>1, <4>1
    <3> QED
      BY <3>4, <3>5 DEF InOutput, Place
  <2>3. PICK e : e = Entry(f)
    OBVIOUS
  <2>4. e.no = N + 1 /\ e.off = 0
    BY <1>3, <1>4, <2>3 DEF Entry
  <2>5. InOutput(e, p)'
    <3>1. Place(e)' = b
      BY <1>6, <1>7, <2>4 DEF Place
    <3>2. b \in 1..Len(passed')
      BY <1>6, <1>8
    <3>3. e.no \in 1..Len(begins') /\ ~(e.no < Len(begins'))
      BY <1>7, <2>4
    <3> QED
      BY <1>9, <3>1, <3>2, <3>3 DEF InOutput
  <2>6. Len(entries') = m + 1 /\ entries'[m + 1] = e /\ pictures'[m + 1] = p
    <3>1. entries \in Seq(EntryType)
      BY PlaceTypes DEF Splitting
    <3> QED
      BY <1>2, <1>4, <2>1, <2>3, <3>1
  <2>7. InOutput(entries[m + 1], pictures[m + 1])'
    BY <2>5, <2>6 DEF InOutput, Place
  <2>8. \A k \in 1..(m + 1) : k \in 1..m \/ k = m + 1
    OBVIOUS
  <2> QED
    BY <2>2, <2>6, <2>7, <2>8
<1> QED
  BY <1>2, <1>7, <1>10, <1>11, <1>12 DEF Written

LEMMA WrittenFailed ==
  ASSUME NEW n, NEW f, OutputFails(n, f)
  PROVE  Written'
BY DEF OutputFails, Written

LEMMA WrittenPassHeader ==
  Going /\ IInv' /\ Tracked /\ Splitting /\ Written /\ PassHeader => Written'
<1> SUFFICES ASSUME Going, IInv', Tracked, Splitting, Written, PassHeader PROVE Written'
  OBVIOUS
<1>1. mode = "header" /\ packet \in Packets
  BY DEF Going, IInv, Fresh, PassHeader
<1>2. PICK n \in Nat : n = packet.head /\ n >= 1
  BY <1>1, PacketIs
<1>3. CASE Output(n, "none") /\ UNCHANGED <<input, packet, pkt, pictures>>
  <2>1. /\ rewrite' = rewrite /\ pictures' = pictures /\ pkt' = pkt /\ ~Splits("none")
        /\ InVideo' => InVideo
    BY <1>1, <1>3 DEF input, Splits, InVideo, Rule
  <2>2. PICK p : p = [pkt |-> pkt]
    OBVIOUS
  <2> QED
    BY <1>2, <1>3, <2>1, <2>2, WrittenPiece DEF Tracked, Splitting
<1>4. CASE OutputFails(n, "none")
  BY <1>4, WrittenFailed
<1> QED
  BY <1>2, <1>3, <1>4 DEF PassHeader

LEMMA WrittenPassPayload ==
  ASSUME Going, IInv', Tracked, Splitting, Written, NEW n \in Pieces, PassPayload(n)
  PROVE  Written'
<1>1. /\ mode = "payload" /\ Rule(packet) \in {"act1", "act2"}
      /\ n <= packet.size - have /\ pos + n <= Upto[readNo]
  BY DEF PassPayload
<1>2. packet \in Packets /\ n \in Nat /\ n >= 1 /\ have \in Nat /\ at \in Nat
  BY <1>1, PieceIs DEF Going, IInv, Shape
<1> DEFINE begun == packet.pic \in {"I", "P"} /\ packet.picAt \in (have + 1)..(have + n)
           p == [type |-> packet.pic, pkt |-> pkt, start |-> pos - have - packet.head]
<1>3. PICK f : f = Found(n)
  OBVIOUS
<1>4. CASE /\ Output(n, f) /\ UNCHANGED <<input, packet, pkt>>
           /\ pictures' = IF begun THEN Append(pictures, p) ELSE pictures
  <2>1. /\ rewrite' = rewrite /\ pkt' = pkt /\ p.pkt = pkt
        /\ InVideo' => InVideo
    BY <1>1, <1>4 DEF input, InVideo, Rule
  <2>2. f \in {"I", "P"} <=> begun
    BY <1>1, <1>2, <1>3, Meets DEF Tracked
  <2> HIDE DEF p, begun
  <2>3. f # "none" => InVideo /\ scan /\ at >= 1
    <3>1. SUFFICES ASSUME f # "none" PROVE InVideo /\ scan /\ at >= 1
      OBVIOUS
    <3>2. scan /\ packet.pic # "none"
      BY <1>3, <3>1 DEF Found
    <3>3. packet.kind = "video"
      BY <1>2, <3>2, PacketIs
    <3>4. at = packet.head + have
      BY <1>1 DEF Tracked, Even, InPassed
    <3>5. at >= 1
      BY <1>2, <3>4, PacketIs
    <3> QED
      BY <1>1, <3>2, <3>3, <3>5 DEF InVideo, Rule
  <2>4. CASE Splits(f)
    <3>1. f = "I"
      BY <2>4 DEF Splits
    <3>2. PICK r : r.pkt = pkt /\ pictures' = Append(pictures, r)
      BY <1>4, <2>1, <2>2, <3>1
    <3>3. Output(n, f)
      BY <1>4
    <3>4. rewrite' = rewrite /\ pkt' = pkt /\ InVideo /\ scan
      BY <2>1, <2>3, <3>1
    <3> QED
      BY <1>1, <1>2, <2>4, <3>2, <3>3, <3>4, WrittenSplit DEF Tracked
  <2>5. CASE ~Splits(f)
    <3>1. PICK r : /\ r.pkt = pkt
                   /\ pictures' = IF f \in {"I", "P"} THEN Append(pictures, r) ELSE pictures
      BY <1>4, <2>1, <2>2
    <3>2. Output(n, f)
      BY <1>4
    <3>3. /\ rewrite' = rewrite /\ pkt' = pkt
          /\ InVideo' => InVideo
          /\ f # "none" => InVideo /\ at >= 1
      BY <2>1, <2>3
    <3> QED
      BY <1>2, <2>5, <3>1, <3>2, <3>3, WrittenPiece DEF Tracked, Splitting
  <2> QED
    BY <2>4, <2>5
<1>5. CASE OutputFails(n, f)
  BY <1>5, WrittenFailed
<1> QED
  BY <1>3, <1>4, <1>5 DEF PassPayload

LEMMA WrittenEmit ==
  ASSUME Going, IInv', Tracked, Splitting, Written, Output(1, "none"),
         UNCHANGED <<input, pkt, pictures>>, ~InVideo'
  PROVE  Written'
<1>1. rewrite' = rewrite /\ pictures' = pictures /\ pkt' = pkt /\ ~Splits("none")
  BY DEF input, Splits
<1>2. PICK p : p = [pkt |-> pkt]
  OBVIOUS
<1> QED
  BY <1>1, <1>2, WrittenPiece DEF Tracked, Splitting

\* A packet begins where the next byte goes.
LEMMA WrittenPacketBegins ==
  ASSUME Going, Splitting, EntriesComplete, Written, NEW p \in Packets, Header(p),
         PacketBegins(p)
  PROVE  Written'
<1>1. UNCHANGED <<rewrite, error, place, begins, passed, entries, pictures>>
  BY DEF PacketBegins, Header, input
<1>2. ASSUME rewrite, error = "none", ~wrapped, InVideo' PROVE PacketPlaced'
  <2>1. Rule(p) = "act2"
    BY <1>1, <1>2 DEF InVideo, PacketBegins, Rule
  <2>2. packetNo' = fileNo /\ packetOffset' = fileOffset /\ at' = 0 /\ fileNo' = fileNo
    BY <1>1, <2>1 DEF PacketBegins, place
  <2>3. PICK L : L = Len(passed)
    OBVIOUS
  <2>4. L \in Nat
    BY <2>3, LenProperties DEF Going, IInv, Shape
  <2>5. /\ begins[fileNo] + fileOffset = L + 1
        /\ \A k \in 1..Len(entries) : InOutput(entries[k], pictures[k])
    BY <1>2, <2>3 DEF Written
  <2>6. ASSUME NEW k \in 1..Len(entries) PROVE Place(entries[k]) <= L - 0
    <3>1. PICK q : q = Place(entries[k])
      OBVIOUS
    <3>2. q \in 1..L
      BY <2>3, <2>5, <3>1 DEF InOutput
    <3> QED
      BY <2>4, <3>1, <3>2
  <2>7. begins[fileNo] + fileOffset = (L + 1) - 0
    BY <2>4, <2>5
  <2>8. (\A k \in 1..Len(entries) : Place(entries[k]) <= Len(passed) - at)'
    BY <1>1, <2>2, <2>3, <2>6 DEF Place
  <2> QED
    BY <1>1, <2>2, <2>3, <2>7, <2>8 DEF PacketPlaced
<1> QED
  BY <1>1, <1>2, WrittenStill

\* The packet stays where it is as long as nothing is counted.
LEMMA WrittenSame ==
  ASSUME Written,
         UNCHANGED <<rewrite, place, current, scan, error, begins, entries, at, passed,
                     pkt, pictures>>,
         InVideo' => InVideo
  PROVE  Written'
BY WrittenStill DEF Written, PacketPlaced, Place, place, current

LEMMA WrittenNext ==
  IInv /\ IInv' /\ TypeOK /\ Tracked /\ Splitting /\ Written /\ [Next]_vars => Written'
<1> SUFFICES ASSUME IInv, IInv', TypeOK, Tracked, Splitting, Written, [Next]_vars
             PROVE  Written'
  OBVIOUS
<1>1. CASE UNCHANGED vars
  <2>1. UNCHANGED <<rewrite, place, current, scan, error, begins, entries, at, passed,
                    pkt, pictures>>
    BY <1>1 DEF vars, place, current
  <2>2. InVideo' => InVideo
    BY <1>1 DEF vars, InVideo, Rule
  <2> QED
    BY <2>1, <2>2, WrittenSame
<1>2. CASE Next
  <2>1. Going
    BY <1>2, OnlyGoing
  <2>2. CASE NextFile
    <3>1. InVideo' => InVideo
      BY <2>2 DEF NextFile, parser, InVideo, Rule
    <3> QED
      BY <2>2, <3>1, WrittenSame DEF NextFile, output
  <2>3. CASE Garbage
    <3>1. ~rewrite' \/ UNCHANGED place
      BY <2>3 DEF Garbage, input
    <3>2. InVideo' => InVideo
      BY <2>3 DEF Garbage, InVideo, Rule, input
    <3>3. CASE ~rewrite'
      BY <3>3 DEF Written
    <3>4. CASE UNCHANGED place
      BY <2>3, <3>2, <3>4, WrittenSame DEF Garbage, input, output
    <3> QED
      BY <3>1, <3>3, <3>4
  <2>9. CASE Drop
    <3>1. InVideo' => InVideo
      BY <2>9 DEF Drop, InVideo, Rule, input
    <3> QED
      BY <2>9, <3>1, WrittenSame DEF Drop, input, output
  <2>4. CASE Finish
    <3>1. ~InVideo'
      BY <2>4 DEF Finish, InVideo
    <3> QED
      BY <2>4, <3>1, WrittenSame DEF Finish, input
  <2>5. ASSUME NEW p \in Packets, Header(p) PROVE Written'
    <3>1. CASE Invalid(p)
      <4>1. InVideo' => InVideo
        BY <2>5, <3>1 DEF Header, Invalid, InVideo, Rule, input
      <4> QED
        BY <2>5, <3>1, <4>1, WrittenSame DEF Header, Invalid, input, output
    <3>2. CASE PacketBegins(p)
      BY <2>1, <2>5, <3>2, WrittenPacketBegins DEF Tracked
    <3> QED
      BY <2>5, <3>1, <3>2 DEF Header
  <2>6. CASE EmitPayload
    <3>1. CASE /\ Output(1, "none")
               /\ After(IF have = packet.size THEN "sync" ELSE "payload")
               /\ UNCHANGED <<input, packet, have, pos, pkt, pictures, broken>>
      <4>1. Rule(packet) = "act3"
        BY <2>1, <2>6 DEF EmitPayload, Going, IInv, Fresh
      <4>2. ~InVideo'
        BY <3>1, <4>1 DEF InVideo, Rule, input
      <4> QED
        BY <2>1, <3>1, <4>2, WrittenEmit
    <3>2. CASE OutputFails(1, "none")
      BY <3>2, WrittenFailed
    <3> QED
      BY <2>6, <3>1, <3>2 DEF EmitPayload
  <2>7. ASSUME NEW n \in Pieces, DropPayload(n) PROVE Written'
    <3>1. ~InVideo'
      BY <2>7 DEF DropPayload, InVideo, Rule, input
    <3> QED
      BY <2>7, <3>1, WrittenSame DEF DropPayload, input, output
  <2>8. ASSUME NEW n \in Pieces, EmitHeader(n) PROVE Written'
    <3>1. CASE /\ Output(1, "none") /\ After("emit")
               /\ UNCHANGED <<input, packet, pkt, pictures, broken>>
      <4>1. ~InVideo'
        BY <3>1 DEF InVideo, After
      <4> QED
        BY <2>1, <3>1, <4>1, WrittenEmit
    <3>2. CASE OutputFails(1, "none")
      BY <3>2, WrittenFailed
    <3> QED
      BY <2>8, <3>1, <3>2 DEF EmitHeader
  <2> QED
    BY <1>2, <2>1, <2>2, <2>3, <2>4, <2>5, <2>6, <2>7, <2>8, <2>9, WrittenPassHeader,
       WrittenPassPayload DEF Next
<1> QED
  BY <1>1, <1>2

LEMMA InitWritten == Init => Written
BY DEF Init, Written, InVideo

-----------------------------------------------------------------------------
(* Entries of the index, when the input is left alone.                     *)

\* A header spans at most two input files.
FilesHoldHeader == \A n \in Files : InputSizes[n] >= MaxHead

\* Byte x of all input is byte off of file no ...
At(no, off, x) ==
  no \in Files /\ off \in 0..(InputSizes[no] - 1) /\ Upto[no - 1] + off = x

\* ... or the end of the input.
Stands(no, off, x) ==
  At(no, off, x) \/ (no = Len(InputSizes) + 1 /\ off = 0 /\ x = Total)

\* The input that Count has been told of: a header is read before it is passed on.
Counted == IF mode = "header" THEN pos - packet.head ELSE pos

\* The parser reads from the file in which it is, or from the next one when it has
\* a header to complete; Count is where the parser is.
Follows ==
  /\ Stands(fileNo, fileOffset, Counted)
  /\ Upto[readNo - 1] <= pos + MaxHead /\ pos <= Upto[readNo]
  /\ mode \in {"header", "payload"} => Upto[readNo - 1] <= pos
  /\ mode = "header" => pos < Upto[readNo]

Indexed ==
  ~rewrite /\ error = "none" /\ ~wrapped /\ ~broken =>
    /\ mode # "done" => Follows
    /\ InVideo => At(packetNo, packetOffset, (pos - have) - packet.head)
    /\ \A k \in 1..Len(entries) : At(entries[k].no, entries[k].off, pictures[k].start)

\* The file of a byte of input.
LEMMA AtFile ==
  ASSUME NEW no, NEW off, NEW x, At(no, off, x), NEW r \in Files
  PROVE  /\ x \in Nat /\ x < Total
         /\ x < Upto[r] => no <= r
         /\ Upto[r - 1] <= x => r <= no
<1>1. PICK N : N = Len(InputSizes)
  OBVIOUS
<1>2. N \in Nat /\ no \in 1..N /\ r \in 1..N /\ InputSizes[no] \in Nat
  BY <1>1, GenIndexAssumption, LenProperties, ElementOfSeq DEF At, Files
<1>3. /\ Upto[no - 1] \in Nat /\ Upto[no] \in Nat /\ Upto[r] \in Nat /\ Upto[r - 1] \in Nat
      /\ Upto[no] = Upto[no - 1] + InputSizes[no]
  BY <1>1, <1>2, UptoIs, UptoGrows DEF Files
<1>4. x \in Nat /\ Upto[no - 1] <= x /\ x < Upto[no]
  BY <1>2, <1>3 DEF At
<1>5. Upto[no] <= Upto[N] /\ Upto[N] \in Nat
  BY <1>1, <1>2, UptoGrows
<1>6. ASSUME x < Upto[r], no > r PROVE FALSE
  <2>1. r \in 0..(no - 1) /\ no - 1 \in 0..N
    BY <1>2, <1>6
  <2>2. Upto[r] <= Upto[no - 1]
    BY <1>1, <2>1, UptoGrows
  <2> QED
    BY <1>3, <1>4, <1>6, <2>2
<1>7. ASSUME Upto[r - 1] <= x, no < r PROVE FALSE
  <2>1. no \in 0..(r - 1) /\ r - 1 \in 0..N
    BY <1>2, <1>7
  <2>2. Upto[no] <= Upto[r - 1]
    BY <1>1, <2>1, UptoGrows
  <2> QED
    BY <1>3, <1>4, <1>7, <2>2
<1> QED
  BY <1>1, <1>2, <1>3, <1>4, <1>5, <1>6, <1>7 DEF Total

\* Count goes on to the next file where the input does.
LEMMA CountsInput ==
  ASSUME ~rewrite, readNo \in Files, NEW no, NEW off, NEW x, At(no, off, x),
         NEW n \in Nat, no <= readNo, Count(off, no, n), ~wrapped', x + n <= Total,
         x + n <= Upto[no] \/ (FilesHoldHeader /\ n <= MaxHead)
  PROVE  Stands(fileNo', fileOffset', x + n) /\ ~wrapped
<1>1. PICK N \in Nat : N = Len(InputSizes)
  BY GenIndexAssumption, LenProperties
<1>2. no \in 1..N /\ InputSizes[no] \in Nat
  BY <1>1, GenIndexAssumption, ElementOfSeq DEF At, Files
<1>3. Upto[no - 1] \in Nat /\ Upto[no] \in Nat /\ Upto[no] = Upto[no - 1] + InputSizes[no]
  BY <1>1, <1>2, UptoIs, UptoGrows DEF Files
<1>4. PICK S \in Nat, u \in Nat, v \in Nat :
        /\ S = InputSizes[no] /\ u = Upto[no - 1] /\ v = Upto[no]
        /\ v = u + S /\ off \in 0..(S - 1) /\ u + off = x
  BY <1>2, <1>3 DEF At
<1>5. PICK y : y = Wrap(off + n)
  OBVIOUS
<1>6. /\ fileOffset' = IF y >= S THEN y - S ELSE y
      /\ fileNo' = IF y >= S THEN no + 1 ELSE no
      /\ wrapped' = (wrapped \/ y # off + n)
  BY <1>4, <1>5 DEF Count, FileSize
<1>7. y = off + n /\ ~wrapped
  BY <1>6
<1>8. CASE off + n < S
  <2>1. fileNo' = no /\ fileOffset' = off + n
    BY <1>4, <1>6, <1>7, <1>8
  <2>2. off + n \in 0..(S - 1) /\ u + (off + n) = x + n
    BY <1>4, <1>8
  <2> QED
    BY <1>4, <1>7, <2>1, <2>2 DEF At, Stands
<1>9. CASE off + n >= S
  <2>1. PICK z \in Nat : z = (off + n) - S
    BY <1>4, <1>9
  <2>2. fileNo' = no + 1 /\ fileOffset' = z /\ v + z = x + n /\ z <= n - 1
    BY <1>4, <1>6, <1>7, <1>9, <2>1
  <2>3. CASE no = N
    <3>1. v = Total
      BY <1>1, <1>4, <2>3 DEF Total
    <3>2. z = 0
      BY <1>4, <2>2, <3>1
    <3> QED
      BY <1>1, <1>7, <2>2, <2>3, <3>1, <3>2 DEF Stands
  <2>4. CASE no # N
    <3>1. no + 1 \in 1..N /\ (no + 1) - 1 = no
      BY <1>2, <2>4
    <3>2. PICK T : T = InputSizes[no + 1]
      OBVIOUS
    <3>3. T \in Nat /\ T > 0 /\ MaxHead \in Nat
      BY <1>1, <3>1, <3>2, GenIndexAssumption, ElementOfSeq
    <3>4. z < T
      <4>1. CASE x + n <= Upto[no]
        BY <1>4, <2>2, <3>3, <4>1
      <4>2. CASE FilesHoldHeader /\ n <= MaxHead
        <5>1. T >= MaxHead
          BY <1>1, <3>1, <3>2, <4>2 DEF FilesHoldHeader, Files
        <5> QED
          BY <2>2, <3>3, <4>2, <5>1
      <4> QED
        BY <4>1, <4>2
    <3>5. At(no + 1, z, x + n)
      <4>1. PICK m : m = no + 1
        OBVIOUS
      <4>2. m \in Files /\ Upto[m - 1] = v
        BY <1>1, <1>4, <3>1, <4>1 DEF Files
      <4>3. z \in 0..(InputSizes[m] - 1) /\ Upto[m - 1] + z = x + n
        BY <2>2, <3>2, <3>3, <3>4, <4>1, <4>2
      <4> QED
        BY <4>1, <4>2, <4>3 DEF At
    <3> QED
      BY <1>7, <2>2, <3>5 DEF Stands
  <2> QED
    BY <2>3, <2>4
<1> QED
  BY <1>4, <1>8, <1>9

\* Types of what is known of the input.
LEMMA Reading ==
  ASSUME Going
  PROVE  /\ readNo \in Files /\ pos \in Nat /\ MaxHead \in Nat /\ MaxHead >= 1
         /\ Upto[readNo - 1] \in Nat /\ Upto[readNo] \in Nat /\ Total \in Nat
         /\ Upto[readNo - 1] <= Upto[readNo] /\ Upto[readNo] <= Total
<1>1. PICK N \in Nat : N = Len(InputSizes)
  BY GenIndexAssumption, LenProperties
<1>2. readNo \in 1..N /\ readNo - 1 \in 0..readNo
  BY <1>1 DEF Going, TypeOK, Files
<1>3. Upto[readNo - 1] \in Nat /\ Upto[readNo - 1] <= Upto[readNo]
  BY <1>1, <1>2, UptoGrows
<1> QED
  BY <1>1, <1>2, <1>3, Reached, GenIndexAssumption DEF Files

\* Of an input that is left alone no packet is dropped or taken apart.
LEMMA RulesInput ==
  ASSUME ~rewrite, NEW p
  PROVE  Rule(p) \in {"act1", "act2"}
BY DEF Rule

\* A piece that is passed on is counted, and leaves the entries right.
LEMMA IndexedPiece ==
  ASSUME Going, IInv', EntriesComplete, Indexed, NEW n, NEW f, Output(n, f),
         ~rewrite, ~wrapped', ~broken, NEW p,
         pictures' = IF f \in {"I", "P"} THEN Append(pictures, p) ELSE pictures,
         f \in {"I", "P"} => At(packetNo, packetOffset, p.start)
  PROVE  /\ error' = "none" /\ packetNo' = packetNo /\ packetOffset' = packetOffset
         /\ Count(fileOffset, fileNo, n) /\ ~wrapped
         /\ (\A k \in 1..Len(entries) : At(entries[k].no, entries[k].off, pictures[k].start))'
<1>1. ~Splits(f)
  BY DEF Splits
<1>2. /\ error' = "none" /\ packetNo' = packetNo /\ packetOffset' = packetOffset
      /\ Count(fileOffset, fileNo, n)
      /\ entries' = IF f \in {"I", "P"} THEN Append(entries, Entry(f)) ELSE entries
  BY <1>1, Whole
<1>3. ~wrapped
  BY <1>2 DEF Count
<1>4. /\ entries \in Seq(EntryType)
      /\ Len(pictures) = Len(entries)
  BY DEF Going, TypeOK, EntriesComplete
<1>5. PICK m \in Nat : m = Len(entries)
  BY <1>4, LenProperties
<1>6. \A k \in 1..m : At(entries[k].no, entries[k].off, pictures[k].start)
  BY <1>3, <1>5 DEF Indexed, Going
<1>7. CASE f \notin {"I", "P"}
  BY <1>2, <1>3, <1>5, <1>6, <1>7
<1>8. CASE f \in {"I", "P"}
  <2>1. PICK e : e = Entry(f)
    OBVIOUS
  <2>2. e.no = packetNo /\ e.off = packetOffset
    BY <1>1, <2>1 DEF Entry
  <2>3. At(e.no, e.off, p.start)
    BY <1>8, <2>2
  <2>4. entries' = Append(entries, e) /\ pictures' = Append(pictures, p)
    BY <1>2, <1>8, <2>1
  <2>5. /\ Len(entries') = m + 1 /\ entries'[m + 1] = e /\ pictures'[m + 1] = p
        /\ \A k \in 1..m : entries'[k] = entries[k] /\ pictures'[k] = pictures[k]
    BY <1>4, <1>5, <2>4
  <2>6. \A k \in 1..(m + 1) : k \in 1..m \/ k = m + 1
    OBVIOUS
  <2>7. \A k \in 1..(m + 1) : At(entries'[k].no, entries'[k].off, pictures'[k].start)
    BY <1>6, <2>3, <2>5, <2>6
  <2> QED
    BY <1>2, <1>3, <2>5, <2>7
<1> QED
  BY <1>7, <1>8

\* Where the file of a byte is, when it has been read but not been counted.
LEMMA StandsIn ==
  ASSUME Going, NEW x, Stands(fileNo, fileOffset, x), x < Upto[readNo]
  PROVE  At(fileNo, fileOffset, x) /\ fileNo \in Files /\ fileNo <= readNo
<1>1. readNo \in Files /\ Upto[readNo] <= Total /\ Upto[readNo] \in Nat /\ Total \in Nat
  BY Reading
<1>2. At(fileNo, fileOffset, x)
  BY <1>1 DEF Stands
<1> QED
  BY <1>1, <1>2, AtFile DEF At

LEMMA IndexedNextFile == Going /\ Indexed /\ NextFile => Indexed'
<1> SUFFICES ASSUME Going, Indexed, NextFile, ~rewrite, error = "none", ~wrapped, ~broken
             PROVE  Indexed'
  BY DEF NextFile, Indexed, output, place
<1>1. /\ UNCHANGED <<rewrite, parser, place, current, output, pictures, broken>>
      /\ readNo < Len(InputSizes) /\ readNo' = readNo + 1
      /\ \/ mode = "sync" /\ Upto[readNo] - pos <= MaxHead
         \/ mode = "payload" /\ pos = Upto[readNo]
  BY DEF NextFile
<1>2. Follows /\ mode # "done"
  BY <1>1 DEF Indexed
<1>3. /\ mode' = mode /\ packet' = packet /\ pos' = pos /\ have' = have
      /\ fileNo' = fileNo /\ fileOffset' = fileOffset
      /\ packetNo' = packetNo /\ packetOffset' = packetOffset
      /\ entries' = entries /\ pictures' = pictures
  BY <1>1 DEF parser, place, current, output
<1>4. Follows'
  <2>1. PICK N \in Nat : N = Len(InputSizes)
    BY GenIndexAssumption, LenProperties
  <2>2. PICK r \in Nat : r = readNo /\ r \in 1..N /\ r + 1 \in 1..N
    BY <1>1, <2>1, Reading DEF Files
  <2>3. PICK u \in Nat, v \in Nat : u = Upto[r] /\ v = Upto[r + 1] /\ u <= v
    <3>1. Upto[r] \in Nat /\ Upto[r + 1] \in Nat /\ Upto[r] <= Upto[r + 1]
      BY <2>1, <2>2, UptoGrows
    <3> QED
      BY <3>1
  <2>4. pos \in Nat /\ MaxHead \in Nat /\ pos <= u
    BY <1>2, <2>2, <2>3, Reading DEF Follows
  <2>5. /\ Upto[readNo' - 1] = u /\ Upto[readNo'] = v /\ u <= pos + MaxHead
        /\ mode = "payload" => u <= pos
    <3>1. readNo' = r + 1 /\ (r + 1) - 1 = r
      BY <1>1, <2>2
    <3>2. u <= pos + MaxHead
      BY <1>1, <2>2, <2>3, <2>4
    <3>3. mode = "payload" => u <= pos
      BY <1>1, <2>2, <2>3, <2>4
    <3> QED
      BY <2>3, <3>1, <3>2, <3>3
  <2>6. Stands(fileNo, fileOffset, Counted) /\ Counted' = Counted
    BY <1>2, <1>3 DEF Follows, Counted
  <2>7. pos <= v /\ mode \in {"sync", "payload"}
    BY <1>1, <2>3, <2>4
  <2> QED
    BY <1>3, <2>5, <2>6, <2>7 DEF Follows
<1>5. InVideo' => At(packetNo, packetOffset, (pos - have) - packet.head)'
  <2>1. Rule(packet)' = Rule(packet)
    BY <1>1, <1>3 DEF Rule
  <2> QED
    BY <1>3, <2>1 DEF Indexed, InVideo
<1> QED
  BY <1>3, <1>4, <1>5 DEF Indexed

LEMMA IndexedGarbage == FilesHoldHeader /\ Going /\ Indexed /\ Garbage => Indexed'
<1> SUFFICES ASSUME FilesHoldHeader, Going, Indexed, Garbage, ~rewrite, ~wrapped', ~broken
             PROVE  Indexed'
  BY DEF Garbage, Indexed, input
<1>1. /\ mode = "sync" /\ mode' = mode /\ pos < Upto[readNo] /\ pos' = pos + 1
      /\ readNo' = readNo /\ entries' = entries /\ pictures' = pictures
      /\ Count(fileOffset, fileNo, 1)
  BY DEF Garbage, input, output
<1>2. ~wrapped /\ error = "none"
  BY <1>1 DEF Count, Going
<1>3. PICK x \in Nat, u \in Nat, v \in Nat, t \in Nat :
        /\ x = pos /\ u = Upto[readNo - 1] /\ v = Upto[readNo] /\ v <= t /\ t = Total
        /\ MaxHead \in Nat /\ MaxHead >= 1 /\ readNo \in Files
  BY Reading
<1>4. Stands(fileNo, fileOffset, x) /\ u <= x + MaxHead /\ x < v
  BY <1>1, <1>2, <1>3 DEF Indexed, Follows, Counted
<1>5. At(fileNo, fileOffset, x) /\ fileNo <= readNo
  BY <1>3, <1>4, StandsIn
<1>6. x + 1 <= t
  BY <1>3, <1>4
<1>7. Stands(fileNo', fileOffset', x + 1)
  BY <1>1, <1>3, <1>5, <1>6, CountsInput
<1>8. Follows'
  <2>1. u <= (x + 1) + MaxHead /\ x + 1 <= v
    BY <1>3, <1>4
  <2> QED
    BY <1>1, <1>3, <1>7, <2>1 DEF Follows, Counted
<1>9. ~InVideo'
  BY <1>1 DEF InVideo
<1>10. \A k \in 1..Len(entries) : At(entries[k].no, entries[k].off, pictures[k].start)
  BY <1>2 DEF Indexed
<1> QED
  BY <1>1, <1>8, <1>9, <1>10 DEF Indexed

LEMMA IndexedHeader ==
  ASSUME Going, Indexed, NEW p \in Packets, Header(p), PacketBegins(p)
  PROVE  Indexed'
<1> SUFFICES ASSUME ~rewrite, ~wrapped, ~broken, error = "none" PROVE Indexed'
  BY DEF Header, PacketBegins, Indexed, input, place
<1>1. /\ mode = "sync" /\ mode' = "header" /\ readNo' = readNo /\ rewrite' = rewrite
      /\ Upto[readNo - 1] <= pos + p.head /\ pos + p.head < Upto[readNo]
      /\ pos' = pos + p.head /\ packet' = p /\ have' = 0
      /\ fileNo' = fileNo /\ fileOffset' = fileOffset
      /\ Rule(p) = "act2" => packetNo' = fileNo /\ packetOffset' = fileOffset
      /\ entries' = entries /\ pictures' = pictures
  BY RulesInput DEF Header, PacketBegins, input, place
<1>2. PICK x \in Nat, u \in Nat, v \in Nat, h \in Nat :
        /\ x = pos /\ u = Upto[readNo - 1] /\ v = Upto[readNo] /\ h = p.head
        /\ MaxHead \in Nat
  BY Reading, PacketIs
<1>3. Stands(fileNo, fileOffset, x)
  BY <1>1, <1>2 DEF Indexed, Follows, Counted
<1>4. u <= x + h /\ x + h < v /\ (x + h) - h = x /\ ((x + h) - 0) - h = x /\ x < v
  BY <1>1, <1>2
<1>5. Follows'
  <2>1. u <= (x + h) + MaxHead /\ x + h <= v
    BY <1>2, <1>4
  <2>2. Counted' = x
    BY <1>1, <1>2, <1>4 DEF Counted
  <2> QED
    BY <1>1, <1>2, <1>3, <1>4, <2>1, <2>2 DEF Follows
<1>6. InVideo' => At(packetNo, packetOffset, (pos - have) - packet.head)'
  <2>1. InVideo' => Rule(p) = "act2"
    BY <1>1 DEF InVideo, Rule
  <2>2. At(fileNo, fileOffset, x)
    BY <1>2, <1>3, <1>4, StandsIn
  <2> QED
    BY <1>1, <1>2, <1>4, <2>1, <2>2
<1>7. \A k \in 1..Len(entries) : At(entries[k].no, entries[k].off, pictures[k].start)
  BY DEF Indexed
<1> QED
  BY <1>1, <1>5, <1>6, <1>7 DEF Indexed

LEMMA IndexedPassHeader ==
  FilesHoldHeader /\ Going /\ IInv' /\ Tracked /\ Indexed /\ PassHeader => Indexed'
<1> SUFFICES ASSUME FilesHoldHeader, Going, IInv', Tracked, Indexed, PassHeader,
                    ~rewrite, ~wrapped', ~broken
             PROVE  Indexed'
  BY DEF PassHeader, OutputFails, Indexed, input
<1>1. mode = "header" /\ packet \in Packets /\ have = 0
  BY DEF Going, IInv, Fresh, PassHeader
<1>2. PICK n \in Nat, x \in Nat, u \in Nat, v \in Nat, t \in Nat :
        /\ n = packet.head /\ n >= 1 /\ n <= MaxHead /\ x = pos
        /\ u = Upto[readNo - 1] /\ v = Upto[readNo] /\ v <= t /\ t = Total
        /\ MaxHead \in Nat /\ readNo \in Files
  BY <1>1, Reading, PacketIs
<1>3. /\ Output(n, "none") /\ After(IF packet.size = 0 THEN "sync" ELSE "payload")
      /\ UNCHANGED <<input, packet, have, pos, pkt, pictures, broken>>
  BY <1>2 DEF PassHeader, OutputFails
<1>4. PICK p : p = [start |-> 0]
  OBVIOUS
<1>5. /\ error' = "none" /\ packetNo' = packetNo /\ packetOffset' = packetOffset
      /\ Count(fileOffset, fileNo, n) /\ ~wrapped
      /\ (\A k \in 1..Len(entries) : At(entries[k].no, entries[k].off, pictures[k].start))'
  BY <1>3, <1>4, IndexedPiece DEF Tracked
<1>6. /\ mode' \in {"sync", "payload"} /\ packet' = packet /\ have' = have /\ pos' = pos
      /\ readNo' = readNo /\ rewrite' = rewrite
  BY <1>3, <1>5 DEF After, input
<1>7. Follows
  BY <1>1, <1>5 DEF Indexed, Going
<1>8. PICK y \in Int : y = x - n
  OBVIOUS
<1>9. Stands(fileNo, fileOffset, y) /\ u <= x /\ x < v /\ y < v /\ y + n = x
  BY <1>1, <1>2, <1>7, <1>8 DEF Follows, Counted
<1>10. At(fileNo, fileOffset, y) /\ fileNo <= readNo /\ fileNo \in Files
  BY <1>2, <1>9, StandsIn
<1>11. y + n <= t
  BY <1>2, <1>9
<1>12. Stands(fileNo', fileOffset', y + n)
  BY <1>2, <1>5, <1>10, <1>11, CountsInput
<1>13. Follows'
  <2>1. u <= x + MaxHead /\ x <= v
    BY <1>2, <1>9
  <2>2. Counted' = x
    BY <1>2, <1>6 DEF Counted
  <2> QED
    BY <1>2, <1>6, <1>9, <1>12, <2>1, <2>2 DEF Follows
<1>14. InVideo' => At(packetNo, packetOffset, (pos - have) - packet.head)'
  <2>1. InVideo' => InVideo
    BY <1>1, <1>6 DEF InVideo, Rule
  <2> QED
    BY <1>5, <1>6, <2>1 DEF Indexed, Going
<1> QED
  BY <1>5, <1>13, <1>14 DEF Indexed

LEMMA IndexedPassPayload ==
  ASSUME FilesHoldHeader, Going, IInv', Tracked, Indexed, NEW n \in Pieces, PassPayload(n)
  PROVE  Indexed'
<1> SUFFICES ASSUME ~rewrite, ~wrapped', ~broken PROVE Indexed'
  BY DEF PassPayload, OutputFails, Indexed, input
<1>1. /\ mode = "payload" /\ Rule(packet) \in {"act1", "act2"}
      /\ n <= packet.size - have /\ pos + n <= Upto[readNo]
  BY DEF PassPayload
<1>2. packet \in Packets /\ n \in Nat /\ n >= 1
  BY <1>1, PieceIs
<1>3. PICK h \in Nat, b \in Nat, x \in Nat, u \in Nat, v \in Nat, t \in Nat :
        /\ h = packet.head /\ b = have /\ x = pos
        /\ u = Upto[readNo - 1] /\ v = Upto[readNo] /\ v <= t /\ t = Total
        /\ MaxHead \in Nat /\ readNo \in Files
  BY <1>2, Reading, PacketIs DEF Going, IInv, Shape
<1> DEFINE begun == packet.pic \in {"I", "P"} /\ packet.picAt \in (have + 1)..(have + n)
           p == [type |-> packet.pic, pkt |-> pkt, start |-> pos - have - packet.head]
<1>4. PICK f : f = Found(n)
  OBVIOUS
<1>5. /\ Output(n, f) /\ pos' = pos + n /\ have' = have + n
      /\ After(IF have + n = packet.size THEN "sync" ELSE "payload")
      /\ pictures' = IF begun THEN Append(pictures, p) ELSE pictures
      /\ UNCHANGED <<input, packet, pkt, broken>>
  BY <1>4 DEF PassPayload, OutputFails
<1>6. f \in {"I", "P"} <=> begun
  BY <1>1, <1>2, <1>4, Meets DEF Tracked
<1>7. p.start = (pos - have) - packet.head
  OBVIOUS
<1> HIDE DEF p, begun
<1>8. f \in {"I", "P"} => InVideo
  <2>1. SUFFICES ASSUME f \in {"I", "P"} PROVE InVideo
    OBVIOUS
  <2>2. packet.pic # "none"
    BY <1>4, <2>1 DEF Found
  <2>3. packet.kind = "video"
    BY <1>2, <2>2, PacketIs
  <2> QED
    BY <1>1, <2>3 DEF InVideo, Rule
<1>9. ~wrapped
  <2>1. ~Splits(f)
    BY DEF Splits
  <2> QED
    BY <1>5, <2>1, Whole DEF Count
<1>10. f \in {"I", "P"} => At(packetNo, packetOffset, p.start)
  BY <1>7, <1>8, <1>9 DEF Indexed, Going
<1>11. pictures' = IF f \in {"I", "P"} THEN Append(pictures, p) ELSE pictures
  BY <1>5, <1>6
<1>12. /\ error' = "none" /\ packetNo' = packetNo /\ packetOffset' = packetOffset
       /\ Count(fileOffset, fileNo, n)
       /\ (\A k \in 1..Len(entries) : At(entries[k].no, entries[k].off, pictures[k].start))'
  BY <1>5, <1>10, <1>11, IndexedPiece DEF Tracked
<1>13. /\ mode' \in {"sync", "payload"} /\ packet' = packet
       /\ readNo' = readNo /\ rewrite' = rewrite
  BY <1>5, <1>12 DEF After, input
<1>14. Follows
  BY <1>1, <1>9 DEF Indexed, Going
<1>15. Stands(fileNo, fileOffset, x) /\ u <= x /\ x + n <= v /\ x < v
  BY <1>1, <1>2, <1>3, <1>14 DEF Follows, Counted
<1>16. At(fileNo, fileOffset, x) /\ fileNo <= readNo /\ fileNo \in Files
  BY <1>3, <1>15, StandsIn
<1>17. fileNo = readNo
  <2>1. readNo <= fileNo
    BY <1>3, <1>15, <1>16, AtFile
  <2> QED
    BY <1>3, <1>16, <2>1, Reached DEF Files
<1>18. x + n <= t /\ x + n <= Upto[fileNo]
  BY <1>2, <1>3, <1>15, <1>17
<1>19. Stands(fileNo', fileOffset', x + n)
  BY <1>2, <1>3, <1>12, <1>16, <1>18, CountsInput
<1>20. Follows'
  <2>1. u <= (x + n) + MaxHead /\ x + n <= v /\ u <= x + n
    BY <1>2, <1>3, <1>15
  <2>2. Counted' = x + n /\ mode' # "header"
    BY <1>3, <1>5, <1>13 DEF Counted
  <2> QED
    BY <1>3, <1>5, <1>13, <1>19, <2>1, <2>2 DEF Follows
<1>21. InVideo' => At(packetNo, packetOffset, (pos - have) - packet.head)'
  <2>1. InVideo' => InVideo
    BY <1>1, <1>13 DEF InVideo, Rule
  <2>2. ((x + n) - (b + n)) - h = (x - b) - h
    BY <1>2
  <2>3. InVideo => At(packetNo, packetOffset, (x - b) - h)
    BY <1>3, <1>9 DEF Indexed, Going
  <2> QED
    BY <1>3, <1>5, <1>12, <1>13, <2>1, <2>2, <2>3
<1> QED
  BY <1>12, <1>20, <1>21 DEF Indexed

LEMMA IndexedNext ==
  /\ FilesHoldHeader /\ IInv /\ IInv' /\ TypeOK /\ Tracked /\ Indexed /\ [Next]_vars
  => Indexed'
<1> SUFFICES ASSUME FilesHoldHeader, IInv, IInv', TypeOK, Tracked, Indexed, [Next]_vars
             PROVE  Indexed'
  OBVIOUS
<1>1. CASE UNCHANGED vars
  BY <1>1 DEF vars, Indexed, Follows, Counted, InVideo, Rule
<1>2. CASE Next
  <2>1. Going
    BY <1>2, OnlyGoing
  <2>2. CASE Finish
    <3>1. /\ UNCHANGED <<input, place, error, entries, pictures, broken>> /\ mode' = "done"
          /\ ~InVideo'
      BY <2>2 DEF Finish, InVideo
    <3> QED
      BY <3>1 DEF Indexed, input, place
  <2>6. CASE Drop
    BY <2>6 DEF Drop, Indexed
  <2>3. ASSUME NEW p \in Packets, Header(p) PROVE Indexed'
    <3>1. CASE Invalid(p)
      BY <3>1 DEF Invalid, Indexed
    <3>2. CASE PacketBegins(p)
      BY <2>1, <2>3, <3>2, IndexedHeader
    <3> QED
      BY <2>3, <3>1, <3>2 DEF Header
  <2>4. CASE EmitPayload
    <3>1. rewrite
      BY <2>4, RulesInput DEF EmitPayload, IInv, Fresh
    <3>2. rewrite' = rewrite
      BY <2>4 DEF EmitPayload, OutputFails, input
    <3> QED
      BY <3>1, <3>2 DEF Indexed
  <2>5. ASSUME NEW n \in Pieces, DropPayload(n) \/ EmitHeader(n) PROVE Indexed'
    <3>1. rewrite
      BY <2>5, RulesInput DEF DropPayload, EmitHeader
    <3>2. rewrite' = rewrite
      BY <2>5 DEF DropPayload, EmitHeader, OutputFails, input
    <3> QED
      BY <3>1, <3>2 DEF Indexed
  <2> QED
    BY <1>2, <2>1, <2>2, <2>3, <2>4, <2>5, <2>6, IndexedNextFile, IndexedGarbage,
       IndexedPassHeader, IndexedPassPayload DEF Next
<1> QED
  BY <1>1, <1>2

LEMMA InitIndexed == FilesHoldHeader /\ Init => Indexed
<1> SUFFICES ASSUME FilesHoldHeader, Init PROVE Indexed
  OBVIOUS
<1>1. PICK N \in Nat : N = Len(InputSizes) /\ N >= 1
  BY GenIndexAssumption, LenProperties, EmptySeq
<1>2. 1 \in 1..N /\ InputSizes[1] \in Nat /\ InputSizes[1] > 0 /\ MaxHead \in Nat
  BY <1>1, GenIndexAssumption, ElementOfSeq
<1>3. Upto[1 - 1] = 0 /\ Upto[1] \in Nat
  BY <1>1, <1>2, UptoIs, UptoGrows
<1>4. At(1, 0, 0)
  BY <1>1, <1>2, <1>3 DEF At, Files
<1>5. /\ mode = "sync" /\ pos = 0 /\ readNo = 1 /\ fileNo = 1 /\ fileOffset = 0
      /\ entries = <<>>
  BY DEF Init
<1>6. Follows
  BY <1>2, <1>3, <1>4, <1>5 DEF Follows, Counted, Stands
<1>7. ~InVideo
  BY <1>5 DEF InVideo
<1> QED
  BY <1>5, <1>6, <1>7 DEF Indexed

-----------------------------------------------------------------------------
(* The theorems.                                                           *)

\* All that holds of genindex in every state.
GInv == IInv /\ TypeOK /\ Kept /\ Tracked /\ Splitting /\ Written

LEMMA GInvHolds == Spec => []GInv
<1>1. Init => GInv
  <2>1. Init => Kept
    BY InitTypes DEF Init, Kept, IndexTypes, TypeOK
  <2> QED
    BY <2>1, InitInv, InitTypes, InitTracked, InitSplitting, InitWritten DEF GInv
<1>2. GInv /\ [Next]_vars => GInv'
  <2> SUFFICES ASSUME GInv, [Next]_vars PROVE GInv'
    OBVIOUS
  <2>1. /\ IInv /\ IInv' /\ TypeOK /\ Tracked /\ Splitting /\ Written
        /\ Kept' /\ IndexTypes'
    BY NextInv, KeptNext DEF GInv, Kept
  <2> QED
    BY <2>1, NextTypes, TrackedNext, SplittingNext, WrittenNext DEF GInv
<1> QED
  BY <1>1, <1>2, PTL DEF Spec

\* Every variable stays in its type: fileOffset and packetOffset remain ints, wrapped
\* or not, and no more payload is dealt with than a packet has, and no more input than
\* there is.
THEOREM TypeCorrect == Spec => []TypeOK
<1>1. GInv => TypeOK
  BY DEF GInv
<1> QED
  BY <1>1, GInvHolds, PTL

\* Every picture whose type genindex ought to know gets one entry, of its type, in the
\* order of the stream, however the chunks of the input cut its packet: unless
\* index.vdr does not take an entry, which genindex does not notice.
THEOREM CompleteHolds == Spec => []IndexComplete
<1>1. GInv => IndexComplete
  <2> SUFFICES ASSUME GInv, error = "none", ~indexFailed
               PROVE  /\ Len(index) = Len(pictures)
                      /\ \A k \in 1..Len(index) : index[k].type = pictures[k].type
    BY DEF IndexComplete
  <2>1. /\ Len(index) = Len(entries) /\ Len(entries) = Len(pictures)
        /\ \A k \in 1..Len(entries) : entries[k].type = pictures[k].type
        /\ \A k \in 1..Len(index) : index[k] = Stored(entries[k])
    BY DEF GInv, Kept, Tracked, EntriesComplete
  <2>2. \A k \in 1..Len(entries) : entries[k] \in EntryType
    BY ElementOfSeq DEF GInv, TypeOK
  <2> QED
    BY <2>1, <2>2, StoredIs
<1> QED
  BY <1>1, GInvHolds, PTL

\* The entry that is stored leads where it should if its number fits.
LEMMA StoredAsIs ==
  ASSUME GInv, ~indexFailed, NEW k \in 1..Len(index),
         entries[k].no < NumberLimit
  PROVE  index[k].no = entries[k].no /\ index[k].off = entries[k].off
<1>1. index[k] = Stored(entries[k]) /\ k \in 1..Len(entries)
  BY DEF GInv, Kept
<1>2. entries[k] \in EntryType
  BY <1>1, ElementOfSeq DEF GInv, TypeOK
<1>3. PICK e \in EntryType : e = entries[k] /\ index[k] = Stored(e) /\ e.no < NumberLimit
  BY <1>1, <1>2
<1>4. e.no \in Nat /\ NumberLimit \in Nat
  BY FilesAssumption DEF EntryType
<1>5. e.no % NumberLimit = e.no
  BY <1>3, <1>4
<1> QED
  BY <1>3, <1>5, StoredIs

\* A new output file begins with the first byte of a packet with an I-frame, although
\* that byte has been held back when the picture is found.
THEOREM SplitHolds == Spec => []SplitAtIFrame
<1>1. GInv => SplitAtIFrame
  <2> SUFFICES ASSUME GInv, error = "none", NEW n \in 2..Len(begins)
               PROVE  LET b == (out \o store)[begins[n]]
                      IN b.at = 1 /\ \E k \in 1..Len(pictures) :
                                       pictures[k].pkt = b.pkt /\ pictures[k].type = "I"
    BY DEF SplitAtIFrame
  <2>1. BeginsAt(begins[n]) /\ (~rewrite => Len(begins) = 1)
    BY DEF GInv, Splitting, FilesBegin
  <2>2. begins \in Seq(Nat \ {0}) /\ Len(begins) \in Nat
    BY LenProperties DEF GInv, TypeOK
  <2>3. rewrite
    BY <2>1, <2>2
  <2>4. out \o store = passed
    BY <2>3 DEF GInv, IInv, Ordered
  <2> QED
    BY <2>1, <2>4 DEF BeginsAt
<1> QED
  BY <1>1, GInvHolds, PTL

\* When the files are rewritten, every entry of the index leads to the first byte of
\* its picture's packet, also when a file has been begun with it, and whatever cPES
\* drops of the input: as long as no output file has outgrown an int, the number of
\* each file fits into the uchar of an entry, and index.vdr has taken all entries.
THEOREM PointsIntoOutput == Spec => [](rewrite => IndexPoints)
<1>1. GInv => (rewrite => IndexPoints)
  <2> SUFFICES ASSUME GInv, rewrite, ~wrapped, Len(begins) < NumberLimit, error = "none",
                      ~indexFailed, NEW k \in 1..Len(index)
               PROVE  Points(index[k], pictures[k])
    BY DEF IndexPoints
  <2>1. k \in 1..Len(entries)
    BY DEF GInv, Kept
  <2>2. InOutput(entries[k], pictures[k])
    BY <2>1 DEF GInv, Written
  <2>3. entries[k].no < NumberLimit
    BY <2>2, FilesAssumption, LenProperties DEF InOutput, GInv, TypeOK
  <2>4. index[k].no = entries[k].no /\ index[k].off = entries[k].off
    BY <2>3, StoredAsIs
  <2>5. out \o store = passed
    BY DEF GInv, IInv, Ordered
  <2> QED
    BY <2>2, <2>4, <2>5 DEF InOutput, Place, Points
<1> QED
  BY <1>1, GInvHolds, PTL

\* The same for the input files, when they are left alone: an entry leads to the
\* first byte of its picture's packet if cPES drops nothing without a call, if no input
\* file is so short that a header spans three of them, and if index.vdr has taken all
\* entries. The numbers of the input files fit into an entry.
THEOREM PointsHold == FilesHoldHeader => (Spec => []IndexPointsUnlessBroken)
<1> SUFFICES ASSUME FilesHoldHeader PROVE Spec => []IndexPointsUnlessBroken
  OBVIOUS
<1>1. Init => Indexed
  BY InitIndexed
<1>2. GInv /\ GInv' /\ Indexed /\ [Next]_vars => Indexed'
  BY IndexedNext DEF GInv
<1>3. GInv /\ Indexed => (~rewrite /\ ~broken => IndexPoints)
  <2> SUFFICES ASSUME GInv, Indexed, ~rewrite, ~broken, ~wrapped, error = "none",
                      ~indexFailed, NEW k \in 1..Len(index)
               PROVE  Points(index[k], pictures[k])
    BY DEF IndexPoints
  <2>1. k \in 1..Len(entries)
    BY DEF GInv, Kept
  <2>2. At(entries[k].no, entries[k].off, pictures[k].start)
    BY <2>1 DEF Indexed
  <2>3. entries[k].no < NumberLimit
    BY <2>2, FilesAssumption, GenIndexAssumption, LenProperties DEF At, Files
  <2>4. index[k].no = entries[k].no /\ index[k].off = entries[k].off
    BY <2>3, StoredAsIs
  <2> QED
    BY <2>2, <2>4 DEF At, Points
<1>4. GInv /\ (rewrite => IndexPoints) /\ Indexed => IndexPointsUnlessBroken
  BY <1>3 DEF IndexPointsUnlessBroken
<1> QED
  BY <1>1, <1>2, <1>4, GInvHolds, PointsIntoOutput, PTL DEF Spec
=============================================================================
