------------------------ MODULE SubtitleAssemblerProofs -----------------------
(***************************************************************************)
(* For broadcasts of any packets, cut anywhere, and a fifo of any size:    *)
(* the assembler and the fifo keep to their types, size never says less    *)
(* than there is in the fifo, Process never waits for its own mutex, and   *)
(* the display sets of which no piece is taken for something else are      *)
(* written, each of them whole and once, until outbuf is overrun.          *)
(*                                                                         *)
(* Beyond the types, the first invariant, Inv, needs three facts.  A call  *)
(* that ended has left the loop, and one that failed has ended.  size is   *)
(* at least the length of the fifo, or what End leaves in it would be      *)
(* forgotten.  And the mutex is held exactly if an owner is known; outside *)
(* Process its count is not 0 while it is held, however far below 0.       *)
(*                                                                         *)
(* The second, Delivering, follows a display set through the assembler     *)
(* (Gathered), the loop (CaughtUp) and the fifo (Queued), and says which   *)
(* sets have been written (InTurn, Delivered).  LeftOver is about the set  *)
(* before: if the first packet of this one is rejected, or taken for AC3,  *)
(* the assembler is not cleared, and what the other has left there must    *)
(* not be its end.                                                         *)
(***************************************************************************)
EXTENDS SubtitleAssembler, LeastNumber, SequenceTheorems, TLAPS

\* A call that has returned is out of its loop; one that failed has returned, or nothing
\* is known of it.
Chunks == {"none", "open", "late", "used", "undefined"}
Gone   == {"none", "undefined"}
Ended  == (chunk \in Gone => ~looping) /\ (failed => chunk \in Gone)

\* What is in the fifo is counted.
Covered == ~failed => size >= Len(fifo)

\* The mutex is held by its owner; outside Process it is free or its count not 0.
Mutex ==
  /\ mutex.mine = mutex.held
  /\ chunk = "none" /\ mutex.held => mutex.locked # 0

Inv == TypeOK /\ broadcast \in Broadcasts /\ Ended /\ Covered /\ SizeIsBuffered /\ Mutex

-----------------------------------------------------------------------------
(* Operators.                                                              *)

\* A function on 1..n is a sequence of n cells.
LEMMA FunctionIsSeq ==
  ASSUME NEW n \in Nat, NEW f \in [1..n -> Cell]
  PROVE  f \in Seq(Cell) /\ Len(f) = n
<1>1. f \in Seq(Cell)
  BY SeqDef
<1>2. DOMAIN f = 1..n /\ Len(f) \in Nat /\ DOMAIN f = 1..Len(f)
  BY <1>1
<1>3. n = Len(f)
  BY <1>2
<1> QED
  BY <1>1, <1>3

\* One sequence after another, and a part of one.
LEMMA Joined ==
  ASSUME NEW s \in Seq(Cell), NEW t \in Seq(Cell)
  PROVE  /\ s \o t \in Seq(Cell) /\ Len(s \o t) = Len(s) + Len(t)
         /\ \A i \in 1..Len(s) : (s \o t)[i] = s[i]
         /\ \A i \in 1..Len(t) : (s \o t)[Len(s) + i] = t[i]
OBVIOUS

LEMMA Part ==
  ASSUME NEW s \in Seq(Cell), NEW a \in Nat, NEW b \in Nat, a <= b, b <= Len(s)
  PROVE  /\ SubSeq(s, a + 1, b) \in Seq(Cell) /\ Len(SubSeq(s, a + 1, b)) = b - a
         /\ \A i \in 1..(b - a) : SubSeq(s, a + 1, b)[i] = s[a + i]
<1> PICK m \in Int : m = a + 1
  OBVIOUS
<1>1. \A i \in m..b : s[i] \in Cell
  OBVIOUS
<1>2. /\ SubSeq(s, m, b) \in Seq(Cell)
      /\ Len(SubSeq(s, m, b)) = IF m <= b THEN b - m + 1 ELSE 0
      /\ \A i \in 1..(b - m + 1) : SubSeq(s, m, b)[i] = s[m + i - 1]
  BY <1>1, SubSeqProperties
<1> QED
  BY <1>2

\* The bytes of a packet: its substream header, and its part of the display set.
LEMMA CellsAre ==
  ASSUME NEW p \in SubtitlePacket, p.from < p.upto, p.upto <= Len(p.text), NEW h \in Nat,
         h = IF p.plugin THEN 0 ELSE 4
  PROVE  /\ Cells(p) \in Seq(Cell) /\ Len(Cells(p)) = h + p.upto - p.from
         /\ \A i \in 1..h : Cells(p)[i].of.set = p.set
         /\ \A i \in 1..(p.upto - p.from) : Cells(p)[h + i] = p.text[p.from + i]
<1> DEFINE head == Substream(p)
           part == SubSeq(p.text, p.from + 1, p.upto)
           old(i) == [of |-> [set |-> p.set, type |-> "substream", size |-> 4], at |-> i - 1]
<1>1. p.set \in Nat /\ p.text \in Seq(Cell) /\ p.from \in Nat /\ p.upto \in Nat
  BY DEF SubtitlePacket
<1>2. head \in Seq(Cell) /\ Len(head) = h /\ \A i \in 1..h : head[i].of.set = p.set
  <2>1. CASE p.plugin
    <3>1. head = <<>> /\ h = 0
      BY <2>1 DEF Substream
    <3>2. 1..0 = {}
      OBVIOUS
    <3> QED
      BY <3>1, <3>2, EmptySeq
  <2>2. CASE ~p.plugin
    <3>1. head = [i \in 1..4 |-> old(i)] /\ h = 4
      BY <2>2 DEF Substream
    <3>2. \A i \in 1..4 : old(i) \in Cell
      <4>1. "substream" \in Types
        BY DEF Types
      <4> QED
        BY <1>1, <4>1 DEF Cell
    <3>3. \A i \in 1..4 : old(i).of.set = p.set
      OBVIOUS
    <3> HIDE DEF old, head
    <3> PICK n \in Nat : n = 4
      OBVIOUS
    <3>5. [i \in 1..n |-> old(i)] \in [1..n -> Cell]
      BY <3>2
    <3>6. head \in [1..n -> Cell]
      BY <3>1, <3>5
    <3>4. head \in Seq(Cell) /\ Len(head) = 4
      BY <3>6, FunctionIsSeq
    <3> QED
      BY <3>1, <3>3, <3>4
  <2> QED
    BY <2>1, <2>2
<1>3. /\ part \in Seq(Cell) /\ Len(part) = p.upto - p.from
      /\ \A i \in 1..(p.upto - p.from) : part[i] = p.text[p.from + i]
  <2> PICK a \in Nat, b \in Nat, s \in Seq(Cell) : a = p.from /\ b = p.upto /\ s = p.text
    BY <1>1
  <2>1. /\ SubSeq(s, a + 1, b) \in Seq(Cell) /\ Len(SubSeq(s, a + 1, b)) = b - a
        /\ \A i \in 1..(b - a) : SubSeq(s, a + 1, b)[i] = s[a + i]
    <3>1. a <= b /\ b <= Len(s)
      OBVIOUS
    <3> QED
      BY ONLY <3>1, a \in Nat, b \in Nat, s \in Seq(Cell), Part
  <2> QED
    BY <2>1
<1> HIDE DEF head, part
<1>4. Cells(p) = head \o part
  BY DEF Cells, head, part
<1>5. /\ head \o part \in Seq(Cell) /\ Len(head \o part) = Len(head) + Len(part)
      /\ \A i \in 1..Len(head) : (head \o part)[i] = head[i]
      /\ \A i \in 1..Len(part) : (head \o part)[Len(head) + i] = part[i]
  BY <1>2, <1>3, Joined, Zenon
<1>6. Len(Cells(p)) = h + p.upto - p.from
  BY <1>1, <1>2, <1>3, <1>4, <1>5
<1> QED
  BY <1>1, <1>2, <1>3, <1>4, <1>5, <1>6, ZenonT(30)

\* The packets of a broadcast.
LEMMA PacketTypes ==
  ASSUME broadcast \in Broadcasts, NEW i \in 1..Len(broadcast)
  PROVE  /\ broadcast[i] \in SubtitlePacket
         /\ broadcast[i].from < broadcast[i].upto
         /\ broadcast[i].upto <= Len(broadcast[i].text)
         /\ Cells(broadcast[i]) \in Seq(Cell) /\ Len(Cells(broadcast[i])) \in Nat \ {0}
<1> PICK p : p = broadcast[i]
  OBVIOUS
<1>1. p \in SubtitlePacket /\ p.from < p.upto /\ p.upto <= Len(p.text)
  BY SubtitleAssumption
<1>2. p.from \in Nat /\ p.upto \in Nat
  BY <1>1 DEF SubtitlePacket
<1> PICK h \in Nat : h = IF p.plugin THEN 0 ELSE 4
  OBVIOUS
<1>3. Cells(p) \in Seq(Cell) /\ Len(Cells(p)) = h + p.upto - p.from
  BY <1>1, CellsAre
<1>4. Len(Cells(p)) \in Nat \ {0}
  BY <1>1, <1>2, <1>3
<1> QED
  BY <1>1, <1>3, <1>4

\* The packet under way is one of the broadcast.
LEMMA CurrentTypes ==
  ASSUME broadcast \in Broadcasts, packet \in 1..Len(broadcast)
  PROVE  /\ Current \in SubtitlePacket
         /\ Cells(Current) \in Seq(Cell) /\ Len(Cells(Current)) \in Nat \ {0}
         /\ Current.pts \in Nat /\ Current.set \in Nat
<1>1. Current \in SubtitlePacket
  BY SubtitleAssumption DEF Current
<1> QED
  BY <1>1, PacketTypes DEF Current, SubtitlePacket

\* What is put into the assembler of a piece are cells of it.
LEMMA PutTypes ==
  ASSUME NEW p \in Seq(Cell)
  PROVE  Put(p) \in Seq(Cell)
<1>1. Stripped \in Nat
  BY DEF Stripped
<1>2. ASSUME NEW d \in Seq(Cell), Len(d) > 0
      PROVE  WithoutPrefix(d) \in Seq(Cell)
  <2>1. SubSeq(d, 3, Len(d)) \in Seq(Cell)
    BY <1>2, SubSeqProperties
  <2> QED
    BY <1>2, <2>1 DEF WithoutPrefix
<1>3. CASE Len(p) - Stripped > 3
  <2> DEFINE d == SubSeq(p, Stripped + 1, Len(p))
  <2>1. d \in Seq(Cell) /\ Len(d) = Len(p) - Stripped
    BY <1>1, <1>3, SubSeqProperties
  <2>2. Len(d) > 0
    BY <1>1, <1>3, <2>1
  <2> HIDE DEF d
  <2>3. WithoutPrefix(d) \in Seq(Cell)
    BY <1>2, <2>1, <2>2
  <2> QED
    BY <1>3, <2>3 DEF Put, d
<1>4. CASE ~(Len(p) - Stripped > 3)
  BY <1>4 DEF Put
<1> QED
  BY <1>3, <1>4

\* fifo_write writes what there is room for.
LEMMA RoomIs ==
  ASSUME fifo \in Seq(Cell), Len(fifo) <= Capacity, NEW n \in Nat
  PROVE  /\ Room(n) \in 0..n
         /\ Room(n) = IF n <= Capacity - Len(fifo) THEN n ELSE Capacity - Len(fifo)
<1> DEFINE room == Capacity - Len(fifo)
<1>1. room \in Nat
  BY SubtitleAssumption
<1>2. \E x \in {n, room} : \A y \in {n, room} : x <= y
  <2>1. CASE n <= room
    BY <2>1, <1>1
  <2>2. CASE ~(n <= room)
    BY <2>2, <1>1
  <2> QED
    BY <2>1, <2>2
<1>3. Room(n) \in {n, room} /\ \A y \in {n, room} : Room(n) <= y
  BY <1>2 DEF Room, Min
<1> QED
  BY <1>1, <1>3

\* The fifo after it, with n cells from the position on at hand.
LEMMA WrittenIs ==
  ASSUME fifo \in Seq(Cell), Len(fifo) <= Capacity,
         data \in Seq(Cell), pos \in 0..Len(data),
         NEW n \in Nat, Len(data) >= pos + n
  PROVE  /\ Written(n) \in Seq(Cell)
         /\ Len(Written(n)) = Len(fifo) + Room(n)
         /\ Len(Written(n)) <= Capacity
<1> DEFINE s == SubSeq(data, pos + 1, pos + Room(n))
<1>1. Room(n) \in 0..n /\ Room(n) <= Capacity - Len(fifo)
  <2>1. Capacity \in Nat /\ Len(fifo) \in Nat
    BY SubtitleAssumption
  <2>2. /\ Room(n) \in 0..n
        /\ Room(n) = IF n <= Capacity - Len(fifo) THEN n ELSE Capacity - Len(fifo)
    BY RoomIs
  <2> QED
    BY <2>1, <2>2
<1>2. pos \in Nat /\ \A i \in (pos + 1)..(pos + Room(n)) : data[i] \in Cell
  BY <1>1
<1>3. s \in Seq(Cell) /\ Len(s) = Room(n)
  BY <1>1, <1>2, SubSeqProperties
<1> HIDE DEF s
<1>4. fifo \o s \in Seq(Cell) /\ Len(fifo \o s) = Len(fifo) + Len(s)
  BY <1>3, ConcatProperties
<1> QED
  BY <1>1, <1>3, <1>4, SubtitleAssumption DEF Written, s

\* Where a segment begins, its size is known.
LEMMA FoundTypes ==
  ASSUME data \in Seq(Cell), pos \in 0..Len(data), Len(data) > pos + 5
  PROVE  Found.size \in Nat
<1>1. data[pos + 1] \in Cell
  BY LenProperties
<1>2. data[pos + 1].of \in [set : Nat, type : Types, size : Nat \ {0}]
  BY <1>1 DEF Cell
<1> QED
  BY <1>2 DEF Found

\* Locks the code may be in.
Locks == [locked : Int, mine : BOOLEAN, held : BOOLEAN]

\* Locking and unlocking, the latter more often than is right, leave the mutex
\* with its owner or free; unlocking never leaves it held with a count of 0.
LEMMA LockTypes ==
  ASSUME NEW m \in Locks, m.mine = m.held
  PROVE  /\ Lock(m) \in Locks /\ Lock(m).mine = Lock(m).held
         /\ Unlock(m) \in Locks /\ Unlock(m).mine = Unlock(m).held
         /\ Unlock(m).held => Unlock(m).locked # 0
<1>1. Lock(m) \in Locks /\ Lock(m).mine = Lock(m).held
  BY DEF Lock, Locks
<1>2. /\ Unlock(m) \in Locks /\ Unlock(m).mine = Unlock(m).held
      /\ Unlock(m).held => Unlock(m).locked # 0
  <2>1. CASE m.locked = 1
    BY <2>1 DEF Unlock, Locks
  <2>2. CASE m.locked # 1
    <3>1. Unlock(m) = [m EXCEPT !.locked = @ - 1]
      BY <2>2 DEF Unlock
    <3>2. /\ Unlock(m) \in Locks /\ Unlock(m).mine = m.mine /\ Unlock(m).held = m.held
          /\ Unlock(m).locked = m.locked - 1
      BY <3>1 DEF Locks
    <3> QED
      BY <2>2, <3>2 DEF Locks
  <2> QED
    BY <2>1, <2>2
<1> QED
  BY <1>1, <1>2

LEMMA CheckedTypes ==
  ASSUME NEW m \in Locks, m.mine = m.held, NEW moved, NEW n
  PROVE  Checked(m, moved, n) \in Locks /\ Checked(m, moved, n).mine = Checked(m, moved, n).held
BY LockTypes DEF Checked

-----------------------------------------------------------------------------
(* The initial state, and each action.                                     *)

\* In the initial state nothing has been put anywhere and the mutex is free.
LEMMA InitInv == Init => Inv
<1> SUFFICES ASSUME Init
             PROVE  Inv
  OBVIOUS
<1>1. \A b \in Broadcasts : b \in Seq(SubtitlePacket)
  BY SubtitleAssumption
<1>2. Len(broadcast) \in Nat
  BY <1>1 DEF Init
<1>3. have = 0 /\ (packet <= Len(broadcast) => Len(Cells(Current)) \in Nat \ {0})
  BY <1>2, CurrentTypes DEF Init
<1>4. TypeOK
  <2>1. packet \in 1..(Len(broadcast) + 1)
    BY <1>2 DEF Init
  <2>2. have \in 0..(IF packet <= Len(broadcast) THEN Len(Cells(Current)) - 1 ELSE 0)
    BY <1>3
  <2>3. data \in Seq(Cell) /\ pos \in 0..Len(data) /\ fifo \in Seq(Cell) /\ Len(fifo) = 0
    BY EmptySeq DEF Init
  <2>4. mutex \in Locks
    BY DEF Init, Locks
  <2>5. emitted \in Seq([pts : Nat, length : Nat, cells : Seq(Cell)])
    BY EmptySeq DEF Init
  <2>6. /\ chunk \in {"none", "open", "late", "used", "undefined"} /\ size \in Nat
        /\ cuts \in 0..MaxCuts
    BY SubtitleAssumption DEF Init
  <2>7. Len(fifo) <= Capacity
    BY <2>3, SubtitleAssumption
  <2>8. /\ looping \in BOOLEAN /\ {subsstarted, failed} \subseteq BOOLEAN
    BY DEF Init
  <2>9. ptsnow \in Int /\ headerstore \in Nat /\ harmed \subseteq Nat
    BY SubtitleAssumption DEF Init
  <2> QED
    BY <2>1, <2>2, <2>3, <2>4, <2>5, <2>6, <2>7, <2>8, <2>9 DEF TypeOK, Locks
<1>5. size = Len(fifo)
  BY EmptySeq DEF Init
<1> QED
  BY <1>4, <1>5 DEF Init, Inv, Ended, Covered, SizeIsBuffered, Mutex

\* A call of Process locks the mutex.
LEMMA ProcessInv == Inv /\ Process => Inv'
<1> SUFFICES ASSUME Inv, Process
             PROVE  Inv'
  OBVIOUS
<1>1. mutex' \in Locks /\ mutex'.mine = mutex'.held /\ chunk' \in {"open", "late"}
  BY LockTypes DEF Inv, Mutex, TypeOK, Process, Locks
<1>2. Mutex'
  BY <1>1 DEF Mutex
<1>3. cuts' \in 0..MaxCuts
  BY SubtitleAssumption DEF Inv, TypeOK, Process
<1>4. UNCHANGED <<broadcast, packet, have, looping, data, pos, fifo, size, subsstarted,
                  emitted, failed, ptsnow, headerstore, harmed>>
  BY DEF Process, assembler, store
<1>5. TypeOK'
  BY <1>1, <1>3, <1>4 DEF Inv, TypeOK, Locks, Current
<1>6. ~failed /\ chunk = "none"
  BY DEF Process
<1> QED
  BY <1>1, <1>2, <1>4, <1>5, <1>6 DEF Inv, Ended, Gone, Covered, SizeIsBuffered

\* When it returns, it has left the loop, and it unlocks the mutex.
LEMMA ReturnInv == Inv /\ Return => Inv'
<1> SUFFICES ASSUME Inv, Return
             PROVE  Inv'
  OBVIOUS
<1>1. /\ mutex' \in Locks /\ mutex'.mine = mutex'.held
      /\ mutex'.held => mutex'.locked # 0
  BY LockTypes DEF Inv, Mutex, TypeOK, Return, Locks
<1>2. Mutex'
  BY <1>1 DEF Mutex
<1>3. TypeOK'
  BY <1>1 DEF Inv, TypeOK, Return, assembler, store, history, Locks, Current
<1> QED
  BY <1>2, <1>3 DEF Inv, Return, assembler, store, history, Ended, Gone, Covered,
     SizeIsBuffered

\* A piece goes to the end of the assembler's data.
LEMMA PieceInv ==
  ASSUME Inv, NEW n \in 1..Len(Cells(Current)), packet <= Len(broadcast), Piece(n)
  PROVE  Inv'
<1> DEFINE p == SubSeq(Cells(Current), have + 1, have + n)
           whole == have + n = Len(Cells(Current))
<1>1. /\ packet \in 1..Len(broadcast) /\ Len(broadcast) \in Nat
      /\ Current \in SubtitlePacket
      /\ Cells(Current) \in Seq(Cell) /\ Len(Cells(Current)) \in Nat \ {0}
      /\ Current.pts \in Nat /\ Current.set \in Nat
  <2>1. broadcast \in Seq(SubtitlePacket)
    BY SubtitleAssumption DEF Inv
  <2>2. packet \in 1..Len(broadcast) /\ Len(broadcast) \in Nat
    BY <2>1 DEF Inv, TypeOK
  <2> QED
    BY <2>2, CurrentTypes DEF Inv
<1>2. have \in 0..(Len(Cells(Current)) - 1) /\ have + n <= Len(Cells(Current))
  BY DEF Inv, TypeOK, Piece
<1>3. p \in Seq(Cell)
  BY <1>1, <1>2, SubSeqProperties
<1>4. Put(p) \in Seq(Cell)
  BY <1>3, PutTypes
<1>5. data' \in Seq(Cell) /\ pos' \in 0..Len(data') /\ looping' \in BOOLEAN
  <2>0. data \in Seq(Cell) /\ pos \in 0..Len(data) /\ looping \in BOOLEAN
    BY DEF Inv, TypeOK
  <2>1. CASE UNCHANGED <<data, pos, looping>>
    BY <2>0, <2>1
  <2>2. CASE /\ data' = (IF Reset(p) THEN <<>> ELSE data) \o Put(p)
             /\ pos' = Position(p) /\ looping' = (Put(p) # <<>>)
    <3> DEFINE before == IF Reset(p) THEN <<>> ELSE data
    <3>1. before \in Seq(Cell) /\ Position(p) \in 0..Len(before)
      BY <2>0, EmptySeq DEF Position
    <3> HIDE DEF before
    <3>2. data' = before \o Put(p)
      BY <2>2 DEF before
    <3>3. data' \in Seq(Cell) /\ Len(data') = Len(before) + Len(Put(p))
      BY <3>1, <3>2, <1>4, ConcatProperties
    <3>4. Len(Put(p)) \in Nat /\ Len(before) \in Nat
      BY <1>4, <3>1
    <3>5. pos' = Position(p) /\ looping' \in BOOLEAN
      BY <2>2
    <3> QED
      BY <3>1, <3>3, <3>4, <3>5
  <2> QED
    BY <2>1, <2>2 DEF Piece, assembler
<1>6. /\ packet' \in 1..(Len(broadcast') + 1)
      /\ have' \in 0..(IF packet' <= Len(broadcast') THEN Len(Cells(Current')) - 1 ELSE 0)
  <2>1. broadcast' = broadcast
    BY DEF Piece
  <2>2. CASE whole
    <3>1. packet' = packet + 1 /\ have' = 0
      BY <2>2 DEF Piece
    <3>2. packet' <= Len(broadcast') => Len(Cells(Current')) \in Nat \ {0}
      <4> SUFFICES ASSUME packet' <= Len(broadcast')
                   PROVE  Len(Cells(Current')) \in Nat \ {0}
        OBVIOUS
      <4>1. packet' \in 1..Len(broadcast) /\ Current' = broadcast[packet']
        BY <1>1, <2>1, <3>1 DEF Current
      <4> PICK i \in 1..Len(broadcast) : i = packet'
        BY <4>1
      <4>2. Len(Cells(broadcast[i])) \in Nat \ {0}
        BY PacketTypes DEF Inv
      <4> QED
        BY <4>1, <4>2
    <3> QED
      BY <1>1, <2>1, <3>1, <3>2
  <2>3. CASE ~whole
    <3>1. packet' = packet /\ have' = have + n
      BY <2>3 DEF Piece
    <3>2. Current' = Current
      BY <2>1, <3>1 DEF Current
    <3> QED
      BY <1>1, <1>2, <2>1, <2>3, <3>1, <3>2
  <2> QED
    BY <2>2, <2>3
<1>7. chunk' \in {"open", "used"} /\ cuts' \in 0..MaxCuts
  BY SubtitleAssumption DEF Inv, TypeOK, Piece
<1>8. ptsnow' \in Int /\ headerstore' \in Nat /\ harmed' \subseteq Nat
  <2>0. ptsnow \in Int /\ headerstore \in Nat /\ harmed \subseteq Nat
    BY DEF Inv, TypeOK
  <2>1. /\ ptsnow' = ptsnow \/ ptsnow' = Current.pts
        /\ headerstore' = headerstore \/ headerstore' = Current.pts
        /\ harmed' = harmed \/ harmed' = harmed \cup {Current.set}
    BY DEF Piece
  <2>2. Current.pts \in Int
    BY <1>1
  <2> QED
    BY <1>1, <2>0, <2>1, <2>2
<1>9. UNCHANGED <<broadcast, fifo, size, subsstarted, emitted, failed, mutex>>
  BY DEF Piece, store
<1>10. TypeOK'
  BY <1>5, <1>6, <1>7, <1>8, <1>9 DEF Inv, TypeOK
<1>11. chunk \in {"open", "late"}
  BY DEF Piece
<1> QED
  BY <1>7, <1>9, <1>10, <1>11 DEF Inv, Ended, Gone, Covered, SizeIsBuffered, Mutex

\* The loop ends, and what was found may be skipped.
LEMMA LoopEndsInv ==
  ASSUME Inv, NoSegment \/ NotASegment \/ Stuffing
  PROVE  Inv'
<1>1. pos' \in 0..Len(data) /\ looping' \in BOOLEAN /\ (looping' => looping)
  <2>0. pos \in 0..Len(data) /\ data \in Seq(Cell) /\ looping \in BOOLEAN
    BY DEF Inv, TypeOK
  <2>1. CASE NoSegment
    BY <2>0, <2>1 DEF NoSegment, assembler
  <2>2. CASE NotASegment
    <3>1. PICK n \in Length : Got(n) /\ pos' = pos + n
      BY <2>2 DEF NotASegment, Got
    <3>2. n \in Nat /\ Len(data) >= pos + n /\ looping' = FALSE
      BY <2>2, <3>1, SubtitleAssumption DEF NotASegment, Length, Got
    <3>3. pos' \in 0..Len(data)
      BY <2>0, <3>1, <3>2
    <3> QED
      BY <3>2, <3>3
  <2>3. CASE Stuffing
    <3>1. Found.size \in Nat
      BY <2>0, <2>3, FoundTypes DEF Stuffing
    <3> QED
      BY <2>0, <2>3, <3>1 DEF Stuffing, Got
  <2> QED
    BY <2>1, <2>2, <2>3
<1>2. UNCHANGED <<broadcast, packet, have, chunk, data, fifo, size, subsstarted, emitted,
                  failed, ptsnow, headerstore, mutex, cuts, harmed>>
  BY DEF NoSegment, NotASegment, Stuffing, assembler, store, history
<1>3. TypeOK'
  BY <1>1, <1>2 DEF Inv, TypeOK, Current
<1> QED
  BY <1>1, <1>2, <1>3 DEF Inv, Ended, Covered, SizeIsBuffered, Mutex

\* A segment is counted whole and written as far as there is room.
LEMMA SegmentInv ==
  ASSUME Inv, Segment
  PROVE  Inv'
<1> DEFINE n == Found.size
<1>0. /\ pos \in 0..Len(data) /\ data \in Seq(Cell) /\ fifo \in Seq(Cell)
      /\ Len(fifo) \in Nat /\ Len(fifo) <= Capacity /\ size \in Nat /\ Capacity \in Nat
      /\ mutex \in Locks /\ mutex.mine = mutex.held
  BY SubtitleAssumption DEF Inv, TypeOK, Mutex, Locks
<1>1. n \in Nat /\ Len(data) >= pos + n
  BY <1>0, FoundTypes DEF Segment, Got
<1>2. /\ fifo' \in Seq(Cell) /\ Len(fifo') = Len(fifo) + Room(n) /\ Len(fifo') <= Capacity
      /\ size' = size + n /\ pos' = pos + n
  BY <1>0, <1>1, WrittenIs DEF Segment
<1>3. /\ Room(n) \in 0..n
      /\ Room(n) = IF n <= Capacity - Len(fifo) THEN n ELSE Capacity - Len(fifo)
  BY <1>0, <1>1, RoomIs
<1>4. mutex' \in Locks /\ mutex'.mine = mutex'.held
  BY <1>0, CheckedTypes DEF Segment
<1>5. UNCHANGED <<broadcast, packet, have, chunk, looping, data, subsstarted, emitted,
                  failed, ptsnow, headerstore, cuts, harmed>>
  BY DEF Segment, history
<1>6. chunk \notin Gone
  BY DEF Inv, Ended, Segment
<1> HIDE DEF n
<1>7. SizeIsBuffered' /\ Covered'
  <2> DEFINE room == Room(n)
  <2>1. room \in 0..n /\ room = IF n <= Capacity - Len(fifo) THEN n ELSE Capacity - Len(fifo)
    BY <1>3
  <2>2. Len(fifo') = Len(fifo) + room /\ size' = size + n
    BY <1>2
  <2> HIDE DEF room
  <2>3. failed' = failed
    BY <1>5
  <2> QED
    BY <1>0, <1>1, <2>1, <2>2, <2>3 DEF Inv, SizeIsBuffered, Covered
<1>8. TypeOK'
  <2>1. pos' \in 0..Len(data') /\ size' \in Nat
    BY <1>0, <1>1, <1>2, <1>5
  <2> QED
    BY <1>2, <1>4, <1>5, <2>1 DEF Inv, TypeOK, Current, Locks
<1> QED
  BY <1>4, <1>5, <1>6, <1>7, <1>8 DEF Inv, Ended, Gone, Mutex

\* What End has in the fifo, and what it reads from there.
Queue  == Written(Found.size)
Outbuf == [i \in 1..(size + Found.size) |-> IF i <= Len(Queue) THEN Queue[i] ELSE Junk]

\* All of the fifo is read when a display set ends.
LEMMA EndIs ==
  ASSUME Inv, End
  PROVE  /\ Found.size \in Nat /\ Len(data) >= pos + Found.size /\ pos' = pos + Found.size
         /\ Queue \in Seq(Cell) /\ Len(Queue) = Len(fifo) + Room(Found.size)
         /\ Room(Found.size) \in 0..Found.size
         /\ Outbuf \in Seq(Cell) /\ Len(Outbuf) = size + Found.size
         /\ Len(Queue) <= Len(Outbuf)
         /\ \A i \in 1..Len(Outbuf) : Outbuf[i] = IF i <= Len(Queue) THEN Queue[i] ELSE Junk
         /\ fifo' = <<>>
         /\ \E score \in Probe(Outbuf) : subsstarted' = (subsstarted \/ score)
         /\ LET after == Checked(Checked(mutex, Room(Found.size), Found.size),
                                 Len(Queue), Len(Outbuf))
            IN \/ /\ size' = 0 /\ mutex' = after
                  /\ emitted' = IF subsstarted' THEN Append(emitted, Pes(Outbuf)) ELSE emitted
                  /\ UNCHANGED <<chunk, looping, failed>>
               \/ /\ size' = Len(Outbuf) + 1 /\ mutex' = Unlock(after)
                  /\ chunk' = "none" /\ looping' = FALSE /\ failed' = TRUE
                  /\ UNCHANGED emitted
         /\ UNCHANGED <<broadcast, packet, have, data, ptsnow, headerstore, cuts, harmed>>
<1> DEFINE n == Found.size
           queue  == Written(n)
           wanted == size + n
           moved  == Min({wanted, Len(queue)})
           outbuf == [i \in 1..wanted |-> IF i <= moved THEN queue[i] ELSE Junk]
           after  == Checked(Checked(mutex, Room(n), n), moved, wanted)
<1>0. /\ pos \in 0..Len(data) /\ data \in Seq(Cell) /\ fifo \in Seq(Cell)
      /\ Len(fifo) \in Nat /\ Len(fifo) <= Capacity /\ size \in Nat
      /\ looping /\ ~failed /\ size >= Len(fifo)
  BY SubtitleAssumption DEF Inv, TypeOK, Ended, Covered, End
<1>1. n \in Nat /\ Len(data) >= pos + n /\ pos' = pos + n
  BY <1>0, FoundTypes DEF End, Got
<1>2. /\ queue \in Seq(Cell) /\ Len(queue) = Len(fifo) + Room(n)
      /\ Room(n) \in 0..n
  BY <1>0, <1>1, WrittenIs, RoomIs
<1>3. wanted \in Nat /\ Len(queue) \in Nat /\ Len(queue) <= wanted
  BY <1>0, <1>1, <1>2
<1>4. moved = Len(queue)
  <2>1. \A x \in {wanted, Len(queue)} :
          (\A y \in {wanted, Len(queue)} : x <= y) <=> x = Len(queue)
    BY <1>3
  <2> QED
    BY <2>1 DEF Min
<1>5. /\ fifo' = SubSeq(queue, moved + 1, Len(queue))
      /\ \E score \in Probe(outbuf) : subsstarted' = (subsstarted \/ score)
      /\ \/ /\ size' = 0 /\ mutex' = after
            /\ emitted' = IF subsstarted' THEN Append(emitted, Pes(outbuf)) ELSE emitted
            /\ UNCHANGED <<chunk, looping, failed>>
         \/ /\ size' = wanted + 1 /\ mutex' = Unlock(after)
            /\ chunk' = "none" /\ looping' = FALSE /\ failed' = TRUE
            /\ UNCHANGED emitted
      /\ UNCHANGED <<broadcast, packet, have, data, ptsnow, headerstore, cuts, harmed>>
  BY DEF End, history
<1>6. fifo' = <<>>
  <2>1. fifo' = SubSeq(queue, Len(queue) + 1, Len(queue))
    BY <1>4, <1>5
  <2> HIDE DEF queue
  <2> QED
    BY <1>3, <2>1, SubSeqEmpty
<1>7. Queue = queue /\ Outbuf = outbuf
  BY <1>4 DEF Queue, Outbuf
<1>8. outbuf \in Seq(Cell) /\ Len(outbuf) = wanted
      /\ \A i \in 1..wanted : outbuf[i] = IF i <= Len(queue) THEN queue[i] ELSE Junk
  <2>1. Junk \in Cell
    <3>1. "junk" \in Types
      BY DEF Types
    <3> QED
      BY <3>1 DEF Junk, Cell
  <2> HIDE DEF queue, moved, wanted
  <2>2. \A i \in 1..wanted : (IF i <= moved THEN queue[i] ELSE Junk) \in Cell
    BY <1>2, <1>3, <1>4, <2>1
  <2>3. outbuf \in [1..wanted -> Cell]
    BY <2>2
  <2>4. outbuf \in Seq(Cell) /\ Len(outbuf) = wanted
    <3> HIDE DEF outbuf
    <3> QED
      BY <1>3, <2>3, FunctionIsSeq
  <2> QED
    BY <1>4, <2>4
<1> HIDE DEF queue, moved, wanted, outbuf, after, n
<1> QED
  BY <1>1, <1>2, <1>3, <1>4, <1>5, <1>6, <1>7, <1>8 DEF after, n, wanted

\* What is written is a packet, and its length is right if 16 bits can say it.
LEMMA PesTypes ==
  ASSUME NEW b \in Seq(Cell), headerstore \in Nat
  PROVE  /\ Pes(b) \in [pts : Nat, length : Nat, cells : Seq(Cell)]
         /\ Overhead + Len(b) + 1 <= Capacity =>
              Pes(b) = [pts |-> headerstore, length |-> Overhead + Len(b) + 1, cells |-> b]
<1>0. Len(b) \in Nat
  OBVIOUS
<1> PICK n \in Nat, c \in Nat : n = Overhead + Len(b) + 1 /\ c = Capacity + 1
  BY <1>0, SubtitleAssumption
<1>1. c \in Nat \ {0}
  BY SubtitleAssumption
<1>2. n % c \in Nat /\ (n < c => n % c = n)
  BY ONLY <1>1, n \in Nat, SMTT(30)
<1>3. Pes(b) = [pts |-> headerstore, length |-> n % c, cells |-> b]
  BY DEF Pes
<1>4. Overhead + Len(b) + 1 <= Capacity => n < c
  BY SubtitleAssumption
<1>5. [pts |-> headerstore, length |-> n % c, cells |-> b]
        \in [pts : Nat, length : Nat, cells : Seq(Cell)]
  BY <1>2
<1> QED
  BY <1>2, <1>3, <1>4, <1>5

\* The last segment of a set: size cells are read from the fifo, which is empty then.
LEMMA EndInv ==
  ASSUME Inv, End
  PROVE  Inv'
<1> PICK n, m, w : n = Found.size /\ m = Checked(mutex, Room(n), n)
                   /\ w = Checked(m, Len(Queue), Len(Outbuf))
  OBVIOUS
<1>0. /\ pos \in 0..Len(data) /\ data \in Seq(Cell) /\ mutex \in Locks /\ mutex.mine = mutex.held
      /\ looping /\ chunk \notin Gone /\ ~failed
  BY DEF Inv, TypeOK, Mutex, Locks, Ended, End
<1>1. n \in Nat /\ Len(data) >= pos + n /\ pos' = pos + n
  BY EndIs
<1>2. /\ Outbuf \in Seq(Cell) /\ Len(Outbuf) \in Nat
      /\ \E score \in Probe(Outbuf) : subsstarted' = (subsstarted \/ score)
  BY EndIs
<1>3. /\ fifo' = <<>>
      /\ \/ /\ size' = 0 /\ mutex' = w
            /\ emitted' = IF subsstarted' THEN Append(emitted, Pes(Outbuf)) ELSE emitted
            /\ UNCHANGED <<chunk, looping, failed>>
         \/ /\ size' = Len(Outbuf) + 1 /\ mutex' = Unlock(w)
            /\ chunk' = "none" /\ looping' = FALSE /\ failed' = TRUE
            /\ UNCHANGED emitted
      /\ UNCHANGED <<broadcast, packet, have, data, ptsnow, headerstore, cuts, harmed>>
  BY EndIs
<1>4. fifo' \in Seq(Cell) /\ Len(fifo') = 0
  BY <1>3, EmptySeq
<1>5. subsstarted' \in BOOLEAN
  <2>1. \A score \in Probe(Outbuf) : score \in BOOLEAN
    BY DEF Probe
  <2>2. subsstarted \in BOOLEAN
    BY DEF Inv, TypeOK
  <2> QED
    BY <1>2, <2>1, <2>2
<1>6. /\ w \in Locks /\ w.mine = w.held
      /\ Unlock(w) \in Locks /\ Unlock(w).mine = Unlock(w).held
      /\ Unlock(w).held => Unlock(w).locked # 0
  <2>1. m \in Locks /\ m.mine = m.held
    BY <1>0, CheckedTypes
  <2>2. w \in Locks /\ w.mine = w.held
    BY <2>1, CheckedTypes
  <2> QED
    BY <2>2, LockTypes
<1>7. emitted' \in Seq([pts : Nat, length : Nat, cells : Seq(Cell)])
  <2>0. emitted \in Seq([pts : Nat, length : Nat, cells : Seq(Cell)]) /\ headerstore \in Nat
    BY DEF Inv, TypeOK
  <2> PICK new : new = Pes(Outbuf)
    OBVIOUS
  <2>1. new \in [pts : Nat, length : Nat, cells : Seq(Cell)]
    BY <1>2, <2>0, PesTypes
  <2>2. emitted' = emitted \/ emitted' = Append(emitted, new)
    BY <1>3
  <2> PICK S : S = [pts : Nat, length : Nat, cells : Seq(Cell)]
    OBVIOUS
  <2>3. emitted \in Seq(S) /\ new \in S
    BY <2>0, <2>1
  <2>4. Append(emitted, new) \in Seq(S)
    BY <2>3, AppendProperties
  <2> QED
    BY <2>2, <2>3, <2>4
<1>8. /\ chunk' \in Chunks /\ looping' \in BOOLEAN /\ failed' \in BOOLEAN
      /\ size' \in Nat /\ mutex' \in Locks /\ pos' \in 0..Len(data')
  <2>1. chunk \in Chunks /\ failed \in BOOLEAN
    BY DEF Inv, TypeOK, Chunks
  <2>2. /\ chunk' \in Chunks /\ looping' \in BOOLEAN /\ failed' \in BOOLEAN
    BY <1>0, <1>3, <2>1 DEF Chunks
  <2>3. size' \in Nat
    BY <1>2, <1>3
  <2>4. mutex' \in Locks
    BY <1>3, <1>6
  <2>5. pos' \in 0..Len(data')
    BY <1>0, <1>1, <1>3
  <2> QED
    BY <2>2, <2>3, <2>4, <2>5
<1>9. TypeOK'
  BY <1>3, <1>4, <1>5, <1>7, <1>8, SubtitleAssumption DEF Inv, TypeOK, Current, Locks, Chunks
<1>10. Ended' /\ Covered' /\ SizeIsBuffered'
  <2>1. CASE size' = 0 /\ UNCHANGED <<chunk, looping, failed>>
    BY <1>0, <1>4, <2>1 DEF Ended, Gone, Covered, SizeIsBuffered
  <2>2. CASE chunk' = "none" /\ looping' = FALSE /\ failed' = TRUE
    BY <2>2 DEF Ended, Gone, Covered, SizeIsBuffered
  <2> QED
    BY <1>3, <2>1, <2>2
<1>11. Mutex'
  BY <1>0, <1>3, <1>6 DEF Mutex, Gone
<1> QED
  BY <1>3, <1>9, <1>10, <1>11 DEF Inv

\* If outbuf is overrun, the model ends.
LEMMA OverrunInv ==
  ASSUME Inv, Overrun
  PROVE  Inv'
<1>1. /\ UNCHANGED <<broadcast, packet, have, data, pos, fifo, size, subsstarted, emitted,
                     ptsnow, headerstore, mutex, cuts, harmed>>
      /\ chunk' = "undefined" /\ looping' = FALSE /\ failed' = TRUE
  BY DEF Overrun, assembler, history
<1>2. TypeOK'
  BY <1>1 DEF Inv, TypeOK, Current
<1> QED
  BY <1>1, <1>2 DEF Inv, Ended, Gone, Covered, SizeIsBuffered, Mutex
-----------------------------------------------------------------------------
(* Display sets.                                                           *)

\* What the n-th byte of t adds to the bytes of segments before it.
Fillers == {"prefix", "marker", "stuffing"}
Taken(t, n, s) == IF t[n].of.type \in Fillers THEN s ELSE Append(s, t[n])

\* Kept is the function its definition speaks of: there is one.
LEMMA KeptIs ==
  ASSUME NEW t \in Seq(Cell)
  PROVE  /\ Kept(t)[0] = <<>>
         /\ \A n \in 1..Len(t) : Kept(t)[n] = Taken(t, n, Kept(t)[n - 1])
<1> DEFINE Rec(f, m) == [n \in 0..m |-> IF n = 0 THEN <<>> ELSE Taken(t, n, f[n - 1])]
           Bad == {m \in Nat : ~\E f : f = Rec(f, m)}
<1>1. ASSUME NEW m \in Nat, \E f : f = Rec(f, m)
      PROVE  \E f : f = Rec(f, m + 1)
  <2> PICK f : f = Rec(f, m)
    BY <1>1
  <2> DEFINE g == [n \in 0..(m + 1) |-> IF n = m + 1 THEN Taken(t, n, f[n - 1]) ELSE f[n]]
  <2>1. \A n \in 0..m : g[n] = f[n] /\ f[n] = IF n = 0 THEN <<>> ELSE Taken(t, n, f[n - 1])
    <3> HIDE DEF Taken
    <3> QED
      OBVIOUS
  <2>2. g[m + 1] = Taken(t, m + 1, f[m])
    OBVIOUS
  <2> HIDE DEF g
  <2>3. ASSUME NEW n \in 0..(m + 1)
        PROVE  g[n] = IF n = 0 THEN <<>> ELSE Taken(t, n, g[n - 1])
    <3>1. CASE n = m + 1
      <4>1. n - 1 = m /\ m \in 0..m /\ n # 0
        BY <3>1
      <4> QED
        BY <2>1, <2>2, <3>1, <4>1
    <3>2. CASE n \in 0..m
      <4>1. n # 0 => n - 1 \in 0..m
        BY <3>2
      <4> QED
        BY <2>1, <3>2, <4>1
    <3> QED
      BY <3>1, <3>2
  <2>4. g = [n \in 0..(m + 1) |-> g[n]]
    BY DEF g
  <2>5. g = Rec(g, m + 1)
    BY <2>3, <2>4
  <2> QED
    BY <2>5
<1>2. \E f : f = Rec(f, 0)
  <2> DEFINE g == [n \in 0..0 |-> <<>>]
  <2>1. g = Rec(g, 0)
    OBVIOUS
  <2> QED
    BY <2>1
<1> HIDE DEF Rec
<1>3. Bad = {}
  <2> SUFFICES ASSUME Bad # {}
               PROVE  FALSE
    OBVIOUS
  <2> PICK m \in Bad : \A n \in Bad : m <= n
    <3>1. Bad \subseteq Nat
      OBVIOUS
    <3> HIDE DEF Bad
    <3> QED
      BY <3>1, LeastNumber
  <2>1. m # 0 /\ m \in Nat
    BY <1>2
  <2>2. m - 1 \in Nat /\ m - 1 \notin Bad /\ (m - 1) + 1 = m
    BY <2>1
  <2>3. \E f : f = Rec(f, m - 1)
    BY <2>2
  <2>4. \E f : f = Rec(f, m)
    BY <1>1, <2>2, <2>3
  <2> QED
    BY <2>4
<1> DEFINE kept == CHOOSE f : f = Rec(f, Len(t))
<1>4. kept = Rec(kept, Len(t))
  <2>1. Len(t) \in Nat /\ Len(t) \notin Bad
    <3>1. Len(t) \in Nat
      OBVIOUS
    <3> HIDE DEF Bad
    <3> QED
      BY <1>3, <3>1
  <2>2. \E f : f = Rec(f, Len(t))
    BY <2>1
  <2> QED
    BY <2>2
<1>5. Kept(t) = kept
  BY DEF Kept, Rec, Taken, Fillers
<1> HIDE DEF kept
<1>6. kept = [n \in 0..Len(t) |-> IF n = 0 THEN <<>> ELSE Taken(t, n, kept[n - 1])]
  BY <1>4 DEF Rec
<1>7. \A n \in 0..Len(t) : kept[n] = IF n = 0 THEN <<>> ELSE Taken(t, n, kept[n - 1])
  BY <1>6
<1>8. Len(t) \in Nat
  OBVIOUS
<1> QED
  BY <1>5, <1>7, <1>8

\* One byte more.
LEMMA TakenIs ==
  ASSUME NEW t \in Seq(Cell), NEW n \in 1..Len(t), NEW s \in Seq(Cell)
  PROVE  /\ Taken(t, n, s) \in Seq(Cell) /\ Len(Taken(t, n, s)) \in {Len(s), Len(s) + 1}
         /\ \A i \in 1..Len(s) : Taken(t, n, s)[i] = s[i]
         /\ Len(Taken(t, n, s)) = Len(s) + 1 =>
              Taken(t, n, s)[Len(s) + 1] = t[n] /\ t[n].of.type \notin Fillers
<1>1. t[n] \in Cell
  OBVIOUS
<1>2. CASE t[n].of.type \in Fillers
  BY <1>2 DEF Taken
<1>3. CASE t[n].of.type \notin Fillers
  <2>1. Taken(t, n, s) = Append(s, t[n])
    BY <1>3 DEF Taken
  <2>2. /\ Append(s, t[n]) \in Seq(Cell) /\ Len(Append(s, t[n])) = Len(s) + 1
        /\ \A i \in 1..Len(s) : Append(s, t[n])[i] = s[i]
        /\ Append(s, t[n])[Len(s) + 1] = t[n]
    BY <1>1, AppendProperties
  <2> QED
    BY <1>3, <2>1, <2>2
<1> QED
  BY <1>2, <1>3

\* What is kept are bytes of t, no fillers, and more the further one goes.
KeptBytes(t, n) ==
  /\ Kept(t)[n] \in Seq(Cell)
  /\ \A i \in 1..Len(Kept(t)[n]) :
       \E d \in 1..n : Kept(t)[n][i] = t[d] /\ t[d].of.type \notin Fillers

LEMMA KeptTypes ==
  ASSUME NEW t \in Seq(Cell), NEW n \in 0..Len(t)
  PROVE  KeptBytes(t, n)
<1> DEFINE Bad == {m \in Nat : m <= Len(t) /\ ~KeptBytes(t, m)}
<1>0. Len(t) \in Nat
  OBVIOUS
<1>1. KeptBytes(t, 0)
  <2>1. Kept(t)[0] = <<>>
    BY KeptIs
  <2> QED
    BY <2>1, EmptySeq DEF KeptBytes
<1>2. ASSUME NEW m \in 1..Len(t), KeptBytes(t, m - 1)
      PROVE  KeptBytes(t, m)
  <2> PICK s : s = Kept(t)[m - 1]
    OBVIOUS
  <2> PICK r : r = Kept(t)[m]
    OBVIOUS
  <2>1. s \in Seq(Cell)
        /\ \A i \in 1..Len(s) : \E d \in 1..(m - 1) : s[i] = t[d] /\ t[d].of.type \notin Fillers
    BY <1>2 DEF KeptBytes
  <2>2. r = Taken(t, m, s)
    BY KeptIs
  <2>3. /\ r \in Seq(Cell) /\ Len(r) \in {Len(s), Len(s) + 1}
        /\ \A i \in 1..Len(s) : r[i] = s[i]
        /\ Len(r) = Len(s) + 1 => r[Len(s) + 1] = t[m] /\ t[m].of.type \notin Fillers
    BY <2>1, <2>2, TakenIs, SMTT(30)
  <2>4. ASSUME NEW i \in 1..Len(r)
        PROVE  \E d \in 1..m : r[i] = t[d] /\ t[d].of.type \notin Fillers
    <3>0. Len(s) \in Nat
      BY <2>1
    <3>1. CASE i \in 1..Len(s)
      <4> PICK d \in 1..(m - 1) : s[i] = t[d] /\ t[d].of.type \notin Fillers
        BY <2>1, <3>1
      <4> QED
        BY <2>3, <3>1
    <3>2. CASE i \notin 1..Len(s)
      <4>1. i = Len(s) + 1 /\ Len(r) = Len(s) + 1
        BY <2>3, <3>0, <3>2
      <4> QED
        BY <2>3, <4>1
    <3> QED
      BY <3>1, <3>2
  <2> QED
    BY <2>3, <2>4, ZenonT(30) DEF KeptBytes
<1>3. Bad = {}
  <2> SUFFICES ASSUME Bad # {}
               PROVE  FALSE
    OBVIOUS
  <2> PICK m \in Bad : \A k \in Bad : m <= k
    <3>1. Bad \subseteq Nat
      OBVIOUS
    <3> HIDE DEF Bad
    <3> QED
      BY <3>1, LeastNumber
  <2>1. m \in Nat /\ m <= Len(t) /\ ~KeptBytes(t, m) /\ m # 0
    BY <1>1
  <2>2. m - 1 \in Nat /\ m - 1 \notin Bad /\ m - 1 <= Len(t)
    BY <1>0, <2>1
  <2>3. KeptBytes(t, m - 1)
    BY <2>2
  <2> QED
    BY <1>0, <1>2, <2>1, <2>3
<1>4. n \in Nat /\ n <= Len(t) /\ n \notin Bad
  <2>1. n \in Nat /\ n <= Len(t)
    BY <1>0
  <2> HIDE DEF Bad
  <2> QED
    BY <1>3, <2>1
<1> QED
  BY <1>4

\* A segment is kept as a whole, or not at all.
LEMMA KeptMore ==
  ASSUME NEW t \in Seq(Cell), NEW n \in Nat, NEW s \in Nat, n + s <= Len(t)
  PROVE  /\ Len(Kept(t)[n]) <= Len(Kept(t)[n + s])
         /\ (\A i \in 1..s : t[n + i].of.type \in Fillers) => Kept(t)[n + s] = Kept(t)[n]
         /\ (\A i \in 1..s : t[n + i].of.type \notin Fillers) =>
              /\ Len(Kept(t)[n + s]) = Len(Kept(t)[n]) + s
              /\ \A i \in 1..Len(Kept(t)[n]) : Kept(t)[n + s][i] = Kept(t)[n][i]
              /\ \A i \in 1..s : Kept(t)[n + s][Len(Kept(t)[n]) + i] = t[n + i]
<1> PICK k : k = Kept(t)
  OBVIOUS
<1> DEFINE Good(m) ==
      /\ Len(k[n]) <= Len(k[n + m])
      /\ (\A i \in 1..m : t[n + i].of.type \in Fillers) => k[n + m] = k[n]
      /\ (\A i \in 1..m : t[n + i].of.type \notin Fillers) =>
           /\ Len(k[n + m]) = Len(k[n]) + m
           /\ \A i \in 1..Len(k[n]) : k[n + m][i] = k[n][i]
           /\ \A i \in 1..m : k[n + m][Len(k[n]) + i] = t[n + i]
           Bad == {m \in Nat : m <= s /\ ~Good(m)}
<1>0. Len(t) \in Nat
  OBVIOUS
<1>1. Good(0)
  <2>1. n + 0 = n /\ n \in 0..Len(t) /\ 1..0 = {}
    BY <1>0
  <2>2. k[n] \in Seq(Cell)
    BY <2>1, KeptTypes DEF KeptBytes
  <2> QED
    BY <2>1, <2>2
<1>2. ASSUME NEW m \in 1..s, Good(m - 1)
      PROVE  Good(m)
  <2> PICK l : l = m - 1
    OBVIOUS
  <2>0. l \in Nat /\ n + m = (n + l) + 1 /\ n + m \in 1..Len(t) /\ (n + m) - 1 = n + l
        /\ n \in 0..Len(t) /\ n + l \in 0..Len(t) /\ m = l + 1
    BY <1>0
  <2> PICK a, b, c : a = k[n] /\ b = k[n + l] /\ c = k[n + m]
    OBVIOUS
  <2>1. a \in Seq(Cell) /\ b \in Seq(Cell)
    BY <2>0, KeptTypes DEF KeptBytes
  <2>2. c = Taken(t, n + m, b)
    BY <2>0, KeptIs
  <2>3. /\ c \in Seq(Cell) /\ Len(c) \in {Len(b), Len(b) + 1}
        /\ \A i \in 1..Len(b) : c[i] = b[i]
        /\ Len(c) = Len(b) + 1 => c[Len(b) + 1] = t[n + m] /\ t[n + m].of.type \notin Fillers
    <3> PICK q \in 1..Len(t) : q = n + m
      BY <2>0
    <3>1. c = Taken(t, q, b)
      BY <2>2
    <3>2. /\ c \in Seq(Cell) /\ Len(c) \in {Len(b), Len(b) + 1}
          /\ \A i \in 1..Len(b) : c[i] = b[i]
          /\ Len(c) = Len(b) + 1 => c[Len(b) + 1] = t[q] /\ t[q].of.type \notin Fillers
      <4>1. /\ Taken(t, q, b) \in Seq(Cell) /\ Len(Taken(t, q, b)) \in {Len(b), Len(b) + 1}
            /\ \A i \in 1..Len(b) : Taken(t, q, b)[i] = b[i]
            /\ Len(Taken(t, q, b)) = Len(b) + 1 =>
                 Taken(t, q, b)[Len(b) + 1] = t[q] /\ t[q].of.type \notin Fillers
        BY ONLY t \in Seq(Cell), q \in 1..Len(t), <2>1, TakenIs
      <4> QED
        BY <3>1, <4>1
    <3> QED
      BY <3>2
  <2>4. /\ Len(a) <= Len(b)
        /\ (\A i \in 1..l : t[n + i].of.type \in Fillers) => b = a
        /\ (\A i \in 1..l : t[n + i].of.type \notin Fillers) =>
             /\ Len(b) = Len(a) + l
             /\ \A i \in 1..Len(a) : b[i] = a[i]
             /\ \A i \in 1..l : b[Len(a) + i] = t[n + i]
    BY <1>2
  <2>5. Len(a) \in Nat /\ Len(b) \in Nat
    BY <2>1
  <2>6. Len(a) <= Len(c)
    <3>1. Len(a) <= Len(b)
      BY <2>4
    <3>2. Len(c) \in {Len(b), Len(b) + 1}
      BY <2>3
    <3> QED
      BY ONLY <2>5, <3>1, <3>2
  <2>7. ASSUME \A i \in 1..m : t[n + i].of.type \in Fillers
        PROVE  c = a
    <3>1. (\A i \in 1..l : t[n + i].of.type \in Fillers) /\ t[n + m].of.type \in Fillers
      BY <2>0, <2>7
    <3> QED
      BY <2>2, <2>4, <3>1 DEF Taken
  <2>8. ASSUME \A i \in 1..m : t[n + i].of.type \notin Fillers
        PROVE  /\ Len(c) = Len(a) + m
               /\ \A i \in 1..Len(a) : c[i] = a[i]
               /\ \A i \in 1..m : c[Len(a) + i] = t[n + i]
    <3>1. (\A i \in 1..l : t[n + i].of.type \notin Fillers) /\ t[n + m].of.type \notin Fillers
      BY <2>0, <2>8
    <3>2. /\ Len(b) = Len(a) + l
          /\ \A i \in 1..Len(a) : b[i] = a[i]
          /\ \A i \in 1..l : b[Len(a) + i] = t[n + i]
      BY <2>4, <3>1
    <3>3. c = Append(b, t[n + m])
      BY <2>2, <3>1 DEF Taken
    <3>4. Len(c) = Len(b) + 1
      BY <2>1, <3>3
    <3>5. \A i \in 1..Len(a) : i \in 1..Len(b)
      BY <2>4, <2>5
    <3>6. ASSUME NEW i \in 1..m
          PROVE  c[Len(a) + i] = t[n + i]
      <4>1. CASE i = m
        <5>1. Len(a) + i = Len(b) + 1
          BY <2>0, <2>5, <3>2, <4>1
        <5> QED
          BY <2>3, <3>4, <4>1, <5>1
      <4>2. CASE i # m
        <5>2. i \in 1..l
          BY <2>0, <4>2
        <5> PICK x \in Nat, y \in Nat : x = Len(a) /\ y = Len(b)
          BY <2>5
        <5>3. y = x + l
          BY <3>2
        <5>1. Len(a) + i \in 1..Len(b)
          BY <2>0, <5>2, <5>3, SMTT(30)
        <5> QED
          BY <2>3, <3>2, <5>1, <5>2
      <4> QED
        BY <4>1, <4>2
    <3> QED
      BY <2>0, <2>3, <2>5, <3>2, <3>4, <3>5, <3>6
  <2> QED
    BY <2>6, <2>7, <2>8
<1> HIDE DEF Good
<1>3. Bad = {}
  <2> SUFFICES ASSUME Bad # {}
               PROVE  FALSE
    OBVIOUS
  <2> PICK m \in Bad : \A j \in Bad : m <= j
    <3>1. Bad \subseteq Nat
      OBVIOUS
    <3> HIDE DEF Bad
    <3> QED
      BY <3>1, LeastNumber
  <2>1. m \in Nat /\ m <= s /\ ~Good(m) /\ m # 0
    BY <1>1
  <2>2. m - 1 \in Nat /\ m - 1 \notin Bad /\ m - 1 <= s
    BY <2>1
  <2> QED
    BY <1>2, <2>1, <2>2
<1>4. Good(s)
  <2>1. s \in Nat /\ s <= s
    OBVIOUS
  <2>2. s \notin Bad
    <3> HIDE DEF Bad
    <3> QED
      BY <1>3
  <2> QED
    BY <2>1, <2>2
<1> QED
  BY <1>4 DEF Good

\* The same, for what is not kept and for a segment that is.
LEMMA KeptFillers ==
  ASSUME NEW t \in Seq(Cell), NEW n \in Nat, NEW s \in Nat, n + s <= Len(t),
         \A i \in 1..s : t[n + i].of.type \in Fillers
  PROVE  Kept(t)[n + s] = Kept(t)[n]
BY KeptMore

LEMMA KeptSegment ==
  ASSUME NEW t \in Seq(Cell), NEW n \in Nat, NEW s \in Nat, n + s <= Len(t),
         \A i \in 1..s : t[n + i].of.type \notin Fillers
  PROVE  /\ Len(Kept(t)[n + s]) = Len(Kept(t)[n]) + s
         /\ \A i \in 1..Len(Kept(t)[n]) : Kept(t)[n + s][i] = Kept(t)[n][i]
         /\ \A i \in 1..s : Kept(t)[n + s][Len(Kept(t)[n]) + i] = t[n + i]
BY KeptMore

\* A segment of a display set is there as a whole, and another one follows.
LEMMA SegmentIs ==
  ASSUME NEW k, NEW t \in Seq(Cell), DisplaySet(k, t),
         NEW j \in 3..Len(t), t[j].at = 0, t[j].of.type # "marker",
         NEW s \in Nat, s = t[j].of.size
  PROVE  /\ s >= 6 /\ j + s <= Len(t) + 1
         /\ \A i \in 0..(s - 1) : t[j + i].of = t[j].of
         /\ j + s <= Len(t) => t[j + s].at = 0
<1> DEFINE Good(i) == j + i <= Len(t) /\ t[j + i].of = t[j].of /\ t[j + i].at = i
           Bad == {i \in Nat : i < s /\ ~Good(i)}
<1>0. Len(t) \in Nat /\ \A i \in 1..Len(t) : t[i] \in Cell
  OBVIOUS
<1>1. /\ \A i \in 3..Len(t) :
           IF i > 3 /\ t[i - 1].at + 1 < t[i - 1].of.size
           THEN t[i] = [t[i - 1] EXCEPT !.at = @ + 1] ELSE t[i].at = 0
      /\ t[Len(t)].at = t[Len(t)].of.size - 1
      /\ s >= 6
  BY DEF DisplaySet
<1>2. Good(0)
  <2>1. j + 0 = j /\ j <= Len(t)
    BY <1>0
  <2> QED
    BY <2>1
<1>3. ASSUME NEW i \in Nat, i + 1 < s, Good(i)
      PROVE  Good(i + 1)
  <2> PICK a : a = j + i
    OBVIOUS
  <2>1. a \in 3..Len(t) /\ j + (i + 1) = a + 1 /\ a <= Len(t)
    BY <1>0, <1>3
  <2>2. t[a].at = i /\ t[a].of = t[j].of /\ t[a].of.size = s
    BY <1>3
  <2>3. a # Len(t)
    <3>1. ASSUME a = Len(t)
          PROVE  FALSE
      <4>1. i = s - 1
        BY <1>1, <2>2, <3>1
      <4> QED
        BY <1>3, <4>1, SMTT(30)
    <3> QED
      BY <3>1
  <2>4. a + 1 \in 3..Len(t) /\ a + 1 > 3 /\ (a + 1) - 1 = a
    BY <1>0, <2>1, <2>3
  <2>5. t[a + 1] = [t[a] EXCEPT !.at = @ + 1]
    BY <1>1, <1>3, <2>2, <2>4
  <2>6. t[a] \in Cell
    BY <1>0, <2>1
  <2>7. t[a + 1].at = i + 1 /\ t[a + 1].of = t[a].of
    BY <2>2, <2>5, <2>6 DEF Cell
  <2> QED
    BY <2>1, <2>2, <2>4, <2>7
<1> HIDE DEF Good
<1>4. Bad = {}
  <2> SUFFICES ASSUME Bad # {}
               PROVE  FALSE
    OBVIOUS
  <2> PICK m \in Bad : \A n \in Bad : m <= n
    <3>1. Bad \subseteq Nat
      OBVIOUS
    <3> HIDE DEF Bad
    <3> QED
      BY <3>1, LeastNumber
  <2>1. m \in Nat /\ m < s /\ ~Good(m) /\ m # 0
    BY <1>2
  <2>2. m - 1 \in Nat /\ m - 1 \notin Bad /\ m - 1 < s /\ (m - 1) + 1 = m
    BY <2>1
  <2>3. Good(m - 1)
    BY <2>2
  <2> QED
    BY <1>3, <2>1, <2>2, <2>3
<1>5. \A i \in 0..(s - 1) : Good(i)
  <2> TAKE i \in 0..(s - 1)
  <2>1. i \in Nat /\ i < s
    OBVIOUS
  <2>2. i \notin Bad
    <3> HIDE DEF Bad
    <3> QED
      BY <1>4
  <2> QED
    BY <2>1, <2>2
<1>6. s - 1 \in 0..(s - 1)
  BY <1>1
<1> PICK e : e = j + (s - 1)
  OBVIOUS
<1>7. e <= Len(t) /\ t[e].of = t[j].of /\ t[e].at = s - 1 /\ j + s = e + 1 /\ e \in Nat /\ e >= 3
  <2> PICK r : r = s - 1
    OBVIOUS
  <2>1. r \in 0..(s - 1)
    BY <1>6
  <2>2. Good(r)
    BY <1>5, <2>1
  <2>3. e <= Len(t) /\ t[e].of = t[j].of /\ t[e].at = r
    BY <2>2 DEF Good
  <2>4. j + s = e + 1 /\ e \in Nat /\ e >= 3
    BY <1>0, <1>1
  <2> QED
    BY <2>3, <2>4
<1>8. ASSUME j + s <= Len(t)
      PROVE  t[j + s].at = 0
  <2>1. e + 1 \in 3..Len(t) /\ (e + 1) - 1 = e
    BY <1>0, <1>7, <1>8, SMTT(30)
  <2>2. ~(t[e].at + 1 < t[e].of.size)
    BY <1>7, SMTT(30)
  <2> QED
    BY <1>1, <1>7, <2>1, <2>2
<1>9. \A i \in 0..(s - 1) : t[j + i].of = t[j].of
  BY <1>5 DEF Good
<1> QED
  BY <1>0, <1>1, <1>7, <1>8, <1>9, SMTT(30)

-----------------------------------------------------------------------------
(* Broadcasts.                                                             *)

\* The packets of a broadcast, with what is assumed of them.
LEMMA BroadcastIs ==
  ASSUME broadcast \in Broadcasts
  PROVE  /\ broadcast \in Seq(SubtitlePacket) /\ Len(broadcast) \in Nat
         /\ DOMAIN broadcast = 1..Len(broadcast)
         /\ \A i \in 1..Len(broadcast) :
              /\ broadcast[i] \in SubtitlePacket
              /\ broadcast[i].set > 0 /\ DisplaySet(broadcast[i].set, broadcast[i].text)
              /\ IF i = 1 THEN Begins(broadcast[i]) ELSE Goes(broadcast[i - 1], broadcast[i])
              /\ i = Len(broadcast) => broadcast[i].upto = Len(broadcast[i].text)
<1>1. broadcast \in Seq(SubtitlePacket)
  BY SubtitleAssumption
<1>2. DOMAIN broadcast = 1..Len(broadcast)
  BY <1>1
<1>3. \A i \in DOMAIN broadcast :
        /\ broadcast[i].set > 0 /\ DisplaySet(broadcast[i].set, broadcast[i].text)
        /\ IF i = 1 THEN Begins(broadcast[i]) ELSE Goes(broadcast[i - 1], broadcast[i])
        /\ i = Len(broadcast) => broadcast[i].upto = Len(broadcast[i].text)
  BY BroadcastAssumption, Zenon
<1>4. \A i \in 1..Len(broadcast) : broadcast[i] \in SubtitlePacket
  BY <1>1
<1>5. Len(broadcast) \in Nat
  BY <1>1
<1> QED
  BY <1>1, <1>2, <1>3, <1>4, <1>5, Zenon

\* Sets come one after the other.
LEMMA SetsGrow ==
  ASSUME broadcast \in Broadcasts, NEW j \in 1..Len(broadcast), NEW i \in 1..j
  PROVE  broadcast[i].set <= broadcast[j].set
<1> DEFINE Bad == {m \in Nat : m \in i..Len(broadcast) /\ ~(broadcast[i].set <= broadcast[m].set)}
<1>0. /\ Len(broadcast) \in Nat /\ \A m \in 1..Len(broadcast) : broadcast[m].set \in Nat
  BY BroadcastIs DEF SubtitlePacket
<1>1. i \in 1..Len(broadcast)
  BY <1>0
<1>b. Bad \subseteq Nat
      /\ \A m : m \in Bad <=> m \in i..Len(broadcast) /\ ~(broadcast[i].set <= broadcast[m].set)
  BY <1>1
<1> HIDE DEF Bad
<1>2. Bad = {}
  <2> SUFFICES ASSUME Bad # {}
               PROVE  FALSE
    OBVIOUS
  <2> PICK m \in Bad : \A n \in Bad : m <= n
    BY <1>b, LeastNumber
  <2>1. m \in Nat /\ m \in i..Len(broadcast) /\ ~(broadcast[i].set <= broadcast[m].set)
    BY <1>b
  <2>m. m # i
    <3>1. broadcast[i].set \in Nat
      BY <1>0, <1>1
    <3>2. broadcast[i].set <= broadcast[i].set
      BY ONLY <3>1
    <3> QED
      BY ONLY <2>1, <3>2
  <2> PICK l \in Int : l = m - 1
    BY <2>1
  <2>2. /\ l \in i..Len(broadcast) /\ l + 1 = m /\ ~(m <= l)
        /\ m \in 1..Len(broadcast) /\ l \in 1..Len(broadcast) /\ m # 1 /\ m - 1 = l
    BY <1>0, <1>1, <2>1, <2>m
  <2>3. broadcast[i].set <= broadcast[l].set
    <3>1. l \notin Bad
      BY <2>2
    <3> QED
      BY ONLY <1>b, <2>2, <3>1
  <2>4. Goes(broadcast[l], broadcast[m])
    <3>1. Goes(broadcast[m - 1], broadcast[m])
      BY ONLY broadcast \in Broadcasts, <2>2, BroadcastIs
    <3> QED
      BY ONLY <2>2, <3>1, ZenonT(30)
  <2>5. broadcast[m].set = broadcast[l].set + 1 \/ broadcast[m].set = broadcast[l].set
    BY <2>4 DEF Goes
  <2>6. broadcast[i].set \in Nat /\ broadcast[l].set \in Nat /\ broadcast[m].set \in Nat
    BY ONLY <1>0, <1>1, <2>2
  <2> QED
    BY ONLY <2>1, <2>3, <2>5, <2>6
<1>3. broadcast[i].set <= broadcast[j].set
  <2>1. j \in i..Len(broadcast)
    BY <1>0
  <2> QED
    BY ONLY <1>b, <1>2, <2>1
<1> QED
  BY <1>3

\* The packet a set begins with is the first of the set, and the others have its text.
LEMMA OpeningIs ==
  ASSUME broadcast \in Broadcasts, NEW i \in 1..Len(broadcast)
  PROVE  LET o == Opening(broadcast[i].set)
         IN /\ o.text = broadcast[i].text /\ o.plugin = broadcast[i].plugin
            /\ i = 1 \/ broadcast[i - 1].set # broadcast[i].set => o = broadcast[i]
<1> PICK k : k = broadcast[i].set
  OBVIOUS
<1> DEFINE Of == {m \in Nat : m \in 1..Len(broadcast) /\ broadcast[m].set = k}
           First1(m) == broadcast[m].set = k /\ \A j \in 1..(m - 1) : broadcast[j].set # k
<1>0. /\ Len(broadcast) \in Nat /\ DOMAIN broadcast = 1..Len(broadcast)
      /\ \A m \in 1..Len(broadcast) : broadcast[m].set \in Nat
  BY BroadcastIs DEF SubtitlePacket
<1>1. \E m \in DOMAIN broadcast : First1(m)
  <2>1. Of \subseteq Nat /\ Of # {}
    <3>1. i \in Of
      OBVIOUS
    <3> QED
      BY <3>1
  <2> PICK m \in Of : \A n \in Of : m <= n
    <3> HIDE DEF Of
    <3> QED
      BY <2>1, LeastNumber
  <2>2. \A j \in 1..(m - 1) : broadcast[j].set # k
    <3> TAKE j \in 1..(m - 1)
    <3>1. j \in Nat /\ j \in 1..Len(broadcast) /\ ~(m <= j)
      BY <1>0
    <3>2. j \notin Of
      <4> HIDE DEF Of
      <4> QED
        BY <3>1
    <3> QED
      BY <3>1, <3>2
  <2> QED
    BY <1>0, <2>2
<1> PICK f : f = CHOOSE m \in DOMAIN broadcast : First1(m)
  OBVIOUS
<1>2. f \in 1..Len(broadcast) /\ First1(f)
  <2> HIDE DEF First1
  <2> QED
    BY <1>0, <1>1
<1>3. Opening(k) = broadcast[f]
  BY DEF Opening
<1>4. f <= i
  BY <1>0, <1>2
<1>5. \A m \in f..i : m \in 1..Len(broadcast) /\ broadcast[m].set = k
  <2> TAKE m \in f..i
  <2>1. m \in 1..Len(broadcast) /\ f \in 1..m /\ m \in 1..i
    BY ONLY <1>0, <1>2, <1>4, m \in f..i, i \in 1..Len(broadcast)
  <2>2. broadcast[f].set <= broadcast[m].set
    BY ONLY broadcast \in Broadcasts, <2>1, SetsGrow
  <2>3. broadcast[m].set <= broadcast[i].set
    BY ONLY broadcast \in Broadcasts, <2>1, i \in 1..Len(broadcast), SetsGrow
  <2>4. broadcast[m].set \in Nat /\ broadcast[i].set \in Nat
    BY <1>0, <2>1
  <2>5. broadcast[f].set = k /\ broadcast[i].set = k
    BY <1>2, SMTT(30)
  <2> QED
    BY ONLY <2>1, <2>2, <2>3, <2>4, <2>5
<1> DEFINE Bad == {m \in Nat : m \in f..i /\ ~(/\ broadcast[m].text = broadcast[f].text
                                               /\ broadcast[m].plugin = broadcast[f].plugin)}
<1>b. /\ Bad \subseteq Nat
      /\ \A m : m \in Bad <=> m \in f..i /\ ~(/\ broadcast[m].text = broadcast[f].text
                                              /\ broadcast[m].plugin = broadcast[f].plugin)
  BY <1>2
<1> HIDE DEF Bad
<1>6. Bad = {}
  <2> SUFFICES ASSUME Bad # {}
               PROVE  FALSE
    OBVIOUS
  <2> PICK m \in Bad : \A n \in Bad : m <= n
    BY <1>b, LeastNumber
  <2>1. m \in Nat /\ m \in f..i /\ m # f
    BY ONLY <1>b, m \in Bad
  <2>l. PICK l \in Int : l = m - 1
    BY <2>1
  <2>2. l \in f..i /\ m \in 1..Len(broadcast) /\ m # 1 /\ ~(m <= l)
    <3>1. f \in Nat /\ f >= 1 /\ i \in Nat /\ i <= Len(broadcast) /\ Len(broadcast) \in Nat
      BY <1>0, <1>2
    <3> QED
      BY ONLY <2>1, <2>l, <3>1, l \in Int
  <2>3. broadcast[l].text = broadcast[f].text /\ broadcast[l].plugin = broadcast[f].plugin
    <3>1. l \notin Bad
      BY <2>2
    <3> QED
      BY ONLY <1>b, <2>2, <3>1
  <2>4. Goes(broadcast[l], broadcast[m])
    <3>1. Goes(broadcast[m - 1], broadcast[m])
      BY ONLY broadcast \in Broadcasts, <2>2, BroadcastIs
    <3> QED
      BY ONLY <2>l, <3>1, ZenonT(30)
  <2>5. broadcast[m].set = k /\ broadcast[l].set = k
    BY <1>5, <2>1, <2>2
  <2>6. k \in Nat /\ k # k + 1
    <3>1. k \in Nat
      BY <1>0
    <3> QED
      BY ONLY <3>1
  <2>7. broadcast[m].text = broadcast[l].text /\ broadcast[m].plugin = broadcast[l].plugin
    BY ONLY <2>4, <2>5, <2>6 DEF Goes
  <2> QED
    BY ONLY <1>b, <2>3, <2>7, m \in Bad
<1>7. broadcast[i].text = broadcast[f].text /\ broadcast[i].plugin = broadcast[f].plugin
  <2>1. i \in f..i
    BY <1>0, <1>2, <1>4
  <2> QED
    BY ONLY <1>b, <1>6, <2>1
<1>8. ASSUME i = 1 \/ broadcast[i - 1].set # broadcast[i].set
      PROVE  f = i
  <2>1. CASE i = 1
    BY <1>0, <1>2, <1>4, <2>1
  <2>2. CASE i # 1 /\ broadcast[i - 1].set # broadcast[i].set
    <3>1. f # i => i - 1 \in f..i
      <4>1. f \in Nat /\ i \in Nat /\ f <= i
        BY <1>0, <1>2, <1>4
      <4> QED
        BY ONLY <4>1
    <3> QED
      BY <1>5, <2>2, <3>1
  <2> QED
    BY <1>8, <2>1, <2>2
<1> QED
  BY <1>3, <1>7, <1>8

-----------------------------------------------------------------------------
(* What becomes of a display set.                                          *)

\* The packet a piece was last taken from, 0 if none was, and how many bytes of its
\* display set have come with it and those before.
At   == IF have = 0 THEN packet - 1 ELSE packet
Now  == broadcast[At].set
Text == broadcast[At].text
Come == IF have = 0 THEN broadcast[At].upto ELSE broadcast[At].from + have - 4

\* The last segment of the set has been taken from the assembler.
Over      == \E d \in 1..pos : data[d].of.type = "end"
Passed(k) == At >= 1 /\ (k < Now \/ (k = Now /\ Over))

\* Nothing has happened before the first piece.
Fresh ==
  At = 0 => /\ data = <<>> /\ pos = 0 /\ fifo = <<>> /\ size = 0 /\ ~looping
            /\ emitted = <<>>

\* In the assembler are the bytes of the display set that have come, as they were
\* broadcast, and the position is where a segment begins.
Gathered ==
  At >= 1 /\ Complete(Now) =>
    /\ headerstore = Opening(Now).pts /\ have \notin 1..7
    /\ Come \in 4..Len(Text) /\ Len(data) = Come - 2
    /\ \A d \in 1..Len(data) : data[d] = Text[d + 2]
    /\ pos + 2 < Len(Text) => Text[pos + 3].at = 0

\* Outside the loop no segment is left there that has come whole.
CaughtUp ==
  At >= 1 /\ Complete(Now) /\ ~looping =>
    \/ pos + 2 = Come
    \/ Text[pos + 3].of.type = "marker"
    \/ Come < pos + 2 + Text[pos + 3].of.size

\* In the fifo are the segments that have been taken, until the last one empties it.
Queued ==
  At >= 1 /\ Complete(Now) =>
    IF Over THEN fifo = <<>> /\ size = 0
    ELSE Clean(Now) => fifo = Kept(Text)[pos + 2] /\ size = Len(fifo)

\* What is left of other sets that are complete is one marker.
LeftOver ==
  At >= 1 => \A d \in (pos + 1)..Len(data) :
    Complete(data[d].of.set) /\ data[d].of.set # Now => data[d].of.type = "marker" /\ d = pos + 1

\* A set is written after its last segment was taken, and once.
InTurn ==
  \A i \in DOMAIN emitted :
    LET k == Last(emitted[i].cells).of.set
    IN Clean(k) => /\ Passed(k)
                   /\ \A j \in DOMAIN emitted : Last(emitted[j].cells).of.set = k => i = j

\* And it was written if sets are written from some set before it on.
Shows(k)   == Clean(k) /\ Probe(Whole(k)) = {TRUE}
Delivered ==
  /\ \A k \in Sets : Shows(k) /\ Passed(k) => subsstarted
  /\ \A k \in Sets : Clean(k) /\ Passed(k) /\ (\E j \in Sets : j <= k /\ Shows(j)) =>
       \E i \in DOMAIN emitted : emitted[i] = Sent(k)

Delivering ==
  ~failed => /\ Fresh /\ Gathered /\ CaughtUp /\ Queued /\ LeftOver /\ InTurn /\ Delivered

\* The packet a piece was last taken from.
LEMMA AtTypes ==
  ASSUME Inv
  PROVE  /\ At \in 0..Len(broadcast) /\ Len(broadcast) \in Nat
         /\ At >= 1 =>
              /\ broadcast[At] \in SubtitlePacket /\ Now \in Sets /\ Now \in Nat /\ Now > 0
              /\ Text \in Seq(Cell) /\ Len(Text) \in Nat /\ DisplaySet(Now, Text)
              /\ broadcast[At].from < broadcast[At].upto /\ broadcast[At].upto <= Len(Text)
              /\ broadcast[At].from \in Nat /\ broadcast[At].upto \in Nat
              /\ Opening(Now).text = Text /\ Opening(Now).plugin = broadcast[At].plugin
<1>0. /\ broadcast \in Broadcasts /\ packet \in 1..(Len(broadcast) + 1) /\ Len(broadcast) \in Nat
      /\ have \in 0..(IF packet <= Len(broadcast) THEN Len(Cells(Current)) - 1 ELSE 0)
      /\ DOMAIN broadcast = 1..Len(broadcast)
  BY BroadcastIs DEF Inv, TypeOK
<1>1. At \in 0..Len(broadcast)
  <2>1. CASE have = 0
    BY <1>0, <2>1 DEF At
  <2>2. CASE have # 0
    <3>1. packet <= Len(broadcast)
      BY <1>0, <2>2
    <3> QED
      BY <1>0, <2>2, <3>1 DEF At
  <2> QED
    BY <2>1, <2>2
<1>2. ASSUME At >= 1
      PROVE  /\ broadcast[At] \in SubtitlePacket /\ Now \in Sets /\ Now \in Nat /\ Now > 0
             /\ Text \in Seq(Cell) /\ Len(Text) \in Nat /\ DisplaySet(Now, Text)
             /\ broadcast[At].from < broadcast[At].upto /\ broadcast[At].upto <= Len(Text)
             /\ broadcast[At].from \in Nat /\ broadcast[At].upto \in Nat
             /\ Opening(Now).text = Text /\ Opening(Now).plugin = broadcast[At].plugin
  <2> PICK i \in 1..Len(broadcast) : i = At
    BY <1>0, <1>1, <1>2
  <2>1. broadcast[i] \in SubtitlePacket /\ broadcast[i].from < broadcast[i].upto
        /\ broadcast[i].upto <= Len(broadcast[i].text)
    BY <1>0, PacketTypes, SMTT(30)
  <2>2. broadcast[i].set > 0 /\ DisplaySet(broadcast[i].set, broadcast[i].text)
    BY <1>0, BroadcastIs
  <2>3. /\ Opening(broadcast[i].set).text = broadcast[i].text
        /\ Opening(broadcast[i].set).plugin = broadcast[i].plugin
    BY <1>0, OpeningIs
  <2>4. broadcast[i].set \in Nat /\ broadcast[i].text \in Seq(Cell)
        /\ broadcast[i].from \in Nat /\ broadcast[i].upto \in Nat
    BY <2>1 DEF SubtitlePacket
  <2>5. broadcast[i].set \in Sets
    BY <1>0 DEF Sets
  <2>6. Now = broadcast[i].set /\ Text = broadcast[i].text
    BY DEF Now, Text
  <2>7. Len(broadcast[i].text) \in Nat
    BY <2>4
  <2> QED
    BY <2>1, <2>2, <2>3, <2>4, <2>5, <2>6, <2>7
<1> QED
  BY <1>0, <1>1, <1>2

\* The numbers of the sets.
LEMMA SetTypes ==
  ASSUME Inv, NEW k \in Sets
  PROVE  k \in Nat /\ k > 0
<1>1. broadcast \in Broadcasts
  BY DEF Inv
<1> PICK i \in DOMAIN broadcast : k = broadcast[i].set
  BY SMTT(30) DEF Sets
<1>2. broadcast[i] \in SubtitlePacket /\ broadcast[i].set > 0
  BY <1>1, BroadcastIs
<1> QED
  BY <1>2 DEF SubtitlePacket

\* A display set that is complete has segments, and they are its own.
LEMMA WholeIs ==
  ASSUME Inv, NEW k \in Sets
  PROVE  /\ Whole(k) \in Seq(Cell) /\ Len(Whole(k)) \in Nat
         /\ Whole(k) # <<>> => Last(Whole(k)).of.set = k
         /\ Complete(k) => /\ Whole(k) # <<>>
                           /\ \E d \in 3..Len(Opening(k).text) : Opening(k).text[d].of.type = "end"
<1>0. broadcast \in Broadcasts /\ DOMAIN broadcast = 1..Len(broadcast)
  BY BroadcastIs DEF Inv
<1> PICK j \in 1..Len(broadcast) : k = broadcast[j].set
  BY <1>0 DEF Sets
<1> PICK t : t = Opening(k).text
  OBVIOUS
<1>1. t = broadcast[j].text /\ t \in Seq(Cell) /\ DisplaySet(k, t)
  <2>1. t = broadcast[j].text
    BY <1>0, OpeningIs, SMTT(30)
  <2>2. broadcast[j] \in SubtitlePacket /\ DisplaySet(broadcast[j].set, broadcast[j].text)
    BY <1>0, BroadcastIs
  <2> QED
    BY <2>1, <2>2 DEF SubtitlePacket
<1>2. Len(t) \in Nat /\ Len(t) \in 0..Len(t)
  BY <1>1
<1> PICK w : w = Whole(k)
  OBVIOUS
<1>3. w = Kept(t)[Len(t)]
  BY DEF Whole
<1>4. w \in Seq(Cell)
      /\ \A i \in 1..Len(w) : \E d \in 1..Len(t) : w[i] = t[d] /\ t[d].of.type \notin Fillers
  <2> PICK n \in 0..Len(t) : n = Len(t)
    BY <1>2
  <2>1. KeptBytes(t, n)
    BY <1>1, KeptTypes
  <2>2. w = Kept(t)[n]
    BY <1>3
  <2> QED
    BY <2>1, <2>2 DEF KeptBytes
<1>5. ASSUME w # <<>>
      PROVE  \E d \in 3..Len(t) : Last(w) = t[d]
  <2>1. Len(w) \in 1..Len(w)
    BY <1>4, <1>5
  <2> PICK d \in 1..Len(t) : w[Len(w)] = t[d] /\ t[d].of.type \notin Fillers
    BY <1>4, <2>1, SMTT(30)
  <2>2. d \notin 1..2
    BY <1>1 DEF DisplaySet, Fillers
  <2>3. d \in 3..Len(t) /\ Last(w) = t[d]
    BY <1>2, <2>2 DEF Last
  <2> QED
    BY <2>3
<1>6. \A d \in 3..Len(t) : t[d].of.set = k
  BY <1>1 DEF DisplaySet
<1>7. Complete(k) => w # <<>> /\ Last(w).of.type = "end"
  BY DEF Complete
<1>8. Len(w) \in Nat
  BY <1>4
<1> QED
  BY <1>4, <1>5, <1>6, <1>7, <1>8, SMTT(30)

\* When a complete set has come and the loop has ended, its end has been taken, and
\* nothing is left but a marker.
LEMMA AllTaken ==
  ASSUME Inv, At >= 1, Complete(Now), Gathered, CaughtUp, ~looping, Come = Len(Text)
  PROVE  Over /\ \A d \in (pos + 1)..Len(data) : data[d].of.type = "marker" /\ d = pos + 1
<1> PICK t : t = Text
  OBVIOUS
<1>0. /\ t \in Seq(Cell) /\ Len(t) \in Nat /\ DisplaySet(Now, t) /\ Now \in Sets
      /\ Opening(Now).text = t
  BY AtTypes
<1>1. pos \in Nat /\ pos <= Len(data) /\ Len(data) \in Nat
  BY DEF Inv, TypeOK
<1>2. /\ Come \in 4..Len(t) /\ Len(data) = Len(t) - 2
      /\ \A d \in 1..Len(data) : data[d] = t[d + 2]
      /\ pos + 2 < Len(t) => t[pos + 3].at = 0
  BY DEF Gathered
<1>3. ASSUME pos < Len(data)
      PROVE  Len(data) = pos + 1 /\ data[pos + 1].of.type = "marker"
  <2> PICK j \in Nat : j = pos + 3
    BY <1>1
  <2>1. j \in 3..Len(t) /\ t[j].at = 0
    BY <1>0, <1>1, <1>2, <1>3
  <2>2. \/ t[j].of.type = "marker"
        \/ Len(t) < pos + 2 + t[j].of.size
    BY <1>0, <1>1, <1>2, <1>3 DEF CaughtUp
  <2>3. CASE t[j].of.type = "marker"
    <3>1. j = Len(t)
      BY <1>0, <2>1, <2>3 DEF DisplaySet
    <3>2. Len(data) = pos + 1
      BY <1>0, <1>1, <1>2, <3>1
    <3> PICK q \in 1..Len(data) : q = pos + 1
      BY <1>1, <3>2
    <3>3. data[q] = t[q + 2] /\ q + 2 = j
      BY <1>1, <1>2
    <3> QED
      BY <2>3, <3>2, <3>3
  <2>4. CASE t[j].of.type # "marker"
    <3>1. t[j] \in Cell
      BY <1>0, <2>1
    <3> PICK s \in Nat : s = t[j].of.size
      BY <3>1 DEF Cell
    <3>2. j + s <= Len(t) + 1
      BY <1>0, <2>1, <2>4, SegmentIs
    <3> QED
      BY <1>0, <1>1, <2>2, <2>4, <3>2, SMTT(30)
  <2> QED
    BY <2>3, <2>4
<1> PICK d \in 3..Len(t) : t[d].of.type = "end"
  BY <1>0, WholeIs
<1> PICK e \in Nat : e = d - 2
  OBVIOUS
<1>4. e \in 1..Len(data) /\ e + 2 = d
  BY <1>0, <1>1, <1>2
<1>5. data[e].of.type = "end"
  BY <1>2, <1>4
<1>6. e \in 1..pos
  <2> SUFFICES ASSUME e > pos
               PROVE  FALSE
    BY <1>1, <1>4
  <2>1. Len(data) = pos + 1 /\ data[pos + 1].of.type = "marker"
    BY <1>1, <1>3, <1>4
  <2>2. e = pos + 1
    BY <1>1, <1>4, <2>1
  <2> QED
    BY <1>5, <2>1, <2>2
<1>7. Over
  BY <1>5, <1>6 DEF Over
<1>8. ASSUME NEW q \in (pos + 1)..Len(data)
      PROVE  data[q].of.type = "marker" /\ q = pos + 1
  <2>1. pos < Len(data)
    BY <1>1
  <2>2. q = pos + 1
    BY <1>1, <1>3, <2>1
  <2> QED
    BY <1>3, <2>1, <2>2
<1> QED
  BY <1>7, <1>8

\* What the steps of the loop leave as it is.
LEMMA Same ==
  ASSUME UNCHANGED <<broadcast, packet, have, harmed>>
  PROVE  /\ At' = At /\ Now' = Now /\ Text' = Text /\ Come' = Come /\ Sets' = Sets
         /\ \A k : /\ Complete(k)' <=> Complete(k)
                   /\ Clean(k)' <=> Clean(k)
                   /\ Whole(k)' = Whole(k) /\ Opening(k)' = Opening(k) /\ Sent(k)' = Sent(k)
                   /\ Shows(k)' <=> Shows(k)
<1>1. At' = At /\ Sets' = Sets
  BY DEF At, Sets
<1>2. Now' = Now /\ Text' = Text /\ Come' = Come
  BY <1>1 DEF Now, Text, Come
<1>3. \A k : Opening(k)' = Opening(k)
  BY DEF Opening
<1>4. \A k : Whole(k)' = Whole(k)
  BY <1>3 DEF Whole
<1>5. \A k : Sent(k)' = Sent(k)
  BY <1>3, <1>4 DEF Sent, Length16
<1>6. \A k : Complete(k)' <=> Complete(k)
  BY <1>1, <1>3, <1>4 DEF Complete, Length16
<1>7. \A k : Clean(k)' <=> Clean(k)
  BY <1>1, <1>6 DEF Clean
<1>8. \A k : Shows(k)' <=> Shows(k)
  BY <1>4, <1>7 DEF Shows
<1> QED
  BY <1>1, <1>2, <1>3, <1>4, <1>5, <1>6, <1>7, <1>8

-----------------------------------------------------------------------------
(* The loop.                                                               *)

\* The segment at the position, of a set that is complete.
LEMMA SegmentFound ==
  ASSUME Inv, At >= 1, Complete(Now), Gathered, Len(data) > pos + 5,
         NEW j \in Nat, j = pos + 3, NEW s \in Nat, s = Found.size
  PROVE  /\ IsSync(data[pos + 1]) /\ j \in 3..Len(Text)
         /\ Text[j].at = 0 /\ Text[j].of.type # "marker"
         /\ s >= 6 /\ j + s <= Len(Text) + 1
         /\ \A i \in 0..(s - 1) : Text[j + i].of = Found
         /\ j + s <= Len(Text) => Text[j + s].at = 0
         /\ ~Over
<1> PICK t : t = Text
  OBVIOUS
<1>0. t \in Seq(Cell) /\ Len(t) \in Nat /\ DisplaySet(Now, t)
  BY AtTypes
<1>1. pos \in Nat /\ Len(data) \in Nat /\ pos <= Len(data)
  BY DEF Inv, TypeOK
<1>2. /\ Len(data) <= Len(t) - 2 /\ \A d \in 1..Len(data) : data[d] = t[d + 2]
      /\ pos + 2 < Len(t) => t[pos + 3].at = 0
  <2>1. Come \in 4..Len(t) /\ Len(data) = Come - 2
    BY DEF Gathered
  <2>2. Come \in Int
    BY <2>1
  <2>3. Len(data) <= Len(t) - 2
    BY <1>0, <1>1, <2>1, <2>2
  <2> QED
    BY <2>3 DEF Gathered
<1>3. j \in 3..Len(t) /\ j < Len(t) /\ t[j].at = 0
  BY <1>0, <1>1, <1>2
<1>4. data[pos + 1] = t[j]
  <2> PICK q \in 1..Len(data) : q = pos + 1
    BY <1>1
  <2>1. data[q] = t[q + 2] /\ q + 2 = j
    BY <1>1, <1>2
  <2> QED
    BY <2>1
<1>5. t[j].of.type \notin {"marker", "prefix", "substream", "junk"}
  <2>1. \A i \in 3..Len(t) : /\ t[i].of.type \notin {"prefix", "substream", "junk"}
                             /\ t[i].of.type = "marker" => i = Len(t)
    BY <1>0 DEF DisplaySet
  <2> QED
    BY <1>0, <1>3, <2>1
<1>6. IsSync(data[pos + 1])
  BY <1>3, <1>4, <1>5 DEF IsSync
<1>7. s = t[j].of.size /\ Found = t[j].of
  BY <1>4 DEF Found
<1>8. /\ s >= 6 /\ j + s <= Len(t) + 1
      /\ \A i \in 0..(s - 1) : t[j + i].of = t[j].of
      /\ j + s <= Len(t) => t[j + s].at = 0
  BY <1>0, <1>3, <1>5, <1>7, SegmentIs, ZenonT(30)
<1>9. ~Over
  <2> SUFFICES ASSUME NEW d \in 1..pos, data[d].of.type = "end"
               PROVE  FALSE
    BY DEF Over
  <2> PICK e \in Nat : e = d + 2
    OBVIOUS
  <2>1. d \in 1..Len(data) /\ e \in 3..Len(t) /\ j \in (e + 1)..Len(t)
    BY <1>0, <1>1, <1>2, <1>3
  <2>2. t[e].of.type = "end"
    BY <1>2, <2>1
  <2>3. t[j].of.type = "marker"
    BY <1>0, <1>3, <2>1, <2>2, ZenonT(30) DEF DisplaySet
  <2> QED
    BY <1>5, <2>3
<1> QED
  BY <1>3, <1>5, <1>6, <1>7, <1>8, <1>9

\* The position goes on to the next segment.
LEMMA Advance ==
  ASSUME Inv, At >= 1, Complete(Now), Gathered, Len(data) > pos + 5,
         NEW s \in Nat, s = Found.size, pos' = pos + s, Len(data) >= pos + s,
         UNCHANGED <<broadcast, packet, have, data, headerstore, harmed>>
  PROVE  Gathered' /\ (Over' <=> Found.type = "end")
<1> PICK t : t = Text
  OBVIOUS
<1>0. t \in Seq(Cell) /\ Len(t) \in Nat /\ t = Text'
  BY AtTypes, Same
<1>1. pos \in Nat /\ Len(data) \in Nat /\ pos <= Len(data)
  BY DEF Inv, TypeOK
<1> PICK j \in Nat : j = pos + 3
  BY <1>1
<1>2. /\ j \in 3..Len(t) /\ s >= 6 /\ j + s <= Len(t) + 1
      /\ \A i \in 0..(s - 1) : t[j + i].of = Found
      /\ j + s <= Len(t) => t[j + s].at = 0
      /\ ~Over
  BY SegmentFound
<1>3. /\ headerstore = Opening(Now).pts /\ have \notin 1..7
      /\ Come \in 4..Len(t) /\ Len(data) = Come - 2
      /\ \A d \in 1..Len(data) : data[d] = t[d + 2]
  BY DEF Gathered
<1>4. Gathered'
  <2>1. Opening(Now)' = Opening(Now) /\ Come' = Come
    BY Same
  <2>2. pos' + 2 < Len(t) => t[pos' + 3].at = 0
    <3>1. pos' + 3 = j + s
      BY <1>1, SMTT(30)
    <3>2. pos' + 2 < Len(t) => j + s <= Len(t)
      BY <1>0, <1>1
    <3> QED
      BY <1>2, <3>1, <3>2
  <2> QED
    BY <1>0, <1>3, <2>1, <2>2 DEF Gathered
<1>5. \A d \in (pos + 1)..(pos + s) : data[d].of = Found
  <2> TAKE d \in (pos + 1)..(pos + s)
  <2> PICK i \in 0..(s - 1) : i = d - (pos + 1)
    BY <1>1
  <2>1. d \in 1..Len(data) /\ d + 2 = j + i
    BY <1>1
  <2>2. data[d] = t[d + 2] /\ t[j + i].of = Found
    BY <1>2, <1>3, <2>1
  <2> QED
    BY <2>1, <2>2
<1>6. \A d \in 1..(pos + s) : d \in 1..pos \/ d \in (pos + 1)..(pos + s)
  BY <1>1
<1>7. pos + s \in 1..(pos + s) /\ pos + s \in (pos + 1)..(pos + s)
  BY <1>1, <1>2, SMTT(30)
<1>8. Over' <=> \E d \in 1..(pos + s) : data[d].of.type = "end"
  BY DEF Over
<1>9. \A d \in 1..pos : data[d].of.type # "end"
  BY <1>2 DEF Over
<1> QED
  BY <1>4, <1>5, <1>6, <1>7, <1>8, <1>9

\* What is left over becomes less.
LEMMA LeftOverKept ==
  ASSUME Inv, LeftOver, pos' \in Nat, pos <= pos',
         UNCHANGED <<broadcast, packet, have, data, harmed>>
  PROVE  LeftOver'
<1>1. pos \in Nat /\ Len(data) \in Nat
  BY DEF Inv, TypeOK
<1> SUFFICES ASSUME At' >= 1, NEW d \in (pos' + 1)..Len(data),
                    Complete(data[d].of.set)', data[d].of.set # Now'
             PROVE  data[d].of.type = "marker" /\ d = pos' + 1
  BY DEF LeftOver
<1>2. At >= 1 /\ Complete(data[d].of.set) /\ data[d].of.set # Now
  BY Same
<1>3. d \in (pos + 1)..Len(data)
  <2> PICK p \in Nat, q \in Nat, n \in Nat : p = pos /\ q = pos' /\ n = Len(data)
    BY <1>1
  <2>1. p <= q /\ d \in (q + 1)..n
    OBVIOUS
  <2>2. d \in (p + 1)..n
    BY ONLY <2>1
  <2> QED
    BY <2>2
<1>4. data[d].of.type = "marker" /\ d = pos + 1
  BY <1>2, <1>3 DEF LeftOver
<1>5. d = pos' + 1
  <2> PICK p \in Nat, q \in Nat, n \in Nat : p = pos /\ q = pos' /\ n = Len(data)
    BY <1>1
  <2>1. d \in (q + 1)..n
    OBVIOUS
  <2>2. d = p + 1 /\ p <= q
    BY <1>4
  <2>3. p = q
    BY ONLY <2>1, <2>2, p \in Nat, q \in Nat, n \in Nat
  <2> QED
    BY <2>2, <2>3
<1> QED
  BY <1>4, <1>5

\* What was passed stays passed.
LEMMA PassedKept ==
  ASSUME Inv, pos' \in Nat, pos <= pos',
         UNCHANGED <<broadcast, packet, have, data, harmed>>,
         NEW k, Passed(k)
  PROVE  Passed(k)'
<1>1. pos \in Nat
  BY DEF Inv, TypeOK
<1>2. Over => Over'
  <2> SUFFICES ASSUME NEW d \in 1..pos, data[d].of.type = "end"
               PROVE  Over'
    BY DEF Over
  <2>1. d \in 1..pos'
    BY <1>1
  <2> QED
    BY <2>1 DEF Over
<1> QED
  BY <1>2, Same DEF Passed

\* Nothing is written, and the end of no set in order is passed.
LEMMA WrittenKept ==
  ASSUME Inv, InTurn, Delivered, pos' \in Nat, pos <= pos',
         UNCHANGED <<broadcast, packet, have, data, harmed, emitted, subsstarted>>,
         Complete(Now) => (Over' => Over)
  PROVE  InTurn' /\ Delivered'
<1>1. InTurn'
  <2> SUFFICES ASSUME NEW i \in DOMAIN emitted, NEW k, k = Last(emitted[i].cells).of.set,
                      Clean(k)'
               PROVE  /\ Passed(k)'
                      /\ \A j \in DOMAIN emitted : Last(emitted[j].cells).of.set = k => i = j
    BY DEF InTurn
  <2>1. Clean(k)
    BY Same
  <2>2. /\ Passed(k)
        /\ \A j \in DOMAIN emitted : Last(emitted[j].cells).of.set = k => i = j
    BY <2>1 DEF InTurn
  <2> QED
    BY <2>2, PassedKept
<1>2. \A k : Clean(k) /\ Passed(k)' => Passed(k)
  <2> TAKE k
  <2>1. At' = At /\ Now' = Now
    BY Same
  <2>2. Clean(k) => Complete(k)
    BY DEF Clean
  <2> QED
    BY <2>1, <2>2 DEF Passed
<1>3. \A k : Shows(k) => Clean(k)
  BY DEF Shows
<1>4. \A k \in Sets' : Shows(k)' /\ Passed(k)' => subsstarted'
  BY <1>2, <1>3, Same DEF Delivered
<1>5. ASSUME NEW k \in Sets', Clean(k)', Passed(k)', NEW j \in Sets', j <= k, Shows(j)'
      PROVE  \E i \in DOMAIN emitted' : emitted'[i] = Sent(k)'
  <2>1. k \in Sets /\ j \in Sets /\ Clean(k) /\ Shows(j) /\ Sent(k)' = Sent(k)
    BY <1>5, Same
  <2>2. \E i \in DOMAIN emitted : emitted[i] = Sent(k)
    BY <1>2, <1>5, <2>1 DEF Delivered
  <2> QED
    BY <2>1, <2>2
<1>6. Delivered'
  BY <1>4, <1>5 DEF Delivered
<1> QED
  BY <1>1, <1>6

\* In the loop, the call has not failed and there was a piece.
LEMMA InLoop ==
  ASSUME Inv, Delivering, looping
  PROVE  /\ At >= 1 /\ pos \in Nat /\ Len(data) \in Nat /\ pos <= Len(data)
         /\ Gathered /\ Queued /\ LeftOver /\ InTurn /\ Delivered
<1>1. ~failed /\ pos \in Nat /\ Len(data) \in Nat /\ pos <= Len(data)
  BY DEF Inv, TypeOK, Ended
<1>2. Fresh /\ Gathered /\ Queued /\ LeftOver /\ InTurn /\ Delivered
  BY <1>1 DEF Delivering
<1>3. At # 0 /\ At \in Nat
  BY <1>2, AtTypes DEF Fresh
<1> QED
  BY <1>1, <1>2, <1>3

\* If the loop ends for lack of bytes, no segment has come whole.
LEMMA NoSegmentDelivering == ASSUME Inv, Delivering, NoSegment PROVE Delivering'
<1>1. /\ UNCHANGED <<broadcast, packet, have, data, pos, harmed, headerstore, fifo, size,
                     emitted, subsstarted, failed>>
      /\ looping /\ ~looping'
      /\ Len(data) > pos + 5 => \E n \in Length : Len(data) < pos + n
  BY DEF NoSegment, assembler, store, history
<1>2. /\ At >= 1 /\ pos \in Nat /\ Len(data) \in Nat /\ pos <= Len(data)
      /\ Gathered /\ Queued /\ LeftOver /\ InTurn /\ Delivered
  BY <1>1, InLoop
<1>3. /\ At' = At /\ Now' = Now /\ Text' = Text /\ Come' = Come
      /\ \A k : /\ Complete(k)' <=> Complete(k)
                /\ Clean(k)' <=> Clean(k)
                /\ Opening(k)' = Opening(k)
  BY <1>1, Same
<1>4. Over' = Over
  BY <1>1 DEF Over
<1>5. Fresh'
  BY <1>2, <1>3 DEF Fresh
<1>6. Gathered'
  BY <1>1, <1>2, <1>3 DEF Gathered
<1>7. Queued'
  BY <1>1, <1>2, <1>3, <1>4 DEF Queued
<1>8. LeftOver' /\ InTurn' /\ Delivered'
  BY <1>1, <1>2, <1>4, LeftOverKept, WrittenKept
<1>9. CaughtUp'
  <2> PICK t : t = Text
    OBVIOUS
  <2>0. t \in Seq(Cell) /\ Len(t) \in Nat /\ DisplaySet(Now, t)
    BY <1>2, AtTypes
  <2> SUFFICES ASSUME Complete(Now), pos + 2 # Come, t[pos + 3].of.type # "marker"
               PROVE  Come < pos + 2 + t[pos + 3].of.size
    BY <1>1, <1>3 DEF CaughtUp
  <2>1. /\ Come \in 4..Len(t) /\ Len(data) = Come - 2
        /\ \A d \in 1..Len(data) : data[d] = t[d + 2]
        /\ pos + 2 < Len(t) => t[pos + 3].at = 0
    BY <1>2 DEF Gathered
  <2> PICK c \in Nat, p \in Nat, n \in Nat : c = Come /\ p = pos /\ n = Len(data)
    BY <1>2, <2>0, <2>1
  <2> PICK j \in Nat : j = p + 3
    OBVIOUS
  <2>2. n = c - 2 /\ p < n /\ j \in 3..Len(t) /\ p + 1 \in 1..n /\ p + 1 + 2 = j
    BY <1>2, <2>0, <2>1
  <2>3. t[j].at = 0 /\ data[p + 1] = t[j]
    BY <2>0, <2>1, <2>2
  <2>4. t[j].of.type \notin {"prefix", "substream"} /\ t[j].of.size >= 6 /\ t[j] \in Cell
    <3>1. \A i \in 3..Len(t) : /\ t[i].of.type \notin {"prefix", "substream"}
                               /\ t[i].of.type # "marker" => t[i].of.size >= 6
      BY <2>0 DEF DisplaySet
    <3>2. t[j].of.type # "marker" /\ t[j] \in Cell
      BY <2>0, <2>2
    <3> QED
      BY <2>2, <3>1, <3>2
  <2>5. Length = {t[j].of.size}
    BY <2>3, <2>4 DEF Length, IsSync
  <2> PICK s \in Nat : s = t[j].of.size
    BY <2>4 DEF Cell
  <2>6. n <= p + 5 \/ n < p + s
    BY <1>1, <2>5
  <2>7. c < p + 2 + s
    BY <2>2, <2>4, <2>6
  <2> QED
    BY <2>7
<1> QED
  BY <1>5, <1>6, <1>7, <1>8, <1>9 DEF Delivering

\* What is no segment was not of a set that is complete.
LEMMA NotASegmentDelivering == ASSUME Inv, Delivering, NotASegment PROVE Delivering'
<1>1. /\ UNCHANGED <<broadcast, packet, have, data, harmed, emitted, subsstarted>>
      /\ looping /\ Len(data) > pos + 5 /\ ~IsSync(data[pos + 1])
      /\ \E n \in Length : pos' = pos + n
  BY DEF NotASegment, store, history, Got
<1>2. /\ At >= 1 /\ pos \in Nat /\ Len(data) \in Nat /\ pos <= Len(data)
      /\ Gathered /\ LeftOver /\ InTurn /\ Delivered
  BY <1>1, InLoop
<1>3. /\ At' = At /\ Now' = Now
      /\ \A k : Complete(k)' <=> Complete(k)
  BY <1>1, Same
<1>4. ~Complete(Now)
  <2> SUFFICES ASSUME Complete(Now)
               PROVE  FALSE
    OBVIOUS
  <2> PICK j \in Nat : j = pos + 3
    BY <1>2
  <2> PICK s \in Nat : s = Found.size
    BY <1>1, FoundTypes DEF Inv, TypeOK
  <2>1. IsSync(data[pos + 1])
    BY <1>1, <1>2, SegmentFound
  <2> QED
    BY <1>1, <2>1
<1>5. pos' \in Nat /\ pos <= pos'
  <2>1. Length = Counts
    BY <1>1 DEF Length
  <2> PICK n \in Nat : pos' = pos + n
    BY <1>1, <2>1, SubtitleAssumption
  <2> QED
    BY <1>2
<1>6. Fresh' /\ Gathered' /\ CaughtUp' /\ Queued'
  BY <1>2, <1>3, <1>4 DEF Fresh, Gathered, CaughtUp, Queued
<1>7. LeftOver' /\ InTurn' /\ Delivered'
  BY <1>1, <1>2, <1>4, <1>5, LeftOverKept, WrittenKept
<1> QED
  BY <1>6, <1>7 DEF Delivering

\* Stuffing is not kept.
LEMMA StuffingDelivering == ASSUME Inv, Delivering, Stuffing PROVE Delivering'
<1>1. /\ UNCHANGED <<broadcast, packet, have, data, harmed, headerstore, fifo, size,
                     emitted, subsstarted, looping>>
      /\ looping /\ Len(data) > pos + 5
      /\ Found.type = "stuffing" /\ pos' = pos + Found.size /\ Len(data) >= pos + Found.size
  BY DEF Stuffing, store, history, Got
<1>2. /\ At >= 1 /\ pos \in Nat /\ Len(data) \in Nat /\ pos <= Len(data)
      /\ Gathered /\ Queued /\ LeftOver /\ InTurn /\ Delivered
  BY <1>1, InLoop
<1>3. /\ At' = At /\ Now' = Now /\ Text' = Text
      /\ \A k : /\ Complete(k)' <=> Complete(k)
                /\ Clean(k)' <=> Clean(k)
  BY <1>1, Same
<1> PICK s \in Nat : s = Found.size
  BY <1>1, FoundTypes DEF Inv, TypeOK
<1>4. pos' \in Nat /\ pos <= pos'
  BY <1>1, <1>2
<1>5. ASSUME Complete(Now)
      PROVE  Gathered' /\ (Over' <=> Over) /\ Kept(Text)[pos' + 2] = Kept(Text)[pos + 2]
  <2> PICK t : t = Text
    OBVIOUS
  <2>0. t \in Seq(Cell) /\ Len(t) \in Nat
    BY <1>2, AtTypes
  <2> PICK j \in Nat : j = pos + 3
    BY <1>2
  <2>1. /\ j + s <= Len(t) + 1 /\ ~Over
        /\ \A i \in 0..(s - 1) : t[j + i].of = Found
    BY <1>1, <1>2, <1>5, SegmentFound
  <2>2. Gathered' /\ ~Over'
    BY <1>1, <1>2, <1>5, Advance
  <2> PICK n \in Nat : n = pos + 2
    BY <1>2
  <2>3. n + s <= Len(t) /\ n + s = pos' + 2
    BY <1>1, <1>2, <2>0, <2>1, SMTT(30)
  <2>4. \A i \in 1..s : t[n + i].of.type \in Fillers
    <3> TAKE i \in 1..s
    <3> PICK h \in 0..(s - 1) : h = i - 1
      OBVIOUS
    <3>1. n + i = j + h
      BY <1>2
    <3>2. t[j + h].of = Found
      BY <2>1
    <3> QED
      BY <1>1, <3>1, <3>2 DEF Fillers
  <2>5. Kept(t)[n + s] = Kept(t)[n]
    <3>1. t \in Seq(Cell) /\ n \in Nat /\ s \in Nat /\ n + s <= Len(t)
      BY <2>0, <2>3
    <3> QED
      BY ONLY <2>4, <3>1, KeptMore, ZenonT(30)
  <2> QED
    BY <2>1, <2>2, <2>3, <2>5
<1>6. Fresh'
  BY <1>2, <1>3 DEF Fresh
<1>7. Gathered' /\ CaughtUp'
  BY <1>1, <1>2, <1>3, <1>5 DEF Gathered, CaughtUp
<1>8. Queued'
  BY <1>1, <1>2, <1>3, <1>5 DEF Queued
<1>9. LeftOver' /\ InTurn' /\ Delivered'
  BY <1>1, <1>2, <1>4, <1>5, LeftOverKept, WrittenKept
<1> QED
  BY <1>6, <1>7, <1>8, <1>9 DEF Delivering

\* The segment at the position has s bytes.
Sized(s) == s = Found.size

\* What fits into a packet with its header fits into it without.
LEMMA WithOverhead == \A x, o, c \in Nat : o + x + 1 <= c => x <= c
OBVIOUS

\* What is written to the fifo: the segments up to the next one, all of them.
LEMMA AllWritten ==
  ASSUME Inv, At >= 1, Clean(Now), Gathered, Queued, Len(data) > pos + 5,
         Found.type # "stuffing", NEW s \in Nat, Sized(s), Len(data) >= pos + s
  PROVE  /\ pos + 2 + s <= Len(Text) /\ Room(s) = s /\ size = Len(fifo)
         /\ Written(s) = Kept(Text)[pos + 2 + s]
<1> PICK t : t = Text
  OBVIOUS
<1>0. pos \in Nat /\ Len(data) \in Nat /\ pos <= Len(data) /\ Len(t) \in Nat
  BY AtTypes DEF Inv, TypeOK
<1>t. t \in Seq(Cell) /\ Opening(Now).text = t
  BY AtTypes
<1>c. Complete(Now)
  BY DEF Clean
<1>f. fifo \in Seq(Cell) /\ Len(fifo) <= Capacity /\ Len(fifo) \in Nat /\ Capacity \in Nat
  BY SubtitleAssumption DEF Inv, TypeOK
<1> PICK p \in Nat, l \in Nat, m \in Nat : p = pos /\ l = Len(t) /\ m = Len(data)
  BY <1>0
<1> PICK n \in Nat, j \in Nat : n = p + 2 /\ j = p + 3
  OBVIOUS
<1> PICK q \in Nat : q = n + s
  OBVIOUS
<1>1. /\ IsSync(data[pos + 1]) /\ j + s <= l + 1 /\ ~Over
      /\ \A i \in 0..(s - 1) : t[j + i].of = Found
  <2>1. /\ IsSync(data[pos + 1]) /\ j + s <= Len(Text) + 1 /\ ~Over
        /\ \A i \in 0..(s - 1) : Text[j + i].of = Found
    BY <1>c, SegmentFound, ZenonT(30) DEF Sized
  <2> QED
    BY <2>1
<1>2. q <= Len(t) /\ q = p + s + 2 /\ \A d \in 1..m : data[d] = t[d + 2]
  <2>1. q <= l /\ q = p + s + 2
    <3>1. j + s <= l + 1
      BY <1>1
    <3>2. q = n + s /\ n = p + 2 /\ j = p + 3
      OBVIOUS
    <3> QED
      BY ONLY <3>1, <3>2, q \in Nat, n \in Nat, j \in Nat, p \in Nat, l \in Nat, s \in Nat
  <2> QED
    BY <2>1, <1>c DEF Gathered
<1>3. \A i \in 1..s : t[n + i].of.type \notin Fillers
  <2>1. Found.type \notin Fillers
    BY <1>1 DEF IsSync, Found, Fillers
  <2> TAKE i \in 1..s
  <2> PICK h \in 0..(s - 1) : h = i - 1
    OBVIOUS
  <2>2. n + i = j + h
    BY <1>0
  <2>3. t[j + h].of = Found
    BY <1>1
  <2> QED
    BY <2>1, <2>2, <2>3
<1> PICK a, b, w : a = Kept(t)[n] /\ b = Kept(t)[q] /\ w = Kept(t)[Len(t)]
  OBVIOUS
<1>4. a \in Seq(Cell) /\ b \in Seq(Cell) /\ w \in Seq(Cell)
  <2>1. n \in 0..Len(t) /\ q \in 0..Len(t) /\ Len(t) \in 0..Len(t)
    <3>1. n <= l /\ q <= l
      BY <1>2
    <3> QED
      BY <3>1
  <2>2. KeptBytes(t, n) /\ KeptBytes(t, q) /\ KeptBytes(t, Len(t))
    BY <1>t, <2>1, KeptTypes
  <2> QED
    BY <2>2 DEF KeptBytes
<1>5. /\ Len(b) = Len(a) + s
      /\ \A i \in 1..Len(a) : b[i] = a[i]
      /\ \A i \in 1..s : b[Len(a) + i] = t[n + i]
  <2>1. t \in Seq(Cell) /\ n \in Nat /\ s \in Nat /\ n + s <= Len(t)
    BY <1>2, <1>t
  <2>2. /\ Len(Kept(t)[n + s]) = Len(Kept(t)[n]) + s
        /\ \A i \in 1..Len(Kept(t)[n]) : Kept(t)[n + s][i] = Kept(t)[n][i]
        /\ \A i \in 1..s : Kept(t)[n + s][Len(Kept(t)[n]) + i] = t[n + i]
    BY ONLY <1>3, <2>1, KeptSegment, ZenonT(30)
  <2> QED
    BY <2>2
<1>6. Len(b) <= Len(w) /\ Len(w) <= Capacity
  <2> PICK r \in Nat : r = Len(t) - q
    BY <1>0, <1>2, SMTT(30)
  <2>1. t \in Seq(Cell) /\ q \in Nat /\ r \in Nat /\ q + r <= Len(t) /\ q + r = Len(t)
    BY <1>0, <1>t
  <2>2. Len(Kept(t)[q]) <= Len(Kept(t)[q + r])
    BY ONLY <2>1, KeptMore, Zenon
  <2>3. w = Whole(Now)
    BY <1>t DEF Whole
  <2>4. w \in Seq(Cell)
    BY <1>4
  <2>5. Len(w) \in Nat /\ Overhead + Len(w) + 1 <= Capacity
    BY <1>c, <2>3, <2>4 DEF Complete, Length16
  <2>6. Len(w) <= Capacity
    <3>1. Overhead \in Nat /\ Capacity \in Nat
      BY SubtitleAssumption
    <3> QED
      BY ONLY <2>5, <3>1, WithOverhead, Zenon
  <2> QED
    BY <2>1, <2>2, <2>3, <2>6
<1>7. fifo = a /\ size = Len(fifo)
  BY <1>1, <1>c DEF Queued
<1>8. Room(s) = s
  <2>1. Room(s) = IF s <= Capacity - Len(fifo) THEN s ELSE Capacity - Len(fifo)
    BY <1>f, RoomIs
  <2> PICK x \in Nat, y \in Nat, z \in Nat : x = Len(a) /\ y = Len(b) /\ z = Len(w)
    BY <1>4
  <2>2. y = x + s /\ y <= z /\ z <= Capacity /\ x = Len(fifo) /\ Capacity \in Nat
    BY <1>5, <1>6, <1>7, <1>f
  <2>3. s <= Capacity - x
    BY ONLY s \in Nat, x \in Nat, y \in Nat, z \in Nat, <2>2
  <2> QED
    BY <2>1, <2>2, <2>3
<1>9. Written(s) = b
  <2> PICK e \in Nat : e = p + s
    OBVIOUS
  <2> PICK c : c = SubSeq(data, p + 1, e)
    OBVIOUS
  <2>1. c \in Seq(Cell) /\ Len(c) = s /\ \A i \in 1..s : c[i] = data[p + i]
    <3>1. p <= e /\ e <= Len(data) /\ e - p = s
      OBVIOUS
    <3>2. data \in Seq(Cell)
      BY DEF Inv, TypeOK
    <3>3. /\ SubSeq(data, p + 1, e) \in Seq(Cell) /\ Len(SubSeq(data, p + 1, e)) = e - p
          /\ \A i \in 1..(e - p) : SubSeq(data, p + 1, e)[i] = data[p + i]
      BY ONLY p \in Nat, e \in Nat, <3>1, <3>2, Part
    <3> QED
      BY <3>1, <3>3
  <2>2. \A i \in 1..s : c[i] = t[n + i]
    <3> TAKE i \in 1..s
    <3>0. p + s <= m
      OBVIOUS
    <3> PICK d \in 1..m : d = p + i
      BY <3>0
    <3>1. data[d] = t[d + 2] /\ d + 2 = n + i
      BY <1>2
    <3> QED
      BY <2>1, <3>1
  <2> PICK f : f = a \o c
    OBVIOUS
  <2>3. /\ f \in Seq(Cell) /\ Len(f) = Len(a) + Len(c)
        /\ \A i \in 1..Len(a) : f[i] = a[i]
        /\ \A i \in 1..Len(c) : f[Len(a) + i] = c[i]
    <3>1. /\ a \o c \in Seq(Cell) /\ Len(a \o c) = Len(a) + Len(c)
          /\ \A i \in 1..Len(a) : (a \o c)[i] = a[i]
          /\ \A i \in 1..Len(c) : (a \o c)[Len(a) + i] = c[i]
      BY ONLY <1>4, <2>1, Joined, Zenon
    <3> QED
      BY <3>1, ZenonT(30)
  <2> PICK x \in Nat, y \in Nat : x = Len(a) /\ y = Len(b)
    BY <1>4
  <2>x. y = x + s /\ Len(c) = s
    BY <1>5, <2>1
  <2>4. \A i \in 1..y : f[i] = b[i]
    <3> TAKE i \in 1..y
    <3>1. CASE i <= x
      <4>1. i \in 1..Len(a)
        BY <3>1
      <4>2. f[i] = a[i]
        BY <2>3, <4>1
      <4>3. b[i] = a[i]
        BY <1>5, <4>1
      <4> QED
        BY <4>2, <4>3
    <3>2. CASE ~(i <= x)
      <4>0. i - x \in 1..s
        BY <2>x, <3>2
      <4> PICK h \in 1..s : h = i - x
        BY <4>0
      <4>1. i = Len(a) + h /\ h \in 1..Len(c)
        BY <2>x
      <4>2. f[Len(a) + h] = c[h]
        BY <2>3, <4>1
      <4>3. b[Len(a) + h] = t[n + h]
        BY <1>5
      <4> QED
        BY <2>2, <4>1, <4>2, <4>3, ZenonT(30)
    <3> QED
      BY <3>1, <3>2
  <2>5. f = b
    <3>1. b \in Seq(Cell) /\ f \in Seq(Cell) /\ Len(f) = Len(b)
      BY <1>4, <2>3, <2>x, ZenonT(30)
    <3>2. \A i \in 1..Len(f) : f[i] = b[i]
      BY <2>4, <3>1
    <3> QED
      BY ONLY <3>1, <3>2, SeqEqual
  <2>6. Written(s) = f
    BY <1>7, <1>8 DEF Written
  <2> QED
    BY <2>5, <2>6
<1> QED
  BY <1>0, <1>2, <1>7, <1>8, <1>9

\* A segment that is not the last goes to the fifo.
LEMMA SegmentDelivering == ASSUME Inv, Delivering, Segment PROVE Delivering'
<1>1. /\ UNCHANGED <<broadcast, packet, have, data, harmed, headerstore, emitted, subsstarted,
                     looping>>
      /\ looping /\ Len(data) > pos + 5
      /\ Found.type \notin {"stuffing", "end"}
      /\ pos' = pos + Found.size /\ Len(data) >= pos + Found.size
      /\ fifo' = Written(Found.size) /\ size' = size + Found.size
  BY DEF Segment, history, Got
<1>2. /\ At >= 1 /\ pos \in Nat /\ Len(data) \in Nat /\ pos <= Len(data)
      /\ Gathered /\ Queued /\ LeftOver /\ InTurn /\ Delivered
  BY <1>1, InLoop
<1>3. /\ At' = At /\ Now' = Now /\ Text' = Text
      /\ \A k : /\ Complete(k)' <=> Complete(k)
                /\ Clean(k)' <=> Clean(k)
  BY <1>1, Same
<1> PICK s \in Nat : s = Found.size
  BY <1>1, FoundTypes DEF Inv, TypeOK
<1>4. pos' \in Nat /\ pos <= pos'
  BY <1>1, <1>2
<1>5. ASSUME Complete(Now)
      PROVE  Gathered' /\ ~Over /\ ~Over'
  <2> PICK j \in Nat : j = pos + 3
    BY <1>2
  <2>1. ~Over
    BY <1>1, <1>2, <1>5, SegmentFound
  <2>2. Gathered' /\ (Over' <=> Found.type = "end")
    BY <1>1, <1>2, <1>5, Advance
  <2> QED
    BY <1>1, <2>1, <2>2
<1>6. ASSUME Clean(Now)
      PROVE  fifo' = Kept(Text)[pos' + 2] /\ size' = Len(fifo')
  <2>1. /\ Room(s) = s /\ size = Len(fifo)
        /\ Written(s) = Kept(Text)[pos + 2 + s]
    BY <1>1, <1>2, <1>6, AllWritten DEF Sized
  <2>2. Len(Written(s)) = Len(fifo) + Room(s)
    BY <1>1, <1>2, WrittenIs DEF Inv, TypeOK
  <2>3. pos' + 2 = pos + 2 + s
    BY <1>1, <1>2, SMTT(30)
  <2> QED
    BY <1>1, <2>1, <2>2, <2>3
<1>7. Fresh'
  BY <1>2, <1>3 DEF Fresh
<1>8. Gathered' /\ CaughtUp'
  BY <1>1, <1>2, <1>3, <1>5 DEF Gathered, CaughtUp
<1>9. Queued'
  BY <1>3, <1>5, <1>6 DEF Queued
<1>10. LeftOver' /\ InTurn' /\ Delivered'
  BY <1>1, <1>2, <1>4, <1>5, LeftOverKept, WrittenKept
<1> QED
  BY <1>7, <1>8, <1>9, <1>10 DEF Delivering

\* What is written ends with a byte of the set that ends, if it is one in order.
LEMMA LastWritten ==
  ASSUME Inv, Delivering, End, Clean(Last(Outbuf).of.set)
  PROVE  Last(Outbuf).of.set = Now
<1> PICK k : k = Last(Outbuf).of.set
  OBVIOUS
<1> SUFFICES ASSUME k # Now
             PROVE  FALSE
  OBVIOUS
<1>1. looping /\ Len(data) > pos + 5 /\ IsSync(data[pos + 1])
  BY DEF End
<1>2. At >= 1 /\ LeftOver /\ pos \in Nat /\ Len(data) \in Nat /\ pos <= Len(data)
  BY <1>1, InLoop
<1>3. Complete(k)
  BY DEF Clean
<1>4. k # 0
  <2>1. k \in Sets
    BY <1>3 DEF Complete
  <2> QED
    BY <2>1, SetTypes
<1> PICK s \in Nat : Sized(s)
  BY EndIs DEF Sized
<1>5. /\ Queue \in Seq(Cell) /\ Len(Queue) = Len(fifo) + Room(s) /\ Room(s) \in 0..s
      /\ Outbuf \in Seq(Cell) /\ Len(Outbuf) = size + s /\ Len(Queue) <= Len(Outbuf)
      /\ \A i \in 1..Len(Outbuf) : Outbuf[i] = IF i <= Len(Queue) THEN Queue[i] ELSE Junk
      /\ Len(data) >= pos + s
  BY EndIs DEF Sized
<1>6. s >= 1
  <2>1. data[pos + 1] \in Cell
    BY <1>1, <1>2 DEF Inv, TypeOK
  <2>2. Found.size \in Nat \ {0}
    BY <2>1 DEF Cell, Found
  <2> QED
    BY <2>2 DEF Sized
<1>7. fifo \in Seq(Cell) /\ Len(fifo) \in Nat /\ size \in Nat /\ Len(fifo) <= size
  BY <1>1 DEF Inv, TypeOK, Covered, Ended
<1> PICK z \in Nat, f \in Nat, r \in Nat : z = Len(Outbuf) /\ f = Len(fifo) /\ r = Room(s)
  BY <1>5, <1>7, SMTT(30)
<1>8. z \in 1..Len(Outbuf) /\ k = Outbuf[z].of.set
  <2>1. z \in 1..z
    BY <1>5, <1>6, <1>7
  <2> QED
    BY <2>1 DEF Last
<1>9. z <= Len(Queue)
  <2> SUFFICES ASSUME ~(z <= Len(Queue))
               PROVE  FALSE
    OBVIOUS
  <2>1. Outbuf[z] = Junk
    BY <1>5, <1>8
  <2> QED
    BY <1>4, <1>8, <2>1 DEF Junk
<1>10. r = s /\ z = f + s
  BY <1>5, <1>7, <1>9, SMTT(30)
<1> PICK d \in Nat : d = pos + s
  BY <1>2
<1>11. Outbuf[z] = data[d]
  <2> PICK c : c = SubSeq(data, pos + 1, pos + Room(s))
    OBVIOUS
  <2>1. c \in Seq(Cell) /\ Len(c) = s /\ \A i \in 1..s : c[i] = data[pos + i]
    <3> PICK p \in Nat : p = pos
      BY <1>2
    <3>1. p <= d /\ d <= Len(data) /\ d - p = s
      BY <1>5
    <3>2. data \in Seq(Cell)
      BY DEF Inv, TypeOK
    <3>3. /\ SubSeq(data, p + 1, d) \in Seq(Cell) /\ Len(SubSeq(data, p + 1, d)) = d - p
          /\ \A i \in 1..(d - p) : SubSeq(data, p + 1, d)[i] = data[p + i]
      BY ONLY p \in Nat, d \in Nat, <3>1, <3>2, Part
    <3>4. c = SubSeq(data, p + 1, d)
      BY <1>10
    <3> QED
      BY <3>1, <3>3, <3>4
  <2>2. Queue = fifo \o c
    BY DEF Queue, Written, Sized
  <2>3. (fifo \o c)[Len(fifo) + s] = c[s]
    <3>1. \A i \in 1..Len(c) : (fifo \o c)[Len(fifo) + i] = c[i]
      BY ONLY <1>7, <2>1, Joined, Zenon
    <3>2. s \in 1..Len(c)
      BY <1>6, <2>1
    <3> QED
      BY <3>1, <3>2
  <2>4. Outbuf[z] = Queue[z] /\ z = Len(fifo) + s
    BY <1>5, <1>8, <1>9, <1>10
  <2>5. s \in 1..s
    BY <1>6
  <2>6. c[s] = data[d]
    BY <2>1, <2>5
  <2> QED
    BY <2>2, <2>3, <2>4, <2>6
<1>12. d \in (pos + 1)..Len(data)
  BY <1>2, <1>5, <1>6
<1>13. data[d].of.type = "marker" /\ d = pos + 1
  BY <1>2, <1>3, <1>8, <1>11, <1>12 DEF LeftOver
<1> QED
  BY <1>1, <1>13 DEF IsSync

\* A set in order is written when it ends: all of it and nothing else.
LEMMA EndSends ==
  ASSUME Inv, Delivering, End, Clean(Now)
  PROVE  Pes(Outbuf) = Sent(Now)
<1>1. looping /\ Len(data) > pos + 5 /\ Found.type = "end"
  BY DEF End
<1>2. /\ At >= 1 /\ Gathered /\ Queued /\ Complete(Now)
      /\ pos \in Nat /\ Len(data) \in Nat /\ pos <= Len(data)
  BY <1>1, InLoop DEF Clean
<1> PICK t : t = Text
  OBVIOUS
<1>3. t \in Seq(Cell) /\ Len(t) \in Nat /\ Opening(Now).text = t /\ DisplaySet(Now, t)
  BY <1>2, AtTypes
<1> PICK s \in Nat : Sized(s)
  BY EndIs DEF Sized
<1>4. /\ Queue = Written(s) /\ Queue \in Seq(Cell) /\ Len(Queue) = Len(fifo) + Room(s)
      /\ Outbuf \in Seq(Cell) /\ Len(Outbuf) = size + s /\ Len(data) >= pos + s
      /\ \A i \in 1..Len(Outbuf) : Outbuf[i] = IF i <= Len(Queue) THEN Queue[i] ELSE Junk
  BY EndIs DEF Sized, Queue
<1>5. /\ pos + 2 + s <= Len(t) /\ Room(s) = s /\ size = Len(fifo)
      /\ Written(s) = Kept(t)[pos + 2 + s]
  BY <1>1, <1>2, <1>4, AllWritten
<1>6. Outbuf = Queue
  <2>1. Len(Outbuf) = Len(Queue) /\ Len(Queue) \in Nat
    BY <1>4, <1>5
  <2>2. \A i \in 1..Len(Outbuf) : Outbuf[i] = Queue[i]
    BY <1>4, <2>1
  <2> QED
    BY ONLY <1>4, <2>1, <2>2, SeqEqual
<1> PICK p \in Nat, l \in Nat : p = pos /\ l = Len(t)
  BY <1>2, <1>3
<1> PICK j \in Nat, q \in Nat : j = p + 3 /\ q = p + 2 + s
  OBVIOUS
<1>7. /\ j \in 3..Len(t) /\ s >= 6 /\ \A i \in 0..(s - 1) : t[j + i].of = Found
      /\ j + s <= Len(t) => t[j + s].at = 0
  <2>1. /\ j \in 3..Len(Text) /\ s >= 6 /\ \A i \in 0..(s - 1) : Text[j + i].of = Found
        /\ j + s <= Len(Text) => Text[j + s].at = 0
    BY <1>1, <1>2, SegmentFound, ZenonT(30) DEF Sized
  <2> QED
    BY <2>1
<1>8. Kept(t)[q] = Kept(t)[l]
  <2>1. CASE q = l
    BY <2>1
  <2>2. CASE q # l
    <3> PICK m \in Nat : m = q + 1
      OBVIOUS
    <3>1. m <= l /\ m = j + s /\ m \in (j + 1)..Len(t) /\ 0 \in 0..(s - 1) /\ j + 0 = j
      BY <1>5, <1>7, <2>2
    <3>2. t[m].at = 0 /\ t[j].of.type = "end"
      BY <1>1, <1>7, <3>1
    <3>3. t[m].of.type = "marker"
      BY <1>3, <1>7, <3>1, <3>2 DEF DisplaySet
    <3>4. m = l
      <4>1. \A i \in 3..Len(t) : t[i].of.type = "marker" => i = Len(t)
        BY <1>3 DEF DisplaySet
      <4>2. m \in 3..Len(t)
        BY <1>7, <3>1
      <4> QED
        BY <3>3, <4>1, <4>2
    <3> PICK o \in Nat : o = 1
      OBVIOUS
    <3>5. t \in Seq(Cell) /\ q + o <= Len(t)
      BY <1>3, <3>1, <3>4
    <3>6. \A i \in 1..o : t[q + i].of.type \in Fillers
      BY <3>3 DEF Fillers
    <3>7. Kept(t)[q + o] = Kept(t)[q]
      BY ONLY o \in Nat, q \in Nat, <3>5, <3>6, KeptFillers, Zenon
    <3> QED
      BY <3>4, <3>7
  <2> QED
    BY <2>1, <2>2
<1>9. Outbuf = Whole(Now)
  BY <1>3, <1>4, <1>5, <1>6, <1>8 DEF Whole
<1>10. headerstore = Opening(Now).pts
  BY <1>2 DEF Gathered
<1>11. headerstore \in Nat /\ Length16(Now) <= Capacity
  BY <1>2 DEF Inv, TypeOK, Complete
<1>12. Overhead + Len(Outbuf) + 1 = Length16(Now)
  BY <1>9 DEF Length16
<1>13. Pes(Outbuf) = [pts |-> headerstore, length |-> Length16(Now), cells |-> Outbuf]
  BY <1>4, <1>11, <1>12, PesTypes
<1> QED
  BY <1>9, <1>10, <1>13 DEF Sent
\* The last segment of a set.
LEMMA EndDelivering ==
  ASSUME Inv, Delivering, SetsWhole, End
  PROVE  Delivering' /\ SetsWhole'
<1>1. looping /\ Len(data) > pos + 5 /\ Found.type = "end"
  BY DEF End
<1>2. /\ At >= 1 /\ pos \in Nat /\ Len(data) \in Nat /\ pos <= Len(data)
      /\ Gathered /\ Queued /\ LeftOver /\ InTurn /\ Delivered
  BY <1>1, InLoop
<1>3. /\ UNCHANGED <<broadcast, packet, have, data, headerstore, harmed>>
      /\ fifo' = <<>> /\ pos' = pos + Found.size /\ Len(data) >= pos + Found.size
  BY EndIs
<1>4. /\ At' = At /\ Now' = Now /\ Text' = Text /\ Sets' = Sets
      /\ \A k : /\ Complete(k)' <=> Complete(k)
                /\ Clean(k)' <=> Clean(k)
                /\ Sent(k)' = Sent(k) /\ (Shows(k)' <=> Shows(k))
  BY <1>3, Same
<1>5. CASE failed' = TRUE /\ emitted' = emitted
  <2>1. SetsWhole'
    BY <1>4, <1>5 DEF SetsWhole
  <2> QED
    BY <1>5, <2>1 DEF Delivering
<1>6. CASE /\ size' = 0 /\ UNCHANGED <<chunk, looping, failed>>
           /\ emitted' = IF subsstarted' THEN Append(emitted, Pes(Outbuf)) ELSE emitted
  <2> PICK s \in Nat : s = Found.size
    BY EndIs
  <2>1. pos' \in Nat /\ pos <= pos'
    BY <1>2, <1>3
  <2> PICK new : new = Pes(Outbuf)
    OBVIOUS
  <2>2. Clean(Last(new.cells).of.set) => Last(new.cells).of.set = Now
    <3>1. new.cells = Outbuf
      BY DEF Pes
    <3> QED
      BY <3>1, LastWritten
  <2>3. Clean(Now) => new = Sent(Now)
    BY EndSends
  <2>4. ASSUME Complete(Now)
        PROVE  Gathered' /\ ~Over /\ Over'
    <3> PICK j \in Nat : j = pos + 3
      BY <1>2
    <3>1. ~Over
      BY <1>1, <1>2, <2>4, SegmentFound
    <3>2. Gathered' /\ (Over' <=> Found.type = "end")
      BY <1>1, <1>2, <1>3, <2>4, Advance
    <3> QED
      BY <1>1, <3>1, <3>2
  <2>5. Fresh' /\ Gathered' /\ CaughtUp'
    BY <1>1, <1>2, <1>4, <1>6, <2>4 DEF Fresh, Gathered, CaughtUp
  <2>6. Queued'
    BY <1>3, <1>4, <1>6, <2>4 DEF Queued
  <2>7. LeftOver'
    BY <1>2, <1>3, <2>1, LeftOverKept
  <2>8. \A k : Passed(k) => Passed(k)'
    BY <1>3, <2>1, PassedKept
  <2>9. ASSUME NEW k, Clean(k), Passed(k)'
        PROVE  Passed(k) \/ k = Now
    BY <1>4, <2>9 DEF Passed
  <2>10. Clean(Now) => ~Passed(Now)
    <3>1. Now \in Nat
      BY <1>2, AtTypes
    <3> QED
      BY <2>4, <3>1 DEF Passed, Clean
  <2>11. Clean(Now) => Passed(Now)'
    BY <1>2, <1>4, <2>4 DEF Passed, Clean
  \* What is in emitted after it.
  <2> DEFINE Old(i) == i \in DOMAIN emitted /\ i \in DOMAIN emitted' /\ emitted'[i] = emitted[i]
             New(i) == i \notin DOMAIN emitted /\ i \in DOMAIN emitted' /\ emitted'[i] = new
  <2>12. /\ \A i \in DOMAIN emitted : Old(i)
         /\ \A i \in DOMAIN emitted' : Old(i) \/ New(i)
         /\ \A i, j \in DOMAIN emitted' : New(i) /\ New(j) => i = j
         /\ subsstarted' => \E i \in DOMAIN emitted' : New(i)
    <3> PICK S : S = [pts : Nat, length : Nat, cells : Seq(Cell)]
      OBVIOUS
    <3>1. emitted \in Seq(S) /\ new \in S
      <4>1. Outbuf \in Seq(Cell) /\ headerstore \in Nat
        BY EndIs DEF Inv, TypeOK
      <4> QED
        BY <4>1, PesTypes DEF Inv, TypeOK
    <3>2. CASE subsstarted'
      <4> PICK n \in Nat : n = Len(emitted)
        BY <3>1
      <4>1. /\ emitted' \in Seq(S) /\ Len(emitted') = n + 1
            /\ \A i \in 1..n : emitted'[i] = emitted[i]
            /\ emitted'[n + 1] = new
        BY <1>6, <3>1, <3>2, AppendProperties
      <4>2. DOMAIN emitted = 1..n /\ DOMAIN emitted' = 1..(n + 1)
        BY <3>1, <4>1
      <4>3. n + 1 \in 1..(n + 1) /\ \A i \in 1..(n + 1) : i \in 1..n \/ i = n + 1
        OBVIOUS
      <4>4. \A i \in 1..n : i \in 1..(n + 1) /\ i # n + 1
        OBVIOUS
      <4> QED
        BY <4>1, <4>2, <4>3, <4>4
    <3>3. CASE ~subsstarted'
      BY <1>6, <3>3
    <3> QED
      BY <3>2, <3>3
  <2> HIDE DEF Old, New
  <2>13. \A i : /\ Old(i) => i \in DOMAIN emitted /\ emitted'[i] = emitted[i]
                /\ New(i) => i \in DOMAIN emitted' /\ emitted'[i] = new
    BY DEF Old, New
  <2>14. InTurn'
    <3> SUFFICES ASSUME NEW i \in DOMAIN emitted', NEW k, k = Last(emitted'[i].cells).of.set,
                        Clean(k)
                 PROVE  /\ Passed(k)'
                        /\ \A j \in DOMAIN emitted' :
                             Last(emitted'[j].cells).of.set = k => i = j
      BY <1>4 DEF InTurn
    <3>1. CASE Old(i)
      <4>1. /\ Passed(k)
            /\ \A j \in DOMAIN emitted : Last(emitted[j].cells).of.set = k => i = j
        BY <1>2, <2>13, <3>1 DEF InTurn
      <4>2. \A j \in DOMAIN emitted' : New(j) => Last(emitted'[j].cells).of.set # k
        BY <2>2, <2>10, <2>13, <4>1
      <4> QED
        BY <2>8, <2>12, <2>13, <4>1, <4>2
    <3>2. CASE New(i)
      <4>1. k = Now
        BY <2>2, <2>13, <3>2
      <4>2. \A j \in DOMAIN emitted' : Old(j) => Last(emitted'[j].cells).of.set # k
        BY <1>2, <2>10, <2>13, <4>1 DEF InTurn
      <4>3. Passed(k)'
        BY <1>4, <2>11, <4>1
      <4>4. \A j \in DOMAIN emitted' : Last(emitted'[j].cells).of.set = k => New(j)
        BY <2>12, <4>2
      <4>5. \A j \in DOMAIN emitted' : New(j) => i = j
        BY <2>12, <3>2
      <4> QED
        BY <4>3, <4>4, <4>5
    <3> QED
      BY <2>12, <3>1, <3>2
  <2>15. /\ subsstarted => subsstarted'
         /\ Probe(Outbuf) = {TRUE} => subsstarted'
    <3>1. \E score \in Probe(Outbuf) : subsstarted' = (subsstarted \/ score)
      BY EndIs
    <3>2. subsstarted \in BOOLEAN /\ \A score \in Probe(Outbuf) : score \in BOOLEAN
      BY DEF Inv, TypeOK, Probe
    <3>3. CASE subsstarted
      BY ONLY <3>1, <3>2, <3>3
    <3>4. CASE Probe(Outbuf) = {TRUE}
      BY ONLY <3>1, <3>2, <3>4
    <3> QED
      BY <3>3, <3>4
  <2>16. ASSUME NEW k, Shows(k), k \in Sets, Passed(k)'
         PROVE  subsstarted'
    <3>1. Clean(k)
      BY <2>16 DEF Shows
    <3>2. CASE Passed(k)
      BY <1>2, <2>15, <2>16, <3>2 DEF Delivered
    <3>3. CASE k = Now
      <4>1. Outbuf = Whole(k)
        BY <2>3, <3>1, <3>3 DEF Sent, Pes
      <4> QED
        BY <2>15, <2>16, <4>1 DEF Shows
    <3> QED
      BY <2>9, <2>16, <3>1, <3>2, <3>3
  <2>17. ASSUME NEW k \in Sets, Clean(k), Passed(k)', NEW m \in Sets, m <= k, Shows(m)
         PROVE  \E i \in DOMAIN emitted' : emitted'[i] = Sent(k)
    <3>1. CASE Passed(k)
      <4> PICK i \in DOMAIN emitted : emitted[i] = Sent(k)
        BY <1>2, <2>17, <3>1 DEF Delivered
      <4> QED
        BY <2>12 DEF Old
    <3>2. CASE k = Now
      <4>1. Passed(m)'
        <5>1. m = Now \/ m < Now
          <6>1. k \in Nat /\ m \in Nat
            BY SetTypes
          <6> QED
            BY <2>17, <3>2, <6>1
        <5>2. Over'
          BY <2>4, <2>17, <3>2 DEF Clean
        <5> QED
          BY <1>2, <1>4, <5>1, <5>2 DEF Passed
      <4>2. subsstarted'
        BY <2>16, <2>17, <4>1
      <4> PICK i \in DOMAIN emitted' : New(i)
        BY <2>12, <4>2
      <4> QED
        BY <2>3, <2>13, <2>17, <3>2
    <3> QED
      BY <2>9, <2>17, <3>1, <3>2
  <2>18. Delivered'
    BY <1>4, <2>16, <2>17 DEF Delivered
  <2>19. SetsWhole'
    <3> SUFFICES ASSUME NEW i \in DOMAIN emitted', Clean(Last(emitted'[i].cells).of.set)
                 PROVE  emitted'[i] = Sent(Last(emitted'[i].cells).of.set)
      BY <1>4 DEF SetsWhole
    <3>1. CASE Old(i)
      BY <2>13, <3>1 DEF SetsWhole
    <3>2. CASE New(i)
      BY <2>2, <2>3, <2>13, <3>2
    <3> QED
      BY <2>12, <3>1, <3>2
  <2> QED
    BY <2>5, <2>6, <2>7, <2>14, <2>18, <2>19 DEF Delivering
<1> QED
  BY <1>5, <1>6, EndIs

-----------------------------------------------------------------------------
(* A piece.                                                                *)

\* The packet under way, as AtTypes says it of the one a piece was last taken from.
LEMMA CurrentIs ==
  ASSUME Inv, packet <= Len(broadcast)
  PROVE  /\ packet \in 1..Len(broadcast) /\ Len(broadcast) \in Nat
         /\ Current = broadcast[packet] /\ Current \in SubtitlePacket
         /\ Current.set \in Nat /\ Current.text \in Seq(Cell) /\ Len(Current.text) \in Nat
         /\ Current.from \in Nat /\ Current.upto \in Nat
         /\ Current.from < Current.upto /\ Current.upto <= Len(Current.text)
         /\ DisplaySet(Current.set, Current.text)
         /\ Opening(Current.set).text = Current.text
         /\ Opening(Current.set).plugin = Current.plugin
         /\ have \in Nat /\ have < Len(Cells(Current))
<1>1. /\ broadcast \in Broadcasts /\ packet \in 1..(Len(broadcast) + 1)
      /\ have \in 0..(Len(Cells(Current)) - 1)
  BY DEF Inv, TypeOK
<1>2. Len(broadcast) \in Nat
  BY <1>1, BroadcastIs
<1> PICK i \in 1..Len(broadcast) : i = packet
  BY <1>1, <1>2
<1>3. /\ broadcast[i] \in SubtitlePacket /\ broadcast[i].from < broadcast[i].upto
      /\ broadcast[i].upto <= Len(broadcast[i].text)
      /\ Len(Cells(broadcast[i])) \in Nat
  BY <1>1, PacketTypes, SMTT(30)
<1>4. DisplaySet(broadcast[i].set, broadcast[i].text)
  BY <1>1, BroadcastIs
<1>5. /\ Opening(broadcast[i].set).text = broadcast[i].text
      /\ Opening(broadcast[i].set).plugin = broadcast[i].plugin
  BY <1>1, OpeningIs
<1>6. /\ broadcast[i].set \in Nat /\ broadcast[i].text \in Seq(Cell)
      /\ broadcast[i].from \in Nat /\ broadcast[i].upto \in Nat
  BY <1>3 DEF SubtitlePacket
<1>7. Len(broadcast[i].text) \in Nat
  BY <1>6
<1>8. Current = broadcast[i]
  BY DEF Current
<1>9. have \in Nat /\ have < Len(Cells(Current))
  BY <1>1, <1>3, <1>8
<1> QED
  BY <1>2, <1>3, <1>4, <1>5, <1>6, <1>7, <1>8, <1>9

\* A packet begins a display set, and then the one before is at its end; or it goes on
\* with the set under way.
Starts ==
  /\ have = 0 /\ Begins(Current) /\ Opening(Current.set) = Current
  /\ At = 0 \/ (At >= 1 /\ Current.set = Now + 1 /\ Come = Len(Text))
GoesOn ==
  /\ At >= 1 /\ Now = Current.set /\ Text = Current.text
  /\ have = 0 => Come = Current.from /\ Current.pts = 0 /\ ~Current.reset

LEMMA StartsOrGoesOn ==
  ASSUME Inv, packet <= Len(broadcast)
  PROVE  Starts \/ GoesOn
<1>0. /\ packet \in 1..Len(broadcast) /\ Len(broadcast) \in Nat /\ Current = broadcast[packet]
      /\ broadcast \in Broadcasts
  BY CurrentIs DEF Inv
<1>1. CASE have # 0
  <2>1. At = packet
    BY <1>1 DEF At
  <2> QED
    BY <1>0, <1>1, <2>1 DEF GoesOn, Now, Text
<1>2. CASE have = 0 /\ packet = 1
  <2>1. Begins(Current) /\ Opening(Current.set) = Current
    BY <1>0, <1>2, BroadcastIs, OpeningIs
  <2>2. At = 0
    BY <1>2 DEF At
  <2> QED
    BY <1>2, <2>1, <2>2 DEF Starts
<1>3. CASE have = 0 /\ packet # 1
  <2> PICK i \in 1..Len(broadcast), j \in 1..Len(broadcast) : i = packet /\ j = packet - 1
    BY <1>0, <1>3
  <2>1. At = j /\ At >= 1 /\ i - 1 = j
    BY <1>3 DEF At
  <2>2. Goes(broadcast[j], broadcast[i])
    BY <1>0, <1>3, <2>1, BroadcastIs
  <2>3. Now = broadcast[j].set /\ Text = broadcast[j].text /\ Come = broadcast[j].upto
        /\ Current = broadcast[i]
    BY <1>0, <1>3, <2>1 DEF Now, Text, Come
  <2>4. CASE /\ broadcast[i].set = broadcast[j].set /\ broadcast[i].text = broadcast[j].text
             /\ broadcast[i].from = broadcast[j].upto
             /\ broadcast[i].pts = 0 /\ ~broadcast[i].reset
    BY <2>1, <2>3, <2>4 DEF GoesOn
  <2>5. CASE /\ broadcast[i].set = broadcast[j].set + 1
             /\ broadcast[j].upto = Len(broadcast[j].text) /\ Begins(broadcast[i])
    <3>1. broadcast[j] \in SubtitlePacket
      BY <1>0, BroadcastIs
    <3>2. broadcast[j].set \in Nat
      BY <3>1 DEF SubtitlePacket
    <3>3. broadcast[i - 1].set # broadcast[i].set
      BY <2>1, <2>5, <3>2
    <3>4. Opening(broadcast[i].set) = broadcast[i]
      BY <1>0, <3>3, OpeningIs
    <3> QED
      BY <1>3, <2>1, <2>3, <2>5, <3>4, SMTT(30) DEF Starts
  <2> QED
    BY <2>2, <2>4, <2>5 DEF Goes
<1> QED
  BY <1>1, <1>2, <1>3

\* Where the step leads; what is dropped only makes fewer sets complete.
LEMMA PieceAt ==
  ASSUME Inv, packet <= Len(broadcast), NEW n \in 1..Len(Cells(Current)), Piece(n)
  PROVE  /\ broadcast' = broadcast /\ Sets' = Sets
         /\ At' = packet /\ Now' = Current.set /\ Text' = Current.text
         /\ ~Current.plugin => Come' = (Current.from + have + n) - 4
         /\ \A k : /\ Complete(k)' => Complete(k)
                   /\ Clean(k)' => Clean(k) /\ Complete(k)'
                   /\ Shows(k)' => Shows(k) /\ Clean(k)'
                   /\ Sent(k)' = Sent(k) /\ Opening(k)' = Opening(k)
<1> PICK l \in Nat : l = Len(Cells(Current))
  BY CurrentIs
<1>0. /\ packet \in 1..Len(broadcast) /\ Len(broadcast) \in Nat /\ Current = broadcast[packet]
      /\ have \in Nat /\ broadcast' = broadcast
  BY CurrentIs DEF Piece
<1>1. /\ packet' = IF have + n = l THEN packet + 1 ELSE packet
      /\ have' = IF have + n = l THEN 0 ELSE have + n
      /\ harmed \subseteq harmed'
  BY DEF Piece
<1>2. At' = packet /\ (have' = 0 <=> have + n = l)
  BY <1>0, <1>1 DEF At
<1>3. Now' = Current.set /\ Text' = Current.text
  BY <1>0, <1>2 DEF Now, Text
<1>4. Come' = IF have + n = l THEN Current.upto ELSE Current.from + (have + n) - 4
  <2>1. broadcast'[At'] = Current
    BY <1>0, <1>2
  <2>2. Come' = IF have' = 0 THEN Current.upto ELSE Current.from + have' - 4
    BY <2>1 DEF Come
  <2> QED
    BY <1>1, <1>2, <2>2
<1>5. ASSUME ~Current.plugin
      PROVE  Come' = (Current.from + have + n) - 4
  <2>1. Current.from \in Nat /\ Current.upto \in Nat
    BY CurrentIs
  <2>2. l = (4 + Current.upto) - Current.from
    <3> PICK h \in Nat : h = 4
      OBVIOUS
    <3>1. Current \in SubtitlePacket /\ Current.from < Current.upto
          /\ Current.upto <= Len(Current.text) /\ h = IF Current.plugin THEN 0 ELSE 4
      BY <1>5, CurrentIs
    <3>2. Len(Cells(Current)) = h + Current.upto - Current.from
      BY <3>1, CellsAre
    <3> QED
      BY <2>1, <3>2
  <2> PICK f \in Nat, u \in Nat, a \in Nat : f = Current.from /\ u = Current.upto /\ a = have
    BY <1>0, <2>1
  <2>3. Come' = IF a + n = l THEN u ELSE f + (a + n) - 4
    BY <1>4
  <2>4. l = (4 + u) - f
    BY <2>2
  <2>5. Come' = (f + a + n) - 4
    BY ONLY <2>3, <2>4, l \in Nat, n \in Int, f \in Nat, u \in Nat, a \in Nat
  <2> QED
    BY <2>5
<1>6. Sets' = Sets /\ \A k : Opening(k)' = Opening(k)
  BY <1>0 DEF Sets, Opening
<1>7. \A k : Whole(k)' = Whole(k)
  BY <1>6 DEF Whole
<1>8. \A k : Sent(k)' = Sent(k)
  BY <1>6, <1>7 DEF Sent, Length16
<1>9. \A k : Complete(k)' => Complete(k)
  BY <1>1, <1>6, <1>7 DEF Complete, Length16
<1>10. \A k : Clean(k)' => Clean(k) /\ Complete(k)'
  BY <1>6, <1>9 DEF Clean
<1>11. \A k : Shows(k)' => Shows(k) /\ Clean(k)'
  BY <1>7, <1>10 DEF Shows
<1> QED
  BY <1>0, <1>2, <1>3, <1>5, <1>6, <1>8, <1>9, <1>10, <1>11

\* What is put are bytes of the set under way.
LEMMA PutIsOf ==
  ASSUME Inv, packet <= Len(broadcast), NEW n \in 1..Len(Cells(Current)),
         have + n <= Len(Cells(Current)), NEW p, p = SubSeq(Cells(Current), have + 1, have + n)
  PROVE  /\ p \in Seq(Cell) /\ Len(p) = n
         /\ \A i \in 1..n : p[i] = Cells(Current)[have + i]
         /\ \A i \in 1..Len(Put(p)) : Put(p)[i].of.set = Current.set
<1> PICK c \in Seq(Cell), l \in Nat, k \in Nat : c = Cells(Current) /\ l = Len(c) /\ k = Current.set
  BY CurrentIs, CurrentTypes DEF Inv
<1>1. have \in Nat /\ have < l
  BY CurrentIs
<1> PICK a \in Nat, b \in Nat : a = have /\ b = have + n
  BY <1>1
<1>2. p \in Seq(Cell) /\ Len(p) = n /\ \A i \in 1..n : p[i] = c[a + i]
  <2>1. a <= b /\ b <= Len(c) /\ b - a = n
    OBVIOUS
  <2>2. /\ SubSeq(c, a + 1, b) \in Seq(Cell) /\ Len(SubSeq(c, a + 1, b)) = b - a
        /\ \A i \in 1..(b - a) : SubSeq(c, a + 1, b)[i] = c[a + i]
    BY ONLY c \in Seq(Cell), a \in Nat, b \in Nat, <2>1, Part
  <2> QED
    BY <2>1, <2>2
<1>3. \A i \in 1..l : c[i].of.set = k
  <2> PICK f \in Nat, u \in Nat, v \in Nat :
        f = Current.from /\ u = Current.upto /\ v = Len(Current.text)
    BY CurrentIs
  <2> PICK t : t = Current.text
    OBVIOUS
  <2>0. f < u /\ u <= v
    BY CurrentIs
  <2>h. PICK h \in Nat : h = IF Current.plugin THEN 0 ELSE 4
    OBVIOUS
  <2>1. /\ l = (h + u) - f
        /\ \A i \in 1..h : c[i].of.set = k
        /\ \A i \in 1..(u - f) : c[h + i] = t[f + i]
    <3>1. /\ Current \in SubtitlePacket /\ Current.from < Current.upto
          /\ Current.upto <= Len(Current.text)
      BY CurrentIs
    <3>2. /\ Len(Cells(Current)) = h + Current.upto - Current.from
          /\ \A i \in 1..h : Cells(Current)[i].of.set = Current.set
          /\ \A i \in 1..(Current.upto - Current.from) :
               Cells(Current)[h + i] = Current.text[Current.from + i]
      BY ONLY <2>h, <3>1, CellsAre
    <3> QED
      BY <3>2
  <2>2. \A i \in 1..v : t[i].of.set = k
    BY CurrentIs DEF DisplaySet
  <2> TAKE i \in 1..l
  <2>3. CASE i > h
    <3>0. i - h \in Nat
      BY <2>3
    <3> PICK j \in Nat : j = i - h
      BY <3>0
    <3>1. j \in 1..(u - f) /\ h + j = i /\ f + j \in 1..v
      <4>1. l = (h + u) - f /\ j = i - h
        BY <2>1
      <4> QED
        BY ONLY <2>0, <2>3, <4>1, f \in Nat, u \in Nat, v \in Nat, h \in Nat, l \in Nat,
                i \in 1..l, j \in Nat
    <3>2. c[h + j] = t[f + j]
      BY <2>1, <3>1
    <3> QED
      BY <2>2, <3>1, <3>2
  <2> QED
    BY <2>1, <2>3
<1>4. \A i \in 1..n : p[i].of.set = k
  <2> TAKE i \in 1..n
  <2>1. a + i \in 1..l
    OBVIOUS
  <2> QED
    BY <1>2, <1>3, <2>1
<1>5. \A i \in 1..Len(Put(p)) : Put(p)[i].of.set = k
  <2>1. CASE n - Stripped > 3
    <3> PICK h \in Nat : h = Stripped
      BY DEF Stripped
    <3> PICK d : d = SubSeq(p, h + 1, n)
      OBVIOUS
    <3> PICK m \in Nat : m = n - h
      BY <2>1
    <3>1. d \in Seq(Cell) /\ Len(d) = m /\ \A i \in 1..m : d[i] = p[h + i]
      <4>1. h <= n /\ n <= Len(p) /\ n \in Nat /\ p \in Seq(Cell) /\ n - h = m
        BY <1>2, <2>1
      <4>2. /\ SubSeq(p, h + 1, n) \in Seq(Cell) /\ Len(SubSeq(p, h + 1, n)) = n - h
            /\ \A i \in 1..(n - h) : SubSeq(p, h + 1, n)[i] = p[h + i]
        BY ONLY h \in Nat, <4>1, Part
      <4> QED
        BY <4>1, <4>2
    <3>2. \A i \in 1..m : d[i].of.set = k
      <4> TAKE i \in 1..m
      <4>1. h + i \in 1..n
        OBVIOUS
      <4> QED
        BY <1>4, <3>1, <4>1
    <3>3. Put(p) = WithoutPrefix(d)
      BY <1>2, <2>1 DEF Put
    <3>4. CASE WithoutPrefix(d) = d
      BY <3>1, <3>2, <3>3, <3>4, ZenonT(30)
    <3>5. CASE WithoutPrefix(d) = SubSeq(d, 3, Len(d))
      <4> PICK two \in Nat : two = 2
        OBVIOUS
      <4>1. two <= m /\ m <= Len(d) /\ two + 1 = 3
        BY <2>1, <3>1, SMTT(30)
      <4>2. /\ Len(SubSeq(d, two + 1, m)) = m - two
            /\ \A i \in 1..(m - two) : SubSeq(d, two + 1, m)[i] = d[two + i]
        BY ONLY two \in Nat, m \in Nat, <3>1, <4>1, Part
      <4>3. Put(p) = SubSeq(d, two + 1, m)
        BY <3>1, <3>3, <3>5, <4>1
      <4>4. \A i \in 1..(m - two) : SubSeq(d, two + 1, m)[i].of.set = k
        <5> TAKE i \in 1..(m - two)
        <5> PICK e \in 1..m : e = two + i
          BY <4>1
        <5>1. SubSeq(d, two + 1, m)[i] = d[e]
          BY <4>2
        <5> QED
          BY <3>2, <5>1
      <4>5. Len(Put(p)) = m - two
        BY <4>2, <4>3
      <4> QED
        BY <4>3, <4>4, <4>5, ZenonT(30)
    <3> QED
      BY <3>4, <3>5 DEF WithoutPrefix
  <2>2. CASE ~(n - Stripped > 3)
    <3>1. Put(p) = <<>>
      BY <1>2, <2>2 DEF Put
    <3> QED
      BY <3>1
  <2> QED
    BY <2>1, <2>2
<1> QED
  BY <1>2, <1>5

\* A piece that is cut well brings the next bytes of the display set.
Slice(n) == SubSeq(Cells(Current), have + 1, have + n)
Base == IF have = 0 THEN Current.from ELSE Current.from + (have - 4)

LEMMA PieceText ==
  ASSUME Inv, packet <= Len(broadcast), NEW n \in 1..Len(Cells(Current)),
         have + n <= Len(Cells(Current)), ~Current.plugin, ~Badly(n), have \notin 1..7
  PROVE  \E b \in Nat, m \in Nat : \E d \in Seq(Cell) :
           /\ b = Base /\ m >= 4 /\ b + m = (Current.from + have + n) - 4
           /\ b + m <= Len(Current.text)
           /\ Len(d) = m /\ \A i \in 1..m : d[i] = Current.text[b + i]
           /\ Put(Slice(n)) = WithoutPrefix(d) /\ Len(Slice(n)) > Stripped
<1> PICK p : p = Slice(n)
  OBVIOUS
<1> PICK f \in Nat, u \in Nat, v \in Nat, a \in Nat :
      f = Current.from /\ u = Current.upto /\ v = Len(Current.text) /\ a = have
  BY CurrentIs
<1> PICK t, c : t = Current.text /\ c = Cells(Current)
  OBVIOUS
<1> PICK h \in Nat : h = Stripped
  BY DEF Stripped
<1>1. /\ c \in Seq(Cell) /\ f < u /\ u <= v
      /\ p \in Seq(Cell) /\ Len(p) = n /\ \A i \in 1..n : p[i] = c[a + i]
  BY CurrentIs, CurrentTypes, PutIsOf DEF Inv, Slice
<1>2. Len(c) = (4 + u) - f /\ \A i \in 1..(u - f) : c[4 + i] = t[f + i]
  <2>h. PICK o \in Nat : o = 4
    OBVIOUS
  <2>1. /\ Current \in SubtitlePacket /\ Current.from < Current.upto
        /\ Current.upto <= Len(Current.text) /\ o = IF Current.plugin THEN 0 ELSE 4
    BY <2>h, CurrentIs
  <2>2. /\ Len(Cells(Current)) = o + Current.upto - Current.from
        /\ \A i \in 1..(Current.upto - Current.from) :
             Cells(Current)[o + i] = Current.text[Current.from + i]
    BY ONLY o \in Nat, <2>1, CellsAre
  <2>3. Len(c) = o + (u - f) /\ \A i \in 1..(u - f) : c[o + i] = t[f + i]
    BY <2>2
  <2>4. o = 4
    BY <2>h
  <2> QED
    BY ONLY <2>3, <2>4, u \in Nat, f \in Nat
<1>3. h = (IF a = 0 THEN 4 ELSE 0) /\ n >= h + 4 /\ (a = 0 \/ a >= 8)
  BY DEF Stripped, First, Badly
<1>4. a + n <= (4 + u) - f
  BY <1>2
<1> PICK b \in Nat : b = IF a = 0 THEN f ELSE f + (a - 4)
  BY <1>3
<1> PICK m \in Nat : m = n - h
  BY <1>3
<1>5. b = (IF a = 0 THEN f ELSE f + (a - 4)) /\ m = n - h /\ n \in Nat
  OBVIOUS
<1>6. /\ m >= 4 /\ b + m = (f + a + n) - 4 /\ b + m <= v
      /\ b + 4 = f + a + h /\ a + h >= 4 /\ n > h
  BY ONLY <1>1, <1>3, <1>4, <1>5, f \in Nat, u \in Nat, v \in Nat, a \in Nat, h \in Nat,
          b \in Nat, m \in Nat
<1> PICK d : d = SubSeq(p, h + 1, n)
  OBVIOUS
<1>7. d \in Seq(Cell) /\ Len(d) = m /\ \A i \in 1..m : d[i] = p[h + i]
  <2>1. h <= n /\ n <= Len(p) /\ n \in Nat /\ p \in Seq(Cell) /\ n - h = m
    BY <1>1, <1>5, <1>6
  <2>2. /\ SubSeq(p, h + 1, n) \in Seq(Cell) /\ Len(SubSeq(p, h + 1, n)) = n - h
        /\ \A i \in 1..(n - h) : SubSeq(p, h + 1, n)[i] = p[h + i]
    BY ONLY h \in Nat, <2>1, Part, ZenonT(30)
  <2> QED
    BY <2>1, <2>2
<1>8. ASSUME NEW i \in 1..m
      PROVE  d[i] = t[b + i]
  <2>1. (a + h + i) - 4 \in 1..(u - f) /\ h + i \in 1..n
    BY ONLY <1>4, <1>5, <1>6, i \in 1..m, f \in Nat, u \in Nat, a \in Nat, h \in Nat,
            b \in Nat, m \in Nat
  <2> PICK e \in 1..(u - f), j \in 1..n : e = (a + h + i) - 4 /\ j = h + i
    BY <2>1
  <2>2. e = (a + h + i) - 4 /\ j = h + i
    OBVIOUS
  <2>3. 4 + e = a + j /\ f + e = b + i
    BY ONLY <1>6, <2>2, i \in 1..m, f \in Nat, u \in Nat, a \in Nat, h \in Nat,
            b \in Nat, m \in Nat, e \in Int, j \in Int
  <2>4. d[i] = p[j] /\ p[j] = c[a + j] /\ c[4 + e] = t[f + e]
    BY <1>1, <1>2, <1>7
  <2> QED
    BY ONLY <2>3, <2>4
<1>9. Put(Slice(n)) = WithoutPrefix(d) /\ Len(Slice(n)) > Stripped
  <2>1. Len(p) - Stripped > 3 /\ Len(p) > Stripped
    BY <1>1, <1>5, <1>6
  <2> QED
    BY <1>1, <2>1 DEF Put
<1>10. b = Base
  BY <1>5 DEF Base
<1>11. b + m = (Current.from + have + n) - 4 /\ b + m <= Len(Current.text)
  BY <1>6
<1>12. /\ m >= 4 /\ d \in Seq(Cell) /\ Len(d) = m
       /\ \A i \in 1..m : d[i] = Current.text[b + i]
  BY <1>6, <1>7, <1>8
<1> QED
  BY ONLY <1>9, <1>10, <1>11, <1>12, b \in Nat, m \in Nat, Zenon

\* What is left of other sets than the one under way.
LEMMA OldCells ==
  ASSUME Inv, Delivering, ~failed, ~looping, packet <= Len(broadcast),
         NEW d \in (pos + 1)..Len(data), Complete(data[d].of.set),
         data[d].of.set # Current.set
  PROVE  data[d].of.type = "marker" /\ d = pos + 1
<1>1. /\ Fresh /\ Gathered /\ CaughtUp /\ LeftOver
      /\ pos \in Nat /\ Len(data) \in Nat /\ pos <= Len(data)
  BY DEF Delivering, Inv, TypeOK
<1>2. At >= 1
  <2>1. At = 0 => data = <<>>
    BY <1>1 DEF Fresh
  <2>2. data # <<>>
    BY <1>1
  <2> QED
    BY <2>1, <2>2, AtTypes
<1>3. CASE data[d].of.set # Now
  BY <1>1, <1>2, <1>3 DEF LeftOver
<1>4. CASE data[d].of.set = Now
  <2>1. Starts
    BY <1>4, StartsOrGoesOn DEF GoesOn
  <2>2. Come = Len(Text)
    BY <1>2, <2>1 DEF Starts
  <2> QED
    BY <1>1, <1>2, <1>4, <2>2, AllTaken
<1> QED
  BY <1>3, <1>4

\* What a piece of a set that is still complete does.
LEMMA PiecePuts ==
  ASSUME Inv, Delivering, ~failed, packet <= Len(broadcast),
         NEW n \in 1..Len(Cells(Current)), Piece(n),
         NEW k, k = Current.set, Complete(k)'
  PROVE  /\ Complete(k) /\ have \notin 1..7 /\ have' \notin 1..7
         /\ headerstore' = IF First /\ Current.pts > 0 THEN Current.pts ELSE headerstore
         /\ pos' = IF First /\ Current.reset THEN 0 ELSE pos
         /\ \E b \in Nat, m \in Nat : \E d \in Seq(Cell) :
              /\ b = Base /\ m >= 4 /\ b + m = Come' /\ b + m <= Len(Current.text)
              /\ Len(d) = m /\ \A i \in 1..m : d[i] = Current.text[b + i]
              /\ data' = (IF First /\ Current.reset THEN <<>> ELSE data) \o WithoutPrefix(d)
              /\ looping' = (WithoutPrefix(d) # <<>>)
<1>1. Complete(k) /\ Opening(k)' = Opening(k)
  BY PieceAt
<1>2. ~Current.plugin
  <2>1. ~Opening(k)'.plugin
    BY DEF Complete
  <2>2. Opening(Current.set).plugin = Current.plugin
    BY CurrentIs
  <2> QED
    BY <1>1, <2>1, <2>2
<1>3. /\ ~Badly(n) /\ ~Rejected
      /\ headerstore' = IF First /\ Current.pts > 0 THEN Current.pts ELSE headerstore
      /\ data' = (IF Reset(Slice(n)) THEN <<>> ELSE data) \o Put(Slice(n))
      /\ pos' = Position(Slice(n)) /\ looping' = (Put(Slice(n)) # <<>>)
  <2>1. Current.set \notin harmed'
    BY DEF Complete
  <2> QED
    BY <2>1, Zenon DEF Piece, Slice
<1>4. have \notin 1..7
  <2>1. CASE have = 0
    BY <2>1
  <2>2. CASE have # 0
    <3>1. GoesOn
      BY <2>2, StartsOrGoesOn DEF Starts
    <3>2. At >= 1 /\ Complete(Now)
      BY <1>1, <3>1 DEF GoesOn
    <3> QED
      BY <3>2 DEF Delivering, Gathered
  <2> QED
    BY <2>1, <2>2
<1>5. /\ have + n <= Len(Cells(Current))
      /\ headerstore' = IF First /\ Current.pts > 0 THEN Current.pts ELSE headerstore
      /\ data' = (IF Reset(Slice(n)) THEN <<>> ELSE data) \o Put(Slice(n))
      /\ pos' = Position(Slice(n)) /\ looping' = (Put(Slice(n)) # <<>>)
      /\ have' = 0 \/ have' = have + n
  BY <1>3, Zenon DEF Piece, Slice
<1> PICK b \in Nat, m \in Nat :
      \E d \in Seq(Cell) :
        /\ b = Base /\ m >= 4 /\ b + m = (Current.from + have + n) - 4
        /\ b + m <= Len(Current.text)
        /\ Len(d) = m /\ \A i \in 1..m : d[i] = Current.text[b + i]
        /\ Put(Slice(n)) = WithoutPrefix(d) /\ Len(Slice(n)) > Stripped
  <2>1. have + n <= Len(Cells(Current)) /\ ~Badly(n)
    BY <1>3, <1>5
  <2> QED
    BY ONLY Inv, packet <= Len(broadcast), n \in 1..Len(Cells(Current)), <1>2, <1>4, <2>1,
            PieceText
<1> PICK d \in Seq(Cell) :
      /\ b = Base /\ m >= 4 /\ b + m = (Current.from + have + n) - 4
      /\ b + m <= Len(Current.text)
      /\ Len(d) = m /\ \A i \in 1..m : d[i] = Current.text[b + i]
      /\ Put(Slice(n)) = WithoutPrefix(d) /\ Len(Slice(n)) > Stripped
  OBVIOUS
<1>6. (Reset(Slice(n)) <=> First /\ Current.reset)
  BY DEF Reset
<1>7. pos' = IF First /\ Current.reset THEN 0 ELSE pos
  BY <1>5, <1>6 DEF Position
<1>8. /\ data' = (IF First /\ Current.reset THEN <<>> ELSE data) \o WithoutPrefix(d)
      /\ looping' = (WithoutPrefix(d) # <<>>)
  BY <1>5, <1>6
<1>9. Come' = (Current.from + have + n) - 4
  BY <1>2, PieceAt
<1>10. have' \notin 1..7
  <2> PICK a \in Nat, f \in Nat : a = have /\ f = Current.from
    BY CurrentIs
  <2>1. b = (IF a = 0 THEN f ELSE f + (a - 4)) /\ b + m = (f + a + n) - 4 /\ m >= 4
        /\ (a = 0 \/ a >= 8) /\ (have' = 0 \/ have' = a + n) /\ n \in Nat
    <3>1. Current.from \in Nat /\ have \in Nat
      BY CurrentIs
    <3>2. b = (IF a = 0 THEN f ELSE f + (a - 4))
      BY <3>1 DEF Base
    <3>3. b + m = (f + a + n) - 4 /\ m >= 4
      BY <3>1
    <3>4. a = 0 \/ a >= 8
      <4>1. a \notin 1..7
        BY <1>4
      <4> QED
        BY ONLY a \in Nat, <4>1
    <3> QED
      BY <1>5, <3>1, <3>2, <3>3, <3>4
  <2>2. a + n >= 8
    BY ONLY <2>1, a \in Nat, f \in Nat, b \in Nat, m \in Nat
  <2> QED
    BY ONLY <2>1, <2>2, a \in Nat
<1>11. /\ b = Base /\ m >= 4 /\ b + m = Come' /\ b + m <= Len(Current.text)
       /\ Len(d) = m /\ \A i \in 1..m : d[i] = Current.text[b + i]
  BY <1>9
<1> QED
  BY ONLY <1>1, <1>4, <1>5, <1>7, <1>8, <1>10, <1>11, b \in Nat, m \in Nat, d \in Seq(Cell), Zenon

\* A display set begins: the assembler has it from its first segment on, and the fifo is
\* empty, for the set before has ended.
LEMMA PieceStarts ==
  ASSUME Inv, Delivering, ~failed, ~looping, packet <= Len(broadcast), Starts,
         NEW n \in 1..Len(Cells(Current)), Piece(n),
         NEW k, k = Current.set, Complete(k)'
  PROVE  /\ pos' = 0 /\ looping' /\ Gathered'
         /\ Clean(k)' => fifo = <<>> /\ size = 0
<1> PICK t : t = Current.text
  OBVIOUS
<1>0. t \in Seq(Cell) /\ Len(t) \in Nat /\ DisplaySet(k, t) /\ Current.from = 0 /\ have = 0
      /\ Current.pts > 0 /\ Current.reset /\ Opening(k) = Current
  BY CurrentIs DEF Starts, Begins
<1>1. /\ Complete(k) /\ have' \notin 1..7
      /\ headerstore' = IF First /\ Current.pts > 0 THEN Current.pts ELSE headerstore
      /\ pos' = IF First /\ Current.reset THEN 0 ELSE pos
      /\ \E b \in Nat, m \in Nat : \E d \in Seq(Cell) :
           /\ b = Base /\ m >= 4 /\ b + m = Come' /\ b + m <= Len(Current.text)
           /\ Len(d) = m /\ \A i \in 1..m : d[i] = Current.text[b + i]
           /\ data' = (IF First /\ Current.reset THEN <<>> ELSE data) \o WithoutPrefix(d)
           /\ looping' = (WithoutPrefix(d) # <<>>)
  BY PiecePuts
<1>2. First
  BY <1>0 DEF First
<1>3. headerstore' = Opening(k).pts /\ pos' = 0
  BY <1>0, <1>1, <1>2
<1>b. PICK b \in Nat, m \in Nat : \E d \in Seq(Cell) :
         /\ b = Base /\ m >= 4 /\ b + m = Come' /\ b + m <= Len(Current.text)
         /\ Len(d) = m /\ \A i \in 1..m : d[i] = Current.text[b + i]
         /\ data' = (IF First /\ Current.reset THEN <<>> ELSE data) \o WithoutPrefix(d)
         /\ looping' = (WithoutPrefix(d) # <<>>)
  BY ONLY <1>1
<1>d. PICK d \in Seq(Cell) :
         /\ b = Base /\ m >= 4 /\ b + m = Come' /\ b + m <= Len(Current.text)
         /\ Len(d) = m /\ \A i \in 1..m : d[i] = Current.text[b + i]
         /\ data' = (IF First /\ Current.reset THEN <<>> ELSE data) \o WithoutPrefix(d)
         /\ looping' = (WithoutPrefix(d) # <<>>)
  BY ONLY <1>b
<1>m. /\ m >= 4 /\ m = Come' /\ m <= Len(t)
      /\ Len(d) = m /\ \A i \in 1..m : d[i] = t[i]
      /\ data' = <<>> \o WithoutPrefix(d) /\ looping' = (WithoutPrefix(d) # <<>>)
  <2>1. b = 0
    BY <1>0, <1>d DEF Base
  <2>2. b + m = m /\ \A i \in 1..m : b + i = i
    BY ONLY <2>1, m \in Nat
  <2>3. m >= 4 /\ m = Come' /\ m <= Len(t) /\ Len(d) = m
    BY <1>d, <2>2
  <2>4. \A i \in 1..m : d[i] = t[i]
    BY <1>d, <2>2
  <2>5. data' = <<>> \o WithoutPrefix(d) /\ looping' = (WithoutPrefix(d) # <<>>)
    BY <1>0, <1>2, <1>d
  <2> QED
    BY <2>3, <2>4, <2>5
<1>4. /\ \A i \in 1..2 : t[i].of.type = "prefix" /\ t[i].at = i - 1
      /\ t[3].at = 0 /\ t[3].of.type \notin {"prefix", "substream"}
      /\ t[3].of.type = "marker" => Len(t) = 3
  <2>1. 3 \in 3..Len(t) /\ ~(3 > 3)
    BY <1>0, <1>m
  <2>2. \A i \in 1..2 : t[i].of.type = "prefix" /\ t[i].at = i - 1
    BY <1>0 DEF DisplaySet
  <2>3. \A i \in 3..Len(t) : t[i].of.type \notin {"prefix", "substream", "junk"}
    BY <1>0 DEF DisplaySet
  <2>4. \A i \in 3..Len(t) : t[i].of.type = "marker" => i = Len(t)
    BY <1>0 DEF DisplaySet
  <2>5. \A i \in 3..Len(t) : ~(i > 3) => t[i].at = 0
    BY <1>0, Zenon DEF DisplaySet
  <2> QED
    BY <2>1, <2>2, <2>3, <2>4, <2>5
<1>5. t[3].of.type # "marker"
  BY <1>4, <1>m
<1>6. IsSync(t[3])
  BY <1>4, <1>5 DEF IsSync
<1>7. WithoutPrefix(d) = SubSeq(d, 3, m)
  <2>1. 1 \in 1..m /\ 2 \in 1..m /\ 3 \in 1..m /\ 1 \in 1..2 /\ 2 \in 1..2
    BY <1>m
  <2>2. d[1] = t[1] /\ d[2] = t[2] /\ d[3] = t[3] /\ Len(d) = m
    BY <1>m, <2>1
  <2>3. /\ t[1].of.type = "prefix" /\ t[1].at = 0 /\ t[2].of.type = "prefix"
    BY <1>4, <2>1
  <2> QED
    BY <1>6, <2>2, <2>3 DEF WithoutPrefix
<1> PICK c : c = SubSeq(d, 3, m)
  OBVIOUS
<1>8. c \in Seq(Cell) /\ Len(c) = m - 2 /\ \A i \in 1..(m - 2) : c[i] = t[i + 2]
  <2>h. PICK two \in Nat : two = 2
    OBVIOUS
  <2>1. two <= m /\ m <= Len(d) /\ two + 1 = 3
    BY <1>m, <2>h
  <2>2. /\ SubSeq(d, two + 1, m) \in Seq(Cell) /\ Len(SubSeq(d, two + 1, m)) = m - two
        /\ \A i \in 1..(m - two) : SubSeq(d, two + 1, m)[i] = d[two + i]
    BY ONLY two \in Nat, m \in Nat, d \in Seq(Cell), <2>1, Part
  <2>3. c = SubSeq(d, two + 1, m)
    BY <2>1
  <2>4. \A i \in 1..(m - two) : c[i] = t[i + 2]
    <3> TAKE i \in 1..(m - two)
    <3>e. PICK e \in 1..m : e = two + i
      BY <2>1
    <3>1. e = i + 2
      BY ONLY <3>e, <2>h, i \in 1..(m - two), m \in Nat
    <3>2. c[i] = d[two + i] /\ d[e] = t[e]
      BY <1>m, <2>2, <2>3
    <3>3. c[i] = t[e]
      BY ONLY <3>e, <3>2
    <3> QED
      BY ONLY <3>1, <3>3
  <2>5. m - two = m - 2
    BY ONLY <2>h
  <2>6. c \in Seq(Cell) /\ Len(c) = m - two
    BY <2>2, <2>3
  <2> QED
    BY ONLY <2>4, <2>5, <2>6
<1>9. data' = c /\ looping'
  <2>1. Len(c) >= 2
    <3>1. m >= 4 /\ Len(c) = m - 2
      BY <1>8, <1>m
    <3> QED
      BY ONLY <3>1, m \in Nat
  <2>2. c # <<>>
    <3>1. Len(<<>>) = 0
      OBVIOUS
    <3>2. c = <<>> => Len(c) = 0
      BY ONLY <3>1
    <3> QED
      BY ONLY <2>1, <3>2
  <2>3. <<>> \o c = c
    BY ONLY <1>8, ConcatEmptySeq
  <2>4. WithoutPrefix(d) = c
    BY <1>7
  <2> QED
    BY ONLY <1>m, <2>2, <2>3, <2>4
<1>10. Gathered'
  <2>1. At' = packet /\ Now' = k /\ Text' = t /\ Opening(k)' = Opening(k)
    BY PieceAt
  <2>2. Len(data') = Come' - 2 /\ \A e \in 1..Len(data') : data'[e] = t[e + 2]
    <3>1. Len(data') = m - 2 /\ Come' = m
      BY ONLY <1>8, <1>9, <1>m
    <3>2. \A e \in 1..(m - 2) : data'[e] = t[e + 2]
      BY ONLY <1>8, <1>9
    <3> QED
      BY ONLY <3>1, <3>2
  <2>3. Come' \in 4..Len(t)
    BY ONLY <1>m, <1>0, m \in Nat
  <2>4. pos' + 3 = 3
    BY <1>3
  <2>5. headerstore' = Opening(k)'.pts
    BY <1>3, <2>1
  <2> QED
    BY <1>1, <1>4, <2>1, <2>2, <2>3, <2>4, <2>5 DEF Gathered
<1>11. ASSUME Clean(k)'
       PROVE  fifo = <<>> /\ size = 0
  <2>0. Fresh /\ Gathered /\ CaughtUp /\ Queued
    BY DEF Delivering
  <2>1. CASE At = 0
    BY <2>0, <2>1 DEF Fresh
  <2>2. CASE At >= 1
    <3>1. k = Now + 1 /\ Come = Len(Text) /\ Now \in Sets /\ Now \in Nat
      BY <2>2, AtTypes DEF Starts
    <3>2. Complete(Now)
      <4>1. Clean(k)
        BY <1>11, PieceAt
      <4>2. k - 1 = Now
        BY <3>1
      <4> QED
        BY <3>1, <4>1, <4>2 DEF Clean
    <3>3. Over
      BY <2>0, <2>2, <3>1, <3>2, AllTaken
    <3> QED
      BY <2>0, <2>2, <3>2, <3>3 DEF Queued
  <2> QED
    BY <2>1, <2>2 DEF Starts
<1> QED
  BY <1>3, <1>9, <1>10, <1>11

\* A display set goes on: its next bytes follow the ones that have come.
LEMMA PieceGoesOn ==
  ASSUME Inv, Delivering, ~failed, packet <= Len(broadcast), GoesOn,
         NEW n \in 1..Len(Cells(Current)), Piece(n),
         NEW k, k = Current.set, Complete(k)'
  PROVE  Complete(k) /\ pos' = pos /\ looping' /\ Gathered' /\ (Over' <=> Over)
<1> PICK t : t = Current.text
  OBVIOUS
<1>0. /\ t \in Seq(Cell) /\ Len(t) \in Nat /\ DisplaySet(k, t) /\ k = Now /\ t = Text /\ At >= 1
      /\ have = 0 => Come = Current.from /\ Current.pts = 0 /\ ~Current.reset
  BY CurrentIs DEF GoesOn
<1>1. /\ Complete(k) /\ have \notin 1..7 /\ have' \notin 1..7
      /\ headerstore' = IF First /\ Current.pts > 0 THEN Current.pts ELSE headerstore
      /\ pos' = IF First /\ Current.reset THEN 0 ELSE pos
      /\ \E b \in Nat, m \in Nat : \E d \in Seq(Cell) :
           /\ b = Base /\ m >= 4 /\ b + m = Come' /\ b + m <= Len(Current.text)
           /\ Len(d) = m /\ \A i \in 1..m : d[i] = Current.text[b + i]
           /\ data' = (IF First /\ Current.reset THEN <<>> ELSE data) \o WithoutPrefix(d)
           /\ looping' = (WithoutPrefix(d) # <<>>)
  BY PiecePuts
<1>2. headerstore' = headerstore /\ pos' = pos /\ ~(First /\ Current.reset)
  <2>1. First => ~(Current.pts > 0) /\ ~Current.reset
    BY <1>0 DEF First
  <2> QED
    BY <1>1, <2>1
<1>3. /\ headerstore = Opening(k).pts /\ Come \in 4..Len(t) /\ Len(data) = Come - 2
      /\ \A e \in 1..Len(data) : data[e] = t[e + 2]
      /\ pos + 2 < Len(t) => t[pos + 3].at = 0
  BY <1>0, <1>1 DEF Delivering, Gathered
<1>4. data \in Seq(Cell) /\ Len(data) \in Nat /\ pos \in Nat /\ pos <= Len(data)
  BY DEF Inv, TypeOK
<1>b. PICK b \in Nat, m \in Nat : \E d \in Seq(Cell) :
         /\ b = Base /\ m >= 4 /\ b + m = Come' /\ b + m <= Len(Current.text)
         /\ Len(d) = m /\ \A i \in 1..m : d[i] = Current.text[b + i]
         /\ data' = (IF First /\ Current.reset THEN <<>> ELSE data) \o WithoutPrefix(d)
         /\ looping' = (WithoutPrefix(d) # <<>>)
  BY ONLY <1>1
<1>d. PICK d \in Seq(Cell) :
         /\ b = Base /\ m >= 4 /\ b + m = Come' /\ b + m <= Len(Current.text)
         /\ Len(d) = m /\ \A i \in 1..m : d[i] = Current.text[b + i]
         /\ data' = (IF First /\ Current.reset THEN <<>> ELSE data) \o WithoutPrefix(d)
         /\ looping' = (WithoutPrefix(d) # <<>>)
  BY ONLY <1>b
<1>5. b = Come
  <2>1. CASE have = 0
    BY <1>0, <1>d, <2>1 DEF Base
  <2>2. CASE have # 0
    <3>1. Come = broadcast[packet].from + have - 4
      BY <2>2 DEF Come, At
    <3>2. Base = Current.from + (have - 4)
      BY <2>2 DEF Base
    <3>3. Current.from \in Nat /\ have \in Nat /\ Current = broadcast[packet]
      BY CurrentIs
    <3> PICK f \in Nat, a \in Nat : f = Current.from /\ a = have
      BY <3>3
    <3>4. Come = f + a - 4 /\ Base = f + (a - 4)
      BY <3>1, <3>2, <3>3
    <3>5. f + a - 4 = f + (a - 4)
      OBVIOUS
    <3> QED
      BY <1>d, <3>4, <3>5
  <2> QED
    BY <2>1, <2>2
<1>6. /\ b >= 4 /\ m >= 4 /\ b + m <= Len(t) /\ Len(data) = b - 2 /\ Come' = b + m
      /\ Len(d) = m /\ \A i \in 1..m : d[i] = t[b + i]
  BY <1>0, <1>3, <1>5, <1>d
<1>7. WithoutPrefix(d) = d
  <2>1. \A i \in 3..Len(t) : t[i].of.type # "prefix"
    BY <1>0 DEF DisplaySet
  <2>2. b + 1 \in 3..Len(t) /\ 1 \in 1..m
    BY ONLY <1>0, <1>6, b \in Nat, m \in Nat
  <2>3. d[1] = t[b + 1]
    BY <1>6, <2>2
  <2>4. d[1].of.type # "prefix"
    BY <2>1, <2>2, <2>3
  <2> QED
    BY <2>4 DEF WithoutPrefix
<1>8. data' = data \o d /\ looping'
  <2>1. d # <<>>
    <3>1. Len(<<>>) = 0
      OBVIOUS
    <3>2. d = <<>> => Len(d) = 0
      BY ONLY <3>1
    <3>3. Len(d) = m /\ m >= 4
      BY <1>6
    <3> QED
      BY ONLY <3>2, <3>3, m \in Nat
  <2> QED
    BY <1>2, <1>7, <1>d, <2>1
<1>9. /\ Len(data') = Len(data) + m
      /\ \A i \in 1..Len(data) : data'[i] = data[i]
      /\ \A i \in 1..m : data'[Len(data) + i] = d[i]
  <2>1. /\ data \o d \in Seq(Cell) /\ Len(data \o d) = Len(data) + Len(d)
        /\ \A i \in 1..Len(data) : (data \o d)[i] = data[i]
        /\ \A i \in 1..Len(d) : (data \o d)[Len(data) + i] = d[i]
    BY ONLY <1>4, d \in Seq(Cell), Joined
  <2> QED
    BY ONLY <1>6, <1>8, <2>1
<1>10. ASSUME NEW e \in 1..Len(data')
       PROVE  data'[e] = t[e + 2]
  <2> PICK l \in Nat : l = Len(data)
    BY <1>4
  <2>0. e \in 1..(l + m) /\ l = b - 2
    BY <1>6, <1>9
  <2>1. CASE e <= l
    <3>1. e \in 1..l
      BY ONLY <2>0, <2>1, l \in Nat, m \in Nat
    <3> QED
      BY <1>3, <1>9, <3>1
  <2>2. CASE e > l
    <3>1. e - l \in 1..m
      BY ONLY <2>0, <2>2, l \in Nat, m \in Nat
    <3>i. PICK i \in 1..m : i = e - l
      BY <3>1
    <3>2. data'[l + i] = t[b + i]
      BY <1>6, <1>9
    <3>3. l + i = e /\ b + i = e + 2
      BY ONLY <2>0, <3>i, l \in Nat, b \in Nat, m \in Nat, i \in 1..m, e \in 1..(l + m)
    <3> QED
      BY ONLY <3>2, <3>3
  <2> QED
    BY ONLY <2>0, <2>1, <2>2, l \in Nat, m \in Nat
<1>11. Gathered'
  <2>1. At' = packet /\ Now' = k /\ Text' = t /\ Opening(k)' = Opening(k)
    BY PieceAt
  <2>2. Len(data') = Come' - 2
    BY ONLY <1>6, <1>9, b \in Nat, m \in Nat, SMTT(30)
  <2>3. Come' \in 4..Len(t)
    BY ONLY <1>0, <1>6, b \in Nat, m \in Nat
  <2>4. headerstore' = Opening(k)'.pts
    BY <1>2, <1>3, <2>1
  <2>5. pos' + 2 < Len(t) => t[pos' + 3].at = 0
    BY <1>2, <1>3
  <2> QED
    BY <1>1, <1>10, <2>1, <2>2, <2>3, <2>4, <2>5 DEF Gathered
<1>12. Over' <=> Over
  <2>1. \A i \in 1..pos : data'[i] = data[i]
    BY <1>4, <1>9
  <2> QED
    BY <1>2, <2>1 DEF Over
<1> QED
  BY <1>1, <1>2, <1>8, <1>11, <1>12

\* A piece leaves of the sets before nothing but a marker.
LEMMA PieceLeaves ==
  ASSUME Inv, Delivering, ~failed, packet <= Len(broadcast),
         NEW n \in 1..Len(Cells(Current)), Piece(n)
  PROVE  LeftOver'
<1>0. /\ data \in Seq(Cell) /\ Len(data) \in Nat /\ pos \in Nat /\ pos <= Len(data) /\ ~looping
      /\ Now' = Current.set /\ \A k : Complete(k)' => Complete(k)
  <2>1. data \in Seq(Cell) /\ Len(data) \in Nat /\ pos \in Nat /\ pos <= Len(data)
    BY DEF Inv, TypeOK
  <2>2. ~looping
    BY DEF Piece
  <2>3. Now' = Current.set /\ \A k : Complete(k)' => Complete(k)
    BY PieceAt, Zenon
  <2> QED
    BY <2>1, <2>2, <2>3
<1> PICK p : p = SubSeq(Cells(Current), have + 1, have + n)
  OBVIOUS
<1>1. /\ have + n <= Len(Cells(Current))
      /\ \/ UNCHANGED <<data, pos>>
         \/ /\ data' = (IF Reset(p) THEN <<>> ELSE data) \o Put(p)
            /\ pos' = IF Reset(p) THEN 0 ELSE pos
  BY Zenon DEF Piece, assembler, Position
<1>2. p \in Seq(Cell) /\ \A i \in 1..Len(Put(p)) : Put(p)[i].of.set = Current.set
  BY <1>1, PutIsOf
<1> PICK q \in Seq(Cell) : q = Put(p)
  BY <1>2, PutTypes
<1>3. /\ Len(q) \in Nat /\ \A i \in 1..Len(q) : q[i].of.set = Current.set
      /\ \/ UNCHANGED <<data, pos>>
         \/ data' = <<>> \o q /\ pos' = 0
         \/ data' = data \o q /\ pos' = pos
  <2>1. Len(q) \in Nat
    OBVIOUS
  <2>2. CASE Reset(p)
    BY <1>1, <1>2, <2>1, <2>2
  <2>3. CASE ~Reset(p)
    BY <1>1, <1>2, <2>1, <2>3
  <2> QED
    BY <2>2, <2>3
<1> SUFFICES ASSUME NEW d \in (pos' + 1)..Len(data'), Complete(data[d].of.set)',
                    data'[d].of.set # Current.set
             PROVE  data'[d].of.type = "marker" /\ d = pos' + 1
  BY <1>0, Zenon DEF LeftOver
<1>4. Complete(data'[d].of.set)
  BY <1>0, Zenon
<1>5. CASE UNCHANGED <<data, pos>>
  BY <1>0, <1>4, <1>5, OldCells
<1>6. CASE data' = <<>> \o q /\ pos' = 0
  <2>1. <<>> \o q = q
    BY ConcatEmptySeq
  <2>2. data' = q
    BY <1>6, <2>1
  <2>3. d \in 1..Len(q)
    BY <1>3, <1>6, <2>2
  <2> QED
    BY <1>3, <2>2, <2>3
<1>7. CASE data' = data \o q /\ pos' = pos
  <2> PICK l \in Nat, m \in Nat : l = Len(data) /\ m = Len(q)
    BY <1>0, <1>3
  <2>1. /\ Len(data') = l + m
        /\ \A i \in 1..l : data'[i] = data[i]
        /\ \A i \in 1..m : data'[l + i] = q[i]
    <3>1. /\ Len(data \o q) = Len(data) + Len(q)
          /\ \A i \in 1..Len(data) : (data \o q)[i] = data[i]
          /\ \A i \in 1..Len(q) : (data \o q)[Len(data) + i] = q[i]
      BY ONLY <1>0, q \in Seq(Cell), Joined
    <3> QED
      BY <1>7, <3>1
  <2>2. CASE d <= l
    <3>1. d \in 1..l /\ d \in (pos + 1)..Len(data)
      BY <1>0, <1>7, <2>2
    <3>2. data'[d] = data[d]
      BY <2>1, <3>1
    <3> QED
      BY <1>0, <1>4, <1>7, <3>1, <3>2, OldCells
  <2>3. CASE d > l
    <3>1. d - l \in 1..m
      BY <1>0, <1>7, <2>1, <2>3
    <3>i. PICK i \in 1..m : i = d - l
      BY <3>1
    <3>2. data'[l + i] = q[i] /\ q[i].of.set = Current.set
      BY <1>3, <2>1
    <3>3. l + i = d
      BY <3>i
    <3> QED
      BY <3>2, <3>3
  <2> QED
    BY <1>0, <1>7, <2>1, <2>2, <2>3
<1> QED
  BY <1>3, <1>5, <1>6, <1>7

\* Nor does it pass the end of a set that is in order, for it comes before the end or is
\* one of a set that has ended.
LEMMA PiecePassed ==
  ASSUME Inv, Delivering, ~failed, packet <= Len(broadcast),
         NEW n \in 1..Len(Cells(Current)), Piece(n), NEW k \in Sets, Clean(k)'
  PROVE  Passed(k)' <=> Passed(k)
<1>c. PICK c : c = Current.set
  OBVIOUS
<1>0. /\ k \in Nat /\ c \in Nat /\ At' >= 1 /\ Now' = c /\ ~looping
      /\ Clean(k) /\ Complete(k) /\ Complete(k)'
  <2>1. At' = packet /\ Now' = c
    BY <1>c, PieceAt
  <2>2. packet \in 1..Len(broadcast) /\ Len(broadcast) \in Nat /\ c \in Nat
    BY <1>c, CurrentIs
  <2>3. Clean(k) /\ Complete(k)' /\ Complete(k)
    BY PieceAt
  <2>4. ~looping
    BY DEF Piece
  <2>5. k \in Nat
    BY SetTypes
  <2> QED
    BY <2>1, <2>2, <2>3, <2>4, <2>5
<1>1. Passed(k)' <=> (k < c \/ (k = c /\ Over'))
  BY <1>0 DEF Passed
<1>2. CASE Starts /\ At = 0
  <2>1. ~Passed(k)
    BY <1>2 DEF Passed
  <2>2. ~(k < c)
    <3>1. have = 0 /\ packet = 1
      <4>1. packet \in 1..Len(broadcast) /\ Len(broadcast) \in Nat /\ have \in Nat
        BY CurrentIs
      <4>2. have = 0
        BY <1>2 DEF Starts
      <4> QED
        BY <1>2, <4>1, <4>2 DEF At
    <3>2. broadcast \in Broadcasts /\ DOMAIN broadcast = 1..Len(broadcast) /\ Len(broadcast) \in Nat
      BY BroadcastIs DEF Inv
    <3> PICK i \in 1..Len(broadcast) : k = broadcast[i].set
      BY <3>2 DEF Sets
    <3>3. broadcast[1].set <= broadcast[i].set
      BY <3>2, SetsGrow
    <3>4. c = broadcast[1].set
      BY <1>c, <3>1 DEF Current
    <3> QED
      BY <1>0, <3>3, <3>4
  <2>3. k = c => ~Over'
    BY <1>0, <1>2, <1>c, PieceStarts DEF Over
  <2> QED
    BY <1>1, <2>1, <2>2, <2>3
<1>3. CASE Starts /\ At >= 1
  <2>1. c = Now + 1 /\ Come = Len(Text) /\ Now \in Nat
    BY <1>3, <1>c, AtTypes DEF Starts
  <2>2. k = c => ~Over'
    BY <1>0, <1>3, <1>c, PieceStarts DEF Over
  <2>3. k = Now => Over
    BY <1>0, <1>3, <2>1, AllTaken DEF Delivering
  <2>4. Passed(k) <=> (k < Now \/ (k = Now /\ Over))
    BY <1>3 DEF Passed
  <2> QED
    BY ONLY <1>0, <1>1, <2>1, <2>2, <2>3, <2>4
<1>4. CASE GoesOn
  <2>1. At >= 1 /\ c = Now
    BY <1>4, <1>c DEF GoesOn
  <2>2. k = c => (Over' <=> Over)
    BY <1>0, <1>4, <1>c, PieceGoesOn
  <2> QED
    BY <1>1, <2>1, <2>2 DEF Passed
<1> QED
  BY <1>2, <1>3, <1>4, StartsOrGoesOn DEF Starts

\* So the sets that have been written stay in turn, and none is missing.
LEMMA PieceWritten ==
  ASSUME Inv, Delivering, ~failed, packet <= Len(broadcast),
         NEW n \in 1..Len(Cells(Current)), Piece(n)
  PROVE  InTurn' /\ Delivered'
<1>0. /\ InTurn /\ Delivered /\ Sets' = Sets /\ emitted' = emitted /\ subsstarted' = subsstarted
      /\ \A k : /\ Clean(k)' => Clean(k) /\ k \in Sets
                /\ Shows(k)' => Shows(k) /\ Clean(k)'
                /\ Sent(k)' = Sent(k)
  BY PieceAt DEF Delivering, Piece, store, Clean, Complete
<1>1. InTurn'
  <2> SUFFICES ASSUME NEW i \in DOMAIN emitted, NEW k, k = Last(emitted[i].cells).of.set,
                      Clean(k)'
               PROVE  /\ Passed(k)'
                      /\ \A j \in DOMAIN emitted : Last(emitted[j].cells).of.set = k => i = j
    BY <1>0 DEF InTurn
  <2>1. Clean(k) /\ k \in Sets
    BY <1>0
  <2>2. /\ Passed(k)
        /\ \A j \in DOMAIN emitted : Last(emitted[j].cells).of.set = k => i = j
    BY <1>0, <2>1 DEF InTurn
  <2> QED
    BY <2>1, <2>2, PiecePassed
<1>2. \A k \in Sets : Clean(k)' => (Passed(k)' <=> Passed(k))
  BY PiecePassed
<1>3. ASSUME NEW k \in Sets', Shows(k)', Passed(k)'
      PROVE  subsstarted'
  <2>1. k \in Sets /\ Shows(k) /\ Clean(k)'
    BY <1>0, <1>3
  <2>2. Passed(k)
    BY <1>2, <1>3, <2>1
  <2> QED
    BY <1>0, <2>1, <2>2 DEF Delivered
<1>4. ASSUME NEW k \in Sets', Clean(k)', Passed(k)', NEW j \in Sets', j <= k, Shows(j)'
      PROVE  \E i \in DOMAIN emitted' : emitted'[i] = Sent(k)'
  <2>1. k \in Sets /\ j \in Sets /\ Clean(k) /\ Shows(j) /\ Passed(k)
    BY <1>0, <1>2, <1>4
  <2>2. \E i \in DOMAIN emitted : emitted[i] = Sent(k)
    BY <1>0, <1>4, <2>1 DEF Delivered
  <2> QED
    BY <1>0, <2>2
<1>5. Delivered'
  BY <1>3, <1>4 DEF Delivered
<1> QED
  BY <1>1, <1>5

LEMMA PieceDelivering ==
  ASSUME Inv, Delivering, NEW n \in 1..Len(Cells(Current)), Piece(n)
  PROVE  Delivering'
<1>0. /\ packet <= Len(broadcast) /\ failed' = failed /\ fifo' = fifo /\ size' = size
  BY DEF Piece, store
<1> SUFFICES ASSUME ~failed
             PROVE  /\ Fresh' /\ Gathered' /\ CaughtUp' /\ Queued' /\ LeftOver' /\ InTurn'
                    /\ Delivered'
  BY <1>0 DEF Delivering
<1>1. Fresh' /\ At' >= 1 /\ Now' = Current.set /\ Text' = Current.text
  <2>1. At' = packet /\ Now' = Current.set /\ Text' = Current.text
    BY <1>0, PieceAt
  <2>2. packet \in 1..Len(broadcast) /\ Len(broadcast) \in Nat
    BY <1>0, CurrentIs
  <2> QED
    BY <2>1, <2>2 DEF Fresh
<1> PICK k : k = Current.set
  OBVIOUS
<1>2. ASSUME Complete(k)', Starts
      PROVE  Gathered' /\ CaughtUp' /\ Queued'
  <2>1. /\ pos' = 0 /\ looping' /\ Gathered'
        /\ Clean(k)' => fifo = <<>> /\ size = 0
    BY <1>0, <1>2, PieceStarts DEF Piece
  <2>2. ~Over'
    BY <2>1 DEF Over
  <2>3. Kept(Current.text)[2] = <<>>
    <3> PICK t \in Seq(Cell) : t = Current.text
      BY <1>0, CurrentIs
    <3>1. DisplaySet(k, t) /\ Len(t) \in Nat
      BY <1>0, CurrentIs
    <3> PICK o \in Nat, w \in Nat : o = 0 /\ w = 2
      OBVIOUS
    <3>2. \A i \in 1..w : t[o + i].of.type \in Fillers
      <4>1. \A i \in 1..2 : t[i].of.type = "prefix"
        BY <3>1 DEF DisplaySet
      <4>2. \A i \in 1..w : i \in 1..2 /\ o + i = i
        OBVIOUS
      <4> QED
        BY <4>1, <4>2 DEF Fillers
    <3>3. o + w <= Len(t)
      BY <3>1 DEF DisplaySet
    <3>4. Kept(t)[o + w] = Kept(t)[o]
      BY ONLY t \in Seq(Cell), o \in Nat, w \in Nat, <3>2, <3>3, KeptFillers
    <3>5. Kept(t)[2] = Kept(t)[0]
      BY <3>4
    <3> QED
      BY <3>5, KeptIs
  <2>4. Queued'
    <3>1. pos' + 2 = 2 /\ Len(<<>>) = 0
      BY <2>1
    <3> QED
      BY <1>0, <1>1, <2>1, <2>2, <2>3, <3>1 DEF Queued
  <2>5. CaughtUp'
    BY <2>1 DEF CaughtUp
  <2> QED
    BY <2>1, <2>4, <2>5
<1>3. ASSUME Complete(k)', GoesOn
      PROVE  Gathered' /\ CaughtUp' /\ Queued'
  <2>1. pos' = pos /\ looping' /\ Gathered' /\ (Over' <=> Over) /\ Complete(k)
    BY <1>0, <1>3, PieceGoesOn
  <2>2. At >= 1 /\ Now = k /\ Text = Current.text
    BY <1>3 DEF GoesOn
  <2>3. Clean(k)' => Clean(k)
    BY <1>0, PieceAt
  <2>4. Queued
    BY DEF Delivering
  <2>5. Queued'
    BY <1>0, <1>1, <2>1, <2>2, <2>3, <2>4 DEF Queued
  <2>6. CaughtUp'
    BY <2>1 DEF CaughtUp
  <2> QED
    BY <2>1, <2>5, <2>6
<1>4. ASSUME ~Complete(k)'
      PROVE  Gathered' /\ CaughtUp' /\ Queued'
  BY <1>1, <1>4 DEF Gathered, CaughtUp, Queued
<1>5. Gathered' /\ CaughtUp' /\ Queued'
  BY <1>0, <1>2, <1>3, <1>4, StartsOrGoesOn
<1> QED
  BY <1>0, <1>1, <1>5, PieceLeaves, PieceWritten

-----------------------------------------------------------------------------
(* From every state to the next.                                           *)

LEMMA InitDelivering == Init => Delivering /\ SetsWhole
<1> SUFFICES ASSUME Init
             PROVE  Delivering /\ SetsWhole
  OBVIOUS
<1>1. At = 0 /\ ~(At >= 1)
  BY DEF Init, At
<1>2. DOMAIN emitted = {}
  BY EmptySeq DEF Init
<1>3. Fresh
  BY DEF Init, Fresh
<1>4. Gathered /\ CaughtUp /\ Queued /\ LeftOver
  BY <1>1 DEF Gathered, CaughtUp, Queued, LeftOver
<1>5. InTurn /\ SetsWhole
  BY <1>2 DEF InTurn, SetsWhole
<1>6. Delivered
  BY <1>1 DEF Delivered, Passed
<1> QED
  BY <1>3, <1>4, <1>5, <1>6 DEF Delivering

\* Steps that have nothing to do with display sets.
LEMMA StillDelivering ==
  ASSUME Delivering, SetsWhole,
         UNCHANGED <<broadcast, packet, have, looping, data, pos, fifo, size, headerstore,
                     subsstarted, emitted, failed, harmed>>
  PROVE  Delivering' /\ SetsWhole'
<1>1. /\ At' = At /\ Now' = Now /\ Text' = Text /\ Come' = Come /\ Sets' = Sets
      /\ \A k : /\ Complete(k)' <=> Complete(k)
                /\ Clean(k)' <=> Clean(k)
                /\ Opening(k)' = Opening(k) /\ Sent(k)' = Sent(k)
                /\ Shows(k)' <=> Shows(k)
  BY Same
<1>2. SetsWhole'
  BY <1>1 DEF SetsWhole
<1>3. Over' <=> Over
  BY DEF Over
<1>4. \A k : Passed(k)' <=> Passed(k)
  BY <1>1, <1>3 DEF Passed
<1>5. ASSUME ~failed
      PROVE  Fresh' /\ Gathered' /\ CaughtUp' /\ Queued' /\ LeftOver' /\ InTurn' /\ Delivered'
  <2>0. Fresh /\ Gathered /\ CaughtUp /\ Queued /\ LeftOver /\ InTurn /\ Delivered
    BY <1>5 DEF Delivering
  <2>1. Fresh'
    BY <1>1, <2>0 DEF Fresh
  <2>2. Gathered'
    BY <1>1, <2>0 DEF Gathered
  <2>3. CaughtUp'
    BY <1>1, <2>0 DEF CaughtUp
  <2>4. Queued'
    BY <1>1, <1>3, <2>0 DEF Queued
  <2>5. LeftOver'
    BY <1>1, <2>0 DEF LeftOver
  <2>6. InTurn'
    BY <1>1, <1>4, <2>0 DEF InTurn
  <2>7. Delivered'
    BY <1>1, <1>4, <2>0 DEF Delivered
  <2> QED
    BY <2>1, <2>2, <2>3, <2>4, <2>5, <2>6, <2>7
<1>6. Delivering'
  BY <1>5 DEF Delivering
<1> QED
  BY <1>2, <1>6

\* Where nothing is written, what was written stays right.
LEMMA StillWhole ==
  ASSUME SetsWhole, emitted' = emitted,
         \A k : (Clean(k)' => Clean(k)) /\ Sent(k)' = Sent(k)
  PROVE  SetsWhole'
BY DEF SetsWhole

LEMMA StepDelivering ==
  ASSUME Inv, Delivering, SetsWhole, [Next]_vars
  PROVE  Delivering' /\ SetsWhole'
<1>1. CASE Process \/ Return \/ UNCHANGED vars
  <2>1. UNCHANGED <<broadcast, packet, have, looping, data, pos, fifo, size, headerstore,
                    subsstarted, emitted, failed, harmed>>
    BY <1>1 DEF Process, Return, vars, assembler, store, history
  <2> QED
    BY <2>1, StillDelivering
<1>2. ASSUME NEW n \in 1..(IF packet <= Len(broadcast) THEN Len(Cells(Current)) ELSE 0),
             Piece(n)
      PROVE  Delivering' /\ SetsWhole'
  <2>1. packet <= Len(broadcast) /\ emitted' = emitted
    BY <1>2 DEF Piece, store
  <2>2. n \in 1..Len(Cells(Current))
    BY <1>2, <2>1
  <2>3. \A k : (Clean(k)' => Clean(k)) /\ Sent(k)' = Sent(k)
    BY <1>2, <2>1, <2>2, PieceAt
  <2> QED
    BY <1>2, <2>1, <2>2, <2>3, PieceDelivering, StillWhole
<1>3. CASE NoSegment \/ NotASegment \/ Stuffing \/ Segment
  <2>1. UNCHANGED <<broadcast, packet, have, harmed, emitted>>
    BY <1>3 DEF NoSegment, NotASegment, Stuffing, Segment, assembler, store, history
  <2>2. \A k : (Clean(k)' => Clean(k)) /\ Sent(k)' = Sent(k)
    BY <2>1, Same
  <2> QED
    BY <1>3, <2>1, <2>2, StillWhole, NoSegmentDelivering, NotASegmentDelivering,
       StuffingDelivering, SegmentDelivering
<1>4. CASE End
  BY <1>4, EndDelivering
<1>5. CASE Overrun
  <2>1. failed' = TRUE /\ UNCHANGED <<broadcast, packet, have, harmed, emitted>>
    BY <1>5 DEF Overrun, history
  <2>2. \A k : (Clean(k)' => Clean(k)) /\ Sent(k)' = Sent(k)
    BY <2>1, Same
  <2> QED
    BY <2>1, <2>2, StillWhole DEF Delivering
<1> QED
  BY <1>1, <1>2, <1>3, <1>4, <1>5 DEF Next, Step

\* A complete set of which every packet has come has ended when the loop has.
LEMMA AllPassed ==
  ASSUME Inv, Delivering, ~looping, ~failed, NEW k \in Sets, Clean(k),
         \A i \in DOMAIN broadcast : broadcast[i].set = k => i < packet
  PROVE  Passed(k)
<1>0. /\ broadcast \in Broadcasts /\ Len(broadcast) \in Nat /\ DOMAIN broadcast = 1..Len(broadcast)
      /\ packet \in 1..(Len(broadcast) + 1) /\ k \in Nat
  BY BroadcastIs, SetTypes DEF Inv, TypeOK
<1> PICK i \in 1..Len(broadcast) : k = broadcast[i].set
  BY <1>0 DEF Sets
<1>1. i < packet
  BY <1>0
<1>2. /\ At \in 1..Len(broadcast) /\ i <= At /\ (At = packet \/ (have = 0 /\ At = packet - 1))
      /\ At >= 1
  <2>1. At = packet \/ (have = 0 /\ At = packet - 1)
    BY DEF At
  <2>2. At \in 0..Len(broadcast)
    BY AtTypes
  <2> QED
    BY <1>0, <1>1, <2>1, <2>2
<1> PICK a \in 1..Len(broadcast) : a = At
  BY <1>2
<1>3. Now = broadcast[a].set /\ Now \in Nat
  BY <1>2, AtTypes DEF Now
<1>4. k <= Now
  <2>1. i \in 1..a
    BY <1>2
  <2> QED
    BY <1>0, <1>3, <2>1, SetsGrow
<1>5. CASE k < Now
  BY <1>2, <1>5 DEF Passed
<1>6. CASE k = Now
  <2>1. a < packet
    BY <1>0, <1>3, <1>6
  <2>2. have = 0 /\ packet = a + 1
    BY <1>0, <1>2, <2>1
  <2>3. Come = broadcast[a].upto /\ Text = broadcast[a].text
    BY <2>2 DEF Come, Text
  <2>4. broadcast[a].upto = Len(broadcast[a].text)
    <3>1. CASE a = Len(broadcast)
      BY <1>0, <3>1, BroadcastIs
    <3>2. CASE a # Len(broadcast)
      <4>0. a + 1 \in 1..Len(broadcast)
        <5>1. Len(broadcast) \in Nat
          BY <1>0
        <5> QED
          BY ONLY <3>2, <5>1, a \in 1..Len(broadcast)
      <4> PICK b \in 1..Len(broadcast) : b = a + 1
        BY <4>0
      <4>1. b # 1 /\ b - 1 = a /\ b = packet
        BY <2>2, SMTT(30)
      <4>2. Goes(broadcast[a], broadcast[b])
        BY <1>0, <4>1, BroadcastIs
      <4>3. broadcast[b].set # k
        BY <1>0, <4>1
      <4> QED
        BY <1>3, <1>6, <4>2, <4>3 DEF Goes
    <3> QED
      BY <3>1, <3>2
  <2>5. Come = Len(Text)
    BY <2>3, <2>4
  <2>6. Complete(Now)
    BY <1>6 DEF Clean
  <2>7. Gathered /\ CaughtUp
    BY DEF Delivering
  <2>8. Over
    BY <1>2, <2>5, <2>6, <2>7, AllTaken
  <2> QED
    BY <1>2, <1>6, <2>8 DEF Passed
<1> QED
  BY <1>0, <1>3, <1>4, <1>5, <1>6

LEMMA DeliveringIsDelivered == Inv /\ Delivering => SetsDelivered
<1> SUFFICES ASSUME Inv, Delivering, NEW k \in Sets, Clean(k), ~looping, ~failed,
                    \A i \in DOMAIN broadcast : broadcast[i].set = k => i < packet,
                    NEW j \in Sets, j <= k, Clean(j), Probe(Whole(j)) = {TRUE}
             PROVE  Cardinality({i \in DOMAIN emitted : emitted[i] = Sent(k)}) = 1
  BY DEF SetsDelivered
<1>1. Passed(k)
  BY AllPassed
<1>2. Delivered /\ InTurn
  BY DEF Delivering
<1>3. Shows(j)
  BY DEF Shows
<1>4. \E i \in DOMAIN emitted : emitted[i] = Sent(k)
  BY <1>1, <1>2, <1>3 DEF Delivered
<1> PICK i \in DOMAIN emitted : emitted[i] = Sent(k)
  BY <1>4
<1>5. Last(Sent(k).cells).of.set = k
  <2>1. Complete(k)
    BY DEF Clean
  <2>2. Sent(k).cells = Whole(k)
    BY DEF Sent
  <2> QED
    BY <2>1, <2>2, WholeIs
<1>6. ASSUME NEW l \in DOMAIN emitted, emitted[l] = Sent(k)
      PROVE  l = i
  <2>1. Last(emitted[i].cells).of.set = k /\ Last(emitted[l].cells).of.set = k
    BY <1>5, <1>6
  <2> QED
    BY <1>2, <2>1 DEF InTurn
<1>7. {l \in DOMAIN emitted : emitted[l] = Sent(k)} = {i}
  BY <1>6
<1> QED
  BY <1>7, FS_Singleton

-----------------------------------------------------------------------------
(* Theorems.                                                               *)

\* No step leaves the invariant.
LEMMA StepInv == Inv /\ [Next]_vars => Inv'
<1> SUFFICES ASSUME Inv, [Next]_vars
             PROVE  Inv'
  OBVIOUS
<1>1. CASE Process
  BY <1>1, ProcessInv
<1>2. ASSUME NEW n \in 1..(IF packet <= Len(broadcast) THEN Len(Cells(Current)) ELSE 0),
             Piece(n)
      PROVE  Inv'
  <2>1. packet <= Len(broadcast)
    BY <1>2 DEF Piece
  <2> QED
    BY <1>2, <2>1, PieceInv
<1>3. CASE NoSegment \/ NotASegment \/ Stuffing
  BY <1>3, LoopEndsInv
<1>4. CASE Segment
  BY <1>4, SegmentInv
<1>5. CASE End
  BY <1>5, EndInv
<1>6. CASE Return
  BY <1>6, ReturnInv
<1>7. CASE UNCHANGED vars
  <2>1. TypeOK'
    BY <1>7 DEF Inv, TypeOK, vars, Current
  <2> QED
    BY <1>7, <2>1 DEF Inv, vars, Ended, Covered, SizeIsBuffered, Mutex
<1>8. CASE Overrun
  BY <1>8, OverrunInv
<1> QED
  BY <1>1, <1>2, <1>3, <1>4, <1>5, <1>6, <1>7, <1>8 DEF Next, Step

\* The invariant holds in every state.
LEMMA Always == Spec => []Inv
BY InitInv, StepInv, PTL DEF Spec

\* cDvbSubtitleAssembler and cPES keep to their types: the position never leaves the
\* data, the fifo never holds more than it can.
THEOREM TypeCorrect == Spec => []TypeOK
<1>1. Inv => TypeOK
  BY DEF Inv
<1> QED
  BY <1>1, Always, PTL

\* size, by which the fifo is read when a display set ends, is the number of bytes in
\* the fifo unless the fifo was too small for the set.
THEOREM SizeIsBufferedHolds == Spec => []SizeIsBuffered
<1>1. Inv => SizeIsBuffered
  BY DEF Inv
<1> QED
  BY <1>1, Always, PTL

\* Short reads and writes of the fifo unlock the mutex in the middle of Process, once
\* too often; still the next call of Process finds it free or its own.
THEOREM NeverBlocksHolds == Spec => []NeverBlocks
<1>1. Inv => NeverBlocks
  BY DEF Inv, TypeOK, Mutex, NeverBlocks, LockBlocks
<1> QED
  BY <1>1, Always, PTL

\* What the assembler and the fifo hold of the set under way, and what has been written.
LEMMA AlwaysDelivering == Spec => [](Delivering /\ SetsWhole)
<1>1. Init => Inv /\ Delivering /\ SetsWhole
  BY InitInv, InitDelivering
<1>2. Inv /\ Delivering /\ SetsWhole /\ [Next]_vars => (Inv /\ Delivering /\ SetsWhole)'
  BY StepInv, StepDelivering
<1> QED
  BY <1>1, <1>2, PTL DEF Spec

\* Wherever VDR has cut a display set into packets, if none of their pieces is taken for
\* AC3 or DTS (and none can be unless the end of a chunk cuts a packet or its header),
\* what is written at its end is the set that was broadcast, with its own PTS and length:
\* the same segments in the same order, with no byte of another set before, between or
\* after them.
THEOREM SetsWholeHolds == Spec => []SetsWhole
BY AlwaysDelivering, PTL

\* And no such set is lost or written twice, once the stream has shown a set that has a
\* segment of each kind.
THEOREM SetsDeliveredHolds == Spec => []SetsDelivered
BY Always, AlwaysDelivering, DeliveringIsDelivered, PTL

=============================================================================
