-------------------------- MODULE SubtitleAssembler ---------------------------
(***************************************************************************)
(* What cPES::Process does with the packets of a DVB subtitle stream, the  *)
(* part of Action3 that module Pes leaves out.  VDR 1.x cuts a display set *)
(* into packets at any byte; genindex puts it together again in            *)
(* cDvbSubtitleAssembler, takes whole segments from there to a fifo, and   *)
(* writes the set as one packet when its last segment has come.            *)
(*                                                                         *)
(* A cell is one byte: the segment it belongs to and its place in it.  The *)
(* fifo is what module BoundedQueue says; malloc does not fail.  The other *)
(* packets of a chunk are left out, and what Process hands on of them.     *)
(***************************************************************************)
EXTENDS Integers, FiniteSets, SequencesExt

CONSTANTS
  Broadcasts,  \* the sequences of subtitle packets to choose from
  Capacity,    \* 64 KB - 1: what the fifo can hold and a packet's length can say; outbuf
               \* has room for one cell more
  Overhead,    \* bytes that a packet's length counts besides its payload
  Counts,      \* what the length of a segment may seem to be where none begins
  Garbage,     \* what ptsnow may be before it is written
  MaxCuts      \* bound: headers and payloads that are cut by the end of a chunk

\* Segments, and what is none: headers, what surrounds the segments, old memory.
Types == {"page", "region", "clut", "object", "display", "unknown", "stuffing", "end",
          "substream", "prefix", "marker", "junk"}
Cell  == [of : [set : Nat, type : Types, size : Nat \ {0}], at : Nat]

\* text is the display set as it was before VDR cut it into packets; this one has the
\* bytes after from, up to upto.  set tells the sets apart; the others are what the PES
\* header says.
SubtitlePacket ==
  [set : Nat, text : Seq(Cell), from : Nat, upto : Nat,
   pts : Nat, reset : BOOLEAN, huge : BOOLEAN, plugin : BOOLEAN]

\* VDR, but not the old subtitles plugin, puts a substream header before them.
Substream(p) ==
  IF p.plugin THEN <<>>
  ELSE [i \in 1..4 |-> [of |-> [set |-> p.set, type |-> "substream", size |-> 4], at |-> i - 1]]

Cells(p) == Substream(p) \o SubSeq(p.text, p.from + 1, p.upto)

ASSUME SubtitleAssumption ==
  /\ Capacity \in Nat /\ MaxCuts \in Nat /\ Overhead \in Nat /\ Garbage \subseteq Int
  /\ Counts \subseteq Nat /\ \A n \in Counts : n >= 6
  /\ \A b \in Broadcasts :
       /\ b \in Seq(SubtitlePacket)
       /\ \A i \in DOMAIN b : b[i].from < b[i].upto /\ b[i].upto <= Len(b[i].text)

\* A display set: what surrounds the segments, and the segments, each of them whole; the
\* one that says "end" is the last.
DisplaySet(k, t) ==
  /\ Len(t) >= 3 /\ t[Len(t)].at = t[Len(t)].of.size - 1
  /\ \A i \in 1..Len(t) : t[i].of.set = k
  /\ \A i \in 1..2 : t[i].of.type = "prefix" /\ t[i].at = i - 1
  /\ \A i \in 3..Len(t) :
       /\ t[i].of.type \notin {"prefix", "substream", "junk"}
       /\ IF t[i].of.type = "marker" THEN i = Len(t) ELSE t[i].of.size >= 6
       /\ IF i > 3 /\ t[i - 1].at + 1 < t[i - 1].of.size
          THEN t[i] = [t[i - 1] EXCEPT !.at = @ + 1]
          ELSE t[i].at = 0
       /\ t[i].of.type = "end" =>
            \A j \in (i + 1)..Len(t) : t[j].at = 0 => t[j].of.type = "marker"

\* Display sets follow one another, each from its first packet to its last.  Only the
\* first has a PTS and tells the assembler to start anew: "continuation packets don't
\* have a PTS AFAIK" (pes.c:691).
Begins(p) == p.from = 0 /\ p.pts > 0 /\ p.reset
Goes(q, p) ==
  \/ p.set = q.set + 1 /\ q.upto = Len(q.text) /\ Begins(p)
  \/ /\ p.set = q.set /\ p.text = q.text /\ p.plugin = q.plugin
     /\ p.from = q.upto /\ p.pts = 0 /\ ~p.reset

ASSUME BroadcastAssumption ==
  \A b \in Broadcasts : \A i \in DOMAIN b :
    /\ b[i].set > 0 /\ DisplaySet(b[i].set, b[i].text)
    /\ IF i = 1 THEN Begins(b[i]) ELSE Goes(b[i - 1], b[i])
    /\ i = Len(b) => b[i].upto = Len(b[i].text)

VARIABLES
  broadcast,
  packet, have,     \* the packet under way, and the cells of it dealt with
  chunk,            \* "none" outside Process; "late" if the header of the packet it begins
                    \* with has come before, else "open"; "used" once it is used up;
                    \* "undefined" once outbuf has been overrun
  looping,          \* in the loop that takes segments from the assembler
  data, pos,        \* cDvbSubtitleAssembler
  fifo, size,
  ptsnow,           \* the PTS last seen
  headerstore,      \* the PTS of the header stored, 0 if there is none
  subsstarted,
  emitted,          \* the packets written
  mutex,            \* cMutex: locked, lockingPid set, and the mutex itself
  failed,           \* nothing more is called: Output has returned -1, or outbuf is overrun
  cuts, harmed      \* history: cuts so far; the sets of which something is lost

assembler == <<data, pos>>
store     == <<fifo, size, subsstarted, emitted, failed>>
history   == <<cuts, harmed>>
vars == <<broadcast, packet, have, chunk, looping, data, pos, fifo, size, ptsnow,
          headerstore, subsstarted, emitted, mutex, failed, cuts, harmed>>

Init ==
  /\ broadcast \in Broadcasts /\ packet = 1 /\ have = 0
  /\ chunk = "none" /\ looping = FALSE
  /\ data = <<>> /\ pos = 0 /\ fifo = <<>> /\ size = 0
  /\ ptsnow \in Garbage /\ headerstore = 0 /\ subsstarted = FALSE
  /\ emitted = <<>> /\ failed = FALSE
  /\ mutex = [locked |-> 0, mine |-> FALSE, held |-> FALSE]
  /\ cuts = 0 /\ harmed = {}

-----------------------------------------------------------------------------
(* cMutex.  Lock waits if the mutex is held, and nobody else would free it. *)

\* Slip: a count below zero is taken for a mutex that is free.
LockBlocksBelow(m) == (~m.mine \/ m.locked <= 0) /\ m.held

LockBlocks(m) == (~m.mine \/ m.locked = 0) /\ m.held

Lock(m) == [locked |-> m.locked + 1, mine |-> TRUE, held |-> TRUE]

Unlock(m) ==
  IF m.locked = 1 THEN [locked |-> 0, mine |-> FALSE, held |-> FALSE]
  ELSE [m EXCEPT !.locked = @ - 1]

\* A chunk arrives; there is one as long as there are packets.
Process ==
  /\ chunk = "none" /\ ~failed /\ packet <= Len(broadcast)
  /\ ~LockBlocks(mutex)
  /\ mutex' = Lock(mutex)
  /\ \/ chunk' = "open" /\ UNCHANGED cuts
     \/ have = 0 /\ cuts < MaxCuts /\ chunk' = "late" /\ cuts' = cuts + 1
  /\ UNCHANGED <<broadcast, packet, have, looping, assembler, store, ptsnow,
                 headerstore, harmed>>

Return ==
  /\ chunk \notin {"none", "undefined"} /\ ~looping
  /\ chunk = "open" => have = 0
  /\ mutex' = Unlock(mutex)
  /\ chunk' = "none"
  /\ UNCHANGED <<broadcast, packet, have, looping, assembler, store, ptsnow,
                 headerstore, history>>

-----------------------------------------------------------------------------
(* A piece of a packet is put into the assembler.                          *)

Current == broadcast[packet]
First   == have = 0

\* The first piece of a packet begins with a substream header.
Stripped == IF First THEN IF Current.plugin THEN 1 ELSE 4 ELSE 0

\* header[headerSize] tells subtitles from AC3 and DTS, for each piece anew.  It is the
\* byte after the header only if that is in this chunk: else it is what hbuff, or the
\* place in the chunk, holds.  The old plugin's packets are told by a byte of the header.
HeaderGone == IF First THEN chunk = "late" /\ ~Current.plugin ELSE TRUE

\* A step back in time or a huge header: the piece is dropped.
Rejected ==
  /\ First /\ Current.pts > 0
  /\ Current.pts < ptsnow \/ Current.huge

\* The first byte of a segment says 0x0F; no other byte does.
IsSync(cell) == cell.at = 0 /\ cell.of.type \notin {"prefix", "marker", "substream"}

\* The identifier and stream id of the PES data field are not for the assembler.
WithoutPrefix(d) ==
  IF d[1].of.type = "prefix" /\ d[1].at = 0 /\ d[2].of.type = "prefix" /\ IsSync(d[3])
  THEN SubSeq(d, 3, Len(d)) ELSE d

\* What is put, of the piece p; less than four bytes are ignored.
Put(p) == IF Len(p) - Stripped > 3
          THEN WithoutPrefix(SubSeq(p, Stripped + 1, Len(p))) ELSE <<>>

\* Slip: the assembler starts anew with each packet.
ResetAlways(p) == First /\ Len(p) > Stripped

\* The assembler starts anew with the packet a display set begins with.
Reset(p) == First /\ Current.reset /\ Len(p) > Stripped

\* Slip: Reset() leaves the position alone.
PositionKept(p) == pos

Position(p) == IF Reset(p) THEN 0 ELSE pos

\* A cut that leaves too little of the packet on one of its sides.
Badly(n) == n < IF First THEN Stripped + 4 ELSE 4

Piece(n) ==
  LET p == SubSeq(Cells(Current), have + 1, have + n)
      whole == have + n = Len(Cells(Current))
  IN /\ chunk \in {"open", "late"} /\ ~looping /\ packet <= Len(broadcast)
     /\ have + n <= Len(Cells(Current))
     /\ ~whole => cuts < MaxCuts
     /\ \/ /\ HeaderGone                 \* it is taken for AC3 or DTS and handed on
           /\ First => n > 4             \* with less, payloadSize and used go astray
           /\ harmed' = harmed \cup {Current.set}
           /\ UNCHANGED <<ptsnow, headerstore, assembler, looping>>
        \/ /\ Rejected
           /\ harmed' = harmed \cup {Current.set}
           /\ ptsnow' = Current.pts
           /\ UNCHANGED <<headerstore, assembler, looping>>
        \/ /\ ~Rejected
           /\ harmed' = IF Badly(n) THEN harmed \cup {Current.set} ELSE harmed
           /\ IF First /\ Current.pts > 0
              THEN ptsnow' = Current.pts /\ headerstore' = Current.pts
              ELSE UNCHANGED <<ptsnow, headerstore>>
           /\ data' = (IF Reset(p) THEN <<>> ELSE data) \o Put(p)
           /\ pos' = Position(p)
           /\ looping' = (Put(p) # <<>>)
     /\ packet' = IF whole THEN packet + 1 ELSE packet
     /\ have' = IF whole THEN 0 ELSE have + n
     /\ chunk' = IF whole THEN "open" ELSE "used"
     /\ cuts' = IF whole THEN cuts ELSE cuts + 1
     /\ UNCHANGED <<broadcast, store, mutex>>

-----------------------------------------------------------------------------
(* The loop: segments are taken from the assembler.                        *)

\* The length that is read at pos, where a segment begins or not.
Length == IF IsSync(data[pos + 1]) THEN {data[pos + 1].of.size} ELSE Counts

Got(n) == n \in Length /\ Len(data) >= pos + n

Found == data[pos + 1].of

\* Slip: the loop ends only if not even a length has come.
NoSegmentWaits ==
  /\ looping /\ Len(data) <= pos + 5
  /\ looping' = FALSE
  /\ UNCHANGED <<broadcast, packet, have, chunk, assembler, store, ptsnow,
                 headerstore, mutex, history>>

\* Get has nothing, or not enough.
NoSegment ==
  /\ looping
  /\ Len(data) > pos + 5 => \E n \in Length : Len(data) < pos + n
  /\ looping' = FALSE
  /\ UNCHANGED <<broadcast, packet, have, chunk, assembler, store, ptsnow,
                 headerstore, mutex, history>>

\* What Get found is no segment: the loop ends, and the bytes are gone.
NotASegment ==
  /\ looping /\ Len(data) > pos + 5 /\ ~IsSync(data[pos + 1])
  /\ \E n \in Length : Got(n) /\ pos' = pos + n
  /\ looping' = FALSE
  /\ UNCHANGED <<broadcast, packet, have, chunk, data, store, ptsnow,
                 headerstore, mutex, history>>

Stuffing ==
  /\ looping /\ Len(data) > pos + 5 /\ IsSync(data[pos + 1])
  /\ Found.type = "stuffing" /\ Got(Found.size)
  /\ pos' = pos + Found.size
  /\ UNCHANGED <<broadcast, packet, have, chunk, looping, data, store, ptsnow,
                 headerstore, mutex, history>>

\* fifo_write stops at the limit; size counts the whole segment all the same.
\* Slip: a cell of the fifo stays unused.
RoomOneLess(n) == Min({n, Capacity - Len(fifo) - 1})

Room(n) == Min({n, Capacity - Len(fifo)})
Written(n) == fifo \o SubSeq(data, pos + 1, pos + Room(n))

\* After a short write or read, Return() unlocks and the code goes on.
Checked(m, moved, n) == IF moved = n THEN m ELSE Unlock(m)

Segment ==
  /\ looping /\ Len(data) > pos + 5 /\ IsSync(data[pos + 1])
  /\ Found.type \notin {"stuffing", "end"} /\ Got(Found.size)
  /\ pos' = pos + Found.size
  /\ fifo' = Written(Found.size)
  /\ size' = size + Found.size
  /\ mutex' = Checked(mutex, Room(Found.size), Found.size)
  /\ UNCHANGED <<broadcast, packet, have, chunk, looping, data, subsstarted,
                 emitted, failed, ptsnow, headerstore, history>>

\* dvbsub_probe: five segments of known type, one of each of the first four.
\* What is read beyond the end of outbuf, if the fifo was too small, may be anything.
Known == {"page", "region", "clut", "object", "display", "end"}
Junk  == [of |-> [set |-> 0, type |-> "junk", size |-> 1], at |-> 0]

Probe(outbuf) ==
  LET types == [i \in {i \in DOMAIN outbuf : outbuf[i].at = 0} |-> outbuf[i].of.type]
      scored == {i \in DOMAIN types : \A k \in DOMAIN types : k <= i => types[k] \in Known}
      score == /\ {"page", "region", "clut", "object"} \subseteq {types[i] : i \in scored}
               /\ Cardinality(scored) >= 5
  IN IF "junk" \in {types[i] : i \in DOMAIN types} THEN BOOLEAN ELSE {score}

\* The packet that is written: its length, marker and all, has 16 bits.
Pes(outbuf) ==
  [pts |-> headerstore, length |-> (Overhead + Len(outbuf) + 1) % (Capacity + 1),
   cells |-> outbuf]

\* The segment that ends the display set: it is written, if it is to be and outbuf can
\* hold it and the marker.
End ==
  LET queue  == Written(Found.size)
      wanted == size + Found.size
      moved  == Min({wanted, Len(queue)})
      outbuf == [i \in 1..wanted |-> IF i <= moved THEN queue[i] ELSE Junk]
      after  == Checked(Checked(mutex, Room(Found.size), Found.size), moved, wanted)
  IN /\ looping /\ Len(data) > pos + 5 /\ IsSync(data[pos + 1])
     /\ Found.type = "end" /\ Got(Found.size)
     /\ pos' = pos + Found.size
     /\ fifo' = SubSeq(queue, moved + 1, Len(queue))
     /\ \E score \in Probe(outbuf) : subsstarted' = (subsstarted \/ score)
     /\ subsstarted' => wanted <= Capacity
     /\ \/ /\ size' = 0 /\ mutex' = after
           /\ emitted' = IF subsstarted' THEN Append(emitted, Pes(outbuf)) ELSE emitted
           /\ UNCHANGED <<chunk, looping, failed>>
        \/ /\ subsstarted'                          \* Output fails
           /\ size' = wanted + 1 /\ mutex' = Unlock(after)
           /\ chunk' = "none" /\ looping' = FALSE /\ failed' = TRUE
           /\ UNCHANGED emitted
     /\ UNCHANGED <<broadcast, packet, have, data, ptsnow, headerstore, history>>

\* The segments are more than outbuf holds: dvbsub_probe reads and, if they are to be
\* written, the marker is put behind its end.  Nothing can be said of what happens then.
Overrun ==
  /\ looping /\ Len(data) > pos + 5 /\ IsSync(data[pos + 1])
  /\ Found.type = "end" /\ Got(Found.size)
  /\ size + Found.size > Capacity
  /\ chunk' = "undefined" /\ looping' = FALSE /\ failed' = TRUE
  /\ UNCHANGED <<broadcast, packet, have, assembler, fifo, size, subsstarted, emitted,
                 ptsnow, headerstore, mutex, history>>

Step ==
  \/ \E n \in 1..(IF packet <= Len(broadcast) THEN Len(Cells(Current)) ELSE 0) : Piece(n)
  \/ NoSegment \/ NotASegment \/ Stuffing \/ Segment \/ End \/ Overrun \/ Return

Next == Process \/ Step

Spec     == Init /\ [][Next]_vars
FairSpec == Spec /\ WF_vars(Step)

-----------------------------------------------------------------------------
(* Properties.                                                             *)

\* The variables keep to their types, and the position lies within the data.
TypeOK ==
  /\ packet \in 1..(Len(broadcast) + 1)
  /\ have \in 0..(IF packet <= Len(broadcast) THEN Len(Cells(Current)) - 1 ELSE 0)
  /\ chunk \in {"none", "open", "late", "used", "undefined"} /\ looping \in BOOLEAN
  /\ data \in Seq(Cell) /\ pos \in 0..Len(data)
  /\ fifo \in Seq(Cell) /\ Len(fifo) <= Capacity /\ size \in Nat
  /\ ptsnow \in Int /\ headerstore \in Nat
  /\ {subsstarted, failed} \subseteq BOOLEAN
  /\ emitted \in Seq([pts : Nat, length : Nat, cells : Seq(Cell)])
  /\ mutex \in [locked : Int, mine : BOOLEAN, held : BOOLEAN]
  /\ cuts \in 0..MaxCuts /\ harmed \subseteq Nat

\* The bytes of segments among the first bytes of t, but for stuffing.
Kept(t) ==
  LET kept[n \in 0..Len(t)] ==
        IF n = 0 THEN <<>>
        ELSE IF t[n].of.type \in {"prefix", "marker", "stuffing"} THEN kept[n - 1]
        ELSE Append(kept[n - 1], t[n])
  IN kept

\* A display set as it was broadcast: its segments and the PTS it came with, in a packet
\* of their length.
Sets == {broadcast[i].set : i \in DOMAIN broadcast}
Opening(k) ==
  broadcast[CHOOSE i \in DOMAIN broadcast :
              broadcast[i].set = k /\ \A j \in 1..(i - 1) : broadcast[j].set # k]
Whole(k) == Kept(Opening(k).text)[Len(Opening(k).text)]
Length16(k) == Overhead + Len(Whole(k)) + 1
Sent(k) == [pts |-> Opening(k).pts, length |-> Length16(k), cells |-> Whole(k)]

\* Nothing of it was dropped or taken for AC3, its end was broadcast, and a packet can
\* say its length.  Of the packets of the plugin a byte too much is stripped: such a set
\* is lost.
Complete(k) ==
  /\ k \in Sets /\ k \notin harmed /\ ~Opening(k).plugin
  /\ Whole(k) # <<>> /\ Last(Whole(k)).of.type = "end"
  /\ Length16(k) <= Capacity
\* A set is in order again if the one before it could be ended.
Clean(k) == Complete(k) /\ (k - 1 \in Sets => Complete(k - 1))

\* Of a set none of whose pieces was taken for AC3, what is written when it ends is that
\* set, all of it and nothing else, with its own PTS and length - also when earlier sets
\* were damaged, except the one just before.
SetsWhole ==
  \A i \in DOMAIN emitted :
    LET k == Last(emitted[i].cells).of.set
    IN Clean(k) => emitted[i] = Sent(k)

\* Every such set is written, once, from the first on that has a segment of each
\* kind: those before it are taken for the empty ones recordings begin with.
SetsDelivered ==
  \A k \in Sets :
    /\ ~looping /\ ~failed
    /\ \A i \in DOMAIN broadcast : broadcast[i].set = k => i < packet
    /\ Clean(k)
    /\ \E j \in Sets : j <= k /\ Clean(j) /\ Probe(Whole(j)) = {TRUE}
    => Cardinality({i \in DOMAIN emitted : emitted[i] = Sent(k)}) = 1

\* size, by which the fifo is read, is what is in it, unless it was too small.
SizeIsBuffered == size = Len(fifo) \/ Len(fifo) = Capacity \/ failed

\* However often Return() has unlocked the mutex in the middle of Process, Process
\* can be called again: it never waits for the mutex its own thread holds.
NeverBlocks == chunk = "none" => ~LockBlocks(mutex)

\* Each chunk is worked off: the loop over the segments comes to an end, unless outbuf
\* is overrun.
Returns == chunk # "none" ~> chunk \in {"none", "undefined"}
=============================================================================
