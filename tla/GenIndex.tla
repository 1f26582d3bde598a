------------------------------ MODULE GenIndex ------------------------------
(***************************************************************************)
(* genindex: cGenIndex on the packets its base class cPES finds.  It       *)
(* copies what VDR needs into 001.vdr, 002.vdr, ... (rewrite mode), or     *)
(* leaves the files alone (index mode), and writes one entry per picture   *)
(* into index.vdr: the number of the file and the offset of the packet in  *)
(* which the picture begins.                                               *)
(*                                                                         *)
(* A packet comes in pieces: its header, and its payload as the chunks of  *)
(* the input cut it.  From splitsize on, genindex holds the pieces of a    *)
(* video packet back until it has found the picture: if it is an I-frame,  *)
(* a new file begins with this packet.                                     *)
(*                                                                         *)
(* cPES calls Action1 or Action2, Output and Skipped; it is modelled by    *)
(* the order of these calls and by the bytes it drops without any call.    *)
(***************************************************************************)
EXTENDS Integers, Sequences

CONSTANTS
  InputSizes,  \* sizes of the input files 001.vdr, 002.vdr, ...
  Packets,     \* the packets an input may hold, see PacketType
  MaxHead,     \* bound: size of a packet header
  Split,       \* splitOffset, in rewrite mode
  BuffSize,    \* sizeof(buff): read() returns no more at once
  StoreSize,   \* sizeof(store)
  IntLimit,    \* an int holds -IntLimit..IntLimit-1
  MaxFileNr,   \* MAX_FILE_NR: fileSize[n] is there for n up to this one
  NumberLimit  \* tIndex.number, an uchar, holds 0..NumberLimit-1

\* kind:  "video" (E0-EF), "audio" (C0-CF, BE, BD with AC3), "subs" (BD with
\*        subtitles), "other" types, or "invalid": cPES drops the header
\* head, size: bytes of header and payload
\* pic, picAt: the first picture that begins in a video packet and the payload
\*        byte that gives its type ("D": a type genindex does not know)
PacketType ==
  [kind : {"video", "audio", "subs", "other", "invalid"},
   head : 1..MaxHead, size : Nat, pic : {"none", "I", "P", "D"}, picAt : Nat \ {0}]

ASSUME GenIndexAssumption ==
  /\ InputSizes \in Seq(Nat \ {0}) /\ InputSizes # <<>>
  /\ MaxHead \in Nat \ {0}
  /\ Packets \subseteq PacketType
  /\ \A p \in Packets : p.pic # "none" => p.kind = "video" /\ p.picAt <= p.size
  /\ \A p \in Packets : p.head + p.size <= StoreSize
  /\ Split \in Nat \ {0} /\ BuffSize \in Nat \ {0} /\ StoreSize \in Nat
  /\ IntLimit \in Nat /\ StoreSize < IntLimit
  /\ \A n \in 1..Len(InputSizes) : InputSizes[n] + MaxHead < IntLimit

\* genindex checks neither: it is given so few input files that the number it tries
\* after the last one is within fileSize, and that all numbers fit into an entry.
ASSUME FilesAssumption ==
  /\ MaxFileNr \in Nat /\ Len(InputSizes) < MaxFileNr
  /\ NumberLimit \in Nat /\ Len(InputSizes) < NumberLimit

VARIABLES
  rewrite,       \* option --rewrite or --build
  mode,          \* what cPES does next: "sync", "header", "payload", "emit", "done"
  packet, have,  \* the packet it is in, and bytes of payload it has dealt with
  pos, readNo,   \* bytes of input it has dealt with; the file it reads from
  fileNo, fileOffset,      \* where the next byte of output (input) lies
  packetNo, packetOffset,  \* where the last video packet began
  scan,          \* the picture of this packet is still looked for
  pstart,        \* no piece of this packet has been output
  store,         \* pieces held back (the first sSize bytes of store)
  error,         \* "none", "write" or "overflow"
  out, begins,   \* bytes in the output files; where in out each file begins
  index,         \* entries of index.vdr
  entries,       \* history: what cIndex::Write has been called with
  indexFailed,   \* history: index.vdr has not taken all it was given
  pkt, at,       \* history: number of the packet, bytes of it passed to Output
  passed,        \* history: all bytes passed to Output
  pictures,      \* history: pictures genindex ought to know
  wrapped,       \* history: fileOffset has overflowed
  broken         \* history: cPES has dropped bytes without a call

input   == <<rewrite, readNo>>
parser  == <<mode, packet, have, pos>>
place   == <<fileNo, fileOffset, wrapped>>
current == <<packetNo, packetOffset>>
file    == <<index, entries, indexFailed>>
output  == <<store, error, out, begins, index, entries, indexFailed, at, passed>>
vars == <<rewrite, mode, packet, have, pos, readNo, fileNo, fileOffset, packetNo,
          packetOffset, scan, pstart, store, error, out, begins, index, entries,
          indexFailed, pkt, at, passed, pictures, wrapped, broken>>

Files == 1..Len(InputSizes)

\* Bytes of input in the files up to n, and in all.
Upto[n \in 0..Len(InputSizes)] == IF n = 0 THEN 0 ELSE Upto[n - 1] + InputSizes[n]
Total == Upto[Len(InputSizes)]

NoPacket == [kind |-> "none", head |-> 1, size |-> 0, pic |-> "none", picAt |-> 1]

Init ==
  /\ rewrite \in BOOLEAN
  /\ mode = "sync" /\ packet = NoPacket /\ have = 0
  /\ pos = 0 /\ readNo = 1
  /\ fileNo = 1 /\ fileOffset = 0 /\ packetNo = 1 /\ packetOffset = 0
  /\ scan = FALSE /\ pstart = FALSE /\ store = <<>> /\ error = "none"
  /\ out = <<>> /\ begins = <<1>>
  /\ index = <<>> /\ entries = <<>> /\ indexFailed = FALSE
  /\ pkt = 0 /\ at = 0 /\ passed = <<>> /\ pictures = <<>>
  /\ wrapped = FALSE /\ broken = FALSE

-----------------------------------------------------------------------------
(* Count.                                                                  *)

\* Slip: offsets are kept in a wider type than the index has.
WrapNever(x) == x

\* The value an int takes.
Wrap(x) == IF x >= IntLimit THEN x - 2 * IntLimit ELSE x

\* fileSize[n] is set when file n is opened for reading.
FileSize(n) == IF n <= readNo THEN InputSizes[n] ELSE 0

\* Count(n) from offset o on
Count(o, no, n) ==
  LET x == Wrap(o + n)
      next == ~rewrite /\ x >= FileSize(no)
  IN /\ fileOffset' = IF next THEN x - FileSize(no) ELSE x
     /\ fileNo' = IF next THEN no + 1 ELSE no
     /\ wrapped' = (wrapped \/ x # o + n)

-----------------------------------------------------------------------------
(* index.vdr.                                                              *)

\* The number of the file is cut to an uchar.
Stored(e) == [e EXCEPT !.no = e.no % NumberLimit]

\* Entries that have not got to the disk are lost, and nothing takes notice. Which of
\* them are left, and where, is not followed up: index is empty from then on.
Loses == indexFailed' = TRUE /\ index' = <<>>

\* cIndex::Write, whose result is ignored
Write(e) ==
  /\ entries' = Append(entries, e)
  /\ \/ ~indexFailed /\ index' = Append(index, Stored(e)) /\ UNCHANGED indexFailed
     \/ Loses

-----------------------------------------------------------------------------
(* Output.                                                                 *)

\* Slip: sSize is reset and nothing written.
WrittenBeforeForgets == out

\* Held pieces of an earlier packet are written first.
WrittenBefore == IF rewrite /\ pstart THEN out \o store ELSE out

\* Slip: they stay in the store.
HeldKept == store

Held == IF rewrite /\ pstart THEN <<>> ELSE store

\* The next piece is held back too: no picture yet, and the file is long enough.
Holds(f) ==
  rewrite /\ scan /\ f = "none" /\ fileOffset >= Split /\ (pstart \/ Held # <<>>)

\* Slip: any picture will do.
SplitsAnywhere(f) == rewrite /\ fileOffset >= Split /\ Held # <<>> /\ f # "none"

\* The held pieces, and the next one, begin a new file.
Splits(f) == rewrite /\ fileOffset >= Split /\ Held # <<>> /\ f = "I"

\* Slip: the packet is still looked for in the old file.
EntryOld(f) == [no |-> packetNo, off |-> packetOffset, type |-> f]

Entry(f) ==
  IF Splits(f) THEN [no |-> fileNo + 1, off |-> 0, type |-> f]
  ELSE [no |-> packetNo, off |-> packetOffset, type |-> f]

\* The picture, if its type has been found, gets an entry.
Indexes(f) == IF f \in {"I", "P"} THEN Write(Entry(f)) ELSE UNCHANGED file

\* n more bytes of this packet; a byte is known by its packet and its place in it
Bytes(n) == [k \in 1..n |-> [pkt |-> pkt, at |-> at + k]]

\* The scanner meets the type of a picture in this piece, or does not ("none").
\* A piece it cannot store ends the program, as does a failing write.
Output(n, f) ==
  LET d == Bytes(n)
      full == Holds(f) /\ Len(Held) + n > StoreSize
  IN
  /\ at' = at + n
  /\ passed' = passed \o d
  /\ scan' = (scan /\ f = "none")
  /\ \/ /\ ~full
        /\ out' = IF ~rewrite THEN out
                  ELSE IF Holds(f) THEN WrittenBefore ELSE WrittenBefore \o Held \o d
        /\ store' = IF Holds(f) THEN Held \o d ELSE <<>>
        /\ begins' = IF Splits(f) THEN Append(begins, Len(WrittenBefore) + 1) ELSE begins
        /\ Indexes(f)
        /\ packetNo' = IF Splits(f) THEN fileNo + 1 ELSE packetNo
        /\ packetOffset' = IF Splits(f) THEN 0 ELSE packetOffset
        /\ IF Splits(f) THEN Count(Len(Held), fileNo + 1, n)
                        ELSE Count(fileOffset, fileNo, n)
        /\ pstart' = FALSE
        /\ UNCHANGED error
     \/ /\ full
        /\ error' = "overflow"
        /\ out' = WrittenBefore /\ store' = Held
        /\ UNCHANGED <<begins, file, current, place, pstart>>

\* write() or the opening of the next file fails after k bytes: within the pieces of
\* an earlier packet, or later, when the entry for the picture has been written. A
\* piece that is held back is not written.
OutputFails(n, f) ==
  LET pending == store \o Bytes(n)
      flushed == IF pstart THEN Len(store) ELSE 0
  IN
  /\ rewrite
  /\ error' = "write" /\ mode' = "done"
  /\ at' = at + n /\ passed' = passed \o Bytes(n)
  /\ \E k \in 0..(Len(pending) - 1) :
       /\ out' = out \o SubSeq(pending, 1, k)
       /\ \/ k < flushed /\ UNCHANGED file
          \/ k >= flushed /\ ~Holds(f) /\ Indexes(f)
          \/ k = flushed /\ Splits(f) /\ UNCHANGED file
  /\ store' = <<>>
  /\ UNCHANGED <<input, packet, have, pos, place, current, scan, pstart, begins,
                 pkt, pictures, broken>>

After(m) == mode' = IF error' = "none" THEN m ELSE "done"

-----------------------------------------------------------------------------
(* The calls of cPES.                                                      *)

\* SetRule in the constructor of cGenIndex
Rule(p) ==
  CASE p.kind = "video" -> "act2"
    [] p.kind = "subs" /\ rewrite -> "act3"
    [] p.kind = "other" /\ rewrite -> "skip"
    [] OTHER -> "act1"

\* Slip: a packet is taken to end with its file.
NextFileBetweenPackets ==
  /\ readNo < Len(InputSizes) /\ mode = "sync" /\ Upto[readNo] - pos <= MaxHead
  /\ readNo' = readNo + 1
  /\ UNCHANGED <<rewrite, parser, place, current, scan, pstart, output, pkt,
                 pictures, broken>>

\* A header has been read as far as there are bytes, and the file is at its end.
NextFile ==
  /\ readNo < Len(InputSizes)
  /\ \/ mode = "sync" /\ Upto[readNo] - pos <= MaxHead
     \/ mode = "payload" /\ pos = Upto[readNo]
  /\ readNo' = readNo + 1
  /\ UNCHANGED <<rewrite, parser, place, current, scan, pstart, output, pkt,
                 pictures, broken>>

\* A byte that belongs to no packet: Skipped()
Garbage ==
  /\ mode = "sync" /\ pos < Upto[readNo]
  /\ pos' = pos + 1
  /\ IF rewrite THEN UNCHANGED place ELSE Count(fileOffset, fileNo, 1)
  /\ UNCHANGED <<input, mode, packet, have, current, scan, pstart, output, pkt,
                 pictures, broken>>

\* After reads that returned less than four bytes cPES loses some without a call.
Drop ==
  /\ mode = "sync" /\ pos < Upto[readNo]
  /\ pos' = pos + 1 /\ broken' = TRUE
  /\ UNCHANGED <<input, mode, packet, have, place, current, scan, pstart, output, pkt,
                 pictures>>

\* A start code of no packet, or an impossible length: the header is dropped
\* without a call.
Invalid(p) ==
  /\ p.kind = "invalid"
  /\ broken' = TRUE
  /\ UNCHANGED <<mode, packet, have, place, current, scan, pstart, output, pkt, pictures>>

\* Action1 and Action2 at the start of a packet
PacketBegins(p) ==
  /\ p.kind # "invalid"
  /\ packet' = p /\ have' = 0
  /\ pkt' = pkt + 1 /\ at' = 0
  /\ mode' = IF Rule(p) \in {"act1", "act2"} THEN "header"
             ELSE IF p.size = 0 THEN "sync" ELSE "payload"
  /\ IF Rule(p) = "act2"
     THEN packetNo' = fileNo /\ packetOffset' = fileOffset
     ELSE UNCHANGED current
  /\ scan' = IF Rule(p) = "skip" THEN scan ELSE Rule(p) = "act2"
  /\ pstart' = (pstart \/ Rule(p) # "skip")
  /\ UNCHANGED <<place, store, error, out, begins, index, entries, indexFailed, passed,
                 pictures, broken>>

\* A header is complete and at least one byte follows it.
Header(p) ==
  /\ mode = "sync"
  /\ Upto[readNo - 1] <= pos + p.head /\ pos + p.head < Upto[readNo]
  /\ pos' = pos + p.head
  /\ Invalid(p) \/ PacketBegins(p)
  /\ UNCHANGED input

\* Output of the header
PassHeader ==
  /\ mode = "header"
  /\ \/ /\ Output(packet.head, "none")
        /\ After(IF packet.size = 0 THEN "sync" ELSE "payload")
        /\ UNCHANGED <<input, packet, have, pos, pkt, pictures, broken>>
     \/ OutputFails(packet.head, "none")

\* Slip: the scanner does not go on in the next chunk.
FoundAtOnce(n) == IF scan /\ have = 0 /\ packet.picAt <= n THEN packet.pic ELSE "none"

\* The picture whose type is among the next n bytes of payload, if any
Found(n) ==
  IF scan /\ packet.picAt \in (have + 1)..(have + n) THEN packet.pic ELSE "none"

\* Output of n bytes of payload
PassPayload(n) ==
  LET begun == packet.pic \in {"I", "P"} /\ packet.picAt \in (have + 1)..(have + n)
  IN
  /\ mode = "payload" /\ Rule(packet) \in {"act1", "act2"}
  /\ n <= packet.size - have /\ pos + n <= Upto[readNo]
  /\ \/ /\ Output(n, Found(n))
        /\ pos' = pos + n /\ have' = have + n
        /\ After(IF have + n = packet.size THEN "sync" ELSE "payload")
        /\ pictures' = IF begun
                       THEN Append(pictures,
                                   [type |-> packet.pic, pkt |-> pkt,
                                    start |-> pos - have - packet.head])
                       ELSE pictures
        /\ UNCHANGED <<input, packet, pkt, broken>>
     \/ OutputFails(n, Found(n))

\* n bytes of a packet that is dropped, or taken apart for its subtitles
DropPayload(n) ==
  /\ mode = "payload" /\ Rule(packet) \in {"skip", "act3"}
  /\ n <= packet.size - have /\ pos + n <= Upto[readNo]
  /\ pos' = pos + n /\ have' = have + n
  /\ mode' = IF have + n = packet.size THEN "sync" ELSE "payload"
  /\ UNCHANGED <<input, packet, place, current, scan, pstart, output, pkt,
                 pictures, broken>>

\* These bytes complete a display set: an assembled packet is output, its header ...
EmitHeader(n) ==
  /\ mode = "payload" /\ Rule(packet) = "act3"
  /\ n <= packet.size - have /\ pos + n <= Upto[readNo]
  /\ \/ /\ Output(1, "none")
        /\ pos' = pos + n /\ have' = have + n
        /\ After("emit")
        /\ UNCHANGED <<input, packet, pkt, pictures, broken>>
     \/ OutputFails(1, "none")

\* ... and its payload.
EmitPayload ==
  /\ mode = "emit"
  /\ \/ /\ Output(1, "none")
        /\ After(IF have = packet.size THEN "sync" ELSE "payload")
        /\ UNCHANGED <<input, packet, have, pos, pkt, pictures, broken>>
     \/ OutputFails(1, "none")

\* The input ends, within a packet perhaps; what fclose() cannot write is lost.
Finish ==
  /\ readNo = Len(InputSizes)
  /\ \/ mode = "sync" /\ Total - pos <= MaxHead
     \/ mode = "payload" /\ pos = Total
  /\ mode' = "done"
  /\ UNCHANGED <<index, indexFailed>> \/ Loses
  /\ UNCHANGED <<input, packet, have, pos, place, current, scan, pstart, store, error,
                 out, begins, entries, at, passed, pkt, pictures, broken>>

Pieces == 1..BuffSize

Next ==
  \/ NextFile \/ Garbage \/ Drop \/ PassHeader \/ EmitPayload \/ Finish
  \/ \E p \in Packets : Header(p)
  \/ \E n \in Pieces : PassPayload(n) \/ DropPayload(n) \/ EmitHeader(n)

Spec == Init /\ [][Next]_vars
FairSpec == Spec /\ WF_vars(Next)

-----------------------------------------------------------------------------
(* Properties.                                                             *)

ByteType == [pkt : Nat, at : Nat \ {0}]
EntryType == [no : Nat, off : Int, type : {"I", "P"}]

TypeOK ==
  /\ rewrite \in BOOLEAN
  /\ mode \in {"sync", "header", "payload", "emit", "done"}
  /\ packet \in Packets \cup {NoPacket}
  /\ have \in 0..packet.size
  /\ pos \in 0..Total /\ readNo \in Files
  /\ fileNo \in Nat \ {0} /\ fileOffset \in -IntLimit..(IntLimit - 1)
  /\ packetNo \in Nat \ {0} /\ packetOffset \in -IntLimit..(IntLimit - 1)
  /\ scan \in BOOLEAN /\ pstart \in BOOLEAN
  /\ store \in Seq(ByteType) /\ out \in Seq(ByteType)
  /\ error \in {"none", "write", "overflow"}
  /\ begins \in Seq(Nat \ {0})
  /\ index \in Seq(EntryType) /\ entries \in Seq(EntryType) /\ indexFailed \in BOOLEAN
  /\ pkt \in Nat /\ at \in Nat /\ passed \in Seq(ByteType)
  /\ wrapped \in BOOLEAN /\ broken \in BOOLEAN

\* The output files hold, one after the other, the bytes that were passed on, in
\* their order; what is missing at the end is what is held back.
OutputInOrder ==
  rewrite => /\ error = "none" => out \o store = passed
             /\ Len(out) <= Len(passed) /\ out = SubSeq(passed, 1, Len(out))

\* No more is held back than one packet, so that the store never overflows.
HeldFits ==
  /\ error # "overflow"
  /\ \A j, k \in 1..Len(store) : store[j].pkt = store[k].pkt

\* A file after the first begins with the first byte of a packet with an I-frame.
SplitAtIFrame ==
  error = "none" =>
    \A n \in 2..Len(begins) :
      LET b == (out \o store)[begins[n]]
      IN b.at = 1 /\ \E k \in 1..Len(pictures) :
                       pictures[k].pkt = b.pkt /\ pictures[k].type = "I"

\* Every picture has one entry, in the order of the stream, if index.vdr takes all.
IndexComplete ==
  error = "none" /\ ~indexFailed =>
    /\ Len(index) = Len(pictures)
    /\ \A k \in 1..Len(index) : index[k].type = pictures[k].type

\* Entry e names the place where packet p.pkt begins: in the output, or, in
\* index mode, in the input.
Points(e, p) ==
  IF rewrite
  THEN /\ e.no \in 1..Len(begins)
       /\ e.no < Len(begins) => begins[e.no] + e.off < begins[e.no + 1]
       /\ begins[e.no] + e.off \in 1..Len(out \o store)
       /\ (out \o store)[begins[e.no] + e.off] = [pkt |-> p.pkt, at |-> 1]
  ELSE /\ e.no \in Files /\ e.off \in 0..(InputSizes[e.no] - 1)
       /\ Upto[e.no - 1] + e.off = p.start

\* Every entry of the index leads to the packet of its picture, as long as no output
\* file has outgrown an int, their number fits into an entry, and index.vdr takes all.
IndexPoints ==
  ~wrapped /\ Len(begins) < NumberLimit /\ error = "none" /\ ~indexFailed =>
    \A k \in 1..Len(index) : Points(index[k], pictures[k])

\* The same, in index mode for streams of which cPES drops nothing without a call.
IndexPointsUnlessBroken == rewrite \/ ~broken => IndexPoints

\* genindex comes to the end of every input.
Ends == <>(mode = "done")
=============================================================================
