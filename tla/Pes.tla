-------------------------------- MODULE Pes ---------------------------------
(***************************************************************************)
(* cPES::Process: the parser of genindex.  Work() reads the input in       *)
(* chunks and calls Process for each; Process goes on where the last call  *)
(* stopped, be it within a start code, a header or a payload.              *)
(*                                                                         *)
(* One action is one pass of its loop through the code of one mode.        *)
(* pmRingGet, pmDataPut and pmOutput, which the code falls through, are    *)
(* part of Put; the ring buffer is always empty.  The modes, the buffers   *)
(* and the counters are those of the code.  A byte carries the place in    *)
(* the stream it was read from, so that the output shows what became of    *)
(* it.  Action1 and Action2 of cGenIndex leave the data alone; what        *)
(* Action3 does with subtitles is in module SubtitleAssembler.             *)
(***************************************************************************)
EXTENDS Integers, Sequences

CONSTANTS
  Streams,     \* the streams to choose from, as sequences of bytes
  ChunkSizes,  \* what read() may return; at the end of a file it may be little
  Confs,       \* "index", "rewrite" (--rewrite), "build" (--build)
  BuffSize,    \* bytes in buff, the chunk
  HbuffSize,   \* bytes in hbuff
  Garbage      \* what the bytes of hbuff may be before they are written

ASSUME PesAssumption ==
  /\ \A s \in Streams : s \in Seq(0..255)
  /\ BuffSize \in Nat \ {0} /\ HbuffSize \in Nat /\ HbuffSize > 14
  /\ ChunkSizes \subseteq 1..BuffSize
  /\ Confs \subseteq {"index", "rewrite", "build"}
  /\ Garbage \in 0..255

VARIABLES
  conf, stream,
  buff, base, len,  \* the chunk, where in the stream it begins, its size
  used,             \* bytes of the chunk that have been dealt with
  running,          \* Process has been called and not returned
  failed,           \* Output has returned -1, and Process with it
  mode,
  hbuff, have, need, old,
  header,           \* the place of the header in buff, or Hbuff
  headerSize, payloadSize, type,
  unsavedHeader, outputHeader, SOP,
  start, short, out \* history: where the packet begins; see PesStream

input  == <<conf, stream, buff, base, len, short>>
buffer == <<hbuff, have, need, old>>
packet == <<header, headerSize, payloadSize, type, start>>
flags  == <<unsavedHeader, outputHeader, SOP>>
result == <<failed, out>>
vars == <<conf, stream, buff, base, len, used, running, failed, mode, hbuff, have,
          need, old, header, headerSize, payloadSize, type, unsavedHeader,
          outputHeader, SOP, start, short, out>>

Hbuff == -1
NoCell == [at |-> -1, val |-> Garbage]

Init ==
  /\ conf \in Confs /\ stream \in Streams
  /\ buff = [i \in 0..(BuffSize - 1) |-> NoCell] /\ base = 0 /\ len = 0
  /\ used = 0 /\ running = FALSE /\ failed = FALSE
  /\ mode = "NewSync"
  /\ hbuff = [i \in 0..(HbuffSize - 1) |-> NoCell] /\ have = 0 /\ need = 0 /\ old = 0
  /\ header = Hbuff /\ headerSize = 0 /\ payloadSize = 0 /\ type = 0
  /\ unsavedHeader = FALSE /\ outputHeader = TRUE /\ SOP = TRUE
  /\ start = 0 /\ short = FALSE /\ out = <<>>

rest == len - used

\* c[0], c[1], ... of the code
c == [i \in 0..(rest - 1) |-> buff[used + i]]

\* The byte i of the header, which lies in buff or in hbuff.
Header(i) == IF header = Hbuff THEN hbuff[i] ELSE buff[header + i]

Val(b) == [i \in DOMAIN b |-> b[i].val]

-----------------------------------------------------------------------------
(* The size of a header of which n bytes v[0], v[1], ... are known: if     *)
(* these do not tell, the number of bytes that will tell more, negated.    *)

Elementary == {189} \cup 192..239

\* PTS and DTS in an MPEG1 header
Stamps(b) == CASE (b \div 16) % 4 = 3 -> 9
               [] (b \div 16) % 4 = 2 -> 4
               [] OTHER -> 0

ElementarySize(v, n) ==
  LET stuffing == {i \in 6..(n - 1) : \A k \in 6..i : v[k] \div 64 = 3}
      index == CHOOSE i \in 6..n : i \notin stuffing /\ \A k \in 6..(i - 1) : k \in stuffing
      buffSize == IF v[index] \div 64 = 1 THEN index + 2 ELSE index
  IN CASE index >= n -> -(index + 1)
       [] index < n /\ v[index] \div 64 = 2 ->
            IF index + 2 >= n THEN -(index + 3) ELSE index + 3 + v[index + 2]
       [] index < n /\ v[index] \div 64 # 2 ->
            IF buffSize >= n THEN -(buffSize + 1) ELSE buffSize + 1 + Stamps(v[buffSize])

\* Slip: a pack header is taken for one of MPEG2 until its type is known.
HeaderSizeHasty(v, n) ==
  CASE n < 4 -> -4
    [] n >= 4 /\ v[3] = 186 ->
         IF n < 14 THEN -14 ELSE IF v[4] \div 64 = 1 THEN 14 + (v[13] % 8) ELSE 12
    [] n >= 4 /\ v[3] = 187 -> IF n < 6 THEN -6 ELSE 6 + 256 * v[4] + v[5]
    [] n >= 4 /\ v[3] \in {190, 191} -> 6
    [] n >= 4 /\ v[3] \in Elementary -> IF n < 7 THEN -7 ELSE ElementarySize(v, n)
    [] OTHER -> 4

HeaderSize(v, n) ==
  CASE n < 4 -> -4
    [] n >= 4 /\ v[3] = 186 ->
         IF n < 5 THEN -5
         ELSE IF v[4] \div 64 # 1 THEN 12
         ELSE IF n < 14 THEN -14 ELSE 14 + (v[13] % 8)
    [] n >= 4 /\ v[3] = 187 -> IF n < 6 THEN -6 ELSE 6 + 256 * v[4] + v[5]
    [] n >= 4 /\ v[3] \in {190, 191} -> 6
    [] n >= 4 /\ v[3] \in Elementary -> IF n < 7 THEN -7 ELSE ElementarySize(v, n)
    [] OTHER -> 4

Abs(x) == IF x < 0 THEN -x ELSE x

\* The size a packet says it has, or else the size of its header.
PacketSize ==
  IF Header(3).val \in {189, 190, 191} \cup Elementary
  THEN 6 + 256 * Header(4).val + Header(5).val ELSE headerSize

StartCode(v) == v[0] = 0 /\ v[1] = 0 /\ v[2] = 1

-----------------------------------------------------------------------------
(* Process is called and returns.                                          *)

\* Work() reads a chunk and calls Process, whatever was left of the last one.
Process(n) ==
  /\ ~running /\ ~failed
  /\ n <= Len(stream) - (base + len)
  /\ base' = base + len /\ len' = n /\ used' = 0 /\ running' = TRUE
  /\ buff' = [i \in 0..(BuffSize - 1) |->
                IF i < n THEN [at |-> base + len + i, val |-> stream[base + len + i + 1]]
                ELSE buff[i]]
  /\ short' = (short \/ n < 4)
  /\ UNCHANGED <<conf, stream, mode, buffer, packet, flags, result>>

\* Slip: the header is left where the next chunk will be.
KeepsHeader == UNCHANGED <<hbuff, header, unsavedHeader>>

\* A header in the chunk is saved if no byte of the packet has been output.
SaveHeader ==
  IF SOP /\ unsavedHeader /\ used >= len
  THEN /\ hbuff' = [i \in DOMAIN hbuff |-> IF i < headerSize THEN Header(i) ELSE hbuff[i]]
       /\ header' = Hbuff /\ unsavedHeader' = FALSE
  ELSE UNCHANGED <<hbuff, header, unsavedHeader>>

Return ==
  /\ running /\ used >= len
  /\ SaveHeader
  /\ running' = FALSE /\ used' = len
  /\ UNCHANGED <<input, mode, have, need, old, headerSize, payloadSize, type, start,
                 outputHeader, SOP, result>>

In(m) == running /\ used < len /\ mode = m

-----------------------------------------------------------------------------
(* Where does a packet start?                                              *)

NewSync ==
  /\ In("NewSync") /\ mode' = "FastSync"
  /\ have' = 0 /\ old' = 0 /\ need' = 0
  /\ unsavedHeader' = FALSE /\ outputHeader' = TRUE /\ SOP' = TRUE
  /\ UNCHANGED <<input, used, running, hbuff, packet, result>>

\* A start code and a whole header lie in the chunk.
FastHit ==
  LET size == HeaderSize(Val(c), rest)
  IN
  /\ In("FastSync") /\ rest >= 4 /\ StartCode(Val(c))
  /\ size > 0 /\ rest >= size
  /\ headerSize' = size /\ header' = used /\ unsavedHeader' = TRUE
  /\ used' = used + size /\ start' = base + used
  /\ mode' = "HeaderOk"
  /\ UNCHANGED <<input, running, buffer, payloadSize, type, outputHeader, SOP, result>>

\* Slip: two bytes are skipped after a third one that is 0.
SkipSizeTwo == IF c[2].val = 0 THEN 2 ELSE 3

\* The third byte tells how far a start code is away at least.
SkipSize == IF c[2].val = 0 THEN 1 ELSE 3

FastSkip ==
  /\ In("FastSync") /\ rest >= 4 /\ ~StartCode(Val(c))
  /\ used' = used + SkipSize
  /\ UNCHANGED <<input, running, mode, buffer, packet, flags, result>>

\* Too few bytes: they go to hbuff, and the search goes on there.
FastBuffer ==
  /\ In("FastSync")
  /\ rest >= 4 => StartCode(Val(c)) /\ HeaderSize(Val(c), rest) \notin 1..rest
  /\ hbuff' = [i \in DOMAIN hbuff |-> IF i < rest THEN c[i] ELSE hbuff[i]]
  /\ have' = rest /\ old' = rest /\ used' = len
  /\ mode' = "Sync"
  /\ UNCHANGED <<input, running, need, packet, flags, result>>

SyncFill ==
  /\ In("Sync") /\ have < 4
  /\ hbuff' = [hbuff EXCEPT ![have] = c[0]]
  /\ have' = have + 1 /\ used' = used + 1
  /\ UNCHANGED <<input, running, mode, need, old, packet, flags, result>>

SyncHit ==
  /\ In("Sync") /\ have >= 4 /\ StartCode(Val(hbuff))
  /\ need' = Abs(HeaderSize(Val(hbuff), have))
  /\ start' = base + used - have
  /\ mode' = "GetHeader"
  /\ UNCHANGED <<input, used, running, hbuff, have, old, header, headerSize,
                 payloadSize, type, flags, result>>

\* Slip: the chunk is not read again from its first byte.
RewindNever == used' = used

\* Slip: the three bytes at hand are taken to be the first ones of the chunk.
RewindThree == used' = IF old = 1 THEN used - 3 ELSE used

\* With the last byte of the chunk before, the chunk is searched from its beginning.
Rewind == used' = IF old = 1 THEN 0 ELSE used

SyncShift ==
  /\ In("Sync") /\ have >= 4 /\ ~StartCode(Val(hbuff))
  /\ hbuff' = [i \in DOMAIN hbuff |-> IF i < have - 1 THEN hbuff[i + 1] ELSE hbuff[i]]
  /\ have' = have - 1 /\ old' = old - 1
  /\ Rewind
  /\ mode' = IF old = 1 THEN "FastSync" ELSE "Sync"
  /\ UNCHANGED <<input, running, need, packet, flags, result>>

HeaderFill ==
  LET n == IF need - have < rest THEN need - have ELSE rest
  IN
  /\ In("GetHeader") /\ have < need
  /\ hbuff' = [i \in DOMAIN hbuff |-> IF i \in have..(have + n - 1) THEN c[i - have] ELSE hbuff[i]]
  /\ have' = have + n /\ used' = used + n
  /\ UNCHANGED <<input, running, mode, need, old, packet, flags, result>>

\* What was needed is there; is it enough?
HeaderCheck ==
  /\ In("GetHeader") /\ have >= need
  /\ need' = Abs(HeaderSize(Val(hbuff), have))
  /\ IF have < need' THEN UNCHANGED <<mode, header, headerSize>>
     ELSE mode' = "HeaderOk" /\ header' = Hbuff /\ headerSize' = need'
  /\ UNCHANGED <<input, used, running, hbuff, have, old, payloadSize, type, start,
                 flags, result>>

HeaderOk ==
  LET size == PacketSize - headerSize
      valid == Header(3).val > 184 /\ size >= 0
  IN
  /\ In("HeaderOk")
  /\ type' = Header(3).val
  /\ mode' = IF valid THEN "Payload" ELSE "NewSync"
  /\ IF valid THEN payloadSize' = size /\ have' = 0 /\ need' = 0
     ELSE UNCHANGED <<payloadSize, have, need>>
  /\ UNCHANGED <<input, used, running, hbuff, old, header, headerSize, start, flags,
                 result>>

-----------------------------------------------------------------------------
(* The packet is handed on or dropped.                                     *)

\* The rules cGenIndex sets; Action1 and Action2 hand on what they get.
Rule ==
  CASE conf = "build" /\ type = 189 -> "act3"
    [] conf # "index" /\ type \notin {189, 190} \cup 192..207 \cup 224..239 -> "skip"
    [] OTHER -> "pass"

HeaderBytes == [i \in 1..headerSize |-> Header(i - 1)]

\* pmDataPut and pmOutput with n bytes of payload of s, or with -n bytes to drop: the
\* header, if it is not out, or the payload. cGenIndex::Output takes all it is given.
Put(n, s, head) ==
  /\ SOP' = FALSE /\ need' = Abs(n) /\ outputHeader' = FALSE
  /\ mode' = IF n >= 0 /\ outputHeader THEN "DataPut" ELSE "DataReady"
  /\ out' = CASE n >= 0 /\ outputHeader -> out \o head
              [] n >= 0 /\ ~outputHeader /\ s # 0 -> out \o [i \in 1..n |-> c[i - 1]]
              [] OTHER -> out

\* Slip: an empty payload is no exception.
PieceOrNothing == IF payloadSize - have < rest THEN payloadSize - have ELSE rest

\* Bytes of payload in this chunk; an empty payload counts as one byte.
Piece == IF payloadSize = 0 THEN 1
         ELSE IF payloadSize - have < rest THEN payloadSize - have ELSE rest

\* Without a byte to handle the loop would go round for ever.
AtPayload == In("Payload") /\ Piece # 0

Payload ==
  /\ AtPayload /\ Rule # "act3"
  /\ Put(IF Rule = "skip" THEN -Piece ELSE Piece, payloadSize, HeaderBytes)
  /\ UNCHANGED <<input, used, running, failed, hbuff, have, old, packet, unsavedHeader>>

\* The byte after a header of n bytes h tells subtitles from other data, or the one
\* before it if the header ends as the old subtitles plugin wrote it.
SaysSubtitles(h, n) ==
  LET plugin == h[7] % 2 = 1 /\ h[n - 3] < 128 /\ h[n - 3] % 2 = 1 /\ h[n - 2] = 129
  IN h[IF plugin THEN n - 1 ELSE n] = 32

Subtitles == SaysSubtitles([i \in 0..headerSize |-> Header(i).val], headerSize)

\* Subtitles are dropped here and assembled elsewhere.
DropSubtitles ==
  /\ AtPayload /\ Rule = "act3" /\ Subtitles
  /\ Put(-Piece, payloadSize, HeaderBytes)
  /\ UNCHANGED <<input, used, running, failed, hbuff, have, old, packet, unsavedHeader>>

PassPrivate ==
  /\ AtPayload /\ Rule = "act3" /\ ~Subtitles /\ ~SOP
  /\ Put(Piece, payloadSize, HeaderBytes)
  /\ UNCHANGED <<input, used, running, failed, hbuff, have, old, packet, unsavedHeader>>

\* ModifyPaketSize
Modify(b, at, mod) ==
  LET size == 256 * Header(4).val + Header(5).val + mod
      field == [i \in {4, 5} |-> IF i = 4 THEN (size \div 256) % 256 ELSE size % 256]
  IN [i \in DOMAIN b |-> IF i - at \in {4, 5} THEN [at |-> b[i].at, val |-> field[i - at]]
                         ELSE b[i]]

\* Slip: the size in the header is not corrected.
StripsOnly == UNCHANGED <<buff, hbuff>>

\* Four bytes fewer, as the header has to say.
ShrinkHeader ==
  IF header = Hbuff THEN hbuff' = Modify(hbuff, 0, -4) /\ UNCHANGED buff
  ELSE buff' = Modify(buff, header, -4) /\ UNCHANGED hbuff

\* The first four bytes of AC3 or DTS, the substream header, are left out. If there
\* were no more, Process returns, and the next bytes are the first ones again.
StripPrivate ==
  /\ AtPayload /\ Rule = "act3" /\ ~Subtitles /\ SOP
  /\ UNCHANGED <<conf, stream, base, len, short, failed, have, old, header, headerSize,
                 type, start, unsavedHeader>>
  /\ used' = used + 4 /\ payloadSize' = payloadSize - 4
  /\ ShrinkHeader
  /\ IF Piece = 4
     THEN /\ running' = (rest = 4)  \* Return(used,len)
          /\ UNCHANGED <<mode, need, SOP, outputHeader, out>>
     ELSE /\ Put(Piece - 4, payloadSize - 4, HeaderBytes')
          /\ UNCHANGED running

DataPut ==
  /\ In("DataPut")
  /\ Put(need, payloadSize, HeaderBytes)
  /\ UNCHANGED <<input, used, running, failed, hbuff, have, old, packet, unsavedHeader>>

\* Output returns -1, and Process with it: genindex ends.
OutputFails ==
  /\ \/ AtPayload /\ Rule = "pass"
     \/ AtPayload /\ Rule = "act3" /\ ~Subtitles /\ (SOP => Piece > 4)
     \/ In("DataPut") /\ payloadSize # 0
  /\ failed' = TRUE /\ running' = FALSE
  /\ UNCHANGED <<input, used, mode, buffer, packet, flags, out>>

\* Slip: the bytes at hand are not counted.
CountsNothing == have' = have

\* An empty payload used no byte.
CountPiece == have' = IF payloadSize = 0 THEN have ELSE have + need

DataReady ==
  /\ In("DataReady")
  /\ CountPiece
  /\ used' = IF payloadSize = 0 THEN used ELSE used + need
  /\ mode' = IF have' >= payloadSize THEN "NewSync" ELSE "Payload"
  /\ UNCHANGED <<input, running, hbuff, need, old, packet, flags, result>>

Step ==
  \/ Return \/ NewSync \/ FastHit \/ FastSkip \/ FastBuffer
  \/ SyncFill \/ SyncHit \/ SyncShift \/ HeaderFill \/ HeaderCheck \/ HeaderOk
  \/ Payload \/ DropSubtitles \/ PassPrivate \/ StripPrivate \/ DataPut \/ DataReady

Next ==
  \/ Step \/ OutputFails
  \/ \E n \in ChunkSizes : Process(n)

Spec == Init /\ [][Next]_vars
FairSpec == Spec /\ WF_vars(Step)

-----------------------------------------------------------------------------
(* Properties.                                                             *)

CellType == [at : -1..(Len(stream) - 1), val : 0..255]

TypeOK ==
  /\ conf \in Confs /\ stream \in Streams
  /\ buff \in [0..(BuffSize - 1) -> CellType] /\ hbuff \in [0..(HbuffSize - 1) -> CellType]
  /\ len \in 0..BuffSize /\ base \in 0..Len(stream) /\ used \in Nat
  /\ mode \in {"NewSync", "FastSync", "Sync", "GetHeader", "HeaderOk", "Payload",
               "DataPut", "DataReady"}
  /\ have \in Nat /\ need \in Nat /\ old \in Nat
  /\ header \in -1..(BuffSize - 1) /\ headerSize \in Nat /\ payloadSize \in Int
  /\ type \in 0..255 /\ start \in 0..Len(stream)
  /\ {running, failed, unsavedHeader, outputHeader, SOP, short} \subseteq BOOLEAN
  /\ out \in Seq(CellType)

\* "bug, buffered too much": the size a header is thought to have while it is read
\* piece by piece never exceeds the size it turns out to have.
NeverBuffersTooMuch ==
  /\ mode = "GetHeader" => have <= need
  /\ mode = "HeaderOk" /\ need > 0 => have = need

InBody == mode \in {"Payload", "DataPut", "DataReady"} /\ ~outputHeader

\* Bytes of the stream that Process is done with.
Dealt ==
  LET At(u) == base + (IF u > len THEN len ELSE u)
      ahead == IF mode = "DataReady" /\ payloadSize # 0 THEN need ELSE 0
  IN CASE mode \in {"NewSync", "FastSync"} -> At(used)
       [] mode \in {"Sync", "GetHeader"} -> At(used) - have
       [] InBody -> At(used + ahead)
       [] OTHER -> start

\* However the stream is cut into chunks, Process goes through it packet by packet
\* and hands on what it is told to, each byte once and unchanged.
Abstract == INSTANCE PesStream
            WITH pos <- Dealt, pkt <- IF InBody THEN start ELSE -1
Refines == Abstract!Spec

\* When the stream has been read, no more is left than the rest of a packet that is
\* not complete, a header with no byte after it, or too few bytes to tell a packet.
NothingHeldBack ==
  base + len = Len(stream) /\ ~running /\ ~failed /\ conf # "build" =>
    IF InBody THEN start + Abstract!Size(start) > Len(stream)
    ELSE \/ Dealt + 4 >= Len(stream)
         \/ /\ Abstract!StartCode(Dealt)
            /\ Dealt + Abstract!HeaderSize(Dealt) >= Len(stream)

\* Every call of Process returns.
Returns == running ~> ~running

\* A packet of private stream 1 that lies within one chunk, and has no subtitles, is
\* handed on without its substream header, and its header says so.
PrivateFramed ==
  LET size == Abstract!Size(start)
  IN
  /\ mode = "NewSync" /\ running /\ conf = "build" /\ type = 189 /\ Abstract!Valid(start)
  /\ base <= start /\ used = start + size - base
  /\ ~SaysSubtitles([i \in 0..headerSize |-> Abstract!Byte(start + i)], headerSize)
  => /\ Len(out) >= size - 4
     /\ LET p == SubSeq(out, Len(out) - (size - 4) + 1, Len(out))
        IN /\ 256 * p[5].val + p[6].val = size - 4 - 6
           /\ \A i \in 1..Len(p) : i \notin {5, 6} =>
                p[i] = Abstract!Cell(start + (IF i <= headerSize THEN i - 1 ELSE i + 3))

\* "we drop all the subs packets": no byte of a packet with subtitles is handed on.
SubtitlesDropped ==
  conf = "build" /\ InBody /\ type = 189 /\ stream[start + headerSize + 1] = 32 =>
    \A i \in 1..Len(out) : out[i].at < start
=============================================================================
