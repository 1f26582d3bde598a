# vdr-convert, verified

A TLA+ development of `vdr-convert`: the shell script that transcodes the
recordings of the VDR video recorder, its drivers, and `genindex`, the C++
program that rewrites VDR 1.x recordings for it. The modules are translated
from the code under `src/`; TLC checks them on small instances, TLAPS proves
the theorems for all values of the constants.

## 1. The system

```
 vdr-auto (VDR's "after" hook) ---\                 /--> ffmpeg, cat   (external)
 batch.sh (todo.txt, timeout) -----+-> vdr-convert +---> vdr --genindex (external)
 a user --------------------------/       |         \--> genindex --> .ts parts, index
                                          |                cPES -> fifo, assembler
                          files of the recording           cGenIndex -> cFileName, cIndex
                          vdr-convert.pid
```

| component | source | state | operations | interacts with |
|---|---|---|---|---|
| instance lock | `vdr-convert` 1076-1090, 924-934 | `vdr-convert.pid` | test, probe, remove, create, release | every other instance, by the file |
| conversion, VDR 2.x | `vdr-convert` 1092-1202, 1260-1549, `transcode` | `0*.ts`, `*.orig`, `recording.orig`, `index`, `index.orig`, the shell variables `keep delete podcast FILES SAVE` | select, combine, skip, transcode, merge, check, save, install, index, delete or restore | ffmpeg and VDR by exit status; earlier runs by the files they left |
| conversion, VDR 1.x | `vdr-convert` 570-690, 1457-1475, 1496-1513 | `.vdr` files, intermediate `.ts`, a new `.rec` directory | genindex, demultiplex, join, install | genindex, the directory tree |
| stream map | `vdr-convert` `map` 325-541 | streams of one file, scores, codec choice | score, sort, choose; adjusts `keep`, `delete`, returns 2 | transcode |
| options, metadata, names | `vdr-convert` 940-1075, 1117-1260 | shell variables | parse `info`, genres, title | all of the above |
| EDL | `vdr-convert` `edl` 830-922 | lists of marks | pair losts and starts | marks file |
| drivers | `batch.sh`, `vdr-auto` | todo.txt | start, time out | the lock, by starting instances |
| ring buffer | `genindex/fifo.c` | `head tail size buf` | init, read, write | subtitle assembly |
| PES parser | `genindex/pes.c` `cPES` | mode, `have need old`, header buffer, rules | `Process` a chunk of a file | virtual `Action1`, `Action2`, `Output`, `Skipped` of cGenIndex |
| subtitle assembly | `genindex/pes.c` (`prAct3`, `cDvbSubtitleAssembler`, `dvbsub_probe`) | assembled bytes, position, fifo, overrun | put, get, reset, emit | parser, fifo, `Output` |
| index generation | `genindex/genindex.c` | file number and offset of the output and of the picture under the scanner, held-back bytes | `Work`, `Count`, `Output`, `Action1/2` | parser, files, index |
| files and index | `genindex/file.c` | open file, number; `index.vdr` | open, next, write | index generation |
| threads, `cRingBuffer`, `rmstream`, `testindex` | `genindex/thread.*`, `ringbuffer.*`, ... | - | - | single-threaded use |

### What is hard here

* The lock is a sequence of shell commands, and VDR does start the script twice
  at once: the comment above the lock says so. The script traps no signal, so a
  killed instance leaves its lock, and pids are reused.
* A conversion takes hours and is killed by `batch.sh`'s timeout. The next run
  meets the files of the killed one: originals half saved, an index moved away,
  an output file that may match the pattern of the inputs.
* Patterns (`$SAVE`) are expanded again after the files have changed.
* Options are changed on the way (`keep=0`, `delete=0`) and read again later.
* ffmpeg may stop early and report success; only a comparison of durations
  stands before the deletion of the originals, and they are ffmpeg's own estimates. For
  VDR 1.x even the duration to compare with is measured after a first conversion.
* genindex parses a byte stream in chunks that cut packets anywhere, rebuilds
  subtitle packets over many chunks, holds data back until it knows whether a
  picture may begin a new file, and keeps an index that must match.

### What makes each part correct

* Lock: one conversion at a time, whoever starts it; the holder's pid is in the file; a
  stale lock does not bar the recording; every instance ends.
* Conversion: no footage is lost without a converted copy; without `--delete`
  VDR's files stay, saved or in place; a run that reports success leaves one
  indexed file with everything it read; after a failure VDR's files come back;
  every run ends.
* Ring buffer: it is a bounded queue of `size - 1` bytes. Parser: the events do
  not depend on where the chunks are cut. Assembly: only whole display sets are
  emitted, each byte once. Index generation: output is the input in order, split
  only before an I-frame, and each entry points to its picture.

`PROJECT.json` lists the hazards with the line where each one bites and the
property that covers it, or the reason why none does yet.

## 2. Modules

| module | contents |
|---|---|
| `Lockfile` | the lock, any number of instances |
| `LockfileProofs` | its theorems |
| `VdrConvert` | runs of the script, one after another, on a VDR 2.x recording |
| `MCVdrConvert` | recordings and invocations for TLC |
| `VdrConvertProofs` | its theorems |
| `BoundedQueue` | a queue of bytes of bounded length: what `Fifo` promises |
| `Fifo` | the ring buffer of `fifo.c` |
| `FifoProofs` | its theorems: types, and that it implements `BoundedQueue` |
| `GenIndex` | `cGenIndex` on the packets that `cPES` finds |
| `MCGenIndex` | input files and packets for TLC |
| `GenIndexProofs` | its theorems |
| `PesStream` | a stream parsed in one piece: what `Pes` promises |
| `Pes` | `cPES::Process` on chunks of a stream |
| `MCPes` | streams for TLC |
| `PesProofs` | its theorems, with the refinement of `PesStream` |
| `SubtitleAssembler` | `prAct3` of `cPES::Process` for subtitles, over chunks and packets |
| `MCSubtitleAssembler` | broadcasts of display sets for TLC |
| `SubtitleAssemblerProofs` | its theorems |
| `Vdr1` | runs of the script on VDR 1.x recordings |
| `MCVdr1` | two recordings of one minute for TLC |
| `Vdr1Proofs` | its theorems |
| `LeastNumber` | a set of numbers has a least one: induction for the proof modules |

### Lockfile

One action per shell command: `CheckExists` is `[ -e ]`, `CheckReadable`
`[ -r ]`, `ReadPid` the `cat`, `ProbeHolder` the `kill -0`, `RemoveStale` the
`rm -f`, `OpenLock` and `WritePid` the two halves of the redirection (open with
`O_CREAT|O_TRUNC`, then write), `Finish`, `RemoveLock` and `Exit` the end in
`quit()`. Between any two of them other instances run. `Kill` is the timeout or a
power cut at any point; `ReusePid` gives the pid of an ended instance to an
unrelated process, for which `kill -0` may succeed. A file is named by the instance
that created it, so that a descriptor of a removed file stays distinct from the
file of the same name.

Instances belong to users (`Accounts`, one of whom may be `Root`). `kill -0` fails on a
process of another user, unless root asks, and the script takes every failure for a
process that has ended (l.1084): `Found` says what it may report. `OpenDenied` is the
redirection onto a lock file of another user. It is assumed that all users can write
the directory of the recording, so that `rm -f` succeeds, and read each other's lock files;
a read-only or full disk is left out.

Two history variables: `overlapped`, two instances were in start-up at the same time, and
`denied`, an instance probed a running one that it may not signal. In both cases two
instances may convert at once. Exclusion is claimed for all other runs (`Undisturbed`);
without the first condition it is refuted by `lock_overlap`. Where all instances are of one
user nothing is denied, and only the first condition is left (`OneUserExclusion`).

### VdrConvert

A file is the set of segments whose footage it holds and whether it has been
transcoded. `ts[s]` is `0000s.ts`, `ts[Title]` is the output file before it is
renamed, which for a title that begins with `0` matches the input pattern;
`orig` holds the saved files. The actions follow the script: `Scan` (files,
lifetime), `Combine`, the loop over `$FILES` as `SkipSmall`, `QuitSmall` and
`Transcode`, then `Merge`, `MergeEnds`, `Check`, and either `Export` (single-use
and podcast) or `Save`, `SaveIndex`, `Install`, `Genindex`, and then `Replaced` or
`RestoreIndex`, `Restore`, `Restored`. `Kill` ends a run anywhere; `Start` begins
the next one with any invocation on the files that are there.

The circumstances of the recording are a constant record: number of files,
which are below `$minsize`, video or radio, lifetime against `$life`, the title,
`stuck`, whether single `mv` commands may fail, and `exact`, whether ffmpeg estimates
durations rightly. `check_duration` (l.786-793) compares two sums of such estimates, which
"can often get messed up" (l.1261): `LongEnough` and `TooShort`, the two outcomes of
`Check`, follow from the footage only if `exact` holds, and are both possible else. What is
said of lost footage is said of exact recordings: for the others a short output file may
pass, and its originals are deleted.

What the outside may do: cat and ffmpeg fail; ffmpeg succeeds with any part of
its input missing; `check_size` refuses any file (its limits depend on bitrates
the model does not have); `vdr --genindex` fails and leaves no index; short
files may show no video stream.

Three things the code does are worth knowing and are no property here. A run whose
merge or indexing fails ends with status 0 (l.1549): `batch.sh` counts it as a
success. A file skipped as too small takes `--delete` back only while `keep` is 1;
`map()` clears `keep` for a podcast, so a short file *after* the first one is
deleted with the rest. `SkippedKept` states what does hold: only that
`rm -rf` of a podcast, and a run whose single file is too small, remove a skipped file.
In podcast mode nothing but the duration is checked before `rm -rf`.

Left out: option strings, bitrates, tags, names, upload; the modes debug, redo,
ftp and just-subs; failing `rm`; intermediate files that a killed run leaves
(later runs overwrite them); the part of `recording.orig` a killed `cat` leaves
(later runs overwrite or ignore it). A file shorter than the 30 s which
`check_duration` tolerates counts as lacking no segment only if all its segments
are there: losses of less than 30 s are outside the model.

### Fifo

`buf`, `head`, `tail` and `Size` are those of `fifo_t`. A call of `fifo_write` or
`fifo_read` begins with `CallWrite` or `CallRead`; an iteration of its loop is
`WriteByte` or `ReadByte`; it returns by `WriteReturns` or `ReadReturns` when all
bytes are done, or the buffer is full (empty). The buffer starts with arbitrary
bytes, as `fifo_init` sets none. `ImplementsQueue` maps the state to a
`BoundedQueue` of `Size - 1` bytes: the queue is what lies from `tail` to `head`,
read around the end of the buffer. `BoundedQueue` translates no code.

### GenIndex

The input is any sequence of garbage bytes and packets; a packet is its kind, the
sizes of header and payload, and the first picture in it. `cPES` is modelled by
the calls it makes, in their order, and by the bytes it drops without a call:

| action | code |
|---|---|
| `NextFile` | `Work`: a read returns 0, `NextFile()` opens the next input |
| `Garbage` | `Skip`, virtual `Skipped` |
| `Header` | a complete header; either `Invalid`, or `PacketBegins`: `Action1`, `Action2` |
| `PassHeader`, `PassPayload` | `Output` of the header, of the payload in the chunk |
| `DropPayload` | payload of a packet with rule `prSkip`, or `prAct3` without output |
| `EmitHeader`, `EmitPayload` | `Output` of an assembled subtitle packet |
| `Finish` | the loop of `Work` ends |

`Output` is one operator, as it is one function: flush what an earlier packet left
in `store` (`WrittenBefore`), look for the picture (`Found`), hold the piece back
(`Holds`), or begin a new file (`Splits`), write the index entry (`Indexes`, `Entry`), write,
and `Count`. `OutputFails` is a `write` or `open` that fails at any byte.
`fileOffset` is an `int`: `Wrap` is its conversion, `wrapped` records that it
happened; `IntLimit` stands for 2^31. A chunk ends anywhere; `BuffSize` bounds it.

`Write` is `cIndex::Write`. An entry has one byte for the number of the file (`Stored`,
`NumberLimit` stands for 256), and a failing `fwrite` is ignored by the caller
(genindex.c:293, 312), as is what `fclose` cannot write at the end: entries may be lost at
any of these (`Loses`), and genindex goes on and ends as ever. `entries` is what `Write` was
called with, `indexFailed` records a loss; what is left of `index.vdr` after it is not
followed up.

`pkt`, `at`, `passed`, `pictures`, `broken` are history variables: a byte is known
by its packet and its place in it, so that loss, repetition and reordering show.

Some weaknesses of the code limit the properties. `cPES` uses bytes up without a call, so that
in index mode all later entries are off by as many: a header that it finds invalid (pes.c:582,
589), and, after reads of less than four bytes, some of those it had kept (`Drop`,
pes.c:522-548); `IndexPointsUnlessBroken` excludes such streams. `IndexPoints` also
excludes offsets that have wrapped, more output files than an entry can number, and
an index that was not written. And `Work` ends without writing what `Output` holds back:
`OutputInOrder` says that the output is a prefix, not that it is everything.

Left out: the bytes of a picture header (a picture has the payload byte that gives
its type, `picAt`; the scanner carries its state over chunks, and so does `Found`),
how `cPES` finds packets in the bytes, the assembly of subtitles, statistics,
options, the choice of the index file's name, failing reads of the input. That the
input files are below 2 GB is checked by `cFileName` and assumed here, as is that
no packet exceeds the store. `FilesAssumption` is not checked by the code: there are fewer than
99 input files (`fileSize` has `MAX_FILE_NR` + 1 elements, and one more file than there is
gets tried), and fewer than 256.

### Pes

`Pes` is `cPES::Process` itself: bytes in `buff` and `hbuff`, the modes, `have`,
`need`, `old`, and `header` as a place in one of the two buffers. An action is a
pass of the loop through one mode, with its fall-throughs:

| action | code |
|---|---|
| `Process`, `Return` | a call by `Work()` with the next chunk; `Return` saves the header |
| `NewSync`, `FastHit`, `FastSkip`, `FastBuffer` | `pmNewSync`, `pmFastSync` |
| `SyncFill`, `SyncHit`, `SyncShift` | `pmSync`, in `hbuff` |
| `HeaderFill`, `HeaderCheck`, `HeaderOk` | `pmGetHeader`, `pmHeaderOk` |
| `Payload`, `DropSubtitles`, `PassPrivate`, `StripPrivate` | `pmPayload` by rule, to `pmOutput` |
| `DataPut`, `DataReady`, `OutputFails` | `pmDataPut`, `pmDataReady`, a failing `Output` |

A byte carries its place in the stream, so that loss, repetition and damage show.
`PesStream` is what the parser promises: it goes through the stream from front to
back, finds packets at start codes, and hands on those with a passing rule, whole and
in order. It knows no chunks. `Refines` maps the state of `Pes` to it: `Dealt`, the
bytes done with, is computed from mode, `used` and `have`. The abstract parser has two
explicit weaknesses, because the code has them: after a read of less than four bytes a
start code may be overlooked (`pmSync` restarts the chunk from its first byte when the
old bytes are used up, and `old` is then no longer the number of old bytes), and what
`--build` does to packets of private stream 1 may be wrong for such a packet, and for
no other one as long as the first piece of its payload is longer than the four bytes that
are stripped. `PrivateFramed` says what such a packet should look like if it lies within one
chunk and `SaysSubtitles`, the test of pes.c:636, does not find subtitles in it; the bytes are
those of the stream, so that the property knows nothing of buffers. `SubtitlesDropped` refutes more: the second part of a subtitle packet that
straddles a chunk is passed on raw. The header left in `buff` is not saved in this case,
because `Return` saves it only before any of the packet has been output, and the header
in `hbuff` never has the byte after it.

Left out: statistics, `Redirect`, other rule sets; the ring buffer is always empty.

### SubtitleAssembler

The part of `prAct3` that `Pes` drops. A cell is a byte, known by its segment and its
place in it. `Piece` is what one chunk has of one packet: the test that tells subtitles from
AC3, substream header, PTS check, `Reset` and `Put` of `cDvbSubtitleAssembler`; then the loop
takes segments (`Segment`, `Stuffing`, `End`, `NoSegment`, `NotASegment`) to the fifo and at
the end of a display set to `Output`. A chunk ends anywhere, also between a header and its
payload (`MaxCuts` bounds how often). The fifo has the behaviour of `BoundedQueue`. Where no
segment begins, the two length bytes are any of `Counts`. Segment bodies contain no byte that
looks like the start of a segment. `cMutex` is there with its count, owner and mutex, as the
error path unlocks it twice. `ptsnow` is not initialised by the constructor: it starts with
any of `Garbage`.

The test of pes.c:632-636 is made for each piece. `HeaderGone` says when it reads a byte that
is not the one after the header, as `pes_private` shows it for `Pes`: in every piece but the
first, and in the first if the header came in an earlier chunk. The piece then is assembled
or handed on as AC3, as that byte says, and in the second case the set counts as `harmed`.
What is stripped from a first piece that is taken for AC3 needs more than four bytes
(`PiecesLong` in `PesProofs`).

The fifo holds 64 KB less one byte, `outbuf` 64 KB, and the length of a packet has 16 bits.
`Pes` writes that length with its wrap-around. When the segments of a set leave no room for
the marker in `outbuf`, it is written behind its end, and `dvbsub_probe` may read there:
nothing can be said of the program from then on, and the model ends (`Overrun`; the chunk
becomes "undefined"). If such a set is not to be written, as no set has been yet, the program
may also go on: what `dvbsub_probe` finds behind the bytes of the fifo is junk, with any
result.

A packet is a part, `from` to `upto`, of the bytes of its display set, `text`, behind the
substream header that VDR adds. `BroadcastAssumption` says what a recording holds:
`DisplaySet` is the form DVB gives a set, whole segments one after another, and `Goes` the
way VDR cuts it, anywhere, into packets of which only the first has a PTS and lets the
assembler start anew (the code relies on it, pes.c:691). A recording with packets missing
is not among these broadcasts; sets of which genindex itself drops something are.

What the code loses by itself is excluded from the properties by name: `harmed` records
the sets of which a piece was taken for AC3, rejected or ignored (fewer than four bytes left by
a cut, pes.c:718; a PTS that steps back; a huge header), and `Complete` excludes sets too large
for a packet, without an end, or in packets of the old subtitles plugin, of which
pes.c:671 strips one byte too many. A set whose end was lost is merged into the next
one; the properties hold again for the set after that (`Clean`).

Left out: a failing `realloc`, statistics, `overrun`, which feeds debug output only, and the
other packets of a chunk, the pieces taken for AC3 among them, with what `Output` does to
them.

### Vdr1

`transcode()` for `.vdr` files and what follows it in keep mode. Footage is a set of
scenes, in the order of their numbers; a program that stops early leaves an initial
part. `NextFile` removes what is left of `temp/001.vdr`, `OpenWrite` refuses a file that
exists, `Rewrite` is genindex with any result, `Mux` iso13818ts and the measuring of
`program_duration`, then `Extract`, `Transcode`, `Merge`, `Check`, `MakeDir`, `Move`,
`Index`, `Delete`. Each may fail where the script looks at the status; `stuck` lets
`mv` fail, which is only logged. The new directory is named by date and time alone, so
two recordings of one minute share it; `owner` records whose run touched it last.

genindex is the first command of a pipeline, whose status is tested at l.588; `set -o
pipefail` (l.279) lets it fail with any of its commands (`GenindexFails`: the run ends and
the working directory is removed). This covers a genindex that refuses to overwrite a
`001.vdr` which `rm` could not remove, and one that cannot open or read its input, as it then
ends without the statistics the first `grep` looks for. It does not cover a write that fails:
genindex leaves its loop, prints statistics and exits with 0. The duration the result is
compared with is measured after genindex, so nobody sees that a part is missing: a deleted
recording was replaced by *what genindex extracted* (`ReplacedOnceDeleted`), not by the
programme (`ProgrammeKept`, refuted). `Exact` says, as in `VdrConvert`, that ffmpeg's
durations are right; both runs assume it, and without it `ReplacedOnceDeleted` says nothing
of the footage.

An iso13818ts that exits with 0 is taken to have converted all it was given: the script
relies on it, and its source is not here. A failing `rm` of intermediate files is modelled
with `stuck`.

Left out: small files, radio, lifetime (as in `VdrConvert`); subtitles as streams of
their own; debug, redo, just-subs.

## 3. Runs

| run | what it shows |
|---|---|
| `lock` | three instances, one of them root's and two of another user, kills, stale locks, reused pids: exclusion and recording of the holder unless start-ups overlap or an instance may not signal the holder; a stale lock is recovered; all instances end |
| `lock_overlap` | *violated*: two overlapping start-ups both convert |
| `convert` | three runs, seven invocations, ten recordings, kills anywhere: the files are safe as stated in the properties; every run ends |
| `convert_restore` | *violated*: after a failed indexing only the first of two originals is restored |
| `convert_rerun` | *violated*: a killed run, repeated with `-k -d`, deletes an original nobody converted |
| `fifo` | four slots, calls of up to four bytes of two values: a queue of three bytes; every call returns |
| `genindex` | ten bytes in two input files, nine kinds of packet, chunks of one or two bytes, both modes, failing writes of output and index, bytes dropped unseen: output in order, one packet held at most, new files begin with I-frames, one entry per picture and each leads to it, the end is reached |
| `pes` | eight streams in chunks of 1, 5 and 19 bytes in any order, three modes of genindex: implements `PesStream`; nothing is held back at the end; no header is buffered beyond its size; stripped packets have the right size; calls return |
| `pes_private` | *violated*: the rest of a subtitle packet cut by a chunk is passed on raw |
| `subs` | seven broadcasts of up to three display sets, two cuts in headers or payloads: undamaged sets are written whole, once, with their PTS and length, up to an overrun of `outbuf`; `size` is what the fifo holds; `Process` never waits for its own mutex; calls return |
| `vdr1` | two runs, two recordings of one minute, two files each, kills and failures anywhere: what was deleted has been replaced by an indexed file with all that genindex extracted; nothing stale is converted; runs end |
| `vdr1_truncated` | *violated*: a write of genindex fails, and the recording is deleted all the same |

Each violated property is a promise the script's comments make; `PROJECT.json`
quotes them under "findings".

Bounds. Three instances: two that interfere and a third that meets what they
left; two of a user and one of root, so that a probe may be allowed in one direction and
denied in the other. Two files: the fewest for which "the first" and "the others" differ in
every loop; three runs: one that leaves something behind, one that misreads it,
one that acts on the result. Ten recordings are those that the code
distinguishes (short first file, short last file, only a short file, radio, short
and long lifetime, title with a zero, immovable files, wrong durations); seven invocations are
those of `vdr-auto` and of the usage text that differ in the flags the model has.
`MaxRuns` ends the behaviours of `convert`, hence `CHECK_DEADLOCK FALSE`; the
instances of `lock` end too.

For `fifo`: a call longer than the buffer, and indices that wrap at every
position. For `genindex`: the packets are the kinds that `Rule` and `Found`
distinguish, with the picture type in the first or second payload byte and chunks
of one or two, so that packets, pictures and chunks cross the end of the first
file in every way; the split size of four is reached with up to six bytes
left, enough for a held packet and a split. `IntLimit` of eight lets the offset
of an output file overflow, as it does beyond 2 GB with the default split size of
16 GB. `NumberLimit` of three lets entries of a third output file have the number 0.
Finished runs of genindex stop, hence `CHECK_DEADLOCK FALSE`.

For `pes`: each kind of header (MPEG1 and MPEG2, stamps, stuffing, packs, system
headers, padding that contains a start code, invalid and impossible packets), with
zeros and noise between; 19 bytes hold a packet with its header, five cut every header,
one is the least `read` returns. `HbuffSize` of 16 is more than any header of these
streams needs. For `subs`: a fifo of 33 cells holds any two small sets or one full one.
The largest set it holds has the length 34, which wraps, and the one of 34 cells overflows
it; `Counts` has the shortest length, one that ends within the data and one that never does.
Two cuts are the fewest that cut a packet twice, or a header and its payload, or two packets.
`Garbage` is a value that lets the first packet of some broadcasts pass and rejects that of
others. For `vdr1`: two files of two scenes, so that a file may be cut
short or lost; two runs, one that leaves and one that finds; two recordings that share
`$RECDIR`. `vdr1_truncated` needs one recording of one file and one run. All these behaviours
stop, after the last run or at the end of the stream: hence `CHECK_DEADLOCK FALSE`.

Fairness. `FairSpec` asks of `Lockfile` that a started instance keeps executing
(each process on its own), of `VdrConvert` that the next command of a running
script is executed. A conversion that hangs is ended by `timeout -k 4h 3h` in
`batch.sh`, so that "the command ends" is justified there; for calls by hand it is
an assumption about ffmpeg. `Vdr1` asks the same of its script. In `Fifo`, `GenIndex`, `Pes` and
`SubtitleAssembler` it asks that the one thread of genindex keeps executing the loop it
is in; the arrival of a next chunk is not fair in the last two. Kills, starts and reuse of pids are never fair. No
fairness selects between the outcomes of a command.

## 4. Proofs

`LockfileProofs`, for any finite or infinite set of instances:

* `TypeCorrect`: `Spec => []TypeOK`.
* `Exclusion`: `Spec => []ExclusionUnlessDisturbed`.
* `OneUserExclusion`: if each instance may signal each other one,
  `Spec => [](~overlapped => MutualExclusion)`.
* `Recording`: `Spec => []HolderIsRecorded`.

Exclusion is not inductive: that `q` holds the lock does not by itself keep `p`
out. The inductive invariant says, as long as start-ups have not overlapped and no probe
was denied, that at most one instance is in start-up, that the holder's pid is in the lock
file (so a starting instance reads it, and `kill -0` of it succeeds, or is recorded as
denied), and that an instance which has passed the probe is alone. `Exclusion` and
`Recording` are two of its parts; for `OneUserExclusion`, that nothing is ever denied is an
invariant of its own.

`VdrConvertProofs`, for any number of files, recordings, runs and invocations:

* `OriginalsSafe`: `Spec => []OriginalsKept`.
* `TypeCorrect`: `Spec => []TypeOK`.
* `ReplacedBySingleFileHolds`: `Spec => []ReplacedBySingleFile`.
* `LostOnlyHolds`, `SkippedKeptHolds`, `FirstFileRestoredHolds`: the action properties
  `LostOnlyWithLeftovers`, `SkippedKept`, `FirstFileRestored`.

For the first one the inductive invariant `IInv` adds to the property what its steps
rest on: an original is in place *and not saved*, or saved (so `mv -n` has no second
effect on it); in the saving loop each original is still to be visited or saved; at
`Install`, when `mv -f` overwrites `00001.ts`, all are saved.

The others need `RunInv`, which follows the footage of a segment through a run: where the
output file is at each command (`Outcome`), that no file is both there and saved
(`Paired`), and, for a run that began without leftovers, that all files get saved
(`Fresh`), that what `--delete` removes has been counted in the duration the result was
checked against (`Counted`), and that what was converted is in files that come back after a
failure (`Restorable`). The proof attempt showed that `Kept`, by which
`LostOnlyWithLeftovers` says that footage is there, had been too generous: an exported file
counted while the recording was still there, and the fourth run could overwrite it. TLC,
with three runs, had not seen this.

`Vdr1Proofs`, for any recordings, files, scenes and runs:

* `TypeCorrect`, `NothingStaleHolds`, `ReplacedOnceDeletedHolds`: `Spec => []TypeOK`,
  `[]NothingStale`, `[]ReplacedOnceDeleted`.

What is deleted was checked many commands before. The invariant `InRun` carries it from
step to step: what is at hand in each stage is a part of what genindex extracted; once the
check has passed it is all of it; and from the installation on this run is the last that
wrote `$RECDIR`, or `stuck` allows its `mv` to have failed.

`FifoProofs`, for any set of bytes and any size of at least one slot:

* `TypeCorrect`: `Spec => []TypeOK`.
* `Implementation`: `Spec => ImplementsQueue`.

The queue of a ring is a function of `head` and `tail` only up to the wrap-around,
so the lemmas first say how many bytes wait (`Waiting`) and what moving one index
does to this number (`HeadMoves`, `TailMoves`), and then that a write appends to
the queue (`WritePuts`) and a read takes its first byte (`ReadGets`). The
refinement has one case per action; a call's last test is a step of the queue's
call too.

`GenIndexProofs`, for any input files, packets, chunks and sizes:

* `InOrder`: `Spec => []OutputInOrder`.
* `HeldBack`: `Spec => []HeldFits`.
* `TypeCorrect`, `CompleteHolds`, `SplitHolds`: `Spec => []TypeOK`, `[]IndexComplete`,
  `[]SplitAtIFrame`.
* `PointsIntoOutput`: `Spec => [](rewrite => IndexPoints)`.
* `PointsHold`: `FilesHoldHeader => (Spec => []IndexPointsUnlessBroken)`.

That the store does not overflow depends on `pstart`: it is set until the first
piece of a packet has been output, and this piece empties the store. The invariant
`IInv` says so, and that within a packet the store holds no more of it than has
been passed (`Current`); lemma `Piece` shows once, for all callers of `Output`,
that it is kept. `OutputInOrder` follows from `Ordered`, in which the written bytes
have some continuation; a failed write (`Fails`) leaves such a prefix.

The index has its entries because the scanner stays on until it has met the picture
(`Scanning`) and because as much of a packet has been output as has been read (`Even`). A
file begins with the first byte of a packet because what is held back is all of it so far
(`HeldWhole`). For the places the entries name there is one invariant per mode. `Written`:
the next byte goes to `fileNo` at `fileOffset`; the current video packet begins where
`packetNo` and `packetOffset` say; before its picture is found all entries lie before it,
so that a split moves none of them. `Indexed`: what has been counted is where the parser
is, in the file it reads or, with a header to complete, in the one before. These speak of
`entries`, what `cIndex::Write` was called with; `Kept` says that, until a write fails, the
index has just these, with their numbers cut. That the numbers are not changed by it follows
from the number of files.

`FilesHoldHeader`, no input file is shorter than a packet header, is needed: `Count`
(genindex.c:208) goes on by one file at most, and a header that spans three files leaves
the offset beyond the end of a file. TLC refutes `IndexPointsUnlessBroken` for files of two,
one and four bytes and headers of two. When files are rewritten it is not needed.

`PesProofs`, for any streams, chunks and buffer sizes:

* `TypeCorrect`, `NeverBuffersTooMuchHolds`: `Spec /\ []HeaderFits => []TypeOK`, and
  `=> []NeverBuffersTooMuch`.
* with the premises `StreamFits /\ (conf # "build" \/ []PiecesLong)`:
  `HeaderFitsHolds`, `[]HeaderFits`; `RefinementHolds`, `Refines`; `NothingHeldBackHolds`,
  `[](NothingHeldBack /\ AllDealt)`; `PrivateFramedHolds`, `[]PrivateFramed`.

`hbuff` has a fixed size and the code does not check it. `HeaderFits` says that it does not
overflow; the first two theorems need no other premise. It follows from `StreamFits`, which
speaks of the stream alone: no start code in it begins a header longer than `hbuff`. With
`--build` there is a second premise. `PiecesLong`: when the payload of a packet of private
stream 1 is stripped of four bytes, the chunk has more than four of them. If it has not, the
code takes the rest from the packet that follows (pes.c:645), loses its place in the stream
and may read a header where none is. The chunks of genindex are large, but a chunk may end
anywhere, so this is a premise on the behaviour and not on the stream; without `--build`
nothing is stripped and it holds by itself (`OthersLong`).

The invariant `Inv` says of a header that is being collected that it has no more bytes than
were asked for, and that what was asked for is what `HeaderSize` said of some of them; the
lemmas about `HeaderSize` say that fewer bytes never ask for more. The refinement rests on
`Exact`: the chunk is a part of the stream, `hbuff` holds the bytes of the stream that end
where the parser is, except for the steps in which it goes back to the beginning of a chunk,
and the header begins where `start` says. Each action is a step of `PesStream` or a
stutter. With `--build` a packet of private stream 1 is `Whole` until it is `Stripped`: four
bytes have been used that count no longer as its payload. For `PrivateFramed` a further
invariant, `Frame`, follows such a packet, as long as it lies in one chunk, from its header to
the end of its payload and says what is at the end of `out`. The proof attempt showed that the property
had left out the wrong packets: it knew subtitles by the byte after the header, but the code
takes the one before it if the header is that of the old subtitles plugin. No stream of TLC
had such a packet. `Dealt`, the refinement mapping, had to be corrected for this: a byte that is about
to be output counts as dealt with only if its packet has a size.

`SubtitleAssemblerProofs`, for any broadcasts, cuts and sizes of the fifo:

* `TypeCorrect`, `SizeIsBufferedHolds`, `NeverBlocksHolds`: `Spec => []TypeOK`,
  `[]SizeIsBuffered`, `[]NeverBlocks`.
* `SetsWholeHolds`, `SetsDeliveredHolds`: `Spec => []SetsWhole`, `[]SetsDelivered`.

`size` is never less than the fifo holds (`Covered`), or what `End` leaves there would be
forgotten. The mutex is held exactly when it has an owner; when `Process` returns it is free
or its count is not 0, so that the thread that holds it passes (`Mutex`), however often
the error path has unlocked it.

That display sets come out as they went in is a statement about two buffers and a history,
and no part of it is inductive alone. The invariant `Delivering` speaks of the set under way,
`Now`, of which `Come` bytes have come, as long as none of its pieces is `harmed`. `Gathered`: the assembler holds these bytes, as they
are in `Text`, and its position is where a segment begins. `CaughtUp`: when the loop has ended,
no segment is left there that has come whole, so that with its last packet a set has ended
(`AllTaken`). `Queued`: the fifo has the segments before the position, and is empty once the
last of them has been taken. `LeftOver`: what a complete set has left behind the position is one
marker byte; the next set, if its first packet is rejected, does not clear the assembler, and
would otherwise write the end of the one before again. `InTurn` and
`Delivered` are about what has been written: a set in order has been written if its end was
passed (`Passed`), and only then, and once. `SegmentIs` says of a display set that the cells
from one position on are one whole segment; the function `Kept`, the segments without
stuffing among the first bytes of a set, takes the place of a filter over whole sequences, so
that a step of the loop adds to it what it adds to the fifo (`KeptSegment`, `KeptFillers`).
`Gathered` has to exclude values of `have` below eight: after a cut that close to the start of
a packet nothing is put, and the set is no longer complete. After `Overrun` nothing more is
written, so that what was written before is all there is (`OverrunInv`).

`LeastNumber` is the induction principle of these proofs: of the numbers for which a
statement fails, one would be the least. It is obtained from the library's fact
that the strict subset ordering of finite sets is well-founded, which takes no operator. `GenIndexProofs` uses
it for the sums of the file sizes (`UptoIs`, `UptoGrows`), `SubtitleAssemblerProofs` for `Kept`
and for the order of the sets (`SetsGrow`), `Vdr1Proofs` and `PesProofs` for "the next one".

Each invariant was checked by TLC on the instances of section 3, or smaller ones with more
runs or files, before it was proved.

Assumptions are those named in the modules: that the constants have their types; in
`GenIndexAssumption` that no packet exceeds the store, and that neither the store (66 KB)
nor an input file exceeds the range of an `int`; in `PesAssumption` that `hbuff` holds more
than the longest fixed part of a header; in `SubtitleAssumption` that a segment has at least
the six bytes of its header, and in `BroadcastAssumption` what section 2 says of the packets of
a broadcast. Premises of single theorems are named in their statements.

Only model-checked:

* all liveness (`StaleLockRecovered`, `EveryInstanceEnds`, `RunEnds`, `CallReturns`, `Ends`,
  `Returns`): fairness is beyond the prover;
* `PrivateFramed` and `Refines` with `--build` when `PiecesLong` does not hold: TLC checks
  them in chunks of one byte too, on its streams, but in general a short private packet
  takes bytes of the next one.

## 5. Plan

Done: all modules of section 2, and the theorems of section 4; every safety property that a
passing run checks is a theorem. Next:

1. Composition: the packets of `SubtitleAssembler` as those `Pes` drops, so that the two
   parts of `Process` share one stream.
2. `SubtitleAssembler` for recordings with packets missing: which sets are written whole
   then, as `Clean` says it for the sets genindex itself damages.
3. `GenIndex` with a last `Output` that fails halfway, or an index that was written in part:
   which entries are left, and what they point to.

## 6. Not modelled

* Two overlapping conversions of one recording, on its files: that they can overlap is
  shown by `lock_overlap`; two copies of `VdrConvert` are beyond TLC.
* The choice and order of streams in `map()` and the pairing of marks in `edl()`: pure
  functions of text that other programs print.
* Option parsing, metadata, names, tags; upload and logging.
* `ringbuffer.c` (nothing is ever put into it), `rmstream.c` (another small program over
  `cPES`), `testindex.c` (does not compile against the current `cIndex`), and the files
  taken over from VDR (`tools.h`).
