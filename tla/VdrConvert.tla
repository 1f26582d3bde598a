----------------------------- MODULE VdrConvert -----------------------------
(***************************************************************************)
(* vdr-convert on a recording of VDR 2.x: what one run of the script after *)
(* another does to the files 00001.ts, 00002.ts, ... of the recording, to  *)
(* their saved originals 00001.ts.orig, ..., and to the index.             *)
(*                                                                         *)
(* One run holds the lock at a time (module Lockfile); it may be killed at *)
(* any step and be started again, with the same or other options, on the   *)
(* files it left behind.  One step here is one command that touches a file *)
(* of the recording, or one program the script waits for.                  *)
(*                                                                         *)
(* A file is its footage: the segments of the recorded programme it holds, *)
(* where segment s is what VDR recorded into 0000s.ts, and whether it has  *)
(* been transcoded.  A file shorter than the 30 s tolerance of the check   *)
(* on durations allows lacks a segment.  The check compares durations that *)
(* ffmpeg estimates, not footage: where the estimates of a recording are   *)
(* off, its outcome has nothing to do with the footage.  ffmpeg, cat and   *)
(* vdr --genindex are external: each may fail, and ffmpeg may also stop    *)
(* early with status 0.                                                    *)
(***************************************************************************)
EXTENDS Naturals, FiniteSets

CONSTANTS
  NumFiles,     \* .ts files of the longest recording considered
  Recordings,   \* the circumstances of the recording, see RecordingType
  Invocations,  \* the options the script is called with, see OptionType
  MaxRuns,      \* bound: runs of the script in one behaviour
  NoFile        \* content of a file name that does not exist

Segs == 1..NumFiles

\* number: VDR recorded the files 00001.ts to 0000<number>.ts
\* small:  those of them that are not larger than $minsize
\* video:  the recording has a video stream (a radio recording has none)
\* life:   $lifetime is below, equal to or above $life
\* title0: the title begins with the digit 0, so that "$BASENAME.ts" matches 0*.ts
\* stuck:  single mv commands may fail (directory or files of other owners)
\* exact:  ffmpeg's estimates of the durations of the recording's files and of
\*         what is made of them are right, to within the tolerance of the check
RecordingType == [number : Segs, small : SUBSET Segs,
                  video : BOOLEAN, life : {"short", "equal", "long"},
                  title0 : BOOLEAN, stuck : BOOLEAN, exact : BOOLEAN]

OptionType == [keep : BOOLEAN, delete : BOOLEAN, combine : BOOLEAN,
               podcast : BOOLEAN, maintain : BOOLEAN]

ASSUME VdrConvertAssumption ==
  /\ NumFiles \in Nat \ {0}
  /\ Recordings \subseteq RecordingType
  /\ Invocations \subseteq OptionType
  /\ MaxRuns \in Nat
  /\ NoFile \notin [segs : SUBSET Segs, coded : BOOLEAN]

VARIABLES
  rec,       \* the recording
  step,      \* the command the run executes next, "idle" between two runs
  opt,       \* options of the run, as its commands have adjusted them so far
  ts,        \* files 0000s.ts for s \in Segs, and "$BASENAME.ts" for Title
  orig,      \* the same names with .orig appended
  combined,  \* recording.orig
  index,     \* index:      "none", "raw" (VDR's own) or "coded"
  indexOrig, \* index.orig: the same
  exported,  \* the output file in $outputdir (podcast and single-use modes)
  present,   \* the directory of the recording exists
  todo,      \* files of the for loop that are still to be visited
  fileno,    \* $fileno: transcoded files, the entries of $MERGEFILES
  inter,     \* footage in the intermediate files
  expected,  \* footage counted in $program_duration
  status,    \* argument of the last quit, or Killed
  runs,      \* runs started
  asked,     \* history: some run was started with --delete
  leftovers  \* history: *.orig files were there when this run started

vars == <<rec, step, opt, ts, orig, combined, index, indexOrig, exported,
          present, todo, fileno, inter, expected, status, runs, asked, leftovers>>

recording == <<rec, runs, asked, leftovers>>
files     == <<ts, orig, combined>>
indexes   == <<index, indexOrig>>
outside   == <<exported, present>>
counted   == <<fileno, inter, expected>>

-----------------------------------------------------------------------------
(* Files.                                                                  *)

Title == NumFiles + 1        \* "$input/$BASENAME.ts", sorts after 0000s.ts
Joint == 0                   \* recording.orig as an entry of $FILES
Names == Segs \cup {Title}

Footage(S, c) == [segs |-> S, coded |-> c]
Content       == [segs : SUBSET Segs, coded : BOOLEAN]
Source(s)     == Footage({s}, FALSE)
Recorded      == 1..rec.number

\* The expansion of "$input/0*.ts", used for $FILES and twice for $SAVE.
Glob == {n \in Names : ts[n] # NoFile /\ (n \in Segs \/ rec.title0)}

\* $tsfiles: names with five digits before .ts
TsFiles == Cardinality({s \in Segs : ts[s] # NoFile})

\* n is the first name of S in the order in which the shell expands a pattern.
First(n, S) == n \in S /\ \A m \in S : n <= m
Input(n) == IF n = Joint THEN combined ELSE ts[n]
TooSmall(c) == c.segs \subseteq rec.small

-----------------------------------------------------------------------------
(* Start and end of a run.                                                 *)

NoOptions == [keep |-> FALSE, delete |-> FALSE, combine |-> FALSE,
              podcast |-> FALSE, maintain |-> FALSE]

Init ==
  /\ rec \in Recordings
  /\ step = "idle" /\ opt = NoOptions /\ todo = {}
  /\ ts = [n \in Names |-> IF n \in Recorded THEN Source(n) ELSE NoFile]
  /\ orig = [n \in Names |-> NoFile]
  /\ combined = NoFile /\ exported = NoFile /\ present = TRUE
  /\ index = "raw" /\ indexOrig = "none"
  /\ fileno = 0 /\ inter = {} /\ expected = {}
  /\ status = 0 /\ runs = 0 /\ asked = FALSE /\ leftovers = FALSE

\* A run takes the lock.
Start(o) ==
  /\ step = "idle" /\ present /\ runs < MaxRuns
  /\ step' = "scan"
  /\ opt' = o
  /\ runs' = runs + 1
  /\ asked' = (asked \/ o.delete)
  /\ leftovers' = \E n \in Names : orig[n] # NoFile
  /\ status' = 0
  /\ UNCHANGED <<rec, files, indexes, outside, todo, counted>>

\* The variables of a shell that has exited.
Exited(s) ==
  /\ step' = "idle" /\ opt' = NoOptions /\ todo' = {}
  /\ fileno' = 0 /\ inter' = {} /\ expected' = {}
  /\ status' = s
  /\ UNCHANGED recording

Killed == 143   \* status of a shell that ends with SIGTERM

Quit(s) == Exited(s) /\ UNCHANGED <<files, indexes, outside>>

\* batch.sh's timeout, a shutdown or a power cut
Kill ==
  /\ step # "idle"
  /\ Exited(Killed)
  /\ UNCHANGED <<files, indexes, outside>>

-----------------------------------------------------------------------------
(* Which files are converted, and how the options are adjusted.            *)

\* map() finds video in the file: not always when the file is short.
SeesVideo(c, v) == v = rec.video \/ (rec.video /\ TooSmall(c))

\* map() returns 2: in keep mode nothing is transcoded to the codec it has.
MapRefuses(c, v) == v /\ opt.keep /\ ~opt.maintain /\ c.coded

\* map() makes a podcast of an audio-only recording, which is not kept, and
\* deletes no originals in any other single-use mode.
AfterMap(v) ==
  IF opt.podcast /\ ~v THEN [opt EXCEPT !.keep = FALSE]
  ELSE IF ~opt.keep    THEN [opt EXCEPT !.delete = FALSE]
  ELSE opt

\* Count the files, read the metadata, decide whether to combine.
Scan ==
  /\ step = "scan"
  /\ \/ TsFiles = 0 /\ Quit(1)
     \/ /\ TsFiles > 0 /\ rec.video /\ opt.keep /\ rec.life = "short"
        /\ Quit(2)
     \/ /\ TsFiles > 0 /\ ~(rec.video /\ opt.keep /\ rec.life = "short")
        /\ opt' = IF ~rec.video /\ rec.life = "long"
                  THEN [opt EXCEPT !.podcast = FALSE] ELSE opt
        /\ \/ opt.combine /\ TsFiles > 1 /\ step' = "combine" /\ todo' = {}
           \/ ~(opt.combine /\ TsFiles > 1) /\ step' = "convert" /\ todo' = Glob
        /\ UNCHANGED <<recording, status, files, indexes, outside, counted>>

\* map the first file, and cat all of them into recording.orig; if cat fails
\* the files are transcoded one by one.
Combine(f, v) ==
  /\ step = "combine" /\ First(f, Glob) /\ SeesVideo(ts[f], v)
  /\ \/ Quit(1)
     \/ MapRefuses(ts[f], v) /\ Quit(2)
     \/ /\ ~MapRefuses(ts[f], v)
        /\ opt' = AfterMap(v)
        /\ step' = "convert"
        /\ \/ /\ combined' = Footage(UNION {ts[n].segs : n \in Glob}, ts[f].coded)
              /\ todo' = {Joint}
           \/ combined' = NoFile /\ todo' = Glob
        /\ UNCHANGED <<recording, status, ts, orig, indexes, outside, counted>>

\* Slip: what is left out is deleted with the rest.
SkipSmallDeletes(f) ==
  /\ step = "convert" /\ First(f, todo) /\ TooSmall(Input(f)) /\ ~opt.combine
  /\ todo' = todo \ {f}
  /\ UNCHANGED <<step, opt, recording, status, files, indexes, outside, counted>>

\* Slip: the loop comes back to the file it has skipped.
SkipSmallRepeats(f) ==
  /\ step = "convert" /\ First(f, todo) /\ TooSmall(Input(f)) /\ ~opt.combine
  /\ UNCHANGED vars

\* A file below $minsize is left out, and nothing is deleted any more.
SkipSmall(f) ==
  /\ step = "convert" /\ First(f, todo) /\ TooSmall(Input(f)) /\ ~opt.combine
  /\ todo' = todo \ {f}
  /\ opt' = IF opt.keep /\ opt.delete THEN [opt EXCEPT !.delete = FALSE] ELSE opt
  /\ UNCHANGED <<step, recording, status, files, indexes, outside, counted>>

\* With --combine it ends the run; --delete then removes the only file of an
\* aborted VPS start.
QuitSmall(f) ==
  /\ step = "convert" /\ First(f, todo) /\ TooSmall(Input(f)) /\ opt.combine
  /\ Exited(1)
  /\ \/ /\ TsFiles = 1 /\ opt.delete
        /\ ts' = [ts EXCEPT ![f] = NoFile]
     \/ ~(TsFiles = 1 /\ opt.delete) /\ UNCHANGED ts
  /\ UNCHANGED <<orig, combined, indexes, outside>>

\* transcode(), and the removal of recording.orig after it.
Transcode(f) ==
  LET c == Input(f)
      combinedRemoved == IF opt.combine THEN NoFile ELSE combined
  IN
  /\ step = "convert" /\ First(f, todo) /\ ~TooSmall(c)
  /\ \/ /\ MapRefuses(c, rec.video)
        /\ Exited(2)
        /\ combined' = combinedRemoved
     \/ /\ ~MapRefuses(c, rec.video)
        /\ Exited(1)
        /\ combined' \in {combined, combinedRemoved}  \* kept when map() itself quits
     \/ /\ ~MapRefuses(c, rec.video)
        /\ \E S \in SUBSET c.segs : inter' = inter \cup S
        /\ fileno' = fileno + 1
        /\ expected' = expected \cup c.segs
        /\ opt' = AfterMap(rec.video)
        /\ todo' = todo \ {f}
        /\ combined' = combinedRemoved
        /\ UNCHANGED <<step, recording, status>>
  /\ UNCHANGED <<ts, orig, indexes, outside>>

-----------------------------------------------------------------------------
(* The output file.                                                        *)

Output == IF opt.keep THEN ts[Title] ELSE exported

Write(c) ==
  IF opt.keep THEN ts' = [ts EXCEPT ![Title] = c] /\ UNCHANGED exported
              ELSE exported' = c /\ UNCHANGED ts

\* ffmpeg -y opens the output file; without any transcoded file there is
\* nothing to merge.
Merge ==
  /\ step = "convert" /\ todo = {}
  /\ \/ fileno = 0 /\ Quit(0)
     \/ /\ fileno > 0
        /\ Write(Footage({}, TRUE))
        /\ step' = "merge"
        /\ UNCHANGED <<recording, opt, status, orig, combined, indexes, present,
                       todo, counted>>

\* ffmpeg ends: with the merged footage or part of it, or with an error that
\* is logged.
MergeEnds ==
  /\ step = "merge"
  /\ \E S \in SUBSET inter : Write(Footage(S, TRUE))
  /\ \/ step' = "check" /\ UNCHANGED <<recording, opt, status, todo, counted>>
     \/ Exited(0)
  /\ UNCHANGED <<orig, combined, indexes, present>>

\* check_duration lets the output file pass.
LongEnough == rec.exact => expected \subseteq Output.segs

\* check_duration finds it too short.
TooShort == rec.exact => ~(expected \subseteq Output.segs)

\* Slip: a failed check leaves with a code that quit() does not know.
CheckQuitsOtherwise ==
  /\ step = "check"
  /\ \/ TooShort /\ Quit(3)
     \/ opt.keep /\ Quit(3)

\* Slip: the result of check_duration is not looked at.
CheckIgnored ==
  /\ step = "check"
  /\ step' = IF opt.keep THEN "save" ELSE "export"
  /\ todo' = IF opt.keep THEN Glob ELSE {}
  /\ UNCHANGED <<recording, opt, status, files, indexes, outside, counted>>

\* check_duration, and in keep mode check_size: the latter may refuse any file.
Check ==
  /\ step = "check"
  /\ \/ TooShort /\ Quit(1)
     \/ opt.keep /\ Quit(1)
     \/ /\ LongEnough
        /\ step' = IF opt.keep THEN "save" ELSE "export"
        /\ todo' = IF opt.keep THEN Glob ELSE {}
        /\ UNCHANGED <<recording, opt, status, files, indexes, outside, counted>>

\* Single-use modes are done; a podcast may replace the recording.
Export ==
  /\ step = "export"
  /\ Exited(0)
  /\ \/ /\ opt.podcast /\ opt.delete
        /\ present' = FALSE
        /\ ts' = [n \in Names |-> NoFile] /\ orig' = [n \in Names |-> NoFile]
        /\ combined' = NoFile /\ index' = "none" /\ indexOrig' = "none"
     \/ ~(opt.podcast /\ opt.delete) /\ UNCHANGED <<files, indexes, present>>
  /\ UNCHANGED exported

-----------------------------------------------------------------------------
(* Keep mode: the output file takes the place of the originals.            *)

\* Slip: mv -f, a saved original is overwritten.
SaveForced(f) ==
  /\ step = "save" /\ First(f, todo)
  /\ todo' = todo \ {f}
  /\ orig' = [orig EXCEPT ![f] = ts[f]]
  /\ ts' = [ts EXCEPT ![f] = NoFile]
  /\ UNCHANGED <<step, opt, recording, status, combined, indexes, outside, counted>>

\* Slip: only the file that will be replaced is saved.
SaveFirst(f) ==
  /\ step = "save" /\ First(f, todo)
  /\ todo' = {}
  /\ orig' = [orig EXCEPT ![f] = IF @ = NoFile THEN ts[f] ELSE @]
  /\ ts' = [ts EXCEPT ![f] = IF orig[f] = NoFile THEN NoFile ELSE @]
  /\ UNCHANGED <<step, opt, recording, status, combined, indexes, outside, counted>>

\* mv -n "$f" "$f.orig" for the next file: no effect if the target exists
Save(f) ==
  /\ step = "save" /\ First(f, todo)
  /\ todo' = todo \ {f}
  /\ \/ /\ orig[f] = NoFile
        /\ orig' = [orig EXCEPT ![f] = ts[f]]
        /\ ts' = [ts EXCEPT ![f] = NoFile]
     \/ (orig[f] # NoFile \/ rec.stuck) /\ UNCHANGED <<ts, orig>>
  /\ UNCHANGED <<step, opt, recording, status, combined, indexes, outside, counted>>

\* mv -n index index.orig
SaveIndex ==
  /\ step = "save" /\ todo = {}
  /\ step' = "install"
  /\ \/ index # "none" /\ indexOrig = "none" /\ indexOrig' = index /\ index' = "none"
     \/ (index = "none" \/ indexOrig # "none" \/ rec.stuck) /\ UNCHANGED indexes
  /\ UNCHANGED <<opt, todo, recording, status, files, outside, counted>>

\* mv -f "$outfile" 00001.ts
Install ==
  /\ step = "install"
  /\ step' = "genindex"
  /\ \/ /\ ts[Title] # NoFile
        /\ ts' = [ts EXCEPT ![1] = ts[Title], ![Title] = NoFile]
     \/ (ts[Title] = NoFile \/ rec.stuck) /\ UNCHANGED ts
  /\ UNCHANGED <<opt, todo, recording, status, orig, combined, indexes, outside, counted>>

\* vdr --genindex removes the index and builds a new one from 00001.ts.
Genindex ==
  /\ step = "genindex"
  /\ \/ /\ ts[1] # NoFile
        /\ index' = IF ts[1].coded THEN "coded" ELSE "raw"
        /\ step' = "replaced"
     \/ index' = "none" /\ step' = "restoreindex"
  /\ UNCHANGED <<opt, todo, recording, status, files, indexOrig, outside, counted>>

\* VDR accepts the new file; with --delete, rm -f *.orig.
Replaced ==
  /\ step = "replaced"
  /\ Exited(0)
  /\ \/ /\ opt.delete
        /\ orig' = [n \in Names |-> NoFile]
        /\ combined' = NoFile /\ indexOrig' = "none"
     \/ ~opt.delete /\ UNCHANGED <<orig, combined, indexOrig>>
  /\ UNCHANGED <<ts, index, outside>>

\* Slip: the list of the first loop, which has been used up, is not renewed.
RestoreIndexOnly ==
  /\ step = "restoreindex"
  /\ step' = "restore"
  /\ index' = indexOrig /\ indexOrig' = "none"
  /\ UNCHANGED <<opt, todo, recording, status, files, outside, counted>>

\* mv -f index.orig index, and the expansion of $SAVE for the loop after it
RestoreIndex ==
  /\ step = "restoreindex"
  /\ step' = "restore"
  /\ todo' = Glob
  /\ \/ indexOrig # "none" /\ index' = indexOrig /\ indexOrig' = "none"
     \/ (indexOrig = "none" \/ rec.stuck) /\ UNCHANGED indexes
  /\ UNCHANGED <<opt, recording, status, files, outside, counted>>

\* mv -f "$f.orig" "$f" for the next file
Restore(f) ==
  /\ step = "restore" /\ First(f, todo)
  /\ todo' = todo \ {f}
  /\ \/ /\ orig[f] # NoFile
        /\ ts' = [ts EXCEPT ![f] = orig[f]]
        /\ orig' = [orig EXCEPT ![f] = NoFile]
     \/ (orig[f] = NoFile \/ rec.stuck) /\ UNCHANGED <<ts, orig>>
  /\ UNCHANGED <<step, opt, recording, status, combined, indexes, outside, counted>>

Restored == step = "restore" /\ todo = {} /\ Quit(0)

Command ==
  \/ Scan \/ Merge \/ MergeEnds \/ Check \/ Export \/ SaveIndex \/ Install
  \/ Genindex \/ Replaced \/ RestoreIndex \/ Restored
  \/ \E f \in Names : \E v \in BOOLEAN : Combine(f, v)
  \/ \E f \in Names \cup {Joint} : SkipSmall(f) \/ QuitSmall(f) \/ Transcode(f)
  \/ \E f \in Names : Save(f) \/ Restore(f)

Next == Command \/ Kill \/ \E o \in Invocations : Start(o)

Spec == Init /\ [][Next]_vars

\* Every command of the script ends: the programs it waits for do, or
\* batch.sh's timeout ends them.
FairSpec == Spec /\ WF_vars(Command)

-----------------------------------------------------------------------------
(* Properties.                                                             *)

Steps == {"idle", "scan", "combine", "convert", "merge", "check", "export",
          "save", "install", "genindex", "replaced", "restoreindex", "restore"}

IndexContent == {"none", "raw", "coded"}

TypeOK ==
  /\ rec \in Recordings
  /\ step \in Steps
  /\ opt \in OptionType
  /\ ts \in [Names -> Content \cup {NoFile}]
  /\ orig \in [Names -> Content \cup {NoFile}]
  /\ combined \in Content \cup {NoFile}
  /\ exported \in Content \cup {NoFile}
  /\ index \in IndexContent /\ indexOrig \in IndexContent
  /\ present \in BOOLEAN
  /\ todo \subseteq Names \cup {Joint}
  /\ fileno \in Nat
  /\ inter \subseteq Segs /\ expected \subseteq Segs
  /\ status \in {0, 1, 2, Killed}
  /\ runs \in Nat
  /\ asked \in BOOLEAN /\ leftovers \in BOOLEAN

\* As long as no run was given --delete, VDR's own recording of every segment
\* is in the directory, under its name or under the saved one, whatever was
\* converted, failed, killed or repeated.
OriginalsKept ==
  ~asked /\ ~rec.stuck =>
    \A s \in Recorded : ts[s] = Source(s) \/ orig[s] = Source(s)

\* The file of name n, or its saved original, holds footage of segment s.
InFile(s, n)  == ts[n] # NoFile /\ s \in ts[n].segs
InSaved(s, n) == orig[n] # NoFile /\ s \in orig[n].segs

\* The footage of segment s can be watched: from a file or a saved original in the
\* directory; once that is removed, from the exported file.  (As long as it is there,
\* an exported file does not count: the next run may write to it.)
Kept(s) ==
  IF present THEN \E n \in Segs : InFile(s, n) \/ InSaved(s, n)
  ELSE exported # NoFile /\ s \in exported.segs

\* A run never loses footage of a file of normal size, even with --delete:
\* originals go only after all of them have been converted.  The exceptions are
\* a run that finds saved originals of an earlier run in the directory, and a
\* recording whose durations ffmpeg does not get right: then a short output file
\* passes the check and its originals are deleted.
LostOnlyWithLeftovers ==
  [][\A s \in Recorded \ rec.small : Kept(s) /\ ~Kept(s)' =>
       leftovers \/ rec.stuck \/ ~rec.exact]_vars

\* Without that exception: no command removes footage that is nowhere else.
NothingLost == [][\A s \in Recorded \ rec.small : Kept(s) => Kept(s)']_vars

\* A run that reports the files as replaced and indexed leaves one .ts file for
\* VDR, which is the converted one, and the index is that of this file; it holds
\* everything the run has read, if ffmpeg's durations are right.
ReplacedBySingleFile ==
  step = "replaced" /\ ~rec.stuck =>
    /\ {s \in Segs : ts[s] # NoFile} = {1}
    /\ ts[1].coded /\ (rec.exact => expected \subseteq ts[1].segs)
    /\ index = "coded"

\* After a failed indexing, a run that found no saved originals leaves none.
AllRestored ==
  [][Restored /\ ~leftovers /\ ~rec.stuck => \A s \in Segs : orig[s] = NoFile]_vars

\* At the least, the converted file does not stay in the place of the first
\* original, and VDR has its own index again.
FirstFileRestored ==
  [][Restored /\ ~leftovers /\ ~rec.stuck /\ ~rec.title0 =>
       orig[1] = NoFile /\ indexOrig = "none"]_vars

\* A file that was skipped for its size is not removed either, "in case it all goes
\* wrong" - but with the directory of a podcast, or if it was the only one.  (Small
\* files that --combine has joined with others are as safe as these.)
SkippedKept ==
  [][\A s \in Recorded \cap rec.small : Kept(s) /\ ~Kept(s)' =>
       \/ leftovers \/ rec.stuck \/ ~rec.exact
       \/ step = "export"
       \/ step = "convert" /\ TsFiles = 1]_vars

\* Every run comes to its end.
RunEnds == step # "idle" ~> step = "idle"
=============================================================================
