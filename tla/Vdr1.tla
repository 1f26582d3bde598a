--------------------------------- MODULE Vdr1 ---------------------------------
(***************************************************************************)
(* vdr-convert --keep on recordings of VDR 1.x.  A file 00f.vdr is         *)
(* rewritten by genindex, brought into a .ts by iso13818ts, and transcoded *)
(* by ffmpeg; the result goes to a directory of its own, and the recording *)
(* is deleted as a whole.                                                  *)
(*                                                                         *)
(* Module VdrConvert has what recordings of both formats share; here all   *)
(* files are larger than $minsize.  A run may be killed at any step.       *)
(* Footage is a set of scenes <<recording, n>>, each longer than the 30 s  *)
(* that check_duration tolerates; two of them are in a file.               *)
(*                                                                         *)
(* genindex refuses to overwrite 001.vdr (exit 1), and ends without its    *)
(* statistics when it cannot read on: both end the run, as set -o pipefail *)
(* makes a failing genindex or grep the status of the pipeline.  When it   *)
(* cannot write on, it prints its statistics and exits with 0.  iso13818ts,*)
(* ffmpeg and vdr are external; an iso13818ts that exits with 0 is taken   *)
(* to have converted all of 001.vdr, ffmpeg may have stopped early.        *)
(***************************************************************************)
EXTENDS Naturals, FiniteSets

CONSTANTS
  Recordings,  \* the directories <date>.<hour>.<minute>.<priority>.<lifetime>.rec
  Minute,      \* the first three parts of their names
  NumFiles,    \* .vdr files of each
  MaxRuns,     \* bound: runs of the script in one behaviour
  Exact,       \* ffmpeg's estimates of durations are right, within 30 s
  None         \* no file, no directory, no recording

Files  == 1..NumFiles
Scenes == 1..(2 * NumFiles)
Content(r, f) == {<<r, n>> : n \in {2 * f - 1, 2 * f}}
Programme(r)  == {<<r, n>> : n \in Scenes}
Footage == SUBSET (Recordings \X Scenes)

\* "$RECDIR": 00001.ts in it, and the index VDR made of that.
Directory == [ts : {None} \cup Footage, indexed : BOOLEAN]

ASSUME Vdr1Assumption ==
  /\ Minute \in [Recordings -> Nat]
  /\ NumFiles \in Nat \ {0} /\ MaxRuns \in Nat
  /\ Exact \in BOOLEAN
  /\ None \notin Recordings
  /\ \A F \in Footage : None # F
  /\ \A D \in Directory : None # D

Dirs == {Minute[r] : r \in Recordings}

VARIABLES
  present,   \* the recordings there are
  temp,      \* temp/001.vdr of each recording
  recdir,    \* "$RECDIR" of each minute: its 00001.ts, and whether it is indexed
  step,      \* the command the run executes next, "idle" between two runs
  input,     \* the recording the run is about
  delete,    \* it was asked to delete the recording
  todo,      \* the entries of $FILES to come, as the footage of each
  file,      \* footage of the entry under way
  tmpts,     \* footage in 001.ts, later in main.ts
  expected,  \* footage counted in $program_duration
  inter,     \* footage in the intermediate files
  outfile,   \* footage in "$input/$BASENAME.ts"
  runs,
  extracted, \* history: what genindex wrote in the last run on each recording
  owner,     \* history: the recording whose run last wrote or removed $RECDIR
  stuck      \* mv and rm may fail, and be logged only

vars == <<present, temp, recdir, step, input, delete, todo, file, tmpts, expected,
          inter, outfile, runs, extracted, owner, stuck>>

run     == <<input, delete>>
footage == <<expected, inter, outfile>>
kept    == <<present, recdir, owner, stuck, runs>>

\* What has been written when a program stops early.
Earlier(F)  == {{x \in F : x[2] <= n} : n \in 0..(2 * NumFiles)}
RecDir      == Minute[input]
NewDir      == [ts |-> None, indexed |-> FALSE]

Init ==
  /\ present = Recordings
  /\ temp = [r \in Recordings |-> None]
  /\ recdir = [d \in Dirs |-> None]
  /\ step = "idle" /\ input = None /\ delete = FALSE
  /\ todo = {} /\ file = {} /\ tmpts = {} /\ expected = {} /\ inter = {} /\ outfile = {}
  /\ runs = 0
  /\ extracted = [r \in Recordings |-> {}]
  /\ owner = [d \in Dirs |-> None]
  /\ stuck \in BOOLEAN

-----------------------------------------------------------------------------
(* Start and end of a run.                                                 *)

\* With --combine the files are one, unless cat fails.
Start(r, d, joint) ==
  /\ step = "idle" /\ r \in present /\ runs < MaxRuns
  /\ step' = "files" /\ input' = r /\ delete' = d
  /\ todo' = IF joint THEN {Programme(r)} ELSE {Content(r, f) : f \in Files}
  /\ runs' = runs + 1
  /\ extracted' = [extracted EXCEPT ![r] = {}]
  /\ UNCHANGED <<present, temp, recdir, file, tmpts, footage, owner, stuck>>

\* The run ends, and its variables with it.
Exit ==
  /\ step' = "idle" /\ input' = None /\ delete' = FALSE
  /\ todo' = {} /\ file' = {} /\ tmpts' = {}
  /\ expected' = {} /\ inter' = {} /\ outfile' = {}

Kill ==
  /\ step # "idle" /\ Exit
  /\ UNCHANGED <<kept, temp, extracted>>

\* Slip: a command that failed is tried again.
FailRetries == UNCHANGED vars

Fail == Exit /\ UNCHANGED <<kept, temp, extracted>>

-----------------------------------------------------------------------------
(* transcode: the part for VDR 1.x.                                        *)

FirstOf(S) == CHOOSE F \in S : \A G \in S : \E x \in F : \A y \in G : x[2] <= y[2]

\* rm leaves nothing of 001.vdr, unless it fails.
Removed(old) == IF stuck THEN {None, old} ELSE {None}

NextFile ==
  /\ step = "files" /\ todo # {}
  /\ file' = FirstOf(todo) /\ todo' = todo \ {FirstOf(todo)}
  /\ \E F \in Removed(temp[input]) : temp' = [temp EXCEPT ![input] = F]
  /\ step' = "genindex"
  /\ UNCHANGED <<run, kept, tmpts, footage, extracted>>

\* The pipeline fails: the run ends, and removes the intermediate files.
GenindexFails(old) ==
  /\ Exit
  /\ \E F \in Removed(old) : temp' = [temp EXCEPT ![input] = F]
  /\ UNCHANGED <<kept, extracted>>

\* Slip: without pipefail the status is that of sed, and the script goes on.
OpenWriteUnnoticed ==
  /\ step = "genindex"
  /\ step' = IF temp[input] = None THEN "rewrite" ELSE "mux"
  /\ temp' = [temp EXCEPT ![input] = IF @ = None THEN {} ELSE @]
  /\ UNCHANGED <<run, kept, todo, file, tmpts, footage, extracted>>

\* cFileName::OpenWrite refuses a file that exists.
OpenWrite ==
  /\ step = "genindex"
  /\ \/ temp[input] # None /\ GenindexFails(temp[input])
     \/ /\ temp[input] = None
        /\ step' = "rewrite"
        /\ temp' = [temp EXCEPT ![input] = {}]
        /\ UNCHANGED <<run, kept, todo, file, tmpts, footage, extracted>>

\* Work() ends with the input, or with a write that fails, which nobody notices;
\* or it fails for another reason, like a read, and the run with it.
Rewrite(F) ==
  /\ step = "rewrite"
  /\ \/ GenindexFails(F)
     \/ /\ temp' = [temp EXCEPT ![input] = F]
        /\ extracted' = [extracted EXCEPT ![input] = @ \cup F]
        /\ step' = "mux"
        /\ UNCHANGED <<run, kept, todo, file, tmpts, footage>>

\* iso13818ts; then 001.vdr goes, and 001.ts says how long the programme is.
Mux ==
  /\ step = "mux"
  /\ \/ Fail
     \/ /\ tmpts' = temp[input]
        /\ expected' = expected \cup temp[input]
        /\ \E F \in Removed(temp[input]) : temp' = [temp EXCEPT ![input] = F]
        /\ step' = "extract"
        /\ UNCHANGED <<run, kept, todo, file, inter, outfile, extracted>>

\* Subtitles and main streams are taken apart, if there are streams.
Extract ==
  /\ step = "extract"
  /\ \/ Fail
     \/ /\ tmpts # {}
        /\ step' = "transcode"
        /\ UNCHANGED <<run, kept, temp, todo, file, tmpts, footage, extracted>>

\* ffmpeg may stop early with status 0.
Transcode(F) ==
  /\ step = "transcode"
  /\ \/ Fail
     \/ /\ inter' = inter \cup F
        /\ step' = IF todo = {} THEN "merge" ELSE "files"
        /\ tmpts' = {}
        /\ UNCHANGED <<run, kept, temp, todo, file, expected, outfile, extracted>>

-----------------------------------------------------------------------------
(* The transcoded files are merged, checked and installed.                 *)

Merge(F) ==
  /\ step = "merge"
  /\ \/ Fail
     \/ /\ outfile' = F
        /\ step' = "check"
        /\ UNCHANGED <<run, kept, temp, todo, file, tmpts, expected, inter, extracted>>

\* Slip: a file that has any content will do.
LongEnoughIfAny(F) == F # {}

\* check_duration compares lengths, as ffmpeg estimates them.
LongEnough(F) == Exact => Cardinality(F) >= Cardinality(expected)

\* check_size may reject it too.
Check ==
  /\ step = "check"
  /\ \/ Fail
     \/ /\ LongEnough(outfile)
        /\ step' = "mkdir"
        /\ UNCHANGED <<run, kept, temp, todo, file, tmpts, footage, extracted>>

MakeDir ==
  /\ step = "mkdir"
  /\ \/ Fail
     \/ /\ recdir' = [recdir EXCEPT ![RecDir] = IF @ = None THEN NewDir ELSE @]
        /\ step' = "move"
        /\ UNCHANGED <<present, run, temp, todo, file, tmpts, footage, runs, extracted,
                       owner, stuck>>

\* mv -f replaces the 00001.ts of an earlier run, or of another recording.
Move ==
  /\ step = "move"
  /\ \/ recdir' = [recdir EXCEPT ![RecDir] = [ts |-> outfile, indexed |-> FALSE]]
     \/ stuck /\ UNCHANGED recdir
  /\ owner' = [owner EXCEPT ![RecDir] = input]
  /\ step' = "index"
  /\ UNCHANGED <<present, run, temp, todo, file, tmpts, footage, runs, extracted, stuck>>

Indexable(d) == d.ts # None

\* Slip: nobody asks whether vdr --genindex succeeded.
IndexUnchecked ==
  /\ step = "index"
  /\ recdir' = [recdir EXCEPT ![RecDir] = [ts |-> @.ts, indexed |-> TRUE]]
  /\ step' = IF delete THEN "delete" ELSE "end"
  /\ UNCHANGED <<present, run, temp, todo, file, tmpts, footage, runs, extracted,
                 owner, stuck>>

\* vdr --genindex, on which depends what is deleted: the recording or $RECDIR.
Index ==
  /\ step = "index"
  /\ \/ /\ Indexable(recdir[RecDir])
        /\ recdir' = [recdir EXCEPT ![RecDir] = [ts |-> @.ts, indexed |-> TRUE]]
        /\ step' = IF delete THEN "delete" ELSE "end"
     \/ /\ recdir' = [recdir EXCEPT ![RecDir] = None]
        /\ step' = "end"
  /\ UNCHANGED <<present, run, temp, todo, file, tmpts, footage, runs, extracted,
                 owner, stuck>>

Delete ==
  /\ step = "delete"
  /\ present' = present \ {input}
  /\ temp' = [temp EXCEPT ![input] = None]
  /\ step' = "end"
  /\ UNCHANGED <<run, recdir, todo, file, tmpts, footage, runs, extracted, owner, stuck>>

End == step = "end" /\ Exit /\ UNCHANGED <<kept, temp, extracted>>

Step ==
  \/ NextFile \/ OpenWrite \/ (\E F \in Earlier(file) : Rewrite(F))
  \/ Mux \/ Extract \/ (\E F \in Earlier(tmpts) : Transcode(F))
  \/ (\E F \in Earlier(inter) : Merge(F)) \/ Check \/ MakeDir \/ Move \/ Index \/ Delete \/ End

Next ==
  \/ \E r \in Recordings, d, joint \in BOOLEAN : Start(r, d, joint)
  \/ Step \/ Kill

Spec     == Init /\ [][Next]_vars
FairSpec == Spec /\ WF_vars(Step)

-----------------------------------------------------------------------------
(* Properties.                                                             *)

\* The variables keep to their types; what is indexed is there.
TypeOK ==
  /\ present \subseteq Recordings
  /\ temp \in [Recordings -> {None} \cup Footage]
  /\ recdir \in [Dirs -> {None} \cup Directory]
  /\ \A d \in Dirs : recdir[d] # None /\ recdir[d].indexed => recdir[d].ts # None
  /\ step \in {"idle", "files", "genindex", "rewrite", "mux", "extract", "transcode",
               "merge", "check", "mkdir", "move", "index", "delete", "end"}
  /\ input \in {None} \cup Recordings /\ (step = "idle" <=> input = None)
  /\ {delete, stuck} \subseteq BOOLEAN /\ runs \in 0..MaxRuns
  /\ todo \subseteq Footage /\ {file, tmpts, expected, inter, outfile} \subseteq Footage
  /\ extracted \in [Recordings -> Footage] /\ owner \in [Dirs -> {None} \cup Recordings]

Converted(r) == recdir[Minute[r]]

\* A recording that is gone has been replaced: by a file VDR could index, with all
\* that genindex extracted of it in its last run - whatever was killed or failed in
\* this or another run, unless mv failed or the durations were wrong.  Only the run
\* on another recording of the same minute can destroy that file.
ReplacedOnceDeleted ==
  \A r \in Recordings \ present :
    \/ /\ Converted(r) # None /\ Converted(r).indexed /\ Converted(r).ts # None
       /\ stuck \/ ~Exact \/ Converted(r).ts = extracted[r]
    \/ owner[Minute[r]] # r

\* What is transcoded is what genindex made of this recording in this run, never a
\* 001.vdr that an earlier run, killed, has left behind, or an earlier file of this
\* run: also if rm does not remove it and only the status of genindex, the first
\* program of five in the pipeline, says that it is still there.
NothingStale == input # None => inter \cup tmpts \subseteq extracted[input]

\* A run comes to its end.
Ends == step # "idle" ~> step = "idle"

\* Stated by the remark that the conversion is checked to be really successful before
\* the original files are deleted: a recording that is deleted has been converted
\* completely.
ProgrammeKept ==
  \A r \in Recordings \ present :
    \/ Converted(r) # None /\ Converted(r).ts = Programme(r)
    \/ owner[Minute[r]] # r
=============================================================================
