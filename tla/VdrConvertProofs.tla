-------------------------- MODULE VdrConvertProofs --------------------------
(***************************************************************************)
(* For recordings of any number of files, any options, and any number of   *)
(* runs that may each be killed at any step.                               *)
(*                                                                         *)
(* The first half is about invocations without --delete: VDR's own         *)
(* recording of every segment stays in the directory.  Its invariant,      *)
(* IInv, has to say more: an original that has been saved is never         *)
(* overwritten by a second mv -n, the loop over $SAVE leaves no file out,  *)
(* and when mv -f installs 00001.ts the original of this name is saved.    *)
(*                                                                         *)
(* The second half is about --delete: what is deleted has been converted.  *)
(* Its invariant, RunInv, follows the footage of a segment from file to    *)
(* file through a run.                                                     *)
(***************************************************************************)
EXTENDS VdrConvert, FiniteSetTheorems, TLAPS

-----------------------------------------------------------------------------
(* The originals are kept without --delete.                                *)

\* As much of the types as the argument needs.
Shape ==
  /\ rec \in RecordingType
  /\ opt \in OptionType
  /\ ts = [n \in Names |-> ts[n]]
  /\ orig = [n \in Names |-> orig[n]]

\* Each original is either still in place, not saved, or it has been saved.
InPlaceOrSaved ==
  \A s \in Recorded :
    orig[s] = Source(s) \/ (orig[s] = NoFile /\ ts[s] = Source(s))

\* The loop that saves the originals visits every one that is not saved yet.
SavingAll ==
  step = "save" => \A s \in Recorded : s \in todo \/ orig[s] = Source(s)

\* Nothing is installed over an original that has not been saved.
AllSaved ==
  step = "install" => \A s \in Recorded : orig[s] = Source(s)

KeepInv == ~opt.delete /\ InPlaceOrSaved /\ SavingAll /\ AllSaved

IInv == Shape /\ (~asked /\ ~rec.stuck => KeepInv)

-----------------------------------------------------------------------------

\* A file of VDR's own exists, and its name is not that of the output file.
LEMMA Sources ==
  ASSUME rec \in RecordingType, NEW s \in Recorded
  PROVE  /\ s \in Segs /\ s \in Names /\ s # Title /\ 1 \in Recorded
         /\ Source(s) # NoFile
<1>1. /\ NumFiles \in Nat \ {0} /\ rec.number \in 1..NumFiles
  BY VdrConvertAssumption DEF RecordingType, Segs
<1>2. s \in Segs /\ s # NumFiles + 1 /\ 1 \in Recorded
  BY <1>1 DEF Recorded, Segs
<1>3. Source(s) \in [segs : SUBSET Segs, coded : BOOLEAN]
  BY <1>2 DEF Source, Footage
<1> QED
  BY <1>2, <1>3, VdrConvertAssumption DEF Names, Title

\* map() turns options off and none on.
LEMMA MapOptions ==
  ASSUME opt \in OptionType, NEW v \in BOOLEAN
  PROVE  AfterMap(v) \in OptionType /\ (~opt.delete => ~AfterMap(v).delete)
BY DEF AfterMap, OptionType

\* A command that leaves VDR's files alone, and is followed neither by the
\* saving loop nor by the installation, keeps the invariant if it does not turn
\* --delete on.
LEMMA Untouched ==
  ASSUME IInv, rec' = rec, asked' = asked, orig' = orig,
         ts' = [n \in Names |-> ts'[n]],
         \A s \in Recorded : ts'[s] = ts[s],
         opt' \in OptionType, ~opt.delete => ~opt'.delete,
         step' \notin {"save", "install"}
  PROVE  IInv'
<1>1. Shape'
  BY DEF IInv, Shape, Names, Segs, Title
<1>2. ASSUME ~asked, ~rec.stuck PROVE KeepInv'
  <2>1. KeepInv
    BY <1>2 DEF IInv
  <2>2. InPlaceOrSaved'
    BY <2>1 DEF KeepInv, InPlaceOrSaved, Recorded, Source, Footage
  <2> QED
    BY <2>1, <2>2 DEF KeepInv, SavingAll, AllSaved
<1> QED
  BY <1>1, <1>2 DEF IInv

\* A run that ends has no options left.
LEMMA ExitedOptions ==
  ASSUME NEW e, Exited(e)
  PROVE  /\ rec' = rec /\ asked' = asked /\ step' = "idle"
         /\ opt' \in OptionType /\ ~opt'.delete
BY DEF Exited, recording, NoOptions, OptionType

\* A run that ends without touching VDR's files.
LEMMA EndUntouched ==
  ASSUME IInv, NEW e, Exited(e), ts' = ts, orig' = orig
  PROVE  IInv'
BY ExitedOptions, Untouched DEF IInv, Shape

LEMMA QuitUntouched == ASSUME IInv, NEW e, Quit(e) PROVE IInv'
BY EndUntouched DEF Quit, files

\* A run that ends by deleting files was given --delete, or its mv may fail.
LEMMA EndDeleting ==
  ASSUME IInv, NEW e, Exited(e), opt.delete,
         ts' = [n \in Names |-> ts'[n]], orig' = [n \in Names |-> orig'[n]]
  PROVE  IInv'
<1>1. Shape'
  BY ExitedOptions DEF IInv, Shape, Names, Segs, Title
<1>2. asked' \/ rec'.stuck
  BY ExitedOptions DEF IInv, KeepInv
<1> QED
  BY <1>1, <1>2 DEF IInv

\* Writing the output file touches none of VDR's files.
LEMMA OutputOnly ==
  ASSUME IInv, NEW c, Write(c)
  PROVE  /\ ts' = [n \in Names |-> ts'[n]]
         /\ \A s \in Recorded : ts'[s] = ts[s]
BY Sources DEF IInv, Shape, Write

-----------------------------------------------------------------------------
(* The commands.                                                           *)

LEMMA StartStep == ASSUME IInv, NEW o \in Invocations, Start(o) PROVE IInv'
<1> USE DEF Start, files
<1>1. Shape'
  BY VdrConvertAssumption DEF IInv, Shape, Names, Segs, Title
<1>2. ASSUME ~asked', ~rec'.stuck PROVE KeepInv'
  <2>1. KeepInv
    BY <1>2 DEF IInv
  <2> QED
    BY <1>2, <2>1 DEF KeepInv, InPlaceOrSaved, SavingAll, AllSaved, Recorded, Source, Footage
<1> QED
  BY <1>1, <1>2 DEF IInv

LEMMA ConvertStep ==
  ASSUME IInv,
         \/ Scan \/ Merge \/ MergeEnds
         \/ \E f \in Names : \E v \in BOOLEAN : Combine(f, v)
         \/ \E f \in Names \cup {Joint} : SkipSmall(f) \/ QuitSmall(f) \/ Transcode(f)
  PROVE  IInv'
<1> USE DEF files, recording
<1>1. opt \in OptionType /\ ts = [n \in Names |-> ts[n]]
  BY DEF IInv, Shape
<1>2. CASE Scan
  <2>1. CASE Quit(1) \/ Quit(2)
    BY <2>1, QuitUntouched
  <2>2. CASE ~(Quit(1) \/ Quit(2))
    <3>1. opt' = opt \/ opt' = [opt EXCEPT !.podcast = FALSE]
      BY <1>2, <2>2 DEF Scan
    <3>2. opt' \in OptionType /\ opt'.delete = opt.delete
      BY <1>1, <3>1 DEF OptionType
    <3> QED
      BY <1>1, <1>2, <2>2, <3>2, Untouched DEF Scan
  <2> QED
    BY <2>1, <2>2
<1>3. ASSUME NEW f \in Names, NEW v \in BOOLEAN, Combine(f, v) PROVE IInv'
  <2>1. CASE Quit(1) \/ Quit(2)
    BY <2>1, QuitUntouched
  <2>2. CASE ~(Quit(1) \/ Quit(2))
    BY <1>1, <1>3, <2>2, MapOptions, Untouched DEF Combine
  <2> QED
    BY <2>1, <2>2
<1>4. ASSUME NEW f \in Names \cup {Joint}, SkipSmall(f) PROVE IInv'
  <2>1. opt' \in OptionType /\ (~opt.delete => ~opt'.delete)
    BY <1>1, <1>4 DEF SkipSmall, OptionType
  <2>2. step' = "convert"
    BY <1>4 DEF SkipSmall
  <2> QED
    BY <1>1, <1>4, <2>1, <2>2, Untouched DEF SkipSmall
<1>5. ASSUME NEW f \in Names \cup {Joint}, QuitSmall(f) PROVE IInv'
  <2>1. CASE opt.delete
    BY <1>1, <1>5, <2>1, EndDeleting DEF QuitSmall, IInv, Shape
  <2>2. CASE ~opt.delete
    BY <1>5, <2>2, EndUntouched DEF QuitSmall
  <2> QED
    BY <2>1, <2>2
<1>6. ASSUME NEW f \in Names \cup {Joint}, Transcode(f) PROVE IInv'
  <2>1. CASE Exited(1) \/ Exited(2)
    BY <1>6, <2>1, EndUntouched DEF Transcode
  <2>2. CASE ~(Exited(1) \/ Exited(2))
    <3>1. /\ opt' = AfterMap(rec.video) /\ step' = "convert"
          /\ rec' = rec /\ asked' = asked /\ ts' = ts /\ orig' = orig
      BY <1>6, <2>2 DEF Transcode
    <3>2. rec.video \in BOOLEAN
      BY DEF IInv, Shape, RecordingType
    <3> QED
      BY <1>1, <3>1, <3>2, MapOptions, Untouched
  <2> QED
    BY <2>1, <2>2
<1>7. CASE Merge
  <2>1. CASE Quit(0)
    BY <2>1, QuitUntouched
  <2>2. CASE ~Quit(0)
    BY <1>1, <1>7, <2>2, OutputOnly, Untouched DEF Merge
  <2> QED
    BY <2>1, <2>2
<1>8. CASE MergeEnds
  <2>1. PICK S \in SUBSET inter : Write(Footage(S, TRUE))
    BY <1>8 DEF MergeEnds
  <2>2. /\ ts' = [n \in Names |-> ts'[n]] /\ \A s \in Recorded : ts'[s] = ts[s]
    BY <2>1, OutputOnly
  <2>3. CASE Exited(0)
    BY <1>8, <2>2, <2>3, ExitedOptions, Untouched DEF MergeEnds
  <2>4. CASE ~Exited(0)
    BY <1>1, <1>8, <2>2, <2>4, Untouched DEF MergeEnds
  <2> QED
    BY <2>3, <2>4
<1> QED
  BY <1>2, <1>3, <1>4, <1>5, <1>6, <1>7, <1>8

\* The saving loop starts with every original that is still in place.
LEMMA CheckStep == ASSUME IInv, Check PROVE IInv'
<1> USE DEF files, recording
<1>1. CASE Quit(1)
  BY <1>1, QuitUntouched
<1>2. CASE ~Quit(1)
  <2>1. /\ rec' = rec /\ asked' = asked /\ opt' = opt /\ ts' = ts /\ orig' = orig
        /\ step' = IF opt.keep THEN "save" ELSE "export"
        /\ todo' = IF opt.keep THEN Glob ELSE {}
    BY <1>2 DEF Check
  <2>2. Shape'
    BY <2>1 DEF IInv, Shape, Names, Segs, Title
  <2>3. ASSUME ~asked, ~rec.stuck PROVE KeepInv'
    <3>1. KeepInv
      BY <2>3 DEF IInv
    <3>2. SavingAll'
      <4> SUFFICES ASSUME opt.keep, NEW s \in Recorded, orig[s] # Source(s)
                   PROVE  s \in Glob
        BY <2>1 DEF SavingAll, Recorded, Source, Footage
      <4>1. ts[s] = Source(s)
        BY <3>1 DEF KeepInv, InPlaceOrSaved
      <4> QED
        BY <4>1, Sources DEF Glob, IInv, Shape
    <3> QED
      BY <2>1, <3>1, <3>2
         DEF KeepInv, InPlaceOrSaved, AllSaved, Recorded, Source, Footage
  <2> QED
    BY <2>1, <2>2, <2>3 DEF IInv
<1> QED
  BY <1>1, <1>2

LEMMA ExportStep == ASSUME IInv, Export PROVE IInv'
<1>1. CASE opt.podcast /\ opt.delete
  BY <1>1, EndDeleting DEF Export
<1>2. CASE ~(opt.podcast /\ opt.delete)
  BY <1>2, EndUntouched DEF Export, files
<1> QED
  BY <1>1, <1>2

\* mv -n saves the next original, or finds it saved.
LEMMA SaveStep == ASSUME IInv, NEW f \in Names, Save(f) PROVE IInv'
<1> USE DEF recording
<1>1. /\ rec' = rec /\ asked' = asked /\ opt' = opt
      /\ step = "save" /\ step' = "save" /\ todo' = todo \ {f}
  BY DEF Save
<1>2. Shape'
  BY <1>1 DEF Save, IInv, Shape, Names, Segs, Title
<1>3. ASSUME ~asked, ~rec.stuck PROVE KeepInv'
  <2>1. KeepInv /\ Shape
    BY <1>3 DEF IInv
  <2>2. ASSUME NEW s \in Recorded
        PROVE  /\ orig'[s] = Source(s) \/ (orig'[s] = NoFile /\ ts'[s] = Source(s))
               /\ s \in todo' \/ orig'[s] = Source(s)
    <3>1. s \in Names /\ Source(s) # NoFile
      BY <2>1, Sources DEF Shape
    <3>2. CASE s # f
      BY <1>1, <2>1, <3>1, <3>2 DEF Save, KeepInv, InPlaceOrSaved, SavingAll, Shape
    <3>3. CASE s = f /\ orig[f] = NoFile
      BY <1>3, <2>1, <3>1, <3>3 DEF Save, KeepInv, InPlaceOrSaved, Shape
    <3>4. CASE s = f /\ orig[f] # NoFile
      BY <2>1, <3>1, <3>4 DEF Save, KeepInv, InPlaceOrSaved, Shape
    <3> QED
      BY <3>2, <3>3, <3>4
  <2> QED
    BY <1>1, <2>1, <2>2
       DEF KeepInv, InPlaceOrSaved, SavingAll, AllSaved, Recorded, Source, Footage
<1> QED
  BY <1>1, <1>2, <1>3 DEF IInv

\* When the loop is over, every original has been saved.
LEMMA SaveIndexStep == ASSUME IInv, SaveIndex PROVE IInv'
<1>1. /\ rec' = rec /\ asked' = asked /\ opt' = opt /\ ts' = ts /\ orig' = orig
      /\ step = "save" /\ todo = {} /\ step' = "install"
  BY DEF SaveIndex, files, recording
<1> QED
  BY <1>1 DEF IInv, Shape, KeepInv, InPlaceOrSaved, SavingAll, AllSaved,
              Recorded, Source, Footage, Names, Segs, Title

\* The file that mv -f overwrites is not an original any more.
LEMMA InstallStep == ASSUME IInv, Install PROVE IInv'
<1> USE DEF recording
<1>1. /\ rec' = rec /\ asked' = asked /\ opt' = opt /\ orig' = orig
      /\ step = "install" /\ step' = "genindex"
  BY DEF Install
<1>2. Shape'
  BY <1>1 DEF Install, IInv, Shape, Names, Segs, Title
<1>3. ASSUME ~asked, ~rec.stuck PROVE KeepInv'
  BY <1>1, <1>3 DEF IInv, KeepInv, InPlaceOrSaved, SavingAll, AllSaved,
                    Recorded, Source, Footage
<1> QED
  BY <1>1, <1>2, <1>3 DEF IInv

LEMMA ReplacedStep == ASSUME IInv, Replaced PROVE IInv'
<1>1. CASE opt.delete
  BY <1>1, EndDeleting DEF Replaced, IInv, Shape
<1>2. CASE ~opt.delete
  BY <1>2, EndUntouched DEF Replaced
<1> QED
  BY <1>1, <1>2

\* mv -f puts a saved original back; without a saved one it has no effect.
LEMMA RestoreStep == ASSUME IInv, NEW f \in Names, Restore(f) PROVE IInv'
<1> USE DEF recording
<1>1. /\ rec' = rec /\ asked' = asked /\ opt' = opt
      /\ step = "restore" /\ step' = "restore"
  BY DEF Restore
<1>2. Shape'
  BY <1>1 DEF Restore, IInv, Shape, Names, Segs, Title
<1>3. ASSUME ~asked, ~rec.stuck PROVE KeepInv'
  <2>1. KeepInv /\ Shape
    BY <1>3 DEF IInv
  <2>2. ASSUME NEW s \in Recorded
        PROVE  orig'[s] = Source(s) \/ (orig'[s] = NoFile /\ ts'[s] = Source(s))
    <3>1. s \in Names /\ Source(s) # NoFile
      BY <2>1, Sources DEF Shape
    <3> QED
      BY <2>1, <3>1 DEF Restore, KeepInv, InPlaceOrSaved, Shape
  <2> QED
    BY <1>1, <2>1, <2>2
       DEF KeepInv, InPlaceOrSaved, SavingAll, AllSaved, Recorded, Source, Footage
<1> QED
  BY <1>1, <1>2, <1>3 DEF IInv

-----------------------------------------------------------------------------

LEMMA Inductive == Spec => []IInv
<1>1. Init => IInv
  <2> SUFFICES ASSUME Init PROVE IInv
    OBVIOUS
  <2>1. rec \in RecordingType /\ opt \in OptionType /\ ~opt.delete
    BY VdrConvertAssumption DEF Init, NoOptions, OptionType
  <2>2. \A s \in Recorded : ts[s] = Source(s) /\ orig[s] = NoFile
    BY <2>1, Sources DEF Init
  <2> QED
    BY <2>1, <2>2 DEF Init, IInv, Shape, KeepInv, InPlaceOrSaved, SavingAll, AllSaved
<1>2. IInv /\ [Next]_vars => IInv'
  <2> SUFFICES ASSUME IInv, [Next]_vars PROVE IInv'
    OBVIOUS
  <2> USE DEF files, recording
  <2>1. ASSUME NEW o \in Invocations, Start(o) PROVE IInv'
    BY <2>1, StartStep
  <2>2. CASE Kill
    BY <2>2, EndUntouched DEF Kill
  <2>3. CASE Check
    BY <2>3, CheckStep
  <2>4. CASE Export
    BY <2>4, ExportStep
  <2>5. ASSUME NEW f \in Names, Save(f) PROVE IInv'
    BY <2>5, SaveStep
  <2>6. CASE SaveIndex
    BY <2>6, SaveIndexStep
  <2>7. CASE Install
    BY <2>7, InstallStep
  <2>8. CASE Genindex \/ RestoreIndex
    <3>1. /\ rec' = rec /\ asked' = asked /\ opt' = opt /\ ts' = ts /\ orig' = orig
          /\ step' \notin {"save", "install"}
      BY <2>8 DEF Genindex, RestoreIndex
    <3> QED
      BY <3>1, Untouched DEF IInv, Shape
  <2>9. CASE Replaced
    BY <2>9, ReplacedStep
  <2>10. ASSUME NEW f \in Names, Restore(f) PROVE IInv'
    BY <2>10, RestoreStep
  <2>11. CASE Restored
    BY <2>11, QuitUntouched DEF Restored
  <2>12. CASE UNCHANGED vars
    BY <2>12 DEF vars, IInv, Shape, KeepInv, InPlaceOrSaved, SavingAll, AllSaved,
                 Recorded, Source, Footage, Names, Segs, Title
  <2> QED
    BY <2>1, <2>2, <2>3, <2>4, <2>5, <2>6, <2>7, <2>8, <2>9, <2>10, <2>11, <2>12,
       ConvertStep DEF Next, Command
<1> QED
  BY <1>1, <1>2, PTL DEF Spec

\* The main result: whatever the number of files and of runs, wherever a run is
\* killed and whatever ffmpeg and vdr --genindex return, a script that was never
\* called with --delete leaves VDR's own recording of every segment in the
\* directory.
THEOREM OriginalsSafe == Spec => []OriginalsKept
<1>1. IInv => OriginalsKept
  BY DEF IInv, KeepInv, InPlaceOrSaved, OriginalsKept
<1> QED
  BY <1>1, Inductive, PTL

-----------------------------------------------------------------------------
(* What a run knows of the files, if its mv commands do not fail.          *)

\* Footage of segment s is in the directory; in a saved original there; in an entry
\* of $FILES that is still to be transcoded.
InDir(s)   == \E n \in Segs : InFile(s, n) \/ InSaved(s, n)
Saved(s)   == \E n \in Segs : InSaved(s, n)
Pending(s) == \E n \in todo : s \in Input(n).segs

AllGone   == \A n \in Names : ts[n] = NoFile
OnlyFirst == \A s \in Segs \ {1} : ts[s] = NoFile

\* A converted file that has passed check_duration.
Good(c) == c # NoFile /\ c.coded /\ (rec.exact => expected \subseteq c.segs)

Scanning == {"scan", "combine"}
Reading  == {"combine", "convert", "merge", "check"}

\* The loop reads what is there.
Reads ==
  /\ step = "convert" =>
       \/ todo \subseteq Glob
       \/ todo = {Joint} /\ combined # NoFile
  /\ step \in {"idle"} \cup Scanning => inter = {} /\ expected = {}
  /\ step # "idle" => present
  /\ step \in {"save", "install", "genindex", "replaced"} => opt.keep

\* A file and its saved original are not both there, but of 00001.ts.  With a
\* title that begins with 0, saving the files takes the output file with it: none
\* is left.
Paired ==
  /\ \A s \in Segs \ {1} : ts[s] = NoFile \/ orig[s] = NoFile
  /\ rec.title0 =>
       /\ ts[1] = NoFile \/ orig[1] = NoFile
       /\ orig[Title] # NoFile => \A s \in Segs : ts[s] = NoFile

\* Where the output file is, from command to command.
Outcome ==
  /\ step \in Reading /\ rec.title0 => orig[Title] = NoFile
  /\ step \in {"merge", "check"} => Output # NoFile /\ Output.coded
  /\ step = "export" => ~opt.keep /\ Good(exported)
  /\ step = "save" =>
       IF rec.title0
       THEN /\ \A n \in Names : ts[n] # NoFile => n \in todo
            /\ Title \in todo => orig[Title] = NoFile
       ELSE /\ Good(ts[Title]) /\ Title \notin todo
            /\ \A s \in Segs \ {1} : ts[s] # NoFile => s \in todo
  /\ step = "install" => IF rec.title0 THEN AllGone ELSE Good(ts[Title]) /\ OnlyFirst
  /\ step = "genindex" => IF rec.title0 THEN AllGone ELSE Good(ts[1]) /\ OnlyFirst
  /\ step = "replaced" => ~rec.title0 /\ Good(ts[1]) /\ OnlyFirst /\ index = "coded"
  /\ step = "restoreindex" => IF rec.title0 THEN AllGone ELSE ts[1] # NoFile
  /\ step = "restore" =>
       /\ indexOrig = "none"
       /\ IF rec.title0 THEN todo = {} ELSE 1 \in todo \/ orig[1] = NoFile

\* A run that found no saved originals saves all files there are, and 00001.ts is
\* not overwritten.
Fresh ==
  /\ step \in Reading \cup {"scan", "export"} => \A n \in Names : orig[n] = NoFile
  /\ step = "save" => \A s \in Segs : ts[s] # NoFile => s \in todo /\ orig[s] = NoFile
  /\ step = "install" => \A s \in Segs : ts[s] = NoFile

\* When it deletes, all that it deletes has been counted in $program_duration.
Deletable(s) == opt.delete /\ (opt.keep \/ s \notin rec.small)

Counted ==
  \A s \in Segs : Deletable(s) =>
    /\ step = "convert" /\ InDir(s) => s \in expected \/ Pending(s)
    /\ step \in {"merge", "check", "export", "save"} /\ InDir(s) => s \in expected
    /\ step \in {"install", "genindex", "replaced"} /\ Saved(s) => s \in expected

\* When it puts the originals back, all that was converted is in them.
Restorable ==
  /\ ~rec.title0 => \A s \in Segs :
       /\ step \in {"convert", "merge"} /\ s \in inter => InDir(s)
       /\ step = "convert" /\ Joint \in todo /\ s \in combined.segs => InDir(s)
       /\ step \in {"merge", "check", "save"} /\ opt.keep /\ s \in ts[Title].segs => InDir(s)
       /\ step = "install" /\ s \in ts[Title].segs => Saved(s)
       /\ step \in {"genindex", "restoreindex"} /\ s \in ts[1].segs => Saved(s)
  /\ \A s \in Segs :
       /\ step = "restoreindex" /\ InDir(s) => Saved(s)
       /\ step = "restore" /\ InDir(s) =>
            Saved(s) \/ \E n \in Segs : InFile(s, n) /\ orig[n] = NoFile

\* The invariant of the runs.
RunInv ==
  /\ TypeOK /\ Reads
  /\ ~rec.stuck => Paired /\ Outcome
  /\ ~rec.stuck /\ ~leftovers => Fresh /\ Counted /\ Restorable
-----------------------------------------------------------------------------
(* Types.                                                                  *)

\* A file of given footage is a file, with this footage.
LEMMA FootageIs ==
  ASSUME NEW S \in SUBSET Segs, NEW c \in BOOLEAN
  PROVE  /\ Footage(S, c) \in Content /\ Footage(S, c) # NoFile
         /\ Footage(S, c).segs = S /\ Footage(S, c).coded = c
BY VdrConvertAssumption DEF Footage, Content

\* The parts of a file.
LEMMA ContentIs ==
  ASSUME NEW c \in Content
  PROVE  c # NoFile /\ c.segs \subseteq Segs /\ c.coded \in BOOLEAN
BY VdrConvertAssumption DEF Content

\* The names of the files.
LEMMA NamesAre ==
  /\ 1 \in Segs /\ Segs \subseteq Names /\ Title \in Names /\ Title \notin Segs
  /\ Joint \notin Names
  /\ Names \subseteq Nat /\ \A s \in Segs : s < Title
BY VdrConvertAssumption DEF Segs, Names, Title, Joint

\* The options stay options, however they are adjusted.
LEMMA OptionsAre ==
  /\ NoOptions \in OptionType
  /\ opt \in OptionType =>
       /\ \A v \in BOOLEAN : AfterMap(v) \in OptionType
       /\ [opt EXCEPT !.podcast = FALSE] \in OptionType
       /\ [opt EXCEPT !.delete = FALSE] \in OptionType
BY DEF NoOptions, OptionType, AfterMap

\* What an entry of $FILES holds.
LEMMA InputIs ==
  ASSUME TypeOK, Reads, step = "convert", NEW f \in todo
  PROVE  f \in Names \cup {Joint} /\ Input(f) \in Content
<1>1. CASE todo \subseteq Glob
  <2>1. f \in Names /\ ts[f] # NoFile /\ f # Joint
    BY <1>1, NamesAre DEF Glob
  <2> QED
    BY <2>1 DEF TypeOK, Input
<1>2. CASE todo = {Joint} /\ combined # NoFile
  BY <1>2 DEF TypeOK, Input
<1> QED
  BY <1>1, <1>2 DEF Reads

\* The end of a run leaves variables of their types.
LEMMA ExitedTypes ==
  ASSUME TypeOK, NEW e \in {0, 1, 2, Killed}, Exited(e),
         ts' \in [Names -> Content \cup {NoFile}], orig' \in [Names -> Content \cup {NoFile}],
         combined' \in Content \cup {NoFile}, exported' \in Content \cup {NoFile},
         index' \in IndexContent, indexOrig' \in IndexContent, present' \in BOOLEAN
  PROVE  TypeOK'
<1>1. step' \in Steps /\ todo' = {} /\ opt' \in OptionType
  BY OptionsAre DEF Exited, Steps
<1> QED
  BY <1>1 DEF Exited, recording, TypeOK

LEMMA QuitTypes ==
  ASSUME TypeOK, NEW e \in {0, 1, 2, Killed}, Quit(e)
  PROVE  TypeOK'
BY ExitedTypes DEF TypeOK, Quit, files, indexes, outside

\* The output file is written in the directory, or outside.
LEMMA WriteTypes ==
  ASSUME TypeOK, NEW S \in SUBSET Segs, Write(Footage(S, TRUE))
  PROVE  /\ ts' \in [Names -> Content \cup {NoFile}]
         /\ exported' \in Content \cup {NoFile}
<1>1. Footage(S, TRUE) \in Content
  BY FootageIs
<1>2. /\ ts \in [Names -> Content \cup {NoFile}] /\ Title \in Names
      /\ exported \in Content \cup {NoFile}
  BY NamesAre DEF TypeOK
<1> QED
  BY <1>1, <1>2 DEF Write

\* Every action keeps the types.
LEMMA Types ==
  ASSUME TypeOK, Reads, Next
  PROVE  TypeOK'
<1> USE DEF recording, files, indexes, outside, counted
<1>1. ASSUME NEW o \in Invocations, Start(o) PROVE TypeOK'
  BY <1>1, VdrConvertAssumption DEF Start, TypeOK, Steps
<1>2. CASE Kill
  BY <1>2, ExitedTypes DEF Kill, TypeOK
<1>3. CASE Scan
  <2>1. CASE Quit(1) \/ Quit(2)
    BY <2>1, QuitTypes
  <2>2. CASE ~ (Quit(1) \/ Quit(2))
    BY <1>3, <2>2, OptionsAre DEF Scan, TypeOK, Steps, Glob
  <2> QED
    BY <2>1, <2>2
<1>4. ASSUME NEW f \in Names, NEW v \in BOOLEAN, Combine(f, v) PROVE TypeOK'
  <2>1. CASE Quit(1) \/ Quit(2)
    BY <2>1, QuitTypes
  <2>2. CASE ~ (Quit(1) \/ Quit(2))
    <3>1. \A n \in Glob : ts[n] \in Content
      BY DEF TypeOK, Glob
    <3>2. f \in Glob
      BY <1>4 DEF Combine, First
    <3>3. UNION {ts[n].segs : n \in Glob} \in SUBSET Segs /\ ts[f].coded \in BOOLEAN
      BY <3>1, <3>2, ContentIs
    <3>4. combined' \in Content \cup {NoFile}
      BY <1>4, <2>2, <3>3, FootageIs DEF Combine
    <3>5. todo' \subseteq Names \cup {Joint}
      BY <1>4, <2>2 DEF Combine, Glob
    <3> QED
      BY <1>4, <2>2, <3>4, <3>5, OptionsAre DEF Combine, TypeOK, Steps
  <2> QED
    BY <2>1, <2>2
<1>5. ASSUME NEW f \in Names \cup {Joint}, SkipSmall(f) PROVE TypeOK'
  BY <1>5, OptionsAre DEF SkipSmall, TypeOK, Steps
<1>6. ASSUME NEW f \in Names \cup {Joint}, QuitSmall(f) PROVE TypeOK'
  BY <1>6, ExitedTypes DEF QuitSmall, TypeOK
<1>7. ASSUME NEW f \in Names \cup {Joint}, Transcode(f) PROVE TypeOK'
  <2>1. f \in todo /\ Input(f) \in Content /\ rec.video \in BOOLEAN
    BY <1>7, InputIs, VdrConvertAssumption DEF Transcode, First, TypeOK, RecordingType
  <2>2. combined' \in Content \cup {NoFile}
    BY <1>7 DEF Transcode, TypeOK
  <2>3. CASE Exited(1) \/ Exited(2)
    BY <1>7, <2>2, <2>3, ExitedTypes DEF Transcode, TypeOK
  <2>4. CASE ~ (Exited(1) \/ Exited(2))
    <3>1. inter' \subseteq Segs /\ expected' \subseteq Segs
      BY <1>7, <2>1, <2>4, ContentIs DEF Transcode, TypeOK
    <3> QED
      BY <1>7, <2>1, <2>2, <2>4, <3>1, OptionsAre DEF Transcode, TypeOK
  <2> QED
    BY <2>3, <2>4
<1>8. CASE Merge
  <2>1. CASE Quit(0)
    BY <2>1, QuitTypes
  <2>2. CASE ~ Quit(0)
    BY <1>8, <2>2, WriteTypes DEF Merge, TypeOK, Steps
  <2> QED
    BY <2>1, <2>2
<1>9. CASE MergeEnds
  <2>1. PICK S \in SUBSET inter : Write(Footage(S, TRUE))
    BY <1>9 DEF MergeEnds
  <2>2. /\ ts' \in [Names -> Content \cup {NoFile}]
        /\ exported' \in Content \cup {NoFile}
    BY <2>1, WriteTypes DEF TypeOK
  <2>3. CASE Exited(0)
    BY <1>9, <2>2, <2>3, ExitedTypes DEF MergeEnds, TypeOK
  <2>4. CASE ~ Exited(0)
    BY <1>9, <2>2, <2>4 DEF MergeEnds, TypeOK, Steps
  <2> QED
    BY <2>3, <2>4
<1>10. CASE Check
  <2>1. CASE Quit(1)
    BY <2>1, QuitTypes
  <2>2. CASE ~ Quit(1)
    BY <1>10, <2>2 DEF Check, TypeOK, Steps, Glob
  <2> QED
    BY <2>1, <2>2
<1>11. CASE Export
  BY <1>11, ExitedTypes DEF Export, TypeOK, IndexContent
<1>12. ASSUME NEW f \in Names, Save(f) PROVE TypeOK'
  BY <1>12 DEF Save, TypeOK, Steps
<1>13. CASE SaveIndex
  BY <1>13 DEF SaveIndex, TypeOK, Steps, IndexContent
<1>14. CASE Install
  BY <1>14, NamesAre DEF Install, TypeOK, Steps
<1>15. CASE Genindex
  BY <1>15 DEF Genindex, TypeOK, Steps, IndexContent
<1>16. CASE Replaced
  BY <1>16, ExitedTypes DEF Replaced, TypeOK, IndexContent
<1>17. CASE RestoreIndex
  BY <1>17 DEF RestoreIndex, TypeOK, Steps, IndexContent, Glob
<1>18. ASSUME NEW f \in Names, Restore(f) PROVE TypeOK'
  BY <1>18 DEF Restore, TypeOK, Steps
<1>19. CASE Restored
  BY <1>19, QuitTypes DEF Restored
<1> QED
  BY <1>1, <1>2, <1>3, <1>4, <1>5, <1>6, <1>7, <1>8, <1>9, <1>10, <1>11, <1>12, <1>13,
     <1>14, <1>15, <1>16, <1>17, <1>18, <1>19 DEF Next, Command

-----------------------------------------------------------------------------
(* The commands preserve the invariant of the runs.                        *)

\* A run that ends leaves nothing but files behind.
LEMMA EndKeeps ==
  ASSUME RunInv, TypeOK', NEW e, Exited(e), ~rec.stuck => Paired'
  PROVE  RunInv'
<1>1. /\ step' = "idle" /\ inter' = {} /\ expected' = {}
      /\ rec' = rec /\ leftovers' = leftovers
  BY DEF Exited, recording
<1> QED
  BY <1>1 DEF RunInv, Reads, Outcome, Fresh, Counted, Restorable, Scanning, Reading

LEMMA EndUntouchedKeeps ==
  ASSUME RunInv, TypeOK', NEW e, Exited(e), ts' = ts, orig' = orig
  PROVE  RunInv'
<1>1. rec' = rec
  BY DEF Exited, recording
<1> QED
  BY <1>1, EndKeeps DEF RunInv, Paired

LEMMA QuitKeeps ==
  ASSUME RunInv, TypeOK', NEW e, Quit(e)
  PROVE  RunInv'
BY EndUntouchedKeeps DEF Quit, files

\* A run looks for saved originals first.
LEMMA StartKeeps == ASSUME RunInv, TypeOK', NEW o \in Invocations, Start(o) PROVE RunInv'
<1> USE DEF Start, files, counted, outside, indexes
<1>1. Reads'
  BY DEF RunInv, Reads, Scanning
<1>2. ~rec.stuck => Paired' /\ Outcome'
  BY DEF RunInv, Paired, Outcome, Reading
<1>3. ~leftovers' => Fresh'
  BY DEF Fresh, Reading
<1> QED
  BY <1>1, <1>2, <1>3 DEF RunInv, Counted, Restorable

\* $tsfiles is not 0 if there are files.
LEMMA TsFilesIs == TsFiles > 0 => \E s \in Segs : ts[s] # NoFile
<1>1. SUFFICES ASSUME \A s \in Segs : ts[s] = NoFile PROVE ~(TsFiles > 0)
  OBVIOUS
<1>2. {s \in Segs : ts[s] # NoFile} = {}
  BY <1>1
<1> QED
  BY <1>2, FS_EmptySet DEF TsFiles

\* What is in a directory without saved originals is to be transcoded.
LEMMA AllPending ==
  ASSUME \A n \in Names : orig[n] = NoFile, NEW s, InDir(s)
  PROVE  \E n \in Glob : n \in Segs /\ n # Joint /\ s \in ts[n].segs
BY NamesAre DEF InDir, InFile, InSaved, Glob

\* Without saved originals, all there is will be read.
LEMMA ScanKeeps == ASSUME RunInv, TypeOK', Scan PROVE RunInv'
<1> USE DEF files, counted, outside, indexes, recording
<1>1. CASE Quit(1) \/ Quit(2)
  BY <1>1, QuitKeeps
<1>2. CASE ~ (Quit(1) \/ Quit(2))
  <2>0. /\ step = "scan" /\ step' \in {"combine", "convert"}
        /\ TsFiles > 0 /\ todo' = IF step' = "convert" THEN Glob ELSE {}
        /\ opt'.delete = opt.delete /\ opt'.keep = opt.keep
        /\ rec' = rec /\ leftovers' = leftovers /\ ts' = ts /\ orig' = orig
        /\ combined' = combined /\ present' = present /\ inter' = inter
        /\ expected' = expected
    BY <1>2 DEF Scan, RunInv, TypeOK, OptionType
  <2>1. Reads'
    BY <2>0 DEF RunInv, Reads, Scanning, Glob
  <2>2. ~rec.stuck => Paired' /\ Outcome'
    BY <2>0, TsFilesIs DEF RunInv, Paired, Outcome, Reading
  <2>3. ASSUME ~rec.stuck, ~leftovers PROVE Fresh' /\ Counted' /\ Restorable'
    <3>1. \A n \in Names : orig[n] = NoFile
      BY <2>0, <2>3 DEF RunInv, Fresh
    <3>2. Fresh'
      BY <2>0, <3>1 DEF Fresh, Reading
    <3>3. Counted'
      BY <2>0, <3>1, AllPending DEF Counted, InDir, InFile, InSaved, Pending, Input
    <3>4. Restorable'
      BY <2>0, NamesAre DEF RunInv, Reads, Scanning, Restorable, Glob
    <3> QED
      BY <3>2, <3>3, <3>4
  <2> QED
    BY <2>0, <2>1, <2>2, <2>3 DEF RunInv
<1> QED
  BY <1>1, <1>2

\* map() only takes away from what is deleted.
LEMMA MapDeletesLess ==
  ASSUME opt \in OptionType, NEW v \in BOOLEAN
  PROVE  /\ AfterMap(v).keep => opt.keep
         /\ AfterMap(v).delete => opt.delete
BY DEF OptionType, AfterMap

\* recording.orig holds what the files hold.
LEMMA CombineKeeps ==
  ASSUME RunInv, TypeOK', NEW f \in Names, NEW v \in BOOLEAN, Combine(f, v)
  PROVE  RunInv'
<1> USE DEF files, counted, outside, indexes, recording
<1>1. CASE Quit(1) \/ Quit(2)
  BY <1>1, QuitKeeps
<1>2. CASE ~ (Quit(1) \/ Quit(2))
  <2> DEFINE all == UNION {ts[n].segs : n \in Glob}
  <2>0. /\ step = "combine" /\ step' = "convert"
        /\ (opt'.delete => opt.delete) /\ (opt'.keep => opt.keep)
        /\ rec' = rec /\ leftovers' = leftovers /\ ts' = ts /\ orig' = orig
        /\ present' = present /\ inter' = inter /\ expected' = expected
    BY <1>2, MapDeletesLess DEF Combine, RunInv, TypeOK
  <2>a. \/ todo' = {Joint} /\ combined' # NoFile /\ combined'.segs = all
        \/ todo' = Glob
    <3>1. f \in Glob /\ \A n \in Glob : ts[n] \in Content
      BY <1>2 DEF Combine, First, Glob, RunInv, TypeOK
    <3>2. all \in SUBSET Segs /\ ts[f].coded \in BOOLEAN
      BY <3>1, ContentIs
    <3> HIDE DEF all
    <3>3. Footage(all, ts[f].coded) # NoFile /\ Footage(all, ts[f].coded).segs = all
      BY <3>2, FootageIs
    <3> QED
      BY <1>2, <3>3 DEF Combine, all
  <2>b. \A s : s \in all <=> \E n \in Glob : s \in ts[n].segs
    OBVIOUS
  <2> HIDE DEF all
  <2>1. Reads'
    BY <2>0, <2>a DEF RunInv, Reads, Scanning, Glob
  <2>2. ~rec.stuck => Paired' /\ Outcome'
    BY <2>0 DEF RunInv, Paired, Outcome, Reading
  <2>3. ASSUME ~rec.stuck, ~leftovers PROVE Fresh' /\ Counted' /\ Restorable'
    <3>1. \A n \in Names : orig[n] = NoFile
      BY <2>0, <2>3 DEF RunInv, Fresh, Reading
    <3>2. Fresh'
      BY <2>0, <3>1 DEF Fresh, Reading
    <3>3. Counted'
      <4> SUFFICES ASSUME NEW s \in Segs, InDir(s) PROVE Pending(s)'
        BY <2>0 DEF Counted, InDir, InFile, InSaved
      <4>1. PICK n \in Glob : n # Joint /\ s \in ts[n].segs
        BY <3>1, AllPending
      <4> QED
        BY <2>0, <2>a, <2>b, <4>1 DEF Pending, Input
    <3>4. Restorable'
      <4> SUFFICES ASSUME ~rec.title0, NEW s \in Segs, Joint \in todo', s \in combined'.segs
                   PROVE  InDir(s)
        BY <2>0 DEF RunInv, Reads, Scanning, Restorable, InDir, InFile, InSaved
      <4>1. s \in all
        BY <2>a, NamesAre DEF Glob
      <4> QED
        BY <2>b, <4>1 DEF InDir, InFile, Glob
    <3> QED
      BY <3>2, <3>3, <3>4
  <2> QED
    BY <2>0, <2>1, <2>2, <2>3 DEF RunInv
<1> QED
  BY <1>1, <1>2

\* What is skipped is small, and is not deleted unless --keep has been given up.
LEMMA SkipSmallKeeps ==
  ASSUME RunInv, TypeOK', NEW f \in Names \cup {Joint}, SkipSmall(f)
  PROVE  RunInv'
<1> USE DEF files, counted, outside, indexes, recording
<1>0. /\ step = "convert" /\ step' = "convert" /\ todo' = todo \ {f}
      /\ Input(f).segs \subseteq rec.small
      /\ opt'.delete => (opt.delete /\ ~opt.keep)
      /\ rec' = rec /\ leftovers' = leftovers /\ ts' = ts /\ orig' = orig
      /\ present' = present /\ inter' = inter /\ expected' = expected /\ combined' = combined
  BY DEF SkipSmall, TooSmall, RunInv, TypeOK, OptionType
<1>1. Reads'
  BY <1>0 DEF RunInv, Reads, Scanning, Glob
<1>2. ~rec.stuck => Paired' /\ Outcome'
  BY <1>0 DEF RunInv, Paired, Outcome, Reading
<1>3. ASSUME ~rec.stuck, ~leftovers PROVE Fresh' /\ Counted' /\ Restorable'
  <2>1. Fresh'
    BY <1>0, <1>3 DEF RunInv, Fresh, Reading
  <2>2. Counted'
    <3> SUFFICES ASSUME NEW s \in Segs, Deletable(s)', InDir(s), s \notin expected
                 PROVE  Pending(s)'
      BY <1>0 DEF Counted, InDir, InFile, InSaved
    <3>1. Deletable(s) /\ s \notin rec.small
      BY <1>0 DEF Deletable, SkipSmall
    <3>2. PICK n \in todo : s \in Input(n).segs
      BY <1>0, <1>3, <3>1 DEF RunInv, Counted, Pending
    <3> QED
      BY <1>0, <3>1, <3>2 DEF Pending, Input
  <2>3. Restorable'
    BY <1>0, <1>3 DEF RunInv, Restorable, InDir, InFile, InSaved
  <2> QED
    BY <2>1, <2>2, <2>3
<1> QED
  BY <1>0, <1>1, <1>2, <1>3 DEF RunInv

LEMMA QuitSmallKeeps ==
  ASSUME RunInv, TypeOK', NEW f \in Names \cup {Joint}, QuitSmall(f)
  PROVE  RunInv'
<1>1. rec' = rec /\ orig' = orig /\ \A n \in Names : ts'[n] \in {NoFile, ts[n]}
  BY DEF QuitSmall, Exited, recording, RunInv, TypeOK
<1>2. ~rec.stuck => Paired'
  BY <1>1, NamesAre DEF RunInv, Paired
<1> QED
  BY <1>2, EndKeeps DEF QuitSmall

\* What has been transcoded is counted.
LEMMA TranscodeKeeps ==
  ASSUME RunInv, TypeOK', NEW f \in Names \cup {Joint}, Transcode(f)
  PROVE  RunInv'
<1> USE DEF files, counted, outside, indexes, recording
<1>1. CASE Exited(1) \/ Exited(2)
  BY <1>1, EndUntouchedKeeps DEF Transcode
<1>2. CASE ~ (Exited(1) \/ Exited(2))
  <2>0. /\ step = "convert" /\ step' = "convert" /\ f \in todo /\ todo' = todo \ {f}
        /\ (opt'.delete => opt.delete) /\ (opt'.keep => opt.keep)
        /\ rec' = rec /\ leftovers' = leftovers /\ ts' = ts /\ orig' = orig
        /\ present' = present /\ expected' = expected \cup Input(f).segs
        /\ combined' \in {combined, NoFile}
        /\ inter' \subseteq inter \cup Input(f).segs
    <3>1. rec.video \in BOOLEAN
      BY VdrConvertAssumption DEF RunInv, TypeOK, RecordingType
    <3> QED
      BY <1>2, <3>1, MapDeletesLess DEF Transcode, First, RunInv, TypeOK
  <2>a. \/ Joint \notin todo /\ todo \subseteq Glob
        \/ todo = {Joint} /\ todo' = {}
    BY <2>0, NamesAre DEF RunInv, Reads, Glob
  <2>1. Reads'
    BY <2>0, <2>a DEF RunInv, Reads, Scanning, Glob
  <2>2. ~rec.stuck => Paired' /\ Outcome'
    BY <2>0 DEF RunInv, Paired, Outcome, Reading
  <2>3. ASSUME ~rec.stuck, ~leftovers PROVE Fresh' /\ Counted' /\ Restorable'
    <3>1. Fresh'
      BY <2>0, <2>3 DEF RunInv, Fresh, Reading
    <3>2. Counted'
      <4> SUFFICES ASSUME NEW s \in Segs, Deletable(s)', InDir(s), s \notin expected'
                   PROVE  Pending(s)'
        BY <2>0 DEF Counted, InDir, InFile, InSaved
      <4>1. Deletable(s)
        BY <2>0 DEF Deletable
      <4>2. PICK n \in todo : s \in Input(n).segs
        BY <2>0, <2>3, <4>1 DEF RunInv, Counted, Pending
      <4>3. n # f /\ n # Joint
        BY <2>0, <2>a, <4>2
      <4> QED
        BY <2>0, <4>2, <4>3 DEF Pending, Input
    <3>3. Restorable'
      <4> SUFFICES ASSUME ~rec.title0, NEW s \in Segs, s \in inter' PROVE InDir(s)
        BY <2>0, <2>a DEF Restorable, InDir, InFile, InSaved
      <4>1. CASE s \in inter
        BY <2>0, <2>3, <4>1 DEF RunInv, Restorable
      <4>2. CASE s \in Input(f).segs /\ todo = {Joint}
        BY <2>0, <2>3, <4>2 DEF RunInv, Restorable, Input
      <4>3. CASE s \in Input(f).segs /\ todo \subseteq Glob
        BY <2>0, <4>3, NamesAre DEF Input, Glob, InDir, InFile
      <4> QED
        BY <2>0, <2>a, <4>1, <4>2, <4>3
    <3> QED
      BY <3>1, <3>2, <3>3
  <2> QED
    BY <2>0, <2>1, <2>2, <2>3 DEF RunInv
<1> QED
  BY <1>1, <1>2

\* What the output file holds after a program has written it.
LEMMA WriteIs ==
  ASSUME TypeOK, NEW S \in SUBSET Segs, Write(Footage(S, TRUE))
  PROVE  /\ \A s \in Segs : ts'[s] = ts[s]
         /\ LET c == IF opt.keep THEN ts'[Title] ELSE exported'
            IN  c # NoFile /\ c.coded /\ c.segs = S
<1>1. /\ Footage(S, TRUE) # NoFile /\ Footage(S, TRUE).segs = S
      /\ Footage(S, TRUE).coded = TRUE
  BY FootageIs
<1>2. ts \in [Names -> Content \cup {NoFile}]
  BY DEF TypeOK
<1>3. CASE opt.keep
  BY <1>1, <1>2, <1>3, NamesAre DEF Write
<1>4. CASE ~ opt.keep
  BY <1>1, <1>2, <1>4, NamesAre DEF Write
<1> QED
  BY <1>3, <1>4

\* Nothing is left to be read when the output file is opened.
LEMMA MergeKeeps == ASSUME RunInv, TypeOK', Merge PROVE RunInv'
<1> USE DEF files, counted, outside, indexes, recording
<1>1. CASE Quit(0)
  BY <1>1, QuitKeeps
<1>2. CASE ~ Quit(0)
  <2>0. /\ step = "convert" /\ step' = "merge" /\ todo = {} /\ todo' = {} /\ opt' = opt
        /\ rec' = rec /\ leftovers' = leftovers /\ orig' = orig /\ present' = present
        /\ inter' = inter /\ expected' = expected /\ combined' = combined
    BY <1>2 DEF Merge
  <2>a. /\ \A s \in Segs : ts'[s] = ts[s]
        /\ Output' # NoFile /\ Output'.coded /\ Output'.segs = {}
    BY <1>2, <2>0, WriteIs DEF Merge, RunInv, Output
  <2>1. Reads'
    BY <2>0 DEF RunInv, Reads, Scanning
  <2>2. ~rec.stuck => Paired' /\ Outcome'
    BY <2>0, <2>a, NamesAre DEF RunInv, Paired, Outcome, Reading
  <2>b. \A s \in Segs : InDir(s)' <=> InDir(s)
    BY <2>0, <2>a DEF InDir, InFile, InSaved
  <2>3. ASSUME ~rec.stuck, ~leftovers PROVE Fresh' /\ Counted' /\ Restorable'
    <3>1. Fresh'
      BY <2>0, <2>3 DEF RunInv, Fresh, Reading
    <3>2. Counted'
      BY <2>0, <2>b, <2>3 DEF RunInv, Counted, Deletable, Pending
    <3>3. Restorable'
      BY <2>0, <2>a, <2>b, <2>3 DEF RunInv, Restorable, Output
    <3> QED
      BY <3>1, <3>2, <3>3
  <2> QED
    BY <2>0, <2>1, <2>2, <2>3 DEF RunInv
<1> QED
  BY <1>1, <1>2

\* Only what was transcoded gets into the output file.
LEMMA MergeEndsKeeps == ASSUME RunInv, TypeOK', MergeEnds PROVE RunInv'
<1> USE DEF files, counted, outside, indexes, recording
<1>1. PICK S \in SUBSET inter : Write(Footage(S, TRUE))
  BY DEF MergeEnds
<1>2. /\ \A s \in Segs : ts'[s] = ts[s]
      /\ LET c == IF opt.keep THEN ts'[Title] ELSE exported'
         IN  c # NoFile /\ c.coded /\ c.segs = S
  BY <1>1, WriteIs DEF RunInv, TypeOK
<1>3. /\ rec' = rec /\ orig' = orig
  BY DEF MergeEnds, Exited
<1>4. ~rec.stuck => Paired'
  BY <1>2, <1>3, NamesAre DEF RunInv, Paired
<1>5. CASE Exited(0)
  BY <1>4, <1>5, EndKeeps
<1>6. CASE ~ Exited(0)
  <2>0. /\ step = "merge" /\ step' = "check" /\ todo' = todo /\ opt' = opt
        /\ rec' = rec /\ leftovers' = leftovers /\ orig' = orig /\ present' = present
        /\ inter' = inter /\ expected' = expected /\ combined' = combined
    BY <1>6 DEF MergeEnds
  <2>a. Output' # NoFile /\ Output'.coded /\ Output'.segs \subseteq inter
    BY <1>2, <2>0 DEF Output
  <2>1. Reads'
    BY <2>0 DEF RunInv, Reads, Scanning
  <2>2. ~rec.stuck => Outcome'
    BY <2>0, <2>a DEF RunInv, Outcome, Reading
  <2>b. \A s \in Segs : InDir(s)' <=> InDir(s)
    BY <1>2, <2>0 DEF InDir, InFile, InSaved
  <2>3. ASSUME ~rec.stuck, ~leftovers PROVE Fresh' /\ Counted' /\ Restorable'
    <3>1. Fresh'
      BY <2>0, <2>3 DEF RunInv, Fresh, Reading
    <3>2. Counted'
      BY <2>0, <2>b, <2>3 DEF RunInv, Counted, Deletable
    <3>3. Restorable'
      BY <2>0, <2>a, <2>b, <2>3 DEF RunInv, Restorable, Output
    <3> QED
      BY <3>1, <3>2, <3>3
  <2> QED
    BY <2>0, <2>1, <1>4, <2>2, <2>3 DEF RunInv
<1> QED
  BY <1>5, <1>6

\* The files are saved that are there when the output file has been checked.
LEMMA CheckKeeps == ASSUME RunInv, TypeOK', Check PROVE RunInv'
<1> USE DEF files, counted, outside, indexes, recording
<1>1. CASE Quit(1)
  BY <1>1, QuitKeeps
<1>2. CASE ~ Quit(1)
  <2>0. /\ step = "check" /\ (rec.exact => expected \subseteq Output.segs) /\ opt' = opt
        /\ step' = IF opt.keep THEN "save" ELSE "export"
        /\ todo' = IF opt.keep THEN Glob ELSE {}
        /\ rec' = rec /\ leftovers' = leftovers /\ orig' = orig /\ present' = present
        /\ ts' = ts /\ exported' = exported
        /\ inter' = inter /\ expected' = expected /\ combined' = combined
    BY <1>2 DEF Check, LongEnough
  <2>1. Reads'
    BY <2>0 DEF RunInv, Reads, Scanning
  <2>2. ~rec.stuck => Paired' /\ Outcome'
    BY <2>0, NamesAre DEF RunInv, Paired, Outcome, Reading, Output, Good, Glob
  <2>3. ASSUME ~rec.stuck, ~leftovers PROVE Fresh' /\ Counted' /\ Restorable'
    <3>1. Fresh'
      BY <2>0, <2>3, NamesAre DEF RunInv, Fresh, Reading, Glob
    <3>2. Counted'
      BY <2>0, <2>3 DEF RunInv, Counted, Deletable, InDir, InFile, InSaved
    <3>3. Restorable'
      BY <2>0, <2>3 DEF RunInv, Restorable, InDir, InFile, InSaved
    <3> QED
      BY <3>1, <3>2, <3>3
  <2> QED
    BY <2>0, <2>1, <2>2, <2>3 DEF RunInv
<1> QED
  BY <1>1, <1>2

LEMMA ExportKeeps == ASSUME RunInv, TypeOK', Export PROVE RunInv'
<1>1. CASE opt.podcast /\ opt.delete
  <2>1. rec' = rec /\ \A n \in Names : ts'[n] = NoFile /\ orig'[n] = NoFile
    BY <1>1 DEF Export, Exited, recording
  <2>2. Paired'
    BY <2>1, NamesAre DEF Paired
  <2> QED
    BY <2>2, EndKeeps DEF Export
<1>2. CASE ~ (opt.podcast /\ opt.delete)
  BY <1>2, EndUntouchedKeeps DEF Export, files
<1> QED
  BY <1>1, <1>2

\* mv -n moves the file, as there is no saved original of it, or there is no file.
LEMMA SaveKeeps == ASSUME RunInv, TypeOK', NEW f \in Names, Save(f) PROVE RunInv'
<1> USE DEF files, counted, outside, indexes, recording
<1>0. /\ step = "save" /\ step' = "save" /\ opt' = opt /\ f \in todo /\ todo' = todo \ {f}
      /\ \A n \in todo : f <= n
      /\ rec' = rec /\ leftovers' = leftovers /\ present' = present
      /\ inter' = inter /\ expected' = expected /\ combined' = combined
  BY DEF Save, First
<1>a. \A n \in Names \ {f} : ts'[n] = ts[n] /\ orig'[n] = orig[n]
  BY DEF Save, RunInv, TypeOK
<1>b. \/ orig[f] = NoFile /\ ts'[f] = NoFile /\ orig'[f] = ts[f]
      \/ (orig[f] # NoFile \/ rec.stuck) /\ ts'[f] = ts[f] /\ orig'[f] = orig[f]
  BY DEF Save, RunInv, TypeOK
<1>1. Reads'
  BY <1>0 DEF RunInv, Reads, Scanning
<1>2. ASSUME ~rec.stuck PROVE Paired' /\ Outcome'
  <2>1. \A s \in Segs \ {1} : ts'[s] = NoFile \/ orig'[s] = NoFile
    BY <1>a, <1>b, <1>2, NamesAre DEF RunInv, Paired
  <2>2. ASSUME rec.title0
        PROVE  /\ ts'[1] = NoFile \/ orig'[1] = NoFile
               /\ orig'[Title] # NoFile => \A s \in Segs : ts'[s] = NoFile
               /\ \A n \in Names : ts'[n] # NoFile => n \in todo'
               /\ Title \in todo' => orig'[Title] = NoFile
    <3>1. /\ \A n \in Names : ts[n] # NoFile => n \in todo
          /\ Title \in todo => orig[Title] = NoFile
          /\ ts[1] = NoFile \/ orig[1] = NoFile
          /\ orig[Title] # NoFile => \A s \in Segs : ts[s] = NoFile
          /\ \A s \in Segs : ts[s] = NoFile \/ orig[s] = NoFile
      BY <1>0, <1>2, <2>2 DEF RunInv, Outcome, Paired
    <3>2. ts'[f] = NoFile
      BY <1>0, <1>b, <1>2, <3>1, NamesAre DEF Names
    <3>3. f = Title => \A s \in Segs : ts[s] = NoFile
      <4> SUFFICES ASSUME f = Title, NEW s \in Segs, ts[s] # NoFile PROVE FALSE
        OBVIOUS
      <4>1. f <= s
        BY <1>0, <3>1, NamesAre
      <4> QED
        BY <4>1, NamesAre
    <3> QED
      BY <1>0, <1>a, <1>b, <3>1, <3>2, <3>3, NamesAre
  <2>3. ASSUME ~rec.title0
        PROVE  /\ Good(ts[Title])' /\ Title \notin todo'
               /\ \A s \in Segs \ {1} : ts'[s] # NoFile => s \in todo'
    <3>1. Good(ts[Title]) /\ Title \notin todo
          /\ \A s \in Segs \ {1} : ts[s] # NoFile => s \in todo
      BY <1>0, <1>2, <2>3 DEF RunInv, Outcome
    <3>2. f # 1 => ts'[f] = NoFile
      BY <1>0, <1>b, <1>2, <3>1, NamesAre DEF RunInv, Paired, Names, Title
    <3> QED
      BY <1>0, <1>a, <3>1, <3>2, NamesAre DEF Good
  <2> QED
    BY <1>0, <2>1, <2>2, <2>3 DEF Paired, Outcome, Reading
<1>c. \A s \in Segs : InDir(s)' <=> InDir(s)
  BY <1>a, <1>b, NamesAre DEF InDir, InFile, InSaved
<1>3. ASSUME ~rec.stuck, ~leftovers PROVE Fresh' /\ Counted' /\ Restorable'
  <2>1. Fresh'
    BY <1>0, <1>a, <1>b, <1>3, NamesAre DEF RunInv, Fresh, Reading
  <2>2. Counted'
    BY <1>0, <1>c, <1>3 DEF RunInv, Counted, Deletable
  <2>3. Restorable'
    <3>1. ~rec.title0 => Title # f
      BY <1>0, <1>3 DEF RunInv, Outcome
    <3> QED
      BY <1>0, <1>a, <1>c, <1>3, <3>1, NamesAre DEF RunInv, Restorable
  <2> QED
    BY <2>1, <2>2, <2>3
<1> QED
  BY <1>0, <1>1, <1>2, <1>3 DEF RunInv

\* All files are saved when the index is.
LEMMA SaveIndexKeeps == ASSUME RunInv, TypeOK', SaveIndex PROVE RunInv'
<1>0. /\ step = "save" /\ step' = "install" /\ opt' = opt /\ todo = {}
      /\ rec' = rec /\ leftovers' = leftovers /\ orig' = orig /\ present' = present
      /\ ts' = ts /\ expected' = expected
  BY DEF SaveIndex, recording, files, counted, outside
<1>1. Reads'
  BY <1>0 DEF RunInv, Reads, Scanning
<1>2. ~rec.stuck => Paired' /\ Outcome'
  BY <1>0 DEF RunInv, Paired, Outcome, Reading, Good, OnlyFirst, AllGone
<1>3. ASSUME ~rec.stuck, ~leftovers PROVE Fresh' /\ Counted' /\ Restorable'
  <2>1. \A s \in Segs : ts[s] = NoFile
    BY <1>0, <1>3 DEF RunInv, Fresh
  <2>2. \A s \in Segs : InDir(s) => Saved(s)
    BY <2>1 DEF InDir, Saved, InFile
  <2>3. Fresh'
    BY <1>0, <2>1 DEF Fresh, Reading
  <2>4. Counted'
    BY <1>0, <1>3 DEF RunInv, Counted, Deletable, InDir, InSaved, Saved
  <2>5. Restorable'
    <3>1. opt.keep
      BY <1>0 DEF RunInv, Reads
    <3> QED
      BY <1>0, <1>3, <2>2, <3>1 DEF RunInv, Restorable, InSaved, Saved
  <2> QED
    BY <2>3, <2>4, <2>5
<1> QED
  BY <1>0, <1>1, <1>2, <1>3 DEF RunInv

\* mv -f replaces the converted file of an earlier run at most.
LEMMA InstallKeeps == ASSUME RunInv, TypeOK', Install PROVE RunInv'
<1>0. /\ step = "install" /\ step' = "genindex" /\ opt' = opt
      /\ rec' = rec /\ leftovers' = leftovers /\ orig' = orig /\ present' = present
      /\ expected' = expected
  BY DEF Install, recording, counted, outside
<1>1. Reads'
  BY <1>0 DEF RunInv, Reads, Scanning
<1>a. /\ \A s \in Segs \ {1} : ts'[s] = ts[s]
      /\ ~rec.stuck =>
           IF ts[Title] = NoFile THEN ts' = ts
           ELSE ts'[1] = ts[Title] /\ ts'[Title] = NoFile
  BY <1>0, NamesAre DEF Install, RunInv, TypeOK
<1>2. ASSUME ~rec.stuck PROVE Paired' /\ Outcome'
  <2>1. CASE rec.title0
    BY <1>0, <1>2, <1>a, <2>1, NamesAre
       DEF RunInv, Paired, Outcome, Reading, AllGone
  <2>2. CASE ~rec.title0
    BY <1>0, <1>2, <1>a, <2>2
       DEF RunInv, Paired, Outcome, Reading, Good, OnlyFirst
  <2> QED
    BY <2>1, <2>2
<1>3. ASSUME ~rec.stuck, ~leftovers PROVE Fresh' /\ Counted' /\ Restorable'
  <2>1. Fresh'
    BY <1>0 DEF Fresh, Reading
  <2>2. Counted'
    BY <1>0, <1>3 DEF RunInv, Counted, Deletable, InSaved, Saved
  <2>3. Restorable'
    BY <1>0, <1>3, <1>a DEF RunInv, Restorable, Outcome, Good, InSaved, Saved
  <2> QED
    BY <2>1, <2>2, <2>3
<1> QED
  BY <1>0, <1>1, <1>2, <1>3 DEF RunInv

\* vdr --genindex finds the converted file, and no other.
LEMMA GenindexKeeps == ASSUME RunInv, TypeOK', Genindex PROVE RunInv'
<1>0. /\ step = "genindex" /\ step' \in {"replaced", "restoreindex"} /\ opt' = opt
      /\ step' = "replaced" =>
           ts[1] # NoFile /\ index' = IF ts[1].coded THEN "coded" ELSE "raw"
      /\ rec' = rec /\ leftovers' = leftovers /\ orig' = orig /\ present' = present
      /\ ts' = ts /\ expected' = expected
  BY DEF Genindex, recording, files, counted, outside
<1>1. Reads'
  BY <1>0 DEF RunInv, Reads, Scanning
<1>2. ~rec.stuck => Paired' /\ Outcome'
  BY <1>0, NamesAre DEF RunInv, Paired, Outcome, Reading, Good, OnlyFirst, AllGone
<1>3. ASSUME ~rec.stuck, ~leftovers PROVE Fresh' /\ Counted' /\ Restorable'
  <2>1. Fresh'
    BY <1>0 DEF Fresh, Reading
  <2>2. Counted'
    BY <1>0, <1>3 DEF RunInv, Counted, Deletable, InSaved, Saved
  <2>3. \A s \in Segs : InDir(s) => Saved(s)
    <3> SUFFICES ASSUME NEW s \in Segs, NEW n \in Segs, InFile(s, n) PROVE Saved(s)
      BY DEF InDir, Saved
    <3>1. ~rec.title0 /\ n = 1
      BY <1>0, <1>3, NamesAre DEF RunInv, Outcome, InFile, AllGone, OnlyFirst
    <3> QED
      BY <1>0, <1>3, <3>1 DEF RunInv, Restorable, InFile
  <2>4. Restorable'
    BY <1>0, <1>3, <2>3 DEF RunInv, Restorable, InSaved, InFile, InDir, Saved
  <2> QED
    BY <2>1, <2>2, <2>4
<1> QED
  BY <1>0, <1>1, <1>2, <1>3 DEF RunInv

LEMMA ReplacedKeeps == ASSUME RunInv, TypeOK', Replaced PROVE RunInv'
<1>1. rec' = rec /\ ts' = ts /\ \A n \in Names : orig'[n] \in {orig[n], NoFile}
  BY DEF Replaced, Exited, recording, RunInv, TypeOK
<1>2. ~rec.stuck => Paired'
  BY <1>1, NamesAre DEF RunInv, Paired
<1> QED
  BY <1>2, EndKeeps DEF Replaced

\* 00001.ts is among the files to be restored.
LEMMA RestoreIndexKeeps == ASSUME RunInv, TypeOK', RestoreIndex PROVE RunInv'
<1>0. /\ step = "restoreindex" /\ step' = "restore" /\ opt' = opt /\ todo' = Glob
      /\ ~rec.stuck => indexOrig' = "none"
      /\ rec' = rec /\ leftovers' = leftovers /\ orig' = orig /\ present' = present
      /\ ts' = ts /\ expected' = expected
  BY DEF RestoreIndex, recording, files, counted, outside, indexes
<1>1. Reads'
  BY <1>0 DEF RunInv, Reads, Scanning
<1>2. ~rec.stuck => Paired' /\ Outcome'
  BY <1>0, NamesAre DEF RunInv, Paired, Outcome, Reading, AllGone, Glob
<1>3. ASSUME ~rec.stuck, ~leftovers PROVE Fresh' /\ Counted' /\ Restorable'
  BY <1>0, <1>3 DEF RunInv, Fresh, Reading, Counted, Restorable, InSaved, InFile, InDir, Saved
<1> QED
  BY <1>0, <1>1, <1>2, <1>3 DEF RunInv

\* mv -f puts the saved original back in its place.
LEMMA RestoreKeeps == ASSUME RunInv, TypeOK', NEW f \in Names, Restore(f) PROVE RunInv'
<1>0. /\ step = "restore" /\ step' = "restore" /\ opt' = opt
      /\ f \in todo /\ todo' = todo \ {f} /\ indexOrig' = indexOrig
      /\ rec' = rec /\ leftovers' = leftovers /\ present' = present
  BY DEF Restore, First, recording, counted, outside, indexes
<1>a. \A n \in Names \ {f} : ts'[n] = ts[n] /\ orig'[n] = orig[n]
  BY DEF Restore, RunInv, TypeOK
<1>b. \/ orig[f] # NoFile /\ ts'[f] = orig[f] /\ orig'[f] = NoFile
      \/ (orig[f] = NoFile \/ rec.stuck) /\ ts'[f] = ts[f] /\ orig'[f] = orig[f]
  BY DEF Restore, RunInv, TypeOK
<1>1. Reads'
  BY <1>0 DEF RunInv, Reads, Scanning
<1>2. ASSUME ~rec.stuck PROVE Paired' /\ Outcome'
  <2>1. /\ ~rec.title0 /\ indexOrig = "none" /\ (1 \in todo \/ orig[1] = NoFile)
        /\ \A s \in Segs \ {1} : ts[s] = NoFile \/ orig[s] = NoFile
    BY <1>0, <1>2 DEF RunInv, Outcome, Paired
  <2> QED
    BY <1>0, <1>2, <1>a, <1>b, <2>1, NamesAre DEF Paired, Outcome, Reading
<1>3. ASSUME ~rec.stuck, ~leftovers PROVE Fresh' /\ Counted' /\ Restorable'
  <2>1. Fresh' /\ Counted'
    BY <1>0 DEF Fresh, Reading, Counted
  <2>2. ASSUME NEW s \in Segs, InDir(s)'
        PROVE  (Saved(s) \/ \E n \in Segs : InFile(s, n) /\ orig[n] = NoFile)'
    <3>1. CASE InDir(s)
      <4>1. Saved(s) \/ \E n \in Segs : InFile(s, n) /\ orig[n] = NoFile
        BY <1>0, <1>3, <3>1 DEF RunInv, Restorable
      <4> QED
        BY <1>3, <1>a, <1>b, <4>1, NamesAre DEF Saved, InSaved, InFile
    <3>2. CASE ~ InDir(s)
      BY <1>3, <1>a, <1>b, <2>2, <3>2, NamesAre DEF InDir, Saved, InSaved, InFile
    <3> QED
      BY <3>1, <3>2
  <2>3. Restorable'
    BY <1>0, <2>2 DEF Restorable
  <2> QED
    BY <2>1, <2>3
<1> QED
  BY <1>0, <1>1, <1>2, <1>3 DEF RunInv

\* The invariant of the runs.
LEMMA RunInvariant == Spec => []RunInv
<1>1. Init => RunInv
  <2> SUFFICES ASSUME Init PROVE RunInv
    OBVIOUS
  <2>1. \A s \in Segs : Source(s) \in Content
    BY FootageIs DEF Source
  <2>2. TypeOK
    <3>1. ts \in [Names -> Content \cup {NoFile}]
      <4> SUFFICES ASSUME NEW n \in Names, n \in Recorded PROVE n \in Segs
        BY <2>1 DEF Init
      <4>1. rec.number \in 1..NumFiles
        BY VdrConvertAssumption DEF Init, RecordingType, Segs
      <4> QED
        BY <4>1, VdrConvertAssumption DEF Recorded, Segs
    <3> QED
      BY <3>1, OptionsAre DEF Init, TypeOK, Steps, IndexContent
  <2> QED
    BY <2>2, NamesAre DEF Init, RunInv, Reads, Paired, Outcome, Reading, Fresh, Counted,
                Restorable
<1>2. RunInv /\ [Next]_vars => RunInv'
  <2> SUFFICES ASSUME RunInv, [Next]_vars PROVE RunInv'
    OBVIOUS
  <2>1. CASE UNCHANGED vars
    BY <2>1 DEF vars, RunInv, TypeOK, Reads, Paired, Outcome, Fresh, Counted, Restorable,
                Glob, Output, Good, AllGone, OnlyFirst, InDir, Saved, Pending, InFile,
                InSaved, Input, Deletable
  <2>2. CASE Next
    <3>1. TypeOK'
      BY <2>2, Types DEF RunInv
    <3>2. Kill \/ Restored => RunInv'
      BY <3>1, EndUntouchedKeeps, QuitKeeps DEF Kill, files, Restored
    <3> QED
      BY <2>2, <3>1, <3>2, StartKeeps, ScanKeeps, CombineKeeps, SkipSmallKeeps,
         QuitSmallKeeps, TranscodeKeeps, MergeKeeps, MergeEndsKeeps, CheckKeeps,
         ExportKeeps, SaveKeeps, SaveIndexKeeps, InstallKeeps, GenindexKeeps,
         ReplacedKeeps, RestoreIndexKeeps, RestoreKeeps DEF Next, Command
  <2> QED
    BY <2>1, <2>2
<1> QED
  BY <1>1, <1>2, PTL DEF Spec

-----------------------------------------------------------------------------
(* What is lost.                                                           *)

\* A command that touches no file of the recording loses nothing.
LEMMA UntouchedLosesNothing ==
  ASSUME present, present', NEW s \in Segs, Kept(s),
         \A n \in Segs : ts'[n] = ts[n] /\ orig'[n] = orig[n]
  PROVE  Kept(s)'
BY DEF Kept, InFile, InSaved

\* The output file is no file of VDR's name.
LEMMA WriteLosesNothing ==
  ASSUME RunInv, Merge \/ MergeEnds, NEW s \in Segs, Kept(s)
  PROVE  Kept(s)'
<1> USE DEF files, outside
<1>1. present /\ present' /\ orig' = orig
  BY DEF RunInv, Reads, Merge, MergeEnds, Quit
<1>2. CASE ts' = ts
  BY <1>1, <1>2, UntouchedLosesNothing
<1>3. CASE Merge /\ ts' # ts
  BY <1>1, <1>3, WriteIs, UntouchedLosesNothing DEF Merge, Quit, RunInv
<1>4. CASE MergeEnds
  <2>1. PICK S \in SUBSET inter : Write(Footage(S, TRUE))
    BY <1>4 DEF MergeEnds
  <2>2. \A n \in Segs : ts'[n] = ts[n]
    BY <2>1, WriteIs DEF RunInv, TypeOK
  <2> QED
    BY <1>1, <2>2, UntouchedLosesNothing
<1> QED
  BY <1>2, <1>3, <1>4

\* With --combine, a recording is deleted only if its one file is small.
LEMMA SmallLoss ==
  ASSUME RunInv, NEW f \in Names \cup {Joint}, QuitSmall(f), NEW s \in Segs, Kept(s), ~Kept(s)'
  PROVE  s \in rec.small /\ step = "convert" /\ TsFiles = 1
<1>1. /\ present /\ present' /\ orig' = orig /\ step = "convert" /\ f \in todo
      /\ Input(f).segs \subseteq rec.small
      /\ \/ TsFiles = 1 /\ \A n \in Names : ts'[n] = IF n = f THEN NoFile ELSE ts[n]
         \/ ts' = ts
  BY DEF QuitSmall, outside, RunInv, Reads, TypeOK, TooSmall, First
<1>2. TsFiles = 1 /\ \A n \in Names : ts'[n] = IF n = f THEN NoFile ELSE ts[n]
  BY <1>1, UntouchedLosesNothing
<1>3. PICK n \in Segs : InFile(s, n) /\ n = f
  BY <1>1, <1>2, NamesAre DEF Kept, InFile, InSaved
<1>4. s \in Input(f).segs
  BY <1>3, NamesAre DEF Input, InFile
<1> QED
  BY <1>1, <1>2, <1>4

\* The directory of a podcast is removed, with the files that were skipped.
LEMMA ExportLoss ==
  ASSUME RunInv, ~rec.stuck, rec.exact, ~leftovers, Export, NEW s \in Segs,
         Kept(s), ~Kept(s)'
  PROVE  s \in rec.small /\ step = "export"
<1>1. /\ present /\ step = "export" /\ exported' = exported /\ ~opt.keep /\ Good(exported)
  BY DEF Export, RunInv, Reads, Outcome
<1>2. opt.delete /\ present' = FALSE
  <2>1. CASE UNCHANGED <<files, present>>
    BY <1>1, <2>1, UntouchedLosesNothing DEF files
  <2> QED
    BY <2>1 DEF Export
<1>3. s \notin exported.segs
  BY <1>1, <1>2 DEF Kept, Good
<1>4. ~Deletable(s)
  BY <1>1, <1>3 DEF RunInv, Counted, Kept, InDir, Good
<1> QED
  BY <1>1, <1>2, <1>4 DEF Deletable

\* mv -n takes no footage out of the directory.
LEMMA SaveLosesNothing ==
  ASSUME RunInv, NEW f \in Names, Save(f), NEW s \in Segs, Kept(s)
  PROVE  Kept(s)'
<1>1. present /\ present'
  BY DEF Save, outside, RunInv, Reads
<1>2. \A n \in Names \ {f} : ts'[n] = ts[n] /\ orig'[n] = orig[n]
  BY DEF Save, RunInv, TypeOK
<1>3. \/ orig[f] = NoFile /\ ts'[f] = NoFile /\ orig'[f] = ts[f]
      \/ ts'[f] = ts[f] /\ orig'[f] = orig[f]
  BY DEF Save, RunInv, TypeOK
<1> QED
  BY <1>1, <1>2, <1>3, NamesAre DEF Kept, InFile, InSaved

\* mv -f overwrites no file of a run that has saved them all.
LEMMA InstallLosesNothing ==
  ASSUME RunInv, ~rec.stuck, ~leftovers, Install, NEW s \in Segs, Kept(s)
  PROVE  Kept(s)'
<1>1. present /\ present' /\ orig' = orig
  BY DEF Install, outside, RunInv, Reads
<1>2. \A n \in Segs : ts[n] = NoFile
  BY DEF Install, RunInv, Fresh
<1> QED
  BY <1>1, <1>2 DEF Kept, InFile, InSaved

\* rm -f removes what the converted file holds.
LEMMA ReplacedLosesNothing ==
  ASSUME RunInv, ~rec.stuck, rec.exact, ~leftovers, Replaced, NEW s \in Segs, Kept(s)
  PROVE  Kept(s)'
<1>1. /\ present /\ present' /\ ts' = ts /\ opt.keep /\ step = "replaced"
      /\ opt.delete \/ orig' = orig
      /\ ts[1] # NoFile /\ expected \subseteq ts[1].segs
  BY DEF Replaced, outside, RunInv, Reads, Outcome, Good
<1>2. CASE \E n \in Segs : InFile(s, n)
  BY <1>1, <1>2 DEF Kept, InFile
<1>3. CASE orig' = orig
  BY <1>1, <1>3, UntouchedLosesNothing
<1>4. CASE opt.delete /\ Saved(s)
  <2>1. s \in expected
    BY <1>1, <1>4 DEF RunInv, Counted, Deletable
  <2> QED
    BY <1>1, <2>1, NamesAre DEF Kept, InFile
<1> QED
  BY <1>1, <1>2, <1>3, <1>4 DEF Kept, Saved

\* mv -f overwrites 00001.ts while the originals are all there.
LEMMA RestoreLosesNothing ==
  ASSUME RunInv, ~rec.stuck, ~leftovers, NEW f \in Names, Restore(f),
         NEW s \in Segs, Kept(s)
  PROVE  Kept(s)'
<1>1. present /\ present' /\ step = "restore"
  BY DEF Restore, outside, RunInv, Reads
<1>2. \A n \in Names \ {f} : ts'[n] = ts[n] /\ orig'[n] = orig[n]
  BY DEF Restore, RunInv, TypeOK
<1>3. \/ orig[f] # NoFile /\ ts'[f] = orig[f] /\ orig'[f] = NoFile
      \/ ts'[f] = ts[f] /\ orig'[f] = orig[f]
  BY DEF Restore, RunInv, TypeOK
<1>4. Saved(s) \/ \E n \in Segs : InFile(s, n) /\ orig[n] = NoFile
  BY <1>1 DEF RunInv, Restorable, Kept, InDir
<1> QED
  BY <1>1, <1>2, <1>3, <1>4, NamesAre DEF Kept, Saved, InFile, InSaved

\* Footage is lost by the deletion of small files only, if the mv commands do what
\* they should, the durations are right, and there were no saved originals to begin
\* with.
LEMMA Losses ==
  ASSUME RunInv, Next, ~rec.stuck, rec.exact, ~leftovers, NEW s \in Segs,
         Kept(s), ~Kept(s)'
  PROVE  /\ s \in rec.small
         /\ step = "export" \/ (step = "convert" /\ TsFiles = 1)
<1> USE DEF files, outside
<1>1. present /\ (present' \/ Export)
  <2>1. step # "idle" => present
    BY DEF RunInv, Reads
  <2>2. ASSUME NEW o \in Invocations, Start(o) PROVE present /\ present'
    BY <2>2 DEF Start
  <2>3. ASSUME NEW f \in Names, NEW v \in BOOLEAN, Combine(f, v) PROVE present /\ present'
    <3>1. step = "combine" /\ present' = present
      BY <2>3 DEF Combine, Quit
    <3> QED
      BY <2>1, <3>1
  <2>4. ASSUME NEW f \in Names \cup {Joint}, SkipSmall(f) \/ QuitSmall(f) \/ Transcode(f)
        PROVE  present /\ present'
    BY <2>1, <2>4 DEF SkipSmall, QuitSmall, Transcode
  <2>5. ASSUME NEW f \in Names, Save(f) \/ Restore(f) PROVE present /\ present'
    BY <2>1, <2>5 DEF Save, Restore
  <2>6. CASE Scan \/ Merge \/ MergeEnds \/ Check \/ Kill
    BY <2>1, <2>6 DEF Scan, Merge, MergeEnds, Check, Kill, Quit
  <2>7. CASE SaveIndex \/ Install \/ Genindex \/ Replaced \/ RestoreIndex \/ Restored
    BY <2>1, <2>7 DEF SaveIndex, Install, Genindex, Replaced, RestoreIndex, Restored, Quit
  <2>8. CASE Export
    BY <2>1, <2>8 DEF Export
  <2> QED
    BY <2>2, <2>3, <2>4, <2>5, <2>6, <2>7, <2>8 DEF Next, Command
<1>2. ~(ts' = ts /\ orig' = orig /\ present')
  BY <1>1, UntouchedLosesNothing
<1>3. \/ Merge \/ MergeEnds \/ Export \/ Install \/ Replaced
      \/ \E f \in Names \cup {Joint} : QuitSmall(f)
      \/ \E f \in Names : Save(f) \/ Restore(f)
  BY <1>1, <1>2 DEF Next, Command, Start, Kill, Quit, Scan, Combine, SkipSmall,
         Transcode, Check, SaveIndex, Genindex, RestoreIndex, Restored
<1> QED
  BY <1>3, WriteLosesNothing, ExportLoss, InstallLosesNothing, ReplacedLosesNothing,
     SmallLoss, SaveLosesNothing, RestoreLosesNothing

-----------------------------------------------------------------------------
(* The theorems.                                                           *)

LEMMA RecordedAre == TypeOK => Recorded \subseteq Segs
BY VdrConvertAssumption DEF TypeOK, RecordingType, Recorded, Segs

\* The variables keep to their types; above all, what is read of $FILES and written to
\* the output file is footage of the recording.
THEOREM TypeCorrect == Spec => []TypeOK
<1>1. RunInv => TypeOK
  BY DEF RunInv
<1> QED
  BY <1>1, RunInvariant, PTL

\* When VDR has accepted the converted file, it is the only .ts file of the recording,
\* the index belongs to it, and it holds all that the run has read, if ffmpeg's durations
\* are right: whatever earlier runs, killed or not, had left behind.
THEOREM ReplacedBySingleFileHolds == Spec => []ReplacedBySingleFile
<1>1. RunInv => ReplacedBySingleFile
  BY NamesAre DEF RunInv, Outcome, OnlyFirst, Good, ReplacedBySingleFile
<1> QED
  BY <1>1, RunInvariant, PTL

\* The deletion is safe where the check is: with any options, no command of a run that
\* found no saved originals, whose mv commands succeed, and for whose files ffmpeg gets
\* the durations right, removes the last footage of a file of normal size.  Of a
\* recording with wrong durations the theorem says nothing.
THEOREM LostOnlyHolds == Spec => LostOnlyWithLeftovers
<1>1. RunInv /\ [Next]_vars =>
        [\A s \in Recorded \ rec.small : Kept(s) /\ ~Kept(s)' =>
           leftovers \/ rec.stuck \/ ~rec.exact]_vars
  BY Losses, RecordedAre DEF RunInv
<1> QED
  BY <1>1, RunInvariant, PTL DEF Spec, LostOnlyWithLeftovers

\* What a run has skipped as too small is not deleted with the rest, but as the only file
\* of the recording, or with the directory of a podcast.
THEOREM SkippedKeptHolds == Spec => SkippedKept
<1>1. RunInv /\ [Next]_vars =>
        [\A s \in Recorded \cap rec.small : Kept(s) /\ ~Kept(s)' =>
           \/ leftovers \/ rec.stuck \/ ~rec.exact
           \/ step = "export"
           \/ step = "convert" /\ TsFiles = 1]_vars
  BY Losses, RecordedAre DEF RunInv
<1> QED
  BY <1>1, RunInvariant, PTL DEF Spec, SkippedKept

\* After a failed vdr --genindex, VDR's 00001.ts and index are back in place: in a run
\* that found no saved originals, whose mv commands succeed, and whose output file does
\* not match 0*.ts.
THEOREM FirstFileRestoredHolds == Spec => FirstFileRestored
<1>1. RunInv /\ [Next]_vars =>
        [Restored /\ ~leftovers /\ ~rec.stuck /\ ~rec.title0 =>
           orig[1] = NoFile /\ indexOrig = "none"]_vars
  BY DEF RunInv, Outcome, Restored
<1> QED
  BY <1>1, RunInvariant, PTL DEF Spec, FirstFileRestored
=============================================================================
