------------------------------ MODULE Vdr1Proofs ------------------------------
(***************************************************************************)
(* For any number of recordings, of files of each and of runs: vdr-convert *)
(* --keep on recordings of VDR 1.x transcodes nothing stale, and deletes a *)
(* recording only once it is replaced.                                     *)
(*                                                                         *)
(* ReplacedOnceDeleted is not inductive.  That the file which is installed *)
(* holds all that was extracted is checked long before the recording goes: *)
(* the invariant InRun carries it from step to step, as what the footage   *)
(* at hand is a part of, and who wrote $RECDIR last.                       *)
(***************************************************************************)
EXTENDS Vdr1, LeastNumber

\* $FILES holds parts of the recording, all alike.
PartsOf(r, S) ==
  \/ S \subseteq {Programme(r)}
  \/ S \subseteq {Content(r, f) : f \in Files}

Installing == {"mkdir", "move", "index", "delete", "end"}

\* Between the start of a run on r and its end.
InRun(r) ==
  /\ step # "end" => r \in present
  /\ PartsOf(r, todo) /\ file \subseteq Programme(r)
  /\ step = "mux" => temp[r] # None /\ extracted[r] = expected \cup temp[r]
  /\ step # "mux" => extracted[r] = expected
  /\ inter \cup tmpts \subseteq expected /\ outfile \subseteq inter
  /\ step \in Installing => (Exact => outfile = expected)
  /\ step \in {"move", "index", "delete"} => recdir[Minute[r]] # None
  /\ step \in {"index", "delete"} =>
       /\ owner[Minute[r]] = r
       /\ stuck \/ recdir[Minute[r]].ts = outfile
  /\ step = "delete" => recdir[Minute[r]].indexed

\* Between two runs.
AtRest == file = {} /\ tmpts = {} /\ expected = {} /\ inter = {} /\ outfile = {}

\* The inductive invariant.
Inv ==
  /\ TypeOK
  /\ \A r \in Recordings : extracted[r] \subseteq Programme(r)
  /\ ReplacedOnceDeleted
  /\ IF input = None THEN AtRest ELSE InRun(input)
-----------------------------------------------------------------------------
(* Footage.                                                                *)

\* The script's files are parts of the programme.
LEMMA ContentIsPart ==
  ASSUME NEW r \in Recordings
  PROVE  /\ Programme(r) \in Footage
         /\ \A f \in Files : Content(r, f) \subseteq Programme(r)
<1>1. Programme(r) \in Footage
  BY DEF Programme, Footage
<1>2. ASSUME NEW f \in Files PROVE Content(r, f) \subseteq Programme(r)
  <2>1. 2 * f - 1 \in Scenes /\ 2 * f \in Scenes
    BY Vdr1Assumption DEF Files, Scenes
  <2> QED
    BY <2>1 DEF Content, Programme
<1> QED
  BY <1>1, <1>2

\* What a program that stops early has written is part of what it was to write.
LEMMA EarlierIsPart ==
  ASSUME NEW F, NEW G \in Earlier(F)
  PROVE  G \subseteq F
BY DEF Earlier

\* The loop over $FILES takes one of them, which is part of the recording.
LEMMA FirstIsPart ==
  ASSUME NEW r \in Recordings, PartsOf(r, todo), todo # {}
  PROVE  FirstOf(todo) \in todo /\ FirstOf(todo) \subseteq Programme(r)
<1> DEFINE Before(F, G) == \E x \in F : \A y \in G : x[2] <= y[2]
<1>1. \A F \in todo : F \subseteq Programme(r)
  BY ContentIsPart DEF PartsOf
<1>2. \E F \in todo : \A G \in todo : Before(F, G)
  <2>1. CASE todo \subseteq {Programme(r)}
    <3>1. 1 \in Scenes /\ \A n \in Scenes : 1 <= n
      BY Vdr1Assumption DEF Scenes
    <3>2. <<r, 1>> \in Programme(r) /\ \A y \in Programme(r) : 1 <= y[2]
      BY <3>1 DEF Programme
    <3>3. Before(Programme(r), Programme(r))
      BY <3>2
    <3> QED
      BY <2>1, <3>3
  <2>2. CASE todo \subseteq {Content(r, f) : f \in Files}
    <3> DEFINE S == {f \in Files : Content(r, f) \in todo}
    <3>1. S \subseteq Nat /\ S # {}
      BY <2>2 DEF Files
    <3>2. PICK m \in S : \A n \in S : m <= n
      BY <3>1, LeastNumber
    <3>3. ASSUME NEW n \in S PROVE Before(Content(r, m), Content(r, n))
      <4>1. m \in Nat /\ n \in Nat /\ m <= n
        BY <3>1, <3>2
      <4>2. \A y \in Content(r, n) : 2 * m - 1 <= y[2]
        BY <4>1 DEF Content
      <4>3. <<r, 2 * m - 1>> \in Content(r, m)
        BY DEF Content
      <4> QED
        BY <4>2, <4>3
    <3> HIDE DEF Before
    <3> QED
      BY <2>2, <3>2, <3>3
  <2> QED
    BY <2>1, <2>2 DEF PartsOf
<1>3. FirstOf(todo) \in todo
  BY <1>2 DEF FirstOf
<1> QED
  BY <1>1, <1>3

\* A programme is finite, so that a length says whether any of it is missing.
LEMMA EnoughIsAll ==
  ASSUME NEW r \in Recordings, expected \subseteq Programme(r),
         outfile \subseteq expected, Exact, LongEnough(outfile)
  PROVE  outfile = expected
<1>1. IsFiniteSet(Scenes)
  BY FS_Interval, Vdr1Assumption DEF Scenes
<1>2. IsFiniteSet({r} \X Scenes)
  BY <1>1, FS_Product, FS_Singleton
<1>3. Programme(r) = {r} \X Scenes
  BY DEF Programme
<1>4. IsFiniteSet(expected)
  BY <1>2, <1>3, FS_Subset
<1>5. /\ Cardinality(outfile) \in Nat /\ Cardinality(expected) \in Nat
      /\ outfile # expected => Cardinality(outfile) < Cardinality(expected)
  BY <1>4, FS_Subset, FS_CardinalityType
<1> QED
  BY <1>5 DEF LongEnough

\* What mkdir, mv and vdr make of $RECDIR.
LEMMA DirectoryChanges ==
  ASSUME TypeOK, NEW d \in Dirs, NEW F \in {None} \cup Footage, NEW i \in BOOLEAN,
         recdir' = [recdir EXCEPT ![d] = [ts |-> F, indexed |-> i]]
  PROVE  /\ recdir' \in [Dirs -> {None} \cup Directory]
         /\ recdir'[d] # None /\ recdir'[d].ts = F /\ recdir'[d].indexed = i
         /\ \A e \in Dirs \ {d} : recdir'[e] = recdir[e]
<1> DEFINE D == [ts |-> F, indexed |-> i]
<1>1. D \in Directory /\ D # None
  BY Vdr1Assumption DEF Directory
<1>2. D.ts = F /\ D.indexed = i
  OBVIOUS
<1>3. recdir' = [recdir EXCEPT ![d] = D]
  OBVIOUS
<1>4. recdir \in [Dirs -> {None} \cup Directory]
  BY DEF TypeOK
<1> HIDE DEF D
<1> QED
  BY <1>1, <1>2, <1>3, <1>4

\* What is in $RECDIR is a file, or nothing yet.
LEMMA DirectoryTypes ==
  ASSUME TypeOK, NEW d \in Dirs, recdir[d] # None
  PROVE  recdir[d].ts \in {None} \cup Footage
BY DEF TypeOK, Directory
-----------------------------------------------------------------------------
(* The invariant.                                                          *)

\* The end of a run, whatever the reason, forgets all but the disk.
LEMMA ExitKeeps ==
  ASSUME Inv, Exit, UNCHANGED <<kept, extracted>>,
         temp' \in [Recordings -> {None} \cup Footage]
  PROVE  Inv'
<1>1. TypeOK'
  BY DEF Inv, TypeOK, Exit, kept, Footage
<1>2. ReplacedOnceDeleted'
  BY DEF Inv, ReplacedOnceDeleted, Converted, kept
<1> QED
  BY <1>1, <1>2 DEF Inv, Exit, AtRest

LEMMA FailKeeps ==
  ASSUME Inv, Fail
  PROVE  Inv'
BY ExitKeeps DEF Fail, Inv, TypeOK

\* What rm leaves of a file is that file, or nothing.
LEMMA RemovedTypes ==
  ASSUME TypeOK, input \in Recordings, NEW old \in {None} \cup Footage,
         \E F \in Removed(old) : temp' = [temp EXCEPT ![input] = F]
  PROVE  temp' \in [Recordings -> {None} \cup Footage]
BY DEF TypeOK, Removed

LEMMA GenindexFailsKeeps ==
  ASSUME Inv, input \in Recordings, NEW old \in {None} \cup Footage, GenindexFails(old)
  PROVE  Inv'
BY ExitKeeps, RemovedTypes DEF GenindexFails, Inv
\* Every action preserves the invariant.
LEMMA Preserved ==
  ASSUME Inv, Next
  PROVE  Inv'
<1> USE DEF Inv
<1>a. input # None => input \in Recordings /\ InRun(input)
  BY DEF TypeOK
<1>b. step # "idle" => input # None
  BY DEF TypeOK
<1>c. \A r \in Recordings : Minute[r] \in Dirs
  BY DEF Dirs
<1>1. ASSUME NEW r \in Recordings, NEW d \in BOOLEAN, NEW joint \in BOOLEAN,
             Start(r, d, joint)
      PROVE  Inv'
  <2>0. todo' \subseteq Footage /\ PartsOf(r, todo')
    <3>1. CASE joint
      BY <1>1, <3>1, ContentIsPart DEF Start, PartsOf
    <3>2. CASE ~ joint
      BY <1>1, <3>2, ContentIsPart DEF Start, PartsOf, Footage
    <3> QED
      BY <3>1, <3>2
  <2>1. TypeOK'
    <3>1. runs' \in 0..MaxRuns
      BY <1>1, Vdr1Assumption DEF TypeOK, Start
    <3>2. extracted' \in [Recordings -> Footage]
      BY <1>1 DEF TypeOK, Start, Footage
    <3> QED
      BY <1>1, <2>0, <3>1, <3>2, Vdr1Assumption DEF TypeOK, Start, footage
  <2>2. \A q \in Recordings : extracted'[q] \subseteq Programme(q)
    BY <1>1 DEF TypeOK, Start
  <2>3. ReplacedOnceDeleted'
    BY <1>1 DEF TypeOK, Start, ReplacedOnceDeleted, Converted
  <2>4. InRun(r)'
    BY <1>1, <2>0 DEF TypeOK, Start, InRun, footage, Installing, AtRest
  <2> QED
    BY <1>1, <2>1, <2>2, <2>3, <2>4, Vdr1Assumption DEF Start
<1>2. ASSUME NextFile PROVE Inv'
  <2> USE <1>a, <1>b, <1>2
  <2>0. /\ FirstOf(todo) \in todo /\ FirstOf(todo) \subseteq Programme(input)
        /\ PartsOf(input, todo')
    BY FirstIsPart DEF NextFile, PartsOf, InRun, run
  <2>a. temp' \in [Recordings -> {None} \cup Footage]
    BY RemovedTypes DEF NextFile, TypeOK
  <2>1. TypeOK'
    BY <2>0, <2>a DEF TypeOK, NextFile, run, kept, footage, InRun, Footage
  <2>2. \A q \in Recordings : extracted'[q] \subseteq Programme(q)
    BY <2>0 DEF TypeOK, NextFile, InRun, kept
  <2>3. ReplacedOnceDeleted'
    BY <2>0 DEF TypeOK, NextFile, run, kept, InRun, ReplacedOnceDeleted, Converted
  <2>4. InRun(input)'
    BY <2>0 DEF TypeOK, NextFile, run, kept, footage, InRun, Installing
  <2> QED
    BY <2>1, <2>2, <2>3, <2>4 DEF NextFile, run
<1>3. ASSUME OpenWrite PROVE Inv'
  <2> USE <1>a, <1>b, <1>3
  <2> SUFFICES ASSUME ~ GenindexFails(temp[input]) PROVE Inv'
    BY GenindexFailsKeeps DEF OpenWrite, TypeOK
  <2>1. TypeOK'
    BY DEF TypeOK, OpenWrite, run, kept, footage, InRun, Footage
  <2>2. \A q \in Recordings : extracted'[q] \subseteq Programme(q)
    BY DEF TypeOK, OpenWrite, InRun, kept
  <2>3. ReplacedOnceDeleted'
    BY DEF TypeOK, OpenWrite, run, kept, InRun, ReplacedOnceDeleted, Converted
  <2>4. InRun(input)'
    BY DEF TypeOK, OpenWrite, run, kept, footage, InRun, Installing
  <2> QED
    BY <2>1, <2>2, <2>3, <2>4 DEF OpenWrite, run
<1>4. ASSUME NEW F \in Earlier(file), Rewrite(F)
      PROVE  Inv'
  <2> USE <1>a, <1>b, <1>4
  <2>0. F # None /\ F \subseteq file /\ F \in Footage
    BY EarlierIsPart, Vdr1Assumption DEF TypeOK, Footage
  <2> SUFFICES ASSUME ~ GenindexFails(F) PROVE Inv'
    BY <2>0, GenindexFailsKeeps DEF Rewrite, TypeOK
  <2>1. TypeOK'
    BY <2>0 DEF TypeOK, Rewrite, run, kept, footage, InRun, Footage
  <2>2. \A q \in Recordings : extracted'[q] \subseteq Programme(q)
    BY <2>0 DEF TypeOK, Rewrite, InRun, kept
  <2>3. ReplacedOnceDeleted'
    BY <2>0 DEF TypeOK, Rewrite, run, kept, InRun, ReplacedOnceDeleted, Converted
  <2>4. InRun(input)'
    BY <2>0 DEF TypeOK, Rewrite, run, kept, footage, InRun, Installing
  <2> QED
    BY <2>1, <2>2, <2>3, <2>4 DEF Rewrite, run
<1>5. ASSUME Mux PROVE Inv'
  <2> USE <1>a, <1>b, <1>5
  <2> SUFFICES ASSUME ~ Fail PROVE Inv'
    BY FailKeeps
  <2>a. temp' \in [Recordings -> {None} \cup Footage]
    BY RemovedTypes DEF Mux, TypeOK
  <2>1. TypeOK'
    BY <2>a DEF TypeOK, Mux, run, kept, footage, InRun, Footage
  <2>2. \A q \in Recordings : extracted'[q] \subseteq Programme(q)
    BY DEF TypeOK, Mux, InRun, kept
  <2>3. ReplacedOnceDeleted'
    BY DEF TypeOK, Mux, run, kept, InRun, ReplacedOnceDeleted, Converted
  <2>4. InRun(input)'
    BY DEF TypeOK, Mux, run, kept, footage, InRun, Installing
  <2> QED
    BY <2>1, <2>2, <2>3, <2>4 DEF Mux, run
<1>6. ASSUME Extract PROVE Inv'
  <2> USE <1>a, <1>b, <1>6
  <2> SUFFICES ASSUME ~ Fail PROVE Inv'
    BY FailKeeps
  <2>1. TypeOK'
    BY DEF TypeOK, Extract, run, kept, footage, InRun, Footage
  <2>2. \A q \in Recordings : extracted'[q] \subseteq Programme(q)
    BY DEF TypeOK, Extract, InRun, kept
  <2>3. ReplacedOnceDeleted'
    BY DEF TypeOK, Extract, run, kept, InRun, ReplacedOnceDeleted, Converted
  <2>4. InRun(input)'
    BY DEF TypeOK, Extract, run, kept, footage, InRun, Installing
  <2> QED
    BY <2>1, <2>2, <2>3, <2>4 DEF Extract, run
<1>7. ASSUME NEW F \in Earlier(tmpts), Transcode(F)
      PROVE  Inv'
  <2> USE <1>a, <1>b, <1>7
  <2> SUFFICES ASSUME ~ Fail PROVE Inv'
    BY FailKeeps
  <2>1. TypeOK'
    BY EarlierIsPart DEF TypeOK, Transcode, run, kept, footage, InRun, Footage
  <2>2. \A q \in Recordings : extracted'[q] \subseteq Programme(q)
    BY EarlierIsPart DEF TypeOK, Transcode, InRun, kept
  <2>3. ReplacedOnceDeleted'
    BY EarlierIsPart DEF TypeOK, Transcode, run, kept, InRun, ReplacedOnceDeleted, Converted
  <2>4. InRun(input)'
    BY EarlierIsPart DEF TypeOK, Transcode, run, kept, footage, InRun, Installing
  <2> QED
    BY <2>1, <2>2, <2>3, <2>4 DEF Transcode, run
<1>8. ASSUME NEW F \in Earlier(inter), Merge(F)
      PROVE  Inv'
  <2> USE <1>a, <1>b, <1>8
  <2> SUFFICES ASSUME ~ Fail PROVE Inv'
    BY FailKeeps
  <2>1. TypeOK'
    BY EarlierIsPart DEF TypeOK, Merge, run, kept, footage, InRun, Footage
  <2>2. \A q \in Recordings : extracted'[q] \subseteq Programme(q)
    BY EarlierIsPart DEF TypeOK, Merge, InRun, kept
  <2>3. ReplacedOnceDeleted'
    BY EarlierIsPart DEF TypeOK, Merge, run, kept, InRun, ReplacedOnceDeleted, Converted
  <2>4. InRun(input)'
    BY EarlierIsPart DEF TypeOK, Merge, run, kept, footage, InRun, Installing
  <2> QED
    BY <2>1, <2>2, <2>3, <2>4 DEF Merge, run
<1>9. ASSUME Check PROVE Inv'
  <2> USE <1>a, <1>b, <1>9
  <2> SUFFICES ASSUME ~ Fail PROVE Inv'
    BY FailKeeps
  <2>0. Exact => outfile = expected
    BY EnoughIsAll DEF Check, InRun
  <2>1. TypeOK'
    BY <2>0 DEF TypeOK, Check, run, kept, footage, InRun, Footage
  <2>2. \A q \in Recordings : extracted'[q] \subseteq Programme(q)
    BY <2>0 DEF TypeOK, Check, InRun, kept
  <2>3. ReplacedOnceDeleted'
    BY <2>0 DEF TypeOK, Check, run, kept, InRun, ReplacedOnceDeleted, Converted
  <2>4. InRun(input)'
    BY <2>0 DEF TypeOK, Check, run, kept, footage, InRun, Installing
  <2> QED
    BY <2>1, <2>2, <2>3, <2>4 DEF Check, run
<1>10. ASSUME MakeDir PROVE Inv'
  <2> SUFFICES ASSUME ~ Fail PROVE Inv'
    BY FailKeeps
  <2> USE <1>10
  <2>0. /\ input \in Recordings /\ input # None /\ InRun(input) /\ outfile \in Footage
        /\ owner \in [Dirs -> {None} \cup Recordings]
        /\ RecDir = Minute[input] /\ RecDir \in Dirs
    BY <1>a, <1>b, <1>c DEF RecDir, MakeDir, TypeOK
  <2>1. /\ recdir' \in [Dirs -> {None} \cup Directory] /\ recdir'[RecDir] # None
        /\ recdir[RecDir] # None => recdir' = recdir
        /\ recdir[RecDir] = None => recdir'[RecDir].indexed = FALSE
        /\ \A e \in Dirs \ {RecDir} : recdir'[e] = recdir[e]
    <3>1. CASE recdir[RecDir] = None
      BY <2>0, <3>1, DirectoryChanges DEF MakeDir, NewDir
    <3>2. CASE recdir[RecDir] # None
      BY <2>0, <3>2 DEF MakeDir, TypeOK
    <3> QED
      BY <3>1, <3>2
  <2>2. TypeOK'
    <3>1. /\ recdir' \in [Dirs -> {None} \cup Directory]
          /\ \A d \in Dirs : recdir'[d] # None /\ recdir'[d].indexed => recdir'[d].ts # None
      BY <2>1 DEF TypeOK
    <3> QED
      BY <2>0, <3>1 DEF TypeOK, MakeDir, run, footage
  <2>3. \A q \in Recordings : extracted'[q] \subseteq Programme(q)
    BY DEF MakeDir
  <2>4. ReplacedOnceDeleted'
    BY <2>0, <2>1, <1>c DEF MakeDir, InRun, ReplacedOnceDeleted, Converted
  <2>5. InRun(input)'
    BY <2>0, <2>1 DEF MakeDir, run, footage, InRun, Installing
  <2> QED
    BY <2>0, <2>2, <2>3, <2>4, <2>5 DEF MakeDir, run
<1>11. ASSUME Move PROVE Inv'
  <2> USE <1>11
  <2>0. /\ input \in Recordings /\ input # None /\ InRun(input) /\ outfile \in Footage
        /\ owner \in [Dirs -> {None} \cup Recordings]
        /\ RecDir = Minute[input] /\ RecDir \in Dirs
    BY <1>a, <1>b, <1>c DEF RecDir, Move, TypeOK
  <2>1. /\ recdir' \in [Dirs -> {None} \cup Directory] /\ recdir'[RecDir] # None
        /\ \/ recdir' = recdir /\ stuck
           \/ recdir'[RecDir].ts = outfile /\ recdir'[RecDir].indexed = FALSE
        /\ \A e \in Dirs \ {RecDir} : recdir'[e] = recdir[e]
    <3>1. CASE recdir' = [recdir EXCEPT ![RecDir] = [ts |-> outfile, indexed |-> FALSE]]
      BY <2>0, <3>1, DirectoryChanges
    <3>2. CASE stuck /\ recdir' = recdir
      BY <2>0, <3>2 DEF Move, TypeOK, InRun
    <3> QED
      BY <3>1, <3>2 DEF Move
  <2>2. TypeOK'
    <3>1. /\ recdir' \in [Dirs -> {None} \cup Directory]
          /\ \A d \in Dirs : recdir'[d] # None /\ recdir'[d].indexed => recdir'[d].ts # None
      BY <2>1 DEF TypeOK
    <3> QED
      BY <2>0, <3>1 DEF TypeOK, Move, run, footage
  <2>3. \A q \in Recordings : extracted'[q] \subseteq Programme(q)
    BY DEF Move
  <2>4. ReplacedOnceDeleted'
    BY <2>0, <2>1, <1>c DEF Move, InRun, ReplacedOnceDeleted, Converted
  <2>5. InRun(input)'
    BY <2>0, <2>1 DEF Move, run, footage, InRun, Installing
  <2> QED
    BY <2>0, <2>2, <2>3, <2>4, <2>5 DEF Move, run
<1>12. ASSUME Index PROVE Inv'
  <2> USE <1>12
  <2>0. /\ input \in Recordings /\ input # None /\ InRun(input) /\ outfile \in Footage
        /\ owner \in [Dirs -> {None} \cup Recordings]
        /\ RecDir = Minute[input] /\ RecDir \in Dirs
    BY <1>a, <1>b, <1>c DEF RecDir, Index, TypeOK
  <2>1. /\ recdir' \in [Dirs -> {None} \cup Directory]
        /\ \/ recdir'[RecDir] = None /\ step' = "end"
           \/ /\ recdir'[RecDir] # None /\ recdir'[RecDir].indexed = TRUE
              /\ recdir'[RecDir].ts = recdir[RecDir].ts /\ recdir[RecDir].ts # None
              /\ step' \in {"delete", "end"}
        /\ \A e \in Dirs \ {RecDir} : recdir'[e] = recdir[e]
    <3>1. CASE recdir' = [recdir EXCEPT ![RecDir] = None] /\ step' = "end"
      BY <2>0, <3>1 DEF TypeOK
    <3>2. CASE /\ Indexable(recdir[RecDir])
               /\ recdir' = [recdir EXCEPT ![RecDir] = [ts |-> @.ts, indexed |-> TRUE]]
               /\ step' = IF delete THEN "delete" ELSE "end"
      <4>1. recdir[RecDir].ts \in {None} \cup Footage
        BY <2>0, DirectoryTypes DEF InRun, Index
      <4> QED
        BY <2>0, <3>2, <4>1, DirectoryChanges DEF Indexable
    <3> QED
      BY <3>1, <3>2 DEF Index
  <2>2. TypeOK'
    <3>1. /\ recdir' \in [Dirs -> {None} \cup Directory]
          /\ \A d \in Dirs : recdir'[d] # None /\ recdir'[d].indexed => recdir'[d].ts # None
      BY <2>1 DEF TypeOK
    <3> QED
      BY <2>0, <3>1 DEF TypeOK, Index, run, footage
  <2>3. \A q \in Recordings : extracted'[q] \subseteq Programme(q)
    BY DEF Index
  <2>4. ReplacedOnceDeleted'
    BY <2>0, <2>1, <1>c DEF Index, InRun, ReplacedOnceDeleted, Converted
  <2>5. InRun(input)'
    BY <2>0, <2>1 DEF Index, run, footage, InRun, Installing
  <2> QED
    BY <2>0, <2>2, <2>3, <2>4, <2>5 DEF Index, run
<1>13. ASSUME Delete PROVE Inv'
  <2> USE <1>a, <1>b, <1>13
  <2>1. TypeOK'
    BY DEF TypeOK, Delete, run, kept, footage, InRun, Footage
  <2>2. \A q \in Recordings : extracted'[q] \subseteq Programme(q)
    BY DEF TypeOK, Delete, InRun, kept
  <2>3. ReplacedOnceDeleted'
    BY <1>c DEF TypeOK, Delete, run, kept, InRun, ReplacedOnceDeleted, Converted, Installing
  <2>4. InRun(input)'
    BY DEF TypeOK, Delete, run, kept, footage, InRun, Installing
  <2> QED
    BY <2>1, <2>2, <2>3, <2>4 DEF Delete, run
<1>14. ASSUME End \/ Kill PROVE Inv'
  BY <1>14, ExitKeeps DEF End, Kill, TypeOK
<1> QED
  BY <1>1, <1>2, <1>3, <1>4, <1>5, <1>6, <1>7, <1>8, <1>9, <1>10, <1>11, <1>12, <1>13, <1>14 DEF Next, Step

\* The invariant holds from the first run on.
LEMMA Invariance == Spec => []Inv
<1>1. Init => Inv
  <2> SUFFICES ASSUME Init PROVE Inv
    OBVIOUS
  <2>1. TypeOK
    <3>1. runs \in 0..MaxRuns
      BY Vdr1Assumption DEF Init
    <3>2. {} \in Footage
      BY DEF Footage
    <3> QED
      BY <3>1, <3>2 DEF Init, TypeOK
  <2> QED
    BY <2>1 DEF Init, Inv, ReplacedOnceDeleted, AtRest
<1>2. Inv /\ [Next]_vars => Inv'
  <2>1. ASSUME Inv, UNCHANGED vars PROVE Inv'
    BY <2>1 DEF vars, Inv, TypeOK, ReplacedOnceDeleted, Converted, AtRest, InRun
  <2> QED
    BY <2>1, Preserved
<1> QED
  BY <1>1, <1>2, PTL DEF Spec

-----------------------------------------------------------------------------
(* The theorems.                                                           *)

\* Whatever fails or is killed, the variables keep to their types, and only what
\* has a file in $RECDIR has an index.
THEOREM TypeCorrect == Spec => []TypeOK
<1>1. Inv => TypeOK
  BY DEF Inv
<1> QED
  BY <1>1, Invariance, PTL

\* No run transcodes a 001.vdr of an earlier one, also if rm failed to remove it: what
\* genindex has not written in this run does not get into the intermediate files.
THEOREM NothingStaleHolds == Spec => []NothingStale
<1>1. Inv => NothingStale
  BY DEF Inv, TypeOK, InRun, NothingStale
<1> QED
  BY <1>1, Invariance, PTL

\* A recording that is gone has left behind a file with an index, which holds all
\* that genindex extracted - unless mv failed, or ffmpeg's durations were wrong, or a
\* recording of the same minute was converted after it.
THEOREM ReplacedOnceDeletedHolds == Spec => []ReplacedOnceDeleted
<1>1. Inv => ReplacedOnceDeleted
  BY DEF Inv
<1> QED
  BY <1>1, Invariance, PTL
===============================================================================
