---------------------------- MODULE MCVdrConvert ----------------------------
(***************************************************************************)
(* VdrConvert for TLC: recordings and invocations to choose from.          *)
(***************************************************************************)
EXTENDS VdrConvert

OneRecording(n, S, v, l, z, k) ==
  [number |-> n, small |-> S, video |-> v, life |-> l, title0 |-> z, stuck |-> k,
   exact |-> TRUE]

Television == OneRecording(2, {}, TRUE, "equal", FALSE, FALSE)
Radio      == OneRecording(2, {}, FALSE, "equal", FALSE, FALSE)
ShortEnd   == OneRecording(2, {2}, FALSE, "equal", FALSE, FALSE)

AllRecordings ==
  {Television, Radio, ShortEnd,
   OneRecording(1, {1}, TRUE, "equal", FALSE, FALSE),    \* aborted VPS start
   OneRecording(2, {1}, TRUE, "equal", FALSE, FALSE),    \* VPS started twice
   OneRecording(2, {1}, FALSE, "long", FALSE, FALSE),    \* no podcast of it
   OneRecording(2, {}, TRUE, "short", FALSE, FALSE),     \* not worth the time
   OneRecording(2, {2}, TRUE, "equal", TRUE, FALSE),     \* "007 ..."
   OneRecording(2, {}, TRUE, "equal", FALSE, TRUE),      \* files of another owner
   [Television EXCEPT !.exact = FALSE]}                  \* broken time stamps

Options(letters) ==
  [keep     |-> "k" \in letters, delete  |-> "d" \in letters,
   combine  |-> "c" \in letters, podcast |-> "p" \in letters,
   maintain |-> "m" \in letters]

\* vdr-auto's call, and calls by hand or from batch.sh
AutoCall    == Options({"k", "c", "d", "p"})
AllCalls == {AutoCall, Options({"k"}), Options({"k", "d"}), Options({"k", "c"}),
             Options({"k", "d", "m"}), Options({"d", "p"}), Options({"c", "d"})}

TelevisionOnly == {Television}
AutoOnly       == {AutoCall}
KeepOnly       == {Options({"k"})}
KeepDelete     == {Options({"k", "d"})}
=============================================================================
