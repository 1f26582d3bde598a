----------------------------- MODULE MCGenIndex -----------------------------
(***************************************************************************)
(* GenIndex for TLC: input files and packets to choose from.               *)
(***************************************************************************)
EXTENDS GenIndex

OnePacket(k, s, p, a) == [kind |-> k, head |-> 1, size |-> s, pic |-> p, picAt |-> a]

TwoFiles == <<4, 6>>

VideoPackets ==
  {OnePacket("video", 1, "I", 1), OnePacket("video", 2, "I", 2),
   OnePacket("video", 1, "P", 1), OnePacket("video", 2, "none", 1)}

AllPackets ==
  VideoPackets \cup
  {OnePacket("video", 1, "D", 1), OnePacket("audio", 1, "none", 1),
   OnePacket("subs", 2, "none", 1), OnePacket("other", 1, "none", 1),
   OnePacket("invalid", 0, "none", 1)}
=============================================================================
