------------------------------- MODULE MCPes --------------------------------
(***************************************************************************)
(* Pes for TLC: streams of packets of each kind of header, with bytes      *)
(* before, between and after them that belong to no packet.                *)
(***************************************************************************)
EXTENDS Pes

Start(id) == <<0, 0, 1, id>>

Mpeg2   == Start(224) \o <<0, 6, 128, 0, 1>> \o <<9, 7>> \o <<5>>  \* video, stuffing
Mpeg1   == Start(192) \o <<0, 4, 255, 64, 1, 15>>                 \* audio, no payload
Stamped == Start(192) \o <<0, 7, 33, 1, 1, 1, 1>> \o <<3, 3>>      \* audio with a PTS
Padding == Start(190) \o <<0, 4>> \o <<0, 0, 1, 185>>  \* with what looks like a packet
Pack2   == Start(186) \o <<68, 0, 4, 0, 4, 1, 1, 1, 1, 249, 255>>
Pack1   == Start(186) \o <<33, 0, 1, 0, 1, 128, 0, 1>>
System  == Start(187) \o <<0, 1, 8>>
ProgramEnd == Start(185)
Picture == Start(0)                     \* a start code of no packet
Impossible == Start(224) \o <<0, 1, 128, 0, 0>>
Dropped == Start(240) \o <<7>>          \* a header of four bytes
Zeros   == <<0, 0, 0>>
Noise   == <<0, 0, 2, 1, 0>>

\* Private stream 1: the substream header and six bytes of audio, or subtitles
Audio == Start(189) \o <<0, 13, 128, 0, 0>> \o <<128, 1, 0, 1>> \o <<11, 119, 6, 32, 5, 4>>
Subs  == Start(189) \o <<0, 13, 128, 0, 0>> \o <<32, 0, 0, 0>> \o <<15, 16, 1, 128, 15, 128>>

Plain ==
  {Mpeg2 \o Mpeg1 \o Zeros, Zeros \o Stamped \o Padding \o <<0, 0, 1>>,
   Pack2 \o System \o Mpeg1 \o <<0>>, Pack1 \o Mpeg2, Noise \o Dropped \o Stamped,
   Picture \o Impossible \o Padding \o ProgramEnd}

Privates ==
  {Padding \o Audio \o Padding, Subs \o Mpeg1 \o <<0>>}

AllStreams == Plain \cup Privates
=============================================================================
