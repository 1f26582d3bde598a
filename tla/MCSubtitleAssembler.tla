------------------------- MODULE MCSubtitleAssembler --------------------------
(***************************************************************************)
(* SubtitleAssembler for TLC: broadcasts of display sets, cut into packets *)
(* where VDR might cut them.                                               *)
(***************************************************************************)
EXTENDS SubtitleAssembler

\* The bytes of a segment, or of what is no segment but lies between them.
Bytes(k, type, n) == [i \in 1..n |-> [of |-> [set |-> k, type |-> type, size |-> n], at |-> i - 1]]

Prefix(k) == Bytes(k, "prefix", 2)
Marker(k) == Bytes(k, "marker", 1)

Full(k) == Prefix(k) \o Bytes(k, "page", 6) \o Bytes(k, "region", 6) \o Bytes(k, "clut", 6)
           \o Bytes(k, "object", 7) \o Bytes(k, "end", 6) \o Marker(k)
Cleardown(k) == Prefix(k) \o Bytes(k, "page", 7) \o Bytes(k, "end", 6) \o Marker(k)
Stuffed(k) == Prefix(k) \o Bytes(k, "stuffing", 7) \o Bytes(k, "unknown", 6)
              \o Bytes(k, "end", 6) \o Marker(k)
Endless(k) == Prefix(k) \o Bytes(k, "page", 6)
Large(k) == Prefix(k) \o Bytes(k, "page", 20) \o Bytes(k, "object", 8) \o Bytes(k, "end", 6)
Long(k)  == Prefix(k) \o Bytes(k, "page", 20) \o Bytes(k, "object", 7) \o Bytes(k, "end", 6)

\* The packets of a display set of which the first takes n bytes.
Packet(k, pts, begins, d, from, upto) ==
  [set |-> k, text |-> d, from |-> from, upto |-> upto,
   pts |-> pts, reset |-> begins, huge |-> FALSE, plugin |-> FALSE]
One(k, pts, d) == <<Packet(k, pts, TRUE, d, 0, Len(d))>>
Two(k, pts, d, n) ==
  <<Packet(k, pts, TRUE, d, 0, n), Packet(k, 0, FALSE, d, n, Len(d))>>
Huge(p)   == <<[p[1] EXCEPT !.huge = TRUE]>> \o Tail(p)
Plugin(k, pts, d) == <<[One(k, pts, d)[1] EXCEPT !.plugin = TRUE]>>

AllBroadcasts ==
  {One(1, 6, Cleardown(1)) \o Two(2, 7, Full(2), 17) \o One(3, 8, Cleardown(3)),
   One(1, 5, Full(1)) \o Two(2, 6, Stuffed(2), 12) \o One(3, 6, Cleardown(3)),
   One(1, 7, Full(1)) \o Two(2, 6, Cleardown(2), 9) \o One(3, 8, Cleardown(3)),
   One(1, 6, Endless(1)) \o One(2, 7, Full(2)) \o One(3, 8, Cleardown(3)),
   One(1, 6, Full(1)) \o One(2, 7, Long(2)),
   One(1, 6, Large(1)) \o One(2, 7, Cleardown(2)) \o One(3, 8, Full(3)),
   Huge(Two(1, 6, Stuffed(1), 14)) \o Plugin(2, 7, Cleardown(2)) \o One(3, 8, Full(3))}
=============================================================================
