---------------------------- MODULE MCFrameSearch ----------------------------
(* Instances of FrameSearch for TLC: every ordered index of one to three    *)
(* rows within a few times, and every offset.                               *)
EXTENDS FrameSearch

CONSTANTS FirstTime, LastTime

MCRows == [start : FirstTime .. LastTime, end : FirstTime .. LastTime]
MCIndices ==
  {rows \in UNION {[1 .. n -> MCRows] : n \in 1 .. 3} : Ordered(rows)}
MCOffsets == 0 .. QuadSize - 1
=============================================================================
