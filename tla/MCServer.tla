------------------------------- MODULE MCServer -------------------------------
(* Instances of Server for TLC: a stream of three frames and one of one.    *)
EXTENDS Server, TLC

MCRow(a, b, k) == [start |-> a, end |-> b, frame |-> k]
MCStored ==
  (1 :> <<MCRow(10, 12, 0), MCRow(12, 13, 1), MCRow(13, 15, 2)>>) @@
  (2 :> <<MCRow(20, 21, 0)>>)

MCArgument(times, offset, malformed) ==
  [times |-> times, offset |-> offset, malformed |-> malformed]

(* frame_time behind the stream before and after one within it, twice the
   same, a negative one; an offset within the first stream, which is behind
   the end of the second *)
MCArguments ==
  {MCArgument(<<>>, 1, FALSE)} \cup
  {MCArgument(times, 0, FALSE) : times \in {<<5, 2, 4>>, <<1, 1, -1>>}} \cup
  {MCArgument(<<>>, 0, TRUE)}

MCSymmetry == Permutations(Conns)
=============================================================================
