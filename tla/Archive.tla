------------------------------- MODULE Archive -------------------------------
(***************************************************************************)
(* What lpx-shared/include/stream.h promises of a byte stream: a reader    *)
(* gets, piece by piece and nothing else, the bytes                        *)
(*                                                                         *)
(*   stream ::= <number of frames> { <file name> <file size> <bytes> }     *)
(*                                                                         *)
(* in this order, and is told the end only when it has all of them.  At    *)
(* any time the stream may instead fail.                                   *)
(***************************************************************************)
EXTENDS Integers, Sequences

CONSTANT Content  (* the bytes of the archive, a sequence *)

VARIABLES delivered,  (* how many bytes the reader has been given, in order *)
          last,       (* the bytes of the last piece                        *)
          status

Init ==
  /\ delivered = 0
  /\ last = <<>>
  /\ status = "open"

Deliver ==
  /\ status = "open"
  /\ delivered' \in delivered + 1 .. Len(Content)
  /\ last' = SubSeq(Content, delivered + 1, delivered')
  /\ UNCHANGED status

End ==
  /\ status = "open"
  /\ delivered = Len(Content)
  /\ status' = "eof"
  /\ UNCHANGED <<delivered, last>>

Stop ==
  /\ status \in {"open", "eof", "error"}
  /\ status' \in {"error", "closed", "crashed"}
  /\ UNCHANGED <<delivered, last>>

Next == Deliver \/ End \/ Stop

Spec == Init /\ [][Next]_<<delivered, last, status>>
=============================================================================
