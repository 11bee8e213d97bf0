------------------------------- MODULE Recorder -------------------------------
(***************************************************************************)
(* What lpx-control promises to those who use the storage after it: a      *)
(* train has one directory, in which frames appear one by one, each with   *)
(* a number above all earlier ones; at some time the stream is published,  *)
(* all rows at once, and never changes after that.  The rows of a stream   *)
(* follow each other without a gap, describe frames that are on disk, in   *)
(* their order, and do not overlap with those of any other stream.  What   *)
(* is said of times holds as long as the clock has not been set back.      *)
(*                                                                         *)
(* lpx-control gets there with two threads, a list, two system calls for   *)
(* the index and no lock (module Capture).                                 *)
(***************************************************************************)
EXTENDS Integers, Sequences

CONSTANT TrainIds

VARIABLES dirs, files, index,
          setBack  (* the clock has been set back *)

Init ==
  /\ setBack = FALSE
  /\ dirs = {}
  /\ files = [t \in TrainIds |-> {}]
  /\ index = [t \in TrainIds |-> <<>>]

Begin ==
  /\ \E t \in TrainIds \ dirs : dirs' = dirs \cup {t}
  /\ UNCHANGED <<files, index, setBack>>

Store ==
  /\ \E t \in dirs : \E k \in files'[t] :
       /\ \A j \in files[t] : j < k
       /\ files' = [files EXCEPT ![t] = @ \cup {k}]
  /\ UNCHANGED <<dirs, index, setBack>>

NoGap(q) == \A i \in 1 .. Len(q) - 1 : q[i + 1].start = q[i].end
Forward(q) == \A i \in 1 .. Len(q) : q[i].start <= q[i].end

Describes(q, stored) ==
  /\ \A i \in 1 .. Len(q) : q[i].frame \in stored
  /\ \A i \in 1 .. Len(q) - 1 : q[i].frame < q[i + 1].frame

Overlap(p, q) == p[1].start < q[Len(q)].end /\ q[1].start < p[Len(p)].end

Publish ==
  /\ \E t \in dirs :
       LET rows == index'[t] IN
       /\ index[t] = <<>>
       /\ rows # <<>>
       /\ NoGap(rows)
       /\ Describes(rows, files[t])
       /\ ~setBack =>
            /\ Forward(rows)
            /\ \A u \in dirs : index[u] # <<>> => ~Overlap(rows, index[u])
       /\ index' = [index EXCEPT ![t] = rows]
  /\ UNCHANGED <<dirs, files, setBack>>

SetClockBack ==
  /\ setBack' = TRUE
  /\ UNCHANGED <<dirs, files, index>>

Next == Begin \/ Store \/ Publish \/ SetClockBack

Spec == Init /\ [][Next]_<<dirs, files, index, setBack>>
=============================================================================
