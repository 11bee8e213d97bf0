----------------------------- MODULE MCIndexFile ------------------------------
(* Module IndexFile with times of two digits. *)
EXTENDS IndexFile

MCRows == <<[start |-> 11, end |-> 25], [start |-> 25, end |-> 32],
            [start |-> 32, end |-> 47]>>
=============================================================================
