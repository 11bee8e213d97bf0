---------------------------- MODULE MCByteStream ----------------------------
(* Instances of ByteStream for TLC: three files with names of two lengths.  *)
EXTENDS ByteStream

MCNameSize == <<2, 3, 2>>
=============================================================================
