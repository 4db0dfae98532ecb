----------------------------- MODULE MCLogFormat ------------------------------
(* A small instance of LogFormat: blocks of six bytes, headers of two, the  *)
(* buffer of two blocks as in the code.  Records of 2 leave just the room   *)
(* of a header, records of 3 a trailer, and records of 9 span blocks.       *)
EXTENDS LogFormat
=============================================================================
