---------------------------- MODULE MCVersionRace ----------------------------
(***************************************************************************)
(* A small instance of VersionRace.  Two tables beside the first two are   *)
(* enough for a flush and a compaction to be given the same number, three  *)
(* Versions beside the first for two overlapping installs and one more,    *)
(* and two failures for one of each thread.                                *)
(***************************************************************************)
EXTENDS VersionRace
=============================================================================
