---------------------------- MODULE MCIngestion ----------------------------
(***************************************************************************)
(* A small instance of Ingestion: two runs, two days, one camera whose     *)
(* footage is two clips long, the second perhaps dated the next day.       *)
(***************************************************************************)
EXTENDS Ingestion

=============================================================================
