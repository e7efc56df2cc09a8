--------------------------- MODULE MCShardReports ---------------------------
(***************************************************************************)
(* ShardReports for TLC.                                                   *)
(***************************************************************************)
EXTENDS ShardReports, TLC
=============================================================================
