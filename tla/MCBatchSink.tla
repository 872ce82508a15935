---------------------------- MODULE MCBatchSink ----------------------------
(***************************************************************************)
(* Instances of BatchSink for TLC.  With two writers and at least as many  *)
(* messages as two batches need, every flush can be a writer's, the        *)
(* ticker's or Close's, and a failed batch can meet the next one.          *)
(***************************************************************************)
EXTENDS BatchSink
=============================================================================
