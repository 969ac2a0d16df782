----------------------------- MODULE MCPipeline -----------------------------
(***************************************************************************)
(* Pipeline on every choice of two files of up to three events, with       *)
(* batches of two: a file may leave a batch partly filled.                 *)
(***************************************************************************)
EXTENDS Pipeline, SequencesExt

AnyStream == BoundedSeq(0 .. 1, 3)
=============================================================================
