---------------------------- MODULE MCFlatMerger ----------------------------
(***************************************************************************)
(* FlatMerger on every choice of three short files.                        *)
(***************************************************************************)
EXTENDS FlatMerger, SequencesExt

AnyStream == BoundedSeq(1 .. 2, 2)
=============================================================================
