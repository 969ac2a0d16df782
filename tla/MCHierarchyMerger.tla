------------------------- MODULE MCHierarchyMerger -------------------------
(***************************************************************************)
(* HierarchyMerger on every choice of three short files: two stages, and   *)
(* an odd queue carried over.                                              *)
(***************************************************************************)
EXTENDS HierarchyMerger

AnyStream == BoundedSeq(1 .. 2, 2)
=============================================================================
