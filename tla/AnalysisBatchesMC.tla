-------------------------- MODULE AnalysisBatchesMC --------------------------
(***************************************************************************)
(* Instances of AnalysisBatches for TLC.                                   *)
(***************************************************************************)
EXTENDS AnalysisBatches, TLC

Interchangeable == Permutations(Pages)
=============================================================================
