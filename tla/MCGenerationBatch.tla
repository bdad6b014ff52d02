------------------------- MODULE MCGenerationBatch -------------------------
(***************************************************************************)
(* Model checking of GenerationBatch.  The pages are interchangeable, and  *)
(* the runs without temporal properties say so.                            *)
(***************************************************************************)
EXTENDS GenerationBatch, TLC

Symmetry == Permutations(Pages)

=============================================================================
