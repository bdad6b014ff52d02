---------------------------- MODULE MCImageRoutes ----------------------------
(* ImageRoutes for TLC.  Pages are alike and so are the models a deployment may *)
(* name for editing; the run checks invariants only, so both may be permuted.   *)
EXTENDS ImageRoutes, TLC

Symmetry == Permutations(Pages) \cup Permutations(EditModels)
===============================================================================
