----------------------- MODULE MCGenerationPublication -----------------------
(* Instances of GenerationPublication for TLC. *)
EXTENDS GenerationPublication
CONSTANTS p1, p2, f1
=============================================================================
