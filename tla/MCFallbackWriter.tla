-------------------------- MODULE MCFallbackWriter --------------------------
(* The fallback files on their own, on small instances.                    *)
EXTENDS FallbackWriter, TLC

Symmetry == Permutations(Envs \ Huge)
=============================================================================
