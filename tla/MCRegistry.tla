----------------------------- MODULE MCRegistry -----------------------------
(* Instances of the registry for TLC. *)
EXTENDS RegistryRefinement, RegistryInvariants, TLC

\* Nothing tells handlers from each other, nor valid archives.
Symmetry == Permutations(Handlers) \cup Permutations(ValidBodies)
=============================================================================
