---------------------------- MODULE MCRevocation ----------------------------
(* Instances of the life of revocation lists for TLC. *)
EXTENDS Revocation, TLC

\* Processes, issuers and capabilities that nothing tells apart.
ActorSymmetry ==
    Permutations(Procs) \cup Permutations(Issuers) \cup Permutations(Tokens)
=============================================================================
