-------------------------- MODULE MCClaimProjection --------------------------
(* ClaimProjection with small constants for TLC. *)
EXTENDS ClaimProjection, TLC

\* Nothing distinguishes one content from another.
Symmetry == Permutations(Objects)
=============================================================================
