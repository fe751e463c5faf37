---------------------------- MODULE MCGroupWriter ----------------------------
(***************************************************************************)
(* GroupWriter for TLC.  No symmetry: the run checks liveness.             *)
(***************************************************************************)
EXTENDS GroupWriter

=============================================================================
