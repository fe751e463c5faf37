---------------------------- MODULE MCSimCluster ----------------------------
(***************************************************************************)
(* SimCluster for TLC.  Followers are interchangeable, and so are the      *)
(* commands.                                                               *)
(***************************************************************************)
EXTENDS SimCluster, TLC

SimSymmetry == Permutations(Follower) \cup Permutations(Command)

=============================================================================
