--------------------------- MODULE MCCustomDocJobs ---------------------------
(***************************************************************************)
(* Instances of CustomDocJobs for TLC.                                     *)
(***************************************************************************)
EXTENDS CustomDocJobs, TLC

Symmetry == Permutations(Users) \union Permutations(Jobs) \union Permutations(Handlers)
=============================================================================
