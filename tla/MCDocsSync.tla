----------------------------- MODULE MCDocsSync -----------------------------
(***************************************************************************)
(* Instances of DocsSync for TLC.                                          *)
(***************************************************************************)
EXTENDS DocsSync, TLC

\* Requests are interchangeable, and so are rows and files.
Symmetry == Permutations(Requests) \union Permutations(Docs) \union Permutations(Paths)
=============================================================================
