-------------------------- MODULE MCDocsGeneration --------------------------
(***************************************************************************)
(* Instances of DocsGeneration for TLC.                                    *)
(***************************************************************************)
EXTENDS DocsGeneration, TLC

\* Tasks, requests, repository states and documents are interchangeable.
Symmetry == Permutations(Tasks) \union Permutations(Handlers)
              \union Permutations(Versions) \union Permutations(Topics)
=============================================================================
