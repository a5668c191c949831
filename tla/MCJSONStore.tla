---------------------------- MODULE MCJSONStore -----------------------------
(***************************************************************************)
(* Instances of JSONStore for TLC: the names of temporary files and the    *)
(* inodes are interchangeable.                                             *)
(***************************************************************************)
EXTENDS JSONStore, TLC

Names == Permutations(Temps) \cup Permutations(Inodes)

=============================================================================
