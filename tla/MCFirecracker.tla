--------------------------- MODULE MCFirecracker ----------------------------
(***************************************************************************)
(* Firecracker for TLC.  Goroutines, instances and processes only ever     *)
(* differ in what happens to them.                                         *)
(***************************************************************************)
EXTENDS Firecracker, TLC

Interchangeable ==
    Permutations(Calls) \cup Permutations(Instances) \cup Permutations(Procs)

=============================================================================
