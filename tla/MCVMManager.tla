----------------------------- MODULE MCVMManager -----------------------------
(***************************************************************************)
(* Instances of VMManager for TLC.  Everything is given in the .cfg files; *)
(* this module only adds the symmetry: supervisors and callers are         *)
(* interchangeable goroutines, and no definition tells two of them apart;  *)
(* neither are two VMs, since names are never compared by order.  The      *)
(* liveness run does without symmetry.                                     *)
(***************************************************************************)
EXTENDS VMManager, TLC

Goroutines == Permutations(Sups) \cup Permutations(Callers)
Everyone == Goroutines \cup Permutations(Names)

=============================================================================
