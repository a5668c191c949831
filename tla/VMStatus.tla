------------------------------ MODULE VMStatus ------------------------------
(***************************************************************************)
(* The observed status of a micro-VM and the table of the changes it may   *)
(* go through (controlplane/vm/vmm.go).                                    *)
(***************************************************************************)

Statuses ==
    {"created", "starting", "running", "stopping", "stopped", "failed"}

\* The map `transitions`: status -> statuses it may be followed by.
Transitions ==
    [created  |-> {"starting", "stopped", "failed"},
     starting |-> {"running", "failed", "stopped"},
     running  |-> {"stopping", "stopped", "failed"},
     stopping |-> {"stopped", "failed"},
     stopped  |-> {"starting", "created"},
     failed   |-> {"starting", "stopped", "created"}]

\* Staying in a status is always allowed.
CanTransitionTo(s, next) == s = next \/ next \in Transitions[s]

=============================================================================
