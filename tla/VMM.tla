-------------------------------- MODULE VMM ---------------------------------
(***************************************************************************)
(* The contract of a hypervisor (the interface VMM of controlplane/vm/     *)
(* vmm.go), for one VM, as its user may rely on it: when each call takes   *)
(* effect and what is so when it returns.  What is refused has no effect   *)
(* and is left out; Metrics and ConsoleLogPath only read.                  *)
(***************************************************************************)
CONSTANT Calls  \* goroutines that call the hypervisor

VARIABLES
    prepared,  \* Create has prepared the VM, and Delete has not undone it
    up,        \* its process runs
    doing      \* what each caller has under way

Doing == {"nothing", "start", "started", "stop", "delete", "deleted"}

Init ==
    /\ prepared = FALSE
    /\ up = FALSE
    /\ doing = [c \in Calls |-> "nothing"]

Moves(c, from, to) == doing[c] = from /\ doing' = [doing EXCEPT ![c] = to]

Call(c) ==
    /\ \E method \in {"start", "stop", "delete"} : Moves(c, "nothing", method)
    /\ UNCHANGED <<prepared, up>>

\* "Create prépare la VM sans la démarrer": never a VM that runs.
Create ==
    /\ ~up
    /\ prepared' = TRUE
    /\ UNCHANGED <<up, doing>>

\* "Start démarre une VM préparée", that does not run.
Start(c) ==
    /\ Moves(c, "start", "started")
    /\ prepared /\ ~up
    /\ up' = TRUE
    /\ UNCHANGED prepared

StartFails(c) == Moves(c, "start", "nothing") /\ UNCHANGED <<prepared, up>>
StartReturns(c) == Moves(c, "started", "nothing") /\ UNCHANGED <<prepared, up>>

\* "Stop demande un arrêt propre, puis force": nothing runs when it returns.
StopReturns(c) ==
    /\ Moves(c, "stop", "nothing")
    /\ up' = FALSE
    /\ UNCHANGED prepared

\* "Delete libère tout ce que Create a réservé", of a VM that does not run.
Delete(c) ==
    /\ Moves(c, "delete", "deleted")
    /\ ~up
    /\ prepared' = FALSE
    /\ UNCHANGED up

DeleteReturns(c) == Moves(c, "deleted", "nothing") /\ UNCHANGED <<prepared, up>>

\* The process ends, by itself or because it was asked to.
End == up /\ up' = FALSE /\ UNCHANGED <<prepared, doing>>

Next ==
    \/ Create \/ End
    \/ \E c \in Calls : \/ Call(c) \/ Start(c) \/ StartFails(c) \/ StartReturns(c)
                        \/ StopReturns(c) \/ Delete(c) \/ DeleteReturns(c)

Spec == Init /\ [][Next]_<<prepared, up, doing>>

=============================================================================
