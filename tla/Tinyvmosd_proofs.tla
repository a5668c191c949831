-------------------------- MODULE Tinyvmosd_proofs --------------------------
(***************************************************************************)
(* Theorems about the daemon and its host, for any VMs, zones and options, *)
(* and whatever fails or is changed from outside.                          *)
(***************************************************************************)
EXTENDS Tinyvmosd, TLAPS

-----------------------------------------------------------------------------
(* Types *)

LEMMA InitTypes == Init => TypeOK
  <1> SUFFICES ASSUME Init PROVE TypeOK
    OBVIOUS
  <1>1. flags \in [reconcile : BOOLEAN, keep : BOOLEAN]
    BY HostAssumption DEF Init
  <1>2. main \in RunState
    BY DEF Init, RunState, RunSteps
  <1>3. recon \in PassState
    BY DEF Init, PassState, PassSteps
  <1>4. mishaps \in 0 .. Mishaps
    BY HostAssumption DEF Init
  <1>5. status \in [VMs -> Statuses \cup {"absent"}]
    BY DEF Init
  <1> QED BY <1>1, <1>2, <1>3, <1>4, <1>5 DEF Init, TypeOK, Policies

\* A mishap is counted within its bound.
LEMMA MishapCounted ==
    ASSUME TypeOK, NEW kind, Mishap(kind) PROVE mishaps' \in 0 .. Mishaps
  BY HostAssumption DEF TypeOK, Mishap

\* What there is to do at the start and at the end.
LEMMA SomeOfThem ==
    /\ Declared \in SUBSET (VMs \cup Zones)
    /\ Requested \in SUBSET (VMs \cup Zones)
  BY HostAssumption

\* What a step may do to run, and to the reconciler.
LEMMA RunErrs == ASSUME TypeOK, Abort \/ CleanUp PROVE main' \in RunState
  BY ZenonT(40) DEF TypeOK, RunState, RunSteps, Abort, CleanUp

LEMMA ReconStarts ==
    ASSUME TypeOK,
           recon' = [recon EXCEPT !.pc = IF flags.reconcile THEN "idle" ELSE "off"]
    PROVE  recon' \in PassState
  BY DEF TypeOK, PassState, PassSteps

LEMMA GotoTypes ==
    ASSUME TypeOK, NEW pc \in RunSteps, NEW todo \in SUBSET (VMs \cup Zones),
           Goto(pc, todo)
    PROVE  main' \in RunState
  BY DEF TypeOK, RunState, Goto

LEMMA ReconGotoTypes ==
    ASSUME TypeOK, NEW pc \in PassSteps, NEW todo \in SUBSET (VMs \cup Zones),
           ReconGoto(pc, todo)
    PROVE  recon' \in PassState
  BY DEF TypeOK, PassState, ReconGoto

\* What is left to do shrinks.
LEMMA LessToDo ==
    ASSUME TypeOK, NEW x
    PROVE  /\ main.todo \ {x} \in SUBSET (VMs \cup Zones)
           /\ recon.todo \ {x} \in SUBSET (VMs \cup Zones)
  BY DEF TypeOK, RunState, PassState

\* What a step may do to the table.
TableTypes ==
    /\ table' \in Policies \cup {"none", "altered", "swapped"}
    /\ applied' \in Policies \cup {"unknown"}
    /\ tampered' \in BOOLEAN
    /\ mishaps' \in 0 .. Mishaps

LEMMA ApplyTypes ==
    ASSUME TypeOK, NEW p \in Policies, Apply(p) PROVE TableTypes
  BY DEF TypeOK, Apply, Remembered, TableTypes

LEMMA ApplyFailsTypes == ASSUME TypeOK, ApplyFails PROVE TableTypes
  BY MishapCounted DEF TypeOK, ApplyFails, TableTypes

LEMMA ApplyBaseTypes == ASSUME TypeOK, ApplyBase PROVE TypeOK'
  <1>1. TableTypes
    BY ApplyTypes, ApplyFailsTypes DEF ApplyBase, Policies
  <1>2. main' \in RunState
    BY RunErrs, GotoTypes, SomeOfThem DEF ApplyBase, RunSteps
  <1> QED BY <1>1, <1>2 DEF ApplyBase, TypeOK, vms, TableTypes

LEMMA ApplyFullTypes == ASSUME TypeOK, ApplyFull PROVE TypeOK'
  <1>1. TableTypes
    BY ApplyTypes, ApplyFailsTypes DEF ApplyFull, Policies
  <1>2. main' \in RunState
    BY RunErrs DEF ApplyFull, Goto, TypeOK, RunState, RunSteps
  <1>3. recon' \in PassState
    BY ReconStarts DEF ApplyFull, TypeOK
  <1> QED BY <1>1, <1>2, <1>3 DEF ApplyFull, TypeOK, vms, TableTypes

LEMMA StartTypes ==
    ASSUME TypeOK,
           ZonesDone \/ VMsDone \/ \E z \in Zones : EnsureZone(z)
    PROVE  TypeOK'
  <1>2. ASSUME NEW z \in Zones, EnsureZone(z) PROVE TypeOK'
    <2>1. bridges' \subseteq Zones /\ taps' = taps /\ mishaps' \in 0 .. Mishaps
      BY <1>2, MishapCounted DEF EnsureZone, WithBridge, ZoneFails, TypeOK
    <2>2. main' \in RunState
      BY <1>2, RunErrs, GotoTypes, LessToDo DEF EnsureZone, RunSteps
    <2> QED BY <1>2, <2>1, <2>2 DEF EnsureZone, TypeOK, vms
  <1>3. CASE ZonesDone
    BY <1>3, SomeOfThem DEF ZonesDone, Goto, TypeOK, RunState, RunSteps, vms, host
  <1>4. CASE VMsDone
    BY <1>4 DEF VMsDone, Goto, TypeOK, RunState, RunSteps, PassState, PassSteps, vms, host
  <1> QED BY <1>2, <1>3, <1>4

LEMMA VMTypes ==
    ASSUME TypeOK, NEW v \in VMs, EnsureTap(v) \/ Ensure(v) \/ Start(v)
    PROVE  TypeOK'
  <1>1. CASE EnsureTap(v)
    <2>1. taps' \in [VMs -> {"none", "loose", "attached"}] /\ mishaps' \in 0 .. Mishaps
      BY <1>1, MishapCounted DEF EnsureTap, TapFails, TypeOK
    <2>2. main' \in RunState
      <3>1. CASE CleanUp
        BY <3>1, RunErrs
      <3>2. CASE main' = [main EXCEPT !.pc = "ensure", !.vm = {v},
                                      !.created = RememberTap(v)]
        BY <3>2 DEF RememberTap, TypeOK, RunState, RunSteps
      <3> QED BY <1>1, <3>1, <3>2 DEF EnsureTap
    <2> QED BY <1>1, <2>1, <2>2 DEF EnsureTap, TypeOK, vms
  <1>2. CASE Ensure(v)
    <2>1. status' \in [VMs -> Statuses \cup {"absent"}] /\ mishaps' \in 0 .. Mishaps
      BY <1>2, MishapCounted DEF Ensure, TypeOK, Statuses
    <2>2. main' \in RunState
      BY <1>2, RunErrs DEF Ensure, TypeOK, RunState, RunSteps
    <2> QED BY <1>2, <2>1, <2>2 DEF Ensure, TypeOK, host
  <1>3. CASE Start(v)
    <2>1. /\ status' \in [VMs -> Statuses \cup {"absent"}]
          /\ up' \subseteq VMs
          /\ sup' \in [VMs -> {"none", "watch", "backoff", "launch", "late"}]
          /\ mishaps' \in 0 .. Mishaps
      BY <1>3, MishapCounted DEF Start, TypeOK, Statuses
    <2>2. main' \in RunState
      <3>1. CASE CleanUp
        BY <3>1, RunErrs
      <3>2. CASE main' = [main EXCEPT !.pc = "vms", !.todo = @ \ {v}, !.vm = {}]
        BY <3>2, LessToDo DEF TypeOK, RunState, RunSteps
      <3> QED BY <1>3, <3>1, <3>2 DEF Start
    <2> QED BY <1>3, <2>1, <2>2 DEF Start, TypeOK, host
  <1> QED BY <1>1, <1>2, <1>3

LEMMA StopTypes ==
    ASSUME TypeOK, Shutdown \/ VMsStopped \/ \E v \in VMs : StopVM(v)
    PROVE  TypeOK'
  <1>1. CASE Shutdown
    BY <1>1 DEF Shutdown, Goto, TypeOK, RunState, RunSteps, vms, host
  <1>2. CASE VMsStopped
    BY <1>2 DEF VMsStopped, Goto, TypeOK, RunState, RunSteps, vms, host
  <1>3. ASSUME NEW v \in VMs, StopVM(v) PROVE TypeOK'
    <2>1. /\ status' \in [VMs -> Statuses \cup {"absent"}]
          /\ sup' \in [VMs -> {"none", "watch", "backoff", "launch", "late"}]
          /\ up' \subseteq VMs /\ escaped' \subseteq VMs
          /\ mishaps' \in 0 .. Mishaps
      BY <1>3, MishapCounted DEF StopVM, TypeOK, Statuses
    <2>2. main' \in RunState
      BY <1>3, GotoTypes, LessToDo DEF StopVM, RunSteps
    <2> QED BY <1>3, <2>1, <2>2 DEF StopVM, TypeOK, host
  <1> QED BY <1>1, <1>2, <1>3

LEMMA CleanTypes ==
    ASSUME TypeOK,
           \/ KeepNetwork \/ Flush \/ (\E v \in VMs : RemoveTap(v)) \/ TapsDone
           \/ (\E z \in Zones : RemoveZone(z)) \/ ZonesRemoved \/ Exit
    PROVE  TypeOK'
  <1>1. CASE KeepNetwork
    BY <1>1 DEF KeepNetwork, Goto, TypeOK, RunState, RunSteps, vms, host
  <1>2. CASE Flush
    BY <1>2, MishapCounted DEF Flush, Goto, TypeOK, RunState, RunSteps, vms
  <1>3. ASSUME NEW v \in VMs, RemoveTap(v) PROVE TypeOK'
    BY <1>3, MishapCounted DEF RemoveTap, Goto, TypeOK, RunState, RunSteps, vms
  <1>4. CASE TapsDone
    BY <1>4, SomeOfThem DEF TapsDone, Goto, TypeOK, RunState, RunSteps, vms, host
  <1>5. ASSUME NEW z \in Zones, RemoveZone(z) PROVE TypeOK'
    BY <1>5, MishapCounted DEF RemoveZone, Goto, TypeOK, RunState, RunSteps, vms
  <1>6. CASE ZonesRemoved
    BY <1>6 DEF ZonesRemoved, Goto, TypeOK, RunState, RunSteps, vms, host
  <1>7. CASE Exit
    BY <1>7 DEF Exit, Goto, TypeOK, RunState, RunSteps, PassState, PassSteps, host
  <1> QED BY <1>1, <1>2, <1>3, <1>4, <1>5, <1>6, <1>7

LEMMA SuperviseTypes ==
    ASSUME TypeOK, NEW v \in VMs, Supervise(v) PROVE TypeOK'
  <1>1. CASE SupFailed(v)
    BY <1>1 DEF SupFailed, TypeOK, Statuses, host
  <1>2. CASE Relaunch(v)
    BY <1>2 DEF Relaunch, TypeOK, Statuses, host
  <1>3. CASE Relaunched(v)
    BY <1>3, MishapCounted DEF Relaunched, TypeOK, Statuses, host
  <1> QED BY <1>1, <1>2, <1>3 DEF Supervise

LEMMA ReconcileTypes == ASSUME TypeOK, Reconcile \/ ReconStops PROVE TypeOK'
  <1>1. CASE Tick \/ ReconStops
    BY <1>1, ZenonT(40) DEF Tick, ReconStops, ReconGoto, TypeOK, PassState, PassSteps, vms, host
  <1>6. CASE ReconList \/ PassDone
    <2>1. recon' \in PassState
      BY <1>6, SomeOfThem DEF ReconList, PassDone, PassState, PassSteps
    <2> QED BY <1>6, <2>1 DEF ReconList, PassDone, TypeOK, vms, host
  <1>2. CASE Verify
    <2>1. recon' \in PassState /\ mishaps' \in 0 .. Mishaps
      BY <1>2, MishapCounted, ReconGotoTypes, SomeOfThem DEF Verify, TypeOK, PassSteps
    <2> QED BY <1>2, <2>1 DEF Verify, TypeOK, vms, host
  <1>3. CASE Restore
    <2>1. TableTypes
      BY <1>3, ApplyTypes, ApplyFailsTypes DEF Restore, Policies, Policy
    <2>2. recon' \in PassState
      BY <1>3, ReconGotoTypes, SomeOfThem DEF Restore, PassSteps
    <2> QED BY <1>3, <2>1, <2>2 DEF Restore, TypeOK, vms, TableTypes
  <1>4. ASSUME NEW z \in Zones, ReconZone(z) PROVE TypeOK'
    <2>1. bridges' \subseteq Zones /\ taps' = taps /\ mishaps' \in 0 .. Mishaps
      BY <1>4, MishapCounted DEF ReconZone, RepairZone, WithBridge, ZoneFails, TypeOK
    <2>2. recon' \in PassState
      BY <1>4, ReconGotoTypes, LessToDo DEF ReconZone, PassSteps
    <2> QED BY <1>4, <2>1, <2>2 DEF ReconZone, TypeOK, vms
  <1>5. ASSUME NEW v \in VMs, ReconTap(v) PROVE TypeOK'
    <2>1. taps' \in [VMs -> {"none", "loose", "attached"}] /\ mishaps' \in 0 .. Mishaps
      BY <1>5, MishapCounted DEF ReconTap, TapFails, TypeOK
    <2>2. recon' \in PassState
      BY <1>5, ReconGotoTypes, LessToDo DEF ReconTap, PassSteps
    <2> QED BY <1>5, <2>1, <2>2 DEF ReconTap, TypeOK, vms
  <1> QED BY <1>1, <1>2, <1>3, <1>4, <1>5, <1>6 DEF Reconcile

LEMMA OutsideTypes == ASSUME TypeOK, Outside PROVE TypeOK'
  <1>1. CASE Signal
    BY <1>1 DEF Signal, TypeOK, vms, host
  <1>2. CASE Tamper
    BY <1>2, MishapCounted DEF Tamper, TypeOK, vms
  <1>3. ASSUME NEW v \in VMs, Crash(v) PROVE TypeOK'
    BY <1>3, MishapCounted DEF Crash, TypeOK, host
  <1>4. ASSUME NEW v \in VMs, DeleteTap(v) PROVE TypeOK'
    BY <1>4, MishapCounted DEF DeleteTap, TypeOK, vms
  <1>5. ASSUME NEW z \in Zones, DeleteBridge(z) PROVE TypeOK'
    BY <1>5, MishapCounted DEF DeleteBridge, TypeOK, vms
  <1> QED BY <1>1, <1>2, <1>3, <1>4, <1>5 DEF Outside

LEMMA NextTypes == TypeOK /\ [Next]_vars => TypeOK'
  <1> SUFFICES ASSUME TypeOK, [Next]_vars PROVE TypeOK'
    OBVIOUS
  <1>1. CASE Run
    BY <1>1, ApplyBaseTypes, ApplyFullTypes, StartTypes, VMTypes, StopTypes, CleanTypes
       DEF Run
  <1>2. CASE UNCHANGED vars
    BY <1>2 DEF vars, host, vms, TypeOK
  <1> QED BY <1>1, <1>2, ReconcileTypes, OutsideTypes, SuperviseTypes DEF Next

\* The variables keep their types.
THEOREM TypeCorrect == Spec => []TypeOK
  BY InitTypes, NextTypes, PTL DEF Spec

-----------------------------------------------------------------------------
(* Isolation: the inductive invariant *)

\* Nothing runs before the first policy is in place.
Unstarted == main.pc = "apply" => up = {} /\ \A v \in VMs : sup[v] = "none"

\* From then to the end of StopAll the table is there.
Guarded == {"zones", "vms", "ensure", "start", "publish", "serve", "stop",
            "clean_firewall"}
TableHeld == main.pc \in Guarded /\ ~tampered => Whole(table)

\* What runs is watched, or has escaped.
Watched == main.pc # "gone" => \A v \in up : sup[v] = "watch" \/ v \in escaped

\* StopAll leaves no VM that runs, nor a supervisor that will relaunch one
\* without its being known to have escaped.
Stopping == {"stop", "clean_firewall", "clean_taps", "clean_zones", "exit", "gone"}
Down(v) == sup[v] \in {"none", "late"} /\ (v \in up => v \in escaped)
Released ==
    main.pc \in Stopping /\ ~main.failed =>
        \A v \in VMs : Down(v) \/ (main.pc = "stop" /\ v \in main.todo)

IInv == TypeOK /\ Unstarted /\ TableHeld /\ Watched /\ Released

LEMMA InitInvariant == Init => IInv
  BY InitTypes DEF Init, IInv, Unstarted, TableHeld, Watched, Released, Guarded, Stopping

LEMMA InvariantIsolates == IInv => Isolated
  BY DEF IInv, Isolated, TypeOK, RunState, RunSteps, Unstarted, TableHeld, Released,
     Guarded, Stopping, Down

\* The steps of run that touch neither the table nor the VMs.
Housekeeping ==
    \/ (\E z \in Zones : EnsureZone(z)) \/ ZonesDone
    \/ (\E v \in VMs : EnsureTap(v)) \/ VMsDone
    \/ VMsStopped \/ KeepNetwork \/ (\E v \in VMs : RemoveTap(v)) \/ TapsDone
    \/ (\E z \in Zones : RemoveZone(z)) \/ ZonesRemoved

\* They go from one stage to the next.
GoesOn ==
    /\ UNCHANGED <<table, tampered, up, sup, escaped>>
    /\ main.pc \notin {"apply", "gone"} /\ main'.pc \notin {"apply", "gone"}
    /\ main'.pc \in Guarded => main.pc \in Guarded
    /\ main'.pc \in Stopping /\ ~main'.failed =>
          /\ main.pc \in Stopping /\ ~main.failed
          /\ main.pc = "stop" => main.todo = {}

LEMMA HousekeepingGoesOn == ASSUME TypeOK, Housekeeping PROVE GoesOn
  <1> USE DEF TypeOK, RunState, RunSteps, Guarded, Stopping, vms, host, GoesOn, Goto
  <1>1. ASSUME NEW z \in Zones, EnsureZone(z) PROVE GoesOn
    BY <1>1 DEF EnsureZone, Abort
  <1>2. CASE ZonesDone
    BY <1>2 DEF ZonesDone
  <1>3. ASSUME NEW v \in VMs, EnsureTap(v) PROVE GoesOn
    BY <1>3, ZenonT(40) DEF EnsureTap, CleanUp
  <1>4. CASE VMsDone
    BY <1>4 DEF VMsDone
  <1>5. CASE VMsStopped
    BY <1>5 DEF VMsStopped
  <1>6. CASE KeepNetwork
    BY <1>6 DEF KeepNetwork
  <1>7. ASSUME NEW v \in VMs, RemoveTap(v) PROVE GoesOn
    BY <1>7 DEF RemoveTap
  <1>8. CASE TapsDone
    BY <1>8 DEF TapsDone
  <1>9. ASSUME NEW z \in Zones, RemoveZone(z) PROVE GoesOn
    BY <1>9 DEF RemoveZone
  <1>10. CASE ZonesRemoved
    BY <1>10 DEF ZonesRemoved
  <1> QED BY <1>1, <1>2, <1>3, <1>4, <1>5, <1>6, <1>7, <1>8, <1>9, <1>10
          DEF Housekeeping

\* The invariant but for the types.
Safe == Unstarted /\ TableHeld /\ Watched /\ Released

LEMMA GoesOnSafe == ASSUME TypeOK, Safe, GoesOn PROVE Safe'
  BY DEF Safe, GoesOn, Unstarted, TableHeld, Watched, Released, Whole, Down

\* A step that leaves run and the VMs alone is safe if it keeps the table or
\* makes it whole, or a third party made it.
LEMMA TableStepSafe ==
    ASSUME Safe, UNCHANGED <<main, up, sup, escaped>>,
           UNCHANGED <<table, tampered>> \/ Whole(table)' \/ tampered'
    PROVE  Safe'
  BY DEF Safe, Unstarted, TableHeld, Watched, Released, Whole, Down

LEMMA ReconcileSafe == ASSUME Safe, Reconcile \/ ReconStops PROVE Safe'
  <1>1. CASE Restore
    <2>1. UNCHANGED <<table, tampered>> \/ Whole(table)'
      BY <1>1 DEF Restore, Apply, ApplyFails, Whole, Policy, Policies
    <2> QED BY <1>1, <2>1, TableStepSafe DEF Restore, vms
  <1>2. CASE ReconStops \/ (Reconcile /\ ~Restore)
    <2>1. UNCHANGED <<table, tampered, main, vms>>
      BY <1>2 DEF Reconcile, Tick, ReconStops, Verify, ReconZone, ReconList,
         ReconTap, PassDone, host
    <2> QED BY <2>1, TableStepSafe DEF vms
  <1> QED BY <1>1, <1>2

LEMMA OutsideSafe == ASSUME TypeOK, Safe, Outside PROVE Safe'
  <1>1. CASE Tamper
    BY <1>1, TableStepSafe DEF Tamper, vms
  <1>2. ASSUME NEW v \in VMs, Crash(v) PROVE Safe'
    BY <1>2 DEF Crash, Safe, Unstarted, TableHeld, Watched, Released, Whole, Down, host
  <1>3. CASE Outside /\ ~Tamper /\ ~(\E v \in VMs : Crash(v))
    <2>1. UNCHANGED <<table, tampered, main, vms>>
      BY <1>3 DEF Outside, Signal, DeleteTap, DeleteBridge, host
    <2> QED BY <2>1, TableStepSafe DEF vms
  <1> QED BY <1>1, <1>2, <1>3

LEMMA SuperviseSafe == ASSUME TypeOK, Safe, NEW v \in VMs, Supervise(v) PROVE Safe'
  <1>1. CASE SupFailed(v)
    BY <1>1 DEF SupFailed, TypeOK, Safe, Unstarted, TableHeld, Watched, Released,
       Whole, Down, host
  <1>2. CASE Relaunch(v)
    BY <1>2 DEF Relaunch, TypeOK, Safe, Unstarted, TableHeld, Watched, Released,
       Whole, Down, host
  <1>3. CASE Relaunched(v)
    BY <1>3 DEF Relaunched, TypeOK, Safe, Unstarted, TableHeld, Watched, Released,
       Whole, Down, host
  <1> QED BY <1>1, <1>2, <1>3 DEF Supervise

LEMMA RunSafe == ASSUME TypeOK, Safe, Run PROVE Safe'
  <1> USE DEF TypeOK, RunState, RunSteps, Guarded, Stopping
  <1>1. CASE ApplyBase
    <2>1. UNCHANGED vms /\ up = {}
      BY <1>1 DEF ApplyBase, Safe, Unstarted
    <2>2. CASE Apply("base") /\ Goto("zones", Declared)
      BY <1>1, <2>1, <2>2 DEF Apply, Goto, Safe, Unstarted, TableHeld, Watched,
         Released, Whole, Policies, Down, vms
    <2>3. CASE Abort
      BY <1>1, <2>1, <2>3 DEF Abort, Safe, Unstarted, TableHeld, Watched, Released,
         Down, vms
    <2> QED BY <1>1, <2>2, <2>3 DEF ApplyBase
  <1>2. CASE ApplyFull
    BY <1>2, ZenonT(40) DEF ApplyFull, Apply, ApplyFails, Goto, CleanUp, Safe, Unstarted,
       TableHeld, Watched, Released, Whole, Policies, Down, vms
  <1>3. ASSUME NEW v \in VMs, Ensure(v) PROVE Safe'
    BY <1>3, ZenonT(40) DEF Ensure, CleanUp, Safe, Unstarted, TableHeld,
       Watched, Released, Whole, Down, host
  <1>4. ASSUME NEW v \in VMs, Start(v) PROVE Safe'
    <2>1. /\ UNCHANGED <<table, tampered, escaped>>
          /\ main.pc = "start" /\ main'.pc \in {"vms", "clean_firewall"}
          /\ main'.pc = "clean_firewall" => main'.failed
      BY <1>4 DEF Start, CleanUp, host
    <2>2. Watched'
      BY <1>4 DEF Start, CleanUp, Safe, Watched
    <2> QED BY <2>1, <2>2 DEF Safe, Unstarted, TableHeld, Released, Whole
  <1>5. CASE Shutdown
    BY <1>5 DEF Shutdown, Goto, Safe, Unstarted, TableHeld,
       Watched, Released, Whole, Down, vms, host
  <1>6. ASSUME NEW v \in VMs, StopVM(v) PROVE Safe'
    BY <1>6 DEF StopVM, Goto, Safe, Unstarted, TableHeld,
       Watched, Released, Whole, Down, host
  <1>7. CASE Flush
    BY <1>7 DEF Flush, Goto, Safe, Unstarted, TableHeld,
       Watched, Released, Whole, Down, vms
  <1>8. CASE Exit
    BY <1>8 DEF Exit, Goto, Safe, Unstarted, TableHeld,
       Watched, Released, Whole, Down, host
  <1>9. CASE Housekeeping
    BY <1>9, HousekeepingGoesOn, GoesOnSafe
  <1> QED BY <1>1, <1>2, <1>3, <1>4, <1>5, <1>6, <1>7, <1>8, <1>9
          DEF Run, Housekeeping

LEMMA NextInvariant == IInv /\ [Next]_vars => IInv'
  <1> SUFFICES ASSUME IInv, [Next]_vars PROVE IInv'
    OBVIOUS
  <1>1. TypeOK /\ Safe
    BY DEF IInv, Safe
  <1>2. CASE UNCHANGED vars
    BY <1>2 DEF vars, host, vms, IInv, TypeOK, Unstarted, TableHeld, Watched,
       Released, Whole, Down
  <1>3. CASE Next
    <2>1. TypeOK'
      BY <1>1, NextTypes
    <2>2. Safe'
      BY <1>1, <1>3, RunSafe, ReconcileSafe, OutsideSafe, SuperviseSafe DEF Next
    <2> QED BY <2>1, <2>2 DEF IInv, Safe
  <1> QED BY <1>2, <1>3

\* "Le pare-feu est posé avant la première VM": from the first policy to the
\* end of StopAll no VM runs in the open, whatever the supervisors, the
\* reconciler and third parties do, but for what the code leaves open.
THEOREM AlwaysIsolated == Spec => []Isolated
  BY InitInvariant, NextInvariant, InvariantIsolates, PTL DEF Spec

-----------------------------------------------------------------------------
(* What is left behind: a second inductive invariant *)

\* Nothing failed, nothing was changed from outside, nothing is repaired.
Ordinary == ~main.failed /\ mishaps = 0 /\ ~flags.reconcile

\* What the clean-up removes: the taps of the VMs requested, then each bridge
\* declared that has no member left.
NoTap == \A v \in Requested : taps[v] = "none"
Carrying(z) == Members(z) # {}

\* The list of taps to remove is complete when the loop over the VMs is, and
\* each stage of the clean-up leaves nothing of what it was to remove.
Leaving ==
    /\ recon.pc = "off"
    /\ main.pc \in {"vms", "ensure", "start"} =>
          \A v \in Requested : v \in main.todo \/ v \in main.created
    /\ main.pc \in {"ensure", "start"} => main.vm \subseteq main.created
    /\ main.pc \in {"publish", "serve", "stop", "clean_firewall"} =>
          Requested \subseteq main.created
    /\ main.pc \in {"clean_taps", "clean_zones"} => table = "none"
    /\ main.pc = "clean_taps" =>
          \A v \in Requested : v \in main.todo \/ taps[v] = "none"
    /\ main.pc = "clean_zones" =>
          NoTap /\ \A z \in Declared \cap bridges : z \in main.todo \/ Carrying(z)
    /\ main.pc \in {"exit", "gone"} =>
          \/ flags.keep
          \/ table = "none" /\ NoTap /\ \A z \in Declared \cap bridges : Carrying(z)

CleanInv == TypeOK /\ (Ordinary => Leaving)

LEMMA InitClean == Init => CleanInv
  BY InitTypes DEF Init, CleanInv, Leaving

LEMMA CleanLeavesNothing == CleanInv => NothingLeft
  BY DEF CleanInv, NothingLeft, Leaving, Ordinary, NoTap, Carrying

LEMMA MishapNotOrdinary ==
    ASSUME TypeOK, NEW kind, Mishap(kind) PROVE ~Ordinary'
  BY HostAssumption DEF TypeOK, Mishap, Ordinary

\* A step that leaves alone run, the reconciler, the options and the host.
LEMMA CleanFrame ==
    ASSUME Ordinary => Leaving, UNCHANGED <<main, recon, flags, host, mishaps>>
    PROVE  Ordinary' => Leaving'
  BY DEF Ordinary, Leaving, NoTap, Carrying, Members, host

LEMMA SuperviseClean ==
    ASSUME TypeOK, Ordinary => Leaving, NEW v \in VMs, Supervise(v)
    PROVE  Ordinary' => Leaving'
  <1>1. CASE mishaps' = mishaps
    BY <1>1, CleanFrame DEF Supervise, SupFailed, Relaunch, Relaunched
  <1>2. CASE ~Ordinary'
    BY <1>2
  <1> QED BY <1>1, <1>2, MishapNotOrdinary DEF Supervise, SupFailed, Relaunch, Relaunched

LEMMA ReconcileClean ==
    ASSUME TypeOK, Ordinary => Leaving, Reconcile \/ ReconStops
    PROVE  Ordinary' => Leaving'
  <1>1. recon.pc # "off" /\ UNCHANGED <<flags, main>>
    BY DEF Reconcile, ReconStops, Tick, Verify, Restore, ReconZone, ReconList,
       ReconTap, PassDone
  <1>2. mishaps' = mishaps \/ ~Ordinary'
    BY MishapNotOrdinary DEF Reconcile, ReconStops, Tick, Verify, Restore, Apply,
       ApplyFails, ReconZone, ZoneFails, ReconList, ReconTap, TapFails, PassDone
  <1> QED BY <1>1, <1>2 DEF Ordinary, Leaving

LEMMA OutsideClean ==
    ASSUME TypeOK, Ordinary => Leaving, Outside PROVE Ordinary' => Leaving'
  <1>1. CASE Signal
    BY <1>1, CleanFrame DEF Signal
  <1>2. CASE ~Signal
    BY <1>2, MishapNotOrdinary DEF Outside, Tamper, Crash, DeleteTap, DeleteBridge
  <1> QED BY <1>1, <1>2

LEMMA RunClean ==
    ASSUME TypeOK, Ordinary => Leaving, Run PROVE Ordinary' => Leaving'
  <1> SUFFICES ASSUME Ordinary' PROVE Leaving'
    OBVIOUS
  <1> USE DEF TypeOK, RunState, RunSteps, Ordinary, Leaving, NoTap, Carrying, Members, Goto
  <1>1. CASE ApplyBase
    BY <1>1, MishapNotOrdinary, ZenonT(40) DEF ApplyBase, Apply, ApplyFails
  <1>2. ASSUME NEW z \in Zones, EnsureZone(z) PROVE Leaving'
    BY <1>2, MishapNotOrdinary DEF EnsureZone, ZoneFails
  <1>3. CASE ZonesDone
    BY <1>3 DEF ZonesDone
  <1>4. ASSUME NEW v \in VMs, EnsureTap(v) PROVE Leaving'
    <2>1. ~CleanUp
      BY DEF CleanUp
    <2>2. /\ main' = [main EXCEPT !.pc = "ensure", !.vm = {v},
                                  !.created = RememberTap(v)]
          /\ main.pc = "vms" /\ UNCHANGED <<flags, recon, mishaps>>
      BY <1>4, <2>1, MishapNotOrdinary DEF EnsureTap, TapFails
    <2> QED BY <2>2 DEF RememberTap
  <1>5. ASSUME NEW v \in VMs, Ensure(v) PROVE Leaving'
    BY <1>5, MishapNotOrdinary DEF Ensure
  <1>6. ASSUME NEW v \in VMs, Start(v) PROVE Leaving'
    <2>1. ~CleanUp
      BY DEF CleanUp
    <2>2. /\ main' = [main EXCEPT !.pc = "vms", !.todo = @ \ {v}, !.vm = {}]
          /\ main.pc = "start" /\ v \in main.vm /\ UNCHANGED <<flags, recon, mishaps>>
      BY <1>6, <2>1, MishapNotOrdinary DEF Start
    <2> QED BY <2>2
  <1>7. CASE VMsDone
    BY <1>7 DEF VMsDone, PassState
  <1>8. CASE ApplyFull
    BY <1>8, MishapNotOrdinary, ZenonT(40) DEF ApplyFull, Apply, ApplyFails, PassState
  <1>9. CASE Shutdown
    BY <1>9 DEF Shutdown
  <1>10. ASSUME NEW v \in VMs, StopVM(v) PROVE Leaving'
    BY <1>10, MishapNotOrdinary DEF StopVM, host
  <1>11. CASE VMsStopped
    BY <1>11 DEF VMsStopped
  <1>12. CASE KeepNetwork
    BY <1>12 DEF KeepNetwork
  <1>13. CASE Flush
    BY <1>13, MishapNotOrdinary DEF Flush
  <1>14. ASSUME NEW v \in VMs, RemoveTap(v) PROVE Leaving'
    <2>1. /\ taps' = [taps EXCEPT ![v] = "none"]
          /\ main' = [main EXCEPT !.pc = "clean_taps", !.todo = main.todo \ {v}]
          /\ main.pc = "clean_taps" /\ UNCHANGED <<flags, recon, table, mishaps>>
      BY <1>14, MishapNotOrdinary DEF RemoveTap
    <2>2. \A w \in Requested : w \in main'.todo \/ taps'[w] = "none"
      BY <2>1, HostAssumption
    <2> QED BY <2>1, <2>2
  <1>15. CASE TapsDone
    BY <1>15 DEF TapsDone, host
  <1>16. ASSUME NEW z \in Zones, RemoveZone(z) PROVE Leaving'
    BY <1>16, MishapNotOrdinary DEF RemoveZone
  <1>17. CASE ZonesRemoved
    BY <1>17 DEF ZonesRemoved, host
  <1>18. CASE Exit
    BY <1>18 DEF Exit, PassState, host
  <1> QED BY <1>1, <1>2, <1>3, <1>4, <1>5, <1>6, <1>7, <1>8, <1>9, <1>10, <1>11,
             <1>12, <1>13, <1>14, <1>15, <1>16, <1>17, <1>18 DEF Run

LEMMA NextClean == CleanInv /\ [Next]_vars => CleanInv'
  <1> SUFFICES ASSUME CleanInv, [Next]_vars PROVE CleanInv'
    OBVIOUS
  <1>1. TypeOK /\ TypeOK' /\ (Ordinary => Leaving)
    BY NextTypes DEF CleanInv
  <1>2. CASE UNCHANGED vars
    BY <1>1, <1>2, CleanFrame DEF vars, CleanInv
  <1>3. CASE Next
    BY <1>1, <1>3, RunClean, ReconcileClean, OutsideClean, SuperviseClean
       DEF Next, CleanInv
  <1> QED BY <1>2, <1>3

\* Without the reconciler an ordinary shutdown removes the table, the taps of
\* the VMs requested, whoever made them, and the bridges of the zones declared,
\* but for one that a tap of another VM, left by an earlier daemon, holds.
THEOREM NothingLeftBehind == Spec => []NothingLeft
  BY InitClean, NextClean, CleanLeavesNothing, PTL DEF Spec

=============================================================================
