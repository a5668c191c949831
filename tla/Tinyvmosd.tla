----------------------------- MODULE Tinyvmosd ------------------------------
(***************************************************************************)
(* The daemon over the host: run (controlplane/cmd/tinyvmosd/main.go), the *)
(* reconciler (reconcile/reconcile.go), the firewall as a whole            *)
(* (network/firewall.go, verify.go) and the interfaces of the host         *)
(* (network/manager.go).                                                   *)
(*                                                                         *)
(* Three kinds of goroutines work on the host: run, the reconciler and the *)
(* supervisors.  Third parties change it too.  The manager of VMs is seen  *)
(* from here: VMManager has its steps.  A process is stopped at once, as   *)
(* is a launch by run; a relaunch has a beginning and an end.              *)
(*                                                                         *)
(* The contents of the ruleset are abstracted to the policy it comes from. *)
(* The daemon may start over what an earlier one left, on the host and in  *)
(* the state file, except processes.  That daemon may have had other VMs   *)
(* and other zones than this one.                                          *)
(***************************************************************************)
EXTENDS Integers, VMStatus

CONSTANTS
    VMs,        \* the VMs of this daemon and of earlier ones
    Requested,  \* those that this daemon is asked for
    Zones,      \* the zones of this daemon and of earlier ones
    Declared,   \* those that this daemon declares
    ZoneOf,     \* the zone of each VM
    Earlier,    \* for each VM, what may be its status in the file of an
                \* earlier daemon, or "absent" (a bound for model checking)
    Restarted,  \* the VMs with Restart
    Published,  \* some service is published: the firewall is applied twice
    Reconciles, \* the values of "the reconciler runs" (-reconcile-interval)
    Keeps,      \* the values of -keep-network
    Mishaps,    \* failures and outside changes in a behaviour (a bound)
    Faults      \* what may happen, among FaultKinds

\* nft: installing or removing the table fails; read: listing it after it was
\* applied does; link: an operation on an interface does; vm: allocating,
\* preparing or launching a VM does; crash: a VM dies; tamper: a third party
\* changes the table; unplug: it deletes an interface.
FaultKinds == {"nft", "read", "link", "vm", "crash", "tamper", "unplug"}

ASSUME HostAssumption ==
    /\ ZoneOf \in [VMs -> Zones]
    /\ Requested \subseteq VMs /\ Declared \subseteq Zones
    /\ \A v \in Requested : ZoneOf[v] \in Declared
    /\ Restarted \subseteq Requested
    /\ Earlier \in [VMs -> SUBSET (Statuses \cup {"absent"})]
    /\ Published \in BOOLEAN
    /\ Reconciles \subseteq BOOLEAN /\ Keeps \subseteq BOOLEAN
    /\ Mishaps \in Nat
    /\ Faults \subseteq FaultKinds

\* The two policies the table is made from, before and after the addresses of
\* the published VMs are known.
Policies == {"base", "full"}
Policy == IF Published THEN "full" ELSE "base"

VARIABLES
    flags,    \* the options -reconcile-interval and -keep-network
    table,    \* the table in nftables: the policy it comes from, or "altered",
              \* or "swapped": altered, with the witness and number of rules
              \* of the last one applied
    applied,  \* what Firewall.applied remembers, or "unknown"
    bridges,  \* the zones whose bridge exists
    taps,     \* the tap of each VM, attached to its bridge or "loose"
    status,   \* the record of each VM
    up,       \* the VMs that have a process
    sup,      \* their supervisors
    main,     \* where run is, and what it has still to do
    recon,    \* the same for the reconciler
    signalled,  \* the daemon's context has been cancelled
    tampered, \* a third party changed the table since it was last applied
    escaped,  \* the VMs launched by a supervisor after it was cancelled, and
              \* those that outlived Stop
    mishaps   \* failures and outside changes so far

host == <<table, applied, bridges, taps>>
vms == <<status, up, sup, escaped>>
vars == <<flags, host, vms, main, recon, signalled, tampered, mishaps>>

Whole(t) == t \in Policies
Mishap(kind) == kind \in Faults /\ mishaps < Mishaps /\ mishaps' = mishaps + 1

Init ==
    /\ \E r \in Reconciles, k \in Keeps : flags = [reconcile |-> r, keep |-> k]
    /\ table \in {"none", "altered"}
    /\ applied = "unknown"
    /\ bridges \in SUBSET Zones
    /\ taps \in [VMs -> {"none", "loose", "attached"}]
    /\ \A v \in VMs : taps[v] = "attached" => ZoneOf[v] \in bridges
    /\ status \in [VMs -> Statuses \cup {"absent"}]
    /\ \A v \in VMs : status[v] \in Earlier[v]
    /\ up = {}
    /\ sup = [v \in VMs |-> "none"]
    /\ main = [pc |-> "apply", todo |-> {}, vm |-> {}, created |-> {},
               failed |-> FALSE]
    /\ recon = [pc |-> "off", todo |-> {}, seen |-> {}]
    /\ signalled = FALSE
    /\ tampered = FALSE
    /\ escaped = {}
    /\ mishaps = 0

-----------------------------------------------------------------------------
(* The firewall and the interfaces *)

RememberedBefore(p) == {table}  \* faulty variant
\* What rememberApplied retains: nothing when it cannot read the table back.
Remembered(p) == {p} \cup (IF "read" \in Faults THEN {"unknown"} ELSE {})

\* nft checks the ruleset before it touches the table, and installs it as one.
Apply(p) ==
    /\ table' = p
    /\ applied' \in Remembered(p)
    /\ tampered' = FALSE
    /\ UNCHANGED mishaps

ApplyFails == Mishap("nft") /\ UNCHANGED <<table, applied, tampered>>

\* Verify: the table is gone, or its witness or its number of rules is not what
\* was remembered.
DriftWhenGone == applied # "unknown" /\ table = "none"  \* faulty variant
Drift == applied # "unknown" /\ table \notin {applied, "swapped"}

WithBridge(z) == bridges' = bridges \cup {z} /\ UNCHANGED taps

\* What EnsureZone and EnsureTap may leave when they fail: a bridge without its
\* address, a tap without its bridge or, attached to it, one that is not up.
ZoneFails(z) ==
    /\ Mishap("link")
    /\ bridges' \in {bridges, bridges \cup {z}}
    /\ UNCHANGED taps
TapFails(v) ==
    /\ Mishap("link")
    /\ \/ UNCHANGED taps
       \/ /\ ZoneOf[v] \in bridges /\ taps[v] # "attached"
          /\ \E t \in {"loose", "attached"} : taps' = [taps EXCEPT ![v] = t]

\* A bridge that has members is not removed.
Members(z) == {v \in VMs : ZoneOf[v] = z /\ taps[v] = "attached"}

-----------------------------------------------------------------------------
(* run: the start *)

Goto(pc, todo) == main' = [main EXCEPT !.pc = pc, !.todo = todo]

\* A return with an error; before cleanupNetwork exists, and after.
Abort == main' = [main EXCEPT !.pc = "exit", !.failed = TRUE]
CleanUp == main' = [main EXCEPT !.pc = "clean_firewall", !.failed = TRUE]

ApplyBase ==
    /\ main.pc = "apply"
    /\ \/ Apply("base") /\ Goto("zones", Declared)
       \/ ApplyFails /\ Abort
    /\ UNCHANGED <<flags, bridges, taps, vms, recon, signalled>>

EnsureZone(z) ==
    /\ main.pc = "zones" /\ z \in main.todo
    /\ \/ /\ WithBridge(z)
          /\ Goto("zones", main.todo \ {z})
          /\ UNCHANGED mishaps
       \/ ZoneFails(z) /\ Abort
    /\ UNCHANGED <<flags, table, applied, vms, recon, signalled, tampered>>

ZonesDone ==
    /\ main.pc = "zones" /\ main.todo = {}
    /\ Goto("vms", Requested)
    /\ UNCHANGED <<flags, host, vms, recon, signalled, tampered, mishaps>>

\* The tap is known to cleanupNetwork when EnsureTap has returned.
RememberNoTap(v) == main.created  \* faulty variant
RememberTap(v) == main.created \cup {v}

\* Allocate, IdentityFor, EnsureTap.
EnsureTap(v) ==
    /\ main.pc = "vms" /\ v \in main.todo
    /\ \/ /\ ZoneOf[v] \in bridges
          /\ taps' = [taps EXCEPT ![v] = "attached"]
          /\ main' = [main EXCEPT !.pc = "ensure", !.vm = {v},
                                  !.created = RememberTap(v)]
          /\ UNCHANGED mishaps
       \/ Mishap("vm") /\ UNCHANGED taps /\ CleanUp
       \/ TapFails(v) /\ CleanUp
       \/ ZoneOf[v] \notin bridges /\ UNCHANGED <<taps, mishaps>> /\ CleanUp
    /\ UNCHANGED <<flags, table, applied, bridges, vms, recon, signalled, tampered>>

\* A record left by an earlier daemon is taken over, its status reset.
Ensure(v) ==
    /\ main.pc = "ensure" /\ v \in main.vm
    /\ \/ /\ status' = [status EXCEPT ![v] =
                CASE @ = "absent" -> "created"
                  [] @ \in {"starting", "running", "stopping"} -> "stopped"
                  [] OTHER -> @]
          /\ main' = [main EXCEPT !.pc = "start"]
          /\ UNCHANGED mishaps
       \/ Mishap("vm") /\ UNCHANGED status /\ CleanUp
    /\ UNCHANGED <<flags, host, up, sup, escaped, recon, signalled, tampered>>

\* A process opens the tap of its VM.  The context of the daemon ends a launch.
Start(v) ==
    /\ main.pc = "start" /\ v \in main.vm
    /\ \/ /\ taps[v] # "none"
          /\ up' = up \cup {v}
          /\ status' = [status EXCEPT ![v] = "running"]
          /\ sup' = [sup EXCEPT ![v] = "watch"]
          /\ main' = [main EXCEPT !.pc = "vms", !.todo = @ \ {v}, !.vm = {}]
          /\ UNCHANGED mishaps
       \/ /\ \/ Mishap("vm")
             \/ (taps[v] = "none" \/ signalled) /\ UNCHANGED mishaps
          /\ status' = [status EXCEPT ![v] = "failed"]
          /\ CleanUp
          /\ UNCHANGED <<up, sup>>
    /\ UNCHANGED <<flags, host, escaped, recon, signalled, tampered>>

VMsDone ==
    /\ main.pc = "vms" /\ main.todo = {}
    /\ Goto(IF Published THEN "publish" ELSE "serve", {})
    /\ recon' = IF Published THEN recon
                ELSE [recon EXCEPT !.pc = IF flags.reconcile THEN "idle" ELSE "off"]
    /\ UNCHANGED <<flags, host, vms, signalled, tampered, mishaps>>

\* The second application, then the reconciler is started.
ApplyFull ==
    /\ main.pc = "publish"
    /\ \/ /\ Apply("full")
          /\ Goto("serve", {})
          /\ recon' = [recon EXCEPT !.pc = IF flags.reconcile THEN "idle" ELSE "off"]
       \/ ApplyFails /\ CleanUp /\ UNCHANGED recon
    /\ UNCHANGED <<flags, bridges, taps, vms, signalled>>

-----------------------------------------------------------------------------
(* run: the end *)

ShutdownCleansFirst ==  \* faulty variant
    /\ main.pc = "serve" /\ signalled
    /\ Goto("clean_firewall", {})
    /\ UNCHANGED <<flags, host, vms, recon, signalled, tampered, mishaps>>

\* StopAll: what runs, starts, stops or failed, as far as the records know, and
\* what a supervisor may relaunch.
Shutdown ==
    /\ main.pc = "serve" /\ signalled
    /\ Goto("stop", {v \in VMs :
          \/ status[v] \in {"running", "starting", "stopping", "failed"}
          \/ sup[v] # "none"})
    /\ UNCHANGED <<flags, host, vms, recon, signalled, tampered, mishaps>>

\* The supervisor is cancelled, not waited for: a relaunch under way goes on.
\* The record says stopped even when the process outlives the call.  The
\* hypervisor does not know a VM that was not requested: stopping it fails.
StopVM(v) ==
    /\ main.pc = "stop" /\ v \in main.todo
    /\ Goto("stop", main.todo \ {v})
    /\ \/ up' = up \ {v} /\ UNCHANGED <<escaped, mishaps>>
       \/ v \in up /\ Mishap("vm") /\ escaped' = escaped \cup {v} /\ UNCHANGED up
    /\ status' = [status EXCEPT ![v] = IF v \in Requested THEN "stopped" ELSE "failed"]
    /\ sup' = [sup EXCEPT ![v] = IF @ = "launch" THEN "late" ELSE "none"]
    /\ UNCHANGED <<flags, host, recon, signalled, tampered>>

VMsStopped ==
    /\ main.pc = "stop" /\ main.todo = {}
    /\ Goto("clean_firewall", {})
    /\ UNCHANGED <<flags, host, vms, recon, signalled, tampered, mishaps>>

\* cleanupNetwork: failures are logged and the rest goes on.
KeepNetwork ==
    /\ main.pc = "clean_firewall" /\ flags.keep
    /\ Goto("exit", {})
    /\ UNCHANGED <<flags, host, vms, recon, signalled, tampered, mishaps>>

Flush ==
    /\ main.pc = "clean_firewall" /\ ~flags.keep
    /\ Goto("clean_taps", main.created)
    /\ \/ /\ table' = "none" /\ applied' = "unknown" /\ tampered' = FALSE
          /\ UNCHANGED mishaps
       \/ Mishap("nft") /\ UNCHANGED <<table, applied, tampered>>
    /\ UNCHANGED <<flags, bridges, taps, vms, recon, signalled>>

RemoveTap(v) ==
    /\ main.pc = "clean_taps" /\ v \in main.todo
    /\ Goto("clean_taps", main.todo \ {v})
    /\ \/ taps' = [taps EXCEPT ![v] = "none"] /\ UNCHANGED mishaps
       \/ Mishap("link") /\ UNCHANGED taps
    /\ UNCHANGED <<flags, table, applied, bridges, vms, recon, signalled, tampered>>

TapsDone ==
    /\ main.pc = "clean_taps" /\ main.todo = {}
    /\ Goto("clean_zones", Declared)
    /\ UNCHANGED <<flags, host, vms, recon, signalled, tampered, mishaps>>

RemoveZone(z) ==
    /\ main.pc = "clean_zones" /\ z \in main.todo
    /\ Goto("clean_zones", main.todo \ {z})
    /\ \/ /\ bridges' = IF Members(z) = {} THEN bridges \ {z} ELSE bridges
          /\ UNCHANGED mishaps
       \/ Mishap("link") /\ UNCHANGED bridges
    /\ UNCHANGED <<flags, table, applied, taps, vms, recon, signalled, tampered>>

ZonesRemoved ==
    /\ main.pc = "clean_zones" /\ main.todo = {}
    /\ Goto("exit", {})
    /\ UNCHANGED <<flags, host, vms, recon, signalled, tampered, mishaps>>

\* The process ends, and its goroutines with it wherever they were.
Exit ==
    /\ main.pc = "exit"
    /\ Goto("gone", {})
    /\ recon' = [recon EXCEPT !.pc = "off"]
    /\ sup' = [v \in VMs |-> "none"]
    /\ UNCHANGED <<flags, host, status, up, escaped, signalled, tampered, mishaps>>

-----------------------------------------------------------------------------
(* The supervisors, as the host sees them *)

SupFailed(v) ==
    /\ sup[v] = "watch" /\ v \notin up
    /\ status' = [status EXCEPT ![v] = "failed"]
    /\ sup' = [sup EXCEPT ![v] = IF v \in Restarted THEN "backoff" ELSE "none"]
    /\ UNCHANGED <<flags, host, up, escaped, main, recon, signalled, tampered, mishaps>>

Relaunch(v) ==
    /\ sup[v] = "backoff"
    /\ status' = [status EXCEPT ![v] = "starting"]
    /\ sup' = [sup EXCEPT ![v] = "launch"]
    /\ UNCHANGED <<flags, host, up, escaped, main, recon, signalled, tampered, mishaps>>

\* A launch whose context is cancelled may fail; so may any.
Relaunched(v) ==
    /\ sup[v] \in {"launch", "late"}
    /\ \/ /\ taps[v] # "none"
          /\ up' = up \cup {v}
          /\ status' = [status EXCEPT ![v] = "running"]
          /\ sup' = [sup EXCEPT ![v] = IF @ = "launch" THEN "watch" ELSE "none"]
          /\ escaped' = IF sup[v] = "late" THEN escaped \cup {v} ELSE escaped
          /\ UNCHANGED mishaps
       \/ /\ \/ Mishap("vm")
             \/ (taps[v] = "none" \/ sup[v] = "late") /\ UNCHANGED mishaps
          /\ status' = [status EXCEPT ![v] = "failed"]
          /\ sup' = [sup EXCEPT ![v] = IF @ = "launch" THEN "backoff" ELSE "none"]
          /\ UNCHANGED <<up, escaped>>
    /\ UNCHANGED <<flags, host, main, recon, signalled, tampered>>

-----------------------------------------------------------------------------
(* The reconciler *)

ReconGoto(pc, todo) == recon' = [recon EXCEPT !.pc = pc, !.todo = todo]

\* select takes either case when both are ready: a pass may begin after the
\* context was cancelled.
Tick ==
    /\ recon.pc = "idle"
    /\ ReconGoto("verify", {})
    /\ UNCHANGED <<flags, host, vms, main, signalled, tampered, mishaps>>

ReconStops ==
    /\ recon.pc = "idle" /\ signalled
    /\ ReconGoto("off", {})
    /\ UNCHANGED <<flags, host, vms, main, signalled, tampered, mishaps>>

Verify ==
    /\ recon.pc = "verify"
    /\ \/ /\ IF Drift THEN ReconGoto("apply", {}) ELSE ReconGoto("zones", Declared)
          /\ UNCHANGED mishaps
       \/ Mishap("nft") /\ ReconGoto("idle", {})
    /\ UNCHANGED <<flags, host, vms, main, signalled, tampered>>

\* A pass ends at the first error of the firewall.
Restore ==
    /\ recon.pc = "apply"
    /\ \/ Apply(Policy) /\ ReconGoto("zones", Declared)
       \/ ApplyFails /\ ReconGoto("idle", {})
    /\ UNCHANGED <<flags, bridges, taps, vms, main, signalled>>

RepairNoZone(z) == UNCHANGED <<bridges, taps>>  \* faulty variant
RepairZone(z) == WithBridge(z)

\* A zone that cannot be repaired is reported, and the pass goes on; it ends
\* when the interfaces cannot be read.
ReconZone(z) ==
    /\ recon.pc = "zones" /\ z \in recon.todo
    /\ \/ RepairZone(z) /\ ReconGoto("zones", recon.todo \ {z}) /\ UNCHANGED mishaps
       \/ ZoneFails(z) /\ ReconGoto("zones", recon.todo \ {z})
       \/ Mishap("link") /\ UNCHANGED <<bridges, taps>> /\ ReconGoto("idle", {})
    /\ UNCHANGED <<flags, table, applied, vms, main, signalled, tampered>>

\* The list is a copy of every record, those of earlier daemons included: the
\* statuses are the ones they had then.  A VM whose zone is not declared is
\* passed over.
ReconList ==
    /\ recon.pc = "zones" /\ recon.todo = {}
    /\ recon' = [pc |-> "taps",
                 todo |-> {v \in VMs : status[v] # "absent" /\ ZoneOf[v] \in Declared},
                 seen |-> {v \in VMs : status[v] = "running"}]
    /\ UNCHANGED <<flags, host, vms, main, signalled, tampered, mishaps>>

RepairStoppedTap(v) == taps[v] = "none" /\ status[v] = "stopped"  \* faulty variant
MayRepairTap(v) == taps[v] = "none" /\ v \notin recon.seen

\* A tap that exists is left alone; one that is missing under a running VM is
\* reported only.
ReconTap(v) ==
    /\ recon.pc = "taps" /\ v \in recon.todo
    /\ ReconGoto("taps", recon.todo \ {v})
    /\ \/ /\ MayRepairTap(v) /\ ZoneOf[v] \in bridges
          /\ taps' = [taps EXCEPT ![v] = "attached"]
          /\ UNCHANGED mishaps
       \/ /\ ~MayRepairTap(v) \/ ZoneOf[v] \notin bridges
          /\ UNCHANGED <<taps, mishaps>>
       \/ MayRepairTap(v) /\ TapFails(v)
       \/ Mishap("link") /\ UNCHANGED taps
    /\ UNCHANGED <<flags, table, applied, bridges, vms, main, signalled, tampered>>

PassDone ==
    /\ recon.pc = "taps" /\ recon.todo = {}
    /\ recon' = [pc |-> "idle", todo |-> {}, seen |-> {}]
    /\ UNCHANGED <<flags, host, vms, main, signalled, tampered, mishaps>>

-----------------------------------------------------------------------------
(* The outside *)

Signal ==
    /\ ~signalled /\ main.pc \notin {"exit", "gone"}
    /\ signalled' = TRUE
    /\ UNCHANGED <<flags, host, vms, main, recon, tampered, mishaps>>

Crash(v) ==
    /\ v \in up /\ main.pc # "gone"
    /\ Mishap("crash")
    /\ up' = up \ {v}
    /\ UNCHANGED <<flags, host, status, sup, escaped, main, recon, signalled, tampered>>

Tamper ==
    /\ Whole(table)
    /\ Mishap("tamper")
    /\ table' \in {"none", "altered", "swapped"}
    /\ tampered' = TRUE
    /\ UNCHANGED <<flags, applied, bridges, taps, vms, main, recon, signalled>>

\* Deleting a bridge leaves its taps without one.
DeleteBridge(z) ==
    /\ z \in bridges
    /\ Mishap("unplug")
    /\ bridges' = bridges \ {z}
    /\ taps' = [v \in VMs |-> IF v \in Members(z) THEN "loose" ELSE taps[v]]
    /\ UNCHANGED <<flags, table, applied, vms, main, recon, signalled, tampered>>

DeleteTap(v) ==
    /\ taps[v] # "none"
    /\ Mishap("unplug")
    /\ taps' = [taps EXCEPT ![v] = "none"]
    /\ UNCHANGED <<flags, table, applied, bridges, vms, main, recon, signalled, tampered>>

-----------------------------------------------------------------------------

Run ==
    \/ ApplyBase \/ (\E z \in Zones : EnsureZone(z)) \/ ZonesDone
    \/ (\E v \in VMs : EnsureTap(v) \/ Ensure(v) \/ Start(v)) \/ VMsDone
    \/ ApplyFull
    \/ Shutdown \/ (\E v \in VMs : StopVM(v)) \/ VMsStopped
    \/ KeepNetwork \/ Flush \/ (\E v \in VMs : RemoveTap(v)) \/ TapsDone
    \/ (\E z \in Zones : RemoveZone(z)) \/ ZonesRemoved \/ Exit

Supervise(v) == SupFailed(v) \/ Relaunch(v) \/ Relaunched(v)

Reconcile ==
    \/ Tick \/ Verify \/ Restore
    \/ (\E z \in Zones : ReconZone(z)) \/ ReconList
    \/ (\E v \in VMs : ReconTap(v)) \/ PassDone

Outside ==
    \/ Signal \/ Tamper
    \/ \E v \in VMs : Crash(v) \/ DeleteTap(v)
    \/ \E z \in Zones : DeleteBridge(z)

Next ==
    \/ Run \/ Reconcile \/ ReconStops \/ Outside
    \/ \E v \in VMs : Supervise(v)

Spec == Init /\ [][Next]_vars

\* The goroutines go on and the ticker ticks; nobody has to send a signal.
FairSpec ==
    /\ Spec
    /\ WF_vars(Run) /\ WF_vars(Reconcile)
    /\ \A v \in VMs : WF_vars(Supervise(v))

-----------------------------------------------------------------------------
(* Properties *)

RunSteps ==
    {"apply", "zones", "vms", "ensure", "start", "publish", "serve", "stop",
     "clean_firewall", "clean_taps", "clean_zones", "exit", "gone"}
PassSteps == {"off", "idle", "verify", "apply", "zones", "taps"}
RunState ==
    [pc : RunSteps,
     todo : SUBSET (VMs \cup Zones), vm : SUBSET VMs, created : SUBSET VMs,
     failed : BOOLEAN]
PassState ==
    [pc : PassSteps,
     todo : SUBSET (VMs \cup Zones), seen : SUBSET VMs]

\* The variables hold the values they are declared for.
TypeOK ==
    /\ flags \in [reconcile : BOOLEAN, keep : BOOLEAN]
    /\ table \in Policies \cup {"none", "altered", "swapped"}
    /\ applied \in Policies \cup {"unknown"}
    /\ bridges \subseteq Zones
    /\ taps \in [VMs -> {"none", "loose", "attached"}]
    /\ status \in [VMs -> Statuses \cup {"absent"}]
    /\ up \subseteq VMs
    /\ sup \in [VMs -> {"none", "watch", "backoff", "launch", "late"}]
    /\ main \in RunState
    /\ recon \in PassState
    /\ signalled \in BOOLEAN /\ tampered \in BOOLEAN
    /\ escaped \subseteq VMs
    /\ mishaps \in 0 .. Mishaps

\* "Le pare-feu est posé avant la première VM. Dans l'autre ordre, une VM
\* aurait un réseau ouvert pendant quelques instants, ce qui suffirait à
\* invalider la promesse d'isolation": a VM that runs is behind the table,
\* unless a third party changed it.
IsolatedWhileRunning == up # {} /\ ~tampered => Whole(table)

\* The same, but for what the code is known to leave open: the VMs that run
\* when the start of a later one fails, and those a cancelled supervisor
\* launched.  From the first application to the end of StopAll, the
\* reconciler's repairs included, no VM runs in the open.
Isolated == up \ escaped # {} /\ ~tampered /\ ~main.failed => Whole(table)

\* Without the reconciler an ordinary shutdown removes the table, the taps of the
\* VMs requested, those an earlier daemon left included, and the bridges of the
\* zones declared, but for one that still carries the tap of another VM.
NothingLeft ==
    main.pc = "gone" /\ ~main.failed /\ mishaps = 0
        /\ ~flags.keep /\ ~flags.reconcile
        => /\ table = "none"
           /\ \A v \in Requested : taps[v] = "none"
           /\ \A z \in Declared \cap bridges : Members(z) # {}

\* "Sans elle, une isolation détruite par un tiers ne serait jamais rétablie":
\* what Verify can tell is repaired while the daemon serves.  A change that
\* keeps the witness and the number of rules is not.
Serving == main.pc = "serve" /\ flags.reconcile /\ ~signalled
IsolationRestored ==
    (Serving /\ table \in {"none", "altered"}) ~> (table = Policy \/ signalled)

\* "Bridge de zone supprimé: il est recréé."
BridgesRestored ==
    \A z \in Declared : (Serving /\ z \notin bridges) ~> (z \in bridges \/ signalled)

\* "Une VM arrêtée voit son tap recréé sans conséquence": a VM with Restart that
\* died runs again, even when its tap or its bridge was deleted and launches
\* failed in between: the passes give back what the launches wait for.
RelaunchedAtLast ==
    \A v \in Restarted : (Serving /\ v \notin up) ~> (v \in up \/ signalled)

=============================================================================
