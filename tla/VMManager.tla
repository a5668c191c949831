----------------------------- MODULE VMManager -----------------------------
(***************************************************************************)
(* The VM manager of tinyvmosd (controlplane/vm/manager.go) over the       *)
(* hypervisor contract it relies on (the VMM interface of vmm.go, as the   *)
(* Firecracker implementation honours it).                                 *)
(*                                                                         *)
(* Goroutines.  Any number of callers run Create, Ensure, Start, Stop,     *)
(* Delete, StopAll and IdentityFor; every VM started gets a supervisor     *)
(* goroutine that waits for its process and relaunches it.  They share     *)
(* Manager.mu, so one action of the model is one critical section, one     *)
(* call of the hypervisor made between two sections, or one receive on a   *)
(* channel.  Everything between two actions may be interleaved.            *)
(*                                                                         *)
(* Simplifications, each of data and none of control:                      *)
(*  - a record keeps its status and its Restart flag.  The PID, the        *)
(*    counters, the messages and the dates are written and never read by   *)
(*    the manager, except UpdatedAt, whose one use (was the VM stable?)    *)
(*    is the choice in SupRecord;                                          *)
(*  - a *Record kept across an unlock is the flag `held`: it still reaches *)
(*    the table until Delete removes the entry.  Writes through a pointer  *)
(*    that no longer reaches the table change nothing anyone can read;     *)
(*  - a hypervisor call takes effect at one instant, and so does the       *)
(*    goroutine that waits for a process in the driver: it clears the      *)
(*    instance and closes its channel some time after the process ended;   *)
(*  - StopAll visits the names in any order (the code sorts them).         *)
(***************************************************************************)
EXTENDS Integers, FiniteSets, VMStatus

CONSTANTS
    Names,          \* names of VMs
    NoName,         \* a value that is not a name
    Callers,        \* goroutines calling the manager's public methods
    Sups,           \* supervisor goroutines that can exist at once (a bound)
    NoSup,          \* a value that is not a supervisor
    Ops,            \* the operations callers issue (a bound for model checking)
    RestartChoices, \* values of Spec.Restart that callers submit
    Rests,          \* values of the rest of the snapshot: Zones and Alloc
    Earlier,        \* statuses of the records that the file of an earlier
                    \* daemon may hold (a bound for model checking)
    Faults,         \* what may fail outside the manager: see FaultKinds
    IdentityMin, IdentityMax,
    BackoffMin, BackoffMax

AllOps == {"create", "ensure", "start", "stop", "delete", "stopall",
           "identity", "withstate"}

\* save: writing the state file; prepare: VMM.Create; launch: VMM.Start;
\* remove: removing the files of a VM in VMM.Delete.
FaultKinds == {"save", "prepare", "launch", "remove"}

ASSUME ConstantsAssumption ==
    /\ NoName \notin Names
    /\ NoSup \notin Sups
    /\ Ops \subseteq AllOps
    /\ RestartChoices \subseteq BOOLEAN
    /\ Earlier \subseteq Statuses
    /\ Faults \subseteq FaultKinds

\* Identities are positive: 0 would be root.
ASSUME IdentityAssumption ==
    /\ IdentityMin \in Nat \ {0}
    /\ IdentityMax \in Nat

ASSUME BackoffAssumption ==
    /\ BackoffMin \in Nat \ {0}
    /\ BackoffMax \in Nat
    /\ BackoffMin <= BackoffMax

VARIABLES
    rec,    \* Snapshot.VMs: the record of each VM, or NoRecord
    ident,  \* Snapshot.Identities: the identity of each VM, or NoId
    rest,   \* Snapshot.Zones and Snapshot.Alloc, which the manager only stores
    disk,   \* the snapshot the state file holds
    super,  \* Manager.super: the supervisor registered for each VM, or NoSup
    sup,    \* the supervisor goroutines
    hv,     \* what the hypervisor knows of each VM, and its processes
    call    \* the call each caller is in

vars == <<rec, ident, rest, disk, super, sup, hv, call>>

-----------------------------------------------------------------------------
(* Data *)

Ids == IdentityMin .. IdentityMax
NoId == 0

NoRecord == [status |-> "absent", restart |-> FALSE]
Record == [status : Statuses, restart : BOOLEAN] \cup {NoRecord}
Known(n) == rec[n] # NoRecord
Snapshots ==
    [vms : [Names -> Record], ids : [Names -> Ids \cup {NoId}], rest : Rests]
Snapshot(vms, ids, others) == [vms |-> vms, ids |-> ids, rest |-> others]

\* known: the hypervisor has an instance; up: the process of that instance
\* runs; lag: it has ended, but its waiter has not cleared the instance yet;
\* stray: an instance was forgotten with a process or a waiter that goes on.
Machine == [known : BOOLEAN, up : BOOLEAN, lag : BOOLEAN, stray : BOOLEAN]
NoMachine == [known |-> FALSE, up |-> FALSE, lag |-> FALSE, stray |-> FALSE]

\* The instance of n holds a machine, whose channel is not closed.
Started(n) == hv[n].up \/ hv[n].lag

CallPCs ==
    {"idle", "ensure_prepare", "ensure_create", "ensure_save",
     "start_launch", "start_finish",
     "stop_mark", "stop_cancel", "stop_halt", "stop_finish",
     "delete_halt", "delete_forget", "delete_finish", "stopall_next"}

\* op: the operation under way; n: its VM; restart: the Restart flag submitted;
\* held: the *Record it holds reaches the table; sup: the supervisor Stop has
\* taken out of Manager.super; todo: VMs StopAll has left; ok: the result of
\* the last hypervisor call, and of the whole call once it has returned;
\* failed: StopAll has met an error.
Call ==
    [op : AllOps \cup {"none"}, pc : CallPCs, n : Names \cup {NoName},
     restart : BOOLEAN, held : BOOLEAN, sup : Sups \cup {NoSup},
     todo : SUBSET Names, ok : BOOLEAN, failed : BOOLEAN]

Returned(ok) ==
    [op |-> "none", pc |-> "idle", n |-> NoName, restart |-> FALSE,
     held |-> FALSE, sup |-> NoSup, todo |-> {}, ok |-> ok, failed |-> FALSE]

Calling(op, pc, n) ==
    [Returned(TRUE) EXCEPT !.op = op, !.pc = pc, !.n = n]

SupPCs ==
    {"dead", "watch", "waiting", "record", "backoff", "restart", "launch",
     "relaunched"}

\* watch is the channel Wait has read from the instance: "open" while that
\* instance is started, "stray" once it is forgotten and its waiter goes on,
\* "ended" when it was closed while Wait was blocked on it, "closed" when
\* there was nothing to wait for.
Supervision ==
    [pc : SupPCs, n : Names \cup {NoName}, cancelled : BOOLEAN,
     watch : {"none", "open", "stray", "ended", "closed"},
     held : BOOLEAN, ok : BOOLEAN, backoff : BackoffMin .. BackoffMax]

NoSupervision ==
    [pc |-> "dead", n |-> NoName, cancelled |-> FALSE, watch |-> "none",
     held |-> FALSE, ok |-> TRUE, backoff |-> BackoffMin]

Live(s) == sup[s].pc # "dead"

\* An identifier for a new goroutine: nothing refers to it any more.
Fresh(s) ==
    /\ ~Live(s)
    /\ \A n \in Names : super[n] # s
    /\ \A c \in Callers : call[c].sup # s

\* No two VMs have one identity.
Distinct(ids) ==
    \A m, n \in Names : ids[m] # NoId /\ ids[m] = ids[n] => m = n

\* NewManager loads what an earlier daemon saved.  Its processes are gone, and
\* the hypervisor of this one knows no VM.
Init ==
    /\ rec \in [Names -> {NoRecord} \cup [status : Earlier, restart : RestartChoices]]
    /\ ident \in [Names -> Ids \cup {NoId}] /\ Distinct(ident)
    /\ rest \in Rests
    /\ disk = Snapshot(rec, ident, rest)
    /\ super = [n \in Names |-> NoSup]
    /\ sup = [s \in Sups |-> NoSupervision]
    /\ hv = [n \in Names |-> NoMachine]
    /\ call = [c \in Callers |-> Returned(TRUE)]

-----------------------------------------------------------------------------
(* The hypervisor contract *)

\* Channel w of n is closed: those blocked on it are released.
Release(S, n, w) ==
    [s \in Sups |-> IF S[s].n = n /\ S[s].watch = w
                    THEN [S[s] EXCEPT !.watch = "ended"] ELSE S[s]]

\* VMM.Create: refused while the VM is started, otherwise (re)builds its instance.
HvCreate(n, ok) ==
    \/ ok /\ ~Started(n) /\ hv' = [hv EXCEPT ![n].known = TRUE]
    \/ ~ok /\ (Started(n) \/ "prepare" \in Faults) /\ UNCHANGED hv

\* VMM.Start: refused for an unknown VM and for one already started.
HvStart(n, ok) ==
    \/ ok /\ hv[n].known /\ ~Started(n) /\ hv' = [hv EXCEPT ![n].up = TRUE]
    \/ /\ ~ok
       /\ ~hv[n].known \/ Started(n) \/ "launch" \in Faults
       /\ UNCHANGED hv

\* VMM.Stop: fails for an unknown VM only; the process has ended and the
\* instance is clear when it returns.  Stopping a VM that does not run is not an
\* error.
HvStop(n, ok) ==
    /\ ok = hv[n].known
    /\ hv' = [hv EXCEPT ![n].up = FALSE, ![n].lag = FALSE]
    /\ sup' = Release(sup, n, "open")

\* VMM.Delete, once it has stopped the VM: the instance is forgotten before
\* its files are removed, which may fail.  A process launched since the stop
\* goes on with no instance that points to it.
HvForget(n, ok) ==
    /\ ok \/ "remove" \in Faults
    /\ hv' = [hv EXCEPT ![n] =
                 [NoMachine EXCEPT !.stray = hv[n].stray \/ Started(n)]]
    /\ sup' = [s \in Sups |-> IF sup[s].n = n /\ sup[s].watch = "open"
                              THEN [sup[s] EXCEPT !.watch = "stray"]
                              ELSE sup[s]]

\* Environment: the process of a VM ends and nobody asked for it.
Crash(n) ==
    /\ hv[n].up
    /\ hv' = [hv EXCEPT ![n].up = FALSE, ![n].lag = TRUE]
    /\ UNCHANGED <<rec, ident, rest, disk, super, sup, call>>

\* Its waiter in the driver clears the instance and closes the channel.
WaiterEnds(n) ==
    /\ hv[n].lag
    /\ hv' = [hv EXCEPT ![n].lag = FALSE]
    /\ sup' = Release(sup, n, "open")
    /\ UNCHANGED <<rec, ident, rest, disk, super, call>>

StrayEnds(n) ==
    /\ hv[n].stray
    /\ hv' = [hv EXCEPT ![n].stray = FALSE]
    /\ sup' = Release(sup, n, "stray")
    /\ UNCHANGED <<rec, ident, rest, disk, super, call>>

-----------------------------------------------------------------------------
(* The state file *)

\* persistLocked.  Save replaces the file by one rename; when it reports an
\* error the file holds the old state, or the new one if what failed came
\* after the rename.
\* SaveStale and its like (SuperviseUnchecked, CancelNone...) are faulty
\* variants of the definition that follows them: substituted for it, they show
\* that a property can fail.
SaveStale(ok) ==
    \/ ok /\ disk' = Snapshot(rec, ident, rest)
    \/ ~ok /\ "save" \in Faults /\ disk' = disk

Save(ok) ==
    \/ ok /\ disk' = Snapshot(rec', ident', rest')
    \/ /\ ~ok /\ "save" \in Faults
       /\ disk' \in {disk, Snapshot(rec', ident', rest')}

\* Writing a status through a *Record, which reaches the table or not.
SetStatus(n, held, st) ==
    rec' = IF held THEN [rec EXCEPT ![n].status = st] ELSE rec

Return(c, ok) == call' = [call EXCEPT ![c] = Returned(ok)]

Idle(c, op) == call[c].pc = "idle" /\ op \in Ops
At(c, pc) == call[c].pc = pc
Goto(c, pc) == call' = [call EXCEPT ![c].pc = pc]

-----------------------------------------------------------------------------
(* Create, Ensure, IdentityFor and WithState *)

\* Create holds the lock from end to end, the call of the hypervisor included.
Declare(c, n, r) ==
    \/ /\ Known(n)
       /\ Return(c, FALSE)
       /\ UNCHANGED <<rec, ident, rest, disk, hv>>
    \/ /\ ~Known(n)
       /\ HvCreate(n, FALSE)
       /\ Return(c, FALSE)
       /\ UNCHANGED <<rec, ident, rest, disk>>
    \/ /\ ~Known(n)
       /\ HvCreate(n, TRUE)
       /\ rec' = [rec EXCEPT ![n] = [status |-> "created", restart |-> r]]
       /\ UNCHANGED <<ident, rest>>
       /\ \E ok \in BOOLEAN : Save(ok) /\ Return(c, ok)

Create(c, n, r) ==
    /\ Idle(c, "create")
    /\ Declare(c, n, r)
    /\ UNCHANGED <<super, sup>>

\* Ensure, first section: a status left over by a previous daemon is reset.
Ensure(c, n, r) ==
    /\ Idle(c, "ensure")
    /\ rec' = IF ~Known(n) THEN rec
              ELSE [rec EXCEPT ![n] =
                 [status |-> IF @.status \in {"running", "starting", "stopping"}
                             THEN "stopped" ELSE @.status,
                  restart |-> r]]
    /\ call' = [call EXCEPT ![c] =
          [Calling("ensure", IF Known(n) THEN "ensure_prepare"
                                         ELSE "ensure_create", n)
           EXCEPT !.restart = r]]
    /\ UNCHANGED <<ident, rest, disk, super, sup, hv>>

EnsureCreate(c) ==
    /\ At(c, "ensure_create")
    /\ Declare(c, call[c].n, call[c].restart)
    /\ UNCHANGED <<super, sup>>

EnsurePrepare(c) ==
    /\ At(c, "ensure_prepare")
    /\ \/ HvCreate(call[c].n, TRUE) /\ Goto(c, "ensure_save")
       \/ HvCreate(call[c].n, FALSE) /\ Return(c, FALSE)
    /\ UNCHANGED <<rec, ident, rest, disk, super, sup>>

EnsureUnsaved(c) ==
    /\ At(c, "ensure_save")
    /\ Return(c, TRUE)
    /\ UNCHANGED <<rec, ident, rest, disk, super, sup, hv>>

EnsureSave(c) ==
    /\ At(c, "ensure_save")
    /\ UNCHANGED <<rec, ident, rest, super, sup, hv>>
    /\ \E ok \in BOOLEAN : Save(ok) /\ Return(c, ok)

\* The identities a VM may be given: those no other VM has.
FreeIdsAny(n) == Ids
FreeIds(n) == Ids \ {ident[m] : m \in Names \ {n}}

\* IdentityFor: the one the VM has, or the smallest that is free.
IdentityFor(c, n) ==
    /\ Idle(c, "identity")
    /\ UNCHANGED <<rec, rest, super, sup, hv>>
    /\ \/ /\ ident[n] # NoId
          /\ Return(c, ident[n] \in Ids)
          /\ UNCHANGED <<ident, disk>>
       \/ /\ ident[n] = NoId
          /\ FreeIds(n) = {}
          /\ Return(c, FALSE)
          /\ UNCHANGED <<ident, disk>>
       \/ /\ ident[n] = NoId
          /\ \E id \in FreeIds(n) :
                /\ \A other \in FreeIds(n) : id <= other
                /\ ident' = [ident EXCEPT ![n] = id]
          /\ \E ok \in BOOLEAN : Save(ok) /\ Return(c, ok)

\* WithState: fn changes the rest of the snapshot and the whole is saved; when
\* fn fails, what it had already changed stays in memory.
WithState(c, r) ==
    /\ Idle(c, "withstate")
    /\ rest' = r
    /\ UNCHANGED <<rec, ident, super, sup, hv>>
    /\ \/ Return(c, FALSE) /\ UNCHANGED disk
       \/ \E ok \in BOOLEAN : Save(ok) /\ Return(c, ok)

-----------------------------------------------------------------------------
(* Start *)

MayStart(n) ==
    /\ Known(n)
    /\ rec[n].status # "running"
    /\ CanTransitionTo(rec[n].status, "starting")

StartUnmarked(c, n) ==
    /\ Idle(c, "start")
    /\ MayStart(n)
    /\ call' = [call EXCEPT ![c] =
          [Calling("start", "start_launch", n) EXCEPT !.held = TRUE]]
    /\ UNCHANGED <<rec, ident, rest, disk, super, sup, hv>>

Start(c, n) ==
    /\ Idle(c, "start")
    /\ \/ /\ ~MayStart(n)
          /\ Return(c, FALSE)
          /\ UNCHANGED rec
       \/ /\ MayStart(n)
          /\ SetStatus(n, TRUE, "starting")
          /\ call' = [call EXCEPT ![c] =
                [Calling("start", "start_launch", n) EXCEPT !.held = TRUE]]
    /\ UNCHANGED <<ident, rest, disk, super, sup, hv>>

StartLaunch(c) ==
    /\ At(c, "start_launch")
    /\ \E ok \in BOOLEAN :
          /\ HvStart(call[c].n, ok)
          /\ call' = [call EXCEPT ![c] = [@ EXCEPT !.pc = "start_finish", !.ok = ok]]
    /\ UNCHANGED <<rec, ident, rest, disk, super, sup>>

\* superviseLocked: nothing to do when an entry exists, whatever has become
\* of the goroutine it names.
SuperviseUnchecked(n) ==
    \E s \in Sups :
        /\ Fresh(s)
        /\ super' = [super EXCEPT ![n] = s]
        /\ sup' = [sup EXCEPT ![s] =
              [NoSupervision EXCEPT !.pc = "watch", !.n = n]]

SuperviseLocked(n) ==
    \/ /\ super[n] # NoSup
       /\ UNCHANGED <<super, sup>>
    \/ /\ super[n] = NoSup
       /\ \E s \in Sups :
             /\ Fresh(s)
             /\ super' = [super EXCEPT ![n] = s]
             /\ sup' = [sup EXCEPT ![s] =
                   [NoSupervision EXCEPT !.pc = "watch", !.n = n]]

StartFinish(c) ==
    /\ At(c, "start_finish")
    /\ UNCHANGED <<ident, rest, hv>>
    /\ \/ /\ ~call[c].ok
          /\ SetStatus(call[c].n, call[c].held, "failed")
          /\ \E saved \in BOOLEAN : Save(saved)
          /\ Return(c, FALSE)
          /\ UNCHANGED <<super, sup>>
       \/ /\ call[c].ok
          /\ SetStatus(call[c].n, call[c].held, "running")
          /\ SuperviseLocked(call[c].n)
          /\ \E saved \in BOOLEAN : Save(saved) /\ Return(c, saved)

-----------------------------------------------------------------------------
(* Stop, Delete and StopAll *)

\* What Stop returns to: the caller itself, Delete, which only logs its
\* error, or the loop of StopAll, which remembers it.
AfterStop(k, ok) ==
    CASE k.op = "stop" -> Returned(ok)
      [] k.op = "delete" -> Calling("delete", "delete_halt", k.n)
      [] k.op = "stopall" ->
            [Calling("stopall", "stopall_next", NoName)
             EXCEPT !.todo = k.todo, !.failed = k.failed \/ ~ok]

\* Stop, first section, for the call record k: the status is set whatever it
\* was, and the supervisor is taken out of the table.
StopMark(c, k) ==
    /\ \/ /\ ~Known(k.n)
          /\ call' = [call EXCEPT ![c] = AfterStop(k, FALSE)]
          /\ UNCHANGED <<rec, super>>
       \/ /\ Known(k.n)
          /\ SetStatus(k.n, TRUE, "stopping")
          /\ super' = [super EXCEPT ![k.n] = NoSup]
          /\ call' = [call EXCEPT ![c] =
                [k EXCEPT !.pc = "stop_cancel", !.held = TRUE,
                          !.sup = super[k.n]]]
    /\ UNCHANGED <<ident, rest, disk, sup, hv>>

Stop(c, n) ==
    /\ Idle(c, "stop")
    /\ StopMark(c, Calling("stop", "stop_mark", n))

\* Delete: unknown VMs are refused, then Stop runs.
Delete(c, n) ==
    /\ Idle(c, "delete")
    /\ call' = [call EXCEPT ![c] =
          IF Known(n) THEN Calling("delete", "stop_mark", n)
          ELSE Returned(FALSE)]
    /\ UNCHANGED <<rec, ident, rest, disk, super, sup, hv>>

DeleteStop(c) ==
    /\ At(c, "stop_mark")
    /\ StopMark(c, call[c])

\* sup.cancel(), outside the lock; the supervisor is not waited for.
CancelNone(s) == sup[s]
Cancel(s) == [sup[s] EXCEPT !.cancelled = TRUE]

StopCancel(c) ==
    /\ At(c, "stop_cancel")
    /\ sup' = [s \in Sups |-> IF s = call[c].sup /\ Live(s)
                              THEN Cancel(s) ELSE sup[s]]
    /\ call' = [call EXCEPT ![c] = [@ EXCEPT !.pc = "stop_halt", !.sup = NoSup]]
    /\ UNCHANGED <<rec, ident, rest, disk, super, hv>>

StopHalt(c) ==
    /\ At(c, "stop_halt")
    /\ \E ok \in BOOLEAN :
          /\ HvStop(call[c].n, ok)
          /\ call' = [call EXCEPT ![c] = [@ EXCEPT !.pc = "stop_finish", !.ok = ok]]
    /\ UNCHANGED <<rec, ident, rest, disk, super>>

StopFinish(c) ==
    /\ At(c, "stop_finish")
    /\ SetStatus(call[c].n, call[c].held,
                 IF call[c].ok THEN "stopped" ELSE "failed")
    /\ UNCHANGED <<ident, rest, super, sup, hv>>
    /\ \E saved \in BOOLEAN :
          /\ Save(saved)
          /\ call' = [call EXCEPT ![c] = AfterStop(call[c], saved)]

\* VMM.Delete stops the VM once more, then forgets it.
DeleteHalt(c) ==
    /\ At(c, "delete_halt")
    /\ \E ok \in BOOLEAN : HvStop(call[c].n, ok)
    /\ Goto(c, "delete_forget")
    /\ UNCHANGED <<rec, ident, rest, disk, super>>

DeleteForget(c) ==
    /\ At(c, "delete_forget")
    /\ \/ HvForget(call[c].n, TRUE) /\ Goto(c, "delete_finish")
       \/ HvForget(call[c].n, FALSE) /\ Return(c, FALSE)
    /\ UNCHANGED <<rec, ident, rest, disk, super>>

\* The record and the identity are dropped: pointers to the record that other
\* goroutines hold no longer reach the table.
DeleteFinish(c) ==
    /\ At(c, "delete_finish")
    /\ UNCHANGED <<rest, super, hv>>
    /\ LET n == call[c].n IN
       /\ rec' = [rec EXCEPT ![n] = NoRecord]
       /\ ident' = [ident EXCEPT ![n] = NoId]
       /\ sup' = [s \in Sups |-> IF sup[s].n = n
                                 THEN [sup[s] EXCEPT !.held = FALSE] ELSE sup[s]]
       /\ \E saved \in BOOLEAN :
             /\ Save(saved)
             /\ call' = [d \in Callers |->
                   IF d = c THEN Returned(saved)
                   ELSE IF call[d].n = n THEN [call[d] EXCEPT !.held = FALSE]
                   ELSE call[d]]

\* StopAll: the VMs still driven, failed ones included.
ToStop ==
    {n \in Names :
        \/ rec[n].status \in {"running", "starting", "stopping", "failed"}
        \/ Known(n) /\ super[n] # NoSup}

StopAll(c) ==
    /\ Idle(c, "stopall")
    /\ call' = [call EXCEPT ![c] =
          [Calling("stopall", "stopall_next", NoName) EXCEPT !.todo = ToStop]]
    /\ UNCHANGED <<rec, ident, rest, disk, super, sup, hv>>

StopAllNext(c) ==
    /\ At(c, "stopall_next")
    /\ \E n \in call[c].todo :
          StopMark(c, [call[c] EXCEPT !.n = n, !.todo = @ \ {n}])

StopAllReturn(c) ==
    /\ At(c, "stopall_next")
    /\ call[c].todo = {}
    /\ Return(c, ~call[c].failed)
    /\ UNCHANGED <<rec, ident, rest, disk, super, sup, hv>>

-----------------------------------------------------------------------------
(* The supervisor goroutine: supervise and restart *)

SupAt(s, pc) == sup[s].pc = pc
SupGoto(s, pc) == sup' = [sup EXCEPT ![s].pc = pc]
SupExit(s) == sup' = [sup EXCEPT ![s] = NoSupervision]

\* VMM.Wait reads the channel of the instance...
SupWatch(s) ==
    /\ SupAt(s, "watch")
    /\ sup' = [sup EXCEPT ![s] =
          [@ EXCEPT !.pc = "waiting",
                    !.watch = IF Started(sup[s].n) THEN "open" ELSE "closed"]]
    /\ UNCHANGED <<rec, ident, rest, disk, super, hv, call>>

\* ... and returns when it is closed or the context is cancelled.
WaitReturnsOnClose(s) == sup[s].watch \in {"ended", "closed"}
WaitReturns(s) == sup[s].cancelled \/ sup[s].watch \in {"ended", "closed"}

\* The context is read once, then the lock is taken.
SupWake(s) ==
    /\ SupAt(s, "waiting")
    /\ WaitReturns(s)
    /\ \/ sup[s].cancelled /\ SupExit(s)
       \/ ~sup[s].cancelled /\ SupGoto(s, "record")
    /\ UNCHANGED <<rec, ident, rest, disk, super, hv, call>>

ToRestart(n) == rec[n].restart

\* The section that records the failure.  `stable`: the record has not changed
\* for restartStableWindow.
SupRecord(s) ==
    /\ SupAt(s, "record")
    /\ UNCHANGED <<ident, rest, super, hv, call>>
    /\ LET n == sup[s].n IN
       \/ /\ rec[n].status \in {"absent", "stopping", "stopped"}
          /\ SupExit(s)
          /\ UNCHANGED <<rec, disk>>
       \/ /\ rec[n].status \notin {"absent", "stopping", "stopped"}
          /\ SetStatus(n, TRUE, "failed")
          /\ \E saved \in BOOLEAN : Save(saved)
          /\ \/ ~ToRestart(n) /\ SupExit(s)
             \/ /\ ToRestart(n)
                /\ \E stable \in BOOLEAN :
                      sup' = [sup EXCEPT ![s] =
                         [@ EXCEPT !.pc = "backoff", !.watch = "none",
                                   !.backoff = IF stable THEN BackoffMin
                                                    ELSE sup[s].backoff]]

\* The delay doubles at each failure, up to its maximum.
NextBackoffUncapped(b) == 2 * b
NextBackoff(b) == IF 2 * b <= BackoffMax THEN 2 * b ELSE BackoffMax

\* The select between the cancellation and the timer; a cancellation that is
\* there already wins, the timer has its whole delay to run.
SupBackoff(s) ==
    /\ SupAt(s, "backoff")
    /\ \/ sup[s].cancelled /\ SupExit(s)
       \/ /\ ~sup[s].cancelled
          /\ sup' = [sup EXCEPT ![s] =
                [@ EXCEPT !.pc = "restart", !.backoff = NextBackoff(sup[s].backoff)]]
    /\ UNCHANGED <<rec, ident, rest, disk, super, hv, call>>

\* restart, first section: neither the context nor the status is looked at.
SupRestart(s) ==
    /\ SupAt(s, "restart")
    /\ UNCHANGED <<ident, rest, super, hv, call>>
    /\ \/ /\ ~Known(sup[s].n)
          /\ SupGoto(s, "watch")
          /\ UNCHANGED <<rec, disk>>
       \/ /\ Known(sup[s].n)
          /\ SetStatus(sup[s].n, TRUE, "starting")
          /\ \E saved \in BOOLEAN : Save(saved)
          /\ sup' = [sup EXCEPT ![s] = [@ EXCEPT !.pc = "launch", !.held = TRUE]]

\* The context of the supervisor goes with the launch: once cancelled, it may
\* make it fail.
SupLaunch(s) ==
    /\ SupAt(s, "launch")
    /\ \E ok \in BOOLEAN :
          /\ HvStart(sup[s].n, ok) \/ (sup[s].cancelled /\ ~ok /\ UNCHANGED hv)
          /\ sup' = [sup EXCEPT ![s] = [@ EXCEPT !.pc = "relaunched", !.ok = ok]]
    /\ UNCHANGED <<rec, ident, rest, disk, super, call>>

\* restart, second section, then back to Wait whatever the outcome.
SupRelaunched(s) ==
    /\ SupAt(s, "relaunched")
    /\ UNCHANGED <<ident, rest, super, hv, call>>
    /\ SetStatus(sup[s].n, sup[s].held,
                 IF sup[s].ok THEN "running" ELSE "failed")
    /\ \E saved \in BOOLEAN : Save(saved)
    /\ sup' = [sup EXCEPT ![s] =
          [@ EXCEPT !.pc = "watch", !.held = FALSE, !.ok = TRUE]]

-----------------------------------------------------------------------------
(* Next-state relation *)

Invoke(c) ==
    \/ \E n \in Names, r \in RestartChoices : Create(c, n, r) \/ Ensure(c, n, r)
    \/ \E n \in Names : \/ IdentityFor(c, n) \/ Start(c, n)
                        \/ Stop(c, n) \/ Delete(c, n)
    \/ StopAll(c)
    \/ \E r \in Rests : WithState(c, r)

Proceed(c) ==
    \/ EnsureCreate(c) \/ EnsurePrepare(c) \/ EnsureSave(c)
    \/ StartLaunch(c) \/ StartFinish(c)
    \/ StopCancel(c) \/ StopHalt(c) \/ StopFinish(c)
    \/ DeleteStop(c) \/ DeleteHalt(c) \/ DeleteForget(c) \/ DeleteFinish(c)
    \/ StopAllNext(c) \/ StopAllReturn(c)

Supervise(s) ==
    \/ SupWatch(s) \/ SupWake(s) \/ SupRecord(s) \/ SupBackoff(s)
    \/ SupRestart(s) \/ SupLaunch(s) \/ SupRelaunched(s)

Environment == \E n \in Names : Crash(n) \/ WaiterEnds(n) \/ StrayEnds(n)

Next ==
    \/ \E c \in Callers : Invoke(c) \/ Proceed(c)
    \/ \E s \in Sups : Supervise(s)
    \/ Environment

Spec == Init /\ [][Next]_vars

\* A call that has begun goes on, and so does a supervisor: the mutex, the
\* Go scheduler and the timers keep no goroutine waiting for ever.  Nobody has
\* to call the manager, and no process has to end by itself.
FairSpec ==
    /\ Spec
    /\ \A c \in Callers : WF_vars(Proceed(c))
    /\ \A s \in Sups : WF_vars(Supervise(s))

\* A use of the manager in which a launch is alone: between the status "starting"
\* and the launch it announces, by Start or by restart, no other call about that VM
\* is under way; and Ensure is for VMs that are not started.
LaunchesAlone ==
    \A c \in Callers : call[c].n \in Names =>
        /\ \A d \in Callers : At(d, "start_launch") /\ call[d].n = call[c].n => d = c
        /\ \A s \in Sups : ~(SupAt(s, "launch") /\ sup[s].n = call[c].n)

EnsuresDown ==
    \A c \in Callers, n \in Names, r \in RestartChoices :
        Ensure(c, n, r) => ~Started(n)

\* IdentityFor is about no process: it is free.
OrderlyNext ==
    \/ Next /\ LaunchesAlone' /\ EnsuresDown
    \/ \E c \in Callers, n \in Names : IdentityFor(c, n)

OrderlySpec == Init /\ [][OrderlyNext]_vars

-----------------------------------------------------------------------------
(* Properties *)

\* What the program counter of a goroutine says of its other fields.
CallShape(k) ==
    /\ k.pc \in {"stop_mark", "stop_cancel", "stop_halt", "stop_finish"}
          => k.op \in {"stop", "delete", "stopall"}
    /\ k.pc = "stopall_next" => k.op = "stopall"
    /\ k.pc \notin {"idle", "stopall_next"} => k.n \in Names

SupShape(g) == g.pc # "dead" => g.n \in Names

Shape == /\ \A c \in Callers : CallShape(call[c])
         /\ \A s \in Sups : SupShape(sup[s])

\* The variables hold the values they are declared for, and goroutines are
\* where their other fields allow.
TypeOK ==
    /\ rec \in [Names -> Record]
    /\ ident \in [Names -> Ids \cup {NoId}]
    /\ rest \in Rests
    /\ disk \in Snapshots
    /\ super \in [Names -> Sups \cup {NoSup}]
    /\ sup \in [Sups -> Supervision]
    /\ hv \in [Names -> Machine]
    /\ call \in [Callers -> Call]
    /\ Shape

\* A Stop that has taken s out of the table and is about to cancel it.
AboutToCancel(s) == \E c \in Callers : At(c, "stop_cancel") /\ call[c].sup = s

\* No supervisor escapes: one that lives is registered for its VM, or it has
\* been told to stop, or a Stop is about to tell it.  A supervisor outside the
\* three cases could never be stopped (Manager.super, superviseLocked, Stop).
SupControlled ==
    \A s \in Sups : Live(s) =>
        sup[s].cancelled \/ super[sup[s].n] = s \/ AboutToCancel(s)

\* No two VMs are confined under one identity, in memory or in the file a
\* later daemon will load (IdentityFor, Delete, Save).
IdentitiesDistinct == Distinct(ident) /\ Distinct(disk.ids)

\* When no call is under way, the state file says what the memory says
\* (one persistLocked per public operation, and one per supervision event).
DiskCurrent ==
    (\A c \in Callers : At(c, "idle"))
        => disk = Snapshot(rec, ident, rest)

\* A VM the manager shows as stopped or not yet started has no process, even
\* while calls are under way.
StoppedMeansDown ==
    \A n \in Names : rec[n].status \in {"absent", "created", "stopped"}
                        => ~hv[n].up /\ ~hv[n].stray

\* "Start démarre une VM et met en place sa supervision": a running VM has a
\* supervisor.
SupervisedWhileRunning ==
    (\A c \in Callers : At(c, "idle")) =>
        \A n \in Names : rec[n].status = "running" =>
            \E s \in Sups : Live(s) /\ sup[s].n = n /\ ~sup[s].cancelled

\* "Stop [...] coupe sa supervision, pour que l'arrêt ne déclenche pas une
\* relance": a supervisor relaunches a VM in failure only, never one that is
\* being stopped or has been.
NoRelaunchOfStopped ==
    [][\A s \in Sups : SupAt(s, "restart") /\ SupAt(s, "launch")'
                          => rec[sup[s].n].status = "failed"]_vars

\* A supervisor that has been cancelled ends.
CancelledExits == \A s \in Sups : sup[s].cancelled ~> ~Live(s)

=============================================================================
