---------------------------- MODULE Firecracker -----------------------------
(***************************************************************************)
(* The Firecracker driver (controlplane/vm/firecracker.go), for one VM:    *)
(* VMs share nothing in it but its mutex.                                  *)
(*                                                                         *)
(* Every method releases the mutex around what takes time, so calls made   *)
(* by several goroutines interleave between the steps below, and with the  *)
(* waiter goroutine that each launched process has.                        *)
(*                                                                         *)
(* External, modelled from what the code says of it:                       *)
(*  - jailer refuses to build a jail whose directory exists;               *)
(*  - a process that is asked to shut down, or killed, ends some time      *)
(*    later, like one that nobody asked anything;                          *)
(*  - Machine.Wait returns when the process has ended or when its context  *)
(*    is cancelled, whichever the SDK sees first.                          *)
(***************************************************************************)
EXTENDS Integers, FiniteSets

CONSTANTS
    Calls,      \* goroutines that call the driver
    Instances,  \* values of *instance (a bound on those referred to at once)
    Procs,      \* processes that can be launched (a bound)
    None,       \* nil
    Ops,        \* the methods called, among AllOps
    OneByOne,   \* whether calls other than Wait are made one at a time
    Faults      \* what may fail, among FaultKinds

AllOps == {"create", "start", "stop", "delete", "wait"}

\* launch: console, SDK or jailer, in Start; remove:
\* removing a directory; stuck: a process outlives both delays of Stop.
FaultKinds == {"launch", "remove", "stuck"}

ASSUME DriverAssumption ==
    /\ None \notin Instances \cup Procs
    /\ Ops \subseteq AllOps
    /\ OneByOne \in BOOLEAN
    /\ Faults \subseteq FaultKinds

VARIABLES
    machines,   \* the instance of the VM in Firecracker.machines, or None
    inst,       \* the fields of each instance
    proc,       \* the processes
    cancelled,  \* the processes whose context has been cancelled
    waiter,     \* the waiter goroutine of each process
    jail,       \* the process the jail directory was built for, or None
    call        \* the call each goroutine is in

vars == <<machines, inst, proc, cancelled, waiter, jail, call>>

\* The process stands for its Machine, its context and its done channel, which
\* is closed when its waiter is gone.
Instance == [machine : Procs \cup {None}, done : Procs \cup {None},
             cancel : Procs \cup {None}]
NewInstance == [machine |-> None, done |-> None, cancel |-> None]

Waiter == [pc : {"none", "wait", "close", "gone"}, inst : Instances \cup {None}]
NoWaiter == [pc |-> "none", inst |-> None]
Closed(p) == waiter[p].pc = "gone"

CallPCs == {"idle", "start_clean", "start_launch", "start_publish",
            "stop_read", "stop_wait", "stop_clear", "delete_forget",
            "delete_remove", "wait"}
Call == [op : AllOps \cup {"none"}, pc : CallPCs, inst : Instances \cup {None},
         proc : Procs \cup {None}]
NoCall == [op |-> "none", pc |-> "idle", inst |-> None, proc |-> None]

Init ==
    /\ machines = None
    /\ inst = [i \in Instances |-> NewInstance]
    /\ proc = [p \in Procs |-> "unused"]
    /\ cancelled = {}
    /\ waiter = [p \in Procs |-> NoWaiter]
    /\ jail = None
    /\ call = [c \in Calls |-> NoCall]

At(c, pc) == call[c].pc = pc

\* A caller begins a call.  When calls are made one at a time, nobody begins a
\* Create, Start, Stop or Delete while another one is under way; Wait, the
\* supervisor's, runs along with all of them.
Working(c) == call[c].pc \notin {"idle", "wait"}
Idle(c, op) ==
    /\ At(c, "idle")
    /\ op \in Ops
    /\ OneByOne /\ op # "wait" => \A d \in Calls : ~Working(d)

Step(c, pc) == call' = [call EXCEPT ![c].pc = pc]
Return(c) == call' = [call EXCEPT ![c] = NoCall]

-----------------------------------------------------------------------------
(* Create *)

\* An instance nothing refers to.
Free(i) ==
    /\ machines # i
    /\ \A c \in Calls : call[c].inst # i
    /\ \A p \in Procs : waiter[p].pc \in {"wait"} => waiter[p].inst # i

StartedOnce == machines # None  \* faulty variant
Started == machines # None /\ inst[machines].machine # None

MayPrepareAlways == TRUE  \* faulty variant
MayPrepare == ~Started

\* Under the lock from end to end.  A VM that does not run may be prepared
\* again, with a new instance; a failure before that changes nothing here.
Create(c) ==
    /\ Idle(c, "create")
    /\ MayPrepare
    /\ \E i \in Instances :
          /\ Free(i)
          /\ machines' = i
          /\ inst' = [inst EXCEPT ![i] = NewInstance]
    /\ UNCHANGED <<proc, cancelled, waiter, jail, call>>

-----------------------------------------------------------------------------
(* Start *)

MayLaunchAlways == machines # None  \* faulty variant
MayLaunch == machines # None /\ ~Started

\* First section: what is refused changes nothing.
Start(c) ==
    /\ Idle(c, "start")
    /\ MayLaunch
    /\ call' = [call EXCEPT ![c] =
          [op |-> "start", pc |-> "start_clean", inst |-> machines, proc |-> None]]
    /\ UNCHANGED <<machines, inst, proc, cancelled, waiter, jail>>

\* The jail of the previous run is removed.
StartClean(c) ==
    /\ At(c, "start_clean")
    /\ UNCHANGED <<machines, inst, proc, cancelled, waiter>>
    /\ \/ jail' = None /\ Step(c, "start_launch")
       \/ "remove" \in Faults /\ UNCHANGED jail /\ Return(c)

\* NewMachine and Machine.Start.  A launch that fails may leave a jail behind.
StartLaunch(c) ==
    /\ At(c, "start_launch")
    /\ UNCHANGED <<machines, inst, waiter>>
    /\ \E p \in Procs :
          /\ proc[p] = "unused"
          /\ \/ /\ jail = None
                /\ jail' = p
                /\ proc' = [proc EXCEPT ![p] = "up"]
                /\ call' = [call EXCEPT ![c] =
                      [@ EXCEPT !.pc = "start_publish", !.proc = p]]
                /\ UNCHANGED cancelled
             \/ /\ jail # None \/ "launch" \in Faults
                /\ jail' \in {jail, IF jail = None THEN p ELSE jail}
                /\ proc' = [proc EXCEPT ![p] = "dead"]
                /\ cancelled' = cancelled \cup {p}
                /\ Return(c)

\* The instance read in the first section gets the machine, and the process its
\* waiter.
StartPublish(c) ==
    /\ At(c, "start_publish")
    /\ LET p == call[c].proc  i == call[c].inst IN
       /\ inst' = [inst EXCEPT ![i] = [machine |-> p, done |-> p, cancel |-> p]]
       /\ waiter' = [waiter EXCEPT ![p] = [pc |-> "wait", inst |-> i]]
    /\ Return(c)
    /\ UNCHANGED <<machines, proc, cancelled, jail>>

-----------------------------------------------------------------------------
(* The waiter goroutine *)

EndedByCancel(p) == p \in cancelled  \* faulty variant
Ended(p) == proc[p] = "dead" \/ p \in cancelled

WaiterCloses(p) ==  \* faulty variant
    /\ waiter[p].pc = "wait"
    /\ Ended(p)
    /\ waiter' = [waiter EXCEPT ![p] = [pc |-> "gone", inst |-> None]]
    /\ UNCHANGED <<machines, inst, proc, cancelled, jail, call>>

\* Machine.Wait returns; the instance forgets its machine...
WaiterClear(p) ==
    /\ waiter[p].pc = "wait"
    /\ Ended(p)
    /\ inst' = [inst EXCEPT ![waiter[p].inst].machine = None]
    /\ waiter' = [waiter EXCEPT ![p] = [pc |-> "close", inst |-> None]]
    /\ UNCHANGED <<machines, proc, cancelled, jail, call>>

WaiterCancels(p) ==  \* faulty variant
    /\ waiter[p].pc = "close"
    /\ cancelled' = cancelled \cup {p}
    /\ UNCHANGED <<machines, inst, proc, waiter, jail, call>>

\* ... then the context is cancelled and done is closed.
WaiterClose(p) ==
    /\ waiter[p].pc = "close"
    /\ cancelled' = cancelled \cup {p}
    /\ waiter' = [waiter EXCEPT ![p].pc = "gone"]
    /\ UNCHANGED <<machines, inst, proc, jail, call>>

-----------------------------------------------------------------------------
(* Stop and Delete *)

Stop(c) ==
    /\ Idle(c, "stop")
    /\ call' = [call EXCEPT ![c] = [NoCall EXCEPT !.op = "stop", !.pc = "stop_read"]]
    /\ UNCHANGED <<machines, inst, proc, cancelled, waiter, jail>>

Delete(c) ==
    /\ Idle(c, "delete")
    /\ call' = [call EXCEPT ![c] = [NoCall EXCEPT !.op = "delete", !.pc = "stop_read"]]
    /\ UNCHANGED <<machines, inst, proc, cancelled, waiter, jail>>

\* Stop returns to its caller, or to Delete, which ignores its error.
StopReturns(c) ==
    IF call[c].op = "delete"
    THEN call' = [call EXCEPT ![c] =
                    [NoCall EXCEPT !.op = "delete", !.pc = "delete_forget"]]
    ELSE Return(c)

\* Stop, first section: nothing to do when no machine runs.
StopRead(c) ==
    /\ At(c, "stop_read")
    /\ UNCHANGED <<machines, inst, proc, cancelled, waiter, jail>>
    /\ \/ ~Started /\ StopReturns(c)
       \/ /\ Started
          /\ call' = [call EXCEPT ![c] =
                [@ EXCEPT !.pc = "stop_wait", !.inst = machines,
                          !.proc = inst[machines].done]]

StopHurries(c) ==  \* faulty variant
    /\ At(c, "stop_wait")
    /\ Step(c, "stop_clear")
    /\ UNCHANGED <<machines, inst, proc, cancelled, waiter, jail>>

\* The shutdown is asked for, then forced; Stop goes on when done is closed...
StopWait(c) ==
    /\ At(c, "stop_wait")
    /\ Closed(call[c].proc)
    /\ Step(c, "stop_clear")
    /\ UNCHANGED <<machines, inst, proc, cancelled, waiter, jail>>

\* ... or when both delays have passed, after cancelling the context.
StopGivesUp(c) ==
    /\ At(c, "stop_wait")
    /\ "stuck" \in Faults
    /\ cancelled' = cancelled \cup {call[c].proc}
    /\ Step(c, "stop_clear")
    /\ UNCHANGED <<machines, inst, proc, waiter, jail>>

\* Last section: it acts on what the instance holds by now.
StopClear(c) ==
    /\ At(c, "stop_clear")
    /\ LET i == call[c].inst IN
       /\ inst' = [inst EXCEPT ![i] = [@ EXCEPT !.machine = None, !.cancel = None]]
       /\ cancelled' = cancelled \cup ({inst[i].cancel} \ {None})
    /\ StopReturns(c)
    /\ UNCHANGED <<machines, proc, waiter, jail>>

DeleteForget(c) ==
    /\ At(c, "delete_forget")
    /\ machines' = None
    /\ Step(c, "delete_remove")
    /\ UNCHANGED <<inst, proc, cancelled, waiter, jail>>

DeleteRemove(c) ==
    /\ At(c, "delete_remove")
    /\ jail' = None \/ ("remove" \in Faults /\ UNCHANGED jail)
    /\ Return(c)
    /\ UNCHANGED <<machines, inst, proc, cancelled, waiter>>

-----------------------------------------------------------------------------
(* Wait *)

\* Refused unless the instance has been started once.
Wait(c) ==
    /\ Idle(c, "wait")
    /\ machines # None /\ inst[machines].done # None
    /\ call' = [call EXCEPT ![c] = [op |-> "wait", pc |-> "wait", inst |-> machines,
                                   proc |-> inst[machines].done]]
    /\ UNCHANGED <<machines, inst, proc, cancelled, waiter, jail>>

WaitDone(c) ==
    /\ At(c, "wait")
    /\ Closed(call[c].proc)
    /\ Return(c)
    /\ UNCHANGED <<machines, inst, proc, cancelled, waiter, jail>>

\* The caller's own context, cancelled at any time.
WaitCancelled(c) ==
    /\ At(c, "wait")
    /\ Return(c)
    /\ UNCHANGED <<machines, inst, proc, cancelled, waiter, jail>>

-----------------------------------------------------------------------------

\* The process ends, by itself or because it was asked to or killed.
End(p) ==
    /\ proc[p] = "up"
    /\ proc' = [proc EXCEPT ![p] = "dead"]
    /\ UNCHANGED <<machines, inst, cancelled, waiter, jail, call>>

Method(c) ==
    \/ Create(c) \/ Start(c) \/ Stop(c) \/ Delete(c) \/ Wait(c)

Proceed(c) ==
    \/ StartClean(c) \/ StartLaunch(c) \/ StartPublish(c)
    \/ StopRead(c) \/ StopWait(c) \/ StopClear(c)
    \/ DeleteForget(c) \/ DeleteRemove(c) \/ WaitDone(c)

Waited(p) == WaiterClear(p) \/ WaiterClose(p)

\* A process that Stop waits for, or whose context is cancelled, does end.
Dying(p) == p \in cancelled \/ \E c \in Calls : At(c, "stop_wait") /\ call[c].proc = p
Die(p) == Dying(p) /\ End(p)

Next ==
    \/ \E c \in Calls : Method(c) \/ Proceed(c) \/ StopGivesUp(c)
                        \/ WaitCancelled(c)
    \/ \E p \in Procs : Waited(p) \/ End(p)

Spec == Init /\ [][Next]_vars

\* Calls and waiters go on; nobody has to call, or to give up.
FairSpec ==
    /\ Spec
    /\ \A c \in Calls : WF_vars(Proceed(c))
    /\ \A p \in Procs : WF_vars(Waited(p)) /\ WF_vars(Die(p))

-----------------------------------------------------------------------------
(* Properties *)

WithInstance == {"start_clean", "start_launch", "start_publish", "stop_wait",
                 "stop_clear", "wait"}
WithProcess == {"start_publish", "stop_wait", "stop_clear", "wait"}

\* The variables hold the values they are declared for; a call that waits for
\* done has a channel to wait for (receiving from a nil one never ends), and
\* what is about to be published is a process that was launched.
TypeOK ==
    /\ machines \in Instances \cup {None}
    /\ inst \in [Instances -> Instance]
    /\ proc \in [Procs -> {"unused", "up", "dead"}]
    /\ cancelled \subseteq Procs
    /\ waiter \in [Procs -> Waiter]
    /\ jail \in Procs \cup {None}
    /\ call \in [Calls -> Call]
    /\ \A c \in Calls :
          /\ call[c].pc \in WithInstance => call[c].inst # None
          /\ call[c].pc \in WithProcess => call[c].proc # None
    /\ \A p \in Procs : waiter[p].pc = "wait" => waiter[p].inst # None

\* A VM never has two processes: they would write to one disk image.
OneProcess ==
    \A p, q \in Procs : proc[p] = "up" /\ proc[q] = "up" => p = q

\* Between two calls, a process that runs is the machine of the VM's instance:
\* a process the driver has lost can neither be stopped nor waited for.
NoProcessLost ==
    (\A c \in Calls : At(c, "idle")) =>
        \A p \in Procs : proc[p] = "up" =>
            machines # None /\ inst[machines].machine = p

\* "Cette remise à zéro doit précéder la fermeture de done": who was woken by
\* done can start the VM again at once.
WokenMayStart ==
    \A p \in Procs : Closed(p) =>
        \A i \in Instances : inst[i].machine # p

\* "Supprimer la jail est sans danger": no step removes the jail of a process
\* that runs.
JailRemovalSafe ==
    [][jail # None /\ jail' # jail => proc[jail] # "up"]_vars

\* "Wait bloque jusqu'à la fin du processus": not less than that.  Whoever is
\* woken by done, Stop or a supervisor, takes the process for ended.
DoneMeansEnded == \A p \in Procs : Closed(p) => proc[p] = "dead"

\* Where a call is for the user of the contract.
Doing(c) ==
    CASE call[c].pc \in {"start_clean", "start_launch"} -> "start"
      [] call[c].pc = "start_publish" -> "started"
      [] call[c].pc \in {"stop_read", "stop_wait", "stop_clear"} -> call[c].op
      [] call[c].pc = "delete_forget" -> "delete"
      [] call[c].pc = "delete_remove" -> "deleted"
      [] OTHER -> "nothing"

Contract == INSTANCE VMM WITH
    prepared <- machines # None,
    up <- \E p \in Procs : proc[p] = "up",
    doing <- [c \in Calls |-> Doing(c)]

\* The driver keeps the contract VMM: it launches a VM that is prepared and does
\* not run, nothing runs any more when Stop returns or Delete forgets the VM,
\* and the end of a process is the end of the VM's only one.
ImplementsContract == Contract!Spec

\* "Wait bloque jusqu'à la fin du processus": no longer than that.  The
\* supervisor learns in no other way that its VM has died.
WaitReturns == \A c \in Calls, p \in Procs :
    (At(c, "wait") /\ call[c].proc = p /\ proc[p] = "dead") ~> ~At(c, "wait")

\* Stop returns, whatever other calls do to the instance it read, because done
\* is closed and not only because its delays have passed.
StopReturnsAtLast == \A c \in Calls : At(c, "stop_wait") ~> At(c, "idle")

=============================================================================
