------------------------- MODULE Firecracker_proofs -------------------------
(***************************************************************************)
(* Theorems about the Firecracker driver, for any number of callers,       *)
(* instances and processes: first for any calls that overlap and whatever  *)
(* fails; then, when calls other than Wait are made one at a time and      *)
(* processes end when killed, that it keeps the contract VMM.              *)
(***************************************************************************)
EXTENDS Firecracker, TLAPS

-----------------------------------------------------------------------------
(* The inductive invariant *)

\* The machine of an instance has its waiter, which will clear that instance.
MachineWatched ==
    \A i \in Instances : inst[i].machine # None =>
        /\ inst[i].done = inst[i].machine
        /\ waiter[inst[i].machine].pc = "wait"
        /\ waiter[inst[i].machine].inst = i

\* A process is published once, by the call that launched it.
LaunchedOnce ==
    /\ \A p \in Procs : proc[p] = "unused" => waiter[p].pc = "none"
    /\ \A c \in Calls : At(c, "start_publish") =>
          /\ proc[call[c].proc] # "unused"
          /\ waiter[call[c].proc].pc = "none"
          /\ \A d \in Calls :
                At(d, "start_publish") /\ call[d].proc = call[c].proc => d = c

IInv == TypeOK /\ MachineWatched /\ LaunchedOnce

LEMMA InitInvariant == Init => IInv
  BY DriverAssumption DEF Init, IInv, TypeOK, MachineWatched, LaunchedOnce, At,
     Instance, NewInstance, Waiter, NoWaiter, Call, NoCall, CallPCs, AllOps,
     WithInstance, WithProcess

-----------------------------------------------------------------------------
(* Steps that only move calls, and what a call may look like after them *)

\* What a step does to the calls when it neither launches nor publishes.
CallsMove ==
    /\ call' \in [Calls -> Call]
    /\ \A c \in Calls :
          /\ call'[c].pc \in WithInstance => call'[c].inst # None
          /\ call'[c].pc \in WithProcess => call'[c].proc # None
          /\ At(c, "start_publish")' => call'[c] = call[c]

LEMMA ReturnMoves ==
    ASSUME TypeOK, NEW c \in Calls, Return(c) PROVE CallsMove
  BY DEF TypeOK, Return, CallsMove, NoCall, Call, CallPCs, AllOps, At,
     WithInstance, WithProcess

\* A call that goes on elsewhere than to the publication of a machine.
LEMMA StepMoves ==
    ASSUME TypeOK, NEW c \in Calls, NEW r \in Call, call' = [call EXCEPT ![c] = r],
           r.pc # "start_publish",
           r.pc \in WithInstance => r.inst # None,
           r.pc \in WithProcess => r.proc # None
    PROVE  CallsMove
  BY DEF TypeOK, CallsMove, At

\* Such a step leaves the invariant alone when it changes nothing else but the
\* jail and the contexts.
LEMMA MovesInvariant ==
    ASSUME IInv, CallsMove, UNCHANGED <<machines, inst, proc, waiter>>,
           cancelled' \subseteq Procs, jail' \in Procs \cup {None}
    PROVE  IInv'
  <1>1. TypeOK'
    BY DEF IInv, TypeOK, CallsMove
  <1>2. MachineWatched'
    BY DEF IInv, MachineWatched
  <1>3. LaunchedOnce'
    BY DEF IInv, LaunchedOnce, CallsMove, At
  <1>. QED
    BY <1>1, <1>2, <1>3 DEF IInv

-----------------------------------------------------------------------------
(* Each action keeps it *)

LEMMA CreateInvariant == ASSUME IInv, NEW c \in Calls, Create(c) PROVE IInv'
  <1>1. PICK i \in Instances :
            /\ machines' = i
            /\ inst' = [inst EXCEPT ![i] = NewInstance]
    BY DEF Create
  <1>2. proc' = proc /\ waiter' = waiter /\ call' = call /\ jail' = jail
        /\ cancelled' = cancelled
    BY DEF Create
  <1>3. TypeOK'
    BY <1>1, <1>2 DEF IInv, TypeOK, Instance, NewInstance, At
  <1>4. MachineWatched'
    BY <1>1, <1>2 DEF IInv, TypeOK, MachineWatched, NewInstance
  <1>5. LaunchedOnce'
    BY <1>2 DEF IInv, LaunchedOnce, At
  <1>. QED
    BY <1>3, <1>4, <1>5 DEF IInv

LEMMA CallInvariant ==
    ASSUME IInv, NEW c \in Calls, Start(c) \/ Stop(c) \/ Delete(c) \/ Wait(c)
    PROVE  IInv'
  <1>1. \E r \in Call :
            /\ call' = [call EXCEPT ![c] = r]
            /\ r.pc # "start_publish"
            /\ r.pc \in WithInstance => r.inst # None
            /\ r.pc \in WithProcess => r.proc # None
    <2>1. CASE Start(c)
      <3>. DEFINE r == [op |-> "start", pc |-> "start_clean", inst |-> machines,
                        proc |-> None]
      <3>1. machines \in Instances
        BY <2>1 DEF Start, MayLaunch, IInv, TypeOK
      <3>2. r \in Call /\ r.inst # None
        BY <3>1, DriverAssumption DEF Call, CallPCs, AllOps
      <3>3. call' = [call EXCEPT ![c] = r] /\ r.pc = "start_clean"
        BY <2>1 DEF Start
      <3>4. r.pc # "start_publish" /\ r.pc \notin WithProcess
        BY DEF WithProcess
      <3>. QED
        BY <3>2, <3>3, <3>4
    <2>2. ASSUME NEW op \in {"stop", "delete"},
                 call' = [call EXCEPT ![c] = [NoCall EXCEPT !.op = op, !.pc = "stop_read"]]
          PROVE  \E r \in Call :
                    /\ call' = [call EXCEPT ![c] = r]
                    /\ r.pc # "start_publish"
                    /\ r.pc \in WithInstance => r.inst # None
                    /\ r.pc \in WithProcess => r.proc # None
      <3>. DEFINE r == [NoCall EXCEPT !.op = op, !.pc = "stop_read"]
      <3>1. r \in Call /\ r.pc = "stop_read"
        BY DEF NoCall, Call, CallPCs, AllOps
      <3>2. "stop_read" \notin WithInstance \cup WithProcess \cup {"start_publish"}
        BY DEF WithInstance, WithProcess
      <3>. QED
        BY <2>2, <3>1, <3>2
    <2>3. CASE Wait(c)
      <3>1. machines \in Instances /\ inst[machines].done \in Procs
        BY <2>3 DEF Wait, IInv, TypeOK, Instance
      <3>. DEFINE r == [op |-> "wait", pc |-> "wait", inst |-> machines,
                        proc |-> inst[machines].done]
      <3>2. r \in Call /\ r.pc = "wait" /\ r.inst # None /\ r.proc # None
        BY <3>1, DriverAssumption DEF Call, CallPCs, AllOps
      <3>3. call' = [call EXCEPT ![c] = r]
        BY <2>3 DEF Wait
      <3>. QED
        BY <3>2, <3>3
    <2>4. Stop(c) \/ Delete(c) => \E op \in {"stop", "delete"} :
              call' = [call EXCEPT ![c] = [NoCall EXCEPT !.op = op, !.pc = "stop_read"]]
      BY DEF Stop, Delete
    <2>. QED
      BY <2>1, <2>2, <2>3, <2>4
  <1>2. CallsMove
    BY <1>1, StepMoves DEF IInv
  <1>3. UNCHANGED <<machines, inst, proc, cancelled, waiter, jail>>
    BY DEF Start, Stop, Delete, Wait
  <1>. QED
    BY <1>2, <1>3, MovesInvariant DEF IInv, TypeOK

LEMMA StartCleanInvariant ==
    ASSUME IInv, NEW c \in Calls, StartClean(c) PROVE IInv'
  <1>1. CallsMove
    <2>1. CASE Step(c, "start_launch")
      <3>1. [call[c] EXCEPT !.pc = "start_launch"] \in Call /\ call[c].inst # None
        BY DEF IInv, TypeOK, StartClean, At, Call, CallPCs, WithInstance
      <3>2. call' = [call EXCEPT ![c] = [call[c] EXCEPT !.pc = "start_launch"]]
        BY <2>1 DEF Step
      <3>. QED
        BY <3>1, <3>2, StepMoves DEF IInv, Call, WithProcess
    <2>2. CASE Return(c)
      BY <2>2, ReturnMoves DEF IInv
    <2>. QED
      BY <2>1, <2>2 DEF StartClean
  <1>2. UNCHANGED <<machines, inst, proc, cancelled, waiter>> /\ jail' \in {None, jail}
    BY DEF StartClean
  <1>. QED
    BY <1>1, <1>2, MovesInvariant DEF IInv, TypeOK

LEMMA StartLaunchInvariant ==
    ASSUME IInv, NEW c \in Calls, StartLaunch(c) PROVE IInv'
  <1>1. PICK p \in Procs :
            /\ proc[p] = "unused"
            /\ \/ /\ proc' = [proc EXCEPT ![p] = "up"]
                  /\ jail' = p
                  /\ cancelled' = cancelled
                  /\ call' = [call EXCEPT ![c] =
                        [@ EXCEPT !.pc = "start_publish", !.proc = p]]
               \/ /\ proc' = [proc EXCEPT ![p] = "dead"]
                  /\ jail' \in {jail, IF jail = None THEN p ELSE jail}
                  /\ cancelled' = cancelled \cup {p}
                  /\ Return(c)
    BY DEF StartLaunch
  <1>2. machines' = machines /\ inst' = inst /\ waiter' = waiter
    BY DEF StartLaunch
  <1>3. call[c].pc = "start_launch" /\ call[c].inst # None /\ call[c] \in Call
    BY DEF StartLaunch, At, IInv, TypeOK, WithInstance
  <1>4. MachineWatched'
    BY <1>2 DEF IInv, MachineWatched
  <1>5. CASE Return(c)
    <2>1. CallsMove
      BY <1>5, ReturnMoves DEF IInv
    <2>2. proc' \in [Procs -> {"unused", "up", "dead"}] /\ proc'[p] # "unused"
          /\ \A q \in Procs : proc'[q] = "unused" => proc[q] = "unused"
      BY <1>1 DEF IInv, TypeOK
    <2>3. jail' \in Procs \cup {None} /\ cancelled' \subseteq Procs
      BY <1>1 DEF IInv, TypeOK
    <2>4. TypeOK'
      BY <2>1, <2>2, <2>3, <1>2 DEF IInv, TypeOK, CallsMove
    <2>5. \A d \in Calls : At(d, "start_publish")' =>
              call'[d] = call[d] /\ call[d].proc \in Procs /\ At(d, "start_publish")
      BY <2>1 DEF CallsMove, At, IInv, TypeOK, Call, WithProcess
    <2>6. LaunchedOnce'
      BY <2>2, <2>5, <1>2 DEF IInv, LaunchedOnce, At
    <2>. QED
      BY <1>4, <2>4, <2>6 DEF IInv
  <1>6. CASE /\ proc' = [proc EXCEPT ![p] = "up"]
             /\ jail' = p
             /\ cancelled' = cancelled
             /\ call' = [call EXCEPT ![c] =
                   [@ EXCEPT !.pc = "start_publish", !.proc = p]]
    <2>1. call'[c] \in Call /\ call'[c].pc = "start_publish" /\ call'[c].proc = p
          /\ call'[c].inst # None
      BY <1>3, <1>6 DEF IInv, TypeOK, Call, CallPCs
    <2>2. call' \in [Calls -> Call] /\ \A d \in Calls \ {c} : call'[d] = call[d]
      BY <1>6, <2>1 DEF IInv, TypeOK
    <2>3. TypeOK'
      BY <2>1, <2>2, <1>2, <1>6, DriverAssumption DEF IInv, TypeOK
    <2>4. \A d \in Calls \ {c} : At(d, "start_publish") => call[d].proc # p
      BY <1>1 DEF IInv, LaunchedOnce
    <2>5. LaunchedOnce'
      <3>1. \A q \in Procs : proc'[q] = "unused" => proc[q] = "unused"
        BY <1>6 DEF IInv, TypeOK
      <3>2. proc'[p] = "up" /\ waiter'[p].pc = "none"
        BY <1>1, <1>2, <1>6 DEF IInv, TypeOK, LaunchedOnce
      <3>3. \A d \in Calls \ {c} : At(d, "start_publish") => call[d].proc \in Procs
        BY DEF IInv, TypeOK, At, Call, WithProcess
      <3>. QED
        BY <1>2, <2>1, <2>2, <2>4, <3>1, <3>2, <3>3 DEF IInv, LaunchedOnce, At
    <2>. QED
      BY <1>4, <2>3, <2>5 DEF IInv
  <1>. QED
    BY <1>1, <1>5, <1>6

LEMMA StartPublishInvariant ==
    ASSUME IInv, NEW c \in Calls, StartPublish(c) PROVE IInv'
  <1>. DEFINE p == call[c].proc
              i == call[c].inst
  <1>1. p \in Procs /\ i \in Instances /\ At(c, "start_publish")
    BY DEF StartPublish, IInv, TypeOK, At, Call, WithInstance, WithProcess
  <1>2. /\ inst' = [inst EXCEPT ![i] = [machine |-> p, done |-> p, cancel |-> p]]
        /\ waiter' = [waiter EXCEPT ![p] = [pc |-> "wait", inst |-> i]]
        /\ machines' = machines /\ proc' = proc /\ cancelled' = cancelled
        /\ jail' = jail
    BY DEF StartPublish
  <1>3. CallsMove
    BY ReturnMoves DEF IInv, StartPublish
  <1>4. waiter[p].pc = "none" /\ proc[p] # "unused"
    BY <1>1 DEF IInv, LaunchedOnce
  <1>5. TypeOK'
    <2>1. inst' \in [Instances -> Instance]
      BY <1>1, <1>2 DEF IInv, TypeOK, Instance
    <2>2. waiter' \in [Procs -> Waiter] /\
          \A q \in Procs : waiter'[q].pc = "wait" => waiter'[q].inst # None
      BY <1>1, <1>2, DriverAssumption DEF IInv, TypeOK, Waiter
    <2>. QED
      BY <2>1, <2>2, <1>2, <1>3 DEF IInv, TypeOK, CallsMove
  <1>6. MachineWatched'
    <2>. SUFFICES ASSUME NEW j \in Instances, inst'[j].machine # None
                  PROVE  /\ inst'[j].done = inst'[j].machine
                         /\ waiter'[inst'[j].machine].pc = "wait"
                         /\ waiter'[inst'[j].machine].inst = j
      BY DEF MachineWatched
    <2>1. CASE j = i
      BY <2>1, <1>1, <1>2 DEF IInv, TypeOK
    <2>2. CASE j # i
      <3>1. inst'[j] = inst[j] /\ inst[j].machine \in Procs
        BY <2>2, <1>1, <1>2 DEF IInv, TypeOK, Instance
      <3>2. inst[j].machine # p
        BY <3>1, <1>4 DEF IInv, MachineWatched
      <3>. QED
        BY <3>1, <3>2, <1>2, <1>1 DEF IInv, TypeOK, MachineWatched
    <2>. QED
      BY <2>1, <2>2
  <1>7. LaunchedOnce'
    <2>1. \A d \in Calls : At(d, "start_publish")' =>
              /\ call'[d] = call[d]
              /\ At(d, "start_publish")
              /\ call[d].proc \in Procs
              /\ call[d].proc # p
      <3>1. ~At(c, "start_publish")'
        BY DEF StartPublish, Return, NoCall, At, IInv, TypeOK
      <3>2. \A d \in Calls : At(d, "start_publish")' =>
                call'[d] = call[d] /\ At(d, "start_publish")
        BY <1>3 DEF CallsMove, At
      <3>3. \A d \in Calls : At(d, "start_publish") => call[d].proc \in Procs
        BY DEF IInv, TypeOK, At, Call, WithProcess
      <3>. QED
        BY <1>1, <3>1, <3>2, <3>3 DEF IInv, LaunchedOnce
    <2>2. \A q \in Procs \ {p} : waiter'[q] = waiter[q]
      BY <1>1, <1>2 DEF IInv, TypeOK
    <2>3. \A q \in Procs : proc'[q] = "unused" => q # p /\ waiter'[q].pc = "none"
      BY <1>2, <1>4, <2>2 DEF IInv, LaunchedOnce
    <2>. QED
      BY <1>2, <2>1, <2>2, <2>3 DEF IInv, LaunchedOnce, At
  <1>. QED
    BY <1>5, <1>6, <1>7 DEF IInv

LEMMA WaiterClearInvariant ==
    ASSUME IInv, NEW p \in Procs, WaiterClear(p) PROVE IInv'
  <1>. DEFINE i == waiter[p].inst
  <1>1. i \in Instances /\ waiter[p].pc = "wait"
    BY DEF WaiterClear, IInv, TypeOK, Waiter
  <1>2. /\ inst' = [inst EXCEPT ![i].machine = None]
        /\ waiter' = [waiter EXCEPT ![p] = [pc |-> "close", inst |-> None]]
        /\ machines' = machines /\ proc' = proc /\ cancelled' = cancelled
        /\ jail' = jail /\ call' = call
    BY DEF WaiterClear
  <1>3. TypeOK'
    <2>1. inst' \in [Instances -> Instance]
      BY <1>1, <1>2 DEF IInv, TypeOK, Instance
    <2>2. waiter' \in [Procs -> Waiter] /\
          \A q \in Procs : waiter'[q].pc = "wait" => waiter'[q].inst # None
      BY <1>1, <1>2 DEF IInv, TypeOK, Waiter
    <2>. QED
      BY <2>1, <2>2, <1>2 DEF IInv, TypeOK
  <1>4. MachineWatched'
    <2>. SUFFICES ASSUME NEW j \in Instances, inst'[j].machine # None
                  PROVE  /\ inst'[j].done = inst'[j].machine
                         /\ waiter'[inst'[j].machine].pc = "wait"
                         /\ waiter'[inst'[j].machine].inst = j
      BY DEF MachineWatched
    <2>1. j # i
      BY <1>1, <1>2 DEF IInv, TypeOK, Instance
    <2>2. inst'[j] = inst[j] /\ inst[j].machine \in Procs
      BY <2>1, <1>1, <1>2 DEF IInv, TypeOK, Instance
    <2>3. inst[j].machine # p
      BY <2>1, <2>2 DEF IInv, MachineWatched
    <2>. QED
      BY <2>2, <2>3, <1>2 DEF IInv, TypeOK, MachineWatched
  <1>5. LaunchedOnce'
    <2>1. \A q \in Procs : proc[q] = "unused" => q # p
      BY <1>1 DEF IInv, LaunchedOnce
    <2>2. \A d \in Calls : At(d, "start_publish") =>
              call[d].proc \in Procs \ {p}
      BY <1>1 DEF IInv, LaunchedOnce, TypeOK, At, Call, WithProcess
    <2>3. \A q \in Procs \ {p} : waiter'[q] = waiter[q]
      BY <1>2 DEF IInv, TypeOK
    <2>. QED
      BY <1>2, <2>1, <2>2, <2>3 DEF IInv, LaunchedOnce, At
  <1>. QED
    BY <1>3, <1>4, <1>5 DEF IInv

LEMMA WaiterCloseInvariant ==
    ASSUME IInv, NEW p \in Procs, WaiterClose(p) PROVE IInv'
  <1>1. /\ waiter[p].pc = "close"
        /\ cancelled' = cancelled \cup {p}
        /\ waiter' = [waiter EXCEPT ![p].pc = "gone"]
        /\ machines' = machines /\ inst' = inst /\ proc' = proc /\ jail' = jail
        /\ call' = call
    BY DEF WaiterClose
  <1>2. \A q \in Procs \ {p} : waiter'[q] = waiter[q]
    BY <1>1 DEF IInv, TypeOK
  <1>3. waiter'[p].pc = "gone" /\ waiter' \in [Procs -> Waiter]
    BY <1>1 DEF IInv, TypeOK, Waiter
  <1>4. TypeOK'
    BY <1>1, <1>2, <1>3 DEF IInv, TypeOK
  <1>5. MachineWatched'
    <2>1. \A i \in Instances : inst[i].machine # None => inst[i].machine \in Procs \ {p}
      BY <1>1 DEF IInv, TypeOK, Instance, MachineWatched
    <2>. QED
      BY <1>1, <1>2, <2>1 DEF IInv, MachineWatched
  <1>6. LaunchedOnce'
    <2>1. \A q \in Procs : proc[q] = "unused" => q # p
      BY <1>1 DEF IInv, LaunchedOnce
    <2>2. \A d \in Calls : At(d, "start_publish") => call[d].proc \in Procs \ {p}
      BY <1>1 DEF IInv, LaunchedOnce, TypeOK, At, Call, WithProcess
    <2>. QED
      BY <1>1, <1>2, <2>1, <2>2 DEF IInv, LaunchedOnce, At
  <1>. QED
    BY <1>4, <1>5, <1>6 DEF IInv

LEMMA StopReturnsMoves ==
    ASSUME IInv, NEW c \in Calls, StopReturns(c) PROVE CallsMove
  <1>1. CASE Return(c)
    BY <1>1, ReturnMoves DEF IInv
  <1>2. CASE call' = [call EXCEPT ![c] =
                       [NoCall EXCEPT !.op = "delete", !.pc = "delete_forget"]]
    <2>. DEFINE r == [NoCall EXCEPT !.op = "delete", !.pc = "delete_forget"]
    <2>1. r \in Call /\ r.pc = "delete_forget"
      BY DEF NoCall, Call, CallPCs, AllOps
    <2>2. "delete_forget" \notin WithInstance \cup WithProcess \cup {"start_publish"}
      BY DEF WithInstance, WithProcess
    <2>. QED
      BY <1>2, <2>1, <2>2, StepMoves DEF IInv
  <1>. QED
    BY <1>1, <1>2 DEF StopReturns

LEMMA StopReadInvariant ==
    ASSUME IInv, NEW c \in Calls, StopRead(c) PROVE IInv'
  <1>1. CallsMove
    <2>1. CASE StopReturns(c)
      BY <2>1, StopReturnsMoves
    <2>2. CASE /\ Started
               /\ call' = [call EXCEPT ![c] =
                     [@ EXCEPT !.pc = "stop_wait", !.inst = machines,
                               !.proc = inst[machines].done]]
      <3>1. machines \in Instances /\ inst[machines].done \in Procs
        BY <2>2 DEF Started, IInv, TypeOK, Instance, MachineWatched
      <3>. DEFINE r == [call[c] EXCEPT !.pc = "stop_wait", !.inst = machines,
                                       !.proc = inst[machines].done]
      <3>2. r \in Call /\ r.pc = "stop_wait" /\ r.inst # None /\ r.proc # None
        BY <3>1, DriverAssumption DEF IInv, TypeOK, Call, CallPCs
      <3>3. call' = [call EXCEPT ![c] = r]
        BY <2>2
      <3>. QED
        BY <3>2, <3>3, StepMoves DEF IInv
    <2>. QED
      BY <2>1, <2>2 DEF StopRead
  <1>2. UNCHANGED <<machines, inst, proc, cancelled, waiter, jail>>
    BY DEF StopRead
  <1>. QED
    BY <1>1, <1>2, MovesInvariant DEF IInv, TypeOK

LEMMA StopWaitInvariant ==
    ASSUME IInv, NEW c \in Calls, StopWait(c) \/ StopGivesUp(c) PROVE IInv'
  <1>. DEFINE r == [call[c] EXCEPT !.pc = "stop_clear"]
  <1>1. call[c] \in Call /\ call[c].inst # None /\ call[c].proc \in Procs
    BY DEF IInv, TypeOK, StopWait, StopGivesUp, At, Call, WithInstance, WithProcess
  <1>2. r \in Call /\ r.pc = "stop_clear" /\ r.inst # None /\ r.proc # None
    BY <1>1, DriverAssumption DEF Call, CallPCs
  <1>3. call' = [call EXCEPT ![c] = r]
    BY DEF StopWait, StopGivesUp, Step
  <1>4. CallsMove
    BY <1>2, <1>3, StepMoves DEF IInv
  <1>5. UNCHANGED <<machines, inst, proc, waiter, jail>> /\ cancelled' \subseteq Procs
    BY <1>1 DEF StopWait, StopGivesUp, IInv, TypeOK
  <1>. QED
    BY <1>4, <1>5, MovesInvariant DEF IInv, TypeOK

LEMMA StopClearInvariant ==
    ASSUME IInv, NEW c \in Calls, StopClear(c) PROVE IInv'
  <1>. DEFINE i == call[c].inst
  <1>1. i \in Instances
    BY DEF StopClear, At, IInv, TypeOK, Call, WithInstance
  <1>2. /\ inst' = [inst EXCEPT ![i] = [@ EXCEPT !.machine = None, !.cancel = None]]
        /\ cancelled' = cancelled \cup ({inst[i].cancel} \ {None})
        /\ machines' = machines /\ proc' = proc /\ waiter' = waiter /\ jail' = jail
    BY DEF StopClear
  <1>3. CallsMove
    BY StopReturnsMoves DEF StopClear
  <1>4. inst' \in [Instances -> Instance] /\ inst'[i].machine = None
        /\ \A j \in Instances \ {i} : inst'[j] = inst[j]
    BY <1>1, <1>2 DEF IInv, TypeOK, Instance
  <1>5. cancelled' \subseteq Procs
    BY <1>1, <1>2 DEF IInv, TypeOK, Instance
  <1>6. TypeOK'
    BY <1>2, <1>3, <1>4, <1>5 DEF IInv, TypeOK, CallsMove
  <1>7. MachineWatched'
    BY <1>2, <1>4 DEF IInv, MachineWatched
  <1>8. LaunchedOnce'
    BY <1>2, <1>3 DEF IInv, LaunchedOnce, CallsMove, At
  <1>. QED
    BY <1>6, <1>7, <1>8 DEF IInv

LEMMA DeleteForgetInvariant ==
    ASSUME IInv, NEW c \in Calls, DeleteForget(c) PROVE IInv'
  <1>. DEFINE r == [call[c] EXCEPT !.pc = "delete_remove"]
  <1>1. r \in Call /\ r.pc = "delete_remove"
    BY DEF IInv, TypeOK, Call, CallPCs
  <1>2. call' = [call EXCEPT ![c] = r]
    BY DEF DeleteForget, Step
  <1>3. CallsMove
    BY <1>1, <1>2, StepMoves DEF IInv, WithInstance, WithProcess
  <1>4. machines' = None /\ inst' = inst /\ proc' = proc /\ cancelled' = cancelled
        /\ waiter' = waiter /\ jail' = jail
    BY DEF DeleteForget
  <1>5. TypeOK'
    BY <1>3, <1>4 DEF IInv, TypeOK, CallsMove
  <1>6. MachineWatched' /\ LaunchedOnce'
    BY <1>3, <1>4 DEF IInv, MachineWatched, LaunchedOnce, CallsMove, At
  <1>. QED
    BY <1>5, <1>6 DEF IInv

LEMMA ReturnInvariant ==
    ASSUME IInv, NEW c \in Calls, DeleteRemove(c) \/ WaitDone(c) \/ WaitCancelled(c)
    PROVE  IInv'
  <1>1. CallsMove
    BY ReturnMoves DEF IInv, DeleteRemove, WaitDone, WaitCancelled
  <1>2. UNCHANGED <<machines, inst, proc, cancelled, waiter>> /\ jail' \in {None, jail}
    BY DEF DeleteRemove, WaitDone, WaitCancelled
  <1>. QED
    BY <1>1, <1>2, MovesInvariant DEF IInv, TypeOK

LEMMA EndInvariant == ASSUME IInv, NEW p \in Procs, End(p) PROVE IInv'
  <1>1. /\ proc' = [proc EXCEPT ![p] = "dead"]
        /\ machines' = machines /\ inst' = inst /\ cancelled' = cancelled
        /\ waiter' = waiter /\ jail' = jail /\ call' = call
    BY DEF End
  <1>2. proc' \in [Procs -> {"unused", "up", "dead"}]
        /\ \A q \in Procs : proc'[q] = "unused" <=> proc[q] = "unused"
    BY <1>1 DEF End, IInv, TypeOK
  <1>3. TypeOK'
    BY <1>1, <1>2 DEF IInv, TypeOK
  <1>4. MachineWatched'
    BY <1>1 DEF IInv, MachineWatched
  <1>5. LaunchedOnce'
    <2>1. \A d \in Calls : At(d, "start_publish") => call[d].proc \in Procs
      BY DEF IInv, TypeOK, At, Call, WithProcess
    <2>. QED
      BY <1>1, <1>2, <2>1 DEF IInv, LaunchedOnce, At
  <1>. QED
    BY <1>3, <1>4, <1>5 DEF IInv

LEMMA StutterInvariant == ASSUME IInv, UNCHANGED vars PROVE IInv'
  BY DEF vars, IInv, TypeOK, MachineWatched, LaunchedOnce, At

LEMMA NextInvariant == ASSUME IInv, [Next]_vars PROVE IInv'
  <1>1. CASE UNCHANGED vars
    BY <1>1, StutterInvariant
  <1>2. ASSUME NEW c \in Calls, Method(c) PROVE IInv'
    BY <1>2, CreateInvariant, CallInvariant DEF Method
  <1>3. ASSUME NEW c \in Calls, Proceed(c) PROVE IInv'
    BY <1>3, StartCleanInvariant, StartLaunchInvariant, StartPublishInvariant,
       StopReadInvariant, StopWaitInvariant, StopClearInvariant,
       DeleteForgetInvariant, ReturnInvariant DEF Proceed
  <1>4. ASSUME NEW c \in Calls, StopGivesUp(c) \/ WaitCancelled(c) PROVE IInv'
    BY <1>4, StopWaitInvariant, ReturnInvariant
  <1>5. ASSUME NEW p \in Procs, Waited(p) \/ End(p) PROVE IInv'
    BY <1>5, WaiterClearInvariant, WaiterCloseInvariant, EndInvariant DEF Waited
  <1>. QED
    BY <1>1, <1>2, <1>3, <1>4, <1>5 DEF Next

-----------------------------------------------------------------------------

\* The variables keep their types; in particular no call ever waits on a nil
\* done channel.
THEOREM TypeCorrect == Spec => []TypeOK
  <1>1. IInv => TypeOK
    BY DEF IInv
  <1>. QED
    BY InitInvariant, NextInvariant, <1>1, PTL DEF Spec

\* Whoever is woken by done may start the VM again: no instance still refers to
\* the process that has ended.
THEOREM WokenMayAlwaysStart == Spec => []WokenMayStart
  <1>1. IInv => WokenMayStart
    BY DriverAssumption DEF IInv, TypeOK, Instance, MachineWatched, WokenMayStart, Closed
  <1>. QED
    BY InitInvariant, NextInvariant, <1>1, PTL DEF Spec

-----------------------------------------------------------------------------
(* Calls made one at a time, and no process that outlives Stop *)

\* At most one call other than Wait is under way; Stop runs for itself or for
\* Delete.
OneWorker ==
    /\ \A c, d \in Calls : Working(c) /\ Working(d) => c = d
    /\ \A c \in Calls : call[c].pc \in {"stop_read", "stop_wait", "stop_clear"} =>
          call[c].op \in {"stop", "delete"}

\* A waiter waits for the machine its instance holds.
WaiterTracks ==
    \A p \in Procs : waiter[p].pc = "wait" => inst[waiter[p].inst].machine = p

\* What was cancelled, or whose waiter is past its wait, has ended.
EndedForGood ==
    /\ \A p \in Procs : p \in cancelled \/ waiter[p].pc \in {"close", "gone"} =>
          proc[p] = "dead"
    /\ \A i \in Instances : inst[i].cancel # None => proc[inst[i].cancel] # "unused"

NoMachine == machines # None => inst[machines].machine = None

\* A process that runs is about to be published, or is the VM's machine.
UpIsHeld ==
    \A p \in Procs : proc[p] = "up" =>
        \/ \E c \in Calls : At(c, "start_publish") /\ call[c].proc = p
        \/ machines # None /\ inst[machines].machine = p

\* What the call under way may rely on since its first section.
CallKnows ==
    \A c \in Calls :
        /\ call[c].pc \in {"start_clean", "start_launch", "start_publish"} =>
              call[c].inst = machines /\ NoMachine
        /\ At(c, "stop_wait") =>
              /\ call[c].inst = machines
              /\ inst[machines].machine \in {None, call[c].proc}
        /\ At(c, "stop_clear") => call[c].inst = machines /\ NoMachine
        /\ call[c].pc \in {"delete_forget", "delete_remove"} => NoMachine

SInv ==
    IInv /\ OneWorker /\ WaiterTracks /\ EndedForGood /\ UpIsHeld /\ CallKnows

LEMMA InitSerial == Init => SInv
  <1>. SUFFICES ASSUME Init PROVE SInv
    OBVIOUS
  <1>1. WaiterTracks /\ EndedForGood /\ UpIsHeld
    BY DEF Init, WaiterTracks, EndedForGood, UpIsHeld, NewInstance, NoWaiter
  <1>2. OneWorker /\ CallKnows
    BY DEF Init, OneWorker, Working, CallKnows, At, NoCall
  <1>. QED
    BY <1>1, <1>2, InitInvariant DEF SInv

\* Nobody but c, if anyone, works.
Alone(c) == \A d \in Calls \ {c} : ~Working(d)

OthersKept(c) == \A d \in Calls \ {c} : call'[d] = call[d]

LEMMA WorkerAlone == ASSUME SInv, NEW c \in Calls, Working(c) PROVE Alone(c)
  BY DEF SInv, OneWorker, Alone

LEMMA OthersAreKept ==
    ASSUME SInv, NEW c \in Calls, NEW r, call' = [call EXCEPT ![c] = r]
    PROVE  OthersKept(c)
  BY DEF OthersKept, SInv, IInv, TypeOK

LEMMA StopReturnsKeepsOthers ==
    ASSUME SInv, NEW c \in Calls, StopReturns(c) PROVE OthersKept(c)
  <1>1. CASE Return(c)
    BY <1>1, OthersAreKept DEF Return
  <1>2. CASE call' = [call EXCEPT ![c] =
                       [NoCall EXCEPT !.op = "delete", !.pc = "delete_forget"]]
    BY <1>2, OthersAreKept
  <1>. QED
    BY <1>1, <1>2 DEF StopReturns

\* With nobody at a publication, and no machine, nothing runs.
LEMMA NothingUp ==
    ASSUME SInv, NoMachine, \A c \in Calls : ~At(c, "start_publish"),
           NEW p \in Procs
    PROVE  proc[p] # "up"
  BY DriverAssumption DEF SInv, UpIsHeld, NoMachine

\* The same when a lone caller is not at a publication.
LEMMA NothingUpAlone ==
    ASSUME SInv, NoMachine, NEW c \in Calls, Alone(c), ~At(c, "start_publish"),
           NEW p \in Procs
    PROVE  proc[p] # "up"
  <1>1. \A d \in Calls : ~At(d, "start_publish")
    BY DEF Alone, Working, At
  <1>. QED
    BY <1>1, NothingUp

\* A step of a lone caller that changes its call only.
LEMMA CallSerial ==
    ASSUME SInv, IInv', NEW c \in Calls, Alone(c), OthersKept(c),
           UNCHANGED <<machines, inst, proc, waiter>>,
           cancelled' = cancelled,
           ~At(c, "start_publish"),
           call'[c].pc \in {"stop_read", "stop_wait", "stop_clear"} =>
              call'[c].op \in {"stop", "delete"},
           call'[c].pc \in {"start_clean", "start_launch", "start_publish"} =>
              call'[c].inst = machines /\ NoMachine,
           call'[c].pc = "stop_wait" =>
              /\ call'[c].inst = machines
              /\ inst[machines].machine \in {None, call'[c].proc},
           call'[c].pc = "stop_clear" => call'[c].inst = machines /\ NoMachine,
           call'[c].pc \in {"delete_forget", "delete_remove"} => NoMachine
    PROVE  SInv'
  <1>1. WaiterTracks' /\ EndedForGood'
    BY DEF SInv, WaiterTracks, EndedForGood
  <1>2. UpIsHeld'
    <2>1. \A d \in Calls : ~At(d, "start_publish")
      BY DEF Alone, Working, At
    <2>. QED
      BY <2>1 DEF SInv, UpIsHeld
  <1>3. CallKnows'
    BY DEF SInv, CallKnows, NoMachine, At, OthersKept
  <1>4. OneWorker'
    BY DEF SInv, OneWorker, Alone, OthersKept, Working
  <1>. QED
    BY <1>1, <1>2, <1>3, <1>4 DEF SInv

\* A step of a Wait, whoever else works.
LEMMA WaitSerial ==
    ASSUME SInv, IInv', NEW c \in Calls, OthersKept(c),
           UNCHANGED <<machines, inst, proc, waiter>>,
           cancelled' = cancelled,
           ~Working(c), call'[c].pc \in {"idle", "wait"}
    PROVE  SInv'
  <1>1. WaiterTracks' /\ EndedForGood'
    BY DEF SInv, WaiterTracks, EndedForGood
  <1>2. UpIsHeld'
    <2>1. \A d \in Calls : At(d, "start_publish") => d # c
      BY DEF Working, At
    <2>. QED
      BY <2>1 DEF SInv, UpIsHeld, OthersKept, At
  <1>3. CallKnows'
    BY DEF SInv, CallKnows, NoMachine, At, OthersKept
  <1>4. OneWorker'
    BY DEF SInv, OneWorker, OthersKept, Working
  <1>. QED
    BY <1>1, <1>2, <1>3, <1>4 DEF SInv

LEMMA CreateSerial ==
    ASSUME SInv, IInv', NEW c \in Calls, Create(c), Alone(c) PROVE SInv'
  <1>1. PICK i \in Instances :
            /\ Free(i)
            /\ machines' = i
            /\ inst' = [inst EXCEPT ![i] = NewInstance]
    BY DEF Create
  <1>2. UNCHANGED <<proc, cancelled, waiter, jail, call>>
    BY DEF Create
  <1>3. inst'[i] = NewInstance /\ \A j \in Instances \ {i} : inst'[j] = inst[j]
    BY <1>1 DEF SInv, IInv, TypeOK
  <1>4. \A p \in Procs : proc[p] # "up"
    BY NothingUpAlone DEF Create, MayPrepare, Started, Idle, At, NoMachine
  <1>5. WaiterTracks'
    <2>1. \A p \in Procs : waiter[p].pc = "wait" => waiter[p].inst \in Instances \ {i}
      BY <1>1 DEF Free, SInv, IInv, TypeOK, Waiter
    <2>. QED
      BY <1>2, <1>3, <2>1 DEF SInv, WaiterTracks
  <1>6. EndedForGood'
    BY <1>2, <1>3 DEF SInv, EndedForGood, NewInstance
  <1>7. UpIsHeld'
    BY <1>2, <1>4 DEF UpIsHeld
  <1>8. CallKnows'
    <2>1. \A d \in Calls : call[d].pc \in {"idle", "wait"}
      BY DEF Alone, Working, Create, Idle, At
    <2>. QED
      BY <1>2, <2>1 DEF CallKnows, At
  <1>9. OneWorker'
    BY <1>2 DEF SInv, OneWorker, Working
  <1>. QED
    BY <1>5, <1>6, <1>7, <1>8, <1>9 DEF SInv

LEMMA FirstSectionSerial ==
    ASSUME SInv, IInv', NEW c \in Calls, Alone(c), Start(c) \/ Stop(c) \/ Delete(c)
    PROVE  SInv'
  <1>1. UNCHANGED <<machines, inst, proc, waiter>> /\ cancelled' = cancelled
        /\ ~At(c, "start_publish")
    BY DEF Start, Stop, Delete, Idle, At
  <1>2. OthersKept(c)
    BY OthersAreKept DEF Start, Stop, Delete
  <1>3. CASE Start(c)
    <2>1. call'[c].pc = "start_clean" /\ call'[c].inst = machines /\ NoMachine
      BY <1>3 DEF Start, MayLaunch, Started, NoMachine, SInv, IInv, TypeOK
    <2>. QED
      BY <1>1, <1>2, <2>1, CallSerial
  <1>4. CASE Stop(c) \/ Delete(c)
    <2>2. ASSUME NEW op \in {"stop", "delete"},
                 call' = [call EXCEPT ![c] = [NoCall EXCEPT !.op = op, !.pc = "stop_read"]]
          PROVE  call'[c].pc = "stop_read" /\ call'[c].op = op
      BY <2>2 DEF NoCall, SInv, IInv, TypeOK
    <2>1. call'[c].pc = "stop_read" /\ call'[c].op \in {"stop", "delete"}
      BY <1>4, <2>2 DEF Stop, Delete
    <2>. QED
      BY <1>1, <1>2, <2>1, CallSerial
  <1>. QED
    BY <1>3, <1>4

LEMMA StartCleanSerial ==
    ASSUME SInv, IInv', NEW c \in Calls, StartClean(c) PROVE SInv'
  <1>1. UNCHANGED <<machines, inst, proc, waiter>> /\ cancelled' = cancelled
        /\ ~At(c, "start_publish")
    BY DEF StartClean, At
  <1>2. call[c].inst = machines /\ NoMachine
    BY DEF StartClean, At, SInv, CallKnows
  <1>3. call'[c].pc \in {"start_launch", "idle"}
        /\ (call'[c].pc = "start_launch" => call'[c].inst = call[c].inst)
    BY DEF StartClean, Step, Return, NoCall, SInv, IInv, TypeOK, Call
  <1>4. Alone(c)
    BY WorkerAlone DEF StartClean, At, Working
  <1>5. OthersKept(c)
    BY OthersAreKept DEF StartClean, Step, Return
  <1>. QED
    BY <1>1, <1>2, <1>3, <1>4, <1>5, CallSerial

LEMMA StartLaunchSerial ==
    ASSUME SInv, IInv', NEW c \in Calls, StartLaunch(c) PROVE SInv'
  <1>1. PICK p \in Procs :
            /\ proc[p] = "unused"
            /\ \/ /\ proc' = [proc EXCEPT ![p] = "up"]
                  /\ cancelled' = cancelled
                  /\ call' = [call EXCEPT ![c] =
                        [@ EXCEPT !.pc = "start_publish", !.proc = p]]
               \/ /\ proc' = [proc EXCEPT ![p] = "dead"]
                  /\ cancelled' = cancelled \cup {p}
                  /\ Return(c)
    BY DEF StartLaunch
  <1>2. machines' = machines /\ inst' = inst /\ waiter' = waiter
    BY DEF StartLaunch
  <1>3. \A q \in Procs : proc[q] # "up"
    BY NothingUpAlone, WorkerAlone DEF StartLaunch, At, Working, SInv, CallKnows
  <1>4. call[c].inst = machines /\ NoMachine
    BY DEF StartLaunch, At, SInv, CallKnows
  <1>5. \A q \in Procs \ {p} : proc'[q] = proc[q]
    BY <1>1 DEF SInv, IInv, TypeOK
  <1>6. proc'[p] \in {"up", "dead"} /\ p \notin cancelled /\ waiter[p].pc = "none"
    BY <1>1 DEF SInv, IInv, TypeOK, LaunchedOnce, EndedForGood
  <1>7. WaiterTracks'
    BY <1>2 DEF SInv, WaiterTracks
  <1>8. EndedForGood'
    <2>1. \A q \in Procs : q \in cancelled' => q \in cancelled \/ (q = p /\ proc'[p] = "dead")
      BY <1>1 DEF SInv, IInv, TypeOK
    <2>2. \A j \in Instances : inst[j].cancel # None => inst[j].cancel \in Procs
      BY DEF SInv, IInv, TypeOK, Instance
    <2>. QED
      BY <1>2, <1>5, <1>6, <2>1, <2>2 DEF SInv, EndedForGood
  <1>9. UpIsHeld'
    <2>1. CASE call' = [call EXCEPT ![c] =
                  [@ EXCEPT !.pc = "start_publish", !.proc = p]]
      <3>1. call'[c].pc = "start_publish" /\ call'[c].proc = p
        BY <2>1 DEF SInv, IInv, TypeOK, Call
      <3>. QED
        BY <1>3, <1>5, <3>1 DEF UpIsHeld, At
    <2>2. CASE proc' = [proc EXCEPT ![p] = "dead"]
      BY <1>3, <2>2 DEF UpIsHeld, SInv, IInv, TypeOK
    <2>. QED
      BY <1>1, <2>1, <2>2
  <1>11. OthersKept(c)
    BY <1>1, OthersAreKept DEF Return
  <1>10. CallKnows'
    <2>1. Return(c) => call'[c].pc = "idle"
      BY DEF Return, NoCall, SInv, IInv, TypeOK
    <2>2. call' = [call EXCEPT ![c] = [@ EXCEPT !.pc = "start_publish", !.proc = p]] =>
              call'[c].pc = "start_publish" /\ call'[c].inst = call[c].inst
      BY DEF SInv, IInv, TypeOK, Call
    <2>. QED
      BY <1>1, <1>2, <1>4, <1>11, <2>1, <2>2 DEF SInv, CallKnows, NoMachine, At, OthersKept
  <1>12. OneWorker'
    <2>3. Return(c) => call'[c].pc = "idle"
      BY DEF Return, NoCall, SInv, IInv, TypeOK
    <2>4. call' = [call EXCEPT ![c] = [@ EXCEPT !.pc = "start_publish", !.proc = p]] =>
              call'[c].pc = "start_publish"
      BY DEF SInv, IInv, TypeOK, Call
    <2>1. call'[c].pc \in {"idle", "start_publish"}
      BY <1>1, <2>3, <2>4
    <2>2. Working(c)
      BY DEF StartLaunch, At, Working
    <2>. QED
      BY <1>11, <2>1, <2>2 DEF SInv, OneWorker, OthersKept, Working
  <1>. QED
    BY <1>7, <1>8, <1>9, <1>10, <1>12 DEF SInv

LEMMA StartPublishSerial ==
    ASSUME SInv, IInv', NEW c \in Calls, StartPublish(c) PROVE SInv'
  <1>. DEFINE p == call[c].proc
  <1>1. p \in Procs /\ At(c, "start_publish") /\ machines \in Instances
        /\ call[c].inst = machines /\ inst[machines].machine = None
    BY DEF StartPublish, SInv, CallKnows, NoMachine, IInv, TypeOK, At, Call,
       WithInstance, WithProcess
  <1>2. /\ inst' = [inst EXCEPT ![machines] = [machine |-> p, done |-> p, cancel |-> p]]
        /\ waiter' = [waiter EXCEPT ![p] = [pc |-> "wait", inst |-> machines]]
        /\ machines' = machines /\ proc' = proc /\ cancelled' = cancelled
    BY <1>1 DEF StartPublish
  <1>3. call'[c].pc = "idle"
    BY DEF StartPublish, Return, NoCall, SInv, IInv, TypeOK
  <1>4. inst'[machines] = [machine |-> p, done |-> p, cancel |-> p]
        /\ \A j \in Instances \ {machines} : inst'[j] = inst[j]
    BY <1>1, <1>2 DEF SInv, IInv, TypeOK
  <1>5. waiter'[p] = [pc |-> "wait", inst |-> machines]
        /\ \A q \in Procs \ {p} : waiter'[q] = waiter[q]
    BY <1>1, <1>2 DEF SInv, IInv, TypeOK
  <1>6. WaiterTracks'
    <2>1. \A q \in Procs : waiter[q].pc = "wait" => waiter[q].inst \in Instances \ {machines}
      BY <1>1, DriverAssumption DEF SInv, WaiterTracks, IInv, TypeOK, Waiter
    <2>. QED
      BY <1>4, <1>5, <2>1 DEF SInv, WaiterTracks
  <1>7. EndedForGood'
    <2>1. proc[p] # "unused"
      BY <1>1 DEF SInv, IInv, LaunchedOnce
    <2>. QED
      BY <1>2, <1>4, <1>5, <2>1 DEF SInv, EndedForGood
  <1>9. Alone(c) /\ OthersKept(c)
    BY <1>1, WorkerAlone, OthersAreKept DEF StartPublish, Return, At, Working
  <1>8. UpIsHeld'
    <2>1. \A q \in Procs : proc[q] = "up" => q = p
      BY <1>1, <1>9, DriverAssumption DEF Alone, Working, At, SInv, UpIsHeld
    <2>. QED
      BY <1>1, <1>2, <1>4, <2>1, DriverAssumption DEF UpIsHeld
  <1>10. CallKnows' /\ OneWorker'
    BY <1>3, <1>9 DEF Alone, OthersKept, Working, OneWorker, CallKnows, At
  <1>. QED
    BY <1>6, <1>7, <1>8, <1>10 DEF SInv

\* Stop is over, or goes on in Delete.
LEMMA StopReturnsTo ==
    ASSUME SInv, NEW c \in Calls, StopReturns(c)
    PROVE  call'[c].pc \in {"idle", "delete_forget"}
  <1>1. Return(c) => call'[c].pc = "idle"
    BY DEF Return, NoCall, SInv, IInv, TypeOK
  <1>2. call' = [call EXCEPT ![c] =
                   [NoCall EXCEPT !.op = "delete", !.pc = "delete_forget"]] =>
            call'[c].pc = "delete_forget"
    BY DEF NoCall, SInv, IInv, TypeOK
  <1>. QED
    BY <1>1, <1>2 DEF StopReturns

LEMMA WaiterClearSerial ==
    ASSUME SInv, IInv', NEW p \in Procs, WaiterClear(p) PROVE SInv'
  <1>. DEFINE i == waiter[p].inst
  <1>1. i \in Instances /\ waiter[p].pc = "wait" /\ inst[i].machine = p
    BY DEF WaiterClear, SInv, WaiterTracks, IInv, TypeOK, Waiter
  <1>2. /\ inst' = [inst EXCEPT ![i].machine = None]
        /\ waiter' = [waiter EXCEPT ![p] = [pc |-> "close", inst |-> None]]
        /\ machines' = machines /\ proc' = proc /\ cancelled' = cancelled
        /\ call' = call
    BY DEF WaiterClear
  <1>3. proc[p] = "dead"
    BY DEF WaiterClear, Ended, SInv, EndedForGood
  <1>4. inst'[i].machine = None /\ inst'[i].cancel = inst[i].cancel
        /\ \A j \in Instances \ {i} : inst'[j] = inst[j]
    BY <1>1, <1>2 DEF SInv, IInv, TypeOK, Instance
  <1>5. waiter'[p].pc = "close" /\ \A q \in Procs \ {p} : waiter'[q] = waiter[q]
    BY <1>1, <1>2 DEF SInv, IInv, TypeOK
  <1>6. WaiterTracks'
    <2>1. \A q \in Procs \ {p} : waiter[q].pc = "wait" => waiter[q].inst \in Instances \ {i}
      BY <1>1 DEF SInv, WaiterTracks, IInv, TypeOK, Waiter
    <2>. QED
      BY <1>4, <1>5, <2>1 DEF SInv, WaiterTracks
  <1>7. EndedForGood'
    <2>1. \A j \in Instances : inst'[j].cancel = inst[j].cancel
      BY <1>4
    <2>. QED
      BY <1>2, <1>3, <1>5, <2>1 DEF SInv, EndedForGood
  <1>8. UpIsHeld'
    <2>1. \A q \in Procs : proc[q] = "up" => q # p
      BY <1>3
    <2>2. \A q \in Procs \ {p} :
              machines # None /\ inst[machines].machine = q => inst'[machines].machine = q
      BY <1>1, <1>4 DEF SInv, IInv, TypeOK
    <2>. QED
      BY <1>2, <2>1, <2>2 DEF SInv, UpIsHeld, At
  <1>9. CallKnows'
    <2>1. machines # None =>
              inst'[machines].machine \in {None, inst[machines].machine}
      BY <1>4 DEF SInv, IInv, TypeOK
    <2>2. NoMachine => NoMachine'
      BY <1>2, <2>1 DEF NoMachine
    <2>3. \A c \in Calls : At(c, "stop_wait") => call[c].inst # None
      BY DEF SInv, IInv, TypeOK, At, WithInstance
    <2>. QED
      BY <1>2, <2>1, <2>2, <2>3 DEF SInv, CallKnows, At
  <1>10. OneWorker'
    BY <1>2 DEF SInv, OneWorker, Working
  <1>. QED
    BY <1>6, <1>7, <1>8, <1>9, <1>10 DEF SInv

LEMMA WaiterCloseSerial ==
    ASSUME SInv, IInv', NEW p \in Procs, WaiterClose(p) PROVE SInv'
  <1>1. /\ waiter[p].pc = "close"
        /\ cancelled' = cancelled \cup {p}
        /\ waiter' = [waiter EXCEPT ![p].pc = "gone"]
        /\ machines' = machines /\ inst' = inst /\ proc' = proc /\ call' = call
    BY DEF WaiterClose
  <1>2. waiter'[p].pc = "gone" /\ \A q \in Procs \ {p} : waiter'[q] = waiter[q]
    BY <1>1 DEF SInv, IInv, TypeOK, Waiter
  <1>3. WaiterTracks'
    BY <1>1, <1>2 DEF SInv, WaiterTracks
  <1>4. EndedForGood'
    BY <1>1, <1>2 DEF SInv, EndedForGood
  <1>5. UpIsHeld' /\ CallKnows' /\ OneWorker'
    BY <1>1 DEF SInv, UpIsHeld, CallKnows, NoMachine, At, OneWorker, Working
  <1>. QED
    BY <1>3, <1>4, <1>5 DEF SInv

LEMMA StopReadSerial ==
    ASSUME SInv, IInv', NEW c \in Calls, StopRead(c) PROVE SInv'
  <1>1. UNCHANGED <<machines, inst, proc, waiter>> /\ cancelled' = cancelled
        /\ ~At(c, "start_publish")
    BY DEF StopRead, At
  <1>4. Alone(c) /\ call[c].op \in {"stop", "delete"}
    BY WorkerAlone DEF StopRead, At, Working, SInv, OneWorker
  <1>2. CASE ~Started /\ StopReturns(c)
    <2>1. NoMachine
      BY <1>2 DEF Started, NoMachine
    <2>2. call'[c].pc \in {"idle", "delete_forget"}
      BY <1>2, StopReturnsTo
    <2>3. OthersKept(c)
      BY <1>2, StopReturnsKeepsOthers
    <2>. QED
      BY <1>1, <1>4, <2>1, <2>2, <2>3, CallSerial
  <1>3. CASE /\ Started
             /\ call' = [call EXCEPT ![c] =
                   [@ EXCEPT !.pc = "stop_wait", !.inst = machines,
                             !.proc = inst[machines].done]]
    <2>1. inst[machines].done = inst[machines].machine
      BY <1>3 DEF Started, SInv, IInv, TypeOK, MachineWatched
    <2>2. call'[c].pc = "stop_wait" /\ call'[c].inst = machines
          /\ call'[c].proc = inst[machines].done /\ call'[c].op = call[c].op
      BY <1>3 DEF SInv, IInv, TypeOK, Call
    <2>3. OthersKept(c)
      BY <1>3, OthersAreKept
    <2>. QED
      BY <1>1, <1>4, <2>1, <2>2, <2>3, CallSerial
  <1>. QED
    BY <1>2, <1>3 DEF StopRead

\* Stop goes on when done is closed: the waiter has cleared the machine before.
LEMMA StopWaitSerial ==
    ASSUME SInv, IInv', NEW c \in Calls, StopWait(c) PROVE SInv'
  <1>1. UNCHANGED <<machines, inst, proc, waiter>> /\ cancelled' = cancelled
        /\ ~At(c, "start_publish")
    BY DEF StopWait, At
  <1>2. call[c].inst = machines /\ inst[machines].machine \in {None, call[c].proc}
        /\ machines \in Instances
    BY DEF StopWait, At, SInv, CallKnows, IInv, TypeOK, WithInstance
  <1>3. inst[machines].machine # call[c].proc \/ call[c].proc = None
    BY <1>2 DEF StopWait, Closed, SInv, IInv, MachineWatched
  <1>4. NoMachine
    BY <1>2, <1>3 DEF NoMachine
  <1>5. call'[c].pc = "stop_clear" /\ call'[c].inst = call[c].inst
        /\ call'[c].op = call[c].op
    BY DEF StopWait, Step, SInv, IInv, TypeOK, Call
  <1>6. Alone(c) /\ call[c].op \in {"stop", "delete"}
    BY WorkerAlone DEF StopWait, At, Working, SInv, OneWorker
  <1>7. OthersKept(c)
    BY OthersAreKept DEF StopWait, Step
  <1>. QED
    BY <1>1, <1>2, <1>4, <1>5, <1>6, <1>7, CallSerial

LEMMA StopClearSerial ==
    ASSUME SInv, IInv', NEW c \in Calls, StopClear(c) PROVE SInv'
  <1>1. call[c].inst = machines /\ NoMachine /\ machines \in Instances
        /\ inst[machines].machine = None
    BY DEF StopClear, At, SInv, CallKnows, NoMachine, IInv, TypeOK, WithInstance
  <1>2. /\ inst' = [inst EXCEPT ![machines] =
                       [@ EXCEPT !.machine = None, !.cancel = None]]
        /\ cancelled' = cancelled \cup ({inst[machines].cancel} \ {None})
        /\ machines' = machines /\ proc' = proc /\ waiter' = waiter
    BY <1>1 DEF StopClear
  <1>3. \A p \in Procs : proc[p] # "up"
    BY <1>1, NothingUpAlone, WorkerAlone DEF StopClear, At, Working
  <1>4. inst'[machines].machine = None /\ inst'[machines].cancel = None
        /\ \A j \in Instances \ {machines} : inst'[j] = inst[j]
    BY <1>1, <1>2 DEF SInv, IInv, TypeOK, Instance
  <1>5. WaiterTracks'
    <2>1. \A p \in Procs : waiter[p].pc = "wait" => waiter[p].inst \in Instances \ {machines}
      BY <1>1, DriverAssumption DEF SInv, WaiterTracks, IInv, TypeOK, Waiter
    <2>. QED
      BY <1>2, <1>4, <2>1 DEF SInv, WaiterTracks
  <1>6. EndedForGood'
    <2>1. \A p \in Procs : p \in cancelled' => p \in cancelled \/ proc[p] # "unused"
      BY <1>1, <1>2 DEF SInv, EndedForGood
    <2>2. \A p \in Procs : p \in cancelled' => proc[p] = "dead"
      BY <1>3, <2>1 DEF SInv, IInv, TypeOK, EndedForGood
    <2>. QED
      BY <1>2, <1>4, <2>2 DEF SInv, EndedForGood
  <1>7. UpIsHeld'
    BY <1>2, <1>3 DEF UpIsHeld
  <1>8. CallKnows' /\ OneWorker'
    <2>1. call'[c].pc \in {"idle", "delete_forget"}
      BY StopReturnsTo DEF StopClear
    <2>2. Alone(c) /\ OthersKept(c)
      BY WorkerAlone, StopReturnsKeepsOthers DEF StopClear, At, Working
    <2>. QED
      BY <1>2, <1>4, <2>1, <2>2
      DEF Alone, OthersKept, Working, OneWorker, CallKnows, NoMachine, At
  <1>. QED
    BY <1>5, <1>6, <1>7, <1>8 DEF SInv

LEMMA DeleteForgetSerial ==
    ASSUME SInv, IInv', NEW c \in Calls, DeleteForget(c) PROVE SInv'
  <1>1. machines' = None
        /\ UNCHANGED <<inst, proc, cancelled, waiter>>
    BY DEF DeleteForget
  <1>2. \A p \in Procs : proc[p] # "up"
    BY NothingUpAlone, WorkerAlone DEF DeleteForget, At, Working, SInv, CallKnows
  <1>3. WaiterTracks' /\ EndedForGood' /\ UpIsHeld'
    BY <1>1, <1>2 DEF SInv, WaiterTracks, EndedForGood, UpIsHeld
  <1>4. CallKnows' /\ OneWorker'
    <2>1. call'[c].pc = "delete_remove"
      BY DEF DeleteForget, Step, SInv, IInv, TypeOK, Call
    <2>2. Alone(c) /\ OthersKept(c)
      BY WorkerAlone, OthersAreKept DEF DeleteForget, Step, At, Working
    <2>. QED
      BY <1>1, <2>1, <2>2
      DEF Alone, OthersKept, Working, OneWorker, CallKnows, NoMachine, At
  <1>. QED
    BY <1>3, <1>4 DEF SInv

LEMMA DeleteRemoveSerial ==
    ASSUME SInv, IInv', NEW c \in Calls, DeleteRemove(c) PROVE SInv'
  <1>1. UNCHANGED <<machines, inst, proc, waiter>> /\ cancelled' = cancelled
        /\ ~At(c, "start_publish") /\ call'[c].pc = "idle"
    BY DEF DeleteRemove, At, Return, NoCall, SInv, IInv, TypeOK
  <1>2. Alone(c) /\ OthersKept(c)
    BY WorkerAlone, OthersAreKept DEF DeleteRemove, Return, At, Working
  <1>. QED
    BY <1>1, <1>2, CallSerial

LEMMA WaitsSerial ==
    ASSUME SInv, IInv', NEW c \in Calls, Wait(c) \/ WaitDone(c) \/ WaitCancelled(c)
    PROVE  SInv'
  <1>1. UNCHANGED <<machines, inst, proc, waiter>> /\ cancelled' = cancelled
        /\ ~Working(c)
    BY DEF Wait, WaitDone, WaitCancelled, Idle, At, Working
  <1>2. call'[c].pc \in {"idle", "wait"}
    BY DEF Wait, WaitDone, WaitCancelled, Return, NoCall, SInv, IInv, TypeOK
  <1>3. OthersKept(c)
    BY OthersAreKept DEF Wait, WaitDone, WaitCancelled, Return
  <1>. QED
    BY <1>1, <1>2, <1>3, WaitSerial

LEMMA EndSerial ==
    ASSUME SInv, IInv', NEW p \in Procs, End(p) PROVE SInv'
  <1>1. /\ proc' = [proc EXCEPT ![p] = "dead"]
        /\ UNCHANGED <<machines, inst, cancelled, waiter, call>>
    BY DEF End
  <1>2. proc'[p] = "dead" /\ \A q \in Procs \ {p} : proc'[q] = proc[q]
    BY <1>1 DEF SInv, IInv, TypeOK
  <1>3. WaiterTracks' /\ CallKnows' /\ OneWorker'
    BY <1>1 DEF SInv, WaiterTracks, CallKnows, NoMachine, At, OneWorker, Working
  <1>4. EndedForGood'
    <2>1. \A j \in Instances : inst[j].cancel # None => inst[j].cancel \in Procs
      BY DEF SInv, IInv, TypeOK, Instance
    <2>. QED
      BY <1>1, <1>2, <2>1 DEF SInv, EndedForGood
  <1>5. UpIsHeld'
    BY <1>1, <1>2 DEF SInv, UpIsHeld, At
  <1>. QED
    BY <1>3, <1>4, <1>5 DEF SInv

LEMMA StutterSerial == ASSUME SInv, IInv', UNCHANGED vars PROVE SInv'
  BY DEF vars, SInv, WaiterTracks, EndedForGood, UpIsHeld, CallKnows, NoMachine, At,
     OneWorker, Working

NoStuck == "stuck" \notin Faults

LEMMA BeginsAlone ==
    ASSUME OneByOne, NEW c \in Calls, Create(c) \/ Start(c) \/ Stop(c) \/ Delete(c)
    PROVE  Alone(c)
  BY DEF Create, Start, Stop, Delete, Idle, Alone

LEMMA NextSerial == ASSUME OneByOne, NoStuck, SInv, [Next]_vars PROVE SInv'
  <1>1. IInv'
    BY NextInvariant DEF SInv
  <1>2. CASE UNCHANGED vars
    BY <1>1, <1>2, StutterSerial
  <1>3. ASSUME NEW c \in Calls, Method(c) PROVE SInv'
    <2>1. Create(c) \/ Start(c) \/ Stop(c) \/ Delete(c) => Alone(c)
      BY BeginsAlone
    <2>. QED
      BY <1>1, <1>3, <2>1, CreateSerial, FirstSectionSerial, WaitsSerial
      DEF Method
  <1>4. ASSUME NEW c \in Calls, Proceed(c) PROVE SInv'
    BY <1>1, <1>4, StartCleanSerial, StartLaunchSerial, StartPublishSerial,
       StopReadSerial, StopWaitSerial, StopClearSerial, DeleteForgetSerial,
       DeleteRemoveSerial, WaitsSerial DEF Proceed
  <1>5. ASSUME NEW c \in Calls, StopGivesUp(c) \/ WaitCancelled(c) PROVE SInv'
    BY <1>1, <1>5, WaitsSerial DEF StopGivesUp, NoStuck
  <1>6. ASSUME NEW p \in Procs, Waited(p) \/ End(p) PROVE SInv'
    BY <1>1, <1>6, WaiterClearSerial, WaiterCloseSerial, EndSerial DEF Waited
  <1>. QED
    BY <1>2, <1>3, <1>4, <1>5, <1>6 DEF Next

\* The jail is removed by Start and Delete alone, when nothing runs.
LEMMA JailStep ==
    ASSUME SInv, [Next]_vars, jail # None, jail' # jail
    PROVE  proc[jail] # "up"
  <1>1. jail \in Procs
    BY DEF SInv, IInv, TypeOK
  <1>2. PICK c \in Calls : StartClean(c) \/ StartLaunch(c) \/ DeleteRemove(c)
    BY DEF Next, vars, Method, Proceed, Waited, Create, Start, Stop, Delete, Wait,
       StartPublish, StopRead, StopWait, StopClear, StopGivesUp, DeleteForget,
       WaitDone, WaitCancelled, WaiterClear, WaiterClose, End
  <1>3. StartClean(c) \/ DeleteRemove(c)
    BY <1>2 DEF StartLaunch
  <1>4. NoMachine /\ ~At(c, "start_publish") /\ Working(c)
    BY <1>3 DEF StartClean, DeleteRemove, At, Working, SInv, CallKnows
  <1>. QED
    BY <1>1, <1>4, NothingUpAlone, WorkerAlone

\* The VM's only process.
LEMMA OnlyProcess == SInv => OneProcess
  <1>. SUFFICES ASSUME SInv, NEW p \in Procs, NEW q \in Procs,
                       proc[p] = "up", proc[q] = "up"
                PROVE  p = q
    BY DEF OneProcess
  <1>1. CASE \E c \in Calls : At(c, "start_publish")
    <2>1. PICK c \in Calls : At(c, "start_publish")
      BY <1>1
    <2>2. NoMachine /\ Alone(c)
      BY <2>1, WorkerAlone DEF At, Working, SInv, CallKnows
    <2>3. \A d \in Calls : At(d, "start_publish") => d = c
      BY <2>2 DEF Alone, Working, At
    <2>. QED
      BY <2>1, <2>2, <2>3, DriverAssumption DEF SInv, UpIsHeld, NoMachine
  <1>2. CASE ~ \E c \in Calls : At(c, "start_publish")
    BY <1>2 DEF SInv, UpIsHeld
  <1>. QED
    BY <1>1, <1>2

-----------------------------------------------------------------------------

\* When calls other than Wait are made one at a time for a VM and its processes
\* end when they are killed, the VM never has two processes on one disk image,
\* whatever the launch and the removal of directories do.
THEOREM OneProcessAtMost == ASSUME OneByOne, NoStuck PROVE Spec => []OneProcess
  <1>0. SInv /\ [Next]_vars => SInv'
    BY NextSerial
  <1>. QED
    BY InitSerial, <1>0, OnlyProcess, PTL DEF Spec

\* Under the same hypotheses the driver never loses a process: what runs
\* between two calls is the machine that Stop would stop.
THEOREM NoProcessIsLost == ASSUME OneByOne, NoStuck PROVE Spec => []NoProcessLost
  <1>0. SInv /\ [Next]_vars => SInv'
    BY NextSerial
  <1>1. SInv => NoProcessLost
    BY DEF SInv, UpIsHeld, NoProcessLost, At
  <1>. QED
    BY InitSerial, <1>0, <1>1, PTL DEF Spec

\* Under the same hypotheses done is never closed before the process has ended:
\* neither Stop nor a Wait that runs along with it returns too early.
THEOREM DoneAlwaysMeansEnded == ASSUME OneByOne, NoStuck PROVE Spec => []DoneMeansEnded
  <1>0. SInv /\ [Next]_vars => SInv'
    BY NextSerial
  <1>1. SInv => DoneMeansEnded
    BY DEF SInv, EndedForGood, DoneMeansEnded, Closed
  <1>. QED
    BY InitSerial, <1>0, <1>1, PTL DEF Spec

\* Under the same hypotheses neither Start nor Delete ever removes the jail of a
\* process that runs.
THEOREM JailRemovalIsSafe == ASSUME OneByOne, NoStuck PROVE Spec => JailRemovalSafe
  <1>0. SInv /\ [Next]_vars => SInv'
    BY NextSerial
  <1>1. SInv /\ [Next]_vars =>
            [jail # None /\ jail' # jail => proc[jail] # "up"]_vars
    BY JailStep
  <1>. QED
    BY InitSerial, <1>0, <1>1, PTL DEF Spec, JailRemovalSafe

-----------------------------------------------------------------------------
(* The contract *)

\* The values of the contract's variables.
Prepared == machines # None
Up == \E p \in Procs : proc[p] = "up"
Doings == [c \in Calls |-> Doing(c)]

LEMMA InitContract == Init => Contract!Init
  BY DEF Init, Contract!Init, Doing, NoCall

\* The user sees a step of a call as the move of its caller, or as nothing.
LEMMA DoingMoves ==
    ASSUME NEW c \in Calls, OthersKept(c)
    PROVE  Doings' = [Doings EXCEPT ![c] = Doing(c)']
  BY DEF Doings, Doing, OthersKept

LEMMA DoingKept ==
    ASSUME NEW c \in Calls, OthersKept(c), Doing(c)' = Doing(c)
    PROVE  Doings' = Doings
  BY DEF Doings, Doing, OthersKept

LEMMA Moves ==
    ASSUME NEW c \in Calls, OthersKept(c), NEW from, NEW to,
           Doing(c) = from, Doing(c)' = to
    PROVE  Contract!Moves(c, from, to)
  BY DoingMoves DEF Contract!Moves, Doings

ContractVars == <<Prepared, Up, Doings>>
ContractStep == [Contract!Next]_ContractVars

LEMMA CreateStep ==
    ASSUME SInv, NEW c \in Calls, Create(c), Alone(c) PROVE ContractStep
  <1>1. \A p \in Procs : proc[p] # "up"
    BY NothingUpAlone DEF Create, MayPrepare, Started, Idle, At, NoMachine
  <1>2. machines' # None /\ proc' = proc /\ call' = call
    BY DriverAssumption DEF Create
  <1>3. Contract!Create
    BY <1>1, <1>2 DEF Contract!Create, Doing
  <1>. QED
    BY <1>3 DEF ContractStep, Contract!Next

LEMMA FirstSectionStep ==
    ASSUME SInv, NEW c \in Calls, Start(c) \/ Stop(c) \/ Delete(c) PROVE ContractStep
  <1>1. OthersKept(c)
    BY OthersAreKept DEF Start, Stop, Delete
  <1>2. Doing(c) = "nothing"
    BY DEF Doing, Start, Stop, Delete, Idle, At
  <1>3. Start(c) => Doing(c)' = "start"
    BY DEF Doing, Start, SInv, IInv, TypeOK
  <1>4. Stop(c) => Doing(c)' = "stop"
    BY DEF Doing, Stop, NoCall, SInv, IInv, TypeOK
  <1>5. Delete(c) => Doing(c)' = "delete"
    BY DEF Doing, Delete, NoCall, SInv, IInv, TypeOK
  <1>6. \E method \in {"start", "stop", "delete"} : Contract!Moves(c, "nothing", method)
    BY <1>1, <1>2, <1>3, <1>4, <1>5, Moves
  <1>7. Contract!Call(c)
    BY <1>6 DEF Contract!Call, Start, Stop, Delete
  <1>. QED
    BY <1>7 DEF ContractStep, Contract!Next

LEMMA StartCleanStep ==
    ASSUME SInv, NEW c \in Calls, StartClean(c) PROVE ContractStep
  <1>1. OthersKept(c)
    BY OthersAreKept DEF StartClean, Step, Return
  <1>2. Doing(c) = "start" /\ machines' = machines /\ proc' = proc
    BY DEF Doing, StartClean, At
  <1>3. CASE Step(c, "start_launch")
    <2>1. Doing(c)' = "start"
      BY <1>3 DEF Doing, Step, SInv, IInv, TypeOK, Call
    <2>. QED
      BY <1>1, <1>2, <2>1, DoingKept DEF ContractStep, ContractVars, Prepared, Up
  <1>4. CASE Return(c)
    <2>1. Doing(c)' = "nothing"
      BY <1>4 DEF Doing, Return, NoCall, SInv, IInv, TypeOK
    <2>2. Contract!StartFails(c)
      BY <1>1, <1>2, <2>1, Moves DEF Contract!StartFails
    <2>. QED
      BY <2>2 DEF ContractStep, Contract!Next
  <1>. QED
    BY <1>3, <1>4 DEF StartClean

LEMMA StartLaunchStep ==
    ASSUME SInv, NEW c \in Calls, StartLaunch(c) PROVE ContractStep
  <1>1. PICK p \in Procs :
            /\ proc[p] = "unused"
            /\ \/ /\ proc' = [proc EXCEPT ![p] = "up"]
                  /\ call' = [call EXCEPT ![c] =
                        [@ EXCEPT !.pc = "start_publish", !.proc = p]]
               \/ /\ proc' = [proc EXCEPT ![p] = "dead"]
                  /\ Return(c)
    BY DEF StartLaunch
  <1>2. machines' = machines /\ machines # None /\ Doing(c) = "start"
    BY DEF StartLaunch, Doing, At, SInv, CallKnows, IInv, TypeOK, WithInstance
  <1>3. \A q \in Procs : proc[q] # "up"
    BY NothingUpAlone, WorkerAlone DEF StartLaunch, At, Working, SInv, CallKnows
  <1>4. OthersKept(c)
    BY <1>1, OthersAreKept DEF Return
  <1>5. CASE /\ proc' = [proc EXCEPT ![p] = "up"]
             /\ call' = [call EXCEPT ![c] =
                   [@ EXCEPT !.pc = "start_publish", !.proc = p]]
    <2>1. Doing(c)' = "started"
      BY <1>5 DEF Doing, SInv, IInv, TypeOK, Call
    <2>2. proc'[p] = "up"
      BY <1>5 DEF SInv, IInv, TypeOK
    <2>3. Contract!Start(c)
      BY <1>2, <1>3, <1>4, <2>1, <2>2, Moves DEF Contract!Start
    <2>. QED
      BY <2>3 DEF ContractStep, Contract!Next
  <1>6. CASE proc' = [proc EXCEPT ![p] = "dead"] /\ Return(c)
    <2>1. Doing(c)' = "nothing"
      BY <1>6 DEF Doing, Return, NoCall, SInv, IInv, TypeOK
    <2>2. \A q \in Procs : proc'[q] # "up"
      BY <1>3, <1>6 DEF SInv, IInv, TypeOK
    <2>3. Contract!StartFails(c)
      BY <1>2, <1>3, <1>4, <2>1, <2>2, Moves DEF Contract!StartFails
    <2>. QED
      BY <2>3 DEF ContractStep, Contract!Next
  <1>. QED
    BY <1>1, <1>5, <1>6

LEMMA StartPublishStep ==
    ASSUME SInv, NEW c \in Calls, StartPublish(c) PROVE ContractStep
  <1>1. OthersKept(c)
    BY OthersAreKept DEF StartPublish, Return
  <1>2. Doing(c) = "started" /\ Doing(c)' = "nothing"
    BY DEF Doing, StartPublish, At, Return, NoCall, SInv, IInv, TypeOK
  <1>3. Contract!StartReturns(c)
    BY <1>1, <1>2, Moves DEF Contract!StartReturns, StartPublish
  <1>. QED
    BY <1>3 DEF ContractStep, Contract!Next

\* Stop is over when nothing runs any more, for its caller or for Delete.
LEMMA StopReturnsStep ==
    ASSUME SInv, NEW c \in Calls, StopReturns(c),
           call[c].pc \in {"stop_read", "stop_clear"},
           machines' = machines, proc' = proc, \A p \in Procs : proc[p] # "up"
    PROVE  ContractStep
  <1>1. OthersKept(c)
    BY StopReturnsKeepsOthers
  <1>2. Doing(c) = call[c].op /\ call[c].op \in {"stop", "delete"}
    BY DEF Doing, SInv, OneWorker
  <1>3. CASE call[c].op = "delete"
    <2>1. Doing(c)' = "delete"
      BY <1>3 DEF StopReturns, Doing, NoCall, SInv, IInv, TypeOK
    <2>. QED
      BY <1>1, <1>2, <1>3, <2>1, DoingKept DEF ContractStep, ContractVars, Prepared, Up
  <1>4. CASE call[c].op = "stop"
    <2>1. Doing(c)' = "nothing"
      BY <1>4 DEF StopReturns, Return, Doing, NoCall, SInv, IInv, TypeOK
    <2>2. Contract!StopReturns(c)
      BY <1>1, <1>2, <1>4, <2>1, Moves DEF Contract!StopReturns
    <2>. QED
      BY <2>2 DEF ContractStep, Contract!Next
  <1>. QED
    BY <1>2, <1>3, <1>4

LEMMA StopReadStep ==
    ASSUME SInv, NEW c \in Calls, StopRead(c) PROVE ContractStep
  <1>1. machines' = machines /\ proc' = proc /\ call[c].pc = "stop_read"
    BY DEF StopRead, At
  <1>2. CASE ~Started /\ StopReturns(c)
    <2>1. \A p \in Procs : proc[p] # "up"
      BY <1>1, <1>2, NothingUpAlone, WorkerAlone DEF Started, NoMachine, At, Working
    <2>. QED
      BY <1>1, <1>2, <2>1, StopReturnsStep
  <1>3. CASE call' = [call EXCEPT ![c] =
                [@ EXCEPT !.pc = "stop_wait", !.inst = machines,
                          !.proc = inst[machines].done]]
    <2>1. Doing(c)' = call[c].op /\ Doing(c) = call[c].op
      BY <1>1, <1>3 DEF Doing, SInv, IInv, TypeOK, Call
    <2>2. OthersKept(c)
      BY <1>3, OthersAreKept
    <2>. QED
      BY <1>1, <2>1, <2>2, DoingKept DEF ContractStep, ContractVars, Prepared, Up
  <1>. QED
    BY <1>2, <1>3 DEF StopRead

LEMMA StopWaitStep ==
    ASSUME SInv, NEW c \in Calls, StopWait(c) PROVE ContractStep
  <1>1. OthersKept(c)
    BY OthersAreKept DEF StopWait, Step
  <1>2. Doing(c)' = Doing(c)
    BY DEF Doing, StopWait, Step, At, SInv, IInv, TypeOK, Call
  <1>. QED
    BY <1>1, <1>2, DoingKept DEF StopWait, ContractStep, ContractVars, Prepared, Up

LEMMA StopClearStep ==
    ASSUME SInv, NEW c \in Calls, StopClear(c) PROVE ContractStep
  <1>1. call[c].pc = "stop_clear" /\ machines' = machines /\ proc' = proc
        /\ StopReturns(c)
    BY DEF StopClear, At
  <1>2. \A p \in Procs : proc[p] # "up"
    BY <1>1, NothingUpAlone, WorkerAlone DEF At, Working, SInv, CallKnows
  <1>. QED
    BY <1>1, <1>2, StopReturnsStep

LEMMA DeleteForgetStep ==
    ASSUME SInv, NEW c \in Calls, DeleteForget(c) PROVE ContractStep
  <1>1. OthersKept(c)
    BY OthersAreKept DEF DeleteForget, Step
  <1>2. Doing(c) = "delete" /\ Doing(c)' = "deleted"
    BY DEF Doing, DeleteForget, Step, At, SInv, IInv, TypeOK, Call
  <1>3. \A p \in Procs : proc[p] # "up"
    BY NothingUpAlone, WorkerAlone DEF DeleteForget, At, Working, SInv, CallKnows
  <1>4. Contract!Delete(c)
    BY <1>1, <1>2, <1>3, Moves DEF Contract!Delete, DeleteForget
  <1>. QED
    BY <1>4 DEF ContractStep, Contract!Next

LEMMA DeleteRemoveStep ==
    ASSUME SInv, NEW c \in Calls, DeleteRemove(c) PROVE ContractStep
  <1>1. OthersKept(c)
    BY OthersAreKept DEF DeleteRemove, Return
  <1>2. Doing(c) = "deleted" /\ Doing(c)' = "nothing"
    BY DEF Doing, DeleteRemove, Return, NoCall, At, SInv, IInv, TypeOK
  <1>3. Contract!DeleteReturns(c)
    BY <1>1, <1>2, Moves DEF Contract!DeleteReturns, DeleteRemove
  <1>. QED
    BY <1>3 DEF ContractStep, Contract!Next

LEMMA WaitsStep ==
    ASSUME SInv, NEW c \in Calls, Wait(c) \/ WaitDone(c) \/ WaitCancelled(c)
    PROVE  ContractStep
  <1>1. OthersKept(c) /\ machines' = machines /\ proc' = proc
    BY OthersAreKept DEF Wait, WaitDone, WaitCancelled, Return
  <1>2. Doing(c) = "nothing"
    BY DEF Doing, Wait, WaitDone, WaitCancelled, Idle, At
  <1>3. call'[c].pc \in {"idle", "wait"}
    BY DEF Wait, WaitDone, WaitCancelled, Return, NoCall, SInv, IInv, TypeOK
  <1>4. Doing(c)' = "nothing"
    BY <1>3 DEF Doing
  <1>. QED
    BY <1>1, <1>2, <1>4, DoingKept DEF ContractStep, ContractVars, Prepared, Up

\* The process that ends was the only one.
LEMMA EndStep == ASSUME SInv, NEW p \in Procs, End(p) PROVE ContractStep
  <1>1. Up /\ machines' = machines /\ call' = call
    BY DEF End, Up
  <1>2. \A q \in Procs : proc'[q] # "up"
    BY OnlyProcess DEF End, OneProcess, SInv, IInv, TypeOK
  <1>3. Contract!End
    BY <1>1, <1>2 DEF Contract!End, Up, Doing
  <1>. QED
    BY <1>3 DEF ContractStep, Contract!Next

LEMMA QuietStep ==
    ASSUME UNCHANGED <<machines, proc, call>> PROVE ContractStep
  BY DEF ContractStep, ContractVars, Prepared, Up, Doings, Doing

LEMMA NextContract ==
    ASSUME OneByOne, NoStuck, SInv, [Next]_vars PROVE ContractStep
  <1>1. CASE UNCHANGED vars
    BY <1>1, QuietStep DEF vars
  <1>2. ASSUME NEW c \in Calls, Method(c) PROVE ContractStep
    <2>1. Create(c) \/ Start(c) \/ Stop(c) \/ Delete(c) => Alone(c)
      BY BeginsAlone
    <2>. QED
      BY <1>2, <2>1, CreateStep, FirstSectionStep, WaitsStep DEF Method
  <1>3. ASSUME NEW c \in Calls, Proceed(c) PROVE ContractStep
    BY <1>3, StartCleanStep, StartLaunchStep, StartPublishStep, StopReadStep,
       StopWaitStep, StopClearStep, DeleteForgetStep, DeleteRemoveStep, WaitsStep
    DEF Proceed
  <1>4. ASSUME NEW c \in Calls, StopGivesUp(c) \/ WaitCancelled(c) PROVE ContractStep
    BY <1>4, WaitsStep DEF StopGivesUp, NoStuck
  <1>5. ASSUME NEW p \in Procs, Waited(p) \/ End(p) PROVE ContractStep
    BY <1>5, QuietStep, EndStep DEF Waited, WaiterClear, WaiterClose
  <1>. QED
    BY <1>1, <1>2, <1>3, <1>4, <1>5 DEF Next

\* Under the same hypotheses the driver implements the contract VMM: it launches
\* only a prepared VM that does not run, nothing runs when Stop returns or when
\* Delete forgets the VM, and a Wait under way changes none of it.
THEOREM DriverKeepsContract == ASSUME OneByOne, NoStuck PROVE Spec => ImplementsContract
  <1>1. SInv /\ [Next]_vars => SInv'
    BY NextSerial
  <1>2. SInv /\ [Next]_vars => ContractStep
    BY NextContract
  <1>3. ContractStep <=> [Contract!Next]_<<machines # None,
            \E p \in Procs : proc[p] = "up", [c \in Calls |-> Doing(c)]>>
    BY DEF ContractStep, ContractVars, Prepared, Up, Doings
  <1>. QED
    BY InitSerial, InitContract, <1>1, <1>2, <1>3, PTL
    DEF Spec, ImplementsContract, Contract!Spec

=============================================================================
