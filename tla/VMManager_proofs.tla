-------------------------- MODULE VMManager_proofs --------------------------
(***************************************************************************)
(* Theorems about the VM manager: type correctness, the control of the     *)
(* supervisors, the identities, the state file between two calls, and what *)
(* the status of a VM says of its process.                                 *)
(***************************************************************************)
EXTENDS VMManager, TLAPS

-----------------------------------------------------------------------------
(* Values that go in the variables *)

LEMMA ReturnedType ==
    ASSUME NEW ok \in BOOLEAN
    PROVE  Returned(ok) \in Call
  BY DEF Returned, Call, CallPCs

LEMMA CallingType ==
    ASSUME NEW op \in AllOps, NEW pc \in CallPCs, NEW n \in Names \cup {NoName}
    PROVE  Calling(op, pc, n) \in Call
  BY ReturnedType DEF Calling, Returned, Call

LEMMA AfterStopType ==
    ASSUME NEW k \in Call, NEW ok \in BOOLEAN, k.op \in {"stop", "delete", "stopall"}
    PROVE  AfterStop(k, ok) \in Call
  <1>1. CASE k.op = "stop"
    BY <1>1, ReturnedType DEF AfterStop
  <1>2. CASE k.op = "delete"
    <2>1. AfterStop(k, ok) = Calling("delete", "delete_halt", k.n)
      BY <1>2 DEF AfterStop
    <2>2. k.n \in Names \cup {NoName}
      BY DEF Call
    <2>. QED
      BY <2>1, <2>2, CallingType DEF AllOps, CallPCs
  <1>3. CASE k.op = "stopall"
    <2>1. Calling("stopall", "stopall_next", NoName) \in Call
      BY CallingType DEF AllOps, CallPCs
    <2>. QED
      BY <1>3, <2>1 DEF AfterStop, Call
  <1>. QED
    BY <1>1, <1>2, <1>3

LEMMA NoSupervisionType == NoSupervision \in Supervision
  BY BackoffAssumption DEF NoSupervision, Supervision, SupPCs

LEMMA SaveType ==
    ASSUME NEW ok, Save(ok), disk \in Snapshots,
           rec' \in [Names -> Record], ident' \in [Names -> Ids \cup {NoId}],
           rest' \in Rests
    PROVE  disk' \in Snapshots
  BY DEF Save, Snapshots, Snapshot

LEMMA SetStatusType ==
    ASSUME NEW n \in Names, NEW held, NEW st \in Statuses,
           rec \in [Names -> Record], SetStatus(n, held, st)
    PROVE  rec' \in [Names -> Record]
  <1>1. [rec[n] EXCEPT !.status = st] \in Record
    <2>1. CASE rec[n] = NoRecord
      <3>1. [[status |-> "absent", restart |-> FALSE] EXCEPT !.status = st]
              \in [status : Statuses, restart : BOOLEAN]
        OBVIOUS
      <3>. QED
        BY <2>1, <3>1 DEF Record, NoRecord
    <2>2. CASE rec[n] \in [status : Statuses, restart : BOOLEAN]
      BY <2>2 DEF Record
    <2>. QED
      BY <2>1, <2>2 DEF Record
  <1>. QED
    BY <1>1 DEF SetStatus

-----------------------------------------------------------------------------
(* Type correctness *)

Typed == TypeOK

GoodCall(k) == k \in Call /\ CallShape(k)
GoodSup(g) == g \in Supervision /\ SupShape(g)

LEMMA TypedInit == Init => Typed
  <1>1. \A c \in Callers : Returned(TRUE) \in Call
    BY ReturnedType
  <1>2. {NoRecord} \cup [status : Earlier, restart : RestartChoices] \subseteq Record
    BY ConstantsAssumption DEF Record
  <1>3. \A s \in Sups : NoSupervision \in Supervision
    BY NoSupervisionType
  <1>4. ASSUME Init, Shape PROVE TypeOK
    <2>1. /\ rec \in [Names -> Record]
          /\ ident \in [Names -> Ids \cup {NoId}]
          /\ rest \in Rests
      BY <1>2, <1>4, ConstantsAssumption DEF Init
    <2>2. disk \in Snapshots
      BY <1>4, <2>1 DEF Init, Snapshots, Snapshot
    <2>. QED
      BY <1>1, <1>3, <1>4, <2>1, <2>2 DEF Init, TypeOK, NoMachine, Machine
  <1>5. ASSUME Init PROVE Shape
    BY <1>5 DEF Init, Shape, CallShape, SupShape, Returned, NoSupervision
  <1>. QED
    BY <1>4, <1>5 DEF Typed

LEMMA GoodReturned == \A ok \in BOOLEAN : GoodCall(Returned(ok))
  BY ReturnedType DEF GoodCall, CallShape, Returned

\* A step of one caller keeps the table of calls well formed.
LEMMA CallStep ==
    ASSUME Typed, NEW c \in Callers, NEW k, GoodCall(k),
           call' = [call EXCEPT ![c] = k]
    PROVE  /\ call' \in [Callers -> Call]
           /\ \A d \in Callers : CallShape(call'[d])
  BY DEF Typed, TypeOK, Shape, GoodCall

\* So does a step of one supervisor for the table of supervisors.
LEMMA SupStep ==
    ASSUME Typed, NEW s \in Sups, NEW g, GoodSup(g),
           sup' = [sup EXCEPT ![s] = g]
    PROVE  /\ sup' \in [Sups -> Supervision]
           /\ \A t \in Sups : SupShape(sup'[t])
  BY DEF Typed, TypeOK, Shape, GoodSup

LEMMA GoodSame ==
    ASSUME Typed
    PROVE  /\ \A c \in Callers : GoodCall(call[c])
           /\ \A s \in Sups : GoodSup(sup[s])
  BY DEF Typed, TypeOK, Shape, GoodCall, GoodSup

LEMMA GoodNoSupervision == GoodSup(NoSupervision)
  BY NoSupervisionType DEF GoodSup, SupShape, NoSupervision

LEMMA HvCreateType ==
    ASSUME hv \in [Names -> Machine], NEW n \in Names, NEW ok, HvCreate(n, ok)
    PROVE  hv' \in [Names -> Machine]
  BY DEF HvCreate, Machine

LEMMA CreateTyped ==
    ASSUME Typed, NEW c \in Callers, NEW n \in Names, NEW r \in BOOLEAN,
           Declare(c, n, r), UNCHANGED <<super, sup>>
    PROVE  Typed'
  <1>1. rec' \in [Names -> Record] /\ ident' = ident /\ rest' = rest
    <2>1. [status |-> "created", restart |-> r] \in Record
      BY DEF Record, Statuses
    <2>. QED
      BY <2>1 DEF Declare, Typed, TypeOK
  <1>2. disk' \in Snapshots
    BY <1>1, SaveType DEF Declare, Typed, TypeOK
  <1>3. hv' \in [Names -> Machine]
    BY HvCreateType DEF Declare, Typed, TypeOK
  <1>4. \E ok \in BOOLEAN : call' = [call EXCEPT ![c] = Returned(ok)]
    BY DEF Declare, Return
  <1>. QED
    BY <1>1, <1>2, <1>3, <1>4, GoodReturned, CallStep DEF Typed, TypeOK, Shape

LEMMA EnsureTyped ==
    ASSUME Typed, NEW c \in Callers, NEW n \in Names, NEW r \in BOOLEAN,
           Ensure(c, n, r)
    PROVE  Typed'
  <1>1. rec' \in [Names -> Record]
    BY DEF Ensure, Typed, TypeOK, Record, NoRecord, Statuses, Known
  <1>2. PICK pc \in {"ensure_prepare", "ensure_create"} :
          call' = [call EXCEPT ![c] =
                      [Calling("ensure", pc, n) EXCEPT !.restart = r]]
    BY DEF Ensure
  <1>3. GoodCall([Calling("ensure", pc, n) EXCEPT !.restart = r])
    BY DEF GoodCall, CallShape, Call, Calling, Returned, CallPCs, AllOps
  <1>. QED
    BY <1>1, <1>2, <1>3, CallStep DEF Ensure, Typed, TypeOK, Shape

LEMMA EnsureStepsTyped ==
    ASSUME Typed, NEW c \in Callers,
           EnsureCreate(c) \/ EnsurePrepare(c) \/ EnsureSave(c)
    PROVE  Typed'
  <1>. GoodCall(call[c])
    BY GoodSame
  <1>1. CASE EnsureCreate(c)
    <2>1. call[c].n \in Names /\ call[c].restart \in BOOLEAN
      BY <1>1 DEF EnsureCreate, At, GoodCall, CallShape, Call
    <2>. QED
      BY <1>1, <2>1, CreateTyped DEF EnsureCreate
  <1>2. CASE EnsurePrepare(c)
    <2>1. hv' \in [Names -> Machine]
      <3>1. call[c].n \in Names
        BY <1>2 DEF EnsurePrepare, At, GoodCall, CallShape
      <3>. QED
        BY <1>2, <3>1, HvCreateType DEF EnsurePrepare, Typed, TypeOK
    <2>2. PICK k : GoodCall(k) /\ call' = [call EXCEPT ![c] = k]
      <3>1. CASE Goto(c, "ensure_save")
        <4>1. GoodCall([call[c] EXCEPT !.pc = "ensure_save"])
          BY <1>2 DEF EnsurePrepare, At, GoodCall, CallShape, Call, CallPCs
        <4>. QED
          BY <3>1, <4>1 DEF Goto, Typed, TypeOK
      <3>2. CASE Return(c, FALSE)
        BY <3>2, GoodReturned DEF Return
      <3>. QED
        BY <1>2, <3>1, <3>2 DEF EnsurePrepare
    <2>. QED
      BY <1>2, <2>1, <2>2, CallStep DEF EnsurePrepare, Typed, TypeOK, Shape
  <1>3. CASE EnsureSave(c)
    <2>1. disk' \in Snapshots
      BY <1>3, SaveType DEF EnsureSave, Typed, TypeOK
    <2>2. \E ok \in BOOLEAN : call' = [call EXCEPT ![c] = Returned(ok)]
      BY <1>3 DEF EnsureSave, Return
    <2>. QED
      BY <1>3, <2>1, <2>2, GoodReturned, CallStep
         DEF EnsureSave, Typed, TypeOK, Shape
  <1>. QED
    BY <1>1, <1>2, <1>3

LEMMA IdentityForTyped ==
    ASSUME Typed, NEW c \in Callers, NEW n \in Names, IdentityFor(c, n)
    PROVE  Typed'
  <1>1. ident' \in [Names -> Ids \cup {NoId}] /\ rec' = rec /\ rest' = rest
    BY DEF IdentityFor, FreeIds, Typed, TypeOK
  <1>2. disk' \in Snapshots
    BY <1>1, SaveType DEF IdentityFor, Typed, TypeOK
  <1>3. \E ok \in BOOLEAN : call' = [call EXCEPT ![c] = Returned(ok)]
    <2>1. (ident[n] \in Ids) \in BOOLEAN
      OBVIOUS
    <2>. QED
      BY <2>1 DEF IdentityFor, Return
  <1>. QED
    BY <1>1, <1>2, <1>3, GoodReturned, CallStep
       DEF IdentityFor, Typed, TypeOK, Shape

LEMMA WithStateTyped ==
    ASSUME Typed, NEW c \in Callers, NEW r \in Rests, WithState(c, r)
    PROVE  Typed'
  <1>1. disk' \in Snapshots
    BY SaveType DEF WithState, Typed, TypeOK
  <1>2. \E ok \in BOOLEAN : call' = [call EXCEPT ![c] = Returned(ok)]
    BY DEF WithState, Return
  <1>. QED
    BY <1>1, <1>2, GoodReturned, CallStep DEF WithState, Typed, TypeOK, Shape

LEMMA StartTyped ==
    ASSUME Typed, NEW c \in Callers, NEW n \in Names, Start(c, n)
    PROVE  Typed'
  <1>1. CASE MayStart(n)
    <2>1. rec' \in [Names -> Record]
      BY <1>1, SetStatusType DEF Start, Typed, TypeOK, Statuses
    <2>2. GoodCall([Calling("start", "start_launch", n) EXCEPT !.held = TRUE])
      BY DEF GoodCall, CallShape, Call, Calling, Returned, CallPCs, AllOps
    <2>. QED
      BY <1>1, <2>1, <2>2, CallStep DEF Start, Typed, TypeOK, Shape
  <1>2. CASE ~MayStart(n)
    BY <1>2, GoodReturned, CallStep DEF Start, Return, Typed, TypeOK, Shape
  <1>. QED
    BY <1>1, <1>2

LEMMA HvStartType ==
    ASSUME hv \in [Names -> Machine], NEW n \in Names, NEW ok, HvStart(n, ok)
    PROVE  hv' \in [Names -> Machine]
  BY DEF HvStart, Machine

\* The steps of a caller that rewrite a field or two of its call record.
LEMMA StartLaunchTyped ==
    ASSUME Typed, NEW c \in Callers, StartLaunch(c)
    PROVE  Typed'
  <1>. GoodCall(call[c]) /\ call[c].n \in Names
    BY GoodSame DEF StartLaunch, At, GoodCall, CallShape
  <1>1. PICK ok \in BOOLEAN :
          /\ HvStart(call[c].n, ok)
          /\ call' = [call EXCEPT ![c] = [@ EXCEPT !.pc = "start_finish", !.ok = ok]]
    BY DEF StartLaunch
  <1>2. hv' \in [Names -> Machine]
    BY <1>1, HvStartType DEF Typed, TypeOK
  <1>3. GoodCall([call[c] EXCEPT !.pc = "start_finish", !.ok = ok])
    BY DEF GoodCall, CallShape, Call, CallPCs
  <1>. QED
    BY <1>1, <1>2, <1>3, CallStep DEF StartLaunch, Typed, TypeOK, Shape

LEMMA SuperviseTyped ==
    ASSUME Typed, NEW n \in Names, SuperviseLocked(n)
    PROVE  /\ super' \in [Names -> Sups \cup {NoSup}]
           /\ sup' \in [Sups -> Supervision]
           /\ \A s \in Sups : SupShape(sup'[s])
  <1>1. GoodSup([NoSupervision EXCEPT !.pc = "watch", !.n = n])
    <2>1. [NoSupervision EXCEPT !.pc = "watch", !.n = n] \in Supervision
      BY NoSupervisionType DEF Supervision, SupPCs
    <2>. QED
      BY <2>1 DEF GoodSup, SupShape, NoSupervision
  <1>. QED
    BY <1>1, SupStep DEF SuperviseLocked, Typed, TypeOK, Shape

LEMMA StartFinishTyped ==
    ASSUME Typed, NEW c \in Callers, StartFinish(c)
    PROVE  Typed'
  <1>. GoodCall(call[c]) /\ call[c].n \in Names
    BY GoodSame DEF StartFinish, At, GoodCall, CallShape
  <1>1. rec' \in [Names -> Record] /\ ident' = ident /\ rest' = rest
    BY SetStatusType DEF StartFinish, Typed, TypeOK, Statuses
  <1>2. disk' \in Snapshots
    BY <1>1, SaveType DEF StartFinish, Typed, TypeOK
  <1>3. \E ok \in BOOLEAN : call' = [call EXCEPT ![c] = Returned(ok)]
    BY DEF StartFinish, Return
  <1>4. /\ super' \in [Names -> Sups \cup {NoSup}]
        /\ sup' \in [Sups -> Supervision]
        /\ \A s \in Sups : SupShape(sup'[s])
    BY SuperviseTyped DEF StartFinish, Typed, TypeOK, Shape
  <1>. QED
    BY <1>1, <1>2, <1>3, <1>4, GoodReturned, CallStep
       DEF StartFinish, Typed, TypeOK, Shape

LEMMA AfterStopGood ==
    ASSUME NEW k, GoodCall(k), k.n \in Names, NEW ok \in BOOLEAN,
           k.op \in {"stop", "delete", "stopall"}
    PROVE  GoodCall(AfterStop(k, ok))
  <1>1. AfterStop(k, ok) \in Call
    BY AfterStopType DEF GoodCall
  <1>2. CallShape(AfterStop(k, ok))
    <2>1. CASE k.op = "stop"
      BY <2>1 DEF AfterStop, CallShape, Returned
    <2>2. CASE k.op = "delete"
      BY <2>2 DEF AfterStop, CallShape, Calling, Returned
    <2>3. CASE k.op = "stopall"
      BY <2>3 DEF AfterStop, CallShape, Calling, Returned
    <2>. QED
      BY <2>1, <2>2, <2>3
  <1>. QED
    BY <1>1, <1>2 DEF GoodCall

\* Releasing waiters changes their channel and nothing else.
LEMMA ReleaseTyped ==
    ASSUME Typed, NEW n, NEW w, sup' = Release(sup, n, w)
    PROVE  /\ sup' \in [Sups -> Supervision]
           /\ \A s \in Sups : SupShape(sup'[s])
  <1>1. \A s \in Sups : GoodSup([sup[s] EXCEPT !.watch = "ended"])
    BY GoodSame DEF GoodSup, SupShape, Supervision
  <1>. QED
    BY <1>1, GoodSame DEF Release, GoodSup

LEMMA HvStopTyped ==
    ASSUME Typed, NEW n \in Names, NEW ok, HvStop(n, ok)
    PROVE  /\ hv' \in [Names -> Machine]
           /\ sup' \in [Sups -> Supervision]
           /\ \A s \in Sups : SupShape(sup'[s])
  <1>1. hv' \in [Names -> Machine]
    BY DEF HvStop, Typed, TypeOK, Machine
  <1>. QED
    BY <1>1, ReleaseTyped DEF HvStop

LEMMA StopMarkTyped ==
    ASSUME Typed, NEW c \in Callers, NEW k, GoodCall(k), k.n \in Names,
           k.op \in {"stop", "delete", "stopall"}, StopMark(c, k)
    PROVE  Typed'
  <1>1. rec' \in [Names -> Record]
    BY SetStatusType DEF StopMark, Typed, TypeOK, Statuses
  <1>2. super' \in [Names -> Sups \cup {NoSup}]
    BY DEF StopMark, Typed, TypeOK
  <1>3. GoodCall(AfterStop(k, FALSE))
    BY AfterStopGood
  <1>4. GoodCall([k EXCEPT !.pc = "stop_cancel", !.held = TRUE, !.sup = super[k.n]])
    BY DEF GoodCall, CallShape, Call, CallPCs, Typed, TypeOK
  <1>. QED
    BY <1>1, <1>2, <1>3, <1>4, CallStep DEF StopMark, Typed, TypeOK, Shape

LEMMA StopStepsTyped ==
    ASSUME Typed, NEW c \in Callers,
           \/ DeleteStop(c) \/ StopAllNext(c)
           \/ StopCancel(c) \/ StopHalt(c) \/ StopFinish(c)
    PROVE  Typed'
  <1>. GoodCall(call[c])
    BY GoodSame
  <1>1. CASE DeleteStop(c)
    BY <1>1, StopMarkTyped DEF DeleteStop, At, GoodCall, CallShape
  <1>2. CASE StopAllNext(c)
    <2>1. PICK n \in call[c].todo :
            StopMark(c, [call[c] EXCEPT !.n = n, !.todo = @ \ {n}])
      BY <1>2 DEF StopAllNext
    <2>2. call[c].op = "stopall" /\ n \in Names
      BY <1>2, <2>1 DEF StopAllNext, At, GoodCall, CallShape, Call
    <2>3. GoodCall([call[c] EXCEPT !.n = n, !.todo = @ \ {n}])
      BY <1>2, <2>2 DEF StopAllNext, At, GoodCall, CallShape, Call
    <2>. QED
      BY <2>1, <2>2, <2>3, StopMarkTyped DEF GoodCall, Call
  <1>3. CASE StopCancel(c)
    <2>1. \A s \in Sups : GoodSup(Cancel(s))
      BY GoodSame DEF Cancel, GoodSup, SupShape, Supervision
    <2>2. GoodCall([call[c] EXCEPT !.pc = "stop_halt", !.sup = NoSup])
      BY <1>3 DEF StopCancel, At, GoodCall, CallShape, Call, CallPCs
    <2>. QED
      BY <1>3, <2>1, <2>2, CallStep DEF StopCancel, Typed, TypeOK, Shape, GoodSup
  <1>4. CASE StopHalt(c)
    <2>1. PICK ok \in BOOLEAN :
            /\ HvStop(call[c].n, ok)
            /\ call' = [call EXCEPT ![c] = [@ EXCEPT !.pc = "stop_finish", !.ok = ok]]
      BY <1>4 DEF StopHalt
    <2>2. GoodCall([call[c] EXCEPT !.pc = "stop_finish", !.ok = ok])
      BY <1>4 DEF StopHalt, At, GoodCall, CallShape, Call, CallPCs
    <2>3. /\ hv' \in [Names -> Machine]
          /\ sup' \in [Sups -> Supervision]
          /\ \A s \in Sups : SupShape(sup'[s])
      BY <1>4, <2>1, HvStopTyped DEF StopHalt, At, GoodCall, CallShape
    <2>. QED
      BY <1>4, <2>1, <2>2, <2>3, CallStep DEF StopHalt, Typed, TypeOK, Shape
  <1>5. CASE StopFinish(c)
    <2>0. call[c].n \in Names /\ call[c].op \in {"stop", "delete", "stopall"}
      BY <1>5 DEF StopFinish, At, GoodCall, CallShape
    <2>1. rec' \in [Names -> Record] /\ ident' = ident /\ rest' = rest
      BY <1>5, <2>0, SetStatusType DEF StopFinish, Typed, TypeOK, Statuses
    <2>2. disk' \in Snapshots
      BY <1>5, <2>1, SaveType DEF StopFinish, Typed, TypeOK
    <2>3. PICK ok \in BOOLEAN : call' = [call EXCEPT ![c] = AfterStop(call[c], ok)]
      BY <1>5 DEF StopFinish
    <2>4. GoodCall(AfterStop(call[c], ok))
      BY <2>0, AfterStopGood
    <2>. QED
      BY <1>5, <2>1, <2>2, <2>3, <2>4, CallStep
         DEF StopFinish, Typed, TypeOK, Shape
  <1>. QED
    BY <1>1, <1>2, <1>3, <1>4, <1>5

LEMMA StopCallGood ==
    \A n \in Names : /\ GoodCall(Calling("stop", "stop_mark", n))
                     /\ GoodCall(Calling("delete", "stop_mark", n))
  <1>. SUFFICES ASSUME NEW n \in Names, NEW op \in {"stop", "delete"}
                PROVE  GoodCall(Calling(op, "stop_mark", n))
    OBVIOUS
  <1>1. Calling(op, "stop_mark", n) \in Call
    BY CallingType DEF AllOps, CallPCs
  <1>2. CallShape(Calling(op, "stop_mark", n))
    BY DEF CallShape, Calling, Returned
  <1>. QED
    BY <1>1, <1>2 DEF GoodCall

LEMMA DeleteTyped ==
    ASSUME Typed, NEW c \in Callers, NEW n \in Names, Delete(c, n)
    PROVE  Typed'
  <1>1. GoodCall(Calling("delete", "stop_mark", n))
    BY StopCallGood
  <1>2. PICK k : GoodCall(k) /\ call' = [call EXCEPT ![c] = k]
    BY <1>1, GoodReturned DEF Delete
  <1>. QED
    BY <1>2, CallStep DEF Delete, Typed, TypeOK, Shape

LEMMA DeleteStepsTyped ==
    ASSUME Typed, NEW c \in Callers, DeleteHalt(c) \/ DeleteForget(c)
    PROVE  Typed'
  <1>. GoodCall(call[c]) /\ call[c].n \in Names
    BY GoodSame DEF DeleteHalt, DeleteForget, At, GoodCall, CallShape
  <1>1. CASE DeleteHalt(c)
    <2>1. GoodCall([call[c] EXCEPT !.pc = "delete_forget"])
      BY DEF GoodCall, CallShape, Call, CallPCs
    <2>2. /\ hv' \in [Names -> Machine]
          /\ sup' \in [Sups -> Supervision]
          /\ \A s \in Sups : SupShape(sup'[s])
      BY <1>1, HvStopTyped DEF DeleteHalt
    <2>. QED
      BY <1>1, <2>1, <2>2, CallStep DEF DeleteHalt, Goto, Typed, TypeOK, Shape
  <1>2. CASE DeleteForget(c)
    <2>1. PICK k : GoodCall(k) /\ call' = [call EXCEPT ![c] = k]
      <3>1. GoodCall([call[c] EXCEPT !.pc = "delete_finish"])
        BY DEF GoodCall, CallShape, Call, CallPCs
      <3>2. CASE Goto(c, "delete_finish")
        BY <3>1, <3>2 DEF Goto
      <3>3. CASE Return(c, FALSE)
        BY <3>3, GoodReturned DEF Return
      <3>. QED
        BY <1>2, <3>2, <3>3 DEF DeleteForget
    <2>2. PICK ok \in BOOLEAN : HvForget(call[c].n, ok)
      BY <1>2 DEF DeleteForget
    <2>3. hv' \in [Names -> Machine]
      BY <2>2 DEF HvForget, Typed, TypeOK, NoMachine, Machine
    <2>4. \A s \in Sups : GoodSup([sup[s] EXCEPT !.watch = "stray"])
      BY GoodSame DEF GoodSup, SupShape, Supervision
    <2>5. \A s \in Sups : GoodSup(sup'[s])
      BY <2>2, <2>4, GoodSame DEF HvForget
    <2>6. sup' \in [Sups -> Supervision] /\ \A s \in Sups : SupShape(sup'[s])
      BY <2>2, <2>5 DEF HvForget, GoodSup
    <2>. QED
      BY <1>2, <2>1, <2>3, <2>6, CallStep DEF DeleteForget, Typed, TypeOK, Shape
  <1>. QED
    BY <1>1, <1>2

LEMMA DeleteFinishTyped ==
    ASSUME Typed, NEW c \in Callers, DeleteFinish(c)
    PROVE  Typed'
  <1>1. /\ rec' \in [Names -> Record]
        /\ ident' \in [Names -> Ids \cup {NoId}]
        /\ rest' = rest
    BY DEF DeleteFinish, Typed, TypeOK, Record
  <1>2. disk' \in Snapshots
    BY <1>1, SaveType DEF DeleteFinish, Typed, TypeOK
  <1>3. \A s \in Sups : GoodSup([sup[s] EXCEPT !.held = FALSE])
    BY GoodSame DEF GoodSup, SupShape, Supervision
  <1>4. sup' \in [Sups -> Supervision] /\ \A s \in Sups : SupShape(sup'[s])
    BY <1>3, GoodSame DEF DeleteFinish, GoodSup
  <1>5. \A d \in Callers : GoodCall([call[d] EXCEPT !.held = FALSE])
    <2>1. ASSUME NEW k \in Call PROVE [k EXCEPT !.held = FALSE] \in Call
      BY DEF Call
    <2>2. ASSUME NEW k \in Call, CallShape(k)
          PROVE  CallShape([k EXCEPT !.held = FALSE])
      BY <2>2 DEF CallShape, Call
    <2>. QED
      BY <2>1, <2>2, GoodSame DEF GoodCall
  <1>6. PICK saved \in BOOLEAN :
          call' = [d \in Callers |->
                     IF d = c THEN Returned(saved)
                     ELSE IF call[d].n = call[c].n
                          THEN [call[d] EXCEPT !.held = FALSE]
                     ELSE call[d]]
    BY DEF DeleteFinish
  <1>7. \A d \in Callers : GoodCall(call'[d])
    BY <1>5, <1>6, GoodReturned, GoodSame
  <1>8. call' \in [Callers -> Call] /\ \A d \in Callers : CallShape(call'[d])
    BY <1>6, <1>7 DEF GoodCall
  <1>. QED
    BY <1>1, <1>2, <1>4, <1>8 DEF DeleteFinish, Typed, TypeOK, Shape

LEMMA StopAllTyped ==
    ASSUME Typed, NEW c \in Callers, StopAll(c) \/ StopAllReturn(c)
    PROVE  Typed'
  <1>1. GoodCall([Calling("stopall", "stopall_next", NoName)
                  EXCEPT !.todo = ToStop])
    BY DEF GoodCall, CallShape, Call, Calling, Returned, CallPCs, AllOps, ToStop
  <1>2. PICK k : GoodCall(k) /\ call' = [call EXCEPT ![c] = k]
    <2>1. (~call[c].failed) \in BOOLEAN
      BY DEF Typed, TypeOK, Call
    <2>. QED
      BY <1>1, <2>1, GoodReturned DEF StopAll, StopAllReturn, Return
  <1>. QED
    BY <1>2, CallStep DEF StopAll, StopAllReturn, Typed, TypeOK, Shape

LEMMA EnvironmentTyped ==
    ASSUME Typed, Environment
    PROVE  Typed'
  <1>1. PICK n \in Names : Crash(n) \/ WaiterEnds(n) \/ StrayEnds(n)
    BY DEF Environment
  <1>2. hv' \in [Names -> Machine]
    <2>1. hv \in [Names -> Machine]
      BY DEF Typed, TypeOK
    <2>2. \/ hv' = [hv EXCEPT ![n].up = FALSE, ![n].lag = TRUE]
          \/ hv' = [hv EXCEPT ![n].lag = FALSE]
          \/ hv' = [hv EXCEPT ![n].stray = FALSE]
      BY <1>1 DEF Crash, WaiterEnds, StrayEnds
    <2>3. \A h \in Machine : /\ [h EXCEPT !.up = FALSE, !.lag = TRUE] \in Machine
                             /\ [h EXCEPT !.lag = FALSE] \in Machine
                             /\ [h EXCEPT !.stray = FALSE] \in Machine
      BY DEF Machine
    <2>4. hv[n] \in Machine
      BY <2>1
    <2>. QED
      BY <2>1, <2>2, <2>3, <2>4
  <1>3. sup' \in [Sups -> Supervision] /\ \A s \in Sups : SupShape(sup'[s])
    <2>1. CASE Crash(n)
      BY <2>1 DEF Crash, Typed, TypeOK, Shape
    <2>2. CASE WaiterEnds(n) \/ StrayEnds(n)
      BY <2>2, ReleaseTyped DEF WaiterEnds, StrayEnds
    <2>. QED
      BY <1>1, <2>1, <2>2
  <1>. QED
    BY <1>1, <1>2, <1>3 DEF Crash, WaiterEnds, StrayEnds, Typed, TypeOK, Shape

LEMMA NextBackoffType ==
    \A b \in BackoffMin .. BackoffMax : NextBackoff(b) \in BackoffMin .. BackoffMax
  BY BackoffAssumption DEF NextBackoff

\* A step of supervisor s that writes a status and saves.
LEMMA SupWriteTyped ==
    ASSUME Typed, NEW s \in Sups, NEW n \in Names, NEW held, NEW st \in Statuses,
           NEW ok, SetStatus(n, held, st), Save(ok), UNCHANGED <<ident, rest>>
    PROVE  rec' \in [Names -> Record] /\ disk' \in Snapshots
  <1>1. rec' \in [Names -> Record]
    BY SetStatusType DEF Typed, TypeOK
  <1>. QED
    BY <1>1, SaveType DEF Typed, TypeOK

LEMMA SupRecordTyped ==
    ASSUME Typed, NEW s \in Sups, SupRecord(s)
    PROVE  Typed'
  <1>. GoodSup(sup[s]) /\ sup[s].n \in Names
    BY GoodSame DEF SupRecord, SupAt, GoodSup, SupShape
  <1>1. rec' \in [Names -> Record] /\ disk' \in Snapshots
    <2>1. CASE rec[sup[s].n].status \in {"absent", "stopping", "stopped"}
      BY <2>1 DEF SupRecord, Typed, TypeOK
    <2>2. CASE rec[sup[s].n].status \notin {"absent", "stopping", "stopped"}
      BY <2>2, SupWriteTyped DEF SupRecord, Statuses
    <2>. QED
      BY <2>1, <2>2
  <1>2. ASSUME NEW stable
        PROVE  GoodSup([sup[s] EXCEPT !.pc = "backoff", !.watch = "none",
                          !.backoff = IF stable THEN BackoffMin
                                           ELSE sup[s].backoff])
    <2>1. BackoffMin \in BackoffMin .. BackoffMax
      BY BackoffAssumption
    <2>. QED
      BY <2>1 DEF GoodSup, SupShape, Supervision, SupPCs
  <1>3. PICK g : GoodSup(g) /\ sup' = [sup EXCEPT ![s] = g]
    <2>1. CASE SupExit(s)
      BY <2>1, GoodNoSupervision DEF SupExit
    <2>2. ASSUME NEW stable,
                 sup' = [sup EXCEPT ![s] =
                    [@ EXCEPT !.pc = "backoff", !.watch = "none",
                              !.backoff = IF stable THEN BackoffMin
                                           ELSE sup[s].backoff]]
          PROVE  \E g : GoodSup(g) /\ sup' = [sup EXCEPT ![s] = g]
      BY <1>2, <2>2
    <2>. QED
      BY <2>1, <2>2 DEF SupRecord
  <1>. QED
    BY <1>1, <1>3, SupStep DEF SupRecord, Typed, TypeOK, Shape

LEMMA SuperviseStepTyped ==
    ASSUME Typed, NEW s \in Sups, Supervise(s)
    PROVE  Typed'
  <1>. GoodSup(sup[s])
    BY GoodSame
  <1>1. CASE SupWatch(s)
    <2>1. GoodSup([sup[s] EXCEPT !.pc = "waiting",
                     !.watch = IF Started(sup[s].n) THEN "open" ELSE "closed"])
      BY <1>1 DEF SupWatch, SupAt, GoodSup, SupShape, Supervision, SupPCs
    <2>. QED
      BY <1>1, <2>1, SupStep DEF SupWatch, Typed, TypeOK, Shape
  <1>2. CASE SupWake(s)
    <2>1. GoodSup([sup[s] EXCEPT !.pc = "record"])
      BY <1>2 DEF SupWake, SupAt, GoodSup, SupShape, Supervision, SupPCs
    <2>. QED
      BY <1>2, <2>1, SupStep, GoodNoSupervision
         DEF SupWake, SupExit, SupGoto, Typed, TypeOK, Shape
  <1>3. CASE SupRecord(s)
    BY <1>3, SupRecordTyped
  <1>4. CASE SupBackoff(s)
    <2>1. GoodSup([sup[s] EXCEPT !.pc = "restart", !.backoff = NextBackoff(sup[s].backoff)])
      BY <1>4, NextBackoffType
         DEF SupBackoff, SupAt, GoodSup, SupShape, Supervision, SupPCs
    <2>2. PICK g : GoodSup(g) /\ sup' = [sup EXCEPT ![s] = g]
      BY <1>4, <2>1, GoodNoSupervision DEF SupBackoff, SupExit
    <2>. QED
      BY <1>4, <2>2, SupStep DEF SupBackoff, Typed, TypeOK, Shape
  <1>5. CASE SupRestart(s)
    <2>0. sup[s].n \in Names
      BY <1>5 DEF SupRestart, SupAt, GoodSup, SupShape
    <2>1. rec' \in [Names -> Record] /\ disk' \in Snapshots
      BY <1>5, <2>0, SupWriteTyped DEF SupRestart, Statuses, Typed, TypeOK
    <2>2. /\ GoodSup([sup[s] EXCEPT !.pc = "launch", !.held = TRUE])
          /\ GoodSup([sup[s] EXCEPT !.pc = "watch"])
      BY <2>0 DEF GoodSup, SupShape, Supervision, SupPCs
    <2>. QED
      BY <1>5, <2>1, <2>2, SupStep DEF SupRestart, SupGoto, Typed, TypeOK, Shape
  <1>6. CASE SupLaunch(s)
    <2>0. sup[s].n \in Names
      BY <1>6 DEF SupLaunch, SupAt, GoodSup, SupShape
    <2>1. PICK ok \in BOOLEAN :
            /\ HvStart(sup[s].n, ok) \/ UNCHANGED hv
            /\ sup' = [sup EXCEPT ![s] = [@ EXCEPT !.pc = "relaunched", !.ok = ok]]
      BY <1>6 DEF SupLaunch
    <2>2. hv' \in [Names -> Machine]
      BY <2>0, <2>1, HvStartType DEF Typed, TypeOK
    <2>3. GoodSup([sup[s] EXCEPT !.pc = "relaunched", !.ok = ok])
      BY <2>0 DEF GoodSup, SupShape, Supervision, SupPCs
    <2>. QED
      BY <1>6, <2>1, <2>2, <2>3, SupStep DEF SupLaunch, Typed, TypeOK, Shape
  <1>7. CASE SupRelaunched(s)
    <2>0. sup[s].n \in Names
      BY <1>7 DEF SupRelaunched, SupAt, GoodSup, SupShape
    <2>1. rec' \in [Names -> Record] /\ disk' \in Snapshots
      BY <1>7, <2>0, SupWriteTyped DEF SupRelaunched, Statuses
    <2>2. GoodSup([sup[s] EXCEPT !.pc = "watch", !.held = FALSE, !.ok = TRUE])
      BY <2>0 DEF GoodSup, SupShape, Supervision, SupPCs
    <2>. QED
      BY <1>7, <2>1, <2>2, SupStep DEF SupRelaunched, Typed, TypeOK, Shape
  <1>. QED
    BY <1>1, <1>2, <1>3, <1>4, <1>5, <1>6, <1>7 DEF Supervise

LEMMA InvokeTyped ==
    ASSUME Typed, NEW c \in Callers, Invoke(c)
    PROVE  Typed'
  <1>1. ASSUME NEW n \in Names, NEW r \in RestartChoices, Create(c, n, r)
        PROVE  Typed'
    BY <1>1, CreateTyped, ConstantsAssumption DEF Create
  <1>2. ASSUME NEW n \in Names, NEW r \in RestartChoices, Ensure(c, n, r)
        PROVE  Typed'
    BY <1>2, EnsureTyped, ConstantsAssumption
  <1>3. ASSUME NEW n \in Names,
               \/ IdentityFor(c, n) \/ Start(c, n) \/ Stop(c, n) \/ Delete(c, n)
        PROVE  Typed'
    <2>1. GoodCall(Calling("stop", "stop_mark", n))
      BY StopCallGood
    <2>2. ASSUME Stop(c, n) PROVE Typed'
      BY <2>1, <2>2, StopMarkTyped DEF Stop, Calling, Returned
    <2>. QED
      BY <1>3, <2>2, IdentityForTyped, StartTyped, DeleteTyped
  <1>. QED
    BY <1>1, <1>2, <1>3, StopAllTyped, WithStateTyped DEF Invoke

\* Every step of every goroutine, and of the environment, keeps the types.
LEMMA TypedNext == Typed /\ [Next]_vars => Typed'
  <1>. SUFFICES ASSUME Typed, [Next]_vars PROVE Typed'
    OBVIOUS
  <1>1. ASSUME NEW c \in Callers, Proceed(c) PROVE Typed'
    BY <1>1, EnsureStepsTyped, StartLaunchTyped, StartFinishTyped,
       StopStepsTyped, DeleteStepsTyped, DeleteFinishTyped, StopAllTyped
       DEF Proceed
  <1>2. CASE UNCHANGED vars
    BY <1>2 DEF vars, Typed, TypeOK, Shape, CallShape, SupShape
  <1>. QED
    BY <1>1, <1>2, InvokeTyped, SuperviseStepTyped, EnvironmentTyped DEF Next

\* The variables of the manager hold the values they are declared for,
\* whatever the callers, the supervisors, the processes and the file do.
THEOREM TypeCorrect == Spec => []TypeOK
  <1>1. Typed => TypeOK
    BY DEF Typed
  <1>. QED
    BY <1>1, TypedInit, TypedNext, PTL DEF Spec

-----------------------------------------------------------------------------
(* No supervisor escapes *)

\* SupControlled is inductive once the types are known.  What a step must not
\* do: revive or rename a supervisor, withdraw a cancellation, or make a Stop
\* forget the supervisor it took out of the table.
SupsKept ==
    \A s \in Sups : Live(s)' =>
        /\ Live(s) /\ sup'[s].n = sup[s].n
        /\ sup[s].cancelled => sup'[s].cancelled

StopsKept ==
    \A c \in Callers : At(c, "stop_cancel") =>
        At(c, "stop_cancel")' /\ call'[c].sup = call[c].sup

LEMMA ControlKept ==
    ASSUME SupControlled, super' = super, SupsKept, StopsKept
    PROVE  SupControlled'
  <1>. SUFFICES ASSUME NEW s \in Sups, Live(s)'
                PROVE  \/ sup'[s].cancelled
                       \/ super'[sup'[s].n] = s
                       \/ AboutToCancel(s)'
    BY DEF SupControlled
  <1>1. Live(s) /\ sup'[s].n = sup[s].n /\ (sup[s].cancelled => sup'[s].cancelled)
    BY DEF SupsKept
  <1>2. AboutToCancel(s) => AboutToCancel(s)'
    BY DEF StopsKept, AboutToCancel
  <1>. QED
    BY <1>1, <1>2 DEF SupControlled

LEMMA StopsKeptByCaller ==
    ASSUME Typed, NEW c \in Callers, ~At(c, "stop_cancel"), NEW k,
           call' = [call EXCEPT ![c] = k]
    PROVE  StopsKept
  BY DEF StopsKept, At, Typed, TypeOK

LEMMA SupsKeptByRelease ==
    ASSUME NEW n, NEW w, sup' = Release(sup, n, w)
    PROVE  SupsKept
  BY DEF SupsKept, Release, Live

LEMMA SupsSame == UNCHANGED sup => SupsKept
  BY DEF SupsKept, Live

LEMMA StopsSame == UNCHANGED call => StopsKept
  BY DEF StopsKept, At

\* Calls that neither register nor remove a supervisor.
LEMMA PlainCallControlled ==
    ASSUME Typed, SupControlled, NEW c \in Callers,
           \/ \E n \in Names, r \in RestartChoices :
                 Create(c, n, r) \/ Ensure(c, n, r)
           \/ \E n \in Names : IdentityFor(c, n) \/ Start(c, n) \/ Delete(c, n)
           \/ StopAll(c) \/ \E r \in Rests : WithState(c, r)
           \/ EnsureCreate(c) \/ EnsurePrepare(c) \/ EnsureSave(c)
           \/ StartLaunch(c) \/ StopAllReturn(c) \/ StopFinish(c)
    PROVE  SupControlled'
  <1>1. super' = super /\ sup' = sup
    BY DEF Create, Ensure, IdentityFor, Start, Delete, StopAll, WithState,
           EnsureCreate, EnsurePrepare, EnsureSave, StartLaunch,
           StopAllReturn, StopFinish
  <1>2. ~At(c, "stop_cancel") /\ \E k : call' = [call EXCEPT ![c] = k]
    <2>1. CASE \E n \in Names, r \in RestartChoices :
                  Create(c, n, r) \/ Ensure(c, n, r)
      BY <2>1 DEF Create, Declare, Ensure, Idle, At, Return
    <2>2. CASE \E n \in Names : IdentityFor(c, n) \/ Start(c, n) \/ Delete(c, n)
      BY <2>2 DEF IdentityFor, Start, Delete, Idle, At, Return
    <2>3. CASE StopAll(c) \/ \E r \in Rests : WithState(c, r)
      BY <2>3 DEF StopAll, WithState, Idle, At, Return
    <2>4. CASE EnsureCreate(c) \/ EnsurePrepare(c) \/ EnsureSave(c)
      <3>1. CASE EnsureCreate(c)
        BY <3>1 DEF EnsureCreate, Declare, At, Return
      <3>2. CASE EnsurePrepare(c)
        <4>1. CASE Goto(c, "ensure_save")
          BY <3>2, <4>1 DEF EnsurePrepare, Goto, At
        <4>2. CASE Return(c, FALSE)
          BY <3>2, <4>2 DEF EnsurePrepare, Return, At
        <4>. QED
          BY <3>2, <4>1, <4>2 DEF EnsurePrepare
      <3>3. CASE EnsureSave(c)
        BY <3>3 DEF EnsureSave, At, Return
      <3>. QED
        BY <2>4, <3>1, <3>2, <3>3
    <2>5. CASE StartLaunch(c) \/ StopAllReturn(c) \/ StopFinish(c)
      BY <2>5 DEF StartLaunch, StopAllReturn, StopFinish, At, Return
    <2>. QED
      BY <2>1, <2>2, <2>3, <2>4, <2>5
  <1>. QED
    BY <1>1, <1>2, SupsSame, StopsKeptByCaller, ControlKept

\* Start registers a new supervisor, unless the VM has an entry already.
LEMMA StartFinishControlled ==
    ASSUME Typed, SupControlled, NEW c \in Callers, StartFinish(c)
    PROVE  SupControlled'
  <1>1. StopsKept
    <2>1. PICK k : call' = [call EXCEPT ![c] = k]
      BY DEF StartFinish, Return
    <2>. QED
      BY <2>1, StopsKeptByCaller DEF StartFinish, At
  <1>2. CASE UNCHANGED <<super, sup>>
    BY <1>1, <1>2, SupsSame, ControlKept
  <1>3. ASSUME NEW n \in Names, super[n] = NoSup, NEW new \in Sups, Fresh(new),
               super' = [super EXCEPT ![n] = new],
               sup' = [sup EXCEPT ![new] =
                         [NoSupervision EXCEPT !.pc = "watch", !.n = n]]
        PROVE  SupControlled'
    <2>. SUFFICES ASSUME NEW s \in Sups, Live(s)'
                  PROVE  \/ sup'[s].cancelled
                         \/ super'[sup'[s].n] = s
                         \/ AboutToCancel(s)'
      BY DEF SupControlled
    <2>1. CASE s = new
      BY <1>3, <2>1 DEF Typed, TypeOK, NoSupervision
    <2>2. CASE s # new
      <3>1. sup'[s] = sup[s] /\ Live(s)
        BY <1>3, <2>2 DEF Live, Typed, TypeOK
      <3>2. AboutToCancel(s) => AboutToCancel(s)'
        BY <1>1 DEF StopsKept, AboutToCancel
      <3>3. super[sup[s].n] = s => super'[sup[s].n] = s
        BY <1>3, <2>2, <3>1, ConstantsAssumption DEF Typed, TypeOK, Shape, SupShape, Live
      <3>. QED
        BY <3>1, <3>2, <3>3 DEF SupControlled
    <2>. QED
      BY <2>1, <2>2
  <1>4. call[c].n \in Names
    BY GoodSame DEF StartFinish, At, GoodCall, CallShape
  <1>. QED
    BY <1>2, <1>3, <1>4 DEF StartFinish, SuperviseLocked

\* Stop takes the supervisor out of the table, and becomes the one who holds it.
LEMMA StopMarkControlled ==
    ASSUME Typed, SupControlled, NEW c \in Callers, NEW k, GoodCall(k),
           ~At(c, "stop_cancel"), k.n \in Names, StopMark(c, k)
    PROVE  SupControlled'
  <1>1. StopsKept
    <2>1. PICK j : call' = [call EXCEPT ![c] = j]
      BY DEF StopMark
    <2>. QED
      BY <2>1, StopsKeptByCaller
  <1>2. sup' = sup
    BY DEF StopMark
  <1>3. CASE ~Known(k.n)
    BY <1>1, <1>2, <1>3, SupsSame, ControlKept DEF StopMark
  <1>4. CASE Known(k.n)
    <2>. SUFFICES ASSUME NEW s \in Sups, Live(s)
                  PROVE  \/ sup[s].cancelled
                         \/ super'[sup[s].n] = s
                         \/ AboutToCancel(s)'
      BY <1>2 DEF SupControlled, Live
    <2>1. AboutToCancel(s) => AboutToCancel(s)'
      BY <1>1 DEF StopsKept, AboutToCancel
    <2>2. super' = [super EXCEPT ![k.n] = NoSup]
      BY <1>4 DEF StopMark
    <2>3. CASE super[sup[s].n] = s /\ sup[s].n = k.n
      <3>1. call'[c].pc = "stop_cancel" /\ call'[c].sup = s
        <4>1. call' = [call EXCEPT ![c] =
                 [k EXCEPT !.pc = "stop_cancel", !.held = TRUE, !.sup = super[k.n]]]
          BY <1>4 DEF StopMark
        <4>2. [k EXCEPT !.pc = "stop_cancel", !.held = TRUE, !.sup = super[k.n]].pc
                = "stop_cancel"
          BY DEF GoodCall, Call
        <4>3. [k EXCEPT !.pc = "stop_cancel", !.held = TRUE, !.sup = super[k.n]].sup
                = s
          BY <2>3 DEF GoodCall, Call
        <4>. QED
          BY <4>1, <4>2, <4>3 DEF Typed, TypeOK
      <3>. QED
        BY <3>1 DEF AboutToCancel, At
    <2>4. CASE super[sup[s].n] = s /\ sup[s].n # k.n
      BY <2>2, <2>4 DEF Typed, TypeOK, Shape, SupShape, Live
    <2>. QED
      BY <2>1, <2>3, <2>4 DEF SupControlled
  <1>. QED
    BY <1>3, <1>4

LEMMA StopsControlled ==
    ASSUME Typed, SupControlled, NEW c \in Callers,
           (\E n \in Names : Stop(c, n)) \/ DeleteStop(c) \/ StopAllNext(c)
    PROVE  SupControlled'
  <1>. GoodCall(call[c])
    BY GoodSame
  <1>1. ASSUME NEW n \in Names, Stop(c, n) PROVE SupControlled'
    <2>1. GoodCall(Calling("stop", "stop_mark", n))
      BY StopCallGood
    <2>. QED
      BY <1>1, <2>1, StopMarkControlled DEF Stop, Idle, At, Calling, Returned
  <1>2. CASE DeleteStop(c)
    BY <1>2, StopMarkControlled DEF DeleteStop, At, GoodCall, CallShape
  <1>3. CASE StopAllNext(c)
    <2>1. PICK n \in call[c].todo :
            StopMark(c, [call[c] EXCEPT !.n = n, !.todo = @ \ {n}])
      BY <1>3 DEF StopAllNext
    <2>2. n \in Names
      BY <2>1 DEF GoodCall, Call
    <2>3. GoodCall([call[c] EXCEPT !.n = n, !.todo = @ \ {n}])
      BY <1>3, <2>2 DEF StopAllNext, At, GoodCall, CallShape, Call
    <2>4. [call[c] EXCEPT !.n = n, !.todo = @ \ {n}].n \in Names
      BY <2>2 DEF GoodCall, Call
    <2>. QED
      BY <1>3, <2>1, <2>3, <2>4, StopMarkControlled DEF StopAllNext, At
  <1>. QED
    BY <1>1, <1>2, <1>3

\* The Stop that held the supervisor cancels it.
LEMMA StopCancelControlled ==
    ASSUME Typed, SupControlled, NEW c \in Callers, StopCancel(c)
    PROVE  SupControlled'
  <1>. SUFFICES ASSUME NEW s \in Sups, Live(s)'
                PROVE  \/ sup'[s].cancelled
                       \/ super'[sup'[s].n] = s
                       \/ AboutToCancel(s)'
    BY DEF SupControlled
  <1>1. Live(s) /\ sup'[s].n = sup[s].n /\ super' = super
        /\ (sup[s].cancelled => sup'[s].cancelled)
    BY DEF StopCancel, Cancel, Live, Typed, TypeOK, Supervision
  <1>2. CASE s = call[c].sup
    BY <1>1, <1>2 DEF StopCancel, Cancel, Typed, TypeOK, Supervision
  <1>3. CASE s # call[c].sup
    <2>1. AboutToCancel(s) => AboutToCancel(s)'
      BY <1>3 DEF AboutToCancel, StopCancel, At, Typed, TypeOK
    <2>. QED
      BY <1>1, <2>1 DEF SupControlled
  <1>. QED
    BY <1>2, <1>3

LEMMA HaltsControlled ==
    ASSUME Typed, SupControlled, NEW c \in Callers,
           \/ StopHalt(c) \/ DeleteHalt(c) \/ DeleteForget(c) \/ DeleteFinish(c)
    PROVE  SupControlled'
  <1>1. super' = super
    BY DEF StopHalt, DeleteHalt, DeleteForget, DeleteFinish
  <1>2. SupsKept
    <2>1. CASE StopHalt(c) \/ DeleteHalt(c)
      BY <2>1, SupsKeptByRelease DEF StopHalt, DeleteHalt, HvStop
    <2>2. CASE DeleteForget(c)
      <3>1. PICK ok : HvForget(call[c].n, ok)
        BY <2>2 DEF DeleteForget
      <3>. QED
        BY <3>1 DEF HvForget, SupsKept, Live
    <2>3. CASE DeleteFinish(c)
      BY <2>3 DEF DeleteFinish, SupsKept, Live
    <2>. QED
      BY <2>1, <2>2, <2>3
  <1>3. StopsKept
    <2>1. CASE StopHalt(c)
      BY <2>1, StopsKeptByCaller DEF StopHalt, At
    <2>2. CASE DeleteHalt(c)
      BY <2>2, StopsKeptByCaller DEF DeleteHalt, Goto, At, StopsKept, Typed, TypeOK
    <2>3. CASE DeleteForget(c)
      BY <2>3 DEF DeleteForget, Goto, Return, At, StopsKept, Typed, TypeOK
    <2>4. CASE DeleteFinish(c)
      BY <2>4 DEF DeleteFinish, At, StopsKept, Typed, TypeOK, Call
    <2>. QED
      BY <2>1, <2>2, <2>3, <2>4
  <1>. QED
    BY <1>1, <1>2, <1>3, ControlKept

\* A supervisor never changes whom it answers to; it can only end.
LEMMA SuperviseControlled ==
    ASSUME Typed, SupControlled, NEW s \in Sups, Supervise(s)
    PROVE  SupControlled'
  <1>1. super' = super /\ call' = call
    BY DEF Supervise, SupWatch, SupWake, SupRecord, SupBackoff, SupRestart,
           SupLaunch, SupRelaunched
  <1>2. SupsKept
    <2>1. CASE SupWatch(s)
      BY <2>1 DEF SupWatch, SupAt, SupsKept, Live, Typed, TypeOK, Supervision
    <2>2. CASE SupWake(s)
      BY <2>2 DEF SupWake, SupAt, SupExit, SupGoto, NoSupervision, SupsKept,
                  Live, Typed, TypeOK, Supervision
    <2>3. CASE SupRecord(s)
      <3>1. CASE SupExit(s)
        BY <3>1 DEF SupExit, NoSupervision, SupsKept, Live, Typed, TypeOK
      <3>2. SupAt(s, "record")
        BY <2>3 DEF SupRecord
      <3>3. ASSUME NEW stable \in BOOLEAN,
                   sup' = [sup EXCEPT ![s] =
                      [@ EXCEPT !.pc = "backoff", !.watch = "none",
                                !.backoff = IF stable THEN BackoffMin
                                                      ELSE sup[s].backoff]]
            PROVE  SupsKept
        BY <3>2, <3>3 DEF SupAt, SupsKept, Live, Typed, TypeOK, Supervision
      <3>. QED
        BY <2>3, <3>1, <3>3 DEF SupRecord
    <2>4. CASE SupBackoff(s)
      <3>1. CASE SupExit(s)
        BY <3>1 DEF SupExit, NoSupervision, SupsKept, Live, Typed, TypeOK
      <3>2. CASE sup' = [sup EXCEPT ![s] =
                   [@ EXCEPT !.pc = "restart",
                             !.backoff = NextBackoff(sup[s].backoff)]]
        BY <2>4, <3>2 DEF SupBackoff, SupAt, SupsKept, Live, Typed, TypeOK, Supervision
      <3>. QED
        BY <2>4, <3>1, <3>2 DEF SupBackoff
    <2>5. CASE SupRestart(s)
      <3>1. CASE SupGoto(s, "watch")
        BY <2>5, <3>1 DEF SupRestart, SupAt, SupGoto, SupsKept, Live, Typed,
                          TypeOK, Supervision
      <3>2. CASE sup' = [sup EXCEPT ![s] =
                   [@ EXCEPT !.pc = "launch", !.held = TRUE]]
        BY <2>5, <3>2 DEF SupRestart, SupAt, SupsKept, Live, Typed, TypeOK, Supervision
      <3>. QED
        BY <2>5, <3>1, <3>2 DEF SupRestart
    <2>6. CASE SupLaunch(s)
      BY <2>6 DEF SupLaunch, SupAt, SupsKept, Live, Typed, TypeOK, Supervision
    <2>7. CASE SupRelaunched(s)
      BY <2>7 DEF SupRelaunched, SupAt, SupsKept, Live, Typed, TypeOK, Supervision
    <2>. QED
      BY <2>1, <2>2, <2>3, <2>4, <2>5, <2>6, <2>7 DEF Supervise
  <1>. QED
    BY <1>1, <1>2, StopsSame, ControlKept

LEMMA ControlNext == Typed /\ SupControlled /\ [Next]_vars => SupControlled'
  <1>. SUFFICES ASSUME Typed, SupControlled, [Next]_vars PROVE SupControlled'
    OBVIOUS
  <1>1. ASSUME NEW c \in Callers, Invoke(c) PROVE SupControlled'
    BY <1>1, PlainCallControlled, StopsControlled DEF Invoke
  <1>2. ASSUME NEW c \in Callers, Proceed(c) PROVE SupControlled'
    BY <1>2, PlainCallControlled, StartFinishControlled, StopsControlled,
       StopCancelControlled, HaltsControlled DEF Proceed
  <1>3. CASE Environment
    BY <1>3, SupsSame, SupsKeptByRelease, StopsSame, ControlKept
       DEF Environment, Crash, WaiterEnds, StrayEnds
  <1>4. CASE UNCHANGED vars
    BY <1>4, SupsSame, StopsSame, ControlKept DEF vars
  <1>. QED
    BY <1>1, <1>2, <1>3, <1>4, SuperviseControlled DEF Next

\* No supervisor escapes: every one that lives is registered, or cancelled, or
\* in the hands of a Stop that is about to cancel it.
THEOREM EverySupervisorControlled == Spec => []SupControlled
  <1>1. Init => SupControlled
    BY DEF Init, SupControlled, Live, NoSupervision
  <1>. QED
    BY <1>1, TypedInit, TypedNext, ControlNext, PTL DEF Spec

-----------------------------------------------------------------------------
(* Identities *)

\* Whatever a step writes to the file is the whole of the memory.
LEMMA DiskStep ==
    ASSUME [Next]_vars
    PROVE  disk' = disk \/ \E ok : Save(ok)
  <1>1. ASSUME NEW c \in Callers, Invoke(c)
        PROVE  disk' = disk \/ \E ok : Save(ok)
    BY <1>1 DEF Invoke, Create, Declare, Ensure, IdentityFor, Start, Stop,
                StopMark, Delete, StopAll, WithState
  <1>2. ASSUME NEW c \in Callers, Proceed(c)
        PROVE  disk' = disk \/ \E ok : Save(ok)
    BY <1>2 DEF Proceed, EnsureCreate, Declare, EnsurePrepare, EnsureSave,
                StartLaunch, StartFinish, StopCancel, StopHalt, StopFinish,
                DeleteStop, StopMark, DeleteHalt, DeleteForget, DeleteFinish,
                StopAllNext, StopAllReturn
  <1>3. ASSUME NEW s \in Sups, Supervise(s)
        PROVE  disk' = disk \/ \E ok : Save(ok)
    BY <1>3 DEF Supervise, SupWatch, SupWake, SupRecord, SupBackoff, SupRestart,
                SupLaunch, SupRelaunched
  <1>4. Environment \/ UNCHANGED vars => disk' = disk
    BY DEF Environment, Crash, WaiterEnds, StrayEnds, vars
  <1>. QED
    BY <1>1, <1>2, <1>3, <1>4 DEF Next

\* The steps that change an identity are an allocation and a deletion.
LEMMA IdentStep ==
    ASSUME [Next]_vars
    PROVE  \/ ident' = ident
           \/ \E c \in Callers, n \in Names : IdentityFor(c, n)
           \/ \E c \in Callers : DeleteFinish(c)
  <1>1. ASSUME NEW c \in Callers, Invoke(c)
        PROVE  ident' = ident \/ \E n \in Names : IdentityFor(c, n)
    BY <1>1 DEF Invoke, Create, Declare, Ensure, Start, Stop, StopMark, Delete,
                StopAll, WithState
  <1>2. ASSUME NEW c \in Callers, Proceed(c)
        PROVE  ident' = ident \/ DeleteFinish(c)
    BY <1>2 DEF Proceed, EnsureCreate, Declare, EnsurePrepare, EnsureSave,
                StartLaunch, StartFinish, StopCancel, StopHalt, StopFinish,
                DeleteStop, StopMark, DeleteHalt, DeleteForget, StopAllNext,
                StopAllReturn
  <1>3. ASSUME NEW s \in Sups, Supervise(s)
        PROVE  ident' = ident
    BY <1>3 DEF Supervise, SupWatch, SupWake, SupRecord, SupBackoff, SupRestart,
                SupLaunch, SupRelaunched
  <1>4. Environment \/ UNCHANGED vars => ident' = ident
    BY DEF Environment, Crash, WaiterEnds, StrayEnds, vars
  <1>. QED
    BY <1>1, <1>2, <1>3, <1>4 DEF Next

LEMMA IdentitiesNext ==
    Typed /\ IdentitiesDistinct /\ [Next]_vars => IdentitiesDistinct'
  <1>. SUFFICES ASSUME Typed, IdentitiesDistinct, [Next]_vars
                PROVE  IdentitiesDistinct'
    OBVIOUS
  <1>1. Distinct(ident')
    <2>1. CASE ident' = ident
      BY <2>1 DEF IdentitiesDistinct
    <2>2. ASSUME NEW n \in Names, NEW id \in FreeIds(n),
                 ident' = [ident EXCEPT ![n] = id]
          PROVE  Distinct(ident')
      BY <2>2 DEF FreeIds, IdentitiesDistinct, Distinct, Typed, TypeOK
    <2>3. ASSUME NEW c \in Callers, NEW n \in Names, IdentityFor(c, n)
          PROVE  Distinct(ident')
      BY <2>1, <2>2, <2>3 DEF IdentityFor
    <2>4. ASSUME NEW c \in Callers, DeleteFinish(c)
          PROVE  Distinct(ident')
      BY <2>4 DEF DeleteFinish, IdentitiesDistinct, Distinct, Typed, TypeOK
    <2>. QED
      BY <2>1, <2>3, <2>4, IdentStep
  <1>2. disk'.ids = disk.ids \/ disk'.ids = ident'
    BY DiskStep DEF Save, Snapshot
  <1>. QED
    BY <1>1, <1>2 DEF IdentitiesDistinct, Distinct

\* Two VMs never hold the same confinement identity at once, in memory or in
\* the state file, even when writes of the file fail.
THEOREM IdentitiesNeverShared == Spec => []IdentitiesDistinct
  <1>1. Init => IdentitiesDistinct
    BY DEF Init, IdentitiesDistinct, Distinct, Snapshot
  <1>. QED
    BY <1>1, TypedInit, TypedNext, IdentitiesNext, PTL DEF Spec

-----------------------------------------------------------------------------
(* A VM shown as stopped is down *)

Down == {"absent", "created", "stopped"}

UpIsShown ==
    \A n \in Names : ~hv[n].stray /\ (hv[n].up => rec[n].status \notin Down)

\* What a call under way knows of its VM.
CallerKnows ==
    \A c \in Callers :
        /\ At(c, "start_launch") => rec[call[c].n].status \notin Down
        /\ (At(c, "stop_finish") /\ call[c].ok)
              \/ call[c].pc \in {"delete_forget", "delete_finish"}
              => ~Started(call[c].n)

\* ... and what a supervisor that relaunches its VM knows of it.
SupKnows == \A s \in Sups : SupAt(s, "launch") => rec[sup[s].n].status \notin Down

OInv == UpIsShown /\ CallerKnows /\ SupKnows /\ LaunchesAlone

\* A step that sends no supervisor to a relaunch.
NoneToLaunch ==
    \A s \in Sups : sup'[s].pc = "launch" =>
        sup[s].pc = "launch" /\ sup'[s].n = sup[s].n

LEMMA InitOrderly == Init => OInv
  BY ConstantsAssumption DEF Init, OInv, UpIsShown, CallerKnows, SupKnows,
     LaunchesAlone, At, SupAt, NoRecord, NoSupervision, NoMachine, Returned

\* What writing a status through a pointer changes.
LEMMA StatusWritten ==
    ASSUME Typed, NEW n \in Names, NEW st,
           rec' = rec \/ rec' = [rec EXCEPT ![n].status = st]
    PROVE  \A m \in Names :
              rec'[m].status = rec[m].status \/ (m = n /\ rec'[m].status = st)
  <1>1. \A r \in Record : [r EXCEPT !.status = st].status = st
    BY DEF Record, NoRecord
  <1>2. CASE rec' = rec
    BY <1>2
  <1>3. CASE rec' = [rec EXCEPT ![n].status = st]
    <2>1. rec'[n] = [rec[n] EXCEPT !.status = st]
          /\ \A m \in Names \ {n} : rec'[m] = rec[m]
      BY <1>3 DEF Typed, TypeOK
    <2>2. rec[n] \in Record
      BY DEF Typed, TypeOK
    <2>3. rec'[n].status = st
      BY <1>1, <2>1, <2>2
    <2>. QED
      BY <2>1, <2>3
  <1>. QED
    BY <1>2, <1>3

LEMMA OnlyCaller ==
    ASSUME Typed, NEW c \in Callers, NEW k, call' = [call EXCEPT ![c] = k]
    PROVE  call'[c] = k /\ \A d \in Callers \ {c} : call'[d].pc = call[d].pc
  BY DEF Typed, TypeOK

LEMMA ReturnPC == \A ok : Returned(ok).pc = "idle"
  BY DEF Returned

LEMMA ReturnsIdle ==
    ASSUME Typed, NEW c \in Callers, NEW ok, Return(c, ok)
    PROVE  call'[c].pc = "idle"
  <1>1. call'[c] = Returned(ok)
    BY DEF Return, Typed, TypeOK
  <1>. QED
    BY <1>1, ReturnPC

LEMMA PrepareKeeps ==
    ASSUME Typed, NEW n \in Names, NEW ok, HvCreate(n, ok)
    PROVE  \A m \in Names : /\ hv'[m].up => hv[m].up
                            /\ hv'[m].lag => Started(m)
                            /\ hv'[m].stray => hv[m].stray
  BY DEF HvCreate, Started, Typed, TypeOK, Machine

\* What a step of one caller leaves of the others'.
OthersSame(c) ==
    \A d \in Callers \ {c} :
        /\ call'[d].pc = call[d].pc
        /\ call'[d].n = call[d].n
        /\ call'[d].ok = call[d].ok

LEMMA CallWritten ==
    ASSUME Typed, NEW c \in Callers, NEW k, call' = [call EXCEPT ![c] = k]
    PROVE  OthersSame(c)
  BY DEF Typed, TypeOK, OthersSame

LEMMA StepOthers ==
    ASSUME Typed, NEW c \in Callers, Invoke(c) \/ Proceed(c)
    PROVE  OthersSame(c)
  <1>1. ASSUME NEW ok, Return(c, ok) PROVE OthersSame(c)
    BY <1>1, CallWritten DEF Return
  <1>2. ASSUME NEW k, StopMark(c, k) PROVE OthersSame(c)
    BY <1>2, CallWritten DEF StopMark
  <1>3. ASSUME NEW n, NEW r, Declare(c, n, r) PROVE OthersSame(c)
    BY <1>3, <1>1 DEF Declare
  <1>4. ASSUME Invoke(c) PROVE OthersSame(c)
    <2>1. ASSUME NEW n \in Names, NEW r \in RestartChoices, Create(c, n, r) \/ Ensure(c, n, r)
          PROVE  OthersSame(c)
      BY <2>1, <1>3, CallWritten DEF Create, Ensure
    <2>2. ASSUME NEW n \in Names, IdentityFor(c, n) \/ Start(c, n)
          PROVE  OthersSame(c)
      BY <2>2, <1>1, CallWritten DEF IdentityFor, Start
    <2>3. ASSUME NEW n \in Names, Stop(c, n) \/ Delete(c, n)
          PROVE  OthersSame(c)
      BY <2>3, <1>2, CallWritten DEF Stop, Delete
    <2>4. ASSUME StopAll(c) \/ \E r \in Rests : WithState(c, r) PROVE OthersSame(c)
      BY <2>4, <1>1, CallWritten DEF StopAll, WithState
    <2>. QED
      BY <1>4, <2>1, <2>2, <2>3, <2>4 DEF Invoke
  <1>5. ASSUME Proceed(c) PROVE OthersSame(c)
    <2>1. CASE EnsureCreate(c) \/ EnsurePrepare(c) \/ EnsureSave(c)
      BY <2>1, <1>1, <1>3, CallWritten DEF EnsureCreate, EnsurePrepare, EnsureSave, Goto
    <2>2. CASE StartLaunch(c) \/ StartFinish(c)
      BY <2>2, <1>1, CallWritten DEF StartLaunch, StartFinish
    <2>3. CASE StopCancel(c) \/ StopHalt(c) \/ StopFinish(c)
      BY <2>3, CallWritten DEF StopCancel, StopHalt, StopFinish
    <2>4. CASE DeleteStop(c) \/ DeleteHalt(c) \/ DeleteForget(c)
      BY <2>4, <1>1, <1>2, CallWritten DEF DeleteStop, DeleteHalt, DeleteForget, Goto
    <2>5. CASE DeleteFinish(c)
      BY <2>5 DEF DeleteFinish, OthersSame, Typed, TypeOK, Call
    <2>6. CASE StopAllNext(c) \/ StopAllReturn(c)
      BY <2>6, <1>1, <1>2 DEF StopAllNext, StopAllReturn
    <2>. QED
      BY <1>5, <2>1, <2>2, <2>3, <2>4, <2>5, <2>6 DEF Proceed
  <1>. QED
    BY <1>4, <1>5

\* A step of a caller that launches nothing: it may show as down a VM that is
\* down, if no other caller is about to launch it.
LEMMA CallerOrderly ==
    ASSUME Typed, OInv, LaunchesAlone', NEW c \in Callers, OthersSame(c),
           NoneToLaunch,
           \A m \in Names :
              /\ hv'[m].up => hv[m].up
              /\ hv'[m].lag => Started(m)
              /\ hv'[m].stray => hv[m].stray
              /\ \/ rec'[m].status = rec[m].status
                 \/ rec'[m].status \notin Down
                 \/ /\ ~hv[m].up
                    /\ rec[m].status \in Down \/ m \in {call[c].n, call'[c].n},
           call'[c].pc \in {"stop_finish", "delete_forget", "delete_finish"} =>
              call'[c].n \in Names /\ ~Started(call[c].n)',
           call'[c].pc = "start_launch" => rec'[call'[c].n].status \notin Down
    PROVE  OInv'
  <1>1. UpIsShown'
    BY DEF OInv, UpIsShown
  <1>2. CallerKnows'
    <2>1. \A d \in Callers \ {c} : At(d, "start_launch") =>
              /\ call[d].n \in Names
              /\ rec[call[d].n].status \notin Down
              /\ call[d].n \notin {call[c].n, call'[c].n}
      BY GoodSame DEF OInv, CallerKnows, LaunchesAlone, OthersSame, At, GoodCall, CallShape
    <2>2. \A d \in Callers \ {c} : At(d, "start_launch") => rec'[call[d].n].status \notin Down
      BY <2>1
    <2>3. \A d \in Callers \ {c} :
              (At(d, "stop_finish") /\ call[d].ok)
                 \/ call[d].pc \in {"delete_forget", "delete_finish"}
                 => ~hv'[call[d].n].up /\ ~hv'[call[d].n].lag
      BY GoodSame DEF OInv, CallerKnows, At, GoodCall, CallShape, Started
    <2>. QED
      BY <2>2, <2>3 DEF OInv, CallerKnows, OthersSame, At, Started
  <1>3. ASSUME NEW s \in Sups, sup'[s].pc = "launch"
        PROVE  rec'[sup'[s].n].status \notin Down
    <2>1. sup[s].pc = "launch" /\ sup'[s].n = sup[s].n
      BY <1>3 DEF NoneToLaunch
    <2>2. sup[s].n \in Names /\ rec[sup[s].n].status \notin Down
      BY <2>1, GoodSame DEF OInv, SupKnows, SupAt, GoodSup, SupShape
    <2>3. sup[s].n # call[c].n
      BY <2>1, <2>2 DEF OInv, LaunchesAlone, SupAt
    <2>4. sup[s].n # call'[c].n
      BY <1>3, <2>1, <2>2 DEF LaunchesAlone, SupAt
    <2>. QED
      BY <2>1, <2>2, <2>3, <2>4
  <1>. QED
    BY <1>1, <1>2, <1>3 DEF OInv, SupKnows, SupAt

LEMMA StopMarkOrderly ==
    ASSUME Typed, OInv, LaunchesAlone', NEW c \in Callers, OthersSame(c),
           NEW k, GoodCall(k), k.n \in Names,
           k.op \in {"stop", "delete", "stopall"}, StopMark(c, k)
    PROVE  OInv'
  <1>1. UNCHANGED hv /\ NoneToLaunch
    BY DEF StopMark, NoneToLaunch
  <1>2. \A m \in Names :
            rec'[m].status = rec[m].status \/ rec'[m].status = "stopping"
    <2>1. rec' = rec \/ rec' = [rec EXCEPT ![k.n].status = "stopping"]
      BY DEF StopMark, SetStatus
    <2>. QED
      BY <2>1, StatusWritten DEF OInv
  <1>3. call'[c].pc \in {"idle", "delete_halt", "stopall_next", "stop_cancel"}
    <2>1. AfterStop(k, FALSE).pc \in {"idle", "delete_halt", "stopall_next"}
      BY DEF AfterStop, Calling, Returned
    <2>2. [k EXCEPT !.pc = "stop_cancel", !.held = TRUE, !.sup = super[k.n]].pc
            = "stop_cancel"
      BY DEF GoodCall, Call
    <2>. QED
      BY <2>1, <2>2 DEF StopMark, Typed, TypeOK
  <1>. QED
    BY <1>1, <1>2, <1>3, CallerOrderly DEF Down, Started

LEMMA DeclareOrderly ==
    ASSUME Typed, OInv, LaunchesAlone', NEW c \in Callers, OthersSame(c),
           NEW n \in Names, NEW r, Declare(c, n, r), sup' = sup
    PROVE  OInv'
  <1>1. NoneToLaunch
    BY DEF NoneToLaunch
  <1>2. call'[c].pc = "idle"
    BY ReturnsIdle DEF Declare
  <1>3. \/ rec' = rec
        \/ /\ ~hv[n].up /\ ~Known(n)
           /\ rec' = [rec EXCEPT ![n] = [status |-> "created", restart |-> r]]
    BY DEF Declare, HvCreate, Started
  <1>4. \A m \in Names : /\ hv'[m].up => hv[m].up
                         /\ hv'[m].lag => Started(m)
                         /\ hv'[m].stray => hv[m].stray
    BY PrepareKeeps DEF Declare, Started
  <1>5. \A m \in Names :
            rec'[m].status = rec[m].status \/ (~hv[m].up /\ rec[m].status \in Down)
    BY <1>3 DEF OInv, Typed, TypeOK, Known, NoRecord, Down
  <1>. QED
    BY <1>1, <1>2, <1>4, <1>5, CallerOrderly

LEMMA EnsureOrderly ==
    ASSUME Typed, OInv, LaunchesAlone', NEW c \in Callers, OthersSame(c),
           NEW n \in Names, NEW r \in RestartChoices, Ensure(c, n, r), ~hv[n].up
    PROVE  OInv'
  <1>1. hv' = hv /\ NoneToLaunch
    BY DEF Ensure, NoneToLaunch
  <1>2. \A m \in Names :
            rec'[m].status = rec[m].status \/ m = n
    <2>1. rec' = rec \/ \E st : rec' = [rec EXCEPT ![n] = [status |-> st, restart |-> r]]
      BY DEF Ensure
    <2>. QED
      BY <1>1, <2>1 DEF OInv, Typed, TypeOK
  <1>3. call'[c].pc \in {"ensure_prepare", "ensure_create"} /\ call'[c].n = n
    <2>. DEFINE k == [Calling("ensure", IF Known(n) THEN "ensure_prepare"
                                                   ELSE "ensure_create", n)
                      EXCEPT !.restart = r]
    <2>1. k.pc \in {"ensure_prepare", "ensure_create"} /\ k.n = n
      BY DEF Calling, Returned
    <2>2. call'[c] = k
      BY DEF Ensure, Typed, TypeOK
    <2>. QED
      BY <2>1, <2>2
  <1>. QED
    BY <1>1, <1>2, <1>3, CallerOrderly DEF Started

LEMMA IdentityOrderly ==
    ASSUME Typed, OInv, LaunchesAlone', NEW c \in Callers, OthersSame(c),
           NEW n \in Names, IdentityFor(c, n)
    PROVE  OInv'
  <1>1. UNCHANGED hv /\ rec' = rec /\ NoneToLaunch
    BY DEF IdentityFor, NoneToLaunch
  <1>2. call'[c].pc = "idle"
    BY ReturnsIdle DEF IdentityFor
  <1>. QED
    BY <1>1, <1>2, CallerOrderly DEF OInv, Started

\* A call that begins and ends at once overlaps no launch.
LEMMA IdentityAlone ==
    ASSUME Typed, OInv, NEW c \in Callers, NEW n \in Names, IdentityFor(c, n)
    PROVE  LaunchesAlone' /\ OthersSame(c)
  <1>1. PICK ok : Return(c, ok)
    BY DEF IdentityFor
  <1>2. call' = [call EXCEPT ![c] = Returned(ok)] /\ Returned(ok).n \notin Names
        /\ Returned(ok).pc = "idle"
    BY <1>1, ConstantsAssumption DEF Return, Returned
  <1>3. sup' = sup
    BY DEF IdentityFor
  <1>. QED
    BY <1>2, <1>3, CallWritten DEF OInv, LaunchesAlone, Typed, TypeOK, At, SupAt

LEMMA InvokeOrderly ==
    ASSUME EnsuresDown, Typed, OInv, LaunchesAlone',
           NEW c \in Callers, OthersSame(c), Invoke(c)
    PROVE  OInv'
  <1>1. ASSUME NEW n \in Names, NEW r \in RestartChoices,
               Create(c, n, r) \/ Ensure(c, n, r)
        PROVE  OInv'
    <2>2. Create(c, n, r) => Declare(c, n, r) /\ sup' = sup
      BY DEF Create
    <2>3. Ensure(c, n, r) => ~hv[n].up
      BY DEF EnsuresDown, Started
    <2>. QED
      BY <1>1, <2>2, <2>3, DeclareOrderly, EnsureOrderly
  <1>2. ASSUME NEW n \in Names, Start(c, n) PROVE OInv'
    <2>1. UNCHANGED hv /\ NoneToLaunch
      BY <1>2 DEF Start, NoneToLaunch
    <2>2. CASE ~MayStart(n)
      <3>1. rec' = rec /\ call'[c].pc = "idle"
        BY <1>2, <2>2, ReturnsIdle DEF Start
      <3>. QED
        BY <2>1, <3>1, CallerOrderly DEF OInv, Started
    <2>3. CASE MayStart(n)
      <3>1. rec' = [rec EXCEPT ![n].status = "starting"] /\ SetStatus(n, TRUE, "starting")
        BY <1>2, <2>3 DEF Start, SetStatus
      <3>2. \A m \in Names :
                rec'[m].status = rec[m].status \/ rec'[m].status = "starting"
        BY <3>1, StatusWritten DEF OInv
      <3>3. rec'[n].status = "starting"
        BY <3>1 DEF Typed, TypeOK, Record, NoRecord
      <3>4. call'[c].pc = "start_launch" /\ call'[c].n = n
        <4>. DEFINE k == [Calling("start", "start_launch", n) EXCEPT !.held = TRUE]
        <4>1. call' = [call EXCEPT ![c] = k]
          BY <1>2, <2>3 DEF Start
        <4>2. k.pc = "start_launch" /\ k.n = n
          BY DEF Calling, Returned
        <4>. HIDE DEF k
        <4>. QED
          BY <4>1, <4>2, OnlyCaller
      <3>. QED
        BY <2>1, <3>2, <3>3, <3>4, CallerOrderly DEF Down, Started
    <2>. QED
      BY <2>2, <2>3
  <1>3. ASSUME NEW n \in Names, Stop(c, n) PROVE OInv'
    <2>1. Calling("stop", "stop_mark", n).n = n /\ Calling("stop", "stop_mark", n).op = "stop"
      BY DEF Calling, Returned
    <2>. QED
      BY <1>3, <2>1, StopCallGood, StopMarkOrderly DEF Stop
  <1>4. ASSUME NEW n \in Names, Delete(c, n) PROVE OInv'
    <2>1. UNCHANGED hv /\ rec' = rec /\ NoneToLaunch
      BY <1>4 DEF Delete, NoneToLaunch
    <2>2. call'[c].pc \in {"idle", "stop_mark"}
      BY <1>4 DEF Delete, Calling, Returned, Typed, TypeOK
    <2>. QED
      BY <2>1, <2>2, CallerOrderly DEF OInv, Started
  <1>6. ASSUME NEW n \in Names, IdentityFor(c, n) PROVE OInv'
    BY <1>6, IdentityOrderly
  <1>5. ASSUME StopAll(c) \/ \E r \in Rests : WithState(c, r) PROVE OInv'
    <2>1. UNCHANGED hv /\ rec' = rec /\ NoneToLaunch
      BY <1>5 DEF StopAll, WithState, NoneToLaunch
    <2>2. call'[c].pc \in {"idle", "stopall_next"}
      <3>1. StopAll(c) => call'[c].pc = "stopall_next"
        BY DEF StopAll, Calling, Returned, Typed, TypeOK
      <3>2. \A r \in Rests : WithState(c, r) => call'[c].pc = "idle"
        BY ReturnsIdle DEF WithState
      <3>. QED
        BY <1>5, <3>1, <3>2
    <2>. QED
      BY <2>1, <2>2, CallerOrderly DEF OInv, Started
  <1>. QED
    BY <1>1, <1>2, <1>3, <1>4, <1>5, <1>6 DEF Invoke

\* Start puts a process under a status that admits one.
LEMMA StartOrderly ==
    ASSUME Typed, OInv, LaunchesAlone', NEW c \in Callers, OthersSame(c),
           StartLaunch(c) \/ StartFinish(c)
    PROVE  OInv'
  <1>. GoodCall(call[c]) /\ call[c].n \in Names
    BY GoodSame DEF StartLaunch, StartFinish, At, GoodCall, CallShape
  <1>1. CASE StartLaunch(c)
    <2>1. rec' = rec /\ sup' = sup /\ call'[c].pc = "start_finish"
      <3>1. PICK ok \in BOOLEAN :
              call' = [call EXCEPT ![c] = [@ EXCEPT !.pc = "start_finish", !.ok = ok]]
        BY <1>1 DEF StartLaunch
      <3>2. call'[c].pc = "start_finish"
        BY <3>1 DEF Typed, TypeOK, Call
      <3>. QED
        BY <1>1, <3>2 DEF StartLaunch
    <2>2. \A m \in Names : /\ hv'[m].stray => hv[m].stray
                           /\ hv'[m].lag => hv[m].lag
                           /\ hv'[m].up => hv[m].up \/ m = call[c].n
      <3>1. hv' = hv \/ hv' = [hv EXCEPT ![call[c].n].up = TRUE]
        BY <1>1 DEF StartLaunch, HvStart
      <3>. QED
        BY <3>1 DEF Typed, TypeOK, Machine
    <2>3. rec[call[c].n].status \notin Down
      BY <1>1 DEF StartLaunch, OInv, CallerKnows
    <2>4. UpIsShown'
      BY <2>1, <2>2, <2>3 DEF OInv, UpIsShown
    <2>5. \A d \in Callers \ {c} :
              call[d].pc \in {"stop_finish", "delete_forget", "delete_finish"} =>
                  call[d].n \in Names \ {call[c].n}
      BY <1>1, GoodSame DEF StartLaunch, At, OInv, LaunchesAlone, GoodCall, CallShape
    <2>6. CallerKnows'
      BY <2>1, <2>2, <2>5 DEF OInv, CallerKnows, OthersSame, At, Started
    <2>7. SupKnows'
      BY <2>1 DEF OInv, SupKnows, SupAt
    <2>. QED
      BY <2>4, <2>6, <2>7 DEF OInv
  <1>2. CASE StartFinish(c)
    <2>1. call'[c].pc = "idle"
      BY <1>2, ReturnsIdle DEF StartFinish
    <2>2. NoneToLaunch
      <3>1. [NoSupervision EXCEPT !.pc = "watch", !.n = call[c].n].pc = "watch"
        BY DEF NoSupervision
      <3>2. sup' = sup \/ \E t \in Sups : sup' = [sup EXCEPT ![t] =
                [NoSupervision EXCEPT !.pc = "watch", !.n = call[c].n]]
        BY <1>2 DEF StartFinish, SuperviseLocked
      <3>3. \A s \in Sups : sup'[s] = sup[s] \/ sup'[s].pc = "watch"
        BY <3>1, <3>2 DEF Typed, TypeOK
      <3>. QED
        BY <3>3 DEF NoneToLaunch
    <2>3. \A m \in Names :
              rec'[m].status \in {rec[m].status, "running", "failed"}
      <3>. DEFINE n == call[c].n
      <3>1. \/ rec' = rec
            \/ rec' = [rec EXCEPT ![n].status = "running"]
            \/ rec' = [rec EXCEPT ![n].status = "failed"]
        BY <1>2 DEF StartFinish, SetStatus
      <3>2. ASSUME NEW st \in {"running", "failed"},
                   rec' = rec \/ rec' = [rec EXCEPT ![n].status = st]
            PROVE  \A m \in Names :
                      rec'[m].status = rec[m].status \/ rec'[m].status = st
        <4>. HIDE DEF n
        <4>1. n \in Names
          BY DEF n
        <4>. QED
          BY <3>2, <4>1, StatusWritten
      <3>. HIDE DEF n
      <3>. QED
        BY <3>1, <3>2 DEF OInv
    <2>4. UNCHANGED hv
      BY <1>2 DEF StartFinish
    <2>. QED
      BY <2>1, <2>2, <2>3, <2>4, CallerOrderly DEF Down, Started
  <1>. QED
    BY <1>1, <1>2

\* The process is stopped before the status says so.
LEMMA HaltOrderly ==
    ASSUME Typed, OInv, LaunchesAlone', NEW c \in Callers, OthersSame(c),
           StopHalt(c) \/ DeleteHalt(c)
    PROVE  OInv'
  <1>. DEFINE n == call[c].n
  <1>1. n \in Names
    BY GoodSame DEF StopHalt, DeleteHalt, At, GoodCall, CallShape
  <1>2. /\ hv' = [hv EXCEPT ![n].up = FALSE, ![n].lag = FALSE]
        /\ \E w : sup' = Release(sup, n, w)
    BY DEF StopHalt, DeleteHalt, HvStop
  <1>3. /\ ~hv'[n].up /\ ~hv'[n].lag
        /\ \A m \in Names : /\ hv'[m].stray = hv[m].stray
                            /\ hv'[m].lag => hv[m].lag
                            /\ hv'[m].up => hv[m].up
    BY <1>1, <1>2 DEF Typed, TypeOK, Machine
  <1>4. NoneToLaunch
    <2>1. \A s \in Sups : sup'[s].pc = sup[s].pc /\ sup'[s].n = sup[s].n
      BY <1>2 DEF Release, Typed, TypeOK, Supervision
    <2>. QED
      BY <2>1 DEF NoneToLaunch
  <1>5. call'[c].pc \in {"stop_finish", "delete_forget"} /\ call'[c].n = n
    <2>1. ASSUME StopHalt(c) PROVE call'[c].pc = "stop_finish" /\ call'[c].n = n
      <3>1. PICK ok \in BOOLEAN :
              call' = [call EXCEPT ![c] = [@ EXCEPT !.pc = "stop_finish", !.ok = ok]]
        BY <2>1 DEF StopHalt
      <3>. QED
        BY <3>1 DEF Typed, TypeOK, Call
    <2>2. DeleteHalt(c) => call'[c].pc = "delete_forget" /\ call'[c].n = n
      BY DEF DeleteHalt, Goto, Typed, TypeOK, Call
    <2>. QED
      BY <2>1, <2>2
  <1>6. rec' = rec
    BY DEF StopHalt, DeleteHalt
  <1>7. n \in Names /\ call'[c].n = n /\ ~Started(call[c].n)'
    BY <1>1, <1>3, <1>5 DEF Started
  <1>8. \A m \in Names : hv'[m].lag => Started(m)
    BY <1>3 DEF Started
  <1>. QED
    BY <1>1, <1>3, <1>4, <1>5, <1>6, <1>7, <1>8, CallerOrderly DEF Started

LEMMA StopFinishOrderly ==
    ASSUME Typed, OInv, LaunchesAlone', NEW c \in Callers, OthersSame(c),
           StopFinish(c)
    PROVE  OInv'
  <1>. GoodCall(call[c]) /\ call[c].n \in Names
       /\ call[c].op \in {"stop", "delete", "stopall"}
    BY GoodSame DEF StopFinish, At, GoodCall, CallShape
  <1>1. UNCHANGED hv /\ NoneToLaunch
    BY DEF StopFinish, NoneToLaunch
  <1>2. \A m \in Names :
            \/ rec'[m].status = rec[m].status
            \/ rec'[m].status = "failed"
            \/ m = call[c].n /\ call[c].ok
    BY StatusWritten DEF StopFinish, SetStatus, OInv
  <1>3. call[c].ok => ~hv[call[c].n].up
    BY DEF StopFinish, OInv, CallerKnows, Started
  <1>4. call'[c].pc \in {"idle", "delete_halt", "stopall_next"}
    <2>1. \A ok : AfterStop(call[c], ok).pc \in {"idle", "delete_halt", "stopall_next"}
      BY DEF AfterStop, Calling, Returned
    <2>. QED
      BY <2>1 DEF StopFinish, Typed, TypeOK
  <1>. QED
    BY <1>1, <1>2, <1>3, <1>4, CallerOrderly DEF Down, Started

\* Delete forgets an instance whose process has ended: none goes astray.
LEMMA DeleteOrderly ==
    ASSUME Typed, OInv, LaunchesAlone', NEW c \in Callers, OthersSame(c),
           DeleteForget(c) \/ DeleteFinish(c)
    PROVE  OInv'
  <1>. DEFINE n == call[c].n
  <1>1. n \in Names /\ ~hv[n].up /\ ~hv[n].lag
    BY GoodSame DEF DeleteForget, DeleteFinish, At, GoodCall, CallShape, OInv, CallerKnows,
       Started
  <1>2. CASE DeleteForget(c)
    <2>1. PICK ok : HvForget(n, ok)
      BY <1>2 DEF DeleteForget
    <2>2. /\ ~hv'[n].up /\ ~hv'[n].lag /\ ~hv'[n].stray
          /\ \A m \in Names \ {n} : hv'[m] = hv[m]
      BY <1>1, <2>1 DEF HvForget, Typed, TypeOK, OInv, UpIsShown, NoMachine, Started
    <2>3. NoneToLaunch
      <3>1. \A s \in Sups : sup'[s].pc = sup[s].pc /\ sup'[s].n = sup[s].n
        BY <2>1 DEF HvForget, Typed, TypeOK, Supervision
      <3>. QED
        BY <3>1 DEF NoneToLaunch
    <2>4. rec' = rec
      BY <1>2 DEF DeleteForget
    <2>5. \/ call'[c].pc = "delete_finish" /\ call'[c].n = n
          \/ call'[c].pc = "idle"
      <3>1. Goto(c, "delete_finish") => call'[c].pc = "delete_finish" /\ call'[c].n = n
        BY DEF Goto, Typed, TypeOK, Call
      <3>2. Return(c, FALSE) => call'[c].pc = "idle"
        BY DEF Return, Returned, Typed, TypeOK
      <3>. QED
        BY <1>2, <3>1, <3>2 DEF DeleteForget
    <2>. QED
      BY <1>1, <2>2, <2>3, <2>4, <2>5, CallerOrderly DEF OInv, Started
  <1>3. CASE DeleteFinish(c)
    <2>1. UNCHANGED hv
      BY <1>3 DEF DeleteFinish
    <2>2. rec' = [rec EXCEPT ![n] = NoRecord]
      BY <1>3 DEF DeleteFinish
    <2>3. \A m \in Names : \/ rec'[m].status = rec[m].status
                           \/ ~hv[m].up /\ m = call[c].n
      BY <1>1, <2>2 DEF NoRecord, OInv, Typed, TypeOK
    <2>4. NoneToLaunch
      <3>1. \A s \in Sups : sup'[s].pc = sup[s].pc /\ sup'[s].n = sup[s].n
        BY <1>3 DEF DeleteFinish, Typed, TypeOK, Supervision
      <3>. QED
        BY <3>1 DEF NoneToLaunch
    <2>5. call'[c].pc = "idle"
      BY <1>3 DEF DeleteFinish, Returned
    <2>. QED
      BY <2>1, <2>3, <2>4, <2>5, CallerOrderly DEF Started
  <1>. QED
    BY <1>2, <1>3

LEMMA ProceedOrderly ==
    ASSUME Typed, OInv, LaunchesAlone', NEW c \in Callers, OthersSame(c),
           Proceed(c)
    PROVE  OInv'
  <1>. GoodCall(call[c])
    BY GoodSame
  <1>1. CASE EnsureCreate(c)
    <2>1. call[c].n \in Names
      BY <1>1 DEF EnsureCreate, At, GoodCall, CallShape
    <2>2. Declare(c, call[c].n, call[c].restart) /\ sup' = sup
      BY <1>1 DEF EnsureCreate
    <2>. QED
      BY <2>1, <2>2, DeclareOrderly
  <1>6. CASE EnsurePrepare(c) \/ EnsureSave(c)
    <2>1. rec' = rec /\ NoneToLaunch
      BY <1>6 DEF EnsurePrepare, EnsureSave, NoneToLaunch
    <2>2. \A m \in Names : /\ hv'[m].up => hv[m].up
                           /\ hv'[m].lag => Started(m)
                           /\ hv'[m].stray => hv[m].stray
      <3>1. EnsureSave(c) => hv' = hv
        BY DEF EnsureSave
      <3>2. EnsurePrepare(c) => call[c].n \in Names /\ \E ok : HvCreate(call[c].n, ok)
        BY DEF EnsurePrepare, At, GoodCall, CallShape
      <3>. QED
        BY <1>6, <3>1, <3>2, PrepareKeeps DEF Started
    <2>3. call'[c].pc \in {"idle", "ensure_save"}
      <3>1. Goto(c, "ensure_save") => call'[c].pc = "ensure_save"
        BY DEF Goto, Typed, TypeOK, Call
      <3>. QED
        BY <1>6, <3>1, ReturnsIdle DEF EnsurePrepare, EnsureSave
    <2>. QED
      BY <2>1, <2>2, <2>3, CallerOrderly DEF OInv
  <1>2. CASE StopCancel(c)
    <2>1. UNCHANGED hv /\ rec' = rec /\ call'[c].pc = "stop_halt"
      BY <1>2 DEF StopCancel, Typed, TypeOK, Call
    <2>2. NoneToLaunch
      <3>1. \A s \in Sups : sup'[s].pc = sup[s].pc /\ sup'[s].n = sup[s].n
        BY <1>2 DEF StopCancel, Cancel, Typed, TypeOK, Supervision
      <3>. QED
        BY <3>1 DEF NoneToLaunch
    <2>. QED
      BY <2>1, <2>2, CallerOrderly DEF OInv, Started
  <1>3. CASE DeleteStop(c)
    BY <1>3, StopMarkOrderly DEF DeleteStop, At, GoodCall, CallShape
  <1>4. CASE StopAllNext(c)
    <2>1. PICK n \in call[c].todo :
            StopMark(c, [call[c] EXCEPT !.n = n, !.todo = @ \ {n}])
      BY <1>4 DEF StopAllNext
    <2>. DEFINE k == [call[c] EXCEPT !.n = n, !.todo = @ \ {n}]
    <2>2. n \in Names /\ call[c].op = "stopall"
      BY <1>4, <2>1 DEF GoodCall, Call, CallShape, StopAllNext, At
    <2>3. GoodCall(k) /\ k.n = n /\ k.op = "stopall"
      BY <1>4, <2>2 DEF StopAllNext, At, GoodCall, CallShape, Call
    <2>. QED
      BY <2>1, <2>2, <2>3, StopMarkOrderly
  <1>5. CASE StopAllReturn(c)
    <2>1. UNCHANGED hv /\ rec' = rec /\ NoneToLaunch /\ call'[c].pc = "idle"
      BY <1>5 DEF StopAllReturn, Return, Returned, Typed, TypeOK, NoneToLaunch
    <2>. QED
      BY <2>1, CallerOrderly DEF OInv, Started
  <1>. QED
    BY <1>1, <1>2, <1>3, <1>4, <1>5, <1>6, StartOrderly, HaltOrderly, StopFinishOrderly,
       DeleteOrderly DEF Proceed

\* A supervisor shows its VM as starting before it relaunches it, and writes no
\* status under which a VM must be down.
LEMMA SuperviseOrderly ==
    ASSUME Typed, OInv, LaunchesAlone', NEW s \in Sups, Supervise(s)
    PROVE  OInv'
  <1>. DEFINE n == sup[s].n
  <1>1. n \in Names /\ GoodSup(sup[s])
    BY GoodSame DEF Supervise, SupWatch, SupWake, SupRecord, SupBackoff, SupRestart,
       SupLaunch, SupRelaunched, SupAt, GoodSup, SupShape
  <1>2. call' = call
    BY DEF Supervise, SupWatch, SupWake, SupRecord, SupBackoff, SupRestart, SupLaunch,
       SupRelaunched
  <1>3. \A m \in Names :
            rec'[m].status \in {rec[m].status, "failed", "starting", "running"}
    <2>1. \/ rec' = rec
          \/ \E st \in {"failed", "starting", "running"} :
                rec' = [rec EXCEPT ![n].status = st]
      BY DEF Supervise, SupWatch, SupWake, SupRecord, SupBackoff, SupRestart,
         SupLaunch, SupRelaunched, SetStatus
    <2>2. ASSUME NEW st \in {"failed", "starting", "running"},
                 rec' = [rec EXCEPT ![n].status = st]
          PROVE  \A m \in Names : rec'[m].status \in {rec[m].status, st}
      BY <1>1, <2>2, StatusWritten
    <2>. QED
      BY <2>1, <2>2
  <1>4. \A m \in Names : /\ hv'[m].stray => hv[m].stray
                         /\ hv'[m].lag => hv[m].lag
                         /\ hv'[m].up => hv[m].up \/ (m = n /\ SupAt(s, "launch"))
    <2>1. hv' = hv \/ (SupAt(s, "launch") /\ hv' = [hv EXCEPT ![n].up = TRUE])
      BY DEF Supervise, SupWatch, SupWake, SupRecord, SupBackoff, SupRestart,
         SupLaunch, SupRelaunched, HvStart
    <2>. QED
      BY <2>1 DEF Typed, TypeOK, Machine
  <1>5. UpIsShown'
    BY <1>1, <1>3, <1>4 DEF OInv, UpIsShown, SupKnows, Down
  <1>6. CallerKnows'
    <2>1. \A c \in Callers : call[c].pc # "idle" /\ call[c].pc # "stopall_next"
                                => call[c].n \in Names
      BY GoodSame DEF GoodCall, CallShape
    <2>2. \A c \in Callers : SupAt(s, "launch") => call[c].n # n
      BY <1>1 DEF OInv, LaunchesAlone, SupAt
    <2>. QED
      BY <1>2, <1>3, <1>4, <2>1, <2>2 DEF OInv, CallerKnows, At, Down, Started
  <1>7. SupKnows'
    <2>1. CASE SupRestart(s)
      <3>1. \A t \in Sups \ {s} : sup'[t] = sup[t]
        BY <2>1 DEF SupRestart, SupGoto, Typed, TypeOK
      <3>2. sup'[s].n = n
        BY <2>1 DEF SupRestart, SupGoto, Typed, TypeOK, Supervision
      <3>3. sup'[s].pc = "launch" => rec'[n].status = "starting"
        <4>1. SupGoto(s, "watch") => sup'[s].pc = "watch"
          BY DEF SupGoto, Typed, TypeOK, Supervision
        <4>2. rec' = [rec EXCEPT ![n].status = "starting"] =>
                  rec'[n].status = "starting"
          BY <1>1 DEF Typed, TypeOK, Record, NoRecord
        <4>. QED
          BY <2>1, <4>1, <4>2 DEF SupRestart, SetStatus
      <3>4. \A t \in Sups : SupAt(t, "launch") => sup[t].n \in Names
        BY GoodSame DEF SupAt, GoodSup, SupShape
      <3>. QED
        BY <1>3, <3>1, <3>2, <3>3, <3>4 DEF OInv, SupKnows, SupAt, Down
    <2>2. CASE ~SupRestart(s)
      <3>1. NoneToLaunch
        <4>1. SupExit(s) => sup'[s].pc = "dead"
          BY DEF SupExit, NoSupervision, Typed, TypeOK
        <4>2. \A t \in Sups \ {s} : sup'[t] = sup[t]
          BY <2>2 DEF Supervise, SupWatch, SupWake, SupRecord, SupBackoff, SupLaunch,
             SupRelaunched, SupExit, SupGoto, Typed, TypeOK
        <4>3. SupGoto(s, "record") => sup'[s].pc = "record"
          BY DEF SupGoto, Typed, TypeOK, Supervision
        <4>4. SupRecord(s) => sup'[s].pc \in {"dead", "backoff"}
          <5>1. ASSUME NEW b, sup' = [sup EXCEPT ![s] =
                          [@ EXCEPT !.pc = "backoff", !.watch = "none", !.backoff = b]]
                PROVE  sup'[s].pc = "backoff"
            BY <5>1 DEF Typed, TypeOK, Supervision
          <5>. QED
            BY <4>1, <5>1 DEF SupRecord
        <4>5. SupWatch(s) => sup'[s].pc = "waiting"
          BY DEF SupWatch, Typed, TypeOK, Supervision
        <4>6. SupBackoff(s) => sup'[s].pc \in {"dead", "restart"}
          <5>1. ASSUME NEW b, sup' = [sup EXCEPT ![s] =
                          [@ EXCEPT !.pc = "restart", !.backoff = b]]
                PROVE  sup'[s].pc = "restart"
            BY <5>1 DEF Typed, TypeOK, Supervision
          <5>. QED
            BY <4>1, <5>1 DEF SupBackoff
        <4>7. SupLaunch(s) => sup'[s].pc = "relaunched"
          BY DEF SupLaunch, Typed, TypeOK, Supervision
        <4>8. SupRelaunched(s) => sup'[s].pc = "watch"
          BY DEF SupRelaunched, Typed, TypeOK, Supervision
        <4>9. sup'[s].pc # "launch"
          BY <2>2, <4>1, <4>3, <4>4, <4>5, <4>6, <4>7, <4>8 DEF Supervise, SupWake
        <4>. QED
          BY <4>2, <4>9 DEF NoneToLaunch
      <3>2. \A t \in Sups : SupAt(t, "launch") => sup[t].n \in Names
        BY GoodSame DEF SupAt, GoodSup, SupShape
      <3>. QED
        BY <1>3, <3>1, <3>2 DEF OInv, SupKnows, SupAt, NoneToLaunch, Down
    <2>. QED
      BY <2>1, <2>2
  <1>. QED
    BY <1>5, <1>6, <1>7 DEF OInv

LEMMA EnvironmentOrderly ==
    ASSUME Typed, OInv, LaunchesAlone', Environment PROVE OInv'
  <1>1. rec' = rec /\ call' = call
    BY DEF Environment, Crash, WaiterEnds, StrayEnds
  <1>2. \A m \in Names : /\ hv'[m].up => hv[m].up
                         /\ hv'[m].lag => Started(m)
                         /\ hv'[m].stray => hv[m].stray
    BY DEF Environment, Crash, WaiterEnds, StrayEnds, Started, Typed, TypeOK, Machine
  <1>3. \A s \in Sups : sup'[s].pc = sup[s].pc /\ sup'[s].n = sup[s].n
    BY DEF Environment, Crash, WaiterEnds, StrayEnds, Release, Typed, TypeOK, Supervision
  <1>4. \A c \in Callers :
            call[c].pc \in {"stop_finish", "delete_forget", "delete_finish"} =>
                call[c].n \in Names
    BY GoodSame DEF GoodCall, CallShape
  <1>. QED
    BY <1>1, <1>2, <1>3, <1>4 DEF OInv, UpIsShown, CallerKnows, SupKnows, At, SupAt, Started

LEMMA NextOrderly ==
    ASSUME Typed, OInv, [OrderlyNext]_vars
    PROVE  OInv'
  <1>1. CASE UNCHANGED vars
    BY <1>1 DEF vars, OInv, UpIsShown, CallerKnows, SupKnows, At, SupAt, LaunchesAlone,
                 Started
  <1>2. ASSUME NEW c \in Callers, Invoke(c) \/ Proceed(c), LaunchesAlone', EnsuresDown
        PROVE  OInv'
    BY <1>2, StepOthers, InvokeOrderly, ProceedOrderly
  <1>3. ASSUME NEW c \in Callers, NEW n \in Names, IdentityFor(c, n) PROVE OInv'
    BY <1>3, IdentityAlone, IdentityOrderly
  <1>. QED
    BY <1>1, <1>2, <1>3, SuperviseOrderly, EnvironmentOrderly DEF OrderlyNext, Next

\* When no other call about a VM overlaps a launch of it, between the status
\* "starting" and the launch itself, and Ensure is for VMs that do not run, a VM the
\* manager shows as stopped, created or absent has no process, even while calls are
\* under way, whatever fails, whenever its process ends by itself and however often
\* it is relaunched.
THEOREM StoppedIsDown == OrderlySpec => []StoppedMeansDown
  <1>1. Typed /\ OInv /\ [OrderlyNext]_vars => OInv'
    BY NextOrderly
  <1>2. Typed /\ [OrderlyNext]_vars => Typed'
    <2>1. OrderlyNext => Next
      BY DEF OrderlyNext, Next, Invoke
    <2>. QED
      BY <2>1, TypedNext
  <1>3. OInv => StoppedMeansDown
    BY DEF OInv, UpIsShown, StoppedMeansDown, Down
  <1>. QED
    BY <1>1, <1>2, <1>3, InitOrderly, TypedInit, PTL DEF OrderlySpec

-----------------------------------------------------------------------------
(* The state file between two calls *)

\* Saves succeed, and nobody calls the method whose function may fail after it
\* has changed the memory.
SavesSucceed == "save" \notin Faults /\ "withstate" \notin Ops

\* Where a call has changed the memory and has yet to save it.
Unsaved == {"ensure_prepare", "ensure_save", "start_launch", "start_finish",
            "stop_cancel", "stop_halt", "stop_finish"}

\* Ensure, which has changed the record of its VM, will be able to prepare it.
Prepared ==
    \A c \in Callers : At(c, "ensure_prepare") =>
        "prepare" \notin Faults /\ ~Started(call[c].n)

DiskBehind ==
    disk = Snapshot(rec, ident, rest) \/ \E c \in Callers : call[c].pc \in Unsaved

DiskSame == UNCHANGED <<rec, ident, rest, disk>>

\* A caller that was not in debt is the only one to move.
LEMMA DiskFramed ==
    ASSUME DiskBehind, DiskSame, NEW c \in Callers,
           call[c].pc \notin Unsaved \/ call'[c].pc \in Unsaved,
           \A d \in Callers \ {c} : call'[d].pc = call[d].pc
    PROVE  DiskBehind'
  BY DEF DiskBehind, DiskSame, Snapshot

LEMMA DiskSaved == ASSUME SavesSucceed, NEW ok, Save(ok) PROVE DiskBehind'
  BY DEF SavesSucceed, Save, DiskBehind

LEMMA StopMarkDisk ==
    ASSUME Typed, DiskBehind, NEW c \in Callers, NEW k, GoodCall(k),
           call[c].pc \notin Unsaved, StopMark(c, k)
    PROVE  DiskBehind'
  <1>1. CASE Known(k.n)
    <2>. DEFINE r == [k EXCEPT !.pc = "stop_cancel", !.held = TRUE, !.sup = super[k.n]]
    <2>1. call' = [call EXCEPT ![c] = r] /\ r.pc = "stop_cancel"
      BY <1>1 DEF StopMark, GoodCall, Call
    <2>2. call'[c].pc = "stop_cancel"
      BY <2>1, OnlyCaller
    <2>. QED
      BY <2>2 DEF DiskBehind, Unsaved
  <1>2. CASE ~Known(k.n)
    <2>1. DiskSame /\ call' = [call EXCEPT ![c] = AfterStop(k, FALSE)]
      BY <1>2 DEF StopMark, DiskSame
    <2>. QED
      BY <2>1, OnlyCaller, DiskFramed
  <1>. QED
    BY <1>1, <1>2

LEMMA InvokeDisk ==
    ASSUME SavesSucceed, Typed, DiskBehind, NEW c \in Callers, Invoke(c)
    PROVE  DiskBehind'
  <1>1. call[c].pc = "idle" /\ "idle" \notin Unsaved
    BY DEF Invoke, Create, Ensure, IdentityFor, Start, Stop, Delete, StopAll,
       WithState, Idle, Unsaved
  <1>2. ASSUME NEW n \in Names, NEW r \in RestartChoices, Create(c, n, r)
        PROVE  DiskBehind'
    <2>1. CASE DiskSame
      <3>1. \E k : call' = [call EXCEPT ![c] = k]
        BY <1>2 DEF Create, Declare, Return
      <3>. QED
        BY <1>1, <2>1, <3>1, OnlyCaller, DiskFramed
    <2>2. CASE \E ok : Save(ok)
      BY <2>2, DiskSaved
    <2>. QED
      BY <1>2, <2>1, <2>2 DEF Create, Declare, DiskSame
  <1>3. ASSUME NEW n \in Names, IdentityFor(c, n) PROVE DiskBehind'
    <2>1. CASE DiskSame
      <3>1. \E k : call' = [call EXCEPT ![c] = k]
        BY <1>3 DEF IdentityFor, Return
      <3>. QED
        BY <1>1, <2>1, <3>1, OnlyCaller, DiskFramed
    <2>2. CASE \E ok : Save(ok)
      BY <2>2, DiskSaved
    <2>. QED
      BY <1>3, <2>1, <2>2 DEF IdentityFor, DiskSame
  <1>4. ASSUME NEW n \in Names, Start(c, n) PROVE DiskBehind'
    <2>1. CASE ~MayStart(n)
      BY <1>1, <1>4, <2>1, OnlyCaller, DiskFramed DEF Start, Return, DiskSame
    <2>2. CASE MayStart(n)
      <3>. DEFINE r == [Calling("start", "start_launch", n) EXCEPT !.held = TRUE]
      <3>1. call' = [call EXCEPT ![c] = r] /\ r.pc = "start_launch"
        BY <1>4, <2>2 DEF Start, Calling, Returned
      <3>2. call'[c].pc = "start_launch"
        BY <3>1, OnlyCaller
      <3>. QED
        BY <3>2 DEF DiskBehind, Unsaved
    <2>. QED
      BY <2>1, <2>2
  <1>5. ASSUME NEW n \in Names, Stop(c, n) PROVE DiskBehind'
    BY <1>1, <1>5, StopCallGood, StopMarkDisk DEF Stop
  <1>6. ASSUME NEW n \in Names, Delete(c, n) PROVE DiskBehind'
    BY <1>1, <1>6, OnlyCaller, DiskFramed DEF Delete, DiskSame
  <1>7. StopAll(c) => DiskBehind'
    BY <1>1, OnlyCaller, DiskFramed DEF StopAll, DiskSame
  <1>8. ASSUME NEW n \in Names, NEW r \in RestartChoices, Ensure(c, n, r)
        PROVE  DiskBehind'
    <2>. DEFINE k == [Calling("ensure", IF Known(n) THEN "ensure_prepare"
                                                    ELSE "ensure_create", n)
                      EXCEPT !.restart = r]
    <2>1. call' = [call EXCEPT ![c] = k]
      BY <1>8 DEF Ensure
    <2>2. CASE Known(n)
      <3>1. k.pc = "ensure_prepare"
        BY <2>2 DEF Calling, Returned
      <3>. HIDE DEF k
      <3>2. call'[c].pc = "ensure_prepare"
        BY <2>1, <3>1, OnlyCaller
      <3>. QED
        BY <3>2 DEF DiskBehind, Unsaved
    <2>3. CASE ~Known(n)
      <3>1. DiskSame
        BY <1>8, <2>3 DEF Ensure, DiskSame
      <3>. QED
        BY <1>1, <2>1, <3>1, OnlyCaller, DiskFramed
    <2>. QED
      BY <2>2, <2>3
  <1>. QED
    BY <1>2, <1>3, <1>4, <1>5, <1>6, <1>7, <1>8
       DEF Invoke, SavesSucceed, WithState, Idle

LEMMA ProceedDisk ==
    ASSUME SavesSucceed, Typed, Prepared, DiskBehind, NEW c \in Callers, Proceed(c)
    PROVE  DiskBehind'
  <1>. GoodCall(call[c])
    BY GoodSame
  <1>1. CASE \E ok : Save(ok)
    BY <1>1, DiskSaved
  <1>2. CASE EnsureCreate(c) /\ DiskSame
    BY <1>2, OnlyCaller, DiskFramed DEF EnsureCreate, Declare, Return, At, Unsaved
  <1>3. CASE DeleteHalt(c) \/ DeleteForget(c) \/ StopAllReturn(c)
    <2>1. DiskSame /\ call[c].pc \notin Unsaved
      BY <1>3 DEF DeleteHalt, DeleteForget, StopAllReturn, DiskSame, At, Unsaved
    <2>2. \E k : call' = [call EXCEPT ![c] = k]
      BY <1>3 DEF DeleteHalt, DeleteForget, StopAllReturn, Goto, Return
    <2>. QED
      BY <2>1, <2>2, OnlyCaller, DiskFramed
  <1>4. CASE StartLaunch(c) \/ StopCancel(c) \/ StopHalt(c)
    <2>1. StartLaunch(c) => call'[c].pc = "start_finish"
      BY DEF StartLaunch, Typed, TypeOK, Call
    <2>2. StopCancel(c) => call'[c].pc = "stop_halt"
      BY DEF StopCancel, Typed, TypeOK, Call
    <2>3. StopHalt(c) => call'[c].pc = "stop_finish"
      BY DEF StopHalt, Typed, TypeOK, Call
    <2>. QED
      BY <1>4, <2>1, <2>2, <2>3 DEF DiskBehind, Unsaved
  <1>5. CASE DeleteStop(c)
    BY <1>5, StopMarkDisk DEF DeleteStop, At, Unsaved
  <1>6. CASE StopAllNext(c)
    <2>1. PICK n \in call[c].todo :
            StopMark(c, [call[c] EXCEPT !.n = n, !.todo = @ \ {n}])
      BY <1>6 DEF StopAllNext
    <2>2. n \in Names
      BY <2>1 DEF GoodCall, Call
    <2>3. GoodCall([call[c] EXCEPT !.n = n, !.todo = @ \ {n}])
      BY <1>6, <2>2 DEF StopAllNext, At, GoodCall, CallShape, Call
    <2>. QED
      BY <1>6, <2>1, <2>3, StopMarkDisk DEF StopAllNext, At, Unsaved
  <1>7. EnsureSave(c) \/ StartFinish(c) \/ StopFinish(c) \/ DeleteFinish(c)
        => \E ok : Save(ok)
    BY DEF EnsureSave, StartFinish, StopFinish, DeleteFinish
  <1>8. EnsureCreate(c) => DiskSame \/ \E ok : Save(ok)
    BY DEF EnsureCreate, Declare, DiskSame
  <1>9. CASE EnsurePrepare(c)
    <2>1. ~HvCreate(call[c].n, FALSE)
      BY <1>9 DEF EnsurePrepare, HvCreate, Prepared
    <2>2. Goto(c, "ensure_save")
      BY <1>9, <2>1 DEF EnsurePrepare
    <2>3. call'[c].pc = "ensure_save"
      BY <2>2 DEF Goto, Typed, TypeOK, Call
    <2>. QED
      BY <2>3 DEF DiskBehind, Unsaved
  <1>. QED
    BY <1>1, <1>2, <1>3, <1>4, <1>5, <1>6, <1>7, <1>8, <1>9 DEF Proceed

LEMMA DiskNext ==
    ASSUME SavesSucceed, Typed, Prepared, DiskBehind, [Next]_vars
    PROVE  DiskBehind'
  <1>1. ASSUME NEW s \in Sups, Supervise(s) PROVE DiskBehind'
    <2>1. call' = call
      BY <1>1 DEF Supervise, SupWatch, SupWake, SupRecord, SupBackoff, SupRestart,
         SupLaunch, SupRelaunched
    <2>2. DiskSame \/ \E ok : Save(ok)
      BY <1>1 DEF Supervise, SupWatch, SupWake, SupRecord, SupBackoff, SupRestart,
         SupLaunch, SupRelaunched, DiskSame
    <2>3. CASE DiskSame
      BY <2>1, <2>3 DEF DiskBehind, DiskSame, Snapshot
    <2>. QED
      BY <2>2, <2>3, DiskSaved
  <1>2. CASE Environment \/ UNCHANGED vars
    BY <1>2 DEF Environment, Crash, WaiterEnds, StrayEnds, vars, DiskBehind, Snapshot
  <1>. QED
    BY <1>1, <1>2, InvokeDisk, ProceedDisk DEF Next

\* Ensure alone leads to the preparation of a VM that has a record.
LEMMA FromEnsure ==
    ASSUME Typed, NEW c \in Callers, Invoke(c) \/ Proceed(c),
           call'[c].pc = "ensure_prepare"
    PROVE  \E n \in Names, r \in RestartChoices :
              Ensure(c, n, r) /\ call'[c].n = n
  <1>. GoodCall(call[c])
    BY GoodSame
  <1>0. ASSUME NEW k, call' = [call EXCEPT ![c] = k]
        PROVE  k.pc = "ensure_prepare"
    BY <1>0, OnlyCaller
  <1>1. \A ok : ~Return(c, ok)
    BY ReturnsIdle
  <1>2. \A n, r : ~Declare(c, n, r)
    BY <1>1 DEF Declare
  <1>3. ASSUME NEW k, GoodCall(k), k.op \in {"stop", "delete", "stopall"}
        PROVE  ~StopMark(c, k)
    <2>1. AfterStop(k, FALSE).pc \in {"idle", "delete_halt", "stopall_next"}
      BY <1>3 DEF AfterStop, Calling, Returned
    <2>2. [k EXCEPT !.pc = "stop_cancel", !.held = TRUE, !.sup = super[k.n]].pc
            = "stop_cancel"
      BY <1>3 DEF GoodCall, Call
    <2>. QED
      BY <1>0, <2>1, <2>2 DEF StopMark
  <1>4. CASE Invoke(c)
    <2>1. \A n \in Names : ~IdentityFor(c, n)
      BY <1>1 DEF IdentityFor
    <2>2. \A n \in Names : ~Start(c, n)
      <3>1. \A n : [Calling("start", "start_launch", n) EXCEPT !.held = TRUE].pc
                     = "start_launch"
        BY DEF Calling, Returned
      <3>. QED
        BY <1>0, <1>1, <3>1 DEF Start
    <2>3. \A n \in Names : ~Stop(c, n)
      <3>1. \A n : Calling("stop", "stop_mark", n).op = "stop"
        BY DEF Calling, Returned
      <3>. QED
        BY <1>3, <3>1, StopCallGood DEF Stop
    <2>4. \A n \in Names : ~Delete(c, n)
      <3>1. \A n : /\ Calling("delete", "stop_mark", n).pc = "stop_mark"
                   /\ Returned(FALSE).pc = "idle"
        BY DEF Calling, Returned
      <3>. QED
        BY <1>0, <3>1 DEF Delete
    <2>5. ~StopAll(c)
      BY DEF StopAll, Calling, Returned, Typed, TypeOK
    <2>6. \A r \in Rests : ~WithState(c, r)
      BY <1>1 DEF WithState
    <2>7. ASSUME NEW n \in Names, NEW r \in RestartChoices, Ensure(c, n, r)
          PROVE  call'[c].n = n
      <3>. DEFINE pc == IF Known(n) THEN "ensure_prepare" ELSE "ensure_create"
                  k == [Calling("ensure", pc, n) EXCEPT !.restart = r]
      <3>1. call' = [call EXCEPT ![c] = k]
        BY <2>7 DEF Ensure
      <3>2. k.n = n
        BY DEF Calling, Returned
      <3>3. call'[c] = k
        <4>. HIDE DEF k
        <4>. QED
          BY <3>1, OnlyCaller
      <3>. QED
        BY <3>2, <3>3
    <2>8. \A n \in Names, r \in RestartChoices : ~Create(c, n, r)
      BY <1>2 DEF Create
    <2>. QED
      BY <1>4, <2>1, <2>2, <2>3, <2>4, <2>5, <2>6, <2>7, <2>8 DEF Invoke
  <1>5. ~Proceed(c)
    <2>1. \A pc : Goto(c, pc) => call'[c].pc = pc
      BY DEF Goto, Typed, TypeOK, Call
    <2>2. ~EnsureCreate(c) /\ ~EnsurePrepare(c) /\ ~EnsureSave(c)
      BY <1>1, <1>2, <2>1 DEF EnsureCreate, EnsurePrepare, EnsureSave
    <2>3. ~StartLaunch(c)
      <3>1. \A ok : [call[c] EXCEPT !.pc = "start_finish", !.ok = ok].pc = "start_finish"
        BY DEF GoodCall, Call
      <3>. QED
        BY <1>0, <3>1 DEF StartLaunch
    <2>4. ~StartFinish(c)
      BY <1>1 DEF StartFinish
    <2>5. ~StopCancel(c) /\ ~StopHalt(c)
      <3>1. [call[c] EXCEPT !.pc = "stop_halt", !.sup = NoSup].pc = "stop_halt"
        BY DEF GoodCall, Call
      <3>2. \A ok : [call[c] EXCEPT !.pc = "stop_finish", !.ok = ok].pc = "stop_finish"
        BY DEF GoodCall, Call
      <3>. QED
        BY <1>0, <3>1, <3>2 DEF StopCancel, StopHalt
    <2>6. ~StopFinish(c)
      <3>1. ASSUME StopFinish(c), NEW ok
            PROVE  AfterStop(call[c], ok).pc \in {"idle", "delete_halt", "stopall_next"}
        BY <3>1 DEF StopFinish, At, GoodCall, CallShape, AfterStop, Calling, Returned
      <3>. QED
        BY <3>1 DEF StopFinish, Typed, TypeOK
    <2>7. ~DeleteStop(c)
      BY <1>3 DEF DeleteStop, At, GoodCall, CallShape
    <2>8. ~DeleteHalt(c) /\ ~DeleteForget(c)
      BY <1>1, <2>1 DEF DeleteHalt, DeleteForget
    <2>9. ~DeleteFinish(c)
      BY DEF DeleteFinish, Returned
    <2>10. ASSUME StopAllNext(c) PROVE FALSE
      <3>1. PICK n \in call[c].todo :
              StopMark(c, [call[c] EXCEPT !.n = n, !.todo = @ \ {n}])
        BY <2>10 DEF StopAllNext
      <3>. DEFINE k == [call[c] EXCEPT !.n = n, !.todo = @ \ {n}]
      <3>2. n \in Names /\ call[c].op = "stopall"
        BY <2>10, <3>1 DEF GoodCall, Call, CallShape, StopAllNext, At
      <3>3. GoodCall(k) /\ k.op = "stopall"
        BY <2>10, <3>2 DEF StopAllNext, At, GoodCall, CallShape, Call
      <3>. QED
        BY <1>3, <3>1, <3>3
    <2>11. ~StopAllReturn(c)
      BY <1>1 DEF StopAllReturn
    <2>. QED
      BY <2>2, <2>3, <2>4, <2>5, <2>6, <2>7, <2>8, <2>9, <2>10, <2>11 DEF Proceed
  <1>. QED
    BY <1>4, <1>5

NoEnsure == \A c \in Callers : ~At(c, "ensure_prepare")

LEMMA NoEnsureNext ==
    ASSUME "ensure" \notin Ops, Typed, NoEnsure, [Next]_vars PROVE NoEnsure'
  <1>1. ASSUME NEW c \in Callers, Invoke(c) \/ Proceed(c) PROVE NoEnsure'
    <2>1. call'[c].pc # "ensure_prepare"
      BY <1>1, FromEnsure DEF Ensure, Idle
    <2>. QED
      BY <1>1, <2>1, StepOthers DEF NoEnsure, At, OthersSame
  <1>2. ASSUME NEW s \in Sups, Supervise(s) PROVE NoEnsure'
    BY <1>2 DEF Supervise, SupWatch, SupWake, SupRecord, SupBackoff, SupRestart,
       SupLaunch, SupRelaunched, NoEnsure, At
  <1>. QED
    BY <1>1, <1>2 DEF Next, Environment, Crash, WaiterEnds, StrayEnds, vars, NoEnsure, At

\* When saves succeed and Ensure is not called, the state file says what the memory
\* says as soon as no call is under way, supervisors at work included.
THEOREM DiskIsCurrent ==
    ASSUME SavesSucceed, "ensure" \notin Ops PROVE Spec => []DiskCurrent
  <1>1. Init => DiskBehind /\ NoEnsure
    BY DEF Init, DiskBehind, Snapshot, NoEnsure, At, Returned
  <1>2. Typed /\ NoEnsure /\ DiskBehind /\ [Next]_vars => NoEnsure' /\ DiskBehind'
    BY NoEnsureNext, DiskNext DEF NoEnsure, Prepared
  <1>3. DiskBehind => DiskCurrent
    BY DEF DiskBehind, DiskCurrent, At, Unsaved
  <1>. QED
    BY <1>1, <1>2, <1>3, TypedInit, TypedNext, PTL DEF Spec

\* Nothing but a launch makes a VM started.
LEMMA StartedByLaunch ==
    ASSUME Typed, [Next]_vars, NEW m \in Names, Started(m)'
    PROVE  \/ Started(m)
           \/ \E c \in Callers : At(c, "start_launch") /\ call[c].n = m
           \/ \E s \in Sups : SupAt(s, "launch") /\ sup[s].n = m
  <1>1. \A n \in Names : \A ok : HvStart(n, ok) => Started(m) \/ n = m
    BY DEF HvStart, Started, Typed, TypeOK, Machine
  <1>2. ASSUME NEW n \in Names, NEW ok, HvCreate(n, ok) \/ HvStop(n, ok) \/ HvForget(n, ok)
        PROVE  Started(m)
    <2>1. CASE HvCreate(n, ok)
      BY <2>1 DEF HvCreate, Started, Typed, TypeOK, Machine
    <2>2. CASE HvStop(n, ok)
      BY <2>2 DEF HvStop, Started, Typed, TypeOK, Machine
    <2>3. CASE HvForget(n, ok)
      BY <2>3 DEF HvForget, NoMachine, Started, Typed, TypeOK, Machine
    <2>. QED
      BY <1>2, <2>1, <2>2, <2>3
  <1>3. ASSUME NEW c \in Callers, Invoke(c) \/ Proceed(c), hv' # hv
        PROVE  Started(m) \/ (At(c, "start_launch") /\ call[c].n = m)
    <2>. GoodCall(call[c])
      BY GoodSame
    <2>1. \A n \in Names : \A r : Declare(c, n, r) => Started(m)
      BY <1>2, <1>3 DEF Declare
    <2>2. CASE Invoke(c)
      BY <1>3, <2>1, <2>2 DEF Invoke, Create, Ensure, IdentityFor, Start, Stop, StopMark,
         Delete, StopAll, WithState
    <2>3. CASE StartLaunch(c)
      BY <1>1, <2>3 DEF StartLaunch, At, GoodCall, CallShape
    <2>4. CASE EnsureCreate(c) \/ EnsurePrepare(c) \/ StopHalt(c) \/ DeleteHalt(c)
               \/ DeleteForget(c)
      <3>1. call[c].n \in Names
        BY <2>4 DEF EnsureCreate, EnsurePrepare, StopHalt, DeleteHalt, DeleteForget, At,
           GoodCall, CallShape
      <3>. QED
        BY <1>2, <2>1, <2>4, <3>1
           DEF EnsureCreate, EnsurePrepare, StopHalt, DeleteHalt, DeleteForget
    <2>. QED
      BY <1>3, <2>2, <2>3, <2>4 DEF Proceed, EnsureSave, StartFinish, StopCancel,
         StopFinish, DeleteStop, DeleteFinish, StopAllNext, StopAllReturn, StopMark
  <1>4. ASSUME NEW s \in Sups, Supervise(s), hv' # hv
        PROVE  Started(m) \/ (SupAt(s, "launch") /\ sup[s].n = m)
    <2>1. SupLaunch(s)
      BY <1>4 DEF Supervise, SupWatch, SupWake, SupRecord, SupBackoff, SupRestart,
         SupRelaunched
    <2>2. sup[s].n \in Names
      BY <2>1, GoodSame DEF SupLaunch, SupAt, GoodSup, SupShape
    <2>. QED
      BY <1>1, <1>4, <2>1, <2>2 DEF SupLaunch
  <1>5. Environment => Started(m)
    BY DEF Environment, Crash, WaiterEnds, StrayEnds, Started, Typed, TypeOK, Machine
  <1>. QED
    BY <1>3, <1>4, <1>5 DEF Next, Started, vars

\* A VM that Ensure prepares is down, and no launch comes in between.
LEMMA PreparedNext ==
    ASSUME "prepare" \notin Faults, Typed, LaunchesAlone, Prepared, [OrderlyNext]_vars
    PROVE  Prepared'
  <1>1. OrderlyNext => Next
    BY DEF OrderlyNext, Next, Invoke
  <1>2. ASSUME NEW d \in Callers, At(d, "ensure_prepare"), call'[d].n = call[d].n
        PROVE  ~Started(call[d].n)'
    <2>1. call[d].n \in Names
      BY <1>2, GoodSame DEF At, GoodCall, CallShape
    <2>2. ~Started(call[d].n)
      BY <1>2 DEF Prepared
    <2>3. ~\E c \in Callers : At(c, "start_launch") /\ call[c].n = call[d].n
      BY <1>2, <2>1 DEF LaunchesAlone, At
    <2>4. ~\E s \in Sups : SupAt(s, "launch") /\ sup[s].n = call[d].n
      BY <2>1 DEF LaunchesAlone
    <2>. QED
      BY <1>1, <1>2, <2>1, <2>2, <2>3, <2>4, StartedByLaunch
  <1>3. CASE call' = call
    BY <1>2, <1>3 DEF Prepared, At
  <1>4. ASSUME NEW c \in Callers, Invoke(c) \/ Proceed(c), OrderlyNext PROVE Prepared'
    <2>1. \A d \in Callers \ {c} : At(d, "ensure_prepare")' => ~Started(call[d].n)'
      BY <1>2, <1>4, StepOthers DEF OthersSame, At
    <2>2. ASSUME At(c, "ensure_prepare")' PROVE ~Started(call[c].n)'
      <3>1. PICK n \in Names, r \in RestartChoices : Ensure(c, n, r) /\ call'[c].n = n
        BY <1>4, <2>2, FromEnsure DEF At
      <3>2. \A e \in Callers, m \in Names : ~IdentityFor(e, m)
        <4>1. ASSUME NEW e \in Callers, NEW m \in Names, IdentityFor(e, m) PROVE FALSE
          <5>1. call'[e].pc = "idle" /\ call[e].pc = "idle"
            BY <4>1, ReturnsIdle DEF IdentityFor, Idle
          <5>2. e # c
            BY <2>2, <5>1 DEF At
          <5>3. call'[c].pc = call[c].pc
            BY <4>1, <5>2, StepOthers DEF Invoke, OthersSame
          <5>. QED
            BY <2>2, <3>1, <5>3 DEF Ensure, Idle, At
        <4>. QED
          BY <4>1
      <3>. QED
        BY <1>4, <3>1, <3>2 DEF OrderlyNext, EnsuresDown, Ensure, Started
    <2>. QED
      BY <2>1, <2>2 DEF Prepared
  <1>. QED
    BY <1>1, <1>3, <1>4 DEF Next, Supervise, SupWatch, SupWake, SupRecord, SupBackoff,
       SupRestart, SupLaunch, SupRelaunched, Environment, Crash, WaiterEnds, StrayEnds, vars

\* Ensure included, when in addition the hypervisor prepares a VM that is down, when
\* Ensure is for VMs that do not run and when no call overlaps a launch of its VM: the
\* status Ensure resets never stays in memory alone.
THEOREM DiskIsCurrentWithEnsure ==
    ASSUME SavesSucceed, "prepare" \notin Faults
    PROVE  OrderlySpec => []DiskCurrent
  <1>1. Init => DiskBehind /\ Prepared
    BY DEF Init, DiskBehind, Snapshot, Prepared, At, Returned
  <1>2. Typed /\ OInv /\ [OrderlyNext]_vars => Typed' /\ OInv' /\ [Next]_vars
    <2>1. OrderlyNext => Next
      BY DEF OrderlyNext, Next, Invoke
    <2>. QED
      BY <2>1, TypedNext, NextOrderly
  <1>3. Typed /\ OInv /\ Prepared /\ DiskBehind /\ [OrderlyNext]_vars
        => Prepared' /\ DiskBehind'
    BY <1>2, PreparedNext, DiskNext DEF OInv
  <1>4. DiskBehind => DiskCurrent
    BY DEF DiskBehind, DiskCurrent, At, Unsaved
  <1>. QED
    BY <1>1, <1>2, <1>3, <1>4, InitOrderly, TypedInit, PTL DEF OrderlySpec

=============================================================================
