-------------------------- MODULE JSONStore_proofs --------------------------
(***************************************************************************)
(* Theorems about the state file: it keeps the promise of the interface    *)
(* Store, and the state of a later daemon, for any number of temporary     *)
(* files and inodes and whatever fails.                                    *)
(***************************************************************************)
EXTENDS JSONStore, TLAPS

-----------------------------------------------------------------------------
(* The inductive invariant *)

\* The temporary file of a save under way has an inode of its own, to which no
\* other name refers in memory or on disk.
Own ==
    pc \in {"write", "sync", "rename", "clean"} =>
        /\ tmp \in Temps
        /\ dir[tmp] \in Inodes
        /\ \A f \in Files \ {tmp} : dir[f] # dir[tmp] /\ dirOnDisk[f] # dir[tmp]

\* The inode holds one whole state, and the disk has it.
Stored(i) == data[i] \in Snapshots /\ dataOnDisk[i] = data[i]

Whole ==
    /\ dir[Path] # NoInode => Stored(dir[Path])
    /\ dirOnDisk[Path] # NoInode => Stored(dirOnDisk[Path])

\* How far the snapshot has come on its way to the disk.
Progress ==
    /\ pc = "sync" => data[dir[tmp]] = snap
    /\ pc = "rename" => data[dir[tmp]] = snap /\ dataOnDisk[dir[tmp]] = snap
    /\ pc = "syncdir" => dir[Path] # NoInode /\ data[dir[Path]] = snap

\* A save under way has not returned.
Pending == pc \in Saving => result = "none"

IInv == TypeOK /\ Own /\ Whole /\ Progress /\ Pending

LEMMA KnownSnapshots == Known \subseteq Snapshots
  BY DEF Known

LEMMA PathInFiles == Path \in Files
  BY DEF Files

\* What Load reads and what the daemon saves are states of its own version.
LEMMA MigrateKnown ==
    ASSUME NEW s \in Snapshots, Readable(s)
    PROVE  Migrate(s) \in Known
  BY StoreAssumption DEF Migrate, Readable, Known, Snapshots

LEMMA NewSnapshotKnown == NewSnapshot \in Known
  BY StoreAssumption DEF NewSnapshot, Known, Snapshots

LEMMA InitInvariant == Init => IInv
  <1>. SUFFICES ASSUME Init PROVE IInv
    OBVIOUS
  <1>1. PICK i \in Inodes, s \in Snapshots, present \in BOOLEAN :
            /\ dir = [f \in Files |-> IF f = Path /\ present THEN i ELSE NoInode]
            /\ data = [j \in Inodes |-> IF j = i THEN s ELSE Empty]
    BY DEF Init
  <1>2. pc = "down" /\ dirOnDisk = dir /\ dataOnDisk = data /\ tmp = Path
        /\ result = "none"
    BY DEF Init
  <1>3. snap \in Known
    BY NewSnapshotKnown DEF Init
  <1>4. TypeOK
    BY <1>1, <1>2, <1>3, PathInFiles DEF TypeOK, Contents
  <1>5. Whole
    BY <1>1, <1>2, PathInFiles DEF Whole, Stored
  <1>. QED
    BY <1>2, <1>4, <1>5 DEF IInv, Own, Progress, Pending, Saving

-----------------------------------------------------------------------------
(* Each action keeps it *)

LEMMA LoadInvariant == ASSUME IInv, Load PROVE IInv'
  <1>1. snap' \in Known
    BY NewSnapshotKnown, MigrateKnown DEF Load
  <1>. QED
    BY <1>1 DEF Load, IInv, TypeOK, Own, Whole, Stored, Progress,
       Pending, Saving, disk

LEMMA SaveInvariant == ASSUME IInv, NEW b \in Bodies, Save(b) PROVE IInv'
  <1>1. [snap EXCEPT !.body = b] \in Snapshots /\ Readable([snap EXCEPT !.body = b])
    BY DEF IInv, TypeOK, Known, Snapshots, Readable
  <1>2. snap' \in Known
    BY <1>1, MigrateKnown DEF Save
  <1>3. dir' = dir /\ dirOnDisk' = dirOnDisk /\ data' = data
        /\ dataOnDisk' = dataOnDisk /\ tmp' = tmp /\ pc' = "create"
        /\ result' = "none"
    BY DEF Save, disk
  <1>. QED
    BY <1>2, <1>3 DEF IInv, TypeOK, Own, Whole, Stored, Progress,
       Pending, Saving

LEMMA CreateTempInvariant == ASSUME IInv, CreateTemp PROVE IInv'
  <1>1. CASE IOFails("idle") /\ UNCHANGED <<dir, data, dataOnDisk, tmp>>
    BY <1>1 DEF CreateTemp, IOFails, IInv, TypeOK, Own, Whole, Stored, Progress,
       Pending, Saving
  <1>2. ASSUME NEW t \in Temps, NEW i \in Inodes,
               dir[t] = NoInode, ~Bound(i),
               dir' = [dir EXCEPT ![t] = i],
               data' = [data EXCEPT ![i] = Empty],
               dataOnDisk' = [dataOnDisk EXCEPT ![i] = Empty],
               tmp' = t, pc' = "write", result' = result
        PROVE  IInv'
    <2>1. dirOnDisk' = dirOnDisk /\ snap' = snap
      BY DEF CreateTemp
    <2>2. t \in Files /\ t # Path /\ t \in Temps
      BY PathAssumption DEF Files
    <2>3. TypeOK'
      <3>1. dir' \in [Files -> Inodes \cup {NoInode}]
        BY <1>2, <2>2 DEF IInv, TypeOK
      <3>2. data' \in [Inodes -> Contents] /\ dataOnDisk' \in [Inodes -> Contents]
        BY <1>2 DEF IInv, TypeOK, Contents
      <3>. QED
        BY <1>2, <2>1, <2>2, <3>1, <3>2 DEF IInv, TypeOK, Saving
    <2>4. \A f \in Files : dir[f] # i /\ dirOnDisk[f] # i
      BY <1>2 DEF Bound
    <2>5. Own'
      BY <1>2, <2>1, <2>2, <2>4 DEF IInv, TypeOK, Own
    <2>6. dir'[Path] = dir[Path] /\ dir[Path] # i /\ dirOnDisk[Path] # i
      BY <1>2, <2>2, <2>4, PathInFiles DEF IInv, TypeOK
    <2>7. \A j \in Inodes : j # i => data'[j] = data[j] /\ dataOnDisk'[j] = dataOnDisk[j]
      BY <1>2 DEF IInv, TypeOK
    <2>8. Whole'
      BY <2>1, <2>6, <2>7, PathInFiles DEF IInv, TypeOK, Whole, Stored
    <2>9. Pending'
      BY <1>2 DEF CreateTemp, IInv, Pending, Saving
    <2>. QED
      BY <1>2, <2>3, <2>5, <2>8, <2>9 DEF IInv, Progress
  <1>. QED
    BY <1>1, <1>2 DEF CreateTemp

\* What Write and Sync do to the inode of the temporary file does not touch the
\* one of the state file.
LEMMA OwnInode ==
    ASSUME IInv, pc \in {"write", "sync", "rename", "clean"}
    PROVE  /\ tmp \in Temps /\ tmp \in Files /\ tmp # Path
           /\ dir[tmp] \in Inodes
           /\ dir[Path] # dir[tmp] /\ dirOnDisk[Path] # dir[tmp]
  BY PathInFiles, PathAssumption DEF IInv, Own, Files

LEMMA WriteInvariant == ASSUME IInv, Write PROVE IInv'
  <1>1. PICK c \in Contents :
            /\ data' = [data EXCEPT ![dir[tmp]] = c]
            /\ pc' = "clean" \/ (pc' = "sync" /\ c = snap)
    BY KnownSnapshots DEF Write, IOFails, IInv, TypeOK, Contents
  <1>2. dir' = dir /\ dirOnDisk' = dirOnDisk /\ dataOnDisk' = dataOnDisk
        /\ snap' = snap /\ tmp' = tmp /\ result' = result /\ pc = "write"
    BY DEF Write, disk
  <1>3. TypeOK'
    BY <1>1, <1>2 DEF IInv, TypeOK, Saving
  <1>4. \A j \in Inodes : j # dir[tmp] => data'[j] = data[j]
    BY <1>1 DEF IInv, TypeOK
  <1>5. Whole'
    BY <1>2, <1>4, OwnInode, PathInFiles DEF IInv, TypeOK, Whole, Stored
  <1>6. Own'
    BY <1>2 DEF IInv, Own
  <1>7. Progress'
    BY <1>1, <1>2, OwnInode DEF IInv, TypeOK, Progress
  <1>8. Pending'
    BY <1>1, <1>2 DEF IInv, Pending, Saving
  <1>. QED
    BY <1>3, <1>5, <1>6, <1>7, <1>8 DEF IInv

LEMMA SyncInvariant == ASSUME IInv, Sync PROVE IInv'
  <1>1. dir' = dir /\ dirOnDisk' = dirOnDisk /\ data' = data
        /\ snap' = snap /\ tmp' = tmp /\ result' = result /\ pc = "sync"
    BY DEF Sync
  <1>2. CASE SyncData /\ pc' = "rename"
    <2>1. data[dir[tmp]] = snap
      BY <1>1 DEF IInv, Progress
    <2>2. dataOnDisk' \in [Inodes -> Contents] /\ dataOnDisk'[dir[tmp]] = snap
      BY <1>1, <1>2, <2>1, OwnInode DEF SyncData, IInv, TypeOK
    <2>3. \A j \in Inodes : j # dir[tmp] => dataOnDisk'[j] = dataOnDisk[j]
      BY <1>2 DEF SyncData, IInv, TypeOK
    <2>4. TypeOK'
      BY <1>1, <1>2, <2>2 DEF IInv, TypeOK, Saving
    <2>5. Whole'
      BY <1>1, <2>3, OwnInode, PathInFiles DEF IInv, TypeOK, Whole, Stored
    <2>. QED
      BY <1>1, <1>2, <2>1, <2>2, <2>4, <2>5 DEF IInv, Own, Progress, Pending, Saving
  <1>3. CASE IOFails("clean") /\ UNCHANGED dataOnDisk
    BY <1>1, <1>3 DEF IOFails, IInv, TypeOK, Own, Whole, Stored, Progress,
       Pending, Saving
  <1>. QED
    BY <1>2, <1>3 DEF Sync

LEMMA RenameInvariant == ASSUME IInv, Rename PROVE IInv'
  <1>1. dirOnDisk' = dirOnDisk /\ data' = data /\ dataOnDisk' = dataOnDisk
        /\ snap' = snap /\ tmp' = tmp /\ result' = result /\ pc = "rename"
    BY DEF Rename, disk
  <1>2. CASE /\ dir' = [dir EXCEPT ![Path] = dir[tmp], ![tmp] = NoInode]
             /\ pc' = "syncdir"
    <2>1. dir'[Path] = dir[tmp] /\ dir' \in [Files -> Inodes \cup {NoInode}]
      BY <1>1, <1>2, OwnInode, PathInFiles DEF IInv, TypeOK
    <2>2. data[dir[tmp]] = snap /\ dataOnDisk[dir[tmp]] = snap /\ snap \in Snapshots
      BY <1>1, KnownSnapshots DEF IInv, Progress, TypeOK
    <2>3. TypeOK'
      BY <1>1, <1>2, <2>1 DEF IInv, TypeOK, Saving
    <2>4. Whole'
      BY <1>1, <2>1, <2>2 DEF IInv, Whole, Stored
    <2>5. dir[tmp] # NoInode
      BY <1>1, OwnInode, StoreAssumption
    <2>. QED
      BY <1>1, <1>2, <2>1, <2>2, <2>3, <2>4, <2>5 DEF IInv, Own, Progress, Pending, Saving
  <1>3. CASE IOFails("clean") /\ UNCHANGED dir
    BY <1>1, <1>3 DEF IOFails, IInv, TypeOK, Own, Whole, Stored, Progress,
       Pending, Saving
  <1>. QED
    BY <1>2, <1>3 DEF Rename

LEMMA SyncDirInvariant == ASSUME IInv, SyncDir PROVE IInv'
  BY DEF SyncDir, SyncEntry, IInv, TypeOK, Own, Whole, Stored, Progress,
       Pending, Saving

LEMMA CleanInvariant == ASSUME IInv, Clean PROVE IInv'
  <1>1. dirOnDisk' = dirOnDisk /\ data' = data /\ dataOnDisk' = dataOnDisk
        /\ snap' = snap /\ tmp' = tmp /\ pc = "clean" /\ pc' = "idle"
        /\ result' = "error"
    BY DEF Clean, disk
  <1>2. dir' \in [Files -> Inodes \cup {NoInode}] /\ dir'[Path] = dir[Path]
    BY <1>1, OwnInode, PathInFiles DEF Clean, RemoveTemp, IInv, TypeOK
  <1>. QED
    BY <1>1, <1>2 DEF IInv, TypeOK, Own, Whole, Stored, Progress,
       Pending, Saving

LEMMA FlushNameInvariant ==
    ASSUME IInv, NEW f \in Files, FlushName(f) PROVE IInv'
  <1>1. dir' = dir /\ data' = data /\ dataOnDisk' = dataOnDisk
        /\ snap' = snap /\ tmp' = tmp /\ result' = result /\ pc' = pc
    BY DEF FlushName
  <1>2. dirOnDisk' \in [Files -> Inodes \cup {NoInode}]
        /\ \A g \in Files : dirOnDisk'[g] \in {dirOnDisk[g], dir[g]}
    BY DEF FlushName, IInv, TypeOK
  <1>3. Own'
    BY <1>1, <1>2 DEF IInv, Own
  <1>4. Whole'
    BY <1>1, <1>2, PathInFiles DEF IInv, Whole, Stored
  <1>. QED
    BY <1>1, <1>2, <1>3, <1>4 DEF IInv, TypeOK, Progress, Pending, Saving

\* An inode whose state is whole and on the disk is not written again.
LEMMA FlushDataElsewhere ==
    ASSUME IInv, NEW i \in Inodes, FlushData(i)
    PROVE  /\ dataOnDisk' \in [Inodes -> Contents]
           /\ \A j \in Inodes : data[j] = dataOnDisk[j] => dataOnDisk'[j] = dataOnDisk[j]
  BY DEF FlushData, IInv, TypeOK, Contents

LEMMA FlushDataInvariant ==
    ASSUME IInv, NEW i \in Inodes, FlushData(i) PROVE IInv'
  <1>1. dir' = dir /\ dirOnDisk' = dirOnDisk /\ data' = data
        /\ snap' = snap /\ tmp' = tmp /\ result' = result /\ pc' = pc
    BY DEF FlushData
  <1>2. Whole'
    BY <1>1, FlushDataElsewhere, PathInFiles DEF IInv, TypeOK, Whole, Stored
  <1>3. Progress'
    BY <1>1, FlushDataElsewhere, OwnInode DEF IInv, Progress
  <1>. QED
    BY <1>1, <1>2, <1>3, FlushDataElsewhere DEF IInv, TypeOK, Own, Pending

LEMMA KillInvariant == ASSUME IInv, Kill PROVE IInv'
  BY DEF Kill, IInv, TypeOK, Own, Whole, Stored, Progress,
       Pending, Saving, disk

LEMMA PowerCutInvariant == ASSUME IInv, PowerCut PROVE IInv'
  BY DEF PowerCut, IInv, TypeOK, Own, Whole, Stored, Progress,
       Pending, Saving, disk

LEMMA NextInvariant == IInv /\ [Next]_vars => IInv'
  <1>. SUFFICES ASSUME IInv, [Next]_vars PROVE IInv'
    OBVIOUS
  <1>1. CASE Daemon
    BY <1>1, LoadInvariant, SaveInvariant, CreateTempInvariant, WriteInvariant,
       SyncInvariant, RenameInvariant, SyncDirInvariant, CleanInvariant
       DEF Daemon
  <1>2. CASE Outside
    BY <1>2, FlushNameInvariant, FlushDataInvariant, KillInvariant,
       PowerCutInvariant DEF Outside
  <1>3. CASE UNCHANGED vars
    BY <1>3 DEF vars, IInv, TypeOK, Own, Whole, Stored, Progress,
       Pending, Saving
  <1>. QED
    BY <1>1, <1>2, <1>3 DEF Next

\* The variables hold the values they are declared for, and the daemon only
\* ever works on snapshots of a version it knows (Load, migrate).
THEOREM TypeCorrect == Spec => []TypeOK
  <1>1. IInv => TypeOK
    BY DEF IInv
  <1>. QED
    BY InitInvariant, NextInvariant, <1>1, PTL DEF Spec

-----------------------------------------------------------------------------
(* The promise of the interface Store *)

LEMMA NoStateUnsaved == ASSUME IInv PROVE snap # NoState /\ snap \in Snapshots
  BY KnownSnapshots, StoreAssumption DEF IInv, TypeOK, Contents

\* What a reader gets changes only when the path or its inode does.
LEMMA SameReading ==
    ASSUME IInv,
           dir'[Path] = dir[Path], dirOnDisk'[Path] = dirOnDisk[Path],
           dir[Path] # NoInode => data'[dir[Path]] = data[dir[Path]],
           dirOnDisk[Path] # NoInode =>
               dataOnDisk'[dirOnDisk[Path]] = dataOnDisk[dirOnDisk[Path]]
    PROVE  Visible' = Visible /\ Durable' = Durable
  BY DEF Visible, Durable

LEMMA InitPromise == Init => Promise!Init
  <1>. SUFFICES ASSUME Init PROVE Promise!Init
    OBVIOUS
  <1>1. Visible = Durable
    BY DEF Init, Visible, Durable
  <1>2. Visible \in Snapshots \cup {NoState}
    <2>1. PICK i \in Inodes, s \in Snapshots, present \in BOOLEAN :
              /\ dir = [f \in Files |-> IF f = Path /\ present THEN i ELSE NoInode]
              /\ data = [j \in Inodes |-> IF j = i THEN s ELSE Empty]
      BY DEF Init
    <2>. QED
      BY <2>1, PathInFiles, StoreAssumption DEF Visible
  <1>3. pc \notin Saving /\ result = "none"
    BY DEF Init, Saving
  <1>. QED
    BY <1>1, <1>2, <1>3 DEF Promise!Init

LEMMA NextPromise ==
    ASSUME IInv, [Next]_vars
    PROVE  [Promise!Next]_<<Visible, {Visible, Durable},
                            IF pc \in Saving THEN snap ELSE NoState, result>>
  <1>. DEFINE saving == IF pc \in Saving THEN snap ELSE NoState
              safe == {Visible, Durable}
              Same == Visible' = Visible /\ Durable' = Durable
              Stutter == Same /\ saving' = saving /\ result' = result
  <1>. SUFFICES Promise!Next \/ Stutter
    OBVIOUS
  <1>a. Same /\ saving # NoState /\ saving' = NoState
          /\ result' \in {"error", "none"} => Promise!Next
    BY DEF Promise!Next, Promise!Abandon
  <1>1. CASE Load
    BY <1>1 DEF Load, Visible, Durable, disk, Saving
  <1>2. ASSUME NEW b \in Bodies, Save(b) PROVE Promise!Next
    <2>1. Same
      BY <1>2 DEF Save, Visible, Durable, disk
    <2>2. saving = NoState /\ saving' = snap' /\ snap' \in Snapshots
          /\ result' = "none"
      BY <1>2, SaveInvariant, KnownSnapshots DEF Save, Saving, IInv, TypeOK
    <2>. QED
      BY <2>1, <2>2 DEF Promise!Next, Promise!Begin
  <1>3. CASE CreateTemp
    <2>1. CASE IOFails("idle") /\ UNCHANGED <<dir, data, dataOnDisk, tmp>>
      <3>1. Same
        BY <1>3, <2>1 DEF CreateTemp, Visible, Durable
      <3>2. saving # NoState /\ saving' = NoState
        BY <1>3, <2>1, NoStateUnsaved DEF CreateTemp, IOFails, Saving
      <3>3. result' = "error"
        BY <2>1, <1>3 DEF CreateTemp, IOFails
      <3>. QED
        BY <3>1, <3>2, <3>3, <1>a
    <2>2. ASSUME NEW t \in Temps, NEW i \in Inodes, ~Bound(i),
                 dir' = [dir EXCEPT ![t] = i],
                 data' = [data EXCEPT ![i] = Empty],
                 dataOnDisk' = [dataOnDisk EXCEPT ![i] = Empty],
                 pc' = "write", result' = result
          PROVE  Stutter
      <3>1. t # Path /\ dir[Path] # i /\ dirOnDisk[Path] # i
        BY <2>2, PathAssumption, PathInFiles DEF Bound
      <3>2. Same
        BY <1>3, <2>2, <3>1, SameReading, PathInFiles DEF CreateTemp, IInv, TypeOK
      <3>3. saving' = saving /\ result' = result
        BY <1>3, <2>2 DEF CreateTemp, Saving
      <3>. QED
        BY <3>2, <3>3
    <2>. QED
      BY <1>3, <2>1, <2>2 DEF CreateTemp
  <1>4. CASE Write
    <2>1. saving' = saving
      BY <1>4 DEF Write, IOFails, Saving
    <2>2. PICK c : data' = [data EXCEPT ![dir[tmp]] = c]
      BY <1>4 DEF Write
    <2>3. dir[Path] # dir[tmp]
      BY <1>4, OwnInode DEF Write
    <2>. QED
      BY <1>4, <2>1, <2>2, <2>3, SameReading DEF Write, disk, IInv, TypeOK
  <1>5. CASE Sync
    <2>1. saving' = saving
      BY <1>5 DEF Sync, IOFails, Saving
    <2>2. dirOnDisk[Path] # dir[tmp]
      BY <1>5, OwnInode DEF Sync
    <2>3. \A j \in Inodes : j # dir[tmp] => dataOnDisk'[j] = dataOnDisk[j]
      BY <1>5 DEF Sync, SyncData, IInv, TypeOK
    <2>. QED
      BY <1>5, <2>1, <2>2, <2>3, SameReading, PathInFiles DEF Sync, IInv, TypeOK
  <1>6. CASE Rename
    <2>1. saving # NoState /\ saving' = saving /\ result' = result
      BY <1>6, NoStateUnsaved DEF Rename, IOFails, Saving
    <2>2. CASE IOFails("clean") /\ UNCHANGED dir
      BY <1>6, <2>1, <2>2 DEF Rename, Visible, Durable, disk
    <2>3. CASE dir' = [dir EXCEPT ![Path] = dir[tmp], ![tmp] = NoInode]
      <3>1. Visible' = snap
        BY <1>6, <2>3, OwnInode, StoreAssumption, PathInFiles
           DEF Rename, Visible, IInv, TypeOK, Progress
      <3>2. Durable' = Durable
        BY <1>6 DEF Rename, Durable, disk
      <3>3. saving = snap
        BY <1>6 DEF Rename, Saving
      <3>4. {Durable} \in SUBSET safe /\ safe' = {Durable} \cup {saving}
        BY <3>1, <3>2, <3>3
      <3>. QED
        BY <2>1, <3>1, <3>3, <3>4 DEF Promise!Next, Promise!Replace
    <2>. QED
      BY <1>6, <2>2, <2>3 DEF Rename
  <1>7. CASE SyncDir
    <2>1. saving = snap /\ saving # NoState /\ saving' = NoState
      BY <1>7, NoStateUnsaved DEF SyncDir, Saving
    <2>2. Visible' = Visible /\ Visible = snap
      BY <1>7 DEF SyncDir, Visible, IInv, Progress
    <2>3. CASE UNCHANGED dirOnDisk /\ result' = "error"
      BY <1>7, <2>1, <2>2, <2>3, <1>a DEF SyncDir, Durable
    <2>4. CASE dirOnDisk' = dir /\ result' = "ok"
      <3>1. Durable' = Visible
        BY <1>7, <2>4 DEF SyncDir, Visible, Durable, IInv, Whole, Stored
      <3>2. safe' = {Visible}
        BY <2>2, <3>1
      <3>. QED
        BY <2>1, <2>2, <2>4, <3>2 DEF Promise!Next, Promise!Acknowledge
    <2>. QED
      BY <1>7, <2>3, <2>4 DEF SyncDir, SyncEntry
  <1>8. CASE Clean
    <2>1. saving # NoState /\ saving' = NoState
      BY <1>8, NoStateUnsaved DEF Clean, Saving
    <2>2. dir'[Path] = dir[Path]
      BY <1>8, OwnInode, PathInFiles DEF Clean, RemoveTemp, IInv, TypeOK
    <2>. QED
      BY <1>8, <2>1, <2>2, <1>a, SameReading DEF Clean, disk
  <1>9. ASSUME NEW f \in Files, FlushName(f) PROVE Promise!Next \/ Stutter
    <2>1. saving' = saving /\ Visible' = Visible /\ result' = result
      BY <1>9 DEF FlushName, Visible
    <2>2. CASE f = Path
      <3>1. Durable' = Visible
        BY <1>9, <2>2, PathInFiles
           DEF FlushName, Visible, Durable, IInv, TypeOK, Whole, Stored
      <3>2. safe' = {Visible}
        BY <2>1, <3>1
      <3>. QED
        BY <2>1, <3>2 DEF Promise!Next, Promise!Settle
    <2>3. CASE f # Path
      BY <1>9, <2>1, <2>3, SameReading, PathInFiles DEF FlushName, IInv, TypeOK
    <2>. QED
      BY <2>2, <2>3
  <1>10. ASSUME NEW i \in Inodes, FlushData(i) PROVE Stutter
    <2>1. saving' = saving
      BY <1>10 DEF FlushData
    <2>. QED
      BY <1>10, <2>1, FlushDataElsewhere, SameReading, PathInFiles
         DEF FlushData, IInv, TypeOK, Whole, Stored
  <1>11. CASE Kill
    <2>1. Same
      BY <1>11 DEF Kill, Visible, Durable, disk
    <2>2. saving' = NoState
      BY <1>11 DEF Kill, Saving
    <2>3. saving = NoState => Stutter
      BY <1>11, <2>1, <2>2 DEF Kill
    <2>4. result' \in {"error", "none"} \/ saving = NoState
      BY <1>11 DEF Kill, IInv, Pending
    <2>. QED
      BY <2>1, <2>2, <2>3, <2>4, <1>a
  <1>12. CASE PowerCut
    <2>1. Visible' = Durable /\ Durable' = Durable
      BY <1>12 DEF PowerCut, Visible, Durable, disk
    <2>2. saving' = NoState /\ result' = result
      BY <1>12 DEF PowerCut, Saving
    <2>3. Visible' \in safe /\ safe' = {Visible'}
      BY <2>1
    <2>. QED
      BY <2>2, <2>3 DEF Promise!Next, Promise!PowerCut
  <1>13. CASE UNCHANGED vars
    BY <1>13 DEF vars, Visible, Durable
  <1>. QED
    BY <1>1, <1>2, <1>3, <1>4, <1>5, <1>6, <1>7, <1>8, <1>9, <1>10, <1>11,
       <1>12, <1>13 DEF Next, Daemon, Outside

\* Save replaces one whole state by another, whatever fails and whenever the
\* daemon is killed or the power cut, and a state whose Save returned without
\* error is the one Load reads from then on.
THEOREM PromiseKept == Spec => ImplementsPromise
  BY InitInvariant, NextInvariant, InitPromise, NextPromise, PTL
     DEF Spec, ImplementsPromise, Promise!Spec

-----------------------------------------------------------------------------
(* The state of a later daemon *)

Later(c) == c \in Snapshots /\ c.version > SchemaVersion

\* While a later state is there, no daemon runs, and it is on the disk.
Untouched ==
    Later(Visible) \/ Later(Durable) => pc = "down" /\ Durable = Visible

LEMMA KnownNotLater == \A s \in Known : ~Later(s)
  BY StoreAssumption DEF Known, Later, Snapshots

LEMMA InitUntouched == Init => Untouched
  BY DEF Init, Untouched, Visible, Durable

\* A promise kept says where readings come from: from the readings there were,
\* or from the snapshot of a daemon that saves.
LEMMA Readings ==
    ASSUME IInv, [Next]_vars
    PROVE  \A c \in {Visible', Durable'} :
               c \in {Visible, Durable} \/ (pc \in Saving /\ c = snap)
  <1>. DEFINE saving == IF pc \in Saving THEN snap ELSE NoState
  <1>1. [Promise!Next]_<<Visible, {Visible, Durable}, saving, result>>
    BY NextPromise
  <1>2. CASE \/ Promise!Acknowledge \/ Promise!Abandon \/ Promise!Settle
             \/ \E v \in Snapshots : Promise!Begin(v)
    <2>1. {Visible', Durable'} \subseteq {Visible, Durable}
      BY <1>2 DEF Promise!Acknowledge, Promise!Abandon, Promise!Settle, Promise!Begin
    <2>. QED
      BY <2>1
  <1>3. CASE Promise!Replace
    <2>1. saving # NoState /\ {Visible', Durable'} \subseteq {Visible, Durable} \cup {saving}
      BY <1>3 DEF Promise!Replace
    <2>. QED
      BY <2>1
  <1>4. CASE Promise!PowerCut
    <2>1. {Visible', Durable'} \subseteq {Visible, Durable}
      BY <1>4 DEF Promise!PowerCut
    <2>. QED
      BY <2>1
  <1>5. CASE UNCHANGED <<Visible, {Visible, Durable}, saving, result>>
    <2>1. {Visible', Durable'} \subseteq {Visible, Durable}
      BY <1>5
    <2>. QED
      BY <2>1
  <1>. QED
    BY <1>1, <1>2, <1>3, <1>4, <1>5 DEF Promise!Next

LEMMA NextUntouched ==
    ASSUME IInv, Untouched, [Next]_vars
    PROVE  Untouched' /\ (Later(Visible) => Visible' = Visible)
  <1>1. CASE Later(Visible) \/ Later(Durable)
    <2>1. pc = "down" /\ Durable = Visible /\ Later(Visible)
      BY <1>1 DEF Untouched
    <2>2. Visible' = Visible /\ Durable' = Visible
      BY <2>1, Readings DEF Saving
    <2>3. ~Load
      BY <2>1, StoreAssumption DEF Load, Later, Readable, Contents, Snapshots
    <2>4. pc' = "down"
      BY <2>1, <2>3 DEF Next, Daemon, Outside, vars, Save, CreateTemp, Write, Sync,
         Rename, SyncDir, Clean, FlushName, FlushData, Kill, PowerCut
    <2>. QED
      BY <2>2, <2>4 DEF Untouched
  <1>2. CASE ~Later(Visible) /\ ~Later(Durable)
    <2>1. ~Later(snap)
      BY KnownNotLater DEF IInv, TypeOK
    <2>2. ~Later(Visible') /\ ~Later(Durable')
      BY <1>2, <2>1, Readings
    <2>. QED
      BY <1>2, <2>2 DEF Untouched, Later
  <1>. QED
    BY <1>1, <1>2

\* The state file of a later daemon is never replaced by this one, whose fields
\* it might lose: Load refuses it and nothing is saved (migrate, NewManager).
THEOREM LaterStateNeverReplaced == Spec => LaterStateKept
  <1>1. Init => IInv /\ Untouched
    BY InitInvariant, InitUntouched
  <1>2. IInv /\ Untouched /\ [Next]_vars => (IInv /\ Untouched)'
    BY NextInvariant, NextUntouched
  <1>3. IInv /\ Untouched /\ [Next]_vars =>
            [(Visible \in Snapshots /\ Visible.version > SchemaVersion)
                => Visible' = Visible]_vars
    BY NextUntouched DEF Later
  <1>. QED
    BY <1>1, <1>2, <1>3, PTL DEF Spec, LaterStateKept

-----------------------------------------------------------------------------
(* Temporary files *)

\* Where nothing but system calls fails, the only temporary file is the one of
\* the save under way.
Tidy ==
    Faults \cap {"remove", "kill", "power"} = {} =>
        \A t \in Temps : dir[t] = NoInode
            \/ (pc \in {"write", "sync", "rename", "clean"} /\ t = tmp)

LEMMA InitTidy == Init => Tidy
  BY PathAssumption DEF Init, Tidy, Files

LEMMA NextTidy == IInv /\ Tidy /\ [Next]_vars => Tidy'
  <1>. SUFFICES ASSUME IInv, Tidy, [Next]_vars,
                       Faults \cap {"remove", "kill", "power"} = {},
                       NEW t \in Temps
                PROVE  dir'[t] = NoInode
                         \/ (pc' \in {"write", "sync", "rename", "clean"} /\ t = tmp')
    BY DEF Tidy
  <1>0. /\ t \in Files /\ t # Path
        /\ dir[t] = NoInode
             \/ (pc \in {"write", "sync", "rename", "clean"} /\ t = tmp)
    BY PathAssumption DEF Tidy, Files
  <1>1. CASE CreateTemp
    BY <1>0, <1>1 DEF CreateTemp, IOFails, IInv, TypeOK
  <1>2. CASE Rename
    BY <1>0, <1>2, OwnInode DEF Rename, IOFails, IInv, TypeOK
  <1>3. CASE Clean
    BY <1>0, <1>3, OwnInode DEF Clean, RemoveTemp, IInv, TypeOK
  <1>4. CASE Load \/ (\E b \in Bodies : Save(b)) \/ Write \/ Sync \/ SyncDir
    BY <1>0, <1>4 DEF Load, Save, Write, Sync, SyncDir, IOFails
  <1>5. CASE Outside
    BY <1>0, <1>5 DEF Outside, FlushName, FlushData, Kill, PowerCut
  <1>6. CASE UNCHANGED vars
    BY <1>0, <1>6 DEF vars
  <1>. QED
    BY <1>1, <1>2, <1>3, <1>4, <1>5, <1>6 DEF Next, Daemon

\* However a save fails, it takes its temporary file away (the deferred Remove).
THEOREM TemporariesRemoved == Spec => []NoTemporaryLeft
  <1>1. IInv /\ Tidy => NoTemporaryLeft
    BY DEF Tidy, NoTemporaryLeft
  <1>. QED
    BY InitInvariant, NextInvariant, InitTidy, NextTidy, <1>1, PTL DEF Spec

=============================================================================
