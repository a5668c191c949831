----------------------------- MODULE JSONStore ------------------------------
(***************************************************************************)
(* The JSON state file (controlplane/state/jsonstore.go) on a file system  *)
(* that may lose, at a power cut, everything it was not told to sync.      *)
(*                                                                         *)
(* Files are names bound to inodes; names and inodes have a value in       *)
(* memory and one on the disk.  The kernel may write any name and any part *)
(* of any inode to the disk whenever it likes, in any order: this is less  *)
(* than what a journaled file system guarantees.                           *)
(*                                                                         *)
(* One daemon runs at a time.  Save and Load exclude each other (mu), and  *)
(* the manager saves with its own lock held, so the state does not change  *)
(* under Save.  Closing the temporary file and setting its mode change     *)
(* nothing modelled here; their failure is that of Sync.                   *)
(***************************************************************************)
EXTENDS Integers, FiniteSets

CONSTANTS
    Bodies,         \* contents of a snapshot other than its version
    NewBody,        \* the one of NewSnapshot
    SchemaVersion,  \* the version this daemon writes
    Temps,          \* names of temporary files (a bound on those left behind)
    Inodes,         \* inodes (a bound, as many as names in both tables suffice)
    NoInode,        \* the name is not bound
    NoState,        \* there is no file
    Empty, Partial, \* contents that are no JSON document
    Faults          \* what may happen, among FaultKinds

\* io: a system call of Save fails; remove: so does removing the temporary
\* file; kill: the daemon is killed; power: the machine is.
FaultKinds == {"io", "remove", "kill", "power"}

\* One version after this daemon's stands for all those it does not know.
Snapshots == [version : 0 .. SchemaVersion + 1, body : Bodies]
NewSnapshot == [version |-> SchemaVersion, body |-> NewBody]
Contents == Snapshots \cup {Empty, Partial}

ASSUME StoreAssumption ==
    /\ NewBody \in Bodies
    /\ SchemaVersion \in Nat \ {0}
    /\ NoInode \notin Inodes
    /\ NoState \notin Contents
    /\ Empty \notin Snapshots /\ Partial \notin Snapshots
    /\ Faults \subseteq FaultKinds

\* The state file is the one name that is not temporary.
Path == "path"
Files == Temps \cup {Path}
ASSUME PathAssumption == Path \notin Temps

VARIABLES
    dir, dirOnDisk,    \* the inode of each name, in memory and on disk
    data, dataOnDisk,  \* the contents of each inode, in memory and on disk
    pc,                \* where the daemon is; "down" when it does not run
    snap,              \* Manager.snap, the snapshot the daemon works on
    tmp,               \* the temporary file of the Save under way
    result             \* "ok" or "error", as the last Save returned, or "none"

vars == <<dir, dirOnDisk, data, dataOnDisk, pc, snap, tmp, result>>
disk == <<dirOnDisk, dataOnDisk>>

-----------------------------------------------------------------------------

Saving == {"create", "write", "sync", "rename", "syncdir", "clean"}

\* What a reader of the path gets, now and after a power cut.
Visible == IF dir[Path] = NoInode THEN NoState ELSE data[dir[Path]]
Durable == IF dirOnDisk[Path] = NoInode THEN NoState
                                        ELSE dataOnDisk[dirOnDisk[Path]]

\* Some name refers to the inode; it is freed otherwise.
Bound(i) == \E f \in Files : dir[f] = i \/ dirOnDisk[f] = i

\* A state file of any age, or none, and a daemon that has not started.
Init ==
    /\ \E i \in Inodes, s \in Snapshots, present \in BOOLEAN :
          /\ dir = [f \in Files |-> IF f = Path /\ present THEN i ELSE NoInode]
          /\ data = [j \in Inodes |-> IF j = i THEN s ELSE Empty]
    /\ dirOnDisk = dir
    /\ dataOnDisk = data
    /\ pc = "down"
    /\ snap = NewSnapshot
    /\ tmp = Path
    /\ result = "none"

\* migrate: a state without a version is taken for a current one, and one of a
\* later daemon is refused.
ReadableAlways(s) == TRUE  \* faulty variant
Readable(s) == s.version <= SchemaVersion
MigrateNothing(s) == s  \* faulty variant
Migrate(s) == IF s.version = 0 THEN [s EXCEPT !.version = SchemaVersion] ELSE s

\* The daemon starts on what Load returns.  When Load fails it does not start.
Load ==
    /\ pc = "down"
    /\ \/ /\ Visible \in {NoState, Empty}
          /\ snap' = NewSnapshot
       \/ /\ Visible \in Snapshots
          /\ Readable(Visible)
          /\ snap' = Migrate(Visible)
    /\ pc' = "idle"
    /\ UNCHANGED <<dir, disk, data, tmp, result>>

\* The manager changes its snapshot and saves it.
Save(b) ==
    /\ pc = "idle"
    /\ snap' = Migrate([snap EXCEPT !.body = b])
    /\ pc' = "create"
    /\ result' = "none"
    /\ UNCHANGED <<dir, disk, data, tmp>>

IOFails(then) == "io" \in Faults /\ pc' = then

\* A name no file has, bound to an inode nothing refers to.
CreateTemp ==
    /\ pc = "create"
    /\ UNCHANGED <<dirOnDisk, snap>>
    /\ \/ \E t \in Temps, i \in Inodes :
             /\ dir[t] = NoInode
             /\ ~Bound(i)
             /\ dir' = [dir EXCEPT ![t] = i]
             /\ data' = [data EXCEPT ![i] = Empty]
             /\ dataOnDisk' = [dataOnDisk EXCEPT ![i] = Empty]
             /\ tmp' = t
             /\ pc' = "write"
             /\ UNCHANGED result
       \/ /\ IOFails("idle")
          /\ result' = "error"
          /\ UNCHANGED <<dir, data, dataOnDisk, tmp>>

Write ==
    /\ pc = "write"
    /\ UNCHANGED <<dir, disk, snap, tmp, result>>
    /\ \/ /\ data' = [data EXCEPT ![dir[tmp]] = snap]
          /\ pc' = "sync"
       \/ /\ IOFails("clean")
          /\ \E c \in {Empty, Partial} : data' = [data EXCEPT ![dir[tmp]] = c]

\* fsync of the file: its data are on the disk when it returns.
SyncNothing == UNCHANGED dataOnDisk  \* faulty variant
SyncData == dataOnDisk' = [dataOnDisk EXCEPT ![dir[tmp]] = data[dir[tmp]]]

Sync ==
    /\ pc = "sync"
    /\ UNCHANGED <<dir, dirOnDisk, data, snap, tmp, result>>
    /\ \/ SyncData /\ pc' = "rename"
       \/ IOFails("clean") /\ UNCHANGED dataOnDisk

Rename ==
    /\ pc = "rename"
    /\ UNCHANGED <<disk, data, snap, tmp, result>>
    /\ \/ /\ dir' = [dir EXCEPT ![Path] = dir[tmp], ![tmp] = NoInode]
          /\ pc' = "syncdir"
       \/ IOFails("clean") /\ UNCHANGED dir

\* fsync of the directory.  When it fails the new state is there all the same.
SyncNoEntry == UNCHANGED dirOnDisk  \* faulty variant
SyncEntry == dirOnDisk' = dir

SyncDir ==
    /\ pc = "syncdir"
    /\ pc' = "idle"
    /\ \/ SyncEntry /\ result' = "ok"
       \/ "io" \in Faults /\ UNCHANGED dirOnDisk /\ result' = "error"
    /\ UNCHANGED <<dir, data, dataOnDisk, snap, tmp>>

\* The deferred removal of the temporary file, on every failure before the
\* rename.  Its own failure is ignored.
RemoveTemp == dir' = [dir EXCEPT ![tmp] = NoInode]

Clean ==
    /\ pc = "clean"
    /\ pc' = "idle"
    /\ result' = "error"
    /\ \/ RemoveTemp
       \/ "remove" \in Faults /\ UNCHANGED dir
    /\ UNCHANGED <<disk, data, snap, tmp>>

-----------------------------------------------------------------------------
(* The outside *)

FlushName(f) ==
    /\ dir[f] # dirOnDisk[f]
    /\ dirOnDisk' = [dirOnDisk EXCEPT ![f] = dir[f]]
    /\ UNCHANGED <<dir, data, dataOnDisk, pc, snap, tmp, result>>

\* An inode being written may reach the disk in part.
FlushData(i) ==
    /\ data[i] # dataOnDisk[i]
    /\ Bound(i)
    /\ dataOnDisk' \in {[dataOnDisk EXCEPT ![i] = c] : c \in {data[i], Partial}}
    /\ UNCHANGED <<dir, dirOnDisk, data, pc, snap, tmp, result>>

Kill ==
    /\ "kill" \in Faults
    /\ pc # "down"
    /\ pc' = "down"
    /\ UNCHANGED <<dir, disk, data, snap, tmp, result>>

PowerCut ==
    /\ "power" \in Faults
    /\ dir' = dirOnDisk
    /\ data' = dataOnDisk
    /\ pc' = "down"
    /\ UNCHANGED <<disk, snap, tmp, result>>

Daemon ==
    \/ Load \/ \E b \in Bodies : Save(b)
    \/ CreateTemp \/ Write \/ Sync \/ Rename \/ SyncDir \/ Clean

Outside ==
    \/ \E f \in Files : FlushName(f)
    \/ \E i \in Inodes : FlushData(i)
    \/ Kill \/ PowerCut

Next == Daemon \/ Outside

Spec == Init /\ [][Next]_vars

-----------------------------------------------------------------------------
(* Properties *)

\* The snapshots this daemon may work on.
Known == {s \in Snapshots : s.version \in 1 .. SchemaVersion}

\* The variables hold the values they are declared for; the daemon never works
\* on a snapshot of a version it does not know (Load, migrate).
TypeOK ==
    /\ dir \in [Files -> Inodes \cup {NoInode}]
    /\ dirOnDisk \in [Files -> Inodes \cup {NoInode}]
    /\ data \in [Inodes -> Contents]
    /\ dataOnDisk \in [Inodes -> Contents]
    /\ pc \in Saving \cup {"down", "idle"}
    /\ snap \in Known
    /\ tmp \in Files
    /\ result \in {"none", "ok", "error"}

\* "soit l'ancien état complet, soit le nouveau, jamais un mélange", and the
\* new one once Save has returned without error: the file implements the
\* promise of the interface Store, across kills and power cuts.
Promise == INSTANCE StateFile WITH
    States <- Snapshots,
    content <- Visible,
    safe <- {Visible, Durable},
    saving <- IF pc \in Saving THEN snap ELSE NoState,
    result <- result

ImplementsPromise == Promise!Spec

\* "ne pas laisser de temporaire derrière": between two saves there is no
\* temporary file, unless the daemon was stopped in one or could not remove it.
NoTemporaryLeft ==
    pc = "idle" /\ Faults \cap {"remove", "kill", "power"} = {}
        => \A t \in Temps : dir[t] = NoInode

\* "une version ultérieure a pu y écrire des champs que celle-ci effacerait":
\* this daemon never replaces the state of a later one, whatever happens.
LaterStateKept ==
    [][(Visible \in Snapshots /\ Visible.version > SchemaVersion)
          => Visible' = Visible]_vars

=============================================================================
