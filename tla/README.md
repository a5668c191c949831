# TinyVMOS, specified

TLA+ models of the control plane of TinyVMOS (`src/controlplane`), the TLC runs
that check them on small instances and the theorems TLAPS proves about them for
every value of the constants. Every definition follows the Go source; the table
`map` of `PROJECT.json` gives the lines each one stands for.

## 1. The system

`tinyvmosd` is one Go process. It takes zones, flows, publications and VMs from
its command line, puts the host network and the firewall in place, starts the
VMs under Firecracker, supervises them, repairs what drifts, and takes
everything down when it is told to stop.

| Component | State it keeps | Operations | What must hold |
|---|---|---|---|
| Status machine (`vm/vmm.go`) | none: a table | `CanTransitionTo` | every change of status is in the table |
| VM manager (`vm/manager.go`, `vm/store.go`) | the snapshot (records, identities, zones, allocation) and `super`, the supervisor of each VM, behind one mutex | Create, Ensure, Start, Stop, Delete, StopAll, IdentityFor, WithState; one supervisor goroutine per started VM | a VM has one supervisor, which Stop always reaches; what is stopped stays stopped; the file follows the memory |
| Identities (`vm/identity.go`) | part of the snapshot | allocate the smallest free one, give back on Delete | two VMs never share a uid |
| Firecracker driver (`vm/firecracker.go`; `vm/fake.go` in tests) | one instance per prepared VM: machine, done channel, cancel | Create, Start, Stop, Delete, Wait, Metrics; a waiter goroutine per process | one process per VM; Stop returns when it is dead; Wait wakes when it dies |
| State store (`state/jsonstore.go`) | a JSON file | Load, Save (temporary file, fsync, rename, fsync of the directory) | the file is always one whole state, and the last saved one |
| Allocation (`network/alloc.go`, `ula.go`) | ULA prefix, index per zone, lease per VM | Allocate, Release, IndexForZone, ResolveZoneIPv6 | addresses are distinct, stable, inside their zone |
| Zones, flows, publications (`zone.go`, `flow.go`, `publication.go`) | none | validation | what validation accepts, the ruleset and the host can carry |
| Firewall (`firewall.go`, `verify.go`) | what was last applied: fingerprint and number of rules | Apply, Verify, Flush | isolation is in place before a VM runs; drift is seen and repaired |
| Host network (`network/manager.go`) | bridges and taps in the kernel | EnsureZone, RemoveZone, EnsureTap, RemoveTap | idempotent; a zone with members is not removed |
| Reconciler (`reconcile/reconcile.go`) | its policy | a pass every ten seconds: firewall, zones, taps | converges; never fights the shutdown |
| Daemon (`cmd/tinyvmosd/main.go`) | the order of things | start-up, error paths, shutdown | nothing is left running or open |

Calls go down: the daemon calls the manager, the network and the firewall; the
manager calls the driver and the store; the reconciler goroutine reads the
manager and writes the network. Back up there are only channels: the driver
closes `done` when a process ends, and the manager cancels a context to end a
supervisor.

What is hard to test in it: the manager releases its mutex around every call of
the driver, so the sections of Start, Stop, Delete, of a relaunch and of
supervision interleave; supervisors are cancelled but never waited for; a
`*Record` is kept across the unlock and written after it; processes die on their
own between any two steps; saving can fail, before or after the file changed;
the daemon itself can be killed and started again over live processes; the
reconciler is never joined. `PROJECT.json` lists these hazards at their lines
with the properties that watch them.

## 2. Modules

| Module | Models |
|---|---|
| `VMStatus` | the statuses and their table |
| `VMManager` | the manager, its callers, its supervisors, over the contract of the hypervisor and of the store |
| `MCVMManager` | symmetry for TLC |
| `VMManager_proofs` | theorems about `VMManager` |
| `VMM` | what the interface `VMM` promises of one VM: the abstract specification of a driver |
| `Firecracker` | the driver step by step: Create, Start, Stop, Delete, Wait and the waiter goroutines, for one VM; implements `VMM` |
| `MCFirecracker`, `Firecracker_proofs` | symmetry for TLC; theorems |
| `StateFile` | what the interface `Store` promises: the abstract specification |
| `JSONStore` | Load, migrate and Save, one system call at a time, over a lossy file system; implements `StateFile` |
| `MCJSONStore`, `JSONStore_proofs` | symmetry for TLC; theorems |
| `Tinyvmosd` | `run`, the reconciler, the firewall as a whole, the bridges and taps, and the supervisors as the host sees them |
| `MCTinyvmosd`, `Tinyvmosd_proofs` | the zone of each VM, for TLC; theorems |
| `Zones` | zones, their prefixes and `ValidateZones`; used by the next two |
| `Allocation` | the IPv6 prefix, the indices of the zones and the leases, over many daemons and one state file |
| `MCAllocation`, `Allocation_proofs` | the zones that may be declared, for TLC; theorems |
| `Ruleset` | flows, publications, the policy, its validation and the rules generated from it, as predicates on packets |
| `Traffic` | a packet through the hooks of the kernel, while the rules are replaced |
| `MCTraffic`, `Traffic_proofs` | policies for TLC; theorems |

Definitions marked as faulty variants (`SaveStale`, `SyncNothing`,
`MayLaunchAlways`...) are what a slip in the code would give. Nothing uses them;
put in the place of the definition that follows, each makes a property fail.
`PROJECT.json` lists them under `mutants`.

### VMManager

One action is one section of code under `Manager.mu`, one call of the driver
made between two sections, or one receive on a channel; everything between two
actions interleaves.

| Variable | Code |
|---|---|
| `rec`, `ident`, `rest` | `snap.VMs` (status and Restart flag), `snap.Identities`, `snap.Zones` with `snap.Alloc` |
| `disk` | the state file |
| `super` | `Manager.super` |
| `sup` | the goroutines of `supervise`: program counter, context, the channel `Wait` blocks on, the delay |
| `hv` | the driver: instance known, its process up, its process ended but not yet cleared by the waiter (`lag`), and a process that no instance points to any more (`stray`) |
| `call` | for each caller, the local variables of the method it is in |

| Code | Actions |
|---|---|
| `Create` | `Create` (the mutex is held throughout) |
| `Ensure` | `Ensure`, then `EnsureCreate`, or `EnsurePrepare` and `EnsureSave` |
| `Start` | `Start`, `StartLaunch`, `StartFinish` with `SuperviseLocked` |
| `Stop` | `StopMark`, `StopCancel`, `StopHalt`, `StopFinish` |
| `Delete` | `Delete`, the steps of Stop, `DeleteHalt`, `DeleteForget`, `DeleteFinish` |
| `StopAll` | `StopAll`, for each VM the steps of Stop, `StopAllReturn` |
| `IdentityFor`, `WithState` | the same names |
| `supervise`, `restart` | `SupWatch`, `SupWake`, `SupRecord`, `SupBackoff`, `SupRestart`, `SupLaunch`, `SupRelaunched` |
| outside | `Crash`, then `WaiterEnds` when the driver notices, `StrayEnds`, and the failures named in `Faults` |

`Init` is what `NewManager` loads: the records of an earlier daemon in any status of
`Earlier`, its identities and the rest of its file, over a driver that knows no VM. The
driver refuses to prepare or launch a VM whose machine it still holds, also after the
process ended (`Started`).

The header of the module lists its simplifications. Two matter for what the
results mean. A call of the driver takes effect at one instant: two launches of
one VM that overlap inside the driver are not in this model. And the context
handed to the driver at Start does not end the process later, which is what the
comment of `Firecracker.Start` says of the SDK; the SDK is not part of the
repository.

`OrderlySpec` is a use of the manager without races. `LaunchesAlone`: between the
status `starting` and the launch it announces, by Start or by restart, no other
call about that VM is under way; everything else may overlap, two Stops, a Delete
and the end of a relaunch, calls about other VMs. `EnsuresDown`: Ensure is for VMs
that do not run. IdentityFor, which is about no process, is free. `run` calls Ensure and Start from one goroutine before anything
else and StopAll once at the end, so the first half of `LaunchesAlone` (two callers)
and `EnsuresDown` hold in the daemon; the second half (a call and a relaunch) is
what the race of `viol_relaunch` breaks.

### Firecracker

The driver locks its mutex for a few assignments and releases it around what
takes time, so a method is several actions. VMs share nothing in it; the module
has one.

| Variable | Code |
|---|---|
| `machines` | `Firecracker.machines[name]` |
| `inst` | the instances: `machine`, `done`, `cancel` (a process stands for its machine, its context and its channel) |
| `proc`, `cancelled` | the processes, and those whose context is cancelled |
| `waiter` | the goroutine started at the end of Start; `done` is closed when it is gone |
| `jail` | the jail directory, by the process it was built for |
| `call` | for each goroutine, the local variables of the method it is in |

| Code | Actions |
|---|---|
| `Create` | `Create` (the mutex is held throughout; a failure changes nothing here) |
| `Start` | `Start` (the checks), `StartClean` (the old jail), `StartLaunch` (SDK and jailer), `StartPublish` |
| the waiter | `WaiterClear` (machine becomes nil), `WaiterClose` (done is closed) |
| `Stop` | `Stop`, `StopRead`, `StopWait` or `StopGivesUp`, `StopClear` |
| `Delete` | `Delete`, the steps of Stop, `DeleteForget`, `DeleteRemove` |
| `Wait` | `Wait`, `WaitDone`, `WaitCancelled` |
| outside | `End`: a process ends, asked or not |

External, and taken from what the comments of the driver say: jailer refuses a
jail that exists; a launch that fails leaves no process; a process that is
killed ends. `"stuck"` in `Faults` is a process that outlives both delays of Stop.

The constant `OneByOne` chooses between two uses of the driver: calls that overlap
in every way, or calls other than Wait made one at a time.

`VMM` is the contract of the driver: a call takes effect at one instant between
its beginning and its return. `prepared` is what Create leaves and Delete takes
away, `up` says that the process runs, `doing` where each call is. Start brings
the process up only if there is none, nothing runs when Stop returns, Create and
Delete meet a VM that does not run. `Contract` in `Firecracker` maps `prepared` to
`machines` and `up` to a process that lives; StartLaunch, the end of Stop and
DeleteForget are the instants; the waiter goroutines and the clean-up of jails
change nothing the contract speaks of.

`VMManager` lets each call of the driver take effect in one action: `HvCreate`,
`HvStart`, `HvStop`, `HvForget` are `Create`, `Start` or `StartFails`, `StopReturns`
and `Delete` of `VMM`, between the beginning and the return of the call, where
nobody looks. `driver_serial` and the theorem `DriverKeepsContract` justify it for
calls of one VM that do not overlap, Wait apart, which may last as long as it likes
beside the others. Calls that overlap can
break `OneProcess` (two Starts between their check and their publication) and
`NoProcessLost` (a Stop that clears what a later Start published), and so can a
process that outlives Stop, whose waiter then clears the machine of its
successor. The daemon starts each VM from one goroutine and relaunches it from
its supervisor, so two Starts do not meet; Stop and a relaunch can. For those
overlaps `VMManager` says what the manager does with the contract, not with this
driver.

### JSONStore and StateFile

`StateFile` is a register: `content` is what Load would read, `safe` what it may
read after a power cut, `saving` the state a Save is writing, `result` what the
last one returned. Save that returns nil (`Acknowledge`) leaves only the new
state in `safe`; Save that fails leaves either state, whole.

`JSONStore` has names and inodes, each with a value in memory (`dir`, `data`) and
one on the disk (`dirOnDisk`, `dataOnDisk`). The kernel may flush any name and
any inode, whole or in part, at any time and in any order (`FlushName`,
`FlushData`); a power cut leaves what is on the disk. Save is `Save`,
`CreateTemp`, `Write`, `Sync`, `Rename`, `SyncDir`, and `Clean` for the deferred
removal of the temporary file. The refinement maps `content` to what the path
leads to in memory and `safe` to this and what it leads to on the disk.

The directory is on the disk from the start: that `NewJSONStore` may have just
created it without a sync of its parent is outside the model.

### Tinyvmosd

The daemon against the host. `run` goes through its start, waits for a signal,
stops the VMs and cleans up; every call it makes on the host, on the manager or
on nftables is an action, and so is every call of the reconciler. Between two of
them supervisors relaunch, processes die and third parties change the table and
the interfaces.

| Variable | Code |
|---|---|
| `flags` | `-reconcile-interval` is positive; `-keep-network` |
| `table` | the table of nftables, as the policy it was generated from, or what a third party made of it |
| `applied` | `Firewall.applied` |
| `bridges`, `taps` | the interfaces; a tap is attached to its bridge or loose |
| `status`, `up`, `sup` | the records of the manager, the processes and the supervisors |
| `main` | where `run` is; `todo` is what its current loop has left, `created` is `createdTaps` |
| `recon` | where the reconciler is; `seen` is the VMs its copy of the records shows running |
| `signalled` | the context of the daemon is cancelled |
| `tampered`, `escaped`, `mishaps` | history: a third party changed the table since it was applied; VMs that a cancelled supervisor launched or that outlived Stop; failures and outside changes so far |

| Code | Actions |
|---|---|
| `run`, start | `ApplyBase`, `EnsureZone`, `ZonesDone`, then for each VM `EnsureTap`, `Ensure`, `Start`, then `VMsDone` and `ApplyFull` when services are published |
| `run`, end | `Shutdown`, `StopVM`, `VMsStopped` |
| `cleanupNetwork` | `KeepNetwork`, or `Flush`, `RemoveTap`, `TapsDone`, `RemoveZone`, `ZonesRemoved`; also reached from every error after the zones (`CleanUp`) |
| `main` | `Exit`: the goroutines end with the process |
| `Reconciler.Run`, `Pass` | `Tick`, `ReconStops`, `Verify`, `Restore`, `ReconZone`, `ReconList`, `ReconTap`, `PassDone` |
| `supervise`, `restart` | `SupFailed`, `Relaunch`, `Relaunched` |
| outside | `Signal`, `Crash`, `Tamper`, `DeleteBridge`, `DeleteTap` |

Simplifications. The manager is the one of `VMManager` seen from outside: Stop
and a launch by `run` take effect at once, a relaunch has a beginning and an
end, so that Stop can fall in between. The VMs are taken in any order, where the
code follows the command line, and zones too. Apply and the reading that
remembers it are one step; what can go wrong between them is the fault `"read"`.
The host may hold the table, the bridges and the taps of an earlier daemon, and the
file its records, for VMs that are requested now (`Requested`) and others; no process
of it lives. A record taken over has its status reset by `Ensure`; those of other VMs
stay as they are: the reconciler goes through them, StopAll tries to stop those that
say they run, and fails, for the driver does not know them. `cleanupNetwork` removes the
taps that `run` made itself: the tap of another VM stays, and so does its bridge, which
is what `NothingLeft` leaves out.

### Zones and Allocation

An address is a number and a network the interval it covers, so that what
matters stays arithmetic: the first address, the gateway, broadcast, the last
byte, overlaps. `Octet` stands for 256.

| Variable | Code |
|---|---|
| `main` | where `run` is: not there, resolving the zones, addressing VMs |
| `zones` | the zones of this daemon, with the IPv6 prefixes found so far |
| `alloc`, `disk` | `snap.Alloc` in memory, and in the state file |

| Code | Actions |
|---|---|
| `ValidateZones`, `NewAllocation` | `Start`: refused zones start nothing; the prefix is drawn when there is none |
| `ResolveZoneIPv6`, `IndexForZone` | `ResolveZoneIPv6` per zone, `NoIndexLeft` |
| the end of that `WithState`, the second `ValidateZones` | `ZonesResolved`, `ZonesRefused` (saved, then refused), `ZonesUnsaved` |
| `Allocate` in a `WithState` | `Allocate` (a VM without a lease, saved or not), `AllocateAgain`, `Refuse` |
| outside | `Stop` |

Every daemon may be given other zones and other networks than the last. A save
that fails ends the daemon and leaves the old file or the new one. Nothing calls
`Release`, so there is no action for it.

### Ruleset and Traffic

`Ruleset` has no state. A chain accepts or drops; the rules that accept come
before those that drop, so a chain is a disjunction. `FlowRule`,
`PublicationRule`, `HostRule`, `Redirections` and `Masquerades` are the lines
written by the five functions that write chains; `ValidFlow`, `ValidPublication`
and `ValidPolicy` what comes before them.

| Variable of `Traffic` | Stands for |
|---|---|
| `policy` | the policy of the daemon, with the leases and the option `-uplink` |
| `route` | the interface of the default route |
| `table` | what the kernel has of the policy: nothing, the base without publications, or all of it; and the uplink its rules name |
| `packet` | interfaces, addresses, protocol and port of the packet where it is, and whether it was redirected |
| `path` | where it came from, the port it asked for, how far it came, and the tables that filtered and translated it |

| Code | Actions |
|---|---|
| the second `Apply`, and each repair | `Apply` |
| chains `prerouting`, `input`, `forward`, `postrouting` | the actions of these names |
| the kernel and the world | `SentByVM`, `SentFromOutside`, `Route`, `Gone`, `Flushed`, `RouteMoves` |

Between two hooks the table may be replaced, flushed or put back, so that one
packet can be redirected by one table, filtered by another and translated by a
third. The leases of a policy are any that `Allocation` allows: its theorem
`LeasesNeverShared` is an assumption here (`TrafficAssumption`), and nothing else
about them is, because a lease outlives the network it was given in.

A zone may be named `internet` or `host`: `zoneNameRe` accepts both (`zone.go:72`), and
`Flow.Validate` knows them as the two ends that are not zones and as zones alike
(`flow.go:71`). A flow to such a name always becomes a rule for the uplink or the host
(`firewall.go:251`), so that the traffic to a zone of that name is dropped even when it
is declared. The model does the same, and `DroppedIsUndeclared` excepts it; what
passes is declared all the same, by its name.

Left out: packets of established connections and the ICMP messages that are
always accepted, counters and logging, IPv6 (the same rules, without
publications), and traffic that stays on one bridge, which meets no chain: within
a zone nothing is filtered (`flow.go:68`).

## 3. Runs

`Names`, `Callers` and `Sups` are model values. One VM is enough for the races
of one VM: in the manager VMs meet only in the identities, the file and the loop
of StopAll, and `manager_two_vms` has two. Two callers give every pair of concurrent
operations; with the supervisor that is three goroutines on one record. Two
supervisors let an old one, cancelled but not yet gone, meet its successor;
more would only add old ones in the same situation. `Sups` is a bound: a Start
that needs a supervisor waits while all of them exist. `manager_two_vms` has one
supervisor and saves that succeed, to leave room for the second VM; identities
whose save fails are covered by the theorem `IdentitiesNeverShared` alone.

| Run | Bounds | Shows |
|---|---|---|
| `manager_calls` | 1 VM, new or with a record that says running or failed, 2 callers, 2 supervisors, relaunched VM, driver calls that fail | `SupControlled`: a live supervisor is registered, cancelled or about to be; so a VM never has two that nothing stopped. `DiskCurrent`: nobody in a call implies the file is the memory |
| `manager_faults` | 1 VM, new or with a record in any of the six statuses, 1 caller, 1 supervisor, failing saves, preparations, launches and removals, delays 2 to 3, fairness | `CancelledExits`: a cancelled supervisor ends. `TypeOK`, the cap of the delay included |
| `manager_two_vms` | `OrderlySpec`: no call overlaps a launch of its VM; 2 VMs that are relaunched, new or with a record that says running or failed, 2 callers that ensure, start, delete and ask for identities, 1 supervisor at a time, 1 identity, failing launches | `StoppedMeansDown`: stopped, created or absent means no process, in every state; without `LaunchesAlone` the race of `viol_relaunch` breaks it. `IdentitiesDistinct`, in memory and in the file. `DiskCurrent` again, now with `Ensure` |
| `driver_serial` | `OneByOne`: 2 callers whose calls other than Wait come one at a time; 2 instances, 3 processes, failing launches and removals | `TypeOK`; `OneProcess`: one process per VM; `NoProcessLost`: between calls the process that runs is the one the driver can stop; `DoneMeansEnded`: done is closed only once the process has ended; `JailRemovalSafe`: no step takes the jail of a live process; `ImplementsContract`: the refinement of `VMM` |
| `driver_overlap` | 2 callers, 2 instances, 2 processes, processes that outlive Stop | `WokenMayStart`: closed done means no instance refers to the process. `WaitReturns`, `StopReturnsAtLast`: with fairness, both end |
| `store_crashes` | 2 bodies, 3 versions, 2 temporary names, 3 inodes, every fault | `TypeOK`; `ImplementsPromise`: the refinement of `StateFile`; `LaterStateKept` |
| `daemon` | 3 VMs in one zone: one that is relaunched, one that is not, one only an earlier daemon had; any bridge and taps left by it, records that say running; published services; both values of both options; 2 failures or outside changes of every kind but `"read"` | `TypeOK`. `Isolated`: a VM runs behind the table, unless a third party changed it, the start failed or the VM escaped. `NothingLeft`: an ordinary shutdown without the reconciler removes the table, the taps of the VMs requested and the bridges of the zones declared, whoever made them, but for a bridge that the tap of another VM holds. `IsolationRestored`, `BridgesRestored`: what the reconciler can see, it repairs. `RelaunchedAtLast`: a VM with Restart that died runs again, even if its tap or its bridge went with it |
| `allocation` | 3 VMs, 3 zone names, declarations of 1 or 2 zones over 3 networks (one wider than an octet), IPv6 declared or derived, 2 indices | `TypeOK`, the range of the index included. `LeasesDistinct`, `IndicesDistinct`, `LeasesUsable` in memory and in the file; `CurrentAddressesDistinct` in both families; `AddressingKept`: what was saved never changes |
| `traffic` | 2 zones, 3 VMs of which one has a lease of another time, 4 sets of flows, 2 of publications, 2 ports, 2 interfaces that lead out; policies whose second zone is named `internet` or `host` | `TypeOK`. `PassedIsDeclared`, `DroppedIsUndeclared`: the rules let through what was declared and nothing else. `EgressTranslated`: what goes out is translated |

In the daemon, two VMs give one that runs while the other starts, fails, stops
or is relaunched; the third is on no list of this daemon but in its records and on its
bridge. One zone has them all; a zone that is not declared differs only in that nothing
looks at it. Two changes are a failure or a change by a third party, and one more
during its repair, or a VM that dies and the tap it needs deleted. `Mishaps` bounds them
all:
without a bound nothing would ever stay repaired, in the code either.

In the allocation, octets of four addresses leave two VMs per small network, so
that a third meets its end, and a wide network whose fourth address has no
identifier; three names for at most two zones at a time make an index stay taken
by a zone that is no longer declared, and two indices run out. The one IPv6
prefix that can be declared is the one derived from index 1.

In the traffic, one packet is enough because packets do not affect each other.
The third VM has the address of the second, an address of no zone, or the
gateway's: the three ways in which a lease can be stale.

In the driver, processes and instances are used up: three processes give a
process that died, one that is being stopped and its successor. In the store,
two temporary names and three inodes hold the state file, a temporary file left
by a crash and the one being written; a Save that finds none free waits.

Fairness (`FairSpec`): weak. In the manager, for each call under way and each
supervisor: the Go scheduler runs every goroutine, the mutex is never held
across a wait, the driver's calls have time limits, the delay is a timer. In the
driver, for each call under way (never for giving up), each waiter goroutine, and the end of a process
that Stop shuts down, kills or whose context is cancelled. Callers need not call
and no other process need die. In the daemon, for `run`, for the passes of the
reconciler (a ticker) and for each supervisor; nobody has to send a signal.

Deadlock is checked except in the runs of the driver, where everybody may be
idle with every process used up, and in those of the daemon, which ends.

### Disagreements between the code and what it says

| Run | What happens |
|---|---|
| `viol_supervised` | A VM without Restart crashes; its supervisor returns and stays in `Manager.super`; Start runs it again and `superviseLocked` sees the old entry. The VM runs with no supervisor: its next crash is never recorded |
| `viol_relaunch` | The delay of a relaunch ends; Stop runs from end to end; the relaunch goes on and launches the VM that was stopped |
| `viol_isolation` | The first VM runs; the second cannot be prepared; `cleanupNetwork` removes the firewall and `run` returns without stopping the first |

More are visible in the models and have no run.

- Stop sets stopping from statuses the table of transitions does not allow it from.
- A third party that replaces a rule by another, leaving the witness and the
  number of rules, is never noticed, where `docs/developpement_projet.md:170`
  says every change is.
- A bridge that a third party deleted is made again without its taps
  (`reconcile.go:182`): the VMs of its zone have no network, and nothing reports it.
- A zone named `internet` or `host` is accepted, and declared flows to it are dropped.
- The tap that a killed daemon left to a VM nobody asks for any more is never removed,
  and its bridge stays (`main.go:317`).
- Two VMs can have one IPv6 address when their zone is declared again with
  another IPv4 network, and one IPv4 address when the networks of two zones are
  exchanged: leases are compared by zone name and by whole IPv4 address
  (`alloc.go:157`), where `docs/developpement_projet.md:163` says there is one per VM.
  `CurrentAddressesDistinct` says when this cannot happen, `Doubled` in `Traffic`
  what it does to publications.
- A zone wider than a /24 stops at 254 VMs: the smallest free address is then
  `x.y.1.0`, whose identifier 0 is refused, and is met again by every request.
- A publication to a VM whose old address has become a gateway's redirects to
  the host itself.
- Rules name the uplink of the time they were generated. When the default route
  appears or moves later, flows to the internet and publications stop working
  until the daemon is started again: Verify sees no difference.

## 4. Theorems

`VMManager_proofs` proves, for any sets of names, callers and supervisors, any
range of identities and delays and any faults, from the three assumptions on the
constants (`ConstantsAssumption`, `IdentityAssumption`, `BackoffAssumption`):

- `TypeCorrect`: `Spec => []TypeOK`. `TypeOK` contains `Shape`, which says what
  the program counter of a goroutine implies for its other fields; without it
  the type of a VM name is lost at the first step. One lemma per action.
- `EverySupervisorControlled`: `Spec => []SupControlled`, inductive together
  with `TypeOK`. Supervisors never change what they answer to (`SupsKept`),
  Stop's steps move one from `super` to the hand of a caller to its context
  (`StopsKept`), and a start registers only an identifier that nothing names.
- `IdentitiesNeverShared`: `Spec => []IdentitiesDistinct`, inductive: a save
  writes the memory or nothing, an identity is taken among the free ones.
- `StoppedIsDown`: `OrderlySpec => []StoppedMeansDown`. Anything may fail, VMs crash
  and are relaunched beside the calls, and calls about one VM may overlap except in
  a launch. The invariant says that no process is astray and each shows in the status
  of its VM (`UpIsShown`), that who is about to launch, a caller or a supervisor,
  finds a status that admits a process, and that who has stopped a process finds it
  still down (`CallerKnows`, `SupKnows`). `LaunchesAlone` is used exactly there: a
  status under which a VM must be down is only written by a call about that VM, and
  no launch is between its two steps then.
- `DiskIsCurrent`: `Spec => []DiskCurrent` under `SavesSucceed` and without `Ensure`:
  saves do not fail, and nobody calls `WithState`, whose function may return an error
  after it has changed the memory. The invariant (`DiskBehind`) names the points of a
  call where the memory may be ahead of the file.
- `DiskIsCurrentWithEnsure`: `OrderlySpec => []DiskCurrent` under `SavesSucceed` when
  the hypervisor does not fail to prepare a VM that is down. `Ensure` resets a status
  in memory, then has the VM prepared, and returns without a save if that is refused:
  it is not, because the VM was down when `Ensure` began (`EnsuresDown`) and no launch
  came in between (`Prepared`, from `LaunchesAlone` and `StartedByLaunch`).

`Firecracker_proofs`, for any number of overlapping calls, instances and
processes, and any faults, from `DriverAssumption`:

- `TypeCorrect`: `Spec => []TypeOK`; no call waits on a nil channel.
- `WokenMayAlwaysStart`: `Spec => []WokenMayStart`. The inductive invariant adds
  `MachineWatched` (the machine of an instance has a waiter that will clear this
  very instance) and `LaunchedOnce` (a process is published once, by who
  launched it).
- `OneProcessAtMost`, `NoProcessIsLost`, `DoneAlwaysMeansEnded`, `JailRemovalIsSafe`:
  `[]OneProcess`, `[]NoProcessLost`, `[]DoneMeansEnded` and `JailRemovalSafe` when
  calls other than Wait come one at a time (`OneByOne`) and no process outlives Stop
  (`NoStuck`); launches and removals
  may fail, and any number of callers wait. To the invariant above
  they add that one call works at a time (`OneWorker`), that what runs is about to be
  published or is the machine of the VM
  (`UpIsHeld`), that a waiter waits for the machine its instance still holds
  (`WaiterTracks`), that what was cancelled has ended (`EndedForGood`), and what a
  call may rely on since its first section (`CallKnows`). With overlapping calls the
  first two are false, as section 2 says.
- `DriverKeepsContract`: `Spec => ImplementsContract` under `OneByOne` and `NoStuck`, the
  refinement of `VMM`, one lemma per action: each is an action of the contract or
  changes none of its variables. That Start finds nothing running, that Stop leaves
  nothing running and that Delete forgets a VM that is down come from the invariant.

`JSONStore_proofs`, for any number of names and inodes and any faults, from
`StoreAssumption` and `PathAssumption`:

- `TypeCorrect`: `Spec => []TypeOK`.
- `PromiseKept`: `Spec => ImplementsPromise`, the refinement. The inductive
  invariant says that the temporary file has an inode of its own (`Own`), that
  the path only ever leads to a whole state already on the disk (`Whole`), and how
  far the snapshot has come (`Progress`).
- `LaterStateNeverReplaced`: `Spec => LaterStateKept`. While a later state is
  there, no daemon runs. It rests on the refinement: what can be read only ever
  comes from what could be read before or from a save (`Readings`).
- `TemporariesRemoved`: `Spec => []NoTemporaryLeft`, for the configurations
  where only system calls fail. This one is proved and not run.

`Tinyvmosd_proofs`, for any VMs, zones and options, any number of failures and
outside changes of every kind, from `HostAssumption`:

- `TypeCorrect`: `Spec => []TypeOK`.
- `AlwaysIsolated`: `Spec => []Isolated`. Besides the types the inductive
  invariant says that nothing runs before the first policy (`Unstarted`), that the
  table is there from then until the clean-up (`TableHeld`), that what runs is
  watched or has escaped (`Watched`), and that `StopAll` leaves neither a process
  nor a supervisor that may launch one, but for those that escaped (`Released`).
- `NothingLeftBehind`: `Spec => []NothingLeft`. Its invariant follows the clean-up:
  the list of taps is complete when the loop over the VMs ends, none of them is left
  when the bridges go, and a bridge only if it has a member when `run` returns
  (`Leaving`).

`Allocation_proofs`, for any zones, networks, VMs and number of daemons, from
`OctetAssumption`, `AllocationAssumption` and `NoLeaseAssumption`:

- `TypeCorrect`, `LeasesNeverShared`, `IndicesNeverShared`, `AddressingNeverChanges`:
  memory only grows from the file and the file is only replaced by memory.
- `LeasesAlwaysUsable` and `CurrentAddressesNeverShared`. What makes them
  inductive is that in a network wider than an octet the leases stay within its first
  256 addresses: the first address of the next octet is refused and stays the
  smallest free one. So the last bytes of two addresses of one network differ, and the
  IPv6 addresses with them; those of different zones lie in prefixes that
  `ValidateZones` has seen apart.

`Traffic_proofs`, for every policy, any zones, VMs and interfaces, from
`RulesetAssumption` and `TrafficAssumption`:

- `TypeCorrect`, `OnlyDeclaredPasses`, `DeclaredIsNotDropped`, `EgressIsTranslated`. The
  table may be another one at each hook, so the
  inductive invariant says of each hook what it left behind in terms of the policy
  alone: where the packet came in (`Entered`), which publication redirected it
  (`Redirect`), where it was routed (`Routed`), how it was judged (`Judged`) and
  translated (`Masked`). That the base policy and the whole one judge all but
  publications alike (`BaseForward`, `BaseInput`) makes the replacement harmless;
  that a bridge belongs to one zone and an address to one network
  (`OneZonePerBridge`, `OneZonePerAddress`) is what validation is for.

The hypotheses of these theorems (`SavesSucceed`, no `Ensure` or no failed
preparation, `OneByOne`, `NoStuck`) and the specification `OrderlySpec` are the
restrictions of the runs that check the same properties; no constant is otherwise
bounded. Every safety property of a passing run is proved, the two refinements included. Model-checked only: liveness (`CancelledExits`,
`WaitReturns`, `StopReturnsAtLast`, `IsolationRestored`, `BridgesRestored`,
`RelaunchedAtLast`), which is out of the prover's reach, and what the code breaks.

## 5. Not modelled

- The daemon killed and started again over live processes (`manager.go:119`):
  `Tinyvmosd` and `VMManager` begin over its file and its network, without processes; `JSONStore` and `Allocation`
  cover the state file across daemons.
- Interface names, which are cut to 15 characters (`network/manager.go:248`), and the
  syntax of names, ports and addresses.
- The rules of IPv6 and the traffic within a zone.
- The host network below bridges and taps: addresses, routes, MTU, sysctls.

Left out for good: file copies, `/proc`, MAC derivation and kernel arguments
(I/O and formatting), the shell scripts that build images and test hosts, and
the directories that hold no code yet (API, CLI, web, mobile, OS).
