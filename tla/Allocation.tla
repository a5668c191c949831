----------------------------- MODULE Allocation -----------------------------
(***************************************************************************)
(* The addresses of the VMs (controlplane/network/alloc.go, ula.go), as    *)
(* run (cmd/tinyvmosd/main.go) asks for them, over the starts of a daemon  *)
(* that is given other zones and other VMs each time, whose saves fail and *)
(* which stops anywhere.                                                   *)
(*                                                                         *)
(* A lease keeps the networks its CIDRs show: the gateways are their host  *)
(* addresses.  A missing Alloc and its missing prefix are one: a file of   *)
(* an older version with the one and not the other is left out.  Requests  *)
(* come one at a time instead of in a list given at the start.             *)
(***************************************************************************)
EXTENDS Zones, FiniteSets

CONSTANTS
    VMs,           \* the names of VMs
    ZoneNames,     \* the names of zones
    NoLease,       \* a VM without an address
    Declarations,  \* the sets of zones a daemon may be started with
    ULAs,          \* the prefixes that may be drawn for the installation
    ZoneSize,      \* addresses of a derived IPv6 zone: 2^64 in the code
    MaxIndex       \* the last index of a zone: 65535 in the code

ASSUME AllocationAssumption ==
    /\ Declarations \subseteq SUBSET ZonesOf(ZoneNames, ZoneNames)
    /\ ULAs \subseteq Nat \ {0}
    /\ ZoneSize \in Nat /\ ZoneSize >= Octet
    /\ MaxIndex \in Nat
    \* Sizes are powers of two, so that the last byte of a host address is odd.
    /\ \A d \in Declarations : \A z \in d : Host(z.ipv4) % Octet # 0

Leases == [zone : ZoneNames, v4 : Nat, net4 : Prefixes, v6 : Nat, net6 : Prefixes]

ASSUME NoLeaseAssumption == NoLease \notin Leases

\* Allocation: a prefix of 0 has not been drawn, an index of 0 not been given.
Allocations == [ula : ULAs \cup {0}, index : [ZoneNames -> 0..MaxIndex],
                leases : [VMs -> Leases \cup {NoLease}]]

VARIABLES
    main,   \* "down", "resolving" the zones, or "up": addressing VMs
    zones,  \* the zones of this daemon
    alloc,  \* snap.Alloc in its memory
    disk    \* and in the state file

vars == <<main, zones, alloc, disk>>

Init ==
    /\ main = "down"
    /\ zones = {}
    /\ alloc = [ula |-> 0, index |-> [n \in ZoneNames |-> 0],
                leases |-> [v \in VMs |-> NoLease]]
    /\ disk = alloc

\* The process ends, its memory with it.
Gone == main' = "down" /\ zones' = {} /\ alloc' = disk'

\* WithState saves what its function left; a save that fails may still have
\* replaced the file, and ends the daemon.
Saved(a) == alloc' = a /\ disk' = a
SaveFails(a) == disk' \in {disk, a} /\ Gone

-----------------------------------------------------------------------------
(* The zones *)

DrawnPrefixAlways(a) == {[a EXCEPT !.ula = u] : u \in ULAs}  \* faulty variant
Drawn(a) == IF a.ula # 0 THEN {a} ELSE {[a EXCEPT !.ula = u] : u \in ULAs}

\* Zones that ValidateZones refuses end the daemon before it did anything.
Start(declared) ==
    /\ main = "down"
    /\ ValidZones(declared)
    /\ main' = "resolving"
    /\ zones' = declared
    /\ alloc' \in Drawn(disk)
    /\ UNCHANGED disk

UnusedByOthers(a) == 1 .. Cardinality({n \in ZoneNames : a.index[n] # 0}) + 1  \* faulty variant
UnusedIndices(a) == (1..MaxIndex) \ {a.index[n] : n \in ZoneNames}

FirstUnusedIndex(a, n) ==  \* faulty variant
    IF a.index[n] # 0 THEN {a.index[n]}
    ELSE LET free == Nat \ {a.index[m] : m \in ZoneNames}
         IN  {i \in 1 .. MaxIndex + 1 : i \in free /\ \A j \in 1 .. i - 1 : j \notin free}
\* IndexForZone: the index the zone has, or the smallest that no zone has.
Indices(a, n) ==
    IF a.index[n] # 0 THEN {a.index[n]}
    ELSE {i \in UnusedIndices(a) : \A j \in UnusedIndices(a) : i <= j}

ZoneIPv6(ula, i) == [base |-> ula + i * ZoneSize, size |-> ZoneSize]

ResolveZoneIPv6(z) ==
    /\ main = "resolving"
    /\ z.ipv6 = NoPrefix
    /\ \E i \in Indices(alloc, z.name) :
          /\ alloc' = [alloc EXCEPT !.index[z.name] = i]
          /\ zones' = (zones \ {z}) \cup {[z EXCEPT !.ipv6 = ZoneIPv6(alloc.ula, i)]}
    /\ UNCHANGED <<main, disk>>

NoIndexLeft(z) ==
    /\ main = "resolving"
    /\ z.ipv6 = NoPrefix
    /\ Indices(alloc, z.name) = {}
    /\ UNCHANGED disk
    /\ Gone

\* Saved, then validated again: a prefix declared in IPv6 may meet a derived one.
Resolved == main = "resolving" /\ \A z \in zones : z.ipv6 # NoPrefix

ZonesResolved ==
    /\ Resolved
    /\ ValidZones(zones)
    /\ main' = "up"
    /\ Saved(alloc)
    /\ UNCHANGED zones

ZonesRefused ==
    /\ Resolved
    /\ ~ValidZones(zones)
    /\ disk' = alloc
    /\ Gone

ZonesUnsaved == Resolved /\ SaveFails(alloc)

-----------------------------------------------------------------------------
(* The leases *)

\* The addresses in use are those of the leases that name the zone, whatever
\* network they were taken in.
Leased(a, n) == {v \in VMs : a.leases[v] # NoLease /\ a.leases[v].zone = n}
TakenByOthers(a, z) == {Host(z.ipv4)}  \* faulty variant
Taken(a, z) == {Host(z.ipv4)} \cup {a.leases[v].v4 : v \in Leased(a, z.name)}

FreeWithBroadcast(a, z) == Members(z.ipv4) \ ({z.ipv4.base} \cup Taken(a, z))  \* faulty variant
Free(a, z) ==
    Members(z.ipv4) \ ({z.ipv4.base, Broadcast(z.ipv4)} \cup Taken(a, z))

\* nextFreeIPv4: the smallest free address, if there is one.
NextFreeIPv4(a, z) == {x \in Free(a, z) : \A y \in Free(a, z) : x <= y}

\* ipv6WithHostID: the last byte of the IPv4 address in the IPv6 prefix of the
\* zone; 0 is refused.
HostID(x) == x % Octet

LeaseOf(z, x) ==
    [zone |-> z.name, v4 |-> x, net4 |-> z.ipv4,
     v6 |-> z.ipv6.base + HostID(x), net6 |-> z.ipv6]

MayAllocateFresh(v) == TRUE  \* faulty variant: VMs are addressed anew
MayAllocate(v) == alloc.leases[v] = NoLease

AcceptAnyID(x) == TRUE  \* faulty variant
AcceptID(x) == HostID(x) # 0

WithLease(v, z, x) == [alloc EXCEPT !.leases[v] = LeaseOf(z, x)]

\* Allocate for a VM that has no lease, and the save.
Allocate(v, z) ==
    /\ main = "up"
    /\ MayAllocate(v)
    /\ \E x \in NextFreeIPv4(alloc, z) :
          /\ AcceptID(x)
          /\ \/ Saved(WithLease(v, z, x)) /\ UNCHANGED <<main, zones>>
             \/ SaveFails(WithLease(v, z, x))

\* No address is left, or the smallest has no identifier.
Refuse(v, z) ==
    /\ main = "up"
    /\ MayAllocate(v)
    /\ \A x \in NextFreeIPv4(alloc, z) : ~AcceptID(x)
    /\ UNCHANGED disk
    /\ Gone

\* A VM that has a lease keeps it, whatever its zone has become.  The state is
\* saved all the same.
AllocateAgain(v, z) ==
    /\ main = "up"
    /\ alloc.leases[v] # NoLease
    /\ IF alloc.leases[v].zone = z.name
       THEN \/ Saved(alloc) /\ UNCHANGED <<main, zones>>
            \/ SaveFails(alloc)
       ELSE UNCHANGED disk /\ Gone

\* A signal, a crash, or an error elsewhere.
Stop == main # "down" /\ UNCHANGED disk /\ Gone

-----------------------------------------------------------------------------

Next ==
    \/ \E declared \in Declarations : Start(declared)
    \/ \E z \in zones :
          \/ ResolveZoneIPv6(z) \/ NoIndexLeft(z)
          \/ \E v \in VMs : Allocate(v, z) \/ Refuse(v, z) \/ AllocateAgain(v, z)
    \/ ZonesResolved \/ ZonesRefused \/ ZonesUnsaved
    \/ Stop

Spec == Init /\ [][Next]_vars

-----------------------------------------------------------------------------
(* Properties *)

\* The values the variables take.
TypeOK ==
    /\ main \in {"down", "resolving", "up"}
    /\ zones \subseteq ZonesOf(ZoneNames, ZoneNames)
    /\ alloc \in Allocations
    /\ disk \in Allocations

\* Two VMs of one zone never have one IPv4 address, in memory or in the file,
\* over the networks the zone has had (Allocate, alloc.go:157-165).
DistinctIn(a) ==
    \A v, w \in VMs :
        /\ a.leases[v] # NoLease /\ a.leases[w] # NoLease /\ v # w
        /\ a.leases[v].zone = a.leases[w].zone
        => a.leases[v].v4 # a.leases[w].v4

LeasesDistinct == DistinctIn(alloc) /\ DistinctIn(disk)

\* No lease has the address of the network, of the gateway or of broadcast, and
\* both addresses lie in the networks their CIDRs show.  In IPv6 this holds in
\* a zone wider than a /24 because no address after the one without an
\* identifier is ever given (nextFreeIPv4, ipv6WithHostID).
Usable(l) ==
    /\ l.v4 \in Members(l.net4) \ {l.net4.base, Host(l.net4), Broadcast(l.net4)}
    /\ l.v6 \in Members(l.net6) \ {l.net6.base, Host(l.net6)}

LeasesUsable ==
    \A a \in {alloc, disk} : \A v \in VMs :
        a.leases[v] # NoLease => Usable(a.leases[v])

\* Two zones never share an index, so their derived /64 never meet, whatever
\* zones were declared before (IndexForZone).
IndicesApart(a) ==
    \A m, n \in ZoneNames : a.index[m] = a.index[n] => m = n \/ a.index[m] = 0

IndicesDistinct == IndicesApart(alloc) /\ IndicesApart(disk)

\* Among the zones of the daemon that is up, two VMs addressed in the networks
\* their zones have now share no address, in either family: a prefix declared
\* in IPv6 that meets a derived one ends the daemon before it addresses a VM.
Current(v) ==
    \E z \in zones :
        /\ alloc.leases[v] # NoLease
        /\ alloc.leases[v].zone = z.name
        /\ alloc.leases[v].net4 = z.ipv4
        /\ alloc.leases[v].net6 = z.ipv6

CurrentAddressesDistinct ==
    main = "up" => \A v, w \in VMs :
        Current(v) /\ Current(w) /\ v # w =>
            /\ alloc.leases[v].v4 # alloc.leases[w].v4
            /\ alloc.leases[v].v6 # alloc.leases[w].v6

\* What the file says of the installation's prefix, of the index of a zone and
\* of the address of a VM is never changed: not by another declaration of the
\* zones, by a failed save or by another daemon (alloc.go:29-35).
Keeps(a, b) ==
    /\ a.ula # 0 => b.ula = a.ula
    /\ \A n \in ZoneNames : a.index[n] # 0 => b.index[n] = a.index[n]
    /\ \A v \in VMs : a.leases[v] # NoLease => b.leases[v] = a.leases[v]

AddressingKept == [][Keeps(disk, disk')]_vars

=============================================================================
