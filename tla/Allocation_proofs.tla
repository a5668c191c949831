-------------------------- MODULE Allocation_proofs -------------------------
(***************************************************************************)
(* Theorems about Allocation, for any VMs, zones, networks and starts.     *)
(*                                                                         *)
(* The file is only ever replaced by what a daemon read from it and        *)
(* completed: Inv says that memory keeps all the file has, that indices    *)
(* and addresses are distinct in both, and the types.                      *)
(***************************************************************************)
EXTENDS Allocation, TLAPS

Inv ==
    /\ TypeOK
    /\ LeasesDistinct
    /\ IndicesDistinct
    /\ Keeps(disk, alloc)

\* A state of the allocation that may be saved.
Good(a) == a \in Allocations /\ DistinctIn(a) /\ IndicesApart(a)

-----------------------------------------------------------------------------
(* Values *)

LEMMA ConstantTypes ==
    /\ Octet \in Nat /\ Octet > 0 /\ ZoneSize \in Nat /\ MaxIndex \in Nat
    /\ ULAs \subseteq Nat
    /\ \A d \in Declarations : d \subseteq ZonesOf(ZoneNames, ZoneNames)
    /\ NoLease \notin Leases
  BY AllocationAssumption, OctetAssumption, NoLeaseAssumption

LEMMA PrefixIsNat == \A u \in ULAs \cup {0} : u \in Nat
  BY AllocationAssumption

LEMMA ByteIsNat == \A x \in Nat : x % Octet \in Nat
  BY ConstantTypes

\* The prefix a zone derives from its index is a prefix.
LEMMA DerivedIsPrefix ==
    ASSUME NEW ula \in Nat, NEW i \in Nat
    PROVE  ZoneIPv6(ula, i) \in Prefixes
  <1>1. i * ZoneSize \in Nat
    BY ConstantTypes
  <1>2. ula + i * ZoneSize \in Nat
    BY <1>1
  <1>3. QED
    BY <1>2, ConstantTypes DEF ZoneIPv6, Prefixes

\* What Allocate takes is an address of the zone that no lease of the zone has.
LEMMA FreeIsNew ==
    ASSUME NEW a \in Allocations, NEW z \in ZonesOf(ZoneNames, ZoneNames),
           NEW x \in NextFreeIPv4(a, z)
    PROVE  /\ x \in Nat
           /\ \A w \in VMs : a.leases[w] # NoLease /\ a.leases[w].zone = z.name
                                => a.leases[w].v4 # x
  <1>1. x \in Members(z.ipv4) /\ x \notin Taken(a, z)
    BY DEF NextFreeIPv4, Free
  <1>2. z.ipv4 \in Prefixes
    BY DEF ZonesOf
  <1>3. x \in Nat
    BY <1>1, <1>2 DEF Members, Prefixes
  <1>4. QED
    BY <1>1, <1>3 DEF Taken, Leased

LEMMA LeaseType ==
    ASSUME NEW z \in ZonesOf(ZoneNames, ZoneNames), NEW x \in Nat
    PROVE  LeaseOf(z, x) \in Leases
  <1>1. /\ z.ipv4 \in Prefixes /\ z.ipv6 \in Prefixes /\ z.name \in ZoneNames
    BY DEF ZonesOf
  <1>2. z.ipv6.base + HostID(x) \in Nat
    BY <1>1, ByteIsNat DEF HostID, Prefixes
  <1>3. QED
    BY <1>1, <1>2 DEF LeaseOf, Leases

\* A lease given to a VM that has none keeps everything else.
LEMMA WithLeaseGood ==
    ASSUME Good(alloc), NEW v \in VMs, NEW z \in ZonesOf(ZoneNames, ZoneNames),
           MayAllocate(v), NEW x \in NextFreeIPv4(alloc, z)
    PROVE  Good(WithLease(v, z, x)) /\ Keeps(alloc, WithLease(v, z, x))
  <1> DEFINE a == WithLease(v, z, x)
             l == LeaseOf(z, x)
  <1>1. alloc \in Allocations
    BY DEF Good
  <1>2. /\ x \in Nat
        /\ \A w \in VMs : alloc.leases[w] # NoLease /\ alloc.leases[w].zone = z.name
                             => alloc.leases[w].v4 # x
    BY <1>1, FreeIsNew
  <1>3. l \in Leases /\ l.zone = z.name /\ l.v4 = x
    BY <1>2, LeaseType DEF LeaseOf
  <1>4. /\ a.ula = alloc.ula /\ a.index = alloc.index
        /\ a.leases = [alloc.leases EXCEPT ![v] = l]
    BY <1>1 DEF WithLease, Allocations
  <1>5. alloc.leases \in [VMs -> Leases \cup {NoLease}]
    BY <1>1 DEF Allocations
  <1>6. a \in Allocations
    BY <1>1, <1>3, <1>5 DEF WithLease, Allocations
  <1>7. /\ a.leases[v] = l
        /\ \A w \in VMs \ {v} : a.leases[w] = alloc.leases[w]
    BY <1>4, <1>5
  <1>8. DistinctIn(a)
    BY <1>2, <1>3, <1>7 DEF Good, DistinctIn
  <1>9. IndicesApart(a)
    BY <1>4 DEF Good, IndicesApart
  <1>10. Keeps(alloc, a)
    BY <1>4, <1>7 DEF Keeps, MayAllocate
  <1>11. QED
    BY <1>6, <1>8, <1>9, <1>10 DEF Good

\* An index given to a zone is its own.
LEMMA IndexGood ==
    ASSUME Good(alloc), NEW n \in ZoneNames, NEW i \in Indices(alloc, n)
    PROVE  LET a == [alloc EXCEPT !.index[n] = i]
           IN  Good(a) /\ Keeps(alloc, a) /\ i \in Nat
  <1> DEFINE a == [alloc EXCEPT !.index[n] = i]
  <1>1. alloc \in Allocations /\ alloc.index \in [ZoneNames -> 0..MaxIndex]
    BY DEF Good, Allocations
  <1>2. \/ alloc.index[n] # 0 /\ i = alloc.index[n]
        \/ /\ alloc.index[n] = 0
           /\ i \in 1..MaxIndex
           /\ \A m \in ZoneNames : alloc.index[m] # i
    BY DEF Indices, UnusedIndices
  <1>3. i \in 0..MaxIndex
    BY <1>1, <1>2, ConstantTypes
  <1>4. /\ a.ula = alloc.ula /\ a.leases = alloc.leases
        /\ a.index = [alloc.index EXCEPT ![n] = i]
    BY <1>1 DEF Allocations
  <1>5. a \in Allocations
    BY <1>1, <1>3 DEF Allocations
  <1>6. /\ a.index[n] = i
        /\ \A m \in ZoneNames \ {n} : a.index[m] = alloc.index[m]
    BY <1>1, <1>4
  <1>7. IndicesApart(a)
    BY <1>2, <1>6 DEF Good, IndicesApart
  <1>8. DistinctIn(a)
    BY <1>4 DEF Good, DistinctIn
  <1>9. Keeps(alloc, a)
    BY <1>2, <1>4, <1>6 DEF Keeps
  <1>10. i \in Nat
    BY <1>3, ConstantTypes
  <1>11. QED
    BY <1>5, <1>7, <1>8, <1>9, <1>10 DEF Good

\* Drawing the prefix, at most once.
LEMMA DrawnGood ==
    ASSUME Good(disk), NEW a \in Drawn(disk)
    PROVE  Good(a) /\ Keeps(disk, a)
  <1>1. disk \in Allocations
    BY DEF Good
  <1>2. CASE disk.ula # 0
    BY <1>2 DEF Drawn, Keeps
  <1>3. CASE disk.ula = 0
    <2>1. PICK u \in ULAs : a = [disk EXCEPT !.ula = u]
      BY <1>3 DEF Drawn
    <2>2. a.index = disk.index /\ a.leases = disk.leases
      BY <1>1, <2>1 DEF Allocations
    <2>3. a \in Allocations
      BY <1>1, <2>1 DEF Allocations
    <2>4. QED
      BY <1>3, <2>2, <2>3 DEF Good, DistinctIn, IndicesApart, Keeps
  <1>4. QED
    BY <1>2, <1>3

LEMMA KeepsTransitive ==
    ASSUME NEW a \in Allocations, NEW b \in Allocations, NEW c \in Allocations,
           Keeps(a, b), Keeps(b, c)
    PROVE  Keeps(a, c)
  BY DEF Keeps

LEMMA KeepsItself == \A a : Keeps(a, a)
  BY DEF Keeps

-----------------------------------------------------------------------------
(* The invariant *)

LEMMA InvParts ==
    Inv <=> /\ main \in {"down", "resolving", "up"}
            /\ zones \subseteq ZonesOf(ZoneNames, ZoneNames)
            /\ Good(alloc) /\ Good(disk) /\ Keeps(disk, alloc)
  BY DEF Inv, TypeOK, Good, LeasesDistinct, IndicesDistinct

\* The end of a process, whose file is the old one or a good one that keeps it.
LEMMA GoneKeepsInv ==
    ASSUME Inv, Gone, NEW a, Good(a), Keeps(disk, a), disk' \in {disk, a}
    PROVE  Inv' /\ Keeps(disk, disk')
  <1>1. Good(disk)' /\ Keeps(disk, disk')
    BY InvParts, KeepsItself DEF Good, DistinctIn, IndicesApart
  <1>2. Good(alloc)' /\ Keeps(disk, alloc)' /\ alloc' = disk'
    BY <1>1, KeepsItself DEF Gone, Good, DistinctIn, IndicesApart
  <1>3. main' = "down" /\ zones' = {}
    BY DEF Gone
  <1>4. QED
    BY <1>1, <1>2, <1>3, InvParts DEF Inv, TypeOK, Good, LeasesDistinct, IndicesDistinct

\* A save that succeeded.
LEMMA SavedKeepsInv ==
    ASSUME Inv, NEW a, Good(a), Keeps(disk, a), Saved(a), UNCHANGED <<main, zones>>
    PROVE  Inv' /\ Keeps(disk, disk')
  <1>1. alloc' = a /\ disk' = a
    BY DEF Saved
  <1>2. Keeps(alloc', disk') /\ Keeps(disk', alloc')
    BY <1>1, KeepsItself
  <1>3. QED
    BY <1>1, <1>2 DEF Inv, TypeOK, Good, LeasesDistinct, IndicesDistinct

LEMMA InitInv == Init => Inv
  <1> SUFFICES ASSUME Init PROVE Inv
    OBVIOUS
  <1>1. alloc \in Allocations
    BY ConstantTypes DEF Init, Allocations
  <1>2. QED
    BY <1>1, KeepsItself DEF Init, Inv, TypeOK, LeasesDistinct, IndicesDistinct,
       DistinctIn, IndicesApart

\* Every step keeps the invariant and what the file says.
LEMMA NextInv == Inv /\ [Next]_vars => Inv' /\ Keeps(disk, disk')
  <1> SUFFICES ASSUME Inv, [Next]_vars PROVE Inv' /\ Keeps(disk, disk')
    OBVIOUS
  <1>0. /\ Good(alloc) /\ Good(disk) /\ Keeps(disk, alloc)
        /\ alloc \in Allocations /\ disk \in Allocations
        /\ zones \subseteq ZonesOf(ZoneNames, ZoneNames)
    BY InvParts DEF Good
  <1>1. ASSUME NEW d \in Declarations, Start(d) PROVE Inv' /\ Keeps(disk, disk')
    <2>1. alloc' \in Drawn(disk) /\ disk' = disk /\ zones' = d /\ main' = "resolving"
      BY <1>1 DEF Start
    <2>2. Good(alloc') /\ Keeps(disk, alloc')
      BY <1>0, <2>1, DrawnGood
    <2>3. zones' \subseteq ZonesOf(ZoneNames, ZoneNames)
      BY <2>1, ConstantTypes
    <2>4. Keeps(disk, disk') /\ Keeps(disk', alloc')
      BY <2>1, <2>2, KeepsItself
    <2>5. QED
      BY <1>0, <2>1, <2>2, <2>3, <2>4 DEF Inv, TypeOK, Good, LeasesDistinct, IndicesDistinct
  <1>2. ASSUME NEW z \in zones, ResolveZoneIPv6(z) PROVE Inv' /\ Keeps(disk, disk')
    <2>1. z \in ZonesOf(ZoneNames, ZoneNames) /\ z.name \in ZoneNames
      BY <1>0 DEF ZonesOf
    <2>2. PICK i \in Indices(alloc, z.name) :
             /\ alloc' = [alloc EXCEPT !.index[z.name] = i]
             /\ zones' = (zones \ {z}) \cup {[z EXCEPT !.ipv6 = ZoneIPv6(alloc.ula, i)]}
      BY <1>2 DEF ResolveZoneIPv6
    <2>3. Good(alloc') /\ Keeps(alloc, alloc') /\ i \in Nat
      BY <1>0, <2>1, <2>2, IndexGood
    <2>4. alloc.ula \in Nat
      <3>1. alloc.ula \in ULAs \cup {0}
        BY <1>0 DEF Allocations
      <3>2. QED
        BY <3>1, PrefixIsNat
    <2>5. ZoneIPv6(alloc.ula, i) \in Prefixes
      BY <2>3, <2>4, DerivedIsPrefix
    <2>6. [z EXCEPT !.ipv6 = ZoneIPv6(alloc.ula, i)] \in ZonesOf(ZoneNames, ZoneNames)
      BY <2>1, <2>5 DEF ZonesOf
    <2>7. zones' \subseteq ZonesOf(ZoneNames, ZoneNames)
      BY <1>0, <2>2, <2>6
    <2>8. disk' = disk /\ main' = main
      BY <1>2 DEF ResolveZoneIPv6
    <2>9. alloc' \in Allocations
      BY <2>3 DEF Good
    <2>10. Keeps(disk, alloc')
      BY <1>0, <2>3, <2>9, KeepsTransitive
    <2>11. QED
      BY <1>0, <2>3, <2>7, <2>8, <2>10, KeepsItself
         DEF Inv, TypeOK, Good, LeasesDistinct, IndicesDistinct
  <1>3. ASSUME NEW z \in zones, NoIndexLeft(z) PROVE Inv' /\ Keeps(disk, disk')
    BY <1>0, <1>3, GoneKeepsInv, KeepsItself DEF NoIndexLeft
  <1>4. CASE ZonesResolved
    <2>1. alloc' = alloc /\ disk' = alloc /\ zones' = zones /\ main' = "up"
      BY <1>4 DEF ZonesResolved, Saved
    <2>2. Keeps(disk', alloc')
      BY <2>1, KeepsItself
    <2>3. QED
      BY <1>0, <2>1, <2>2 DEF Inv, TypeOK, Good, LeasesDistinct, IndicesDistinct
  <1>5. CASE ZonesRefused
    BY <1>0, <1>5, GoneKeepsInv DEF ZonesRefused
  <1>6. CASE ZonesUnsaved
    BY <1>0, <1>6, GoneKeepsInv DEF ZonesUnsaved, SaveFails
  <1>7. ASSUME NEW z \in zones, NEW v \in VMs, Allocate(v, z)
        PROVE  Inv' /\ Keeps(disk, disk')
    <2>1. PICK x \in NextFreeIPv4(alloc, z) :
             \/ Saved(WithLease(v, z, x)) /\ UNCHANGED <<main, zones>>
             \/ SaveFails(WithLease(v, z, x))
      BY <1>7 DEF Allocate
    <2> DEFINE a == WithLease(v, z, x)
    <2>2. z \in ZonesOf(ZoneNames, ZoneNames) /\ MayAllocate(v)
      BY <1>0, <1>7 DEF Allocate
    <2>3. Good(a) /\ Keeps(alloc, a)
      BY <1>0, <2>2, WithLeaseGood
    <2>4. a \in Allocations
      BY <2>3 DEF Good
    <2>5. Keeps(disk, a)
      BY <1>0, <2>3, <2>4, KeepsTransitive
    <2>6. CASE Saved(a) /\ UNCHANGED <<main, zones>>
      BY <2>3, <2>5, <2>6, SavedKeepsInv
    <2>7. CASE SaveFails(a)
      BY <2>3, <2>5, <2>7, GoneKeepsInv DEF SaveFails
    <2>8. QED
      BY <2>1, <2>6, <2>7
  <1>8. ASSUME NEW z \in zones, NEW v \in VMs, Refuse(v, z)
        PROVE  Inv' /\ Keeps(disk, disk')
    BY <1>0, <1>8, GoneKeepsInv, KeepsItself DEF Refuse
  <1>9. ASSUME NEW z \in zones, NEW v \in VMs, AllocateAgain(v, z)
        PROVE  Inv' /\ Keeps(disk, disk')
    <2>1. CASE Saved(alloc) /\ UNCHANGED <<main, zones>>
      BY <1>0, <2>1, SavedKeepsInv
    <2>2. CASE SaveFails(alloc)
      BY <1>0, <2>2, GoneKeepsInv DEF SaveFails
    <2>3. CASE UNCHANGED disk /\ Gone
      BY <1>0, <2>3, GoneKeepsInv, KeepsItself
    <2>4. QED
      BY <1>9, <2>1, <2>2, <2>3 DEF AllocateAgain
  <1>10. CASE Stop
    BY <1>0, <1>10, GoneKeepsInv, KeepsItself DEF Stop
  <1>11. CASE UNCHANGED vars
    BY <1>0, <1>11, KeepsItself
       DEF vars, Inv, TypeOK, LeasesDistinct, IndicesDistinct, DistinctIn, IndicesApart
  <1>12. QED
    BY <1>1, <1>2, <1>3, <1>4, <1>5, <1>6, <1>7, <1>8, <1>9, <1>10, <1>11 DEF Next

LEMMA SpecInv == Spec => []Inv
  BY InitInv, NextInv, PTL DEF Spec

-----------------------------------------------------------------------------
(* The last byte of an address *)

LEMMA Division ==
    ASSUME NEW x \in Nat
    PROVE  /\ x = Octet * (x \div Octet) + (x % Octet)
           /\ x % Octet \in 0..Octet-1
           /\ x \div Octet \in Int
  <1> USE ConstantTypes
  <1>1. x = Octet * (x \div Octet) + (x % Octet)
    BY SMTT(30)
  <1>2. x % Octet \in 0..Octet-1
    OBVIOUS
  <1>3. x \div Octet \in Int
    OBVIOUS
  <1>4. QED
    BY <1>1, <1>2, <1>3

LEMMA Remainder ==
    ASSUME NEW q \in Int, NEW r \in 0..Octet-1
    PROVE  Octet * q \in Int /\ (Octet * q + r) % Octet = r
  BY ConstantTypes

\* The address before one that ends in 1 ends in 0.
LEMMA BeforeOne ==
    ASSUME NEW x \in Nat, x % Octet = 1
    PROVE  (x - 1) % Octet = 0
  <1>1. x = Octet * (x \div Octet) + 1 /\ x \div Octet \in Int
    BY Division
  <1>2. Octet * (x \div Octet) \in Int
    BY <1>1, ConstantTypes
  <1>3. x - 1 = Octet * (x \div Octet) + 0
    BY <1>1, <1>2
  <1>4. QED
    BY <1>1, <1>3, Remainder, ConstantTypes

\* Last bytes grow as long as none is 0.
LEMMA BytesGrow ==
    ASSUME NEW a \in Nat, NEW b \in Nat, a < b,
           \A y \in (a + 1)..b : y % Octet # 0
    PROVE  a % Octet < b % Octet
  <1>1. PICK q \in Int, r \in 0..Octet-1 : b = Octet * q + r /\ r = b % Octet
    BY Division
  <1>2. Octet * q \in Int /\ (Octet * q) % Octet = 0
    <2>1. Octet * q \in Int /\ (Octet * q + 0) % Octet = 0
      BY <1>1, Remainder, ConstantTypes
    <2>2. QED
      BY <2>1
  <1>3. Octet * q <= a
    BY <1>1, <1>2, ConstantTypes
  <1>4. PICK s \in 0..Octet-1 : a = Octet * q + s /\ s < r
    <2>1. a - Octet * q \in 0..Octet-1 /\ a - Octet * q < r
      BY <1>1, <1>2, <1>3, ConstantTypes
    <2>2. a = Octet * q + (a - Octet * q)
      BY <1>2
    <2>3. QED
      BY <2>1, <2>2
  <1>5. a % Octet = s
    BY <1>4, Remainder
  <1>6. QED
    BY <1>1, <1>4, <1>5

-----------------------------------------------------------------------------
(* The addresses inside their networks *)

\* What is known of a lease: it lies in its network above the host's address,
\* nothing up to it ends in 0, and its IPv6 address follows from it.
Shaped(l) ==
    /\ l.v4 \in Members(l.net4) /\ l.v4 > Host(l.net4) /\ l.v4 # Broadcast(l.net4)
    /\ \A y \in (l.net4.base + 1)..l.v4 : y % Octet # 0
    /\ l.v6 = l.net6.base + (l.v4 % Octet)
    /\ l.net6.size >= Octet

AllShaped(a) == \A v \in VMs : a.leases[v] # NoLease => Shaped(a.leases[v])

HostsOdd == \A z \in zones : Host(z.ipv4) % Octet # 0

Placed ==
    /\ AllShaped(alloc) /\ AllShaped(disk)
    /\ HostsOdd
    /\ main = "up" => ValidZones(zones) /\ \A z \in zones : z.ipv6 # NoPrefix

LEMMA ShapedIsUsable ==
    ASSUME NEW l \in Leases, Shaped(l)
    PROVE  Usable(l)
  <1>1. /\ l.v4 \in Nat /\ l.v6 \in Nat /\ l.net4 \in Prefixes /\ l.net6 \in Prefixes
    BY DEF Leases
  <1>2. /\ l.net4.base \in Nat /\ l.net4.size \in Nat
        /\ l.net6.base \in Nat /\ l.net6.size \in Nat
    BY <1>1 DEF Prefixes
  <1>3. l.v4 > l.net4.base + 1
    BY DEF Shaped, Host
  <1>4. l.v4 % Octet \in 0..Octet-1 /\ l.v4 % Octet # 0
    BY <1>1, <1>2, <1>3, Division DEF Shaped
  <1>5. l.v4 % Octet # 1
    <2> SUFFICES ASSUME l.v4 % Octet = 1 PROVE FALSE
      OBVIOUS
    <2>1. (l.v4 - 1) % Octet = 0
      BY <1>1, BeforeOne
    <2>2. l.v4 - 1 \in (l.net4.base + 1)..l.v4
      BY <1>1, <1>2, <1>3
    <2>3. QED
      BY <2>1, <2>2 DEF Shaped
  <1>6. l.v6 \in Members(l.net6) \ {l.net6.base, Host(l.net6)}
    BY <1>1, <1>2, <1>4, <1>5, ConstantTypes DEF Shaped, Members, Host
  <1>7. l.v4 \in Members(l.net4) \ {l.net4.base, Host(l.net4), Broadcast(l.net4)}
    BY <1>1, <1>2, <1>3 DEF Shaped, Members, Host
  <1>8. QED
    BY <1>6, <1>7 DEF Usable

\* Two addresses of one network do not have the same last byte.
LEMMA SameNetworkBytes ==
    ASSUME NEW k \in Leases, NEW l \in Leases, Shaped(k), Shaped(l),
           k.net4 = l.net4, k.v4 # l.v4
    PROVE  k.v4 % Octet # l.v4 % Octet
  <1>1. /\ k.v4 \in Nat /\ l.v4 \in Nat /\ k.net4.base \in Nat
        /\ k.v4 > k.net4.base /\ l.v4 > k.net4.base
    BY DEF Leases, Prefixes, Shaped, Host
  <1>2. k.v4 % Octet \in Nat /\ l.v4 % Octet \in Nat
    BY <1>1, ByteIsNat
  <1>3. CASE k.v4 < l.v4
    <2>1. \A y \in (k.v4 + 1)..l.v4 : y % Octet # 0
      BY <1>1 DEF Shaped
    <2>2. QED
      BY <1>1, <1>2, <1>3, <2>1, BytesGrow
  <1>4. CASE l.v4 < k.v4
    <2>1. \A y \in (l.v4 + 1)..k.v4 : y % Octet # 0
      BY <1>1 DEF Shaped
    <2>2. QED
      BY <1>1, <1>2, <1>4, <2>1, BytesGrow
  <1>5. QED
    BY <1>1, <1>3, <1>4

\* The smallest free address has an identifier only while nothing below it ends
\* in 0: such an address would be free itself.
LEMMA NewLeaseShaped ==
    ASSUME alloc \in Allocations, AllShaped(alloc),
           NEW z \in ZonesOf(ZoneNames, ZoneNames), ValidZone(z),
           z.ipv6 # NoPrefix, Host(z.ipv4) % Octet # 0,
           NEW x \in NextFreeIPv4(alloc, z), AcceptID(x)
    PROVE  Shaped(LeaseOf(z, x))
  <1> DEFINE p == z.ipv4
  <1>1. p.base \in Nat /\ p.size \in Nat
    BY DEF ZonesOf, Prefixes
  <1>2. /\ x \in Free(alloc, z)
        /\ \A y \in Free(alloc, z) : x <= y
    BY DEF NextFreeIPv4
  <1>3. x \in Members(p) /\ x # p.base /\ x # Host(p) /\ x # Broadcast(p)
    BY <1>2 DEF Free, Taken
  <1>4. x \in Nat /\ x > p.base + 1 /\ x <= p.base + p.size - 1
    BY <1>1, <1>3 DEF Members, Host
  <1>5. ASSUME NEW y \in (p.base + 1)..x, y % Octet = 0
        PROVE  FALSE
    <2>1. y \in Nat /\ y # x /\ y < x
      BY <1>1, <1>4, <1>5 DEF AcceptID, HostID
    <2>2. y \in Members(p) /\ y # p.base /\ y # Broadcast(p)
      BY <1>1, <1>4, <2>1 DEF Members, Broadcast
    <2>3. y # Host(p)
      BY <1>5
    <2>4. ASSUME NEW w \in Leased(alloc, z.name) PROVE alloc.leases[w].v4 # y
      <3>1. w \in VMs /\ alloc.leases[w] # NoLease
        BY DEF Leased
      <3>2. alloc.leases[w] \in Leases /\ Shaped(alloc.leases[w])
        BY <3>1 DEF AllShaped, Allocations
      <3>3. alloc.leases[w].v4 % Octet # 0
        BY <3>2 DEF Shaped, Leases, Members, Host, Prefixes
      <3>4. QED
        BY <1>5, <3>3
    <2>5. y \notin Taken(alloc, z)
      BY <2>3, <2>4 DEF Taken
    <2>6. y \in Free(alloc, z)
      BY <2>2, <2>5 DEF Free
    <2>7. QED
      BY <1>2, <1>4, <2>1, <2>6
  <1>6. z.ipv6.size >= Octet
    BY DEF ValidZone
  <1>7. QED
    BY <1>1, <1>3, <1>4, <1>5, <1>6 DEF Shaped, LeaseOf, HostID, Host

LEMMA InitPlaced == Init => Placed
  BY DEF Init, Placed, AllShaped, HostsOdd

LEMMA GonePlaced ==
    ASSUME Placed, Gone, NEW a, AllShaped(a), disk' \in {disk, a}
    PROVE  Placed'
  BY DEF Placed, Gone, AllShaped, HostsOdd

LEMMA NextPlaced == Inv /\ Placed /\ [Next]_vars => Placed'
  <1> SUFFICES ASSUME Inv, Placed, [Next]_vars PROVE Placed'
    OBVIOUS
  <1>0. /\ AllShaped(alloc) /\ AllShaped(disk) /\ HostsOdd
        /\ alloc \in Allocations /\ disk \in Allocations
        /\ zones \subseteq ZonesOf(ZoneNames, ZoneNames)
    BY DEF Placed, Inv, TypeOK
  <1>1. ASSUME NEW d \in Declarations, Start(d) PROVE Placed'
    <2>1. alloc' \in Drawn(disk) /\ disk' = disk /\ zones' = d /\ main' = "resolving"
      BY <1>1 DEF Start
    <2>2. alloc'.leases = disk.leases
      BY <1>0, <2>1 DEF Drawn, Allocations
    <2>3. \A z \in d : Host(z.ipv4) % Octet # 0
      BY AllocationAssumption
    <2>4. QED
      BY <1>0, <2>1, <2>2, <2>3 DEF Placed, AllShaped, HostsOdd
  <1>2. ASSUME NEW z \in zones, ResolveZoneIPv6(z) PROVE Placed'
    <2>1. PICK i \in Indices(alloc, z.name) :
             /\ alloc' = [alloc EXCEPT !.index[z.name] = i]
             /\ zones' = (zones \ {z}) \cup {[z EXCEPT !.ipv6 = ZoneIPv6(alloc.ula, i)]}
      BY <1>2 DEF ResolveZoneIPv6
    <2>2. alloc'.leases = alloc.leases
      BY <1>0, <2>1 DEF Allocations
    <2>3. disk' = disk /\ main' = "resolving"
      BY <1>2 DEF ResolveZoneIPv6
    <2>4. z \in ZonesOf(ZoneNames, ZoneNames)
      BY <1>0
    <2>5. [z EXCEPT !.ipv6 = ZoneIPv6(alloc.ula, i)].ipv4 = z.ipv4
      BY <2>4 DEF ZonesOf
    <2>6. HostsOdd'
      BY <1>0, <2>1, <2>5 DEF HostsOdd
    <2>7. QED
      BY <1>0, <2>2, <2>3, <2>6 DEF Placed, AllShaped
  <1>3. ASSUME NEW z \in zones, NoIndexLeft(z) PROVE Placed'
    BY <1>0, <1>3, GonePlaced DEF NoIndexLeft
  <1>4. CASE ZonesResolved
    BY <1>0, <1>4 DEF ZonesResolved, Resolved, Saved, Placed, AllShaped, HostsOdd
  <1>5. CASE ZonesRefused
    BY <1>0, <1>5, GonePlaced DEF ZonesRefused
  <1>6. CASE ZonesUnsaved
    BY <1>0, <1>6, GonePlaced DEF ZonesUnsaved, SaveFails
  <1>7. ASSUME NEW z \in zones, NEW v \in VMs, Allocate(v, z) PROVE Placed'
    <2>1. PICK x \in NextFreeIPv4(alloc, z) :
             /\ AcceptID(x)
             /\ \/ Saved(WithLease(v, z, x)) /\ UNCHANGED <<main, zones>>
                \/ SaveFails(WithLease(v, z, x))
      BY <1>7 DEF Allocate
    <2>2. /\ z \in ZonesOf(ZoneNames, ZoneNames) /\ ValidZone(z)
          /\ Host(z.ipv4) % Octet # 0
      BY <1>0, <1>7 DEF Allocate, Placed, ValidZones, HostsOdd
    <2>3. z.ipv6 # NoPrefix
      BY <1>7 DEF Allocate, Placed
    <2>4. Shaped(LeaseOf(z, x))
      BY <1>0, <2>1, <2>2, <2>3, NewLeaseShaped
    <2>5. AllShaped(WithLease(v, z, x))
      BY <1>0, <2>4 DEF AllShaped, WithLease, Allocations
    <2>6. CASE Saved(WithLease(v, z, x)) /\ UNCHANGED <<main, zones>>
      BY <1>0, <2>5, <2>6 DEF Saved, Placed, AllShaped, HostsOdd
    <2>7. CASE SaveFails(WithLease(v, z, x))
      BY <2>5, <2>7, GonePlaced DEF SaveFails
    <2>8. QED
      BY <2>1, <2>6, <2>7
  <1>8. ASSUME NEW z \in zones, NEW v \in VMs, Refuse(v, z) PROVE Placed'
    BY <1>0, <1>8, GonePlaced DEF Refuse
  <1>9. ASSUME NEW z \in zones, NEW v \in VMs, AllocateAgain(v, z) PROVE Placed'
    <2>1. CASE Saved(alloc) /\ UNCHANGED <<main, zones>>
      BY <1>0, <2>1 DEF Saved, Placed, AllShaped, HostsOdd
    <2>2. CASE SaveFails(alloc)
      BY <1>0, <2>2, GonePlaced DEF SaveFails
    <2>3. CASE UNCHANGED disk /\ Gone
      BY <1>0, <2>3, GonePlaced
    <2>4. QED
      BY <1>9, <2>1, <2>2, <2>3 DEF AllocateAgain
  <1>10. CASE Stop
    BY <1>0, <1>10, GonePlaced DEF Stop
  <1>11. CASE UNCHANGED vars
    BY <1>0, <1>11 DEF vars, Placed, AllShaped, HostsOdd
  <1>12. QED
    BY <1>1, <1>2, <1>3, <1>4, <1>5, <1>6, <1>7, <1>8, <1>9, <1>10, <1>11 DEF Next

LEMMA SpecPlaced == Spec => []Placed
  BY InitPlaced, NextPlaced, SpecInv, PTL DEF Spec

-----------------------------------------------------------------------------
(* Theorems *)

\* The variables keep their types through every start, request and failure of a
\* save (alloc.go, main.go:243-347).
THEOREM TypeCorrect == Spec => []TypeOK
  BY SpecInv, PTL DEF Inv

\* Allocate never gives one IPv4 address to two VMs of a zone, whatever networks
\* the zone had and whatever saves failed (alloc.go:157-170).
THEOREM LeasesNeverShared == Spec => []LeasesDistinct
  BY SpecInv, PTL DEF Inv

\* IndexForZone never gives one index to two zones (alloc.go:88-109).
THEOREM IndicesNeverShared == Spec => []IndicesDistinct
  BY SpecInv, PTL DEF Inv

\* A prefix, an index or an address that reached the file stays what it is
\* (alloc.go:27-35).
THEOREM AddressingNeverChanges == Spec => AddressingKept
  <1>1. Inv /\ [Next]_vars => [Keeps(disk, disk')]_vars
    BY NextInv
  <1>2. QED
    BY SpecInv, <1>1, PTL DEF Spec, AddressingKept

\* No VM is given the address of a network, of a gateway or of broadcast, in
\* either family, nor one outside the networks of its lease (alloc.go:236-272).
THEOREM LeasesAlwaysUsable == Spec => []LeasesUsable
  <1>1. Inv /\ Placed => LeasesUsable
    <2> SUFFICES ASSUME Inv, Placed, NEW a \in {alloc, disk}, NEW v \in VMs,
                        a.leases[v] # NoLease
                 PROVE  Usable(a.leases[v])
      BY DEF LeasesUsable
    <2>1. a \in Allocations /\ AllShaped(a)
      BY DEF Inv, TypeOK, Placed
    <2>2. a.leases[v] \in Leases /\ Shaped(a.leases[v])
      BY <2>1 DEF Allocations, AllShaped
    <2>3. QED
      BY <2>2, ShapedIsUsable
  <1>2. QED
    BY <1>1, SpecInv, SpecPlaced, PTL

\* While a daemon is up, the VMs addressed in the networks it was given share no
\* address (ValidateZones called twice, main.go:200 and 265; Allocate).
THEOREM CurrentAddressesNeverShared == Spec => []CurrentAddressesDistinct
  <1>1. Inv /\ Placed => CurrentAddressesDistinct
    <2> SUFFICES ASSUME Inv, Placed, main = "up", NEW v \in VMs, NEW w \in VMs,
                        Current(v), Current(w), v # w
                 PROVE  /\ alloc.leases[v].v4 # alloc.leases[w].v4
                        /\ alloc.leases[v].v6 # alloc.leases[w].v6
      BY DEF CurrentAddressesDistinct
    <2> DEFINE k == alloc.leases[v]
               l == alloc.leases[w]
    <2>1. PICK y \in zones : k # NoLease /\ k.zone = y.name /\ k.net4 = y.ipv4 /\ k.net6 = y.ipv6
      BY DEF Current
    <2>2. PICK z \in zones : l # NoLease /\ l.zone = z.name /\ l.net4 = z.ipv4 /\ l.net6 = z.ipv6
      BY DEF Current
    <2>3. k \in Leases /\ l \in Leases /\ Shaped(k) /\ Shaped(l)
      BY <2>1, <2>2 DEF Inv, TypeOK, Placed, AllShaped, Allocations
    <2>4. Usable(k) /\ Usable(l)
      BY <2>3, ShapedIsUsable
    <2> HIDE DEF k, l
    <2>5. /\ k.v4 \in Nat /\ l.v4 \in Nat /\ k.v6 \in Nat /\ l.v6 \in Nat
          /\ k.net4 \in Prefixes /\ l.net4 \in Prefixes
          /\ k.net6 \in Prefixes /\ l.net6 \in Prefixes
      BY <2>3 DEF Leases
    <2>6. CASE y = z
      <3>1. k.v4 # l.v4
        BY <2>1, <2>2, <2>6 DEF Inv, LeasesDistinct, DistinctIn, k, l
      <3>2. k.net4 = l.net4 /\ k.net6 = l.net6
        BY <2>1, <2>2, <2>6
      <3>3. k.v4 % Octet # l.v4 % Octet
        BY <2>3, <2>5, <3>1, <3>2, SameNetworkBytes
      <3>4. k.v4 % Octet \in Nat /\ l.v4 % Octet \in Nat
        BY <2>5, ByteIsNat
      <3>5. k.v6 # l.v6
        BY <2>3, <2>5, <3>2, <3>3, <3>4 DEF Shaped, Prefixes
      <3>6. QED
        BY <3>1, <3>5 DEF k, l
    <2>7. CASE y # z
      <3>1. ~Overlap(y, z) /\ y.ipv6 # NoPrefix /\ z.ipv6 # NoPrefix
        BY <2>7 DEF Placed, ValidZones
      <3>2. ~Overlaps(k.net4, l.net4) /\ ~Overlaps(k.net6, l.net6)
        BY <2>1, <2>2, <3>1 DEF Overlap
      <3>3. k.v4 \in Members(k.net4) /\ l.v4 \in Members(l.net4)
        BY <2>4 DEF Usable
      <3>4. k.v6 \in Members(k.net6) /\ l.v6 \in Members(l.net6)
        BY <2>4 DEF Usable
      <3>5. k.v4 # l.v4
        BY <2>5, <3>2, <3>3 DEF Members, Overlaps, Prefixes
      <3>6. k.v6 # l.v6
        BY <2>5, <3>2, <3>4 DEF Members, Overlaps, Prefixes
      <3>7. QED
        BY <3>5, <3>6 DEF k, l
    <2>8. QED
      BY <2>6, <2>7
  <1>2. QED
    BY <1>1, SpecInv, SpecPlaced, PTL

=============================================================================
