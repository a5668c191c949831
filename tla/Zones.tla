------------------------------- MODULE Zones --------------------------------
(***************************************************************************)
(* The zones of controlplane/network/zone.go and the prefixes they have.   *)
(*                                                                         *)
(* An address is a number and a network the interval of addresses it       *)
(* covers.  Octet stands for the 256 addresses that share all but the last *)
(* byte: a /24 in IPv4, a /120 in IPv6.  What an identifier or a CIDR      *)
(* looks like is abstracted: names are values, a prefix that does not      *)
(* denote a network is one whose base is not a multiple of its size.       *)
(***************************************************************************)
EXTENDS Integers

CONSTANT Octet  \* 256 in the code

ASSUME OctetAssumption == Octet \in Nat /\ Octet >= 4

Prefixes == [base : Nat, size : Nat]
NoPrefix == [base |-> 0, size |-> 0]

Members(p) == p.base .. p.base + p.size - 1
Overlaps(p, q) == p.base < q.base + q.size /\ q.base < p.base + p.size
IsNetwork(p) == p.size > 0 /\ p.base % p.size = 0

\* The first address is the host's and the VMs' gateway.
Host(p) == p.base + 1
Broadcast(p) == p.base + p.size - 1

ZonesOf(names, bridges) ==
    [name : names, bridge : bridges, ipv4 : Prefixes, ipv6 : Prefixes]

\* A /30 at most in IPv4, a /120 at most in IPv6, which may be absent.
ValidZone(z) ==
    /\ IsNetwork(z.ipv4) /\ z.ipv4.size >= 4
    /\ z.ipv6 # NoPrefix => IsNetwork(z.ipv6) /\ z.ipv6.size >= Octet

OverlapIPv4Only(y, z) == Overlaps(y.ipv4, z.ipv4)  \* faulty variant
Overlap(y, z) ==
    \/ Overlaps(y.ipv4, z.ipv4)
    \/ y.ipv6 # NoPrefix /\ z.ipv6 # NoPrefix /\ Overlaps(y.ipv6, z.ipv6)

\* ValidateZones: every zone valid, no two with one name or one bridge, none
\* over another.
ValidZones(zs) ==
    /\ \A z \in zs : ValidZone(z)
    /\ \A y, z \in zs : y # z =>
          y.name # z.name /\ y.bridge # z.bridge /\ ~Overlap(y, z)

=============================================================================
