------------------------------ MODULE Ruleset -------------------------------
(***************************************************************************)
(* What the daemon lets through: flows (controlplane/network/flow.go),     *)
(* publications (publication.go), the policy they make with the zones and  *)
(* the leases, its validation and the rules of nftables generated from it  *)
(* (firewall.go).                                                          *)
(*                                                                         *)
(* A rule is a predicate on packets.  In each filter chain the rules that  *)
(* accept come before those that drop, and all accept alike: a chain is    *)
(* the disjunction of the first and, failing them, the last two.  Packets  *)
(* of connections already accepted, and the ICMP messages without which    *)
(* neither family works, pass before any of this and are left out, as are  *)
(* the counters, the log rules, comments, and IPv6, whose rules are those  *)
(* of IPv4 except that nothing is redirected.  The syntax of ports and     *)
(* names is not modelled; a port is a value, {} all of them.               *)
(***************************************************************************)
EXTENDS Zones

CONSTANTS
    VMs,        \* the names of VMs
    ZoneNames,  \* the names of zones
    Bridges,    \* the names of bridges
    Ports,      \* ports
    NoPort,     \* the port of a packet that has none
    NoLease,    \* a VM without an address
    Wans,       \* the interfaces that lead out
    NoUplink    \* no default route, or no -uplink

\* The two ends that are not zones.  A zone may bear one of these names too: in
\* the target of a flow the name then still means the end that is not a zone.
Pseudo == {"internet", "host"}

ASSUME RulesetAssumption ==
    /\ Wans \cap Bridges = {} /\ NoUplink \notin Bridges \cup Wans
    /\ NoPort \notin Ports

Protocols == {"tcp", "udp", "icmp"}

Flows == [from : ZoneNames \cup Pseudo, to : ZoneNames \cup Pseudo,
          proto : Protocols \cup {"any"}, ports : SUBSET Ports]
Publications == [vm : VMs, port : Ports, hostPort : Ports, proto : {"tcp", "udp"}]
Addressing == [zone : ZoneNames, v4 : Nat]

\* The uplink of a policy is the one of the option -uplink, or the interface of
\* the default route when its rules are generated.
Policies == [zones : SUBSET ZonesOf(ZoneNames, Bridges), flows : SUBSET Flows,
             pubs : SUBSET Publications, leases : [VMs -> Addressing \cup {NoLease}],
             uplink : Wans \cup {NoUplink}]

\* A packet at a hook.  dnat says that a redirection changed its destination.
Packets == [iif : Bridges \cup Wans, oif : Bridges \cup Wans \cup {NoUplink},
            src : Nat, dst : Nat, proto : Protocols, port : Ports \cup {NoPort},
            dnat : BOOLEAN]

-----------------------------------------------------------------------------
(* Validation *)

ValidFlow(f, zs) ==
    /\ f.from # f.to
    /\ {f.from, f.to} \subseteq Pseudo \cup {z.name : z \in zs}
    /\ ~({f.from, f.to} \subseteq Pseudo)
    /\ f.from # "internet"
    /\ f.proto \in {"icmp", "any"} => f.ports = {}

SameDoor(p, q) == p.proto = q.proto /\ p.hostPort = q.hostPort
DistinctDoors(pubs) == \A p, q \in pubs : SameDoor(p, q) => p = q

\* Before anything is touched; a VM that was declared has a lease later.
ValidPublicationsSyntax(pubs, leases) ==
    DistinctDoors(pubs) /\ \A q \in pubs : leases[q.vm] # NoLease

ValidPublication(q, leases, zs) ==
    /\ leases[q.vm] # NoLease
    /\ \E z \in zs : z.name = leases[q.vm].zone

ValidPublications(pubs, leases, zs) ==
    /\ \A q \in pubs : ValidPublication(q, leases, zs)
    /\ DistinctDoors(pubs)

ValidPolicy(p) ==
    /\ ValidZones(p.zones)
    /\ \A f \in p.flows : ValidFlow(f, p.zones)
    /\ ValidPublications(p.pubs, p.leases, p.zones)

\* What is applied before the VMs have addresses.
Base(p) == [p EXCEPT !.pubs = {}, !.leases = [v \in VMs |-> NoLease]]

-----------------------------------------------------------------------------
(* The rules *)

OnBridge(p, name, i) == \E z \in p.zones : z.name = name /\ z.bridge = i
ZoneInterfaces(p) == {z.bridge : z \in p.zones}

MatchExpr(f, k) ==
    /\ f.proto # "any" => k.proto = f.proto
    /\ f.ports # {} => k.port \in f.ports

\* Without an uplink, flows to the internet give no rule.
Leaves(p, k) == p.uplink # NoUplink /\ k.oif = p.uplink

FlowRule(p, f, k) ==
    /\ f.to # "host"
    /\ OnBridge(p, f.from, k.iif)
    /\ IF f.to = "internet" THEN Leaves(p, k) ELSE OnBridge(p, f.to, k.oif)
    /\ MatchExpr(f, k)

PublicationRuleAnyDestination(p, q, k) ==  \* faulty variant
    /\ p.uplink # NoUplink /\ k.iif = p.uplink
    /\ p.leases[q.vm] # NoLease /\ k.oif \in ZoneInterfaces(p)
    /\ k.dst = p.leases[q.vm].v4 /\ k.proto = q.proto /\ k.port = q.port
PublicationRuleHostPort(p, q, k) ==  \* faulty variant
    /\ p.uplink # NoUplink /\ k.iif = p.uplink /\ k.dnat
    /\ p.leases[q.vm] # NoLease /\ OnBridge(p, p.leases[q.vm].zone, k.oif)
    /\ k.dst = p.leases[q.vm].v4 /\ k.proto = q.proto /\ k.port = q.hostPort
\* Only what was redirected, to the address and the zone of the VM.
PublicationRule(p, q, k) ==
    /\ p.uplink # NoUplink /\ k.iif = p.uplink
    /\ p.leases[q.vm] # NoLease
    /\ OnBridge(p, p.leases[q.vm].zone, k.oif)
    /\ k.dnat
    /\ k.dst = p.leases[q.vm].v4
    /\ k.proto = q.proto /\ k.port = q.port

ForwardDropsByInput(p, k) == k.iif \in ZoneInterfaces(p)  \* faulty variant
ForwardDrops(p, k) ==
    k.iif \in ZoneInterfaces(p) \/ k.oif \in ZoneInterfaces(p)

ForwardAccepts(p, k) ==
    \/ \E f \in p.flows : FlowRule(p, f, k)
    \/ \E q \in p.pubs : PublicationRule(p, q, k)
    \/ ~ForwardDrops(p, k)

HostRule(p, f, k) ==
    f.to = "host" /\ OnBridge(p, f.from, k.iif) /\ MatchExpr(f, k)

InputAccepts(p, k) ==
    \/ \E f \in p.flows : HostRule(p, f, k)
    \/ k.iif \notin ZoneInterfaces(p)

\* The publications whose redirection a packet meets; the first is taken.
Redirections(p, k) ==
    {q \in p.pubs :
        /\ p.uplink # NoUplink /\ k.iif = p.uplink
        /\ p.leases[q.vm] # NoLease
        /\ k.proto = q.proto /\ k.port = q.hostPort}

EgressWithoutPorts(p) ==  \* faulty variant
    {z \in p.zones : \E f \in p.flows :
        f.to = "internet" /\ f.from = z.name /\ f.ports = {}}
EgressZones(p) ==
    {z \in p.zones : \E f \in p.flows : f.to = "internet" /\ f.from = z.name}

Masquerades(p, k) ==
    Leaves(p, k) /\ \E z \in EgressZones(p) : k.src \in Members(z.ipv4)

=============================================================================
