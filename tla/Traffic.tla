------------------------------ MODULE Traffic -------------------------------
(***************************************************************************)
(* Packets through the host: the table that Ruleset generates, the hooks   *)
(* of the kernel that it attaches to, and the daemon and third parties     *)
(* that replace the table while a packet is between two hooks.  The rules  *)
(* name the uplink the default route had when they were generated; it may  *)
(* have moved since, and Verify does not look at it.                       *)
(*                                                                         *)
(* A packet here is the first of a connection: later ones pass like it.    *)
(* Packets do not affect each other, so there is one at a time.  A VM is   *)
(* on the bridge of the zone of its lease, whatever its address; it sends  *)
(* to any address through its gateway, from its own address or a forged    *)
(* one.  What the host itself sends, and what stays on a bridge, meets no  *)
(* chain.                                                                  *)
(***************************************************************************)
EXTENDS Ruleset

CONSTANTS
    PolicyChoices,  \* the policies a daemon may be given, with the leases
    Public,         \* the address of the host on the uplink
    Outside         \* an address on the internet

\* The leases of a policy are those Allocation gives: two VMs of one zone have
\* two addresses (its LeasesDistinct); an address may have become that of
\* another zone, of a VM of another zone or of a gateway since it was given.
ASSUME TrafficAssumption ==
    /\ PolicyChoices \subseteq Policies
    /\ \A p \in PolicyChoices : \A v, w \in VMs :
          /\ p.leases[v] # NoLease /\ p.leases[w] # NoLease /\ v # w
          /\ p.leases[v].zone = p.leases[w].zone
          => p.leases[v].v4 # p.leases[w].v4
    /\ Public \in Nat /\ Outside \in Nat
    /\ \A p \in PolicyChoices : \A z \in p.zones : Public \notin Members(z.ipv4)
    /\ {"internet", "nobody"} \cap VMs = {}

VARIABLES
    policy,  \* the policy of the daemon
    route,   \* the interface of the default route
    table,   \* what the kernel has of the policy, and the uplink in its rules
    packet,  \* the packet on its way
    path     \* where it comes from, the port it asked for, how far it came
             \* and the tables it was filtered and translated by

vars == <<policy, route, table, packet, path>>

Tables == [kind : {"none", "base", "full"}, uplink : Wans \cup {NoUplink}]
NoTable == [kind |-> "none", uplink |-> NoUplink]

Nothing == [iif |-> NoUplink, oif |-> NoUplink, src |-> 0, dst |-> 0,
            proto |-> "tcp", port |-> NoPort, dnat |-> FALSE]
Idle == [sender |-> "nobody", asked |-> NoPort, at |-> "gone",
         filter |-> NoTable, translated |-> FALSE, nat |-> NoTable]

\* detectUplink, unless the option says it.
Uplink == IF policy.uplink # NoUplink THEN policy.uplink ELSE route

\* run validates all but the leases before it applies the base policy, and no
\* VM runs before that.
Init ==
    /\ policy \in {p \in PolicyChoices : /\ ValidPublicationsSyntax(p.pubs, p.leases)
                                         /\ ValidPolicy(Base(p))}
    /\ route \in Wans \cup {NoUplink}
    /\ table = [kind |-> "base", uplink |-> Uplink]
    /\ packet = Nothing
    /\ path = Idle

With(p, uplink) == [p EXCEPT !.uplink = uplink]
InForce ==
    With(IF table.kind = "full" THEN policy ELSE Base(policy), table.uplink)

-----------------------------------------------------------------------------
(* The table *)

\* The second Apply, when the leases are known, and every repair after it.
Apply ==
    /\ ValidPolicy(policy)
    /\ table' = [kind |-> "full", uplink |-> Uplink]
    /\ UNCHANGED <<policy, route, packet, path>>

\* A third party flushes the rules.
Flushed ==
    /\ table' = NoTable
    /\ UNCHANGED <<policy, route, packet, path>>

RouteMoves ==
    /\ route' \in (Wans \cup {NoUplink}) \ {route}
    /\ UNCHANGED <<policy, table, packet, path>>

-----------------------------------------------------------------------------
(* The packet *)

Running == {v \in VMs : /\ policy.leases[v] # NoLease
                        /\ \E z \in policy.zones : z.name = policy.leases[v].zone}
At(v, i) == OnBridge(policy, policy.leases[v].zone, i)

Addresses ==
    {policy.leases[v].v4 : v \in Running} \cup {Host(z.ipv4) : z \in policy.zones}
        \cup {Public, Outside}

Local == {Public} \cup {Host(z.ipv4) : z \in policy.zones}

Sent(sender, i, src) ==
    \E dst \in Addresses \ {src}, proto \in Protocols, port \in Ports \cup {NoPort} :
        /\ (proto = "icmp") <=> (port = NoPort)
        /\ packet' = [iif |-> i, oif |-> NoUplink, src |-> src, dst |-> dst,
                      proto |-> proto, port |-> port, dnat |-> FALSE]
        /\ path' = [Idle EXCEPT !.sender = sender, !.asked = port, !.at = "prerouting"]
        /\ UNCHANGED <<policy, route, table>>

SentByVM(v) ==
    /\ path.at = "gone"
    /\ v \in Running
    /\ \E i \in Bridges, src \in {policy.leases[v].v4, Outside} : At(v, i) /\ Sent(v, i, src)

SentFromOutside ==
    path.at = "gone" /\ \E i \in Wans : Sent("internet", i, Outside)

Redirected(q) ==
    [packet EXCEPT !.dst = policy.leases[q.vm].v4, !.port = q.port, !.dnat = TRUE]

Prerouting ==
    /\ path.at = "prerouting"
    /\ LET hit == IF table.kind = "none" THEN {} ELSE Redirections(InForce, packet)
       IN  \/ hit = {} /\ UNCHANGED packet
           \/ \E q \in hit : packet' = Redirected(q)
    /\ path' = [path EXCEPT !.at = "routing"]
    /\ UNCHANGED <<policy, route, table>>

TowardName(z) == [packet EXCEPT !.oif = z.name]  \* faulty variant
Toward(z) == [packet EXCEPT !.oif = z.bridge]

\* To the host itself, to the zone whose network has the address, or out.
Route ==
    /\ path.at = "routing"
    /\ \/ /\ packet.dst \in Local
          /\ path' = [path EXCEPT !.at = "input"]
          /\ UNCHANGED packet
       \/ /\ packet.dst \notin Local
          /\ path' = [path EXCEPT !.at = "forward"]
          /\ \E z \in policy.zones :
                packet.dst \in Members(z.ipv4) /\ packet' = Toward(z)
       \/ /\ packet.dst \notin Local
          /\ \A z \in policy.zones : packet.dst \notin Members(z.ipv4)
          /\ path' = [path EXCEPT !.at = IF route = NoUplink THEN "lost" ELSE "forward"]
          /\ packet' = [packet EXCEPT !.oif = route]
    /\ UNCHANGED <<policy, route, table>>

Input ==
    /\ path.at = "input"
    /\ path' = [path EXCEPT !.filter = table,
                  !.at = IF table.kind = "none" \/ InputAccepts(InForce, packet)
                         THEN "host" ELSE "dropped"]
    /\ UNCHANGED <<policy, route, table, packet>>

Forward ==
    /\ path.at = "forward"
    /\ path' = [path EXCEPT !.filter = table,
                  !.at = IF table.kind = "none" \/ ForwardAccepts(InForce, packet)
                         THEN "postrouting" ELSE "dropped"]
    /\ UNCHANGED <<policy, route, table, packet>>

Postrouting ==
    /\ path.at = "postrouting"
    /\ path' = [path EXCEPT !.at = "sent", !.nat = table,
                  !.translated = table.kind # "none" /\ Masquerades(InForce, packet)]
    /\ UNCHANGED <<policy, route, table, packet>>

Gone ==
    /\ path.at \in {"host", "lost", "dropped", "sent"}
    /\ packet' = Nothing
    /\ path' = Idle
    /\ UNCHANGED <<policy, route, table>>

-----------------------------------------------------------------------------

Next ==
    \/ Apply \/ Flushed \/ RouteMoves
    \/ \E v \in VMs : SentByVM(v)
    \/ SentFromOutside
    \/ Prerouting \/ Route \/ Input \/ Forward \/ Postrouting \/ Gone

Spec == Init /\ [][Next]_vars

-----------------------------------------------------------------------------
(* Properties *)

\* The values the variables take.
TypeOK ==
    /\ policy \in PolicyChoices
    /\ route \in Wans \cup {NoUplink}
    /\ table \in Tables
    /\ packet \in Packets \cup {Nothing}
    /\ path \in [sender : VMs \cup {"internet", "nobody"}, asked : Ports \cup {NoPort},
                 at : {"gone", "prerouting", "routing", "input", "forward",
                       "postrouting", "host", "lost", "dropped", "sent"},
                 filter : Tables, translated : BOOLEAN, nat : Tables]

\* The flow that permits the packet between two ends, VMs being known by their
\* zone.
ZoneOf(v) == policy.leases[v].zone
Permitted(from, to) ==
    \E f \in policy.flows : f.from = from /\ f.to = to /\ MatchExpr(f, packet)

\* A publication of this port of this VM, and the one the packet asked for.
Published(w) ==
    {q \in policy.pubs : q.vm = w /\ q.proto = packet.proto /\ q.port = packet.port}
AskedFor(w) == {q \in Published(w) : q.hostPort = path.asked}

\* Leases outlive the networks they were given in (alloc.go:133, 157): the
\* address of a VM may no longer be of its zone, or have become the gateway's,
\* or be that of a VM of another zone too.
Homed(v) ==
    \E z \in policy.zones : /\ z.name = policy.leases[v].zone
                            /\ policy.leases[v].v4 \in Members(z.ipv4) \ {Host(z.ipv4)}
Doubled(v) ==
    \E w \in VMs \ {v} : /\ policy.leases[w] # NoLease
                          /\ policy.leases[w].v4 = policy.leases[v].v4

ArrivesAt(w) ==
    /\ path.at = "sent"
    /\ At(w, packet.oif)
    /\ policy.leases[w].v4 = packet.dst

\* From one VM to another, to the host and out, and from the internet to a VM,
\* passes what was declared and nothing else (flow.go:32, "Tout ce qui n'est pas
\* declare est refuse"): whatever the addresses of the leases and whenever the
\* policy is completed.  A packet that was filtered while no table was there is
\* not concerned.  What comes from the internet reaches a published port of the
\* VM, through its own publication unless two VMs have one address.
PassedIsDeclared ==
    path.filter.kind # "none" =>
        /\ \A v, w \in Running : path.sender = v /\ ArrivesAt(w) =>
              Permitted(ZoneOf(v), ZoneOf(w))
        /\ \A w \in Running : path.sender = "internet" /\ ArrivesAt(w) =>
              /\ packet.dnat /\ Published(w) # {}
              /\ Doubled(w) \/ AskedFor(w) # {}
        /\ \A v \in Running : path.sender = v =>
              /\ path.at = "host" => Permitted(ZoneOf(v), "host")
              /\ path.at = "sent" /\ packet.oif \in Wans => Permitted(ZoneOf(v), "internet")

\* What is dropped was not declared: a flow works between its zones, to the host
\* and, unless the default route moved since the rules were generated, out; a
\* publication works unless the address of its VM left the network of its zone.
\* Not so a flow to a zone that is named "internet" or "host", a name Validate
\* accepts (zone.go:72): its rule is that of the uplink or of the host.
DroppedIsUndeclared ==
    path.at = "dropped" =>
        /\ \A v \in Running : path.sender = v =>
              /\ packet.oif = NoUplink => ~Permitted(ZoneOf(v), "host")
              /\ packet.oif \in Wans =>
                    path.filter.uplink # packet.oif \/ ~Permitted(ZoneOf(v), "internet")
              /\ \A z \in policy.zones :
                    packet.oif = z.bridge /\ z.name \notin Pseudo
                    => ~Permitted(ZoneOf(v), z.name)
        /\ packet.dnat /\ path.filter.uplink = packet.iif =>
              \E w \in VMs : AskedFor(w) # {} /\ ~Homed(w)

\* What a VM sends out from its own address through the rules leaves with the
\* address of the host, or it would never be answered, unless its address is not
\* of its zone.
EgressTranslated ==
    /\ path.at = "sent" /\ packet.oif \in Wans
    /\ path.filter.kind # "none" /\ path.nat.uplink = packet.oif
    => \A v \in Running :
          path.sender = v /\ packet.src = policy.leases[v].v4 /\ Homed(v) => path.translated

=============================================================================
