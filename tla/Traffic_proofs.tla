--------------------------- MODULE Traffic_proofs ---------------------------
(***************************************************************************)
(* For every policy and every interleaving of the packet with the          *)
(* replacements of the table: what passes was declared, what is dropped    *)
(* was not, and what leaves is translated.                                 *)
(*                                                                         *)
(* The inductive invariant says, of each hook the packet went through,     *)
(* what it left behind in terms of the policy, whatever the table is now:  *)
(* where the packet came in (Entered), the publication that redirected it  *)
(* (Redirect), where it was routed (Routed), the verdict of the filter     *)
(* (Judged) and that of the translation (Masked).                          *)
(***************************************************************************)
EXTENDS Traffic, TLAPS

\* The rules the policy gives with this uplink.
Rules(u) == With(policy, u)

\* A table that is not there names no uplink.
Sound(t) == t \in Tables /\ (t.kind = "none" => t.uplink = NoUplink)

Entered ==
    /\ IF path.at = "gone" THEN path = Idle /\ packet = Nothing ELSE packet \in Packets
    /\ \A v \in VMs : path.sender = v =>
          v \in Running /\ packet.iif \in Bridges /\ At(v, packet.iif) /\ ~packet.dnat
    /\ path.sender = "internet" => packet.iif \in Wans

RedirectedBy(q) ==
    /\ policy.leases[q.vm] # NoLease
    /\ packet.iif \in Wans
    /\ packet.proto = q.proto /\ packet.port = q.port
    /\ path.asked = q.hostPort
    /\ packet.dst = policy.leases[q.vm].v4

Redirect ==
    /\ path.at = "prerouting" => ~packet.dnat /\ path.asked = packet.port
    /\ packet.dnat => table.kind # "base" /\ \E q \in policy.pubs : RedirectedBy(q)

ToZone(z) == packet.dst \in Members(z.ipv4) /\ packet.oif = z.bridge

Routed ==
    /\ path.at \in {"prerouting", "routing", "input", "host"} => packet.oif = NoUplink
    /\ path.at \in {"forward", "postrouting", "sent"} => packet.oif # NoUplink
    /\ path.at \in {"input", "dropped"} /\ packet.oif = NoUplink => packet.dst \in Local
    /\ path.at \in {"forward", "dropped"} /\ packet.oif # NoUplink =>
          \A z \in policy.zones : packet.dst \in Members(z.ipv4) =>
              \E y \in policy.zones : ToZone(y)

Judged ==
    /\ path.at = "host" /\ path.filter.kind # "none" => InputAccepts(policy, packet)
    /\ path.at \in {"postrouting", "sent"} /\ path.filter.kind # "none" =>
          ForwardAccepts(Rules(path.filter.uplink), packet)
    /\ path.at = "dropped" /\ packet.oif = NoUplink => ~InputAccepts(policy, packet)
    /\ path.at = "dropped" /\ packet.oif # NoUplink =>
          /\ \A f \in policy.flows : ~FlowRule(Rules(path.filter.uplink), f, packet)
          /\ packet.dnat => \A q \in policy.pubs :
                ~PublicationRule(Rules(path.filter.uplink), q, packet)

Masked ==
    /\ path.translated => path.at = "sent"
    /\ /\ path.at = "sent" /\ path.nat.kind # "none"
       /\ Masquerades(Rules(path.nat.uplink), packet)
       => path.translated

Inv ==
    /\ TypeOK
    /\ ValidPolicy(Base(policy))
    /\ Sound(table) /\ Sound(path.nat)
    /\ Entered /\ Redirect /\ Routed /\ Judged /\ Masked

-----------------------------------------------------------------------------
(* The rules of a policy and those of its base *)

LEMMA BaseFields ==
    ASSUME NEW p \in Policies
    PROVE  /\ Base(p).zones = p.zones /\ Base(p).flows = p.flows
           /\ Base(p).uplink = p.uplink /\ Base(p).pubs = {}
BY DEF Base, Policies

LEMMA WithFields ==
    ASSUME NEW p \in Policies, NEW u \in Wans \cup {NoUplink}
    PROVE  /\ With(p, u) \in Policies
           /\ With(p, u).zones = p.zones /\ With(p, u).flows = p.flows
           /\ With(p, u).pubs = p.pubs /\ With(p, u).leases = p.leases
           /\ With(p, u).uplink = u
BY DEF With, Policies

LEMMA WithBase ==
    ASSUME NEW p \in Policies, NEW u
    PROVE  With(Base(p), u) = Base(With(p, u))
BY DEF With, Base, Policies

LEMMA BaseForward ==
    ASSUME NEW p \in Policies, NEW k
    PROVE  /\ ForwardAccepts(Base(p), k) => ForwardAccepts(p, k)
           /\ \A f : FlowRule(Base(p), f, k) <=> FlowRule(p, f, k)
BY BaseFields DEF ForwardAccepts, FlowRule, ForwardDrops, OnBridge, Leaves,
                  ZoneInterfaces

LEMMA BaseInput ==
    ASSUME NEW p \in Policies, NEW k
    PROVE  InputAccepts(Base(p), k) <=> InputAccepts(p, k)
BY BaseFields DEF InputAccepts, HostRule, OnBridge, ZoneInterfaces

LEMMA BaseMasquerades ==
    ASSUME NEW p \in Policies, NEW k
    PROVE  Masquerades(Base(p), k) <=> Masquerades(p, k)
BY BaseFields DEF Masquerades, Leaves, EgressZones

LEMMA BaseRedirections ==
    ASSUME NEW p \in Policies, NEW k
    PROVE  Redirections(Base(p), k) = {}
BY BaseFields DEF Redirections

\* Two zones of a valid set are never on one bridge.
LEMMA OneZonePerBridge ==
    ASSUME NEW p, ValidZones(p.zones), NEW m, NEW n, NEW i,
           OnBridge(p, m, i), OnBridge(p, n, i)
    PROVE  m = n
BY DEF OnBridge, ValidZones

\* A network interface is on one side.
LEMMA ZoneOnBridge ==
    ASSUME NEW p \in Policies, NEW n, NEW i, OnBridge(p, n, i)
    PROVE  i \in Bridges /\ i \notin Wans /\ i # NoUplink /\ i \in ZoneInterfaces(p) /\ n \in ZoneNames
BY RulesetAssumption DEF OnBridge, Policies, ZonesOf, ZoneInterfaces

LEMMA ZoneBridges ==
    ASSUME NEW p \in Policies, NEW z \in p.zones
    PROVE  z.bridge \in Bridges /\ z.bridge \notin Wans /\ z.bridge # NoUplink
BY RulesetAssumption DEF Policies, ZonesOf

LEMMA PolicyType == TypeOK => policy \in Policies
BY TrafficAssumption DEF TypeOK

LEMMA ZonesValid ==
    ASSUME policy \in Policies, ValidPolicy(Base(policy))
    PROVE  ValidZones(policy.zones)
BY BaseFields DEF ValidPolicy

\* The rules in force are those of the policy, or of its base, with the uplink
\* of the table.
LEMMA RulesInForce ==
    ASSUME TypeOK, policy \in Policies
    PROVE  LET r == Rules(table.uplink)
           IN  /\ r \in Policies /\ r.zones = policy.zones /\ r.flows = policy.flows
               /\ r.pubs = policy.pubs /\ r.leases = policy.leases
               /\ r.uplink = table.uplink
               /\ InForce = IF table.kind = "full" THEN r ELSE Base(r)
BY WithFields, WithBase DEF Rules, InForce, TypeOK, Tables

-----------------------------------------------------------------------------
(* The steps *)

LEMMA UplinkType ==
    ASSUME policy \in Policies, route \in Wans \cup {NoUplink}
    PROVE  Uplink \in Wans \cup {NoUplink}
BY DEF Uplink, Policies

LEMMA IdleType ==
    /\ Idle.at = "gone" /\ Idle.filter = NoTable /\ Idle.nat = NoTable /\ ~Idle.translated
    /\ Sound(NoTable) /\ NoTable \in Tables
    /\ Idle \in [sender : VMs \cup {"internet", "nobody"}, asked : Ports \cup {NoPort},
                 at : {"gone", "prerouting", "routing", "input", "forward",
                       "postrouting", "host", "lost", "dropped", "sent"},
                 filter : Tables, translated : BOOLEAN, nat : Tables]
<1>1. NoTable \in Tables
    BY DEF NoTable, Tables
<1> QED BY <1>1 DEF Idle, NoTable, Sound

LEMMA InitInv == Init => Inv
<1> SUFFICES ASSUME Init PROVE Inv
    OBVIOUS
<1>0. policy \in Policies /\ table.kind = "base" /\ table \in Tables
    BY TrafficAssumption, UplinkType DEF Init, Tables
<1>1. TypeOK
    BY <1>0, IdleType DEF Init, TypeOK
<1>2. Entered
    BY TrafficAssumption DEF Init, Entered, Idle
<1>3. Redirect /\ Routed /\ Judged /\ Masked
    BY DEF Init, Redirect, Routed, Judged, Masked, Idle, Nothing
<1>4. Sound(table) /\ Sound(path.nat)
    BY <1>0, IdleType DEF Init, Sound
<1> QED BY <1>0, <1>1, <1>2, <1>3, <1>4 DEF Inv, Init

LEMMA TableStep ==
    ASSUME Inv, Sound(table'), table'.kind = "base" => table.kind = "base",
           route' \in Wans \cup {NoUplink}, UNCHANGED <<policy, packet, path>>
    PROVE  Inv'
BY DEF Inv, TypeOK, Sound, Entered, Redirect, RedirectedBy, Routed, Judged, Masked,
       Running, At, ToZone, Local, Rules

LEMMA SentStep ==
    ASSUME Inv, path.at = "gone", NEW sender, NEW i \in Bridges \cup Wans, NEW src \in Nat,
           \/ sender \in Running /\ i \in Bridges /\ At(sender, i)
           \/ sender = "internet" /\ i \in Wans,
           Sent(sender, i, src)
    PROVE  Inv'
<1>0. policy \in Policies
    BY PolicyType DEF Inv
<1>1. PICK dst \in Addresses \ {src}, proto \in Protocols, port \in Ports \cup {NoPort} :
          /\ packet' = [iif |-> i, oif |-> NoUplink, src |-> src, dst |-> dst,
                        proto |-> proto, port |-> port, dnat |-> FALSE]
          /\ path' = [Idle EXCEPT !.sender = sender, !.asked = port, !.at = "prerouting"]
          /\ UNCHANGED <<policy, route, table>>
    BY DEF Sent
<1>2. dst \in Nat
    <2>1. \A v \in Running : policy.leases[v].v4 \in Nat
        BY <1>0 DEF Running, Policies, Addressing
    <2>2. \A z \in policy.zones : Host(z.ipv4) \in Nat
        BY <1>0 DEF Policies, ZonesOf, Prefixes, Host
    <2> QED BY <1>1, <2>1, <2>2, TrafficAssumption DEF Addresses
<1>3. /\ path'.sender = sender /\ path'.asked = port /\ path'.at = "prerouting"
      /\ path'.filter = NoTable /\ path'.translated = FALSE /\ path'.nat = NoTable
    BY <1>1 DEF Idle
<1>4. TypeOK'
    <2>1. packet' \in Packets
        BY <1>1, <1>2 DEF Packets
    <2>2. sender \in VMs \cup {"internet", "nobody"}
        BY DEF Running
    <2> QED BY <1>1, <2>1, <2>2, IdleType DEF Inv, TypeOK
<1>5. Entered'
    <2>1. packet' \in Packets /\ packet'.iif = i /\ ~packet'.dnat
        BY <1>1, <1>2 DEF Packets
    <2> QED BY <1>1, <1>3, <2>1, TrafficAssumption DEF Entered, Running, At
<1>6. Redirect' /\ Routed' /\ Judged' /\ Masked'
    BY <1>1, <1>3 DEF Redirect, Routed, Judged, Masked
<1> QED BY <1>1, <1>3, <1>4, <1>5, <1>6, IdleType DEF Inv

LEMMA PreroutingStep ==
    ASSUME Inv, Prerouting
    PROVE  Inv'
<1> USE DEF Prerouting
<1>0. policy \in Policies
    BY PolicyType DEF Inv
<1>1. /\ path'.at = "routing" /\ path.at = "prerouting"
      /\ path'.sender = path.sender /\ path'.asked = path.asked
      /\ path'.filter = path.filter /\ path'.translated = path.translated
      /\ path'.nat = path.nat
    BY DEF Inv, TypeOK
<1>2. /\ ~packet.dnat /\ path.asked = packet.port /\ packet.oif = NoUplink
      /\ ~path.translated
    BY <1>1 DEF Inv, Redirect, Routed, Masked
<1>3. CASE UNCHANGED packet
    <2>1. TypeOK'
        BY <1>3 DEF Inv, TypeOK
    <2>2. Entered' /\ Redirect' /\ Routed' /\ Judged' /\ Masked'
        BY <1>1, <1>2, <1>3 DEF Inv, Entered, Redirect, Routed, Judged, Masked, Running, At
    <2> QED BY <2>1, <2>2 DEF Inv
<1>4. CASE \E q \in Redirections(InForce, packet) :
            table.kind # "none" /\ packet' = Redirected(q)
    <2> DEFINE r == Rules(table.uplink)
    <2>0. /\ r \in Policies /\ r.pubs = policy.pubs /\ r.leases = policy.leases
          /\ r.uplink \in Wans \cup {NoUplink}
          /\ InForce = IF table.kind = "full" THEN r ELSE Base(r)
        BY <1>0, RulesInForce DEF Inv, TypeOK, Tables
    <2> HIDE DEF r
    <2>1. table.kind = "full"
        BY <1>4, <2>0, BaseRedirections
    <2>2. PICK q \in policy.pubs :
              /\ packet.iif \in Wans
              /\ policy.leases[q.vm] # NoLease
              /\ packet.proto = q.proto /\ packet.port = q.hostPort
              /\ packet' = Redirected(q)
        BY <1>4, <2>0, <2>1 DEF Redirections
    <2>3. q \in Publications /\ policy.leases[q.vm] \in Addressing
        BY <1>0, <2>2 DEF Policies, Publications
    <2>4. /\ packet'.iif = packet.iif /\ packet'.oif = packet.oif
          /\ packet'.proto = packet.proto /\ packet'.port = q.port
          /\ packet'.dst = policy.leases[q.vm].v4 /\ packet'.dnat
          /\ packet' \in Packets
        BY <1>1, <2>2, <2>3 DEF Redirected, Inv, Entered, Packets, Publications, Addressing
    <2>5. TypeOK'
        BY <2>4 DEF Inv, TypeOK
    <2>7. Entered'
        BY <1>1, <2>2, <2>4, RulesetAssumption DEF Inv, Entered
    <2>8. Redirect'
        <3>1. RedirectedBy(q)'
            BY <1>1, <1>2, <2>2, <2>4 DEF RedirectedBy
        <3> QED BY <1>1, <2>1, <2>2, <3>1 DEF Redirect
    <2>9. Routed' /\ Judged' /\ Masked'
        BY <1>1, <1>2, <2>4 DEF Routed, Judged, Masked
    <2> QED BY <2>5, <2>7, <2>8, <2>9 DEF Inv
<1> QED BY <1>3, <1>4

LEMMA RouteStep ==
    ASSUME Inv, Route
    PROVE  Inv'
<1>0. policy \in Policies /\ route \in Wans \cup {NoUplink}
    BY PolicyType DEF Inv, TypeOK
<1>1. /\ path.at = "routing" /\ path'.at \in {"input", "forward", "lost"}
      /\ path'.sender = path.sender /\ path'.asked = path.asked
      /\ path'.filter = path.filter /\ path'.translated = path.translated
      /\ path'.nat = path.nat /\ UNCHANGED <<policy, route, table>>
    BY DEF Inv, TypeOK, Route
<1>2. packet.oif = NoUplink /\ ~path.translated /\ packet \in Packets
    BY <1>1 DEF Inv, Routed, Masked, Entered
<1>3. \/ packet' = packet
      \/ \E i \in Bridges \cup Wans \cup {NoUplink} : packet' = [packet EXCEPT !.oif = i]
    BY <1>0, ZoneBridges DEF Route, Toward
<1>4. /\ packet' \in Packets
      /\ packet'.iif = packet.iif /\ packet'.src = packet.src /\ packet'.dst = packet.dst
      /\ packet'.proto = packet.proto /\ packet'.port = packet.port
      /\ packet'.dnat = packet.dnat
    BY <1>2, <1>3 DEF Packets
<1>5. TypeOK'
    BY <1>1, <1>4 DEF Inv, TypeOK, Route
<1>6. Entered'
    BY <1>1, <1>4 DEF Inv, Entered, Running, At
<1>7. Redirect'
    BY <1>1, <1>4 DEF Inv, Redirect, RedirectedBy
<1>8. Routed'
    <2>1. CASE packet.dst \in Local /\ UNCHANGED packet /\ path'.at = "input"
        BY <1>1, <1>2, <2>1 DEF Routed, Local
    <2>2. CASE /\ path'.at = "forward"
               /\ \E z \in policy.zones : packet.dst \in Members(z.ipv4) /\ packet' = Toward(z)
        <3>1. PICK z \in policy.zones : packet.dst \in Members(z.ipv4) /\ packet' = Toward(z)
            BY <2>2
        <3>2. packet'.oif = z.bridge
            BY <1>2, <3>1 DEF Toward, Packets
        <3>3. ToZone(z)' /\ packet'.oif # NoUplink
            BY <1>0, <1>4, <3>1, <3>2, ZoneBridges DEF ToZone
        <3> QED BY <1>1, <2>2, <3>3 DEF Routed
    <2>3. CASE /\ path'.at = IF route = NoUplink THEN "lost" ELSE "forward"
               /\ \A z \in policy.zones : packet.dst \notin Members(z.ipv4)
               /\ packet' = [packet EXCEPT !.oif = route]
        <3>1. packet'.oif = route
            BY <1>2, <2>3 DEF Packets
        <3> QED BY <1>0, <1>1, <1>4, <2>3, <3>1 DEF Routed
    <2> QED BY <1>1, <2>1, <2>2, <2>3 DEF Route, Inv, TypeOK
<1>9. Judged' /\ Masked'
    BY <1>1, <1>2 DEF Judged, Masked
<1> QED BY <1>1, <1>5, <1>6, <1>7, <1>8, <1>9 DEF Inv

\* What a hook that leaves the packet alone preserves.
LEMMA HookStep ==
    ASSUME Inv, UNCHANGED <<policy, route, table, packet>>,
           NEW next \in {"postrouting", "host", "dropped", "sent"},
           NEW t \in BOOLEAN, NEW f \in Tables, NEW n \in Tables, Sound(n),
           path.at # "gone",
           path' = [path EXCEPT !.at = next, !.filter = f, !.translated = t, !.nat = n]
    PROVE  /\ TypeOK' /\ Entered' /\ Redirect' /\ ValidPolicy(Base(policy))'
           /\ Sound(table)' /\ Sound(path.nat)'
           /\ path'.at = next /\ path'.filter = f /\ path'.translated = t /\ path'.nat = n
<1>1. /\ path'.at = next /\ path'.filter = f /\ path'.translated = t /\ path'.nat = n
      /\ path'.sender = path.sender /\ path'.asked = path.asked
    BY DEF Inv, TypeOK
<1>2. TypeOK'
    BY DEF Inv, TypeOK
<1>3. Entered' /\ Redirect'
    BY <1>1 DEF Inv, Entered, Redirect, RedirectedBy, Running, At
<1> QED BY <1>1, <1>2, <1>3 DEF Inv, Sound

LEMMA InputStep ==
    ASSUME Inv, Input
    PROVE  Inv'
<1>0. policy \in Policies
    BY PolicyType DEF Inv
<1> DEFINE accepted == table.kind = "none" \/ InputAccepts(InForce, packet)
           next == IF accepted THEN "host" ELSE "dropped"
<1>1. /\ path.at = "input" /\ UNCHANGED <<policy, route, table, packet>>
      /\ ~path.translated /\ packet.oif = NoUplink /\ packet.dst \in Local
      /\ table \in Tables /\ path.nat \in Tables /\ Sound(path.nat)
    BY DEF Input, Inv, Masked, Routed, TypeOK
<1>2. path' = [path EXCEPT !.at = next, !.filter = table, !.translated = FALSE, !.nat = path.nat]
    BY <1>1 DEF Input, Inv, TypeOK
<1>3. /\ next \in {"postrouting", "host", "dropped", "sent"}
      /\ accepted => next = "host"
      /\ ~accepted => next = "dropped"
    OBVIOUS
<1>4. InputAccepts(InForce, packet) <=> InputAccepts(policy, packet)
    <2> DEFINE r == Rules(table.uplink)
    <2>1. /\ r \in Policies /\ r.zones = policy.zones /\ r.flows = policy.flows
          /\ InForce = IF table.kind = "full" THEN r ELSE Base(r)
        BY <1>0, RulesInForce DEF Inv
    <2> HIDE DEF r
    <2>2. InputAccepts(InForce, packet) <=> InputAccepts(r, packet)
        BY <2>1, BaseInput
    <2> QED BY <2>1, <2>2 DEF InputAccepts, HostRule, OnBridge, ZoneInterfaces
<1>5. accepted <=> table.kind = "none" \/ InputAccepts(policy, packet)
    BY <1>4
<1> HIDE DEF accepted, next
<1>6. /\ TypeOK' /\ Entered' /\ Redirect' /\ ValidPolicy(Base(policy))'
      /\ Sound(table)' /\ Sound(path.nat)'
      /\ path'.at = next /\ path'.filter = table /\ ~path'.translated
    BY <1>1, <1>2, <1>3, HookStep, ZenonT(40)
<1>7. Routed' /\ Judged' /\ Masked'
    BY <1>1, <1>3, <1>5, <1>6 DEF Routed, Judged, Masked, Local
<1> QED BY <1>6, <1>7 DEF Inv

LEMMA ForwardStep ==
    ASSUME Inv, Forward
    PROVE  Inv'
<1>0. policy \in Policies
    BY PolicyType DEF Inv
<1> DEFINE accepted == table.kind = "none" \/ ForwardAccepts(InForce, packet)
           next == IF accepted THEN "postrouting" ELSE "dropped"
<1>1. /\ path.at = "forward" /\ UNCHANGED <<policy, route, table, packet>>
      /\ ~path.translated /\ packet.oif # NoUplink
      /\ table \in Tables /\ path.nat \in Tables /\ Sound(path.nat)
    BY DEF Forward, Inv, Masked, Routed, TypeOK
<1>2. path' = [path EXCEPT !.at = next, !.filter = table, !.translated = FALSE, !.nat = path.nat]
    BY <1>1 DEF Forward, Inv, TypeOK
<1>3. /\ next \in {"postrouting", "host", "dropped", "sent"}
      /\ accepted => next = "postrouting"
      /\ ~accepted => next = "dropped"
    OBVIOUS
<1> DEFINE r == Rules(table.uplink)
<1>r. /\ r \in Policies /\ r.flows = policy.flows /\ r.pubs = policy.pubs
      /\ InForce = IF table.kind = "full" THEN r ELSE Base(r)
    BY <1>0, RulesInForce DEF Inv
<1> HIDE DEF r
<1>4. accepted /\ table.kind # "none" => ForwardAccepts(r, packet)
    BY <1>r, BaseForward
<1>5. ~accepted => /\ \A f \in policy.flows : ~FlowRule(r, f, packet)
                   /\ packet.dnat => \A q \in policy.pubs : ~PublicationRule(r, q, packet)
    <2> SUFFICES ASSUME ~accepted
                 PROVE  /\ \A f \in policy.flows : ~FlowRule(r, f, packet)
                        /\ packet.dnat => \A q \in policy.pubs : ~PublicationRule(r, q, packet)
        OBVIOUS
    <2>1. InForce.flows = policy.flows
        BY <1>r, BaseFields
    <2>2. \A f \in policy.flows : ~FlowRule(r, f, packet)
        BY <1>r, <2>1, BaseForward DEF ForwardAccepts
    <2>3. packet.dnat => table.kind = "full"
        BY <1>1 DEF Inv, Redirect, Tables
    <2> QED BY <1>r, <2>2, <2>3 DEF ForwardAccepts
<1> HIDE DEF accepted, next
<1>6. /\ TypeOK' /\ Entered' /\ Redirect' /\ ValidPolicy(Base(policy))'
      /\ Sound(table)' /\ Sound(path.nat)'
      /\ path'.at = next /\ path'.filter = table /\ ~path'.translated
    BY <1>1, <1>2, <1>3, HookStep, ZenonT(40)
<1>7. Routed'
    BY <1>1, <1>3, <1>6 DEF Inv, Routed, ToZone
<1>8. Judged' /\ Masked'
    <2>1. path'.filter.uplink = table.uplink /\ policy' = policy
        BY <1>1, <1>6
    <2> QED BY <1>1, <1>3, <1>4, <1>5, <1>6, <2>1 DEF Judged, Masked, r, Rules
<1> QED BY <1>6, <1>7, <1>8 DEF Inv

LEMMA PostroutingStep ==
    ASSUME Inv, Postrouting
    PROVE  Inv'
<1>0. policy \in Policies
    BY PolicyType DEF Inv
<1> DEFINE masked == table.kind # "none" /\ Masquerades(InForce, packet)
<1>1. /\ path.at = "postrouting" /\ UNCHANGED <<policy, route, table, packet>>
      /\ packet.oif # NoUplink /\ path.filter \in Tables /\ table \in Tables
      /\ Sound(table)
    BY DEF Postrouting, Inv, Routed, TypeOK
<1>2. path' = [path EXCEPT !.at = "sent", !.filter = path.filter, !.translated = masked,
                           !.nat = table]
    BY <1>1 DEF Postrouting, Inv, TypeOK
<1>3. masked \in BOOLEAN
    OBVIOUS
<1>4. masked <=> table.kind # "none" /\ Masquerades(Rules(table.uplink), packet)
    BY <1>0, RulesInForce, BaseMasquerades DEF Inv
<1> HIDE DEF masked
<1>6. /\ TypeOK' /\ Entered' /\ Redirect' /\ ValidPolicy(Base(policy))'
      /\ Sound(table)' /\ Sound(path.nat)'
      /\ path'.at = "sent" /\ path'.filter = path.filter /\ path'.translated = masked
      /\ path'.nat = table
    BY <1>1, <1>2, <1>3, HookStep
<1>7. Routed' /\ Masked'
    BY <1>1, <1>4, <1>6 DEF Routed, Masked, Rules
<1>8. Judged'
    BY <1>1, <1>6 DEF Inv, Judged, Rules
<1> QED BY <1>6, <1>7, <1>8 DEF Inv

LEMMA GoneStep ==
    ASSUME Inv, Gone
    PROVE  Inv'
<1>1. /\ path' = Idle /\ path'.at = "gone" /\ path'.sender = "nobody" /\ ~path'.translated
      /\ path'.nat = NoTable /\ packet' = Nothing /\ ~packet'.dnat
      /\ UNCHANGED <<policy, route, table>>
    BY DEF Gone, Idle, Nothing
<1>2. TypeOK'
    BY <1>1, IdleType DEF Inv, TypeOK
<1>3. Entered'
    BY <1>1, TrafficAssumption DEF Entered, Idle
<1>4. Redirect' /\ Routed' /\ Judged' /\ Masked'
    BY <1>1 DEF Redirect, Routed, Judged, Masked
<1> QED BY <1>1, <1>2, <1>3, <1>4, IdleType DEF Inv

LEMMA NextInv == Inv /\ [Next]_vars => Inv'
<1> SUFFICES ASSUME Inv, [Next]_vars PROVE Inv'
    OBVIOUS
<1>0. policy \in Policies
    BY PolicyType DEF Inv
<1>t. route \in Wans \cup {NoUplink} /\ Sound(table)
    BY DEF Inv, TypeOK
<1>1. CASE Apply
    <2>0. Uplink \in Wans \cup {NoUplink}
        BY <1>0, <1>t, UplinkType
    <2>1. Sound(table') /\ table'.kind = "full"
        BY <1>1, <2>0 DEF Apply, Tables, Sound
    <2> QED BY <1>t, <1>1, <2>1, TableStep DEF Apply
<1>2. CASE Flushed
    <2>1. Sound(table') /\ table'.kind = "none"
        BY <1>2, IdleType DEF Flushed, NoTable, Sound
    <2> QED BY <1>t, <1>2, <2>1, TableStep DEF Flushed
<1>3. CASE \E v \in VMs : SentByVM(v)
    <2>0. PICK v \in VMs : SentByVM(v)
        BY <1>3
    <2>1. PICK i \in Bridges, src \in {policy.leases[v].v4, Outside} :
              path.at = "gone" /\ v \in Running /\ At(v, i) /\ Sent(v, i, src)
        BY <2>0 DEF SentByVM
    <2>2. src \in Nat
        BY <1>0, <2>1, TrafficAssumption DEF Running, Policies, Addressing
    <2> QED BY <2>1, <2>2, SentStep
<1>4. CASE SentFromOutside
    BY <1>4, SentStep, TrafficAssumption DEF SentFromOutside
<1>5. CASE Prerouting
    BY <1>5, PreroutingStep
<1>6. CASE Route
    BY <1>6, RouteStep
<1>7. CASE Input
    BY <1>7, InputStep
<1>8. CASE Forward
    BY <1>8, ForwardStep
<1>9. CASE Postrouting
    BY <1>9, PostroutingStep
<1>10. CASE Gone
    BY <1>10, GoneStep
<1>11. CASE UNCHANGED vars
    BY <1>t, <1>11, TableStep DEF vars
<1>12. CASE RouteMoves
    BY <1>t, <1>12, TableStep DEF RouteMoves
<1> QED BY <1>12, <1>1, <1>2, <1>3, <1>4, <1>5, <1>6, <1>7, <1>8, <1>9, <1>10, <1>11 DEF Next

LEMMA Invariance == Spec => []Inv
BY InitInv, NextInv, PTL DEF Spec

-----------------------------------------------------------------------------
(* What the invariant says of packets *)

\* A packet of a VM that a flow rule accepts is permitted by the flow.
LEMMA FlowRulePermits ==
    ASSUME Inv, NEW v \in VMs, path.sender = v, NEW u \in Wans \cup {NoUplink},
           NEW f \in policy.flows, FlowRule(Rules(u), f, packet)
    PROVE  /\ f.from = ZoneOf(v)
           /\ packet.oif \in Wans => f.to = "internet" /\ Permitted(ZoneOf(v), "internet")
           /\ \A n : OnBridge(policy, n, packet.oif) => Permitted(ZoneOf(v), n)
<1>0. policy \in Policies /\ ValidZones(policy.zones)
    BY PolicyType, ZonesValid DEF Inv
<1>1. /\ Rules(u).uplink = u
      /\ \A n, i : OnBridge(Rules(u), n, i) <=> OnBridge(policy, n, i)
    BY <1>0, WithFields DEF Rules, OnBridge
<1>2. f.from = ZoneOf(v)
    BY <1>0, <1>1, OneZonePerBridge DEF Inv, Entered, At, ZoneOf, FlowRule
<1>3. ASSUME packet.oif \in Wans
      PROVE  f.to = "internet" /\ Permitted(ZoneOf(v), "internet")
    <2>1. f.to = "internet"
        BY <1>0, <1>1, <1>3, ZoneOnBridge DEF FlowRule
    <2> QED BY <1>2, <2>1 DEF FlowRule, Permitted
<1>4. ASSUME NEW n, OnBridge(policy, n, packet.oif)
      PROVE  Permitted(ZoneOf(v), n)
    <2>1. packet.oif \notin Wans /\ packet.oif # NoUplink
        BY <1>0, <1>4, ZoneOnBridge
    <2>2. f.to # "internet"
        BY <1>1, <2>1 DEF FlowRule, Leaves
    <2>3. f.to = n
        BY <1>0, <1>1, <1>4, <2>2, OneZonePerBridge DEF FlowRule
    <2> QED BY <1>2, <2>3 DEF FlowRule, Permitted
<1> QED BY <1>2, <1>3, <1>4

\* What a VM sends is accepted by a flow rule, or by none.
LEMMA AcceptedByFlow ==
    ASSUME Inv, NEW v \in VMs, path.sender = v, NEW u \in Wans \cup {NoUplink},
           ForwardAccepts(Rules(u), packet)
    PROVE  \E f \in policy.flows : FlowRule(Rules(u), f, packet)
<1>0. policy \in Policies
    BY PolicyType DEF Inv
<1> DEFINE r == Rules(u)
<1>1. /\ r \in Policies /\ r.flows = policy.flows /\ r.uplink \in Wans \cup {NoUplink}
      /\ r.zones = policy.zones
    BY <1>0, WithFields DEF Rules
<1> HIDE DEF r
<1>2. OnBridge(r, ZoneOf(v), packet.iif) /\ ~packet.dnat
    BY <1>1 DEF Inv, Entered, At, ZoneOf, OnBridge
<1>3. packet.iif \in ZoneInterfaces(r)
    BY <1>1, <1>2, ZoneOnBridge
<1>4. ForwardAccepts(r, packet)
    BY DEF r
<1>5. \E f \in policy.flows : FlowRule(r, f, packet)
    BY <1>1, <1>2, <1>3, <1>4 DEF ForwardAccepts, PublicationRule, ForwardDrops
<1> QED BY <1>5 DEF r

LEMMA FilterUplink == Inv => path.filter.uplink \in Wans \cup {NoUplink}
BY DEF Inv, TypeOK, Tables

LEMMA InvPassed == Inv => PassedIsDeclared
<1> SUFFICES ASSUME Inv, path.filter.kind # "none" PROVE PassedIsDeclared
    BY DEF PassedIsDeclared
<1> DEFINE u == path.filter.uplink
<1>0. policy \in Policies /\ ValidZones(policy.zones) /\ Running \subseteq VMs
      /\ u \in Wans \cup {NoUplink}
    BY PolicyType, ZonesValid, FilterUplink DEF Inv, Running
<1> DEFINE r == Rules(u)
<1>r. /\ r \in Policies /\ r.uplink = u /\ r.zones = policy.zones /\ r.flows = policy.flows
      /\ r.pubs = policy.pubs /\ r.leases = policy.leases
    BY <1>0, WithFields DEF Rules
<1>f. path.at \in {"postrouting", "sent"} => ForwardAccepts(r, packet)
    BY DEF Inv, Judged
<1>1. ASSUME NEW v \in Running, NEW w \in Running, path.sender = v, ArrivesAt(w)
      PROVE  Permitted(ZoneOf(v), ZoneOf(w))
    <2>1. PICK f \in policy.flows : FlowRule(r, f, packet)
        BY <1>0, <1>f, <1>1, AcceptedByFlow DEF ArrivesAt
    <2> QED BY <1>0, <1>1, <2>1, FlowRulePermits DEF ArrivesAt, At, ZoneOf
<1>2. ASSUME NEW w \in Running, path.sender = "internet", ArrivesAt(w)
      PROVE  /\ packet.dnat /\ Published(w) # {}
             /\ Doubled(w) \/ AskedFor(w) # {}
    <2>1. packet.iif \in Wans /\ ForwardAccepts(r, packet)
        BY <1>f, <1>2 DEF Inv, Entered, ArrivesAt
    <2> HIDE DEF r
    <2>2. OnBridge(r, r.leases[w].zone, packet.oif)
        BY <1>r, <1>2 DEF ArrivesAt, At, OnBridge
    <2>3. packet.oif \in ZoneInterfaces(r)
        BY <1>r, <2>2, ZoneOnBridge
    <2>4. PICK q \in policy.pubs : PublicationRule(r, q, packet)
        BY <1>r, <2>1, <2>3, ZoneOnBridge DEF ForwardAccepts, FlowRule, ForwardDrops
    <2>5. q.vm \in VMs
        BY <1>0 DEF Policies, Publications
    <2>6. policy.leases[q.vm].zone = policy.leases[w].zone
        BY <1>0, <1>r, <2>2, <2>4, OneZonePerBridge DEF PublicationRule
    <2>7. q.vm = w
        BY <1>0, <1>r, <1>2, <2>4, <2>5, <2>6, TrafficAssumption
           DEF PublicationRule, ArrivesAt, Inv, TypeOK, Running
    <2>8. packet.dnat /\ q \in Published(w)
        BY <2>4, <2>7 DEF PublicationRule, Published
    <2>9. PICK s \in policy.pubs : RedirectedBy(s)
        BY <1>2, <2>8 DEF Inv, Redirect, ArrivesAt
    <2>10. CASE s.vm = w
        BY <2>8, <2>9, <2>10 DEF RedirectedBy, AskedFor, Published
    <2>11. CASE s.vm # w
        <3>1. s.vm \in VMs \ {w}
            BY <1>0, <2>11 DEF Policies, Publications
        <3>2. policy.leases[s.vm] # NoLease /\ policy.leases[s.vm].v4 = policy.leases[w].v4
            BY <1>2, <2>9 DEF RedirectedBy, ArrivesAt
        <3> QED BY <2>8, <3>1, <3>2 DEF Doubled
    <2> QED BY <2>8, <2>10, <2>11
<1>3. ASSUME NEW v \in Running, path.sender = v, path.at = "host"
      PROVE  Permitted(ZoneOf(v), "host")
    <2>1. OnBridge(policy, ZoneOf(v), packet.iif) /\ InputAccepts(policy, packet)
        BY <1>0, <1>3 DEF Inv, Entered, Judged, At, ZoneOf
    <2>2. PICK f \in policy.flows : HostRule(policy, f, packet)
        BY <1>0, <2>1, ZoneOnBridge DEF InputAccepts
    <2>3. f.from = ZoneOf(v)
        BY <1>0, <2>1, <2>2, OneZonePerBridge DEF HostRule
    <2> QED BY <2>2, <2>3 DEF HostRule, Permitted
<1>4. ASSUME NEW v \in Running, path.sender = v, path.at = "sent", packet.oif \in Wans
      PROVE  Permitted(ZoneOf(v), "internet")
    <2>1. PICK f \in policy.flows : FlowRule(r, f, packet)
        BY <1>0, <1>f, <1>4, AcceptedByFlow
    <2> QED BY <1>0, <1>4, <2>1, FlowRulePermits
<1> QED BY <1>1, <1>2, <1>3, <1>4 DEF PassedIsDeclared

\* The networks of two zones of a valid set have no address in common.
LEMMA OneZonePerAddress ==
    ASSUME NEW p \in Policies, ValidZones(p.zones), NEW y \in p.zones, NEW z \in p.zones,
           NEW x \in Nat, x \in Members(y.ipv4), x \in Members(z.ipv4)
    PROVE  y = z
<1>1. /\ y.ipv4.base \in Nat /\ y.ipv4.size \in Nat
      /\ z.ipv4.base \in Nat /\ z.ipv4.size \in Nat
    BY DEF Policies, ZonesOf, Prefixes
<1>2. Overlaps(y.ipv4, z.ipv4)
    BY <1>1 DEF Members, Overlaps
<1> QED BY <1>2 DEF ValidZones, Overlap

LEMMA HostIsMember ==
    ASSUME NEW p \in Policies, ValidZones(p.zones), NEW z \in p.zones
    PROVE  Host(z.ipv4) \in Members(z.ipv4)
<1>1. z.ipv4.base \in Nat /\ z.ipv4.size \in Nat /\ z.ipv4.size >= 4
    BY DEF Policies, ZonesOf, Prefixes, ValidZones, ValidZone
<1> QED BY <1>1 DEF Host, Members

LEMMA InvDropped == Inv => DroppedIsUndeclared
<1> SUFFICES ASSUME Inv, path.at = "dropped" PROVE DroppedIsUndeclared
    BY DEF DroppedIsUndeclared
<1>0. policy \in Policies /\ ValidZones(policy.zones) /\ Running \subseteq VMs
      /\ packet.dst \in Nat
    BY PolicyType, ZonesValid DEF Inv, Running, Entered, Packets
<1> DEFINE r == Rules(path.filter.uplink)
<1>r. /\ r \in Policies /\ r.uplink = path.filter.uplink /\ r.zones = policy.zones
      /\ r.leases = policy.leases
    BY <1>0, FilterUplink, WithFields DEF Rules
<1>d. packet.oif # NoUplink =>
          /\ \A f \in policy.flows : ~FlowRule(r, f, packet)
          /\ packet.dnat => \A q \in policy.pubs : ~PublicationRule(r, q, packet)
    BY DEF Inv, Judged
<1> HIDE DEF r
<1>b. \A n, i : OnBridge(r, n, i) <=> OnBridge(policy, n, i)
    BY <1>r DEF OnBridge
<1>1. ASSUME NEW v \in Running, path.sender = v
      PROVE  /\ packet.oif = NoUplink => ~Permitted(ZoneOf(v), "host")
             /\ packet.oif \in Wans =>
                   path.filter.uplink # packet.oif \/ ~Permitted(ZoneOf(v), "internet")
             /\ \A z \in policy.zones :
                   packet.oif = z.bridge /\ z.name \notin Pseudo
                   => ~Permitted(ZoneOf(v), z.name)
    <2>1. OnBridge(policy, ZoneOf(v), packet.iif)
        BY <1>0, <1>1 DEF Inv, Entered, At, ZoneOf
    <2>2. packet.oif = NoUplink => ~Permitted(ZoneOf(v), "host")
        BY <2>1 DEF Inv, Judged, InputAccepts, HostRule, Permitted
    <2>3. ASSUME packet.oif \in Wans, path.filter.uplink = packet.oif
          PROVE  ~Permitted(ZoneOf(v), "internet")
        <3>1. Leaves(r, packet) /\ packet.oif # NoUplink
            BY <1>r, <2>3, RulesetAssumption DEF Leaves
        <3> QED BY <1>d, <1>b, <2>1, <3>1 DEF FlowRule, Permitted
    <2>4. ASSUME NEW z \in policy.zones, packet.oif = z.bridge, z.name \notin Pseudo
          PROVE  ~Permitted(ZoneOf(v), z.name)
        <3>1. packet.oif # NoUplink /\ OnBridge(policy, z.name, packet.oif)
            BY <1>0, <2>4, ZoneBridges DEF OnBridge
        <3>2. z.name # "host" /\ z.name # "internet"
            BY <2>4 DEF Pseudo
        <3> QED BY <1>d, <1>b, <2>1, <3>1, <3>2 DEF FlowRule, Permitted
    <2> QED BY <2>2, <2>3, <2>4
<1>2. ASSUME packet.dnat, path.filter.uplink = packet.iif
      PROVE  \E w \in VMs : AskedFor(w) # {} /\ ~Homed(w)
    <2>1. PICK q \in policy.pubs : RedirectedBy(q)
        BY <1>2 DEF Inv, Redirect
    <2>2. q.vm \in VMs
        BY <1>0 DEF Policies, Publications
    <2>3. q \in AskedFor(q.vm)
        BY <2>1 DEF RedirectedBy, AskedFor, Published
    <2>4. ASSUME Homed(q.vm) PROVE FALSE
        <3>1. PICK z \in policy.zones :
                  /\ z.name = policy.leases[q.vm].zone
                  /\ packet.dst \in Members(z.ipv4) /\ packet.dst # Host(z.ipv4)
            BY <2>1, <2>4 DEF Homed, RedirectedBy
        <3>2. CASE packet.oif = NoUplink
            <4>1. packet.dst \in Local
                BY <3>2 DEF Inv, Routed
            <4>2. packet.dst # Public
                BY <3>1, TrafficAssumption DEF Inv, TypeOK
            <4>3. PICK y \in policy.zones : packet.dst = Host(y.ipv4)
                BY <4>1, <4>2 DEF Local
            <4>4. y = z
                BY <1>0, <3>1, <4>3, HostIsMember, OneZonePerAddress
            <4> QED BY <3>1, <4>3, <4>4
        <3>3. CASE packet.oif # NoUplink
            <4>1. PICK y \in policy.zones : ToZone(y)
                BY <3>1, <3>3 DEF Inv, Routed
            <4>2. y = z
                BY <1>0, <3>1, <4>1, OneZonePerAddress DEF ToZone
            <4>3. OnBridge(policy, policy.leases[q.vm].zone, packet.oif)
                BY <3>1, <4>1, <4>2 DEF OnBridge, ToZone
            <4>4. r.uplink # NoUplink
                BY <1>r, <1>2, <2>1, RulesetAssumption DEF RedirectedBy
            <4>5. PublicationRule(r, q, packet)
                BY <1>r, <1>b, <1>2, <2>1, <4>3, <4>4 DEF PublicationRule, RedirectedBy
            <4> QED BY <1>d, <1>2, <3>3, <4>5
        <3> QED BY <3>2, <3>3
    <2> QED BY <2>2, <2>3, <2>4
<1> QED BY <1>1, <1>2 DEF DroppedIsUndeclared

LEMMA InvTranslated == Inv => EgressTranslated
<1> SUFFICES ASSUME Inv PROVE EgressTranslated
    OBVIOUS
<1>0. policy \in Policies /\ ValidZones(policy.zones) /\ Running \subseteq VMs
    BY PolicyType, ZonesValid DEF Inv, Running
<1> DEFINE r == Rules(path.nat.uplink)
<1>r. r.uplink = path.nat.uplink /\ r.zones = policy.zones /\ r.flows = policy.flows
    <2>1. path.nat.uplink \in Wans \cup {NoUplink}
        BY DEF Inv, TypeOK, Tables
    <2> QED BY <1>0, <2>1, WithFields DEF Rules
<1>m. path.at = "sent" /\ path.nat.kind # "none" /\ Masquerades(r, packet) =>
          path.translated
    BY DEF Inv, Masked
<1> HIDE DEF r
<1>1. ASSUME path.at = "sent", packet.oif \in Wans, path.filter.kind # "none",
             path.nat.uplink = packet.oif,
             NEW v \in Running, path.sender = v, packet.src = policy.leases[v].v4, Homed(v)
      PROVE  path.translated
    <2>0. path.nat.kind # "none" /\ packet.oif # NoUplink
        BY <1>1, RulesetAssumption DEF Inv, Sound
    <2>1. PICK f \in policy.flows : FlowRule(Rules(path.filter.uplink), f, packet)
        BY <1>0, <1>1, AcceptedByFlow, FilterUplink DEF Inv, Judged
    <2>2. f.from = ZoneOf(v) /\ f.to = "internet"
        BY <1>0, <1>1, <2>1, FlowRulePermits, FilterUplink
    <2>3. Masquerades(r, packet)
        BY <1>r, <1>1, <2>0, <2>2 DEF Masquerades, EgressZones, Homed, ZoneOf, Leaves
    <2> QED BY <1>m, <1>1, <2>0, <2>3
<1> QED BY <1>1 DEF EgressTranslated

-----------------------------------------------------------------------------

\* The variables keep their types.
THEOREM TypeCorrect == Spec => []TypeOK
<1>1. Inv => TypeOK
    BY DEF Inv
<1> QED BY <1>1, Invariance, PTL

\* Whatever the policy and whenever the table is replaced, nothing passes
\* between VMs, to the host, out or in that no flow and no publication declares.
THEOREM OnlyDeclaredPasses == Spec => []PassedIsDeclared
BY Invariance, InvPassed, PTL

\* What the rules drop was not declared, but for leases that left the network of
\* their zone and flows to a zone named "internet" or "host".
THEOREM DeclaredIsNotDropped == Spec => []DroppedIsUndeclared
BY Invariance, InvDropped, PTL

\* What a VM sends out from its own address under the rules is translated.
THEOREM EgressIsTranslated == Spec => []EgressTranslated
BY Invariance, InvTranslated, PTL

=============================================================================
