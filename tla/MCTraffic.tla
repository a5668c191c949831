----------------------------- MODULE MCTraffic ------------------------------
(***************************************************************************)
(* Traffic for TLC: two zones, a VM in each and one whose address is not   *)
(* of its zone (it is that of the VM in the other, of none, or the         *)
(* gateway's), four sets of flows and two of publications.  In a few       *)
(* policies more the second zone is named as an end that is not a zone.    *)
(***************************************************************************)
EXTENDS Traffic

Zone(n, b, x) == [name |-> n, bridge |-> b, ipv4 |-> [base |-> x, size |-> 8],
                  ipv6 |-> NoPrefix]
TwoZones == {Zone("a", "br-a", 0), Zone("b", "br-b", 8)}

Flow(x, y, proto, ports) == [from |-> x, to |-> y, proto |-> proto, ports |-> ports]
SomeFlows == {{Flow("a", "b", "tcp", {1}), Flow("b", "host", "udp", {1})},
              {Flow("b", "a", "any", {}), Flow("a", "internet", "udp", {})},
              {Flow("b", "internet", "tcp", {2}), Flow("a", "host", "icmp", {})},
              {Flow("host", "a", "tcp", {2})}}

Publish(v, x, y) == [vm |-> v, port |-> y, hostPort |-> x, proto |-> "tcp"]
SomePubs == {{Publish(v, 2, 1), Publish("v3", 1, 1)} : v \in {"v1", "v2"}}

Lease(n, x) == [zone |-> n, v4 |-> x]
LeasesIn(n) == {[v \in {"v1", "v2", "v3"} |->
                  CASE v = "v1" -> Lease("a", 2)
                    [] v = "v2" -> Lease(n, 10)
                    [] v = "v3" -> Lease("a", x)] : x \in {1, 10, 20}}

SomePolicies ==
    {[zones |-> TwoZones, flows |-> f, pubs |-> q, leases |-> l, uplink |-> u] :
        f \in SomeFlows, q \in SomePubs, l \in LeasesIn("b"), u \in {"wan", NoUplink}}

NamedAsPseudo ==
    UNION {[zones : {{Zone("a", "br-a", 0), Zone(n, "br-b", 8)}},
            flows : {{Flow("a", n, "tcp", {1})}, {Flow("host", "a", "any", {})}},
            pubs : {{}}, leases : LeasesIn(n), uplink : {NoUplink}] : n \in Pseudo}

AllPolicies == SomePolicies \cup NamedAsPseudo

=============================================================================
