---------------------------- MODULE MCAllocation ----------------------------
(***************************************************************************)
(* Allocation for TLC: up to two zones of three networks, one of them      *)
(* wider than an octet, with an IPv6 prefix of their own or not.  The one  *)
(* that may be declared is the one derived from the index 1.               *)
(***************************************************************************)
EXTENDS Allocation, TLC

Networks == {[base |-> 0, size |-> 4], [base |-> 16, size |-> 4], [base |-> 24, size |-> 8]}
Declared6 == {NoPrefix, [base |-> 68, size |-> 4]}

Declared == {[name |-> n, bridge |-> n, ipv4 |-> p, ipv6 |-> q] :
                n \in ZoneNames, p \in Networks, q \in Declared6}
Declarations1or2 == {{y, z} : y, z \in Declared}

AnyName == Permutations(VMs) \cup Permutations(ZoneNames)

=============================================================================
