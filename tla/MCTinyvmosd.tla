---------------------------- MODULE MCTinyvmosd -----------------------------
(***************************************************************************)
(* Tinyvmosd for TLC: every VM is in the same zone.  The VMs requested are *)
(* new or have a record from a daemon that did not stop them, as the other *)
(* VMs have; or they are all new.                                          *)
(***************************************************************************)
EXTENDS Tinyvmosd

EarlierRuns ==
    [v \in VMs |-> IF v \in Requested THEN {"absent", "running"} ELSE {"running"}]
AllNew == [v \in VMs |-> {"absent"}]

OneZone == [v \in VMs |-> CHOOSE z \in Zones : TRUE]

=============================================================================
