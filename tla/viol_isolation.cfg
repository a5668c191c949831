\* Finding: when a VM cannot be started, those that run lose their firewall.
SPECIFICATION Spec
CONSTANTS
    VMs = {v1, v2}
    Requested = {v1, v2}
    Zones = {z1}
    Declared = {z1}
    Earlier <- AllNew
    ZoneOf <- OneZone
    Restarted = {}
    Published = FALSE
    Reconciles = {FALSE}
    Keeps = {FALSE}
    Mishaps = 1
    Faults = {"vm"}
INVARIANTS
    IsolatedWhileRunning
\* The daemon ends.
CHECK_DEADLOCK FALSE
