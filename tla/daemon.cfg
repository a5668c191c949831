\* A VM that is relaunched, one that is not and one of an earlier daemon; every fault
\* but an unreadable table.
SPECIFICATION FairSpec
CONSTANTS
    VMs = {v1, v2, v3}
    Requested = {v1, v2}
    Zones = {z1}
    Declared = {z1}
    ZoneOf <- OneZone
    Earlier <- EarlierRuns
    Restarted = {v1}
    Published = TRUE
    Reconciles = {TRUE, FALSE}
    Keeps = {TRUE, FALSE}
    Mishaps = 2
    Faults = {"nft", "link", "vm", "crash", "tamper", "unplug"}
INVARIANTS
    TypeOK
    Isolated
    NothingLeft
PROPERTIES
    IsolationRestored
    BridgesRestored
    RelaunchedAtLast
\* The daemon ends.
CHECK_DEADLOCK FALSE
