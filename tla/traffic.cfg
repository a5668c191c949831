SPECIFICATION Spec
CONSTANTS
    Octet = 8
    VMs = {"v1", "v2", "v3"}
    ZoneNames = {"a", "b", "internet", "host"}
    Bridges = {"br-a", "br-b"}
    Ports = {1, 2}
    NoPort = 0
    NoLease = NoLease
    Wans = {"wan", "lte"}
    NoUplink = "none"
    PolicyChoices <- AllPolicies
    Public = 30
    Outside = 31
INVARIANTS
    TypeOK
    PassedIsDeclared
    DroppedIsUndeclared
    EgressTranslated
