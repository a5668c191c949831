\* One caller with every fault of the file and the hypervisor, around one VM of which an
\* earlier daemon may have left any record; a delay that doubling skips past.  Cancelled
\* supervisors end.
SPECIFICATION FairSpec
CONSTANTS
    Names = {n1}
    NoName = NoName
    Callers = {c1}
    Sups = {s1}
    NoSup = NoSup
    Ops = {"ensure", "start", "stop", "delete", "stopall", "withstate"}
    RestartChoices = {TRUE, FALSE}
    Faults = {"save", "prepare", "launch", "remove"}
    Rests = {rest0}
    Earlier = {"created", "starting", "running", "stopping", "stopped", "failed"}
    IdentityMin = 1
    IdentityMax = 1
    BackoffMin = 2
    BackoffMax = 3
INVARIANTS
    TypeOK
PROPERTIES
    CancelledExits
