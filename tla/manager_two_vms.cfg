\* Two callers and a supervisor, two VMs that are relaunched, and one identity for
\* both.  No call overlaps a launch of its VM, so a step may have to wait for ever.  Delete
\* runs the whole of Stop.
SPECIFICATION OrderlySpec
CONSTANTS
    Names = {n1, n2}
    NoName = NoName
    Callers = {c1, c2}
    Sups = {s1}
    NoSup = NoSup
    Ops = {"ensure", "start", "delete", "identity"}
    RestartChoices = {TRUE}
    Faults = {"launch"}
    Rests = {rest0}
    Earlier = {"running", "failed"}
    IdentityMin = 1
    IdentityMax = 1
    BackoffMin = 1
    BackoffMax = 1
INVARIANTS
    IdentitiesDistinct
    StoppedMeansDown
    DiskCurrent
SYMMETRY Everyone
CHECK_DEADLOCK FALSE
