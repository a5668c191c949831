\* Two callers and the supervisors of one VM, in every order; its record may be that
\* of an earlier daemon.
SPECIFICATION Spec
CONSTANTS
    Names = {n1}
    NoName = NoName
    Callers = {c1, c2}
    Sups = {s1, s2}
    NoSup = NoSup
    Ops = {"create", "start", "stop", "delete"}
    RestartChoices = {TRUE}
    Faults = {"prepare", "remove"}
    Rests = {rest0}
    Earlier = {"running", "failed"}
    IdentityMin = 1
    IdentityMax = 1
    BackoffMin = 1
    BackoffMax = 1
INVARIANTS
    SupControlled
    DiskCurrent
SYMMETRY Goroutines
