\* Finding: a relaunch under way survives Stop.
SPECIFICATION Spec
CONSTANTS
    Names = {n1}
    NoName = NoName
    Callers = {c1}
    Sups = {s1, s2}
    NoSup = NoSup
    Ops = {"create", "start", "stop"}
    RestartChoices = {TRUE}
    Faults = {}
    Rests = {rest0}
    Earlier = {}
    IdentityMin = 1
    IdentityMax = 1
    BackoffMin = 1
    BackoffMax = 1
PROPERTIES
    NoRelaunchOfStopped
SYMMETRY Goroutines
