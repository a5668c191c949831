\* Finding: a VM started again after a crash has no supervisor.
SPECIFICATION Spec
CONSTANTS
    Names = {n1}
    NoName = NoName
    Callers = {c1}
    Sups = {s1, s2}
    NoSup = NoSup
    Ops = {"create", "start"}
    RestartChoices = {FALSE}
    Faults = {}
    Rests = {rest0}
    Earlier = {}
    IdentityMin = 1
    IdentityMax = 1
    BackoffMin = 1
    BackoffMax = 1
INVARIANTS
    SupervisedWhileRunning
SYMMETRY Goroutines
