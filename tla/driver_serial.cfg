\* Two callers whose calls other than Wait come one at a time, with every failure
\* but a process that does not end.
SPECIFICATION Spec
CONSTANTS
    Calls = {c1, c2}
    Instances = {i1, i2}
    Procs = {p1, p2, p3}
    None = None
    Ops = {"create", "start", "stop", "delete", "wait"}
    OneByOne = TRUE
    Faults = {"launch", "remove"}
INVARIANTS
    TypeOK
    OneProcess
    NoProcessLost
    DoneMeansEnded
PROPERTIES
    JailRemovalSafe
    ImplementsContract
SYMMETRY Interchangeable
\* Nobody has to call the driver.
CHECK_DEADLOCK FALSE
