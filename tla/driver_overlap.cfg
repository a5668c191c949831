\* Two calls at a time, and processes that outlive Stop.
SPECIFICATION FairSpec
CONSTANTS
    Calls = {c1, c2}
    Instances = {i1, i2}
    Procs = {p1, p2}
    None = None
    Ops = {"create", "start", "stop", "wait"}
    OneByOne = FALSE
    Faults = {"launch", "stuck"}
INVARIANTS
    WokenMayStart
PROPERTIES
    WaitReturns
    StopReturnsAtLast
\* Nobody has to call the driver.
CHECK_DEADLOCK FALSE
