\* Saves interrupted by failures, kills and power cuts.
SPECIFICATION Spec
CONSTANTS
    Bodies = {b0, b1}
    NewBody = b0
    SchemaVersion = 1
    Temps = {t1, t2}
    Inodes = {i1, i2, i3}
    NoInode = NoInode
    NoState = NoState
    Empty = Empty
    Partial = Partial
    Faults = {"io", "remove", "kill", "power"}
INVARIANTS
    TypeOK
PROPERTIES
    ImplementsPromise
    LaterStateKept
SYMMETRY Names
