SPECIFICATION Spec
CONSTANTS
    Octet = 4
    VMs = {v1, v2, v3}
    ZoneNames = {a, b, c}
    NoLease = NoLease
    Declarations <- Declarations1or2
    ULAs = {64, 128}
    ZoneSize = 4
    MaxIndex = 2
INVARIANTS
    TypeOK
    LeasesDistinct
    LeasesUsable
    IndicesDistinct
    CurrentAddressesDistinct
PROPERTIES
    AddressingKept
SYMMETRY AnyName
