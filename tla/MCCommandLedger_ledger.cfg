CONSTANTS
    Grounds = {g1, g2}
    MaxRequestId = 2
    ClientKeys = {k1}
    Bodies = {b1, b2}
    Products = {p1}
    Transfers = {1}
    FileReports = {"RECEIVING", "VERIFIED"}
    None = None
    Capacity = 2
    Retention = 1
    PendingTTL = 1
    MaxOrdinal = 2
    MaxTime = 2
SYMMETRY NameSymmetry
SPECIFICATION Spec
INVARIANTS
    UniqueRows
    FileStateIsOwn
    NothingStranded
PROPERTIES
    NoKeyReuse
    OneCommandPerKey
    TransferOnlyAdvances
CHECK_DEADLOCK FALSE
