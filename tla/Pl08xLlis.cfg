SPECIFICATION FairSpec
CONSTANTS
    Boundary = 8
    TransferMask = 9
    MaxLlis = 14
    MaxLen = 20
    Txds <- TestTxds
INVARIANTS
    CopiesExactly
    ListExecutable
    WholeWords
    TableHolds
    ByteResidueExact
PROPERTIES
    Finishes
CHECK_DEADLOCK FALSE
