\* One program or three in a row, on small archives and directories.
SPECIFICATION Spec
CONSTANTS
    Encoded <- MCEncoded
    MaxSymlinks = 3
    Base <- MCBase
    LongNames <- MCLongNames
    LongerNames = {"html2"}
    Scenarios <- MCScenarios
INVARIANTS
    TypeOK
    RecreateKeeps
    Unpacks
    Packs
    PassesZimcheck
CHECK_DEADLOCK FALSE
