\* All ways to cut up to eight bytes; suffixes of two letters, so that there
\* may be too few of them.
SPECIFICATION Spec
CONSTANTS
    MaxFileSize = 8
    MaxPartSizes <- MCPartSizes
    BufferSize = 2
    Letters = 2
INVARIANTS
    TypeOK
    PartsConcatenate
    PartsWellCut
    NamesInOrder
