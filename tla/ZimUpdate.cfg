\* Two or three releases; the diff files have the metadata zimpatch looks for.
SPECIFICATION Spec
CONSTANTS
    Histories <- MCHistories
    OtherMetadata = {"layoutaurl"}
INVARIANTS
    TypeOK
    HasARelease
    OwnDiffsFit
PROPERTIES
    LossIsLocal
CHECK_DEADLOCK FALSE
