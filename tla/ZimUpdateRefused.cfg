\* The diff files have the metadata that zimdiff writes.
SPECIFICATION Spec
CONSTANTS
    Histories <- MCOneStep
    OtherMetadata = {}
PROPERTY OwnDiffApplies
CHECK_DEADLOCK FALSE
