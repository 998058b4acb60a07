\* Five entries: a ring of three with a tail of two, or two rings and an item.
SPECIFICATION FairSpec
CONSTANT NumEntries = 5
INVARIANTS
    TypeOK
    StatusSound
    ReportedExactly
PROPERTIES
    Termination
