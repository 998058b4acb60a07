\* Two workers and the main thread write messages of every kind.
SPECIFICATION Spec
CONSTANTS
    NumWorkers = 2
    TestChoices <- MCTestChoices
    OutputChoices <- MCOutputs
INVARIANTS
    TypeOK
    OutputIsJson
    MessagesGoToLogs
    StatusIsSound
    DamagedArchiveIsNotRead
