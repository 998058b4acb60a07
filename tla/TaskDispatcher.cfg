\* Two workers with short queues: both ends of a queue block often.
SPECIFICATION FairSpec
CONSTANTS
    NumEntries = 5
    ClusterOf <- MCClusterOf
    NumStreams = 2
    MAX_SIZE = 2
    Throwing = {3}
    SpuriousSides = {"main"}
INVARIANTS
    TypeOK
    WaitersAreBlocked
    ClusterAffinity
    AllTasksComplete
PROPERTIES
    ImplementsDelivery
    Termination
