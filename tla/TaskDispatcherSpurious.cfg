\* std::condition_variable::wait() may return spuriously in workers as well.
SPECIFICATION FairSpec
CONSTANTS
    NumEntries = 1
    ClusterOf <- MCOneCluster
    NumStreams = 1
    MAX_SIZE = 1
    Throwing = {}
    SpuriousSides = {"main", "worker"}
INVARIANT AllTasksComplete
