SPECIFICATION FairSpec
CONSTANTS
    a = a
    b = b
    long = long
    Names = {a, b, long}
    name_to_83 <- CutNames
    Stray <- LastClusters
    MaxSize = 2
    total_clusters = 2
    EntriesPerSector = 3
    RootEntries = 4
    EntriesPerDirSector = 2
    MaxFailures = 1
INVARIANTS FilesIntact FatConsistent ChainsApart
PROPERTY OperationsEnd
