\* Loss-free network with duplicates and premature timeouts: both ends reach CLOSED.
CONSTANTS
    FileSize = 5
    ChunkSize = 2
    Lossy = FALSE
    Reorder = FALSE
    IcmpErrors = FALSE
    MaxDup = 1
    MaxPremature = 2
    RttSamples = {0, 20}
SPECIFICATION FairSpec
PROPERTIES Termination
