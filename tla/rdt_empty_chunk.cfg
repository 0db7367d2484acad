\* File size a multiple of the chunk size: sender.cpp sends an empty last chunk.
CONSTANTS
    FileSize = 4
    ChunkSize = 2
    Lossy = FALSE
    Reorder = FALSE
    IcmpErrors = FALSE
    MaxDup = 0
    MaxPremature = 1
    RttSamples = {20}
SPECIFICATION FairSpec
PROPERTIES Termination
