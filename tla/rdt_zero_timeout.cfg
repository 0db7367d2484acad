\* A localhost transfer: every RTT sample is 0 ms. 33 DATA segments (65 bytes
\* in 2-byte chunks, the last one short, so no empty chunk) give 32 samples
\* before the last segment is sent. Loss is left out: the property is about
\* the timer the sender would need if a segment were lost.
CONSTANTS
    FileSize = 65
    ChunkSize = 2
    Lossy = FALSE
    Reorder = FALSE
    IcmpErrors = FALSE
    MaxDup = 0
    MaxPremature = 0
    RttSamples = {0}
SPECIFICATION Spec
INVARIANTS RetransmitArmed
CHECK_DEADLOCK FALSE
