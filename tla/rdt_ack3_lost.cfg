\* Lossy FIFO network, fair receivers and timers: connect_to_remote sends the
\* handshake's ACK(3) once, so losing it leaves the receiver in the handshake
\* while the sender is already in send_until_acked, and neither side ends.
CONSTANTS
    FileSize = 1
    ChunkSize = 2
    Lossy = TRUE
    Reorder = FALSE
    IcmpErrors = FALSE
    MaxDup = 0
    MaxPremature = 0
    RttSamples = {20}
SPECIFICATION FairSpec
PROPERTIES HandshakeCompletes
