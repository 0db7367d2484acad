\* Lossy, duplicating FIFO network with premature timeouts and ICMP errors
\* reported to the connected sockets: data transfer and close stay safe, the RTT
\* estimate stays in range, and every datagram in flight survives the codec
\* round trip. After an ICMP error one side
\* exits and the other may block in receive for ever, a real stop of the programs,
\* so deadlock is not checked here (rdt_live checks progress without ICMP).
CONSTANTS
    FileSize = 7
    ChunkSize = 2
    Lossy = TRUE
    Reorder = FALSE
    IcmpErrors = TRUE
    MaxDup = 2
    MaxPremature = 3
    RttSamples = {0, 20}
SPECIFICATION Spec
INVARIANTS TypeOK StreamInStep CloseSafety SmoothedWithinRange WireRoundTrip
CHECK_DEADLOCK FALSE
