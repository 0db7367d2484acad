\* A LIST, a PLAY and a STOP from a client that may disconnect at any point,
\* against a socket buffer smaller than a chunk pair.
CONSTANTS CHUNK_SIZE = 2  SockBuf = 2  HdrLen = 1  ClientCloses = TRUE
CONSTANTS BodyLen <- MCBodyLen  Requests <- MCListPlayStop
SPECIFICATION Spec
INVARIANTS SendingConsistent NoByteTwice
CHECK_DEADLOCK FALSE
