\* One PLAY from a client that stays connected: is the song received intact?
CONSTANTS CHUNK_SIZE = 2  SockBuf = 2  HdrLen = 1  ClientCloses = FALSE
CONSTANTS BodyLen <- MCBodyLen  Requests <- MCPlay
SPECIFICATION Spec
INVARIANT StreamIntegrity
CHECK_DEADLOCK FALSE
