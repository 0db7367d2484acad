\* PLAY, then STOP while the song is still being sent.
CONSTANTS CHUNK_SIZE = 2  SockBuf = 2  HdrLen = 1  ClientCloses = FALSE
CONSTANTS BodyLen <- MCBodyLen  Requests <- MCPlayStop
SPECIFICATION Spec
INVARIANT ServerSurvives
CHECK_DEADLOCK FALSE
