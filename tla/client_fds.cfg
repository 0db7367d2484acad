\* The sensor client against servers whose every send, recv, connect and
\* sscanf may fail; descriptors 3..4, three sensor requests. The program stops
\* for good after QUIT, so deadlock is not checked.
CONSTANTS
    FirstFd = 3
    MaxFd = 4
    MaxRequests = 3
SPECIFICATION Spec
INVARIANTS TypeOK FdsReleased
PROPERTIES NoStaleDescriptor
CHECK_DEADLOCK FALSE
