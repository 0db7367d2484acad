\* Two workers, a two-slot buffer, four connections: enough for the
\* producer to block on a full buffer and for both workers to block.
\* Every kind of request (unreadable files included), files of one chunk,
\* and clients that may reset:
\* a reset kills the process, a real stop, so deadlock is not checked.
CONSTANTS w1 = w1  w2 = w2  Capacity = 2  MaxClients = 4
CONSTANTS FileChunks = 1  PeerResets = TRUE  Unreadable = TRUE
CONSTANT Workers <- MCWorkers
SPECIFICATION Spec
INVARIANTS TypeOK ClientsConserved
SYMMETRY WorkerSymmetry
CHECK_DEADLOCK FALSE
