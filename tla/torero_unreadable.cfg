\* Two workers, two connections that fit in the buffer (the accept loop never
\* blocks), well-behaved clients, and a served tree that may hold a file the
\* server cannot open: does every connection get served?
CONSTANTS w1 = w1  w2 = w2  Capacity = 2  MaxClients = 2
CONSTANTS FileChunks = 1  PeerResets = FALSE  Unreadable = TRUE
CONSTANT Workers <- MCWorkers
SPECIFICATION FairSpec
PROPERTY AllClientsServed
\* Once both workers spin and the accept loop has taken its last connection,
\* no thread can take a step: the bound, not the code, stops the behaviour.
CHECK_DEADLOCK FALSE
