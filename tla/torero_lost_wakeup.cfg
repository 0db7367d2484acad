\* The same pool under fair scheduling, with well-behaved clients: does
\* every connection get served?
CONSTANTS w1 = w1  w2 = w2  Capacity = 2  MaxClients = 4
CONSTANTS FileChunks = 1  PeerResets = FALSE  Unreadable = FALSE
CONSTANT Workers <- MCWorkers
SPECIFICATION FairSpec
PROPERTY AllClientsServed
