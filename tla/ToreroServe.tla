---------------------------- MODULE ToreroServe ----------------------------
(***************************************************************************)
(* ToreroServe's thread pool: runServer's accept loop puts every accepted  *)
(* ClientSocket into a BoundedBuffer, and worker threads running           *)
(* consumeClients take them out and handle them.                           *)
(*                                                                         *)
(* getItem and putItem do all their work while holding shared_mutex, and  *)
(* the only point inside them where the mutex is released is              *)
(* condition_variable::wait, which unlocks and blocks atomically.  Each    *)
(* action below is therefore one critical section: from taking the mutex  *)
(* (or returning from wait with it re-taken) to the next wait or return.   *)
(* A thread in wait is woken by a notify_one on its condition variable or, *)
(* as the C++ standard permits, spuriously; either way it re-tests its    *)
(* while condition.  Clients are numbered in accept order.                 *)
(*                                                                         *)
(* A worker's handleClient is receive, parse, the sendData calls of the   *)
(* response sendResponse picks, and close; request and file contents are  *)
(* abstracted to which branch they take and how many sends they need.    *)
(***************************************************************************)
EXTENDS Naturals, Sequences, FiniteSets

CONSTANTS Workers,      \* the consumer threads t1..t4
          Capacity,     \* BoundedBuffer max_size
          MaxClients,   \* connections accepted in one behaviour
          FileChunks,   \* 4096-byte chunks sendFile reads from a served file
          PeerResets,   \* a client may reset or close its end mid-exchange
          Unreadable    \* a served path may be a file the server cannot open

Producer == "main"
Threads == Workers \cup {Producer}

VARIABLES
    pc,            \* per thread: where in its loop it is
    buffer,        \* BoundedBuffer::buffer, a std::queue of clients
    dataWaiters,   \* threads blocked in data_available->wait
    spaceWaiters,  \* threads blocked in space_available->wait
    accepted,      \* clients returned by acceptConnection so far
    holding,       \* per thread: the client it holds (0 for none)
    served,        \* clients whose handleClient has returned
    todo,          \* per thread: sendData calls left in its response
    crashed        \* the process has died (std::terminate or SIGPIPE)

vars == <<pc, buffer, dataWaiters, spaceWaiters, accepted, holding, served, todo, crashed>>

Clients == 1..MaxClients

Init ==
    /\ pc = [t \in Threads |-> IF t = Producer THEN "accept" ELSE "get"]
    /\ buffer = <<>>
    /\ dataWaiters = {} /\ spaceWaiters = {}
    /\ accepted = 0
    /\ holding = [t \in Threads |-> 0]
    /\ served = {}
    /\ todo = [t \in Threads |-> 0]
    /\ crashed = FALSE

(* ServerSocket::acceptConnection: accept blocks until a client connects *)
(* (at most MaxClients of them) and wraps the new descriptor, numbered in *)
(* the order of acceptance, in a ClientSocket.                            *)
NewClient == accepted + 1
Accept ==
    /\ accepted < MaxClients
    /\ accepted' = NewClient

(* runServer: server.acceptConnection() returns the next client.          *)
AcceptConnection ==
    /\ ~crashed /\ pc[Producer] = "accept"
    /\ Accept
    /\ holding' = [holding EXCEPT ![Producer] = NewClient]
    /\ pc' = [pc EXCEPT ![Producer] = "put"]
    /\ UNCHANGED <<buffer, dataWaiters, spaceWaiters, served, todo, crashed>>

(* notify_one: the sets of threads it may wake, one waiter or none.       *)
NotifyOne(waiters) == IF waiters = {} THEN {{}} ELSE {{w} : w \in waiters}

(* Mutant: the full test off by one.                                    *)
FullOffByOne(buf) == Len(buf) = Capacity + 1

(* buffer.size() == capacity *)
Full(buf) == Len(buf) = Capacity

(* putItem: while full, wait on space_available; else push and notify    *)
(* one thread waiting on data_available.                                  *)
PutItem ==
    /\ ~crashed /\ pc[Producer] = "put"
    /\ IF Full(buffer)
         THEN /\ spaceWaiters' = spaceWaiters \cup {Producer}
              /\ pc' = [pc EXCEPT ![Producer] = "waiting"]
              /\ UNCHANGED <<buffer, dataWaiters, holding>>
         ELSE \E woken \in NotifyOne(dataWaiters) :
              /\ buffer' = Append(buffer, holding[Producer])
              /\ dataWaiters' = dataWaiters \ woken
              /\ pc' = [t \in Threads |->
                          IF t = Producer THEN "accept"
                          ELSE IF t \in woken THEN "get" ELSE pc[t]]
              /\ holding' = [holding EXCEPT ![Producer] = 0]
              /\ UNCHANGED spaceWaiters
    /\ UNCHANGED <<accepted, served, todo, crashed>>

(* Mutant: front() without pop().                                         *)
TakeFrontOnly(buf) == buf

(* buffer.pop() *)
TakeFront(buf) == Tail(buf)

(* getItem: while empty, wait on data_available; else take the front.    *)
(* Nothing is notified on space_available.                                *)
GetItem(t) ==
    /\ ~crashed /\ pc[t] = "get"
    /\ IF buffer = <<>>
         THEN /\ dataWaiters' = dataWaiters \cup {t}
              /\ pc' = [pc EXCEPT ![t] = "waiting"]
              /\ UNCHANGED <<buffer, holding>>
         ELSE /\ holding' = [holding EXCEPT ![t] = Head(buffer)]
              /\ buffer' = TakeFront(buffer)
              /\ pc' = [pc EXCEPT ![t] = "recv"]
              /\ UNCHANGED dataWaiters
    /\ UNCHANGED <<spaceWaiters, accepted, served, todo, crashed>>

(* What a worker can be asked for, as sendResponse tells requests apart:  *)
(* a request line parseRequest rejects (also one cut short by the single  *)
(* recv of receiveData), a path that does not exist, a directory without  *)
(* index.html, a file (or a directory's index.html), and a path that       *)
(* exists but is neither a directory nor a regular file; with Unreadable, *)
(* also a regular file the process has no permission to open.             *)
RequestKinds == {"bad", "missing", "listing", "file", "special"}
                \cup (IF Unreadable THEN {"unreadable"} ELSE {})

(* parseRequest: the resource of a GET request line, "" when it does not  *)
(* match the request-line pattern.                                         *)
ParseRequest(r) == IF r = "bad" THEN "" ELSE r

(* sendOKHeader and then sendFile: a header, then one sendData per chunk  *)
(* of up to 4096 bytes read (none for an empty file).  sendOKHeader only  *)
(* stats the file; when the ifstream cannot open it, read fails without   *)
(* setting eofbit, gcount is 0, and while (!file.eof()) spins for ever    *)
(* after the header.                                                      *)
FileSends == 1 + FileChunks
SendFileSpins(r) == r = "unreadable"

(* respondWith200: a file or index.html, or a header and generated HTML;  *)
(* for a path that is neither a directory nor a file it sends nothing.    *)
OkSends(r) == CASE r = "file" -> FileSends [] r = "unreadable" -> 1
                [] r = "listing" -> 2 [] OTHER -> 0

(* respondWith404: a header and the error page.                           *)
NotFoundSends == 2

(* sendResponse: the number of sendData calls of the response.           *)
ResponseSends(r) ==
    LET resource == ParseRequest(r) IN
    CASE resource = "" -> 1                     \* respondWith400
      [] resource = "missing" -> NotFoundSends
      [] OTHER -> OkSends(resource)

(* handleClient, step 1-2: receiveData(2048) and parseRequest.  A recv   *)
(* error throws std::system_error, which nothing in the worker catches:  *)
(* std::terminate ends the process.                                       *)
(* recv or send on a reset peer returns -1 and ClientSocket throws a     *)
(* std::system_error that nothing catches: std::terminate ends the process *)
(* (on send, SIGPIPE ends it first).                                       *)
SocketFails == PeerResets /\ crashed' = TRUE

ReceiveRequest(t) ==
    /\ ~crashed /\ pc[t] = "recv"
    /\ \/ \E r \in RequestKinds :
            /\ todo' = [todo EXCEPT ![t] = ResponseSends(r)]
            /\ pc' = [pc EXCEPT ![t] = IF SendFileSpins(r) THEN "sendfile" ELSE "respond"]
            /\ UNCHANGED crashed
       \/ SocketFails /\ UNCHANGED <<pc, todo>>
    /\ UNCHANGED <<buffer, dataWaiters, spaceWaiters, accepted, holding, served>>

(* ClientSocket::sendData: send until every byte is out.  On a peer that  *)
(* has reset or closed, send raises SIGPIPE (not ignored) or returns -1   *)
(* and sendData throws uncaught: either way the process ends.             *)
SendData(t) ==
    /\ ~crashed /\ pc[t] \in {"respond", "sendfile"} /\ todo[t] > 0
    /\ \/ todo' = [todo EXCEPT ![t] = @ - 1] /\ UNCHANGED crashed
       \/ SocketFails /\ UNCHANGED todo
    /\ UNCHANGED <<pc, buffer, dataWaiters, spaceWaiters, accepted, holding, served>>

(* handleClient, step 4: client.close(); consumeClients loops to getItem. *)
CloseClient(t) ==
    /\ ~crashed /\ pc[t] = "respond" /\ todo[t] = 0
    /\ served' = served \cup {holding[t]}
    /\ holding' = [holding EXCEPT ![t] = 0]
    /\ pc' = [pc EXCEPT ![t] = "get"]
    /\ UNCHANGED <<buffer, dataWaiters, spaceWaiters, accepted, todo, crashed>>

(* A spurious wake-up: wait returns without a notify.                     *)
SpuriousWakeup(t) ==
    /\ ~crashed /\ pc[t] = "waiting"
    /\ pc' = [pc EXCEPT ![t] = IF t = Producer THEN "put" ELSE "get"]
    /\ dataWaiters' = dataWaiters \ {t}
    /\ spaceWaiters' = spaceWaiters \ {t}
    /\ UNCHANGED <<buffer, accepted, holding, served, todo, crashed>>

Next ==
    \/ AcceptConnection
    \/ PutItem
    \/ \E t \in Workers :
          GetItem(t) \/ ReceiveRequest(t) \/ SendData(t) \/ CloseClient(t)
    \/ \E t \in Threads : SpuriousWakeup(t)

Spec == Init /\ [][Next]_vars

(* Every thread is scheduled while it can run; a waiting thread is woken  *)
(* only by a notify (spurious wake-ups are allowed, never promised).      *)
Fairness ==
    /\ WF_vars(AcceptConnection) /\ WF_vars(PutItem)
    /\ \A t \in Workers : /\ WF_vars(GetItem(t)) /\ WF_vars(ReceiveRequest(t))
                         /\ WF_vars(SendData(t)) /\ WF_vars(CloseClient(t))

FairSpec == Spec /\ Fairness
-----------------------------------------------------------------------------
(* Type invariant of the pool; the queue never holds more than           *)
(* BoundedBuffer's capacity, whatever the threads interleave.           *)
TypeOK ==
    /\ pc \in [Threads -> {"accept", "put", "get", "recv", "respond", "sendfile", "waiting"}]
    /\ buffer \in Seq(Clients) /\ Len(buffer) <= Capacity
    /\ dataWaiters \subseteq Workers /\ spaceWaiters \subseteq {Producer}
    /\ accepted \in 0..MaxClients
    /\ holding \in [Threads -> 0..MaxClients]
    /\ served \subseteq Clients
    /\ todo \in [Threads -> UNION {0..ResponseSends(r) : r \in RequestKinds}]
    /\ crashed \in BOOLEAN

(* Copies of client c held anywhere: queued, in a thread's hands, served. *)
Copies(c) ==
    Cardinality({i \in DOMAIN buffer : buffer[i] = c})
      + Cardinality({t \in Threads : holding[t] = c})
      + (IF c \in served THEN 1 ELSE 0)

(* However putItem, getItem and the workers interleave, every accepted    *)
(* connection is in exactly one place: it is neither dropped nor handed   *)
(* to two workers (which would answer and close one socket twice).        *)
ClientsConserved == \A c \in 1..accepted : Copies(c) = 1

(* Every accepted connection is eventually handled by some worker.       *)
AllClientsServed == \A c \in Clients : (accepted >= c) ~> (c \in served)
=============================================================================
