---------------------------- MODULE MusicServer ----------------------------
(***************************************************************************)
(* The streaming music server (p05) serving one client connection.  The    *)
(* single-threaded event_loop takes one epoll event at a time; for a       *)
(* client fd it runs handle_close, or handle_input, and then, if EPOLLOUT  *)
(* was in the same event, resume_sending.  Responses go out through        *)
(* ChunkedDataSenders on a non-blocking socket: each send_next_chunk call  *)
(* is one step, so the client draining the socket buffer interleaves with  *)
(* the send loops.  Bytes are abstracted to units <<request, position>>:   *)
(* a response is HdrLen header units followed by its body.  "LIST" stands  *)
(* for every reply built from two ArraySenders (LIST, INFO, invalid PLAY,  *)
(* unknown type); "PLAY" is a header ArraySender and a FileSender.         *)
(***************************************************************************)
EXTENDS Integers, Sequences, SequencesExt

CONSTANTS Requests,   \* the requests the client sends, in order
          ClientCloses, \* whether the client may disconnect
          CHUNK_SIZE, \* bytes per send_next_chunk
          SockBuf,    \* capacity of the socket send buffer
          HdrLen,     \* Header::size
          BodyLen     \* [type |-> body length]

VARIABLES
    pc,        \* event loop: "wait", "send", "resume", or how it ended
    mask,      \* flags of the epoll event being handled
    todo,      \* senders handle_input still has to drive
    present,   \* clients map holds the fd
    registered,\* fd is in the epoll interest list
    epollOut,  \* EPOLLOUT is in the fd's interest flags
    state,     \* ConnectedClient::state
    sender,    \* ConnectedClient::sender
    shutWr,    \* shutdown(client_fd, SHUT_WR) has been called
    handled,   \* requests handle_input acted on, as <<index, type>>
    read,      \* requests consumed by recv
    sockbuf,   \* units in the socket send buffer
    connected, sent, recvd, cClosed   \* the client

vars == <<pc, mask, todo, present, registered, epollOut, state, sender,
          shutWr, handled, read, sockbuf, connected, sent, recvd, cClosed>>

Unit(i, k) == <<i, k>>
(* The bytes of the reply to request i of type t: the header             *)
(* (to_byte_array) and then the body, as units tagged with the request.  *)
Response(i, t) == [k \in 1..HdrLen + BodyLen[t] |-> Unit(i, k)]
Null == [kind |-> "null", data |-> <<>>, loc |-> 0, fpos |-> 0, failed |-> FALSE]
ArraySender(d) == [kind |-> "array", data |-> d, loc |-> 0, fpos |-> 0, failed |-> FALSE]
FileSender(d) == [kind |-> "file", data |-> d, loc |-> 0, fpos |-> 0, failed |-> FALSE]

(* handle_input's two send_message calls, header then body: the song     *)
(* file for PLAY, an in-memory message for every other request but STOP. *)
RequestSenders(i, t) ==
    LET r == Response(i, t)
        hdr == ArraySender(SubSeq(r, 1, HdrLen))
        body == SubSeq(r, HdrLen + 1, Len(r))
    IN  IF t = "PLAY" THEN <<hdr, FileSender(body)>> ELSE <<hdr, ArraySender(body)>>

Room == SockBuf - Len(sockbuf)

(* send(client_fd, buf, n, 0) on the non-blocking socket: n bytes or as  *)
(* many as fit, -1 (EAGAIN) when full; SIGPIPE, which the server does   *)
(* not ignore, after SHUT_WR or once the closed peer has reset.          *)
(* EPIPE stands for the failing call: the process is already dead.        *)
EPIPE == -32

SendResults(n) ==
    IF shutWr THEN {EPIPE}
    ELSE (IF cClosed THEN {EPIPE} ELSE {})
         \cup {IF n = 0 THEN 0 ELSE IF Room = 0 THEN -1 ELSE Min({n, Room})}

Outcome(s, ret, wire, fate) == [snd |-> s, ret |-> ret, wire |-> wire, fate |-> fate]

(* ArraySender::send_next_chunk *)
ArrayChunk(s) ==
    LET n == Min({Len(s.data) - s.loc, CHUNK_SIZE}) IN
    IF n = 0 THEN {Outcome(s, 0, <<>>, "ok")}
    ELSE {CASE r = EPIPE -> Outcome(s, -1, <<>>, "killed")
            [] r = -1 -> Outcome(s, -1, <<>>, "ok")
            [] OTHER -> Outcome([s EXCEPT !.loc = @ + r], r,
                                SubSeq(s.data, s.loc + 1, s.loc + r), "ok")
          : r \in SendResults(n)}

(* file.seekg(off, cur): a no-op once a short read has set failbit.     *)
SeekCur(s, off) == IF s.failed THEN s ELSE [s EXCEPT !.fpos = @ + off]

(* Mutant: EAGAIN rewinds the read instead of skipping forward.         *)
EagainSeekBack(s, got) == SeekCur(s, -got)

(* Mutant: a partial send rewinds over the whole chunk read.            *)
PartialRewindAll(s, r, got) == SeekCur(s, -got)

(* A partial send seeks back over the bytes that did not go out.        *)
PartialRewind(s, r, got) == SeekCur(s, r - got)

(* The code's seek on EAGAIN: forward by the bytes just read.           *)
EagainSeek(s, got) == SeekCur(s, got)

(* FileSender::send_next_chunk: read up to n bytes at the file position *)
(* (gcount is short at end of file, 0 after failbit), send what was read *)
(* and seek back over the part that did not go out.                      *)
FileChunk(s) ==
    LET n == Min({Len(s.data) - s.loc, CHUNK_SIZE})
        got == IF s.failed \/ s.fpos >= Len(s.data) THEN 0
               ELSE Min({n, Len(s.data) - s.fpos})
        buf == SubSeq(s.data, s.fpos + 1, s.fpos + got)
        rd == [s EXCEPT !.fpos = @ + got, !.failed = @ \/ got < n]
    IN
    IF n = 0 THEN {Outcome(s, 0, <<>>, "ok")}
    ELSE {CASE r = EPIPE -> Outcome(s, -1, <<>>, "killed")
            [] r = 0 -> Outcome(s, 0, <<>>, "exited")
            [] r = -1 -> Outcome(EagainSeek(rd, got), -1, <<>>, "ok")
            [] OTHER -> Outcome(PartialRewind([rd EXCEPT !.loc = @ + r], r, got), r,
                                SubSeq(buf, 1, r), "ok")
          : r \in SendResults(got)}

NextChunk(s) == IF s.kind = "array" THEN ArrayChunk(s) ELSE FileChunk(s)

-----------------------------------------------------------------------------
Init ==
    /\ pc = "wait" /\ mask = {} /\ todo = <<>>
    /\ present = FALSE /\ registered = FALSE /\ epollOut = FALSE
    /\ state = "RECEIVING" /\ sender = Null /\ shutWr = FALSE
    /\ handled = <<>> /\ read = 0 /\ sockbuf = <<>>
    /\ connected = FALSE /\ sent = 0 /\ recvd = <<>> /\ cClosed = FALSE

(* The flags epoll_wait reports for the client fd (level-triggered).     *)
Ready ==
    IF ~registered THEN {}
    ELSE {f \in {"RDHUP", "IN", "OUT"} :
            \/ f = "RDHUP" /\ cClosed
            \/ f = "IN" /\ (sent > read \/ cClosed)
            \/ f = "OUT" /\ epollOut /\ (Room > 0 \/ cClosed)}

(* accept_connection: the server socket is readable, and accept returns *)
(* a descriptor, only while a connection is pending (the only client has *)
(* connected and has not been accepted yet).                              *)
AcceptPending == connected /\ ~present

(* event_loop, server socket readable: setup_new_client.                 *)
SetupNewClient ==
    /\ pc = "wait" /\ AcceptPending /\ ~registered /\ handled = <<>>
    /\ read = 0
    /\ present' = TRUE /\ registered' = TRUE
    /\ state' = "RECEIVING" /\ sender' = Null
    /\ UNCHANGED <<pc, mask, todo, epollOut, shutWr, handled, read, sockbuf,
                   connected, sent, recvd, cClosed>>

(* Where the loop goes once handle_input is done with this event.        *)
AfterInput(m) == IF "OUT" \in m THEN "resume" ELSE "wait"

(* Mutant: STOP drops the sender but leaves EPOLLOUT in the interest set. *)
StopSendingKeepOut ==
    IF state = "SENDING"
      THEN state' = "RECEIVING" /\ sender' = Null /\ epollOut' = epollOut
      ELSE UNCHANGED <<state, sender, epollOut>>

(* STOP: if SENDING, back to RECEIVING, sender reset, EPOLLOUT removed.   *)
StopSending ==
    IF state = "SENDING"
      THEN state' = "RECEIVING" /\ sender' = Null /\ epollOut' = FALSE
      ELSE UNCHANGED <<state, sender, epollOut>>

(* handle_input for request i of type t.  recv may return several        *)
(* queued requests at once; only the first is decoded.  STOP resets a    *)
(* transfer in progress and shuts down the write side.                   *)
HandleInput(m) ==
    \E k \in 1..(sent - read) :
      LET i == read + 1
          t == Requests[i]
      IN  /\ read' = read + k
          /\ handled' = Append(handled, <<i, t>>)
          /\ IF t = "STOP"
               THEN /\ StopSending /\ shutWr' = TRUE
                    /\ todo' = <<>> /\ pc' = AfterInput(m)
               ELSE /\ todo' = RequestSenders(i, t) /\ pc' = "send"
                    /\ UNCHANGED <<state, sender, epollOut, shutWr>>

(* event_loop, client fd: RDHUP runs handle_close and erase; else IN     *)
(* runs handle_input; then OUT runs resume_sending on clients[fd], which *)
(* after the erase is a default-constructed client.                       *)
ClientEvent ==
    /\ pc = "wait" /\ Ready # {}
    /\ mask' = Ready
    /\ IF "RDHUP" \in Ready
         THEN /\ registered' = FALSE /\ epollOut' = FALSE
              /\ present' = ("OUT" \in Ready)
              /\ state' = "RECEIVING" /\ sender' = Null
              /\ pc' = AfterInput(Ready)
              /\ UNCHANGED <<todo, shutWr, handled, read>>
         ELSE IF "IN" \in Ready
         THEN /\ HandleInput(Ready) /\ UNCHANGED <<present, registered>>
         ELSE /\ pc' = "resume"
              /\ UNCHANGED <<todo, present, registered, epollOut, state,
                             sender, shutWr, handled, read>>
    /\ UNCHANGED <<sockbuf, connected, sent, recvd, cClosed>>

Fatal(fate) == fate \in {"killed", "exited"}

(* send_with_sender: one send_next_chunk of the current sender.  On -1   *)
(* the sender becomes this->sender (replacing any earlier one) and       *)
(* EPOLLOUT is added.                                                     *)
SendWithSender ==
    /\ pc = "send"
    /\ \E o \in NextChunk(Head(todo)) :
         LET rest == IF o.ret > 0 THEN <<o.snd>> \o Tail(todo) ELSE Tail(todo)
         IN  /\ sockbuf' = sockbuf \o o.wire
             /\ todo' = rest
             /\ pc' = IF Fatal(o.fate) THEN o.fate
                      ELSE IF rest = <<>> THEN AfterInput(mask) ELSE "send"
             /\ IF o.ret < 0 /\ ~Fatal(o.fate)
                  THEN /\ state' = "SENDING" /\ sender' = o.snd
                       /\ epollOut' = TRUE
                  ELSE UNCHANGED <<state, sender, epollOut>>
    /\ UNCHANGED <<mask, present, registered, shutWr, handled, read,
                   connected, sent, recvd, cClosed>>

(* resume_sending: send_next_chunk on this->sender (a null sender is     *)
(* dereferenced); a -1 drops the transfer and EPOLLOUT.                   *)
ResumeSending ==
    /\ pc = "resume"
    /\ IF sender = Null
         THEN /\ pc' = "crashed"
              /\ UNCHANGED <<sockbuf, state, sender, epollOut>>
         ELSE \E o \in NextChunk(sender) :
              /\ sockbuf' = sockbuf \o o.wire
              /\ pc' = CASE Fatal(o.fate) -> o.fate
                         [] o.ret > 0 -> "resume"
                         [] OTHER -> "wait"
              /\ IF o.ret < 0 /\ ~Fatal(o.fate)
                   THEN /\ state' = "RECEIVING" /\ sender' = Null
                        /\ epollOut' = FALSE
                   ELSE /\ sender' = o.snd
                        /\ UNCHANGED <<state, epollOut>>
    /\ UNCHANGED <<mask, todo, present, registered, shutWr, handled, read,
                   connected, sent, recvd, cClosed>>

(* The client: connects, sends its requests, reads, may close.           *)
ClientConnect ==
    /\ ~connected /\ connected' = TRUE
    /\ UNCHANGED <<pc, mask, todo, present, registered, epollOut, state,
                   sender, shutWr, handled, read, sockbuf, sent, recvd, cClosed>>

ClientSend ==
    /\ connected /\ ~cClosed /\ sent < Len(Requests)
    /\ sent' = sent + 1
    /\ UNCHANGED <<pc, mask, todo, present, registered, epollOut, state,
                   sender, shutWr, handled, read, sockbuf, connected, recvd, cClosed>>

ClientRead ==
    /\ sockbuf # <<>> /\ ~cClosed
    /\ recvd' = Append(recvd, Head(sockbuf)) /\ sockbuf' = Tail(sockbuf)
    /\ UNCHANGED <<pc, mask, todo, present, registered, epollOut, state,
                   sender, shutWr, handled, read, connected, sent, cClosed>>

ClientClose ==
    /\ ClientCloses /\ connected /\ ~cClosed
    /\ cClosed' = TRUE /\ sockbuf' = <<>>
    /\ UNCHANGED <<pc, mask, todo, present, registered, epollOut, state,
                   sender, shutWr, handled, read, connected, sent, recvd>>

Server == SetupNewClient \/ ClientEvent \/ SendWithSender \/ ResumeSending

Next == Server \/ ClientConnect \/ ClientSend \/ ClientRead \/ ClientClose

Spec == Init /\ [][Next]_vars

-----------------------------------------------------------------------------
Types == {"PLAY", "LIST", "STOP"}
Units == {Unit(i, k) : i \in 1..Len(Requests), k \in 1..HdrLen + BodyLen["PLAY"] + BodyLen["LIST"]}
SenderT == [kind : {"null", "array", "file"}, data : Seq(Units), loc : Nat,
            fpos : Int, failed : BOOLEAN]

(* Type invariant of the event loop, the client record and the socket:  *)
(* the kernel send buffer never holds more than its SO_SNDBUF bound.     *)
TypeOK ==
    /\ pc \in {"wait", "send", "resume", "crashed", "killed", "exited"}
    /\ mask \subseteq {"RDHUP", "IN", "OUT"}
    /\ todo \in Seq(SenderT) /\ sender \in SenderT
    /\ state \in {"RECEIVING", "SENDING"}
    /\ {present, registered, epollOut, shutWr, connected, cClosed} \subseteq BOOLEAN
    /\ read \in 0..sent /\ sent \in 0..Len(Requests)
    /\ sockbuf \in Seq(Units) /\ Len(sockbuf) <= SockBuf /\ recvd \in Seq(Units)

(* Whenever the loop is back in epoll_wait, the client is SENDING       *)
(* exactly when it owns a sender and EPOLLOUT is in its interest set:    *)
(* send_with_sender, resume_sending, STOP and handle_close keep the      *)
(* three in step over any sequence of events.                            *)
SendingConsistent ==
    pc = "wait" =>
        /\ (state = "SENDING") = (sender # Null)
        /\ epollOut = (state = "SENDING")

(* No byte of any response reaches the client twice, whatever mix of     *)
(* partial sends, EAGAIN and resumptions the socket produces.            *)
NoByteTwice ==
    \A a, b \in DOMAIN recvd : a < b => recvd[a] # recvd[b]

RespOf(h) == IF h[2] = "STOP" THEN <<>> ELSE Response(h[1], h[2])
Expected == FlattenSeq([j \in DOMAIN handled |-> RespOf(handled[j])])

(* The client reads the responses to the requests the server acted on,   *)
(* in order, each header followed by its complete body, with no gap.     *)
StreamIntegrity == IsPrefix(recvd, Expected)

(* The server process never dies: no null sender is dereferenced, no     *)
(* SIGPIPE kills it, and send_next_chunk never takes its exit path.      *)
ServerSurvives == pc \notin {"crashed", "killed", "exited"}
=============================================================================
