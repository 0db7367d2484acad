--------------------------- MODULE ReliableSocket ---------------------------
(***************************************************************************)
(* The stop-and-wait RDT protocol of ReliableSocket.cpp, run by its two   *)
(* drivers: sender.cpp (client: connect_to_remote, send_data per chunk of  *)
(* the input file, close_connection) and receiver.cpp (server:             *)
(* accept_connection, receive_data until it returns 0, close_connection). *)
(*                                                                         *)
(* Each process is single-threaded and blocks only in                      *)
(* UnreliableSocket::receive, so one action is one return from receive    *)
(* (a datagram, a timeout or a socket error) together with all the code    *)
(* that runs until the next receive.  The UDP network between them may     *)
(* lose, duplicate and (if Reorder) reorder datagrams; a datagram that     *)
(* reaches a port with no open socket is dropped and, if IcmpErrors, makes *)
(* the peer's connected socket report ECONNREFUSED.                        *)
(***************************************************************************)
EXTENDS Naturals, Sequences, SequencesExt

CONSTANTS
    FileSize,       \* bytes in the sender's input file
    ChunkSize,      \* ReliableSocket::MAX_DATA_SIZE, scaled down
    Lossy,          \* the network may drop datagrams
    Reorder,        \* the network may deliver datagrams out of order
    IcmpErrors,     \* a datagram to a closed port raises ECONNREFUSED at its sender
    MaxDup,         \* bound: datagrams the network duplicates
    MaxPremature,   \* bound: timeouts that fire while a datagram is still in flight
    RttSamples      \* RTT samples (ms) the sender may measure for an acknowledged DATA

VARIABLES
    c2s, s2c,                       \* datagrams in flight client->server, server->client
    spc, sstate, seqno, pos, eof,   \* sender: driver position, state, sequence_number, file
    cur,                            \* segment in send_until_acked
    ssock, sErr,                    \* sender socket: open/closed, pending ECONNREFUSED
    estimated_rtt, dev_rtt,         \* sender's RTT estimate
    timeout_length,                 \* sender socket's receive timeout (ms, 0 = none)
    rpc, rstate, out, rsock, rErr,  \* receiver: driver position, state, output file, socket
    dups, premature                 \* bound counters

rtt          == <<estimated_rtt, dev_rtt, timeout_length>>
senderVars   == <<spc, sstate, seqno, pos, eof, cur, ssock, sErr, rtt>>
receiverVars == <<rpc, rstate, out, rsock, rErr>>
vars == <<c2s, s2c, senderVars, receiverVars, dups, premature>>

States == {"INIT", "WAIT_HS2", "WAIT_HS3", "WAIT_SEND", "WAIT_DATA0", "WAIT_DATA1",
           "WAIT_ACK0", "WAIT_ACK1", "CLOSING", "CLOSED"}
Types  == {"DATA", "ACK", "CONN", "CLOSE"}

(* The sender's estimator: update_rtt and the timeout it derives.         *)
RTT == INSTANCE RTTEstimator WITH Samples <- RttSamples

(* RDTSegment(seq, ack, type[, payload]); a payload is the file bytes     *)
(* off+1 .. off+len.                                                      *)
Seg(sq, ak, ty, off, len) == [seq |-> sq, ack |-> ak, type |-> ty, off |-> off, len |-> len]
Ack(n)  == Seg(0, n, "ACK", 0, 0)
Conn    == Seg(0, 0, "CONN", 0, 0)
CloseSeg == Seg(4, 0, "CLOSE", 0, 0)
IsAck(m, n) == m.type = "ACK" /\ m.ack = n
Payload(m) == [k \in 1..m.len |-> m.off + k]

(* The datagram a receive returns: the oldest, or any when reordering.    *)
Arrivals(ch) == IF Reorder THEN DOMAIN ch ELSE DOMAIN ch \cap {1}

(* A timeout with nothing in flight is the expected one; one that fires   *)
(* while a datagram is still on its way is premature, and counted.        *)
Quiet == c2s = <<>> /\ s2c = <<>>
TimerFires ==
    \/ Quiet /\ UNCHANGED premature
    \/ ~Quiet /\ premature < MaxPremature /\ premature' = premature + 1

Init ==
    /\ c2s = <<>> /\ s2c = <<>>
    /\ spc = "start" /\ sstate = "INIT" /\ seqno = 0 /\ pos = 0 /\ eof = FALSE
    /\ cur = Conn /\ ssock = "open" /\ sErr = FALSE
    /\ RTT!InitEstimate /\ timeout_length = 0
    /\ rpc = "start" /\ rstate = "INIT" /\ out = <<>> /\ rsock = "unbound" /\ rErr = FALSE
    /\ dups = 0 /\ premature = 0

-----------------------------------------------------------------------------
(* Sender (client) *)

(* connect_to_remote up to its first receive: WAIT_HS2, the timeout set  *)
(* to estimated_rtt + 4 * dev_rtt, send RDT_CONN.                         *)
ConnectToRemote ==
    /\ spc = "start" /\ sstate = "INIT"
    /\ sstate' = "WAIT_HS2"
    /\ timeout_length' = RTT!Timeout(estimated_rtt, dev_rtt)
    /\ c2s' = Append(c2s, Conn)
    /\ spc' = "hs2"
    /\ UNCHANGED <<s2c, seqno, pos, eof, cur, ssock, sErr, estimated_rtt, dev_rtt,
                   receiverVars, dups, premature>>

(* The handshake loop: ACK(2) ends it, and ACK(3) is sent once;           *)
(* anything else sends RDT_CONN again.                                    *)
SenderHandshakeRecv ==
    /\ spc = "hs2"
    /\ \E i \in Arrivals(s2c) :
         /\ s2c' = RemoveAt(s2c, i)
         /\ \/ /\ IsAck(s2c[i], 2)
               /\ sstate' = "WAIT_SEND"
               /\ c2s' = Append(c2s, Ack(3))
               /\ spc' = "app"
            \/ /\ ~IsAck(s2c[i], 2)
               /\ c2s' = Append(c2s, Conn)
               /\ UNCHANGED <<sstate, spc>>
    /\ UNCHANGED <<seqno, pos, eof, cur, ssock, sErr, rtt, receiverVars, dups, premature>>

(* sender.cpp's loop body: read up to ChunkSize bytes (eof is set only by *)
(* a short read), then send_data: WAIT_ACKn and the first send of         *)
(* send_until_acked.                                                      *)
(* Mutant: the driver sends the whole buffer, not gcount() bytes.         *)
ReadLenWholeBuffer == ChunkSize
ReadLen == IF FileSize - pos < ChunkSize THEN FileSize - pos ELSE ChunkSize
(* The loop's eof(): set by a read that got fewer than MAX_DATA_SIZE     *)
(* bytes, so a read that ends exactly at the end of the file leaves it    *)
(* unset and the loop reads (and sends) once more.                        *)
ReadEof == FileSize - pos < ChunkSize
SendData ==
    /\ spc = "app" /\ ~eof /\ sstate = "WAIT_SEND"
    /\ LET seg == Seg(seqno, 0, "DATA", pos, ReadLen)
       IN  /\ cur' = seg
           /\ c2s' = Append(c2s, seg)
    /\ eof' = ReadEof
    /\ pos' = pos + ReadLen
    /\ sstate' = IF seqno = 0 THEN "WAIT_ACK0" ELSE "WAIT_ACK1"
    /\ spc' = "wait_ack"
    /\ UNCHANGED <<s2c, seqno, ssock, sErr, rtt, receiverVars, dups, premature>>

(* Mutant: send_until_acked without its RDT_CLOSE branch sends once.     *)
SenderCloseSendOnce ==
    /\ spc = "app" /\ eof /\ sstate = "WAIT_SEND"
    /\ cur' = CloseSeg
    /\ c2s' = Append(c2s, CloseSeg)
    /\ sstate' = "CLOSED" /\ ssock' = "closed" /\ spc' = "done"
    /\ UNCHANGED <<s2c, seqno, pos, eof, sErr, rtt, receiverVars, dups, premature>>

(* close_connection from WAIT_SEND: RDT_CLOSE through send_until_acked.   *)
SenderClose ==
    /\ spc = "app" /\ eof /\ sstate = "WAIT_SEND"
    /\ cur' = CloseSeg
    /\ c2s' = Append(c2s, CloseSeg)
    /\ spc' = "wait_ack"
    /\ UNCHANGED <<s2c, sstate, seqno, pos, eof, ssock, sErr, rtt, receiverVars, dups, premature>>

(* The ACK number send_until_acked waits for.                             *)
ExpectAck(seg) == IF seg.type = "DATA" THEN seg.seq ELSE 4

(* The expected ACK: for DATA, update_rtt with a sample timed from the    *)
(* last (re)send, flip sequence_number, back to WAIT_SEND; for CLOSE,     *)
(* CLOSED and socket.close().  Any other segment: send the segment again. *)
SenderAckRecv ==
    /\ spc = "wait_ack"
    /\ \E i \in Arrivals(s2c) :
         /\ s2c' = RemoveAt(s2c, i)
         /\ \/ /\ IsAck(s2c[i], ExpectAck(cur))
               /\ cur.type = "DATA"
               /\ \E sample \in RttSamples : RTT!UpdateRtt(sample)
               /\ seqno' = 1 - seqno
               /\ sstate' = "WAIT_SEND"
               /\ spc' = "app"
               /\ UNCHANGED <<c2s, ssock>>
            \/ /\ IsAck(s2c[i], ExpectAck(cur))
               /\ cur.type = "CLOSE"
               /\ sstate' = "CLOSED"
               /\ ssock' = "closed"
               /\ spc' = "done"
               /\ UNCHANGED <<c2s, seqno, rtt>>
            \/ /\ ~IsAck(s2c[i], ExpectAck(cur))
               /\ c2s' = Append(c2s, cur)
               /\ UNCHANGED <<sstate, spc, seqno, ssock, rtt>>
    /\ UNCHANGED <<pos, eof, cur, sErr, receiverVars, dups, premature>>

(* set_timeout_length hands the value to SO_RCVTIMEO, where 0 is "no    *)
(* timeout": receive then never returns EAGAIN.                           *)
ReceiveTimesOut(ms) == ms > 0

(* SocketTimeout in either resend loop: send the same bytes again.        *)
SenderTimeout ==
    /\ spc \in {"hs2", "wait_ack"}
    /\ ReceiveTimesOut(timeout_length)
    /\ TimerFires
    /\ c2s' = Append(c2s, IF spc = "hs2" THEN Conn ELSE cur)
    /\ UNCHANGED <<s2c, spc, sstate, seqno, pos, eof, cur, ssock, sErr, rtt, receiverVars, dups>>

-----------------------------------------------------------------------------
(* Receiver (server) *)

(* accept_connection: bind, then block (no timeout set) for RDT_CONN.     *)
AcceptConnection ==
    /\ rpc = "start" /\ rstate = "INIT"
    /\ rsock' = "open"
    /\ rpc' = "conn"
    /\ UNCHANGED <<c2s, s2c, senderVars, rstate, out, rErr, dups, premature>>

ReceiverConnRecv ==
    /\ rpc = "conn"
    /\ \E i \in Arrivals(c2s) :
         /\ c2s' = RemoveAt(c2s, i)
         /\ \/ /\ c2s[i].type = "CONN"
               /\ s2c' = Append(s2c, Ack(2))
               /\ rpc' = "hs3"
            \/ /\ c2s[i].type # "CONN"
               /\ UNCHANGED <<s2c, rpc>>
    /\ UNCHANGED <<senderVars, rstate, out, rsock, rErr, dups, premature>>

(* Waiting for ACK(3): a duplicate RDT_CONN re-sends ACK(2).              *)
ReceiverHandshakeRecv ==
    /\ rpc = "hs3"
    /\ \E i \in Arrivals(c2s) :
         /\ c2s' = RemoveAt(c2s, i)
         /\ \/ /\ IsAck(c2s[i], 3)
               /\ rstate' = "WAIT_DATA0"
               /\ rpc' = "data"
               /\ UNCHANGED s2c
            \/ /\ c2s[i].type = "CONN"
               /\ s2c' = Append(s2c, Ack(2))
               /\ UNCHANGED <<rstate, rpc>>
            \/ /\ ~IsAck(c2s[i], 3) /\ c2s[i].type # "CONN"
               /\ UNCHANGED <<s2c, rstate, rpc>>
    /\ UNCHANGED <<senderVars, out, rsock, rErr, dups, premature>>

ReceiverHandshakeTimeout ==
    /\ rpc = "hs3"
    /\ TimerFires
    /\ s2c' = Append(s2c, Ack(2))
    /\ UNCHANGED <<c2s, senderVars, receiverVars, dups>>
(* Expected sequence bit in WAIT_DATA0 / WAIT_DATA1.                      *)
ExpectedSeq == IF rstate = "WAIT_DATA0" THEN 0 ELSE 1
(* receiver.cpp's loop on what receive_data returned: the bytes are      *)
(* written to the output file; a non-zero count receives again, 0 leaves *)
(* the loop for close_connection (which, in WAIT_DATAn, closes the       *)
(* socket).                                                              *)
ReceiverDeliver(m) ==
    /\ out' = out \o Payload(m)
    /\ \/ m.len > 0 /\ UNCHANGED <<rpc, rsock>>
       \/ m.len = 0 /\ rsock' = "closed" /\ rpc' = "done"

(* Mutant: the receiver does not alternate its expected bit.             *)
OtherDataStays(st) == st
OtherData(st) == IF st = "WAIT_DATA0" THEN "WAIT_DATA1" ELSE "WAIT_DATA0"

(* One receive of receive_data's loop (timeout 0: it never times out),    *)
(* with what receiver.cpp does with its result.  The expected DATA is     *)
(* ACKed and returned: a non-empty payload is written and receive_data is *)
(* called again, an empty one ends the loop and close_connection, in      *)
(* WAIT_DATAn, only closes the socket.  The other bit re-sends its ACK.   *)
(* RDT_CLOSE: ACK(4), CLOSING, return 0, and close_connection lingers.    *)
ReceiverDataRecv ==
    /\ rpc = "data"
    /\ \E i \in Arrivals(c2s) :
         LET m == c2s[i] IN
         /\ c2s' = RemoveAt(c2s, i)
         /\ \/ /\ m.type = "DATA" /\ m.seq = ExpectedSeq
               /\ s2c' = Append(s2c, Ack(ExpectedSeq))
               /\ rstate' = OtherData(rstate)
               /\ ReceiverDeliver(m)
            \/ /\ m.type = "DATA" /\ m.seq # ExpectedSeq
               /\ s2c' = Append(s2c, Ack(1 - ExpectedSeq))
               /\ UNCHANGED <<rstate, out, rpc, rsock>>
            \/ /\ m.type = "CLOSE"
               /\ s2c' = Append(s2c, Ack(4))
               /\ rstate' = "CLOSING"
               /\ rpc' = "linger"
               /\ UNCHANGED <<out, rsock>>
            \/ /\ m.type \notin {"DATA", "CLOSE"}
               /\ UNCHANGED <<s2c, rstate, out, rpc, rsock>>
    /\ UNCHANGED <<senderVars, rErr, dups, premature>>

(* close_connection in CLOSING: a 2000 ms linger that re-ACKs RDT_CLOSE.  *)
ReceiverLingerRecv ==
    /\ rpc = "linger"
    /\ \E i \in Arrivals(c2s) :
         /\ c2s' = RemoveAt(c2s, i)
         /\ \/ c2s[i].type = "CLOSE" /\ s2c' = Append(s2c, Ack(4))
            \/ c2s[i].type # "CLOSE" /\ UNCHANGED s2c
    /\ UNCHANGED <<senderVars, receiverVars, dups, premature>>

(* Mutant: the linger ends without setting CLOSED.                        *)
ReceiverLingerTimeoutNoState ==
    /\ rpc = "linger"
    /\ TimerFires
    /\ rsock' = "closed"
    /\ rpc' = "done"
    /\ UNCHANGED <<c2s, s2c, senderVars, rstate, out, rErr, dups>>

(* The linger ends on SocketTimeout: CLOSED and socket.close().           *)
ReceiverLingerTimeout ==
    /\ rpc = "linger"
    /\ TimerFires
    /\ rstate' = "CLOSED"
    /\ rsock' = "closed"
    /\ rpc' = "done"
    /\ UNCHANGED <<c2s, s2c, senderVars, out, rErr, dups>>

-----------------------------------------------------------------------------
(* Sockets and network *)

(* A pending ECONNREFUSED makes the next recv/send fail with errno other  *)
(* than EAGAIN: perror and exit(EXIT_FAILURE); the OS closes the socket.  *)
Active == {"hs2", "app", "wait_ack", "conn", "hs3", "data", "linger"}
SenderSocketError ==
    /\ sErr /\ spc \in Active
    /\ spc' = "exited" /\ ssock' = "closed"
    /\ UNCHANGED <<c2s, s2c, sstate, seqno, pos, eof, cur, sErr, rtt, receiverVars, dups, premature>>
ReceiverSocketError ==
    /\ rErr /\ rpc \in Active
    /\ rpc' = "exited" /\ rsock' = "closed"
    /\ UNCHANGED <<c2s, s2c, senderVars, rstate, out, rErr, dups, premature>>

(* A datagram reaching a port with no open socket is dropped; the ICMP    *)
(* port-unreachable it raises may reach the sender's connected socket.    *)
DropAtServerPort ==
    /\ rsock # "open"
    /\ \E i \in Arrivals(c2s) : c2s' = RemoveAt(c2s, i)
    /\ sErr' \in IF IcmpErrors /\ ssock = "open" THEN {sErr, TRUE} ELSE {sErr}
    /\ UNCHANGED <<s2c, spc, sstate, seqno, pos, eof, cur, ssock, rtt, receiverVars, dups, premature>>
DropAtClientPort ==
    /\ ssock # "open"
    /\ \E i \in Arrivals(s2c) : s2c' = RemoveAt(s2c, i)
    /\ rErr' \in IF IcmpErrors /\ rsock = "open" THEN {rErr, TRUE} ELSE {rErr}
    /\ UNCHANGED <<c2s, senderVars, rpc, rstate, out, rsock, dups, premature>>

Lose ==
    /\ Lossy
    /\ \/ \E i \in DOMAIN c2s : c2s' = RemoveAt(c2s, i) /\ UNCHANGED s2c
       \/ \E i \in DOMAIN s2c : s2c' = RemoveAt(s2c, i) /\ UNCHANGED c2s
    /\ UNCHANGED <<senderVars, receiverVars, dups, premature>>

(* A duplicate travels right behind its original.                        *)
Duplicate ==
    /\ dups < MaxDup
    /\ dups' = dups + 1
    /\ \/ \E i \in DOMAIN c2s : c2s' = InsertAt(c2s, i, c2s[i]) /\ UNCHANGED s2c
       \/ \E i \in DOMAIN s2c : s2c' = InsertAt(s2c, i, s2c[i]) /\ UNCHANGED c2s
    /\ UNCHANGED <<senderVars, receiverVars, premature>>

(* Both programs have returned from main or exited.                      *)
Finished == {"done", "exited"}
Terminated ==
    /\ spc \in Finished /\ rpc \in Finished
    /\ UNCHANGED vars

Next ==
    \/ ConnectToRemote \/ SenderHandshakeRecv \/ SendData \/ SenderClose
    \/ SenderAckRecv \/ SenderTimeout
    \/ AcceptConnection \/ ReceiverConnRecv \/ ReceiverHandshakeRecv
    \/ ReceiverHandshakeTimeout \/ ReceiverDataRecv \/ ReceiverLingerRecv
    \/ ReceiverLingerTimeout
    \/ SenderSocketError \/ ReceiverSocketError
    \/ DropAtServerPort \/ DropAtClientPort \/ Lose \/ Duplicate
    \/ Terminated

(* Each program's own steps are weakly fair; a datagram that keeps being *)
(* available is eventually received (the network may lose some, not all *)
(* of them); a datagram sent to a closed port is eventually dropped; a   *)
(* timer with nothing in flight eventually expires.                       *)
Fairness ==
    /\ WF_vars(ConnectToRemote) /\ WF_vars(SendData) /\ WF_vars(SenderClose)
    /\ WF_vars(AcceptConnection)
    /\ SF_vars(SenderHandshakeRecv) /\ SF_vars(SenderAckRecv)
    /\ SF_vars(ReceiverConnRecv) /\ SF_vars(ReceiverHandshakeRecv)
    /\ SF_vars(ReceiverDataRecv) /\ SF_vars(ReceiverLingerRecv)
    /\ WF_vars(Quiet /\ SenderTimeout) /\ WF_vars(Quiet /\ ReceiverHandshakeTimeout)
    /\ WF_vars(Quiet /\ ReceiverLingerTimeout)
    /\ WF_vars(DropAtServerPort) /\ WF_vars(DropAtClientPort)
    /\ WF_vars(SenderSocketError) /\ WF_vars(ReceiverSocketError)

Spec == Init /\ [][Next]_vars
FairSpec == Spec /\ Fairness

-----------------------------------------------------------------------------
(* Properties *)

Msgs == [seq : {0, 1, 4}, ack : {0, 1, 2, 3, 4}, type : Types, off : 0..FileSize, len : 0..ChunkSize]
(* Type invariant of both sockets and the channel; the file position     *)
(* of sender.cpp never passes the end of the file.                      *)
TypeOK ==
    /\ c2s \in Seq(Msgs) /\ s2c \in Seq(Msgs)
    /\ spc \in {"start", "hs2", "app", "wait_ack", "done", "exited"}
    /\ rpc \in {"start", "conn", "hs3", "data", "linger", "done", "exited"}
    /\ sstate \in States /\ rstate \in States
    /\ seqno \in {0, 1} /\ pos \in 0..FileSize /\ eof \in BOOLEAN
    /\ cur \in Msgs
    /\ ssock \in {"open", "closed"} /\ rsock \in {"unbound", "open", "closed"}
    /\ sErr \in BOOLEAN /\ rErr \in BOOLEAN
    /\ out \in Seq(1..FileSize)
    /\ dups \in 0..MaxDup /\ premature \in 0..MaxPremature
    /\ RTT!TypeOK

(* Bytes of the file the sender has seen acknowledged: all it has read,   *)
(* less the DATA it is waiting on, or was waiting on when it exited.      *)
AckedBytes == IF spc \in {"wait_ack", "exited"} /\ cur.type = "DATA" THEN pos - cur.len ELSE pos

(* The output file written by receiver.cpp is the input file's bytes, in  *)
(* order, without gap or duplicate, and the alternating bit keeps it in   *)
(* step with send_data: it holds every acknowledged byte, plus at most    *)
(* the chunk whose ACK the sender still awaits.                           *)
StreamInStep ==
    /\ out = [k \in 1..Len(out) |-> k]
    /\ Len(out) \in {AckedBytes, pos}

(* When close_connection returns CLOSED at the sender, the receiver has   *)
(* written the whole file and seen the RDT_CLOSE.                         *)
CloseSafety ==
    sstate = "CLOSED" => /\ rstate \in {"CLOSING", "CLOSED"}
                         /\ Len(out) = FileSize


(* Both sides eventually reach CLOSED (spec 8: the connection ends in     *)
(* CLOSED on both sides).                                                  *)
Termination == <>(sstate = "CLOSED" /\ rstate = "CLOSED")

(* accept_connection eventually returns: the receiver leaves the          *)
(* handshake for data transfer (spec 9: a transfer over a lossy channel   *)
(* ends with both sides CLOSED).  connect_to_remote sends ACK(3) once, so  *)
(* this is about a lost ACK(3) while the receiver re-sends ACK(2) and      *)
(* send_until_acked ignores it.                                           *)
HandshakeCompletes == <>(rpc \notin {"start", "conn", "hs3"})

(* The sender's RTT estimate, fed by update_rtt from inside              *)
(* send_until_acked, never leaves the range of the initial 200 ms and the *)
(* samples measured, and its deviation never exceeds that range's width, *)
(* whatever retransmissions happen between the samples.                   *)
SmoothedWithinRange == RTT!SmoothedWithinRange

(* Whenever the sender blocks in a resend loop (connect_to_remote or      *)
(* send_until_acked) its socket has a finite receive timeout, so a lost   *)
(* segment or ACK is sent again (spec 7: a timeout in a retransmit loop   *)
(* is always recovered by resending; spec 6: a timeout of 0 means wait    *)
(* indefinitely).                                                          *)
RetransmitArmed == spc \in {"hs2", "wait_ack"} => ReceiveTimesOut(timeout_length)

=============================================================================
