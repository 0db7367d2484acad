-------------------------- MODULE MCReliableSocket --------------------------
(* Model-checking harness for ReliableSocket: the RDT segment codec       *)
(* applied to every datagram the two endpoints have in flight.            *)
EXTENDS ReliableSocket

(* A datagram in flight as RDTSegment sees it: its header fields and the *)
(* file bytes it carries (byte k of the file holds the value k).         *)
Wire(m) == [seq |-> m.seq, ack |-> m.ack, type |-> m.type, payload |-> Payload(m)]

(* The codec applied to one datagram, with the pad byte the build copied *)
(* and the byte left in the receiver's buffer by an earlier datagram.    *)
Codec(m, p, b) == INSTANCE RDTCodec WITH seg <- Wire(m), pad <- p, old <- b

InFlight == {c2s[i] : i \in DOMAIN c2s} \cup {s2c[i] : i \in DOMAIN s2c}

(* Every segment the two sockets put on the wire (CONN, ACKs, DATA of    *)
(* each chunk size the driver reads, the empty last chunk, CLOSE) is read *)
(* back by the receiving side's RDTSegment constructor as the segment     *)
(* copy_to sent, whatever the padding byte and the stale buffer byte.     *)
WireRoundTrip ==
    \A m \in InFlight, p \in {0, 255}, b \in {0, 255} : Codec(m, p, b)!RoundTrip
=============================================================================
