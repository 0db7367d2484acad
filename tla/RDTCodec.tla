------------------------------ MODULE RDTCodec ------------------------------
(***************************************************************************)
(* The RDT segment codec (RDTSegment.cpp).  copy_to memcpys the RDTHeader  *)
(* struct and appends the payload; the span constructor memcpys the struct *)
(* back out of a receive buffer and takes payload_size bytes after it.     *)
(* RDTHeader is { uint8 seq; uint8 ack; uint8 type; uint16 payload_size }, *)
(* so the compiler pads byte 3 to align payload_size: the header is 6      *)
(* bytes and the pad byte's value is indeterminate.  Bytes are 0..255;     *)
(* payload_size is stored with htons (big-endian on the wire).             *)
(*                                                                         *)
(* The module is instantiated once for each datagram in flight in         *)
(* MCReliableSocket: seg is the segment sent, pad the byte the build      *)
(* happens to copy into the padding, old the byte an earlier, longer      *)
(* datagram left in the receive buffer.                                    *)
(***************************************************************************)
EXTENDS Naturals, Sequences

VARIABLES seg, pad, old

Types == {"DATA", "ACK", "CONN", "CLOSE"}
(* enum RDTMessageType : uint8_t {RDT_DATA, RDT_ACK, RDT_CONN, RDT_CLOSE} *)
TypeCode == [t \in Types |-> CASE t = "DATA" -> 0 [] t = "ACK" -> 1
                                [] t = "CONN" -> 2 [] t = "CLOSE" -> 3]
CodeType(b) == CHOOSE t \in Types : TypeCode[t] = b

HeaderSize == 6                              \* sizeof(RDTHeader)

(* Mutant: payload_size written as a single byte.                        *)
HtonsOneByte(n) == <<n % 256>>

(* Mutant: payload_size stored in host (little-endian) order.           *)
HtonsHostOrder(n) == <<n % 256, n \div 256>>

(* htons: the big-endian bytes of a 16-bit value.                       *)
Htons(n) == <<n \div 256, n % 256>>
Ntohs(hi, lo) == hi * 256 + lo

(* RDTSegment(seq, ack, type, payload) followed by copy_to.             *)
Encode(s, padByte) ==
    <<s.seq, s.ack, TypeCode[s.type], padByte>> \o Htons(Len(s.payload)) \o s.payload

(* UnreliableSocket::receive: the datagram overwrites the front of the   *)
(* receive buffer; byte i beyond it still holds what was there before     *)
(* (past the array's end, whatever the stack holds: the same value here). *)
BufByte(dg, stale, i) == IF i <= Len(dg) THEN dg[i] ELSE stale

(* RDTSegment(span source) on the buffer a datagram dg was received     *)
(* into: header fields, then a view of payload_size bytes after the     *)
(* header, bounded by nothing.                                            *)
Decode(dg, stale) ==
    LET size == Ntohs(BufByte(dg, stale, 5), BufByte(dg, stale, 6)) IN
    [seq |-> BufByte(dg, stale, 1), ack |-> BufByte(dg, stale, 2),
     type |-> BufByte(dg, stale, 3),
     payload |-> [k \in 1..size |-> BufByte(dg, stale, HeaderSize + k)]]

-----------------------------------------------------------------------------
(* What the decoder sees of an encoded segment as a typed record.        *)
AsRead(d) == [seq |-> d.seq, ack |-> d.ack, type |-> CodeType(d.type), payload |-> d.payload]

(* The contract's round trip: decoding the bytes copy_to produced (as     *)
(* received into a buffer holding older bytes) gives back every field and *)
(* the payload, whatever the pad byte held.                               *)
RoundTrip == AsRead(Decode(Encode(seg, pad), old)) = seg
=============================================================================
