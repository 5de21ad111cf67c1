------------------------------- MODULE FricBus -------------------------------
(* The bytes on a fric bus. A packet is a header (a type in the upper four      *)
(* bits, a port in the lower four), an address and, for a write and for the     *)
(* acknowledge of a read, two bytes of data, one byte in each clock cycle; the  *)
(* bus is zero between packets.                                                 *)
EXTENDS Naturals

Write == 2
Read == 3
WriteAck == 4
ReadAck == 5

Byte == 0..255
MaxWord == 65535
Word == 0..MaxWord

Header(type, port) == 16 * type + port
Type(b) == b \div 16
Port(b) == b % 16
Lo(d) == d % 256
Hi(d) == d \div 256

HasData(type) == type \in {Write, ReadAck}

(* A receiver of packets in the test bench: it looks at the bus at each clock   *)
(* edge and takes the bytes after a nonzero one for the rest of a packet.       *)
Listening == [at |-> "idle", type |-> 0, port |-> 0, addr |-> 0, data |-> 0]

Receivers == [at : {"idle", "addr", "lo", "hi", "end"},
              type : 0..15, port : 0..15, addr : Byte, data : Word]

Complete(r) == r.at = "end"

\* The receiver r after an edge at which it finds the byte b.
Receives(r, b) ==
  CASE r.at \in {"idle", "end"} ->
         IF b = 0 THEN Listening
         ELSE [Listening EXCEPT !.at = "addr", !.type = Type(b), !.port = Port(b)]
    [] r.at = "addr" -> [r EXCEPT !.addr = b, !.at = IF HasData(r.type) THEN "lo" ELSE "end"]
    [] r.at = "lo" -> [r EXCEPT !.data = b, !.at = "hi"]
    [] r.at = "hi" -> [r EXCEPT !.data = r.data + 256 * b, !.at = "end"]
==============================================================================
