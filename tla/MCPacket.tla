------------------------------ MODULE MCPacket ------------------------------
(***************************************************************************)
(* Packet for TLC: payloads of up to three bytes from zero, one, a msgpack  *)
(* header and the largest byte, and one in which a wrong code passes the    *)
(* check: <<3, 0, 0, 1, 2>> with index 1 may become <<0, 1, 4, 0, 0>>.      *)
(***************************************************************************)
EXTENDS Packet, Crc8

SampleBytes == {0, 1, 147, 255}

SmallPayloads == UNION {[1 .. n -> SampleBytes] : n \in 1 .. 3} \cup {<<3, 0, 0, 1, 2>>}

=============================================================================
