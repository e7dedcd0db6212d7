------------------------------ MODULE MCPyApp ------------------------------
(***************************************************************************)
(* PyApp for TLC: the delimiter 0 and two other bytes. Three byte strings  *)
(* decode, one of them to a payload that is not msgpack; two are no COBS;  *)
(* the others are too short. A noisy line may be opened in the middle of a *)
(* packet. An input of another caller is any string of up to three bytes.  *)
(***************************************************************************)
EXTENDS PyApp

CONSTANTS a, x, cb1, cb2

MCFrames == {<<1>>, <<1, 1>>, <<2, 2, 1>>}

MCdecoded == [f \in MCFrames |->
                CASE f = <<1>> -> [index |-> 1, data |-> a]
                  [] f = <<1, 1>> -> [index |-> 1, data |-> x]
                  [] OTHER -> [index |-> 2, data |-> a]]

MCNotCobs == {<<2>>, <<2, 1>>}

MCAccepts == [cb \in Callback |-> {a}]

MCInputs == UNION {[1 .. n -> Byte] : n \in 0 .. 3}

MidPacket == {<<>>, <<2, 0>>, <<2, 1, 0>>, <<1, 0>>}

=============================================================================
