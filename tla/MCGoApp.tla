------------------------------ MODULE MCGoApp ------------------------------
(***************************************************************************)
(* GoApp for TLC: the delimiter 0 and two other bytes. Three byte strings  *)
(* unstuff to a packet and one of them carries a wrong checksum; the others*)
(* are too short. An input of another caller is any string of up to three  *)
(* bytes.                                                                  *)
(***************************************************************************)
EXTENDS GoApp

CONSTANTS a, b, cbA, cbAny

MCCrc == 0 .. 2

MCcrcUpdate == [x \in MCCrc \X Data |-> (x[1] + (IF x[2] = a THEN 1 ELSE 2)) % 3]

MCChunks == {<<1, 1>>, <<2>>, <<1, 2>>}

MCparsed == [c \in MCChunks |->
               CASE c = <<1, 1>> -> [index |-> 1, data |-> a, crc |-> 1]
                 [] c = <<2>> -> [index |-> 2, data |-> b, crc |-> 2]
                 [] OTHER -> [index |-> 1, data |-> a, crc |-> 2]]

MCFrames == {<<1, 1>>, <<2>>}

MCdecoded == [f \in MCFrames |-> IF f = <<1, 1>> THEN [index |-> 1, data |-> a]
                                 ELSE [index |-> 2, data |-> b]]

MCAccepts == [cb \in Callback |-> IF cb = cbA THEN {a} ELSE {a, b}]

MCInputs == UNION {[1 .. n -> Byte] : n \in 0 .. 3}

MCMessages == {[index |-> 1, data |-> a], [index |-> 2, data |-> b]}

=============================================================================
