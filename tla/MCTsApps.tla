------------------------------ MODULE MCTsApps ------------------------------
(***************************************************************************)
(* TsApps for TLC: the delimiter 0 and two other bytes. Three byte strings *)
(* decode; one callback throws for one of the two payloads. Another caller *)
(* feeds any string of up to three bytes. The peer sends three packets of  *)
(* two kinds, of which one may throw.                                      *)
(***************************************************************************)
EXTENDS TsApps

CONSTANTS a, x, cbAny, cbThrows

MCFrames == {<<1, 2>>, <<1, 1>>, <<2>>}

MCdecoded == [f \in MCFrames |->
                CASE f = <<1, 2>> -> [index |-> 1, data |-> a]
                  [] f = <<1, 1>> -> [index |-> 1, data |-> x]
                  [] OTHER -> [index |-> 2, data |-> x]]

MCThrows == [cb \in Callback |-> IF cb = cbThrows THEN {x} ELSE {}]

MCAccepts == [cb \in Callback |-> IF cb = cbThrows THEN {a} ELSE {a, x}]

MCInputs == UNION {[1 .. n -> Byte] : n \in 0 .. 3}

MCPeerFrames == {<<1, 2>>, <<2>>}

=============================================================================
