----------------------------- MODULE MCRustApps -----------------------------
(***************************************************************************)
(* RustApps for TLC: the delimiter 0 and two other bytes. Three byte       *)
(* strings decode, two of one length; one holds no byte that is not UTF-8. *)
(* Any other caller feeds every string of up to three bytes, so that       *)
(* packets arrive split, joined, damaged and with stray delimiters.        *)
(***************************************************************************)
EXTENDS RustApps

CONSTANTS a, b, cbA, cbAny

MCFrames == {<<1>>, <<2, 1, 1>>, <<1, 1, 1>>}

MCdecoded == [f \in MCFrames |-> CASE f = <<1>> -> [index |-> 1, data |-> a]
                                   [] f = <<2, 1, 1>> -> [index |-> 2, data |-> b]
                                   [] OTHER -> [index |-> 1, data |-> b]]

MCAccepts == [cb \in Callback |-> IF cb = cbA THEN {a} ELSE {a, b}]

MCInputs == UNION {[1 .. n -> Byte] : n \in 0 .. 3}

=============================================================================
