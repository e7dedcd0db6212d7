----------------------------- MODULE MCSketches -----------------------------
(***************************************************************************)
(* Sketches for TLC. Three payloads: full fits the types, announces the    *)
(* number of values expected and is a document with both keys; half fits,  *)
(* announces another number and has one key; wrong announces the right     *)
(* number but does not fit.                                                *)
(* Beside the sketches of the repository there is a free one, which uses   *)
(* the subscriber in any way and does not publish.                         *)
(***************************************************************************)
EXTENDS Sketches

CONSTANTS full, half, wrong

MCSketchFits == [t \in BoundVars \cup Callbacks |-> {full, half}]

MCSized == {full, wrong}

MCKeys == [p \in Payloads |->
             CASE p = full -> {"ka", "km"} [] p = half -> {"ka"} [] OTHER -> {}]

Networks == {Udp, Client}

JsonPrograms ==
    {custom_lambda_arduinojson}
      \cup UNION {{wifi_custom_lambda_arduinojson(s),
                   ethernet_custom_lambda_arduinojson(s)} : s \in Networks}

AllPrograms ==
    {simple_lambda, arr_lambda, map_lambda, custom_lambda, simple_manual_data_feed,
     simple_lambda_every_packet, simple_bind_to_variables, arr_bind_to_variables,
     map_bind_to_variables, custom_bind_to_variables}
      \cup UNION {{wifi_simple_lambda(s), ethernet_simple_lambda(s)} : s \in Networks}
      \cup JsonPrograms

-----------------------------------------------------------------------------
(* The free sketch, on a stream and on the manual input. *)

FreeSketch == [kind |-> "free", link |-> Serial, recv |-> 1, send |-> 1]

FreeInit ==
    /\ Init /\ Pub!Init
    /\ sketch = FreeSketch /\ phase = "free"
    /\ seen = 0 /\ arrived = <<>> /\ answers = <<>>
    /\ nested = [k \in {"ka", "km"} |-> "initial"]

\* Bounds of the free sketch: the packets it receives, and that the manual input has
\* no callback for every index, whose closures have the form of those of a stream.
MaxFreePackets == 2

FreeNext ==
    /\ Steps({Serial, Manual}, {1}, {full, wrong})
    /\ received' <= MaxFreePackets /\ always'[Manual] = Null
    /\ UNCHANGED <<pub_vars, own_vars>>

MCNext == IF sketch = FreeSketch THEN FreeNext ELSE SketchNext

MCSpec == (SketchInit \/ FreeInit) /\ [][MCNext]_sketch_vars /\ WF_sketch_vars(Board)

=============================================================================
