---------------------------- MODULE MCPublisher ----------------------------
(***************************************************************************)
(* Instances of Publisher for TLC. Its three concerns meet in post(), but  *)
(* their product is out of TLC's reach: every behaviour of MCSpec focuses  *)
(* on one of them and lets the sketch do what matters to it, so that MCSpec *)
(* allows fewer behaviours than Spec. The operations of all three are those *)
(* of Publisher. Time is bounded by MaxTime, beyond two wraps of a clock as *)
(* narrow as the stamps.                                                   *)
(***************************************************************************)
EXTENDS Publisher, TLC

VARIABLE focus

TupleShapes == {<<"value", "function", "const">>, <<"const", "value">>}

OneShape == {<<"value">>}

MCShapes == OneShape \cup TupleShapes

\* Elements are told apart by identity only, and no property is a liveness one.
ElementSymmetry == Permutations(Elems)

On(streams) == {t \in Target : t.stream \in streams}

\* What is registered: publications on a TCP client and over UDP, any lookup and
\* removal, while no time passes.
RegistryStep ==
    \/ Registration(On(Clients \cup Udps), OneShape, {0})
    \/ Lookups
    \/ Packing({<<>>})
    \/ Post

\* When it is sent: one serial publication at a time, clocks of both widths.
ClockStep ==
    \/ Tick
    \/ Registration(On(SerialStreams), OneShape, Intervals \ {0})
    \/ \E t \in published : GetPublishElementRef(t)
    \/ Post

\* What is sent: elements of several parts and one-shot calls between them.
EncoderStep ==
    \/ \E v \in Values : SetVar(v)
    \/ Registration(On(Udps), TupleShapes, {0})
    \/ Packing(Args)
    \/ Post

MCInit ==
    /\ Init
    /\ focus \in {"registry", "clock", "encoder"}
    /\ focus # "clock" => clockMod = StampMod
    /\ focus # "encoder" => var = CHOOSE v \in Values : TRUE

MCNext ==
    /\ UNCHANGED <<clockMod, focus>>
    /\ \/ focus = "registry" /\ RegistryStep
       \/ focus = "clock" /\ ClockStep
       \/ focus = "encoder" /\ EncoderStep

MCSpec == MCInit /\ [][MCNext]_<<vars, focus>>

=============================================================================
