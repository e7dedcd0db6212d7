-------------------------------- MODULE Echo --------------------------------
(***************************************************************************)
(* What a sketch that answers promises its peer: every packet that arrived *)
(* is answered with what the program has to say to it, in the order of     *)
(* arrival, once, from that packet alone, and in the end.                  *)
(***************************************************************************)
EXTENDS Sequences

VARIABLES
    reply,      \* reply[p]: the answers to packet p, a sequence
    inbox,      \* packets arrived and not yet answered
    answers     \* the answers sent

echo_vars == <<reply, inbox, answers>>

Init == inbox = <<>> /\ answers = <<>>

Arrive ==
    /\ \E p \in DOMAIN reply : inbox' = Append(inbox, p)
    /\ UNCHANGED <<reply, answers>>

Reply ==
    /\ inbox # <<>>
    /\ answers' = answers \o reply[Head(inbox)]
    /\ inbox' = Tail(inbox)
    /\ UNCHANGED reply

Next == Arrive \/ Reply

Spec == Init /\ [][Next]_echo_vars /\ WF_echo_vars(Reply)

=============================================================================
