--------------------------- MODULE MessageStream ---------------------------
(***************************************************************************)
(* What the owner of an AsyncReader is promised by its infinite reads: the *)
(* messages that the peer sends are handed over whole, once each and in    *)
(* order, until the reader stops.                                          *)
(***************************************************************************)
EXTENDS Naturals, Sequences

VARIABLES
    sent,      \* the messages the peer has sent
    received,  \* the messages handed to the callback
    open       \* the reader has not stopped

vars == <<sent, received, open>>

Init == sent = <<>> /\ received = <<>> /\ open = TRUE

\* Any message may be sent next.
Send ==
    /\ Len(sent') = Len(sent) + 1
    /\ \A i \in 1 .. Len(sent) : sent'[i] = sent[i]
    /\ UNCHANGED <<received, open>>

\* The callback that is given the message may stop the reader.
Deliver ==
    /\ open
    /\ Len(received) < Len(sent)
    /\ received' = Append(received, sent[Len(received) + 1])
    /\ open' \in BOOLEAN
    /\ UNCHANGED sent

Stop == open /\ open' = FALSE /\ UNCHANGED <<sent, received>>

Next == Send \/ Deliver \/ Stop

Spec == Init /\ [][Next]_vars

=============================================================================
