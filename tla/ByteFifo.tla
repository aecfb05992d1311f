---- MODULE ByteFifo ----
(***************************************************************************)
(* What a one-way byte stream promises: the receiver gets the bytes the    *)
(* sender put in, in order, none twice and none invented, until it is told *)
(* that the stream has ended or failed.  NoiseStream implements it.        *)
(***************************************************************************)
EXTENDS Integers, Sequences

CONSTANT Data

VARIABLES
    sent,   \* bytes accepted from the sender
    got,    \* bytes handed to the receiver
    state   \* what the receiver was told last

vars == <<sent, got, state>>

Init ==
    /\ sent = <<>>
    /\ got = <<>>
    /\ state = "open"

\* The sender puts in some bytes.
Put ==
    /\ sent' \in Seq(Data)
    /\ Len(sent') > Len(sent)
    /\ SubSeq(sent', 1, Len(sent)) = sent
    /\ UNCHANGED <<got, state>>

\* The receiver gets the next bytes.
Get ==
    /\ state = "open"
    /\ \E n \in (Len(got) + 1)..Len(sent) : got' = SubSeq(sent, 1, n)
    /\ UNCHANGED <<sent, state>>

\* The receiver is told that there is no more.
Finish ==
    /\ state = "open"
    /\ state' \in {"ended", "failed"}
    /\ UNCHANGED <<sent, got>>

Next == Put \/ Get \/ Finish

Spec == Init /\ [][Next]_vars

====
