---- MODULE SpaGate ----
(***************************************************************************)
(* What single packet authorisation promises, without its mechanism: the  *)
(* tunnel port opens only at the price of a knock that was sealed for this *)
(* server and this port, no knock pays more than Budget times, whatever    *)
(* addresses it is delivered from, and every opening may close by itself.  *)
(* KnockGate (verifier, sniffer, nftables set) implements this module.     *)
(*                                                                         *)
(* It does not promise that the address the port opens for is the sealer's *)
(* own: a knock says nothing of addresses, and THREAT_MODEL.md:37 has a    *)
(* knock that was suppressed on the path re-delivered from another one.    *)
(***************************************************************************)
EXTENDS Naturals

CONSTANTS
    Knocks,     \* identities of knocks (the AEAD nonces)
    Sources,    \* source addresses
    Budget      \* how often one knock may be honoured

VARIABLES
    issued,     \* knocks sealed for the gated port of this server
    spent,      \* knock -> number of times it has been used up
    open        \* sources the firewall admits

vars == <<issued, spent, open>>

Init ==
    /\ issued = {}
    /\ spent = [k \in Knocks |-> 0]
    /\ open = {}

\* A client seals a knock for the gated port.
Issue(k) ==
    /\ issued' = issued \cup {k}
    /\ UNCHANGED <<spent, open>>

\* A knock is used up and the port opens, or stays open, for the address it
\* was delivered from.
Open(k, s) ==
    /\ k \in issued
    /\ spent[k] < Budget
    /\ spent' = [spent EXCEPT ![k] = @ + 1]
    /\ open' = open \cup {s}
    /\ UNCHANGED issued

\* A knock is used up without effect on the firewall: its source is already
\* served, it names another port, or the firewall could not be changed.
Waste(k) ==
    /\ spent[k] < Budget
    /\ spent' = [spent EXCEPT ![k] = @ + 1]
    /\ UNCHANGED <<issued, open>>

\* Openings lapse.
Lapse(S) ==
    /\ open' = open \ S
    /\ UNCHANGED <<issued, spent>>

Next ==
    \/ \E k \in Knocks : Issue(k) \/ Waste(k)
    \/ \E k \in Knocks, s \in Sources : Open(k, s)
    \/ \E S \in SUBSET open : Lapse(S)

Spec == Init /\ [][Next]_vars

====
