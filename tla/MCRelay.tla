---- MODULE MCRelay ----
(* Relay with one party, which may lack any of its credentials or replay a  *)
(* recorded first message, and a knock from elsewhere.                      *)
EXTENDS Relay

OneAddress == [c \in Clients |-> CHOOSE s \in Addresses : TRUE]

====
