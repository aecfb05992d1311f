---- MODULE MCKnockGate ----
(* KnockGate on small sets of sources and nonces; both are interchangeable. *)
EXTENDS KnockGate, TLC

Symmetry == Permutations(Src) \cup Permutations(Nonces)

====
