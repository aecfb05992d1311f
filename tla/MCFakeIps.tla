---- MODULE MCFakeIps ----
(* FakeIps on a subnet with two assignable hosts and the device between      *)
(* them; names are interchangeable.                                          *)
EXTENDS FakeIps, TLC

Symmetry == Permutations(Names)

====
