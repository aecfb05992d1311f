---- MODULE MCPolicyRoutes ----
(* PolicyRoutes alone; servers and addresses are interchangeable. *)
EXTENDS PolicyRoutes, TLC

PolicySymmetry == Permutations(Entries) \cup Permutations(Ips)

====
