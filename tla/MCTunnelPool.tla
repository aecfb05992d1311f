---- MODULE MCTunnelPool ----
(* TunnelPool on a few slots and forwards, as model values.  Its runs check  *)
(* liveness, so no symmetry is declared.                                     *)
EXTENDS TunnelPool
====
