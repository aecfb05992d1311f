---- MODULE MCDaemon ----
(* Daemon with a few processes and command invocations, as model values. *)
EXTENDS Daemon
====
