---- MODULE MCNoiseStream ----
(* NoiseStream on a connection that holds less than one frame.               *)
EXTENDS NoiseStream, TLC

====
