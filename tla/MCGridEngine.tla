---------------------------- MODULE MCGridEngine ----------------------------
(* Model-checking instances of the grid engine. *)
EXTENDS GridEngineProperties

MCLo == -2

\* A grid of three lines, for the environments that misbehave in every way.
MCLo1 == -1
=============================================================================
