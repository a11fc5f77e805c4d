---------------------------- MODULE MCServerLife ----------------------------
(* An instance of ServerLife for TLC: two processes in projects of their own. *)
EXTENDS ServerLife

CONSTANTS a, b, projectA, projectB

MCCwd == [s \in Servers |-> IF s = a THEN projectA ELSE projectB]
=============================================================================
