------------------------------ MODULE MCCapture ------------------------------
(* An instance of Capture for TLC. *)
EXTENDS Capture

\* The fewer rows look alike, the more of them there are.
MCMaxRows == [n \in 0..3 |-> <<11, 7, 6, 6>>[n + 1]]
=============================================================================
