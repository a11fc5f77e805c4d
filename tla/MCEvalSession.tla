---------------------------- MODULE MCEvalSession ----------------------------
(* An instance of EvalSession for TLC. *)
EXTENDS EvalSession

\* A third REPL lets a second restart hit the retry.
MCMaxGen == [lines \in BOOLEAN |-> IF lines THEN 3 ELSE 2]
=============================================================================
