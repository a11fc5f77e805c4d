--------------------------- MODULE SyntaxValidator ---------------------------
(***************************************************************************)
(* validate_julia_syntax (src/tools.cpp): the code of an eval is given to  *)
(* a fresh julia on its stdin, which exits with 1 when it does not parse;  *)
(* the verdict is drawn from how the run of ProcessRunner ended.           *)
(***************************************************************************)
EXTENDS ProcessRunner

\* A run that failed to start refuses the eval, one that timed out lets it pass,
\* else the exit code decides.
Verdict ==
    CASE pc = "failed"                     -> "rejected"
      [] Ended /\ timedOut                 -> "accepted"
      [] Ended /\ ~timedOut                -> IF status = "0" THEN "accepted" ELSE "rejected"
      [] OTHER                             -> "none"

\* "The user must have julia on PATH; if not, validation is skipped" (tools.cpp:467):
\* without julia, a run that took place does not refuse the eval.
SkippedWithoutJulia == ~Installed /\ Ended => Verdict = "accepted"
=============================================================================
