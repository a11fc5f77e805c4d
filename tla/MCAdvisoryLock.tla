--------------------------- MODULE MCAdvisoryLock ---------------------------
(* Instances of AdvisoryLock for TLC. *)
EXTENDS AdvisoryLock

CONSTANTS a, b, c, lockA, pane

MCThree == {a, b, c}

\* All servers started in one project: one lock file, one pane.
MCSamePath == [p \in Procs |-> lockA]
MCSamePane == [p \in Procs |-> pane]
=============================================================================
