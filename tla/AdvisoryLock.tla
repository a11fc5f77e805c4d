---------------------------- MODULE AdvisoryLock ----------------------------
(***************************************************************************)
(* The lock file that keeps two jjmcp processes from evaluating in the     *)
(* same Julia REPL at once (class AdvisoryLock in src/tools.cpp, used by   *)
(* eval_code).  The file is created with O_EXCL and then gets the pid of   *)
(* its creator; who finds it reads the pid, probes the process, and        *)
(* removes the file when there is no such process.  Each system call is a  *)
(* step of its own.                                                        *)
(*                                                                         *)
(* A process is its pid; a restarted server is another process.  Reuse of  *)
(* a pid, which the source names as a known window, is left out.           *)
(***************************************************************************)
EXTENDS Naturals

CONSTANTS
    Procs,    \* the jjmcp processes
    Mortal,   \* the processes that may end, by a crash or by their client
    Paths,    \* lock files: one per configuration directory
    PathOf,   \* the lock file of a process
    PaneOf    \* the tmux pane a process is bound to

ASSUME MortalAssumption == Mortal \subseteq Procs
ASSUME PathAssumption == PathOf \in [Procs -> Paths]

Nobody == "nobody"
ASSUME NobodyAssumption == Nobody \notin Procs

VARIABLES
    pc,        \* what each process is doing
    attempt,   \* iterations of the loop in acquire that have been begun
    seen,      \* the pid each process has read from the file, Nobody if none
    creator,   \* per path: who created the file now at that path
    recorded   \* per path: the pid written in it

vars == <<pc, attempt, seen, creator, recorded>>

TypeOK ==
    /\ pc \in [Procs -> {"idle", "open", "write", "held", "read", "probe", "unlink", "gone"}]
    /\ attempt \in [Procs -> 0..2]
    /\ seen \in [Procs -> Procs \cup {Nobody}]
    /\ creator \in [Paths -> Procs \cup {Nobody}]
    /\ recorded \in [Paths -> Procs \cup {Nobody}]

Init ==
    /\ pc = [p \in Procs |-> "idle"]
    /\ attempt = [p \in Procs |-> 0]
    /\ seen = [p \in Procs |-> Nobody]
    /\ creator = [f \in Paths |-> Nobody]
    /\ recorded = [f \in Paths |-> Nobody]

Goto(p, from, to) == pc[p] = from /\ pc' = [pc EXCEPT ![p] = to]
Exists(f) == creator[f] # Nobody
Remove(f) == creator' = [creator EXCEPT ![f] = Nobody] /\ recorded' = [recorded EXCEPT ![f] = Nobody]

-----------------------------------------------------------------------------
\* eval_code reaches acquire.
Start(p) ==
    /\ Goto(p, "idle", "open")
    /\ attempt' = [attempt EXCEPT ![p] = 1]
    /\ UNCHANGED <<seen, creator, recorded>>

OpenCreatesWithoutExcl(p) ==
    /\ Goto(p, "open", "write")
    /\ creator' = [creator EXCEPT ![PathOf[p]] = p]
    /\ recorded' = [recorded EXCEPT ![PathOf[p]] = Nobody]
    /\ UNCHANGED <<attempt, seen>>
OpenCreates(p) ==
    /\ ~Exists(PathOf[p])
    /\ Goto(p, "open", "write")
    /\ creator' = [creator EXCEPT ![PathOf[p]] = p]
    /\ recorded' = [recorded EXCEPT ![PathOf[p]] = Nobody]
    /\ UNCHANGED <<attempt, seen>>

OpenFindsFile(p) ==
    /\ Exists(PathOf[p])
    /\ Goto(p, "open", "read")
    /\ UNCHANGED <<attempt, seen, creator, recorded>>

\* Any other errno (no permission, no space) refuses the evaluation.
OpenFails(p) ==
    /\ Goto(p, "open", "idle")
    /\ UNCHANGED <<attempt, seen, creator, recorded>>

\* The write goes to the file that was created, which may no longer be the one
\* at the path, and its failure is ignored.
WritePid(p) ==
    /\ Goto(p, "write", "held")
    /\ \/ creator[PathOf[p]] = p /\ recorded' = [recorded EXCEPT ![PathOf[p]] = p]
       \/ UNCHANGED recorded
    /\ UNCHANGED <<attempt, seen, creator>>

\* An empty or vanished file reads as pid 0 and counts as an evaluation in progress.
ReadPid(p) ==
    /\ seen' = [seen EXCEPT ![p] = recorded[PathOf[p]]]
    /\ Goto(p, "read", IF recorded[PathOf[p]] = Nobody THEN "idle" ELSE "probe")
    /\ UNCHANGED <<attempt, creator, recorded>>

\* kill(pid, 0): ESRCH when the process is gone, else the evaluation is refused.
ProbeAlwaysStale(p) ==
    /\ Goto(p, "probe", "unlink")
    /\ UNCHANGED <<attempt, seen, creator, recorded>>
ProbeNeverStale(p) ==
    /\ Goto(p, "probe", "idle")
    /\ UNCHANGED <<attempt, seen, creator, recorded>>
Probe(p) ==
    /\ Goto(p, "probe", IF pc[seen[p]] = "gone" THEN "unlink" ELSE "idle")
    /\ UNCHANGED <<attempt, seen, creator, recorded>>

\* The file at the path is removed, whoever created it since the pid was read;
\* the loop runs twice at most.
UnlinkStaleForever(p) ==
    /\ Remove(PathOf[p])
    /\ Goto(p, "unlink", "open") /\ attempt' = [attempt EXCEPT ![p] = @ + 1]
    /\ UNCHANGED seen
UnlinkStale(p) ==
    /\ Remove(PathOf[p])
    /\ IF attempt[p] < 2
       THEN Goto(p, "unlink", "open") /\ attempt' = [attempt EXCEPT ![p] = @ + 1]
       ELSE Goto(p, "unlink", "idle") /\ UNCHANGED attempt
    /\ UNCHANGED seen

\* The evaluation ends, in whatever way, and the destructor releases the lock.
Release(p) ==
    /\ Goto(p, "held", "idle")
    /\ Remove(PathOf[p])
    /\ UNCHANGED <<attempt, seen>>

\* The process ends between any two system calls; its file stays.
End(p) ==
    /\ p \in Mortal /\ pc[p] # "gone"
    /\ pc' = [pc EXCEPT ![p] = "gone"]
    /\ UNCHANGED <<attempt, seen, creator, recorded>>

Step(p) ==
    \/ OpenCreates(p) \/ OpenFindsFile(p) \/ OpenFails(p) \/ WritePid(p)
    \/ ReadPid(p) \/ Probe(p) \/ UnlinkStale(p) \/ Release(p)

Next == \E p \in Procs : Start(p) \/ Step(p) \/ End(p)

\* Processes run, and one that does not end keeps asking for evaluations.
\* open does not always fail.
Fairness ==
    \A p \in Procs : /\ WF_vars(Step(p)) /\ WF_vars(Start(p))
                     /\ SF_vars(OpenCreates(p) \/ OpenFindsFile(p))

Spec == Init /\ [][Next]_vars /\ Fairness

-----------------------------------------------------------------------------
\* A process holds the lock from the moment its open created the file.
Holds(p) == pc[p] \in {"write", "held"}

\* "A second jjmcp process targeting the same pane cannot interleave its
\* paste-buffer with ours" (tools.cpp:1357): two processes bound to one pane are
\* never inside their evaluations together.
PaneExclusive ==
    \A p, q \in Procs :
        p # q /\ PaneOf[p] = PaneOf[q] => ~(pc[p] = "held" /\ pc[q] = "held")

\* What the code does guarantee: processes that use the same lock file exclude
\* each other as long as no process has ended.
ExclusiveWhileAllRun ==
    (\A p \in Procs : pc[p] # "gone") =>
        \A p, q \in Procs : p # q /\ PathOf[p] = PathOf[q] => ~(Holds(p) /\ Holds(q))

\* As long as no process has ended, the file of a process that holds the lock
\* is removed by that process only, and only to release it: neither a probe
\* of another process nor another's release takes it away.
HeldFileStays ==
    [][\A p \in Procs :
          (\A q \in Procs : pc[q] # "gone") /\ Holds(p) /\ creator[PathOf[p]] = p =>
              creator'[PathOf[p]] = p \/ (pc[p] = "held" /\ pc'[p] = "idle")]_vars

\* Stale-lock detection (tools.cpp:522): a file that records a process that has
\* ended is removed in the end, provided that some process keeps evaluating.
Orphaned(f) == recorded[f] # Nobody /\ pc[recorded[f]] = "gone"
OrphansReclaimed ==
    \A f \in Paths : (Orphaned(f) /\ \E p \in Procs \ Mortal : PathOf[p] = f) ~> ~Orphaned(f)
=============================================================================
