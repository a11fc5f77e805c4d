---------------------------- MODULE ProcessRunner ----------------------------
(***************************************************************************)
(* ProcessRunner::run (src/process.cpp), through which every tmux command  *)
(* and the syntax check go: fork a program, feed its stdin, collect its    *)
(* output through pipes until it has ended or a deadline passes, kill it   *)
(* then, and reap it.  The program is free to read or not, to close its    *)
(* streams, to hang, to exit, and to leave a process behind that keeps the *)
(* streams open.                                                           *)
(***************************************************************************)
EXTENDS Naturals

CONSTANTS
    Streams,      \* stdout and stderr, numbered in the order they are read
    StdinSize,    \* length of stdin_data, in units of the pipes
    PipeCap,      \* capacity of a pipe
    Installed     \* the program is on PATH

ASSUME PipeAssumption ==
    /\ Streams \subseteq Nat /\ StdinSize \in Nat /\ PipeCap \in Nat \ {0}
    /\ Installed \in BOOLEAN

VARIABLES
    pc,         \* the parent
    left,       \* units of stdin_data not written yet
    late,       \* the deadline, once set, has passed
    open,       \* stdout_open, stderr_open
    ready,      \* streams whose append_available is still to come or under way in this turn
    timedOut,   \* result.timed_out
    child,      \* the child process, as the kernel knows it
    status,     \* its exit status
    readers,    \* processes that hold the read end of its stdin
    writers,    \* processes that hold the write end of each stream
    inPipe,     \* units in the pipe to its stdin
    outPipe,    \* units in each stream's pipe
    missing     \* history: units the program has written that are not in stdout_text, stderr_text

parentVars == <<pc, left, late, open, ready, timedOut>>
childVars == <<child, status, readers, writers, inPipe, outPipe, missing>>
vars == <<parentVars, childVars>>

Holders == {"child", "heir"}
Statuses == {"none", "0", "1", "127", "killed"}

TypeOK ==
    /\ pc \in {"start", "stdin", "loop", "check", "poll", "read", "kill", "drain", "reap", "returned", "gave_up", "failed"}
    /\ left \in 0..StdinSize /\ late \in BOOLEAN /\ timedOut \in BOOLEAN
    /\ open \in [Streams -> BOOLEAN] /\ ready \subseteq Streams
    /\ child \in {"none", "forked", "running", "zombie", "reaped"} /\ status \in Statuses
    /\ readers \subseteq Holders /\ writers \in [Streams -> SUBSET Holders]
    /\ inPipe \in 0..PipeCap /\ outPipe \in [Streams -> 0..PipeCap]
    /\ missing \in [Streams -> 0..PipeCap]

Init ==
    /\ pc = "start" /\ left = StdinSize /\ late = FALSE /\ timedOut = FALSE
    /\ open = [s \in Streams |-> TRUE] /\ ready = {}
    /\ child = "none" /\ status = "none"
    /\ readers = {} /\ writers = [s \in Streams |-> {}]
    /\ inPipe = 0 /\ outPipe = [s \in Streams |-> 0] /\ missing = [s \in Streams |-> 0]

Goto(from, to) == pc = from /\ pc' = to

-----------------------------------------------------------------------------
(* The parent. *)

\* The pipes and the fork, which may fail and then leave nothing behind.
Fork ==
    \/ Goto("start", "failed") /\ UNCHANGED <<left, late, open, ready, timedOut, childVars>>
    \/ /\ Goto("start", IF StdinSize > 0 THEN "stdin" ELSE "loop")
       /\ child' = "forked" /\ readers' = {"child"} /\ writers' = [s \in Streams |-> {"child"}]
       /\ UNCHANGED <<left, late, open, ready, timedOut, status, inPipe, outPipe, missing>>

\* A blocking write: it waits as long as the pipe is full and somebody may read it.
WriteStdin ==
    /\ pc = "stdin" /\ left > 0 /\ readers # {} /\ inPipe < PipeCap
    /\ left' = left - 1 /\ inPipe' = inPipe + 1
    /\ UNCHANGED <<pc, late, open, ready, timedOut, child, status, readers, writers, outPipe, missing>>

\* All is written, or the write fails with EPIPE; only then is the deadline set.
CloseStdin ==
    /\ left = 0 \/ readers = {}
    /\ Goto("stdin", "loop")
    /\ UNCHANGED <<left, late, open, ready, timedOut, childVars>>

DeadlinePasses ==
    /\ pc \in {"loop", "check", "poll", "read"} /\ ~late
    /\ late' = TRUE
    /\ UNCHANGED <<pc, left, open, ready, timedOut, childVars>>

\* waitpid(WNOHANG), and the way out of the loop.
WaitChildExitOnly ==
    /\ child' = IF child = "zombie" THEN "reaped" ELSE child
    /\ Goto("loop", IF child' = "reaped" THEN "returned" ELSE "check")
    /\ UNCHANGED <<left, late, open, ready, timedOut, status, readers, writers, inPipe, outPipe, missing>>
WaitChild ==
    /\ child' = IF child = "zombie" THEN "reaped" ELSE child
    /\ Goto("loop", IF child' = "reaped" /\ \A s \in Streams : ~open[s] THEN "returned" ELSE "check")
    /\ UNCHANGED <<left, late, open, ready, timedOut, status, readers, writers, inPipe, outPipe, missing>>

CheckNoDeadline ==
    /\ Goto("check", "poll")
    /\ UNCHANGED <<left, late, open, ready, timedOut, childVars>>
CheckDeadline ==
    /\ Goto("check", IF late THEN "kill" ELSE "poll")
    /\ UNCHANGED <<left, late, open, ready, timedOut, childVars>>

\* What poll reports: a stream with something to read, or that no process can write to.
Poll ==
    /\ Goto("poll", "read")
    /\ ready' = {s \in Streams : open[s] /\ (outPipe[s] > 0 \/ writers[s] = {})}
    /\ UNCHANGED <<left, late, open, timedOut, childVars>>

\* append_available, one read(2) a step: it reads on as long as something comes and
\* looks at no deadline; an empty pipe is the last it reads, and the end of the
\* stream when no process can write to it.
Turn(s) == s \in ready /\ \A t \in ready : s <= t
AppendAvailable(s) ==
    /\ pc \in {"read", "drain"} /\ Turn(s)
    /\ \/ /\ outPipe[s] > 0
          /\ outPipe' = [outPipe EXCEPT ![s] = @ - 1] /\ missing' = [missing EXCEPT ![s] = @ - 1]
          /\ UNCHANGED <<open, ready>>
       \/ /\ outPipe[s] = 0
          /\ ready' = ready \ {s} /\ open' = [open EXCEPT ![s] = @ /\ writers[s] # {}]
          /\ UNCHANGED <<outPipe, missing>>
    /\ UNCHANGED <<pc, left, late, timedOut, child, status, readers, writers, inPipe>>

EndTurn ==
    /\ ready = {}
    /\ Goto("read", "loop") \/ Goto("drain", "returned")
    /\ UNCHANGED <<left, late, open, ready, timedOut, childVars>>

\* A signal interrupts poll: nothing is read in this turn.
PollInterrupted ==
    /\ Goto("poll", "loop")
    /\ UNCHANGED <<left, late, open, ready, timedOut, childVars>>

\* It fails in another way: the loop is left.
PollFails ==
    /\ Goto("poll", "reap")
    /\ UNCHANGED <<left, late, open, ready, timedOut, childVars>>

\* SIGKILL and a blocking waitpid, also when the child has been reaped before; both
\* streams are read then, whatever poll said of them.
Without(p) == [s \in Streams |-> writers[s] \ {p}]
KillWithoutWait ==
    /\ Goto("kill", "drain") /\ timedOut' = TRUE /\ ready' = Streams
    /\ child' = "zombie" /\ status' = "killed"
    /\ readers' = readers \ {"child"} /\ writers' = Without("child")
    /\ UNCHANGED <<left, late, open, inPipe, outPipe, missing>>
Kill ==
    /\ Goto("kill", "drain") /\ timedOut' = TRUE /\ ready' = Streams
    /\ child' = "reaped"
    /\ status' = IF child \in {"forked", "running"} THEN "killed" ELSE status
    /\ readers' = readers \ {"child"} /\ writers' = Without("child")
    /\ UNCHANGED <<left, late, open, inPipe, outPipe, missing>>

\* The waitpid after the loop, reached by a failed poll, has no deadline.
ReapAfterLoop ==
    /\ child \in {"zombie", "reaped"}
    /\ Goto("reap", "gave_up")
    /\ child' = "reaped"
    /\ UNCHANGED <<left, late, open, ready, timedOut, status, readers, writers, inPipe, outPipe, missing>>

Parent ==
    \/ Fork \/ WriteStdin \/ CloseStdin \/ WaitChild \/ CheckDeadline
    \/ Poll \/ (\E s \in Streams : AppendAvailable(s)) \/ EndTurn
    \/ PollInterrupted \/ Kill \/ ReapAfterLoop

-----------------------------------------------------------------------------
(* The program, and the process it may leave behind. *)

Running(p) == p = "heir" \/ child = "running"

Exits(s) ==
    /\ child' = "zombie" /\ status' = s
    /\ readers' = readers \ {"child"} /\ writers' = Without("child")

\* execvp, or exit with 127 when there is no such program.
Exec ==
    /\ child = "forked"
    /\ IF Installed
       THEN child' = "running" /\ UNCHANGED <<status, readers, writers>>
       ELSE Exits("127")
    /\ UNCHANGED <<parentVars, inPipe, outPipe, missing>>

Reads ==
    /\ \E p \in readers : Running(p)
    /\ inPipe > 0 /\ inPipe' = inPipe - 1
    /\ UNCHANGED <<parentVars, child, status, readers, writers, outPipe, missing>>

Writes(s) ==
    /\ \E p \in writers[s] : Running(p)
    /\ outPipe[s] < PipeCap
    /\ outPipe' = [outPipe EXCEPT ![s] = @ + 1] /\ missing' = [missing EXCEPT ![s] = @ + 1]
    /\ UNCHANGED <<parentVars, child, status, readers, writers, inPipe>>

ChildCloses ==
    /\ child = "running"
    /\ \/ readers' = readers \ {"child"} /\ UNCHANGED writers
       \/ \E s \in Streams : writers' = [writers EXCEPT ![s] = @ \ {"child"}] /\ UNCHANGED readers
    /\ UNCHANGED <<parentVars, child, status, inPipe, outPipe, missing>>

\* The child forks a process that keeps its open streams.
ChildForks ==
    /\ child = "running"
    /\ readers' = IF "child" \in readers THEN Holders ELSE readers
    /\ writers' = [s \in Streams |-> IF "child" \in writers[s] THEN Holders ELSE writers[s]]
    /\ UNCHANGED <<parentVars, child, status, inPipe, outPipe, missing>>

ChildExits ==
    /\ child = "running"
    /\ Exits("0") \/ Exits("1")
    /\ UNCHANGED <<parentVars, inPipe, outPipe, missing>>

HeirExits ==
    /\ readers' = readers \ {"heir"} /\ writers' = Without("heir")
    /\ UNCHANGED <<parentVars, child, status, inPipe, outPipe, missing>>

Program ==
    \/ Exec \/ Reads \/ (\E s \in Streams : Writes(s))
    \/ ChildCloses \/ ChildForks \/ ChildExits \/ HeirExits

Next == Parent \/ DeadlinePasses \/ PollFails \/ Program

\* The parent runs and time passes; the program may hang at any point.
Spec == Init /\ [][Next]_vars /\ WF_vars(Parent) /\ WF_vars(DeadlinePasses)

-----------------------------------------------------------------------------
Ended == pc \in {"returned", "gave_up"}

\* However the run ends, on time, by the deadline or after a failed poll, no zombie
\* is left and the child no longer runs.
ReapedOnReturn == Ended => child = "reaped"

\* A run that neither timed out nor gave up has collected everything the program
\* and its descendants wrote, also what was written just before the last exit.
OutputComplete == pc = "returned" /\ ~timedOut => \A s \in Streams : missing[s] = 0

\* A run ends, unless poll fails: "bounded to 2 seconds so a Julia start-up hang cannot
\* stall the eval pipeline" (tools.cpp:466).  The exception is the read loop, which
\* looks at no deadline: a stream that is written to for ever, by the child or by a
\* process it left behind, may hold the parent there, also after the kill.
WrittenForEver(s) == <>[](pc \in {"read", "drain"} /\ Turn(s)) /\ []<><<missing'[s] > missing[s]>>_vars
Returns ==
    \/ <>(Ended \/ pc \in {"failed", "reap"})
    \/ \E s \in Streams : WrittenForEver(s)
=============================================================================
