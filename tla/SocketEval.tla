----------------------------- MODULE SocketEval -----------------------------
(***************************************************************************)
(* The socket transport: SocketClient::eval in the jjmcp servers and       *)
(* JJMCPHelper in the Julia process of a pane, which runs each request in  *)
(* a task of its own.  An eval redirects the stdout of the whole process   *)
(* into a pipe, whose reader task collects the output and copies it to the *)
(* stdout it found; in the end the eval restores that stdout.  The tasks   *)
(* are cooperative: what a task does between two points where it may yield *)
(* is one step.  stderr goes the same way and is left out.                 *)
(*                                                                         *)
(* No lock guards this transport, and a client that has timed out leaves   *)
(* its eval running, so that evals may overlap.  What an eval prints is    *)
(* one chunk, named by the eval.                                           *)
(***************************************************************************)
EXTENDS Naturals

CONSTANTS
    Servers,      \* jjmcp servers bound to the pane
    MaxCalls,     \* bound: calls of one server, one after the other
    MaxRestarts   \* bound: deaths of the Julia process

ASSUME BoundsAssumption == MaxCalls \in Nat /\ MaxRestarts \in Nat

Calls == Servers \X (1..MaxCalls)
Terminal == <<"terminal", 0>>
ASSUME TerminalAssumption == Terminal \notin Calls
Streams == Calls \cup {Terminal}   \* the pipe of an eval is named by the eval

VARIABLES
    transport,    \* of each call: auto or socket
    client,       \* what each call does, or how it returned
    task,         \* the helper's task for each call
    ran,          \* how often the code of each call was started
    threw,        \* calls whose code threw
    reply,        \* what the helper has answered
    socket,       \* the socket file: listening, stale (nobody listens), none
    restarts,     \* deaths of the Julia process so far
    stdout,       \* the stdout of the Julia process
    saved,        \* original_stdout of each eval
    closed,       \* pipes whose write end is closed
    pipe,         \* chunks in each pipe, not read yet
    captured,     \* chunks each reader task has collected
    printed,      \* evals that have printed
    seen,         \* chunks the terminal has shown
    outer,        \* history: the evals that were in progress when each one began
    overlapped,   \* history: two evals have been in progress at once
    understood,     \* history: calls whose answer has arrived and could be parsed
    crossed       \* history: an eval has ended when one that started after it was in progress

clientVars == <<transport, client>>
streamVars == <<stdout, saved, closed, pipe, captured, printed, seen>>
historyVars == <<outer, overlapped, crossed, understood>>
vars == <<clientVars, task, ran, threw, reply, socket, restarts, streamVars, historyVars>>

Returned == {"ok", "error", "failed", "marker", "refused"}
NoReply == [kind |-> "none", out |-> {}]

TypeOK ==
    /\ transport \in [Calls -> {"auto", "socket"}]
    /\ client \in [Calls -> {"idle", "waiting", "fallback"} \cup Returned]
    /\ task \in [Calls -> {"none", "queued", "running", "draining", "done", "dropped"}]
    /\ ran \in [Calls -> 0..2] /\ threw \subseteq Calls
    /\ reply \in [Calls -> [kind : {"none", "ok", "error", "crash"}, out : SUBSET Calls]]
    /\ socket \in {"none", "listening", "stale"} /\ restarts \in 0..MaxRestarts
    /\ stdout \in Streams /\ saved \in [Calls -> Streams] /\ closed \subseteq Calls
    /\ pipe \in [Calls -> SUBSET Calls] /\ captured \in [Calls -> SUBSET Calls]
    /\ printed \subseteq Calls /\ seen \subseteq Calls
    /\ outer \in [Calls -> SUBSET Calls] /\ overlapped \in BOOLEAN /\ crossed \in BOOLEAN /\ understood \subseteq Calls

Init ==
    /\ transport \in [Calls -> {"auto", "socket"}] /\ client = [e \in Calls |-> "idle"]
    /\ task = [e \in Calls |-> "none"] /\ ran = [e \in Calls |-> 0] /\ threw = {}
    /\ reply = [e \in Calls |-> NoReply]
    /\ socket \in {"none", "listening"} /\ restarts = 0
    /\ stdout = Terminal /\ saved = [e \in Calls |-> Terminal] /\ closed = {}
    /\ pipe = [e \in Calls |-> {}] /\ captured = [e \in Calls |-> {}]
    /\ printed = {} /\ seen = {}
    /\ outer = [e \in Calls |-> {}] /\ overlapped = FALSE /\ crossed = FALSE /\ understood = {}

-----------------------------------------------------------------------------
(* A server: eval_code with SocketClient::eval. *)

Goto(e, to) == client' = [client EXCEPT ![e] = to]

\* A socket failure is returned, or answered by the marker transport.
Fail(e) == Goto(e, IF transport[e] = "socket" THEN "failed" ELSE "fallback")

\* A connection is made by the kernel, whatever the helper is doing.  Without a
\* listener there is none, and connect or send may fail anyhow.
Connect(e) ==
    /\ client[e] = "idle"
    /\ \A k \in 1..e[2] - 1 : client[<<e[1], k>>] \in Returned
    /\ \/ socket = "listening" /\ Goto(e, "waiting") /\ task' = [task EXCEPT ![e] = "queued"]
       \/ Fail(e) /\ UNCHANGED task
    /\ UNCHANGED <<transport, ran, threw, reply, socket, restarts, streamVars, historyVars>>

\* The line of the answer.  One that does not parse, as when the code printed bytes
\* that are not UTF-8, or has a field of another type, is a failure of the socket.
ReceiveOrRetry(e) ==
    /\ client[e] = "waiting" /\ reply[e].kind # "none"
    /\ \/ /\ IF reply[e].kind = "ok" THEN Goto(e, "ok") ELSE Fail(e)
          /\ understood' = understood \cup {e}
       \/ Fail(e) /\ UNCHANGED understood
    /\ UNCHANGED <<transport, task, ran, threw, reply, socket, restarts, streamVars, outer, overlapped, crossed>>
Receive(e) ==
    /\ client[e] = "waiting" /\ reply[e].kind # "none"
    /\ \/ /\ Goto(e, IF reply[e].kind = "ok" THEN "ok" ELSE "error")
          /\ understood' = understood \cup {e}
       \/ Fail(e) /\ UNCHANGED understood
    /\ UNCHANGED <<transport, task, ran, threw, reply, socket, restarts, streamVars, outer, overlapped, crossed>>

\* The receive timeout, or a connection that was closed.  The helper is not told.
ReceiveFails(e) ==
    /\ client[e] = "waiting" /\ Fail(e)
    /\ UNCHANGED <<transport, task, ran, threw, reply, socket, restarts, streamVars, historyVars>>

\* The marker transport, of which only matters whether it runs the code.
MarkerEval(e) ==
    /\ client[e] = "fallback"
    /\ \/ Goto(e, "marker") /\ ran' = [ran EXCEPT ![e] = @ + 1]
       \/ Goto(e, "refused") /\ UNCHANGED ran
    /\ UNCHANGED <<transport, task, threw, reply, socket, restarts, streamVars, historyVars>>

-----------------------------------------------------------------------------
(* The helper. *)

InProgress == {e \in Calls : task[e] \in {"running", "draining"}}

\* A request is read, also when its client has gone, and its eval begins.
BeginEvalAgain(e) ==
    /\ task[e] \in {"queued", "done"} /\ task' = [task EXCEPT ![e] = "running"]
    /\ saved' = [saved EXCEPT ![e] = stdout] /\ stdout' = e
    /\ ran' = [ran EXCEPT ![e] = @ + 1]
    /\ outer' = [outer EXCEPT ![e] = InProgress] /\ overlapped' = (overlapped \/ InProgress # {})
    /\ UNCHANGED <<clientVars, threw, reply, socket, restarts, closed, pipe, captured, printed, seen, crossed, understood>>
BeginEval(e) ==
    /\ task[e] = "queued" /\ task' = [task EXCEPT ![e] = "running"]
    /\ saved' = [saved EXCEPT ![e] = stdout] /\ stdout' = e
    /\ ran' = [ran EXCEPT ![e] = @ + 1]
    /\ outer' = [outer EXCEPT ![e] = InProgress] /\ overlapped' = (overlapped \/ InProgress # {})
    /\ UNCHANGED <<clientVars, threw, reply, socket, restarts, closed, pipe, captured, printed, seen, crossed, understood>>

\* The code prints to the stdout of that moment.
PrintChunk(e) ==
    /\ task[e] = "running" /\ e \notin printed \cup threw
    /\ IF stdout \in closed
       THEN threw' = threw \cup {e} /\ UNCHANGED <<printed, pipe, seen>>
       ELSE /\ printed' = printed \cup {e} /\ UNCHANGED threw
            /\ IF stdout = Terminal
               THEN seen' = seen \cup {e} /\ UNCHANGED pipe
               ELSE pipe' = [pipe EXCEPT ![stdout] = @ \cup {e}] /\ UNCHANGED seen
    /\ UNCHANGED <<clientVars, task, ran, reply, socket, restarts, stdout, saved, closed, captured, historyVars>>

\* _drain_pipe_tail: collect, and copy to the stdout the eval found, if it is open.
DrainWithoutCopy(e) ==
    /\ pipe[e] # {}
    /\ captured' = [captured EXCEPT ![e] = @ \cup pipe[e]] /\ pipe' = [pipe EXCEPT ![e] = {}]
    /\ UNCHANGED <<clientVars, task, ran, threw, reply, socket, restarts, stdout, saved, closed, printed, seen, historyVars>>
Drain(e) ==
    /\ pipe[e] # {}
    /\ captured' = [captured EXCEPT ![e] = @ \cup pipe[e]]
    /\ seen' = IF saved[e] = Terminal THEN seen \cup pipe[e] ELSE seen
    /\ LET emptied == [pipe EXCEPT ![e] = {}]
       IN  pipe' = IF saved[e] \in Calls \ closed THEN [emptied EXCEPT ![saved[e]] = @ \cup pipe[e]] ELSE emptied
    /\ UNCHANGED <<clientVars, task, ran, threw, reply, socket, restarts, stdout, saved, closed, printed, historyVars>>

\* The finally block.  Restoring a stdout that is closed may throw, and the
\* handler then answers with a crash.
Crash(e) ==
    /\ task' = [task EXCEPT ![e] = "done"]
    /\ reply' = [reply EXCEPT ![e] = [kind |-> "crash", out |-> {}]]

EndEvalAtTerminal(e) ==
    /\ task[e] = "running" /\ closed' = closed \cup {e}
    /\ threw' \in {threw, threw \cup {e}}
    /\ stdout' = Terminal /\ task' = [task EXCEPT ![e] = "draining"]
    /\ crossed' = (crossed \/ \E d \in InProgress : e \in outer[d])
    /\ UNCHANGED <<clientVars, ran, reply, socket, restarts, saved, pipe, captured, printed, seen, outer, overlapped, understood>>
EndEval(e) ==
    /\ task[e] = "running" /\ closed' = closed \cup {e}
    /\ threw' \in {threw, threw \cup {e}}
    /\ \/ stdout' = saved[e] /\ task' = [task EXCEPT ![e] = "draining"] /\ UNCHANGED reply
       \/ saved[e] \in closed /\ Crash(e) /\ UNCHANGED stdout
    /\ crossed' = (crossed \/ \E d \in InProgress : e \in outer[d])
    /\ UNCHANGED <<clientVars, ran, socket, restarts, saved, pipe, captured, printed, seen, outer, overlapped, understood>>

\* When the reader task has seen the end of the pipe, the answer is written.  An
\* error is printed before, which fails when stdout has been left closed.
Answer(e) ==
    \/ e \in threw /\ stdout \in closed /\ Crash(e)
    \/ /\ ~(e \in threw /\ stdout \in closed)
       /\ task' = [task EXCEPT ![e] = "done"]
       /\ reply' = [reply EXCEPT ![e] = [kind |-> IF e \in threw THEN "error" ELSE "ok", out |-> captured[e]]]

AnswerAtOnce(e) ==
    /\ task[e] = "draining" /\ Answer(e)
    /\ UNCHANGED <<clientVars, ran, threw, socket, restarts, streamVars, historyVars>>
AnswerWhenDrained(e) ==
    /\ task[e] = "draining" /\ pipe[e] = {} /\ Answer(e)
    /\ UNCHANGED <<clientVars, ran, threw, socket, restarts, streamVars, historyVars>>

\* start removes what is at the path and listens.
HelperStarts ==
    /\ socket # "listening" /\ socket' = "listening"
    /\ UNCHANGED <<clientVars, task, ran, threw, reply, restarts, streamVars, historyVars>>

\* stop drops connections that were not accepted; evals in progress go on.
Drop(D) == task' = [e \in Calls |-> IF e \in D THEN "dropped" ELSE task[e]]
HelperStops ==
    /\ socket = "listening" /\ socket' = "none"
    /\ \E D \in SUBSET {e \in Calls : task[e] = "queued"} : Drop(D)
    /\ UNCHANGED <<clientVars, ran, threw, reply, restarts, streamVars, historyVars>>

\* The Julia process ends; its socket file stays.
JuliaDies ==
    /\ restarts < MaxRestarts /\ restarts' = restarts + 1
    /\ socket' = IF socket = "listening" THEN "stale" ELSE socket
    /\ Drop({e \in Calls : task[e] \in {"queued", "running", "draining"}})
    /\ stdout' = Terminal /\ pipe' = [e \in Calls |-> {}]
    /\ UNCHANGED <<clientVars, ran, threw, reply, saved, closed, captured, printed, seen, historyVars>>

Next ==
    \/ \E e \in Calls :
          \/ Connect(e) \/ Receive(e) \/ ReceiveFails(e) \/ MarkerEval(e)
          \/ BeginEval(e) \/ PrintChunk(e) \/ Drain(e) \/ EndEval(e) \/ AnswerWhenDrained(e)
    \/ HelperStarts \/ HelperStops \/ JuliaDies

Spec == Init /\ [][Next]_vars

-----------------------------------------------------------------------------
Quiet == \A e \in Calls : task[e] \notin {"running", "draining"} /\ pipe[e] = {}

\* "Captured stdout / stderr are echoed back to the real terminal so the human still
\* sees output" (JJMCPHelper.jl:40): when no eval is in progress, the terminal has
\* shown what the evals that ended have printed.
HumanSeesOutput ==
    Quiet => \A e \in printed : task[e] = "done" => e \in seen

\* That is so as long as an eval ends only after those that started in its course, and
\* the process they run in does not die.
HumanSeesNestedOutput ==
    ~crossed /\ (\A e \in Calls : task[e] # "dropped") => HumanSeesOutput

\* "Restore the global streams" (JJMCPHelper.jl:259): as long as an eval ends only
\* after those that started in its course, stdout is that of the innermost running
\* one, and the terminal when none runs.
NestedStreams ==
    ~crossed =>
        LET running == {e \in Calls : task[e] = "running"}
        IN  IF running = {} THEN stdout = Terminal
            ELSE stdout \in running /\ running \ {stdout} \subseteq outer[stdout]

\* As long as evals do not overlap, an answer carries all that the eval printed,
\* and nothing else.
OwnOutput ==
    ~overlapped => \A e \in Calls : reply[e].kind # "none" => reply[e].out = printed \cap {e}

\* "With transport=auto, a socket failure falls back to the marker path" (tools.cpp:1315),
\* which runs the code a second time: only of a call with transport=auto whose request
\* was sent, and whose answer could not be read, be it late, lost or unparsable.  Code
\* whose answer was parsed, an error or a crash of the helper included, has run once.
RepeatedOnlyUnread ==
    \A e \in Calls :
        /\ e \in understood => ran[e] = 1
        /\ ran[e] = 2 => transport[e] = "auto" /\ client[e] = "marker" /\ task[e] # "none"
=============================================================================
