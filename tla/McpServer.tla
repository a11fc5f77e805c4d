------------------------------ MODULE McpServer ------------------------------
(***************************************************************************)
(* The serve loop of jjmcp: a reader thread that takes newline-delimited   *)
(* JSON-RPC messages from stdin, one worker thread that runs everything    *)
(* that touches the ToolDispatcher, the queue between them, and stdout,    *)
(* which both write under a mutex (src/main.cpp serve, src/mcp.cpp,        *)
(* src/progress.cpp).                                                      *)
(*                                                                         *)
(* A message is named by its position in the input.  A frame is written in *)
(* two chunks, head and tail, so that an unprotected write could tear it.  *)
(***************************************************************************)
EXTENDS Naturals, Sequences

CONSTANTS
    Messages,      \* the lines the client may send, a subset of Message
    MaxMessages,   \* bound: lines read before the input must end
    MaxProgress    \* bound: progress frames of one tools/call

Methods == {"none", "initialize", "ping", "notifications/initialized",
            "tools/list", "tools/call", "resources/list", "resources/read", "other"}

(* A line as far as the control flow tells lines apart.  "version" is the  *)
(* jsonrpc member: "2.0", any other string or none, or not a string, which *)
(* makes request.value("jsonrpc", "") throw.  "method" is "none" when the  *)
(* line is no object or its method is no string.  "params" is FALSE when   *)
(* the method's parameter checks reject them; "token" is a progressToken.  *)
(* "returns" is FALSE when the dispatcher call it leads to hangs.          *)
Message == [parses : BOOLEAN, version : {"2.0", "other", "not_a_string"},
            method : Methods, hasId : BOOLEAN, params : BOOLEAN, token : BOOLEAN, returns : BOOLEAN]

ASSUME MessagesAssumption == Messages \subseteq Message
ASSUME BoundsAssumption == MaxMessages \in Nat \ {0} /\ MaxProgress \in Nat

Threads == {"reader", "worker"}
NoThread == "none"

Bodies == {"result", "parse_error", "invalid_request", "invalid_params",
           "resource_error", "method_not_found", "internal_error", "tool_call_failed"}
Frames == [type : {"response"}, msg : 1..MaxMessages, body : Bodies]
             \cup [type : {"progress", "list_changed"}, msg : 1..MaxMessages]

Response(i, b) == [type |-> "response", msg |-> i, body |-> b]
Notice(i, type) == [type |-> type, msg |-> i]
Chunk(f, part) == [frame |-> f, part |-> part]

Chunks == [frame : Frames, part : {"head", "tail"}]

VARIABLES
    received,     \* every line read so far, in order
    pc,           \* where each thread is
    cur,          \* the message each thread works on
    frame,        \* the frame each thread is about to write or writing
    emitted,      \* progress frames of the running tools/call
    jobs,         \* queue of message numbers
    jobsMutex,    \* holder of jobs_mutex
    shuttingDown, \* shutting_down
    stdoutMutex,  \* holder of stdout_mutex
    wire,         \* the chunks the client has been sent, in order
    linkUp        \* stdout still accepts bytes

vars == <<received, pc, cur, frame, emitted, jobs, jobsMutex, shuttingDown,
          stdoutMutex, wire, linkUp>>
queueVars == <<jobs, jobsMutex, shuttingDown>>
outVars == <<stdoutMutex, wire, linkUp>>

Labels == {"read", "lock_push", "push", "notify", "lock_stop", "stop", "notify_all",
           "join", "exited", "lock_jobs", "check", "asleep", "dispatch", "tool",
           "write", "head", "tail"}
NoFrame == [type |-> "no_frame"]

TypeOK ==
    /\ received \in Seq(Messages) /\ Len(received) <= MaxMessages
    /\ pc \in [Threads -> Labels]
    /\ cur \in [Threads -> 0..MaxMessages]
    /\ frame \in [Threads -> Frames \cup {NoFrame}]
    /\ emitted \in 0..MaxProgress
    /\ jobs \in Seq(1..MaxMessages)
    /\ jobsMutex \in Threads \cup {NoThread}
    /\ stdoutMutex \in Threads \cup {NoThread}
    /\ shuttingDown \in BOOLEAN /\ linkUp \in BOOLEAN
    /\ wire \in Seq(Chunks)

\* Where a thread starts, and goes when it has handled its message.
Home(t) == IF t = "reader" THEN "read" ELSE "lock_jobs"

Init ==
    /\ received = <<>>
    /\ pc = [t \in Threads |-> Home(t)]
    /\ cur = [t \in Threads |-> 0]
    /\ frame = [t \in Threads |-> NoFrame]
    /\ emitted = 0
    /\ jobs = <<>> /\ jobsMutex = NoThread /\ shuttingDown = FALSE
    /\ stdoutMutex = NoThread /\ wire = <<>> /\ linkUp = TRUE

-----------------------------------------------------------------------------
Goto(t, from, to) == pc[t] = from /\ pc' = [pc EXCEPT ![t] = to]

\* The methods the reader hands over, needs_worker.
NeedsWorkerNotLists(m) == m.method \in {"tools/call", "resources/read"}
NeedsWorkerNotCalls(m) == m.method \in {"tools/list", "resources/list", "resources/read"}
NeedsWorkerAll(m) == TRUE
NeedsWorker(m) == m.method \in {"tools/call", "tools/list", "resources/list", "resources/read"}

-----------------------------------------------------------------------------
(* The reader. *)

\* One turn of the read loop: a line that does not parse is answered at once,
\* a worker method is queued, anything else is handled on this thread.
ReadLine(m) ==
    LET i == Len(received) + 1 IN
    /\ pc["reader"] = "read"
    /\ Len(received) < MaxMessages
    /\ received' = Append(received, m)
    /\ cur' = [cur EXCEPT !["reader"] = i]
    /\ \/ ~m.parses /\ Goto("reader", "read", "write")
          /\ frame' = [frame EXCEPT !["reader"] = Response(i, "parse_error")]
       \/ m.parses /\ NeedsWorker(m) /\ Goto("reader", "read", "lock_push")
          /\ UNCHANGED frame
       \/ m.parses /\ ~NeedsWorker(m) /\ Goto("reader", "read", "dispatch")
          /\ UNCHANGED frame
    /\ UNCHANGED <<emitted, queueVars, outVars>>

ReadMessage == \E m \in Messages : ReadLine(m)

ReadEof ==
    /\ Goto("reader", "read", "lock_stop")
    /\ UNCHANGED <<received, cur, frame, emitted, queueVars, outVars>>

\* jobs_mutex, taken to push a job, to raise shutting_down, or by the worker.
LockJobs(t, from, to) ==
    /\ jobsMutex = NoThread
    /\ Goto(t, from, to)
    /\ jobsMutex' = t
    /\ UNCHANGED <<received, cur, frame, emitted, jobs, shuttingDown, outVars>>

PushJobInFront ==
    /\ Goto("reader", "push", "notify")
    /\ jobs' = <<cur["reader"]>> \o jobs
    /\ jobsMutex' = NoThread
    /\ UNCHANGED <<received, cur, frame, emitted, shuttingDown, outVars>>
PushJob ==
    /\ Goto("reader", "push", "notify")
    /\ jobs' = Append(jobs, cur["reader"])
    /\ jobsMutex' = NoThread
    /\ UNCHANGED <<received, cur, frame, emitted, shuttingDown, outVars>>

RaiseShutdown ==
    /\ Goto("reader", "stop", "notify_all")
    /\ shuttingDown' = TRUE
    /\ jobsMutex' = NoThread
    /\ UNCHANGED <<received, cur, frame, emitted, jobs, outVars>>

\* notify_one and notify_all differ in nothing when one thread can wait.
NotifyNobody(from, to) ==
    /\ Goto("reader", from, to)
    /\ UNCHANGED <<received, cur, frame, emitted, queueVars, outVars>>
Notify(from, to) ==
    /\ pc["reader"] = from
    /\ pc' = [pc EXCEPT !["reader"] = to,
                        !["worker"] = IF @ = "asleep" THEN "lock_jobs" ELSE @]
    /\ UNCHANGED <<received, cur, frame, emitted, queueVars, outVars>>

JoinWorker ==
    /\ pc["worker"] = "exited"
    /\ Goto("reader", "join", "exited")
    /\ UNCHANGED <<received, cur, frame, emitted, queueVars, outVars>>

-----------------------------------------------------------------------------
(* The worker.  The predicate of jobs_cv.wait is evaluated with the mutex   *)
(* held, and going to sleep releases it in the same step.                   *)

WaitSleepThroughShutdown ==
    /\ jobs = <<>>
    /\ Goto("worker", "check", "asleep")
    /\ jobsMutex' = NoThread
    /\ UNCHANGED <<received, cur, frame, emitted, jobs, shuttingDown, outVars>>
WaitSleep ==
    /\ ~shuttingDown /\ jobs = <<>>
    /\ Goto("worker", "check", "asleep")
    /\ jobsMutex' = NoThread
    /\ UNCHANGED <<received, cur, frame, emitted, jobs, shuttingDown, outVars>>

WaitSpuriousWakeup ==
    /\ Goto("worker", "asleep", "lock_jobs")
    /\ UNCHANGED <<received, cur, frame, emitted, queueVars, outVars>>

PopJobButKeepIt ==
    /\ jobs # <<>>
    /\ Goto("worker", "check", "dispatch")
    /\ cur' = [cur EXCEPT !["worker"] = Head(jobs)]
    /\ jobsMutex' = NoThread
    /\ UNCHANGED <<received, frame, emitted, jobs, shuttingDown, outVars>>
PopJob ==
    /\ jobs # <<>>
    /\ Goto("worker", "check", "dispatch")
    /\ cur' = [cur EXCEPT !["worker"] = Head(jobs)]
    /\ jobs' = Tail(jobs)
    /\ jobsMutex' = NoThread
    /\ UNCHANGED <<received, frame, emitted, shuttingDown, outVars>>

WorkerReturnAtOnce ==
    /\ shuttingDown
    /\ Goto("worker", "check", "exited")
    /\ jobsMutex' = NoThread
    /\ UNCHANGED <<received, cur, frame, emitted, jobs, shuttingDown, outVars>>
WorkerReturn ==
    /\ shuttingDown /\ jobs = <<>>
    /\ Goto("worker", "check", "exited")
    /\ jobsMutex' = NoThread
    /\ UNCHANGED <<received, cur, frame, emitted, jobs, shuttingDown, outVars>>

-----------------------------------------------------------------------------
(* handle_request and dispatch_mcp_request, on either thread. *)

Valid(m) == m.version = "2.0" /\ m.method # "none"

\* The methods that call into the ToolDispatcher, once their params are accepted.
DispatcherMethods == {"tools/call", "tools/list", "resources/list", "resources/read"}
Calls(m) == m.hasId /\ m.method \in DispatcherMethods /\ m.params

\* What dispatch_mcp_request answers when it does not call the dispatcher.
DirectAnswerUnlessUnknown(m) ==
    IF Valid(m) /\ m.method = "other" THEN "no_answer" ELSE "result"
DirectAnswer(m) ==
    CASE m.version = "not_a_string"                     -> "internal_error"
      [] ~Valid(m) /\ m.version # "not_a_string"        -> "invalid_request"
      [] Valid(m) /\ m.method \in {"initialize", "ping"} -> "result"
      [] Valid(m) /\ m.method \in DispatcherMethods     -> "invalid_params"
      [] OTHER                                          -> "method_not_found"

\* notifications/initialized is announced back even when it carries an id.
Announces(m) == Valid(m) /\ m.method = "notifications/initialized"

\* Any other message without an id is dropped.
Drops(m) == Valid(m) /\ ~m.hasId /\ ~Announces(m)

Dispatch(t) ==
    /\ pc[t] = "dispatch"
    /\ LET i == cur[t]
           m == received[i]
       IN  \/ /\ Announces(m)
              /\ Goto(t, "dispatch", "write")
              /\ frame' = [frame EXCEPT ![t] = Notice(i, "list_changed")]
              /\ UNCHANGED emitted
           \/ /\ Drops(m)
              /\ Goto(t, "dispatch", Home(t))
              /\ UNCHANGED <<frame, emitted>>
           \/ /\ Valid(m) /\ Calls(m)
              /\ Goto(t, "dispatch", "tool")
              /\ emitted' = 0
              /\ UNCHANGED frame
           \/ /\ ~Announces(m) /\ ~Drops(m) /\ ~(Valid(m) /\ Calls(m))
              /\ Goto(t, "dispatch", "write")
              /\ frame' = [frame EXCEPT ![t] = Response(i, DirectAnswer(m))]
              /\ UNCHANGED emitted
    /\ UNCHANGED <<received, cur, queueVars, outVars>>

\* ProgressEmitter::emit, called from inside a running tools/call that has a token.
EmitProgress(t) ==
    /\ Goto(t, "tool", "write")
    /\ received[cur[t]].method = "tools/call" /\ received[cur[t]].token
    /\ emitted < MaxProgress
    /\ emitted' = emitted + 1
    /\ frame' = [frame EXCEPT ![t] = Notice(cur[t], "progress")]
    /\ UNCHANGED <<received, cur, queueVars, outVars>>

\* What a dispatcher call may end in: a throw is caught around tools/call, and
\* only by handle_request around the other methods.
ToolOutcomes(m) ==
    CASE m.method = "tools/call"     -> {"result", "tool_call_failed"}
      [] m.method = "resources/read" -> {"result", "resource_error", "internal_error"}
      [] OTHER                       -> {"result", "internal_error"}

ToolReturn(t) ==
    /\ Goto(t, "tool", "write")
    /\ received[cur[t]].returns
    /\ \E b \in ToolOutcomes(received[cur[t]]) :
         frame' = [frame EXCEPT ![t] = Response(cur[t], b)]
    /\ UNCHANGED <<received, cur, emitted, queueVars, outVars>>

-----------------------------------------------------------------------------
(* write_locked and the locked writes of emit and notifications/initialized. *)

LockStdoutNever(t) ==
    /\ Goto(t, "write", "head")
    /\ UNCHANGED <<received, cur, frame, emitted, queueVars, outVars>>
LockStdout(t) ==
    /\ stdoutMutex = NoThread
    /\ Goto(t, "write", "head")
    /\ stdoutMutex' = t
    /\ UNCHANGED <<received, cur, frame, emitted, queueVars, wire, linkUp>>

\* Once the stream has failed, output to it is dropped.
Put(t, part) ==
    wire' = IF linkUp THEN Append(wire, Chunk(frame[t], part)) ELSE wire

WriteHead(t) ==
    /\ Goto(t, "head", "tail")
    /\ Put(t, "head")
    /\ UNCHANGED <<received, cur, frame, emitted, queueVars, stdoutMutex, linkUp>>

WriteTail(t) ==
    /\ Goto(t, "tail", IF frame[t].type = "progress" THEN "tool" ELSE Home(t))
    /\ Put(t, "tail")
    /\ stdoutMutex' = NoThread
    /\ UNCHANGED <<received, cur, frame, emitted, queueVars, linkUp>>

\* The client stops reading: SIGPIPE is ignored, so only the stream fails.
LinkBreaks ==
    /\ linkUp /\ linkUp' = FALSE
    /\ UNCHANGED <<received, pc, cur, frame, emitted, queueVars, stdoutMutex, wire>>

\* The process has returned from main.
Exited == pc["reader"] = "exited" /\ UNCHANGED vars

\* What a hanging call waits for goes on outside.
Hung == pc["worker"] = "tool" /\ ~received[cur["worker"]].returns /\ UNCHANGED vars

-----------------------------------------------------------------------------
Handle(t) ==
    Dispatch(t) \/ LockStdout(t) \/ WriteHead(t) \/ WriteTail(t)

\* The reader's own steps: all but waiting for input.
ReaderStep ==
    \/ LockJobs("reader", "lock_push", "push") \/ PushJob
    \/ LockJobs("reader", "lock_stop", "stop") \/ RaiseShutdown
    \/ Notify("notify", "read") \/ Notify("notify_all", "join") \/ JoinWorker
    \/ Handle("reader")

WorkerStep ==
    \/ LockJobs("worker", "lock_jobs", "check")
    \/ WaitSleep \/ PopJob \/ WorkerReturn
    \/ Handle("worker")

Next ==
    \/ ReadMessage \/ ReadEof \/ ReaderStep
    \/ WorkerStep \/ WaitSpuriousWakeup
    \/ \E t \in Threads : EmitProgress(t) \/ ToolReturn(t)
    \/ LinkBreaks \/ Exited \/ Hung

\* Both threads are scheduled, a dispatcher call that does not hang returns (its
\* waits have deadlines), and a mutex that is released again and again is granted
\* in the end (the worker could otherwise take jobs_mutex for ever by spurious
\* wakeups).
Spec ==
    /\ Init /\ [][Next]_vars
    /\ WF_vars(ReaderStep) /\ WF_vars(WorkerStep) /\ WF_vars(ToolReturn("worker"))
    /\ SF_vars(LockJobs("reader", "lock_push", "push"))
    /\ SF_vars(LockJobs("reader", "lock_stop", "stop"))
    /\ \A t \in Threads : SF_vars(LockStdout(t))

-----------------------------------------------------------------------------
(* Properties. *)

\* JSON-RPC: what the client is owed an answer to.  An unparsable or invalid
\* line is answered whether or not it carries an id.
WantsReply(m) ==
    ~m.parses \/ ~Valid(m) \/ (m.hasId /\ m.method # "notifications/initialized")

FramesOf(part) == {k \in DOMAIN wire : wire[k].part = part}
Answers(i, part) ==
    {k \in FramesOf(part) : wire[k].frame.type = "response" /\ wire[k].frame.msg = i}

\* Messages that need the dispatcher, if only to be rejected.
Queued(i) == received[i].parses /\ received[i].method \in DispatcherMethods

\* A thread is inside a dispatcher call, progress frames included.
InCall(t) == pc[t] = "tool" \/ (pc[t] \in {"write", "head", "tail"} /\ frame[t].type = "progress")

\* Frames of the two threads, final responses and progress alike, never
\* interleave (main.cpp:153): each head is followed by its own tail, and only a
\* broken stream ends in a torn frame.
FramesWhole ==
    \A k \in DOMAIN wire :
        IF wire[k].part = "head"
        THEN k < Len(wire) => wire[k + 1] = Chunk(wire[k].frame, "tail")
        ELSE k > 1 /\ wire[k - 1] = Chunk(wire[k].frame, "head")

\* A message gets at most one response over the two threads and the two layers
\* of exception handlers, and none unless it wants one.
AnsweredOnce ==
    \A k, l \in FramesOf("head") :
        wire[k].frame.type = "response" =>
            /\ WantsReply(received[wire[k].frame.msg])
            /\ wire[l].frame.type = "response" /\ wire[l].frame.msg = wire[k].frame.msg => k = l

\* Requests queued for the worker are answered in the order they were read,
\* however the reader's inline answers overtake them.
WorkerAnswersInOrder ==
    \A i, j \in DOMAIN received :
        i < j /\ Queued(i) /\ Queued(j) =>
            \A k \in Answers(i, "head"), l \in Answers(j, "head") : k < l

\* A progress frame belongs to a tools/call with a token, and comes before the
\* response that ends the call and after the end of every earlier call.
ProgressInsideCall ==
    \A k \in FramesOf("head") :
        wire[k].frame.type = "progress" =>
            LET i == wire[k].frame.msg IN
            /\ received[i].method = "tools/call" /\ received[i].token /\ received[i].hasId
            /\ \A l \in Answers(i, "head") : k < l
            /\ \A j \in 1..i - 1 : Queued(j) /\ WantsReply(received[j]) =>
                   \E l \in Answers(j, "tail") : l < k

\* The dispatcher, and the REPL behind it, is only driven by one thread
\* (main.cpp:161): no call runs while another does.
DispatcherExclusive == ~(InCall("reader") /\ InCall("worker"))

\* End of input drains the queue: when main has returned, the worker is gone and
\* every line that wants an answer has one, unless the client stopped reading.
DrainedAtExit ==
    pc["reader"] = "exited" =>
        /\ pc["worker"] = "exited" /\ jobs = <<>>
        /\ linkUp => \A i \in DOMAIN received : WantsReply(received[i]) => Answers(i, "tail") # {}

\* The worker's queue is served up to message i: no call read before it hangs.
Hangs(j) == Queued(j) /\ Valid(received[j]) /\ Calls(received[j]) /\ ~received[j].returns
Served(i) == \A j \in DOMAIN received : Hangs(j) => j > i

\* What the server owes: an answer to every request, except for one the worker
\* cannot reach.  "A long-running tool call never blocks the read loop"
\* (main.cpp:161), so what is handled inline is owed whatever hangs.
Owed(i) == WantsReply(received[i]) /\ (Queued(i) => Served(i))

\* Every owed answer is given in the end: no wakeup of the worker is lost, and
\* keepalive requests are answered while a call hangs.
EveryRequestAnswered ==
    \A i \in 1..MaxMessages :
        (i \in DOMAIN received /\ Owed(i)) ~> (Answers(i, "tail") # {} \/ ~linkUp)

\* A client that closes stdin sees the process end, unless a call hangs.
ExitsAfterEof ==
    (pc["reader"] = "lock_stop" /\ Served(MaxMessages)) ~> (pc["reader"] = "exited")

\* The client's view: a service that answers what it owes (RpcService).
Service == INSTANCE RpcService WITH
    Ids <- 1..MaxMessages,
    asked <- {i \in DOMAIN received : Owed(i)},
    answered <- {i \in DOMAIN received : Answers(i, "tail") # {}},
    linkUp <- linkUp,
    running <- pc["reader"] # "exited"

\* Read loop, queue, worker and mutexes together implement RpcService.
ImplementsService == Service!Spec
=============================================================================
