# TLA+ models of JJMCP

JJMCP is a local MCP server: it reads JSON-RPC requests from stdin, runs tool
calls against a Julia REPL in a tmux pane that its user also types into, and
answers on stdout. This directory holds TLA+ models of the parts of it whose
behaviour depends on order, failure or time, TLC configurations that check them
on small instances, and TLAPS proofs for any number of processes.

Source references are to the repository (`src/main.cpp` etc.).

## The system

| Component | State | Operations | Modelled in |
|---|---|---|---|
| MCP stdio server (`main.cpp` serve, `mcp.cpp`, `progress.cpp`) | queue `jobs`, `jobs_mutex`, `jobs_cv`, `shutting_down`, `stdout_mutex` | read a line, queue or handle it, dispatch, emit progress, write a frame, shut down | `McpServer`, `RpcService`, `McpServerProofs` |
| Advisory lock (`tools.cpp` AdvisoryLock) | a file that holds a pid | acquire with stale-lock reclaim, release | `AdvisoryLock`, `AdvisoryLockProofs` |
| Eval session, marker transport (`tools.cpp` eval_code, ensure_jjmcp_runtime, RuntimeBootstrapCache; `tmux.cpp` send_text, capture_pane) | marker sequence, runtime cache, accumulator of captures | install the runtime, paste a command, poll for its markers, notice a replaced REPL, retry once | `EvalSession`, `EvalSessionProofs`, `EvalRunsProofs` |
| Julia runtime in the pane (`julia_wrap.cpp` bootstrap and wrapper) | `Main.JJMCPRuntime` | run a command between its markers | `EvalSession`, as the environment |
| Process runner (`process.cpp`) | a child process, three pipes, a deadline | run | `ProcessRunner`, `ProcessRunnerProofs` |
| Syntax validator (`tools.cpp` validate_julia_syntax) | none | a verdict from a run of `julia` | `SyntaxValidator` |
| Capture splice and marker extraction (`julia_wrap.cpp`, the loop of `run_marker_eval`) | accumulator, last capture, last extract | overlap, splice, extraction, truncation, compaction | `Capture`, `CaptureProofs` |
| Socket transport (`socket_client.cpp`, `JJMCPHelper.jl`) | a listening socket, one task per client, the redirected streams | eval, with fallback to the marker transport; start, stop | `SocketEval`, `SocketEvalProofs` |
| Binding and configuration (`state.cpp`, jjmcp_bind, start of serve) | the bound pane, `.jjmcp/config.json` | bind, save, load, clear a stale binding | `ServerLife`, `ServerLifeProofs` (its effect on the runtime cache in `EvalSession`) |
| Transcript (`transcript.cpp`, record_transcript) | path, sequence number, files | switch on, off or over, append | `ServerLife`, `ServerLifeProofs` |
| Test summary (`tools.cpp`) | none (pure) | parse the table Julia's Test prints | not modelled |
| Logging, result type, schemas, man pages | none that the program reads | | not modelled |

How they interact. The reader thread takes lines from stdin. Methods that touch
the `ToolDispatcher` go through a queue to the one worker thread; the others are
handled by the reader. Both threads write to stdout under a mutex, and a running
tool call writes progress frames in between. An eval checks its code with a
`julia` of its own, takes the advisory lock that it shares with other jjmcp
processes, makes sure the runtime is in the REPL, pastes the code and polls the
pane. Every tmux command and the syntax check are a `ProcessRunner::run`. The
pane is shared with its user, who may restart Julia or run something at any time,
and it outlives an eval that has timed out.

What is hard, and what correctness means:

- *Two threads, one stdout*: frames never mix, each request has exactly one answer,
  progress stays inside its call, a call that lasts or hangs does not stop
  keepalive, no wakeup is lost, and the end of input drains the queue.
- *Several processes, one REPL*: their evals exclude each other, also when one of
  them dies with the lock; each system call is a point of interleaving.
- *A REPL that is replaced or busy*: the runtime cache must not outlive the REPL,
  code must not run twice, and an eval must not report the result of another one.
- *Evals over the socket*: they may overlap in one Julia process, whose stdout each of them redirects; a client
  that gives up leaves its eval running, and the fallback may repeat it.
- *A pane that scrolls*: the output of an eval is pieced together from overlapping captures, in bounded memory; the
  end must be found, the verdict must be right and rows must neither be lost nor come twice.
- *Files that outlive a process*: several processes share configurations and transcripts; each may end between
  truncating a file and writing it, and the next one starts from what it left.
- *Child processes*: they may hang, die, or leave others behind at any point; a run
  must end, collect all output and leave no zombie.

`PROJECT.json` lists each hazard at its line, with the properties that cover it
or the reason why none does.

## Modules

### McpServer, RpcService

`McpServer` follows the two threads of `serve` by a program counter each. A line
is a record of what the control flow tells apart: whether it parses, the kind of
its `jsonrpc` member, its method, whether it has an id, whether the parameter
checks accept it, whether it has a progress token, and whether the call it leads
to ever returns. A message is named by its position in the input.

| Action | Code |
|---|---|
| `ReadMessage`, `ReadEof` | one turn of the read loop, main.cpp:219-256 |
| `LockJobs`, `PushJob`, `Notify` | main.cpp:246-251 |
| `RaiseShutdown`, `JoinWorker` | `stop_worker`, main.cpp:210-217 |
| `WaitSleep`, `WaitSpuriousWakeup`, `PopJob`, `WorkerReturn` | the worker's wait, main.cpp:197-205 |
| `Dispatch`, `ToolReturn` | `handle_request` and `dispatch_mcp_request` with both layers of exception handlers |
| `EmitProgress` | `ProgressEmitter::emit` |
| `LockStdout`, `WriteHead`, `WriteTail` | a locked write; a frame goes out in two chunks, so that an unprotected one could tear |
| `LinkBreaks` | the client stops reading; SIGPIPE is ignored (main.cpp:115) and the stream drops what follows |

The branch of the read loop for a failed `read_mcp_message` is left out, since that function never
fails. `RpcService` is what the client may rely on: every answer that is owed is given once and in the end,
and the process does not stop while it owes one. `ImplementsService` is the refinement. An answer is
owed unless the request waits in the queue behind a call that hangs.

### AdvisoryLock, AdvisoryLockProofs

Each system call of `acquire` and `release` (tools.cpp:525-576) is an action of a
process: `open` with O_EXCL, `write`, the read of the pid, `kill(pid, 0)`,
`unlink`. A file is its creator and the pid recorded in it, so that a process can
find the file replaced between two of its calls. A process may end at any point
(`End`) and leaves its file. A pid is not reused: the source names that window
itself.

### EvalSession

One server, one pane. The server side follows `eval_code` and
`ensure_jjmcp_runtime`: the generation is read before anything is pasted, the
bootstrap is pasted and awaited, the command pasted and polled for; captures may
fail; the first pass may detect that the REPL rejected the command, and the second
does not look. The pane side is external and taken from what the code says of it
(the bootstrap text julia_wrap.cpp:111-226 and the comment in tmux.cpp:216-220):

- the scrollback is a sequence of events (echo, BEGIN, ERROR, END, UndefVarError) that carry a marker id;
- a REPL at its prompt takes a bracketed paste as one input. When it is busy for three seconds, the paste is
  typed ahead: Julia 1.12 and later read it line by line (`lineByLine`, chosen in `Init`), so that the code runs without its markers;
  older ones read it as it was pasted, after the eval has perhaps been given up;
- Julia may be restarted at any time, the user may run something, and the running command may print so much
  that old events leave the captures. What one command prints from ERROR to END is not split by that: an ERROR
  marker lost in scrolling while END is still there is outside the model.

The accumulator is abstracted to the markers seen so far (`seen`); how it is built is in `Capture`. What a call keeps in
local variables (`evalVars`) is reset when it returns.

The history variable `misled` holds the calls that took an earlier REPL's runtime for that of the REPL in the pane, because the
generation could not be read (`is_current`, tools.cpp:1161). What is promised of the runs of code is promised of the other calls, and the
exception is real. Its shortest case takes three calls and a REPL that reads what was typed ahead as it was pasted:

1. Call 1 installs the runtime, which is cached, and sends its command to a busy REPL, which does not read it. The call times out, and the REPL is
   replaced by one that still has the command to read.
2. Call 2 finds another generation and pastes a bootstrap. It waits behind the command and times out too; the cache still names the earlier
   REPL, since it is cleared only before the retry (tools.cpp:1573).
3. Call 3 cannot read the generation, believes the cache and pastes its command last. Now the REPL goes on: the command of call 1 is rejected,
   below the echo of the third, which is taken for a rejection of that one; the bootstrap of call 2 installs the runtime; and the command of call 3 runs,
   in the first pass and again in the second.

Two calls, which are what TLC can check in full, do not show this; the proof attempt did.

### Capture

One eval whose REPL prints while the server polls. A row is a marker of this eval, text that no other row has (`Fresh`), text that several
rows share (`Same`), a blank row of a screen that is not full, or the note that stands for truncated lines. `PrintMarker`
follows `run_command` of the runtime, with the errors and interrupts that may come at any point; `PrintText` is the
echo, output and what the prompt shows later; `CompleteRow` completes a row that may have been captured half printed.
Between VAL_END and END the runtime prints nothing, and neither does the model; a task of the user's code could, and what it prints
there is then counted as stdout (julia_wrap.cpp:497), which the comment above that line says it is not. Rows are only added and
completed: output that is drawn again in place, such as a progress bar, and a screen that is cleared are outside the model.

| Definition | Code |
|---|---|
| `FallBack`, `Advance`, `PrefixFunction`, `ComputeOverlap` | the prefix function and the scan, julia_wrap.cpp:298-312, 401-432 |
| `FirstOf`, `Slice`, `ExtractBetweenMarkers`, `TruncateTail` | julia_wrap.cpp:341-386, 434-548 |
| `Compact`, `TrimToBegin`, `DropHead` | what keeps the accumulator small, tools.cpp:165-192, 1462-1475, 1503-1509 |
| `Poll` | one turn of the loop, tools.cpp:1430-1514 |

The code works on bytes. Rows stand for them as long as no row is a proper suffix of another one: otherwise an overlap
may begin in the middle of a row. Limits in bytes are limits in rows, with the proportions of the source as an
assumption (`SizesAssumption`); the special treatment of blank segments is left out. `ensure_jjmcp_runtime` polls with the same splice but
neither trims nor compacts. Deadlines, progress and captures that fail are in `EvalSession`.

### ServerLife

Several processes with working directories of their own, from start to end. It holds what outlives a call: the
binding, the configuration directory that goes with it, the transcript. Calls are those that change it and one that stands for all others.

| Action | Code |
|---|---|
| `Start` | `load_config` from the working directory, the transcript path from option, environment or settings, main.cpp and state.cpp |
| `CheckBinding` | a binding whose pane does not live is cleared, in memory only, at the start of serve |
| `Bind`, `OpenConfig`, `WriteConfig` | `jjmcp_bind`: the binding in memory, the file truncated, the file written |
| `SetTranscript` | `jjmcp_transcript` |
| `ReturnUnchanged`, `Throw` | any other call; one that throws passes `record_transcript` by |
| `RecordOff`, `Record` | `record_transcript` and `Transcript::append`, which numbers an entry before it opens the file |
| `End`, `PaneDies`, `Rotate` | the process ends or is killed; a pane is closed; the user truncates a transcript |

A configuration between its truncation and its write is `Torn`: it exists and does not parse. Project roots are absolute; the
format of an entry and the text of a file are left out, as is the order in which option, environment and settings are asked: `Start`
chooses any path. Pane ids do not recur, as tmux numbers them on.

### ProcessRunner, SyntaxValidator

`ProcessRunner` is `run` from `fork` to return, against a program that may read, write, close its
streams, fork a process that inherits them, exit or hang. The process left behind may read, write, exit or hang as well, also
after the kill. Pipes hold `PipeCap` units; what the processes write is not bounded.

| Action | Code |
|---|---|
| `WriteStdin`, `CloseStdin` | the blocking write of stdin, before the deadline is set |
| `WaitChild`, `CheckDeadline` | `waitpid(WNOHANG)` and the two ways out at the head of the loop |
| `Poll` | which streams poll reports: those are `ready` until they have been read |
| `AppendAvailable` | one `read` in the loop of `append_available`, of the first stream that is `ready`: it goes on while something comes, without a look at the deadline, and ends when the pipe is empty |
| `EndTurn` | both streams have been read |
| `Kill` | SIGKILL, `waitpid`, and both streams to be read once more |
| `PollFails`, `ReapAfterLoop` | poll fails, and the `waitpid` after the loop |

The history variable `missing` counts what was written on a stream and is not in its text yet. `SyntaxValidator` extends
the module with the verdict that `validate_julia_syntax` draws. The read errors of a pipe other than EAGAIN are left out.

### SocketEval

Several servers bound to one pane, whose Julia process runs JJMCPHelper. Each request is a task of its own; tasks are
cooperative, so a step is what a task does between two points where it may yield. An eval is one action where it redirects
stdout (`BeginEval`), one where its code prints (`PrintChunk`), one for the `finally` block (`EndEval`) and one for the answer,
which waits for the reader task (`Drain`, `AnswerWhenDrained`). An eval prints one chunk, named after it, so that the
model can say whose output is where. Julia may or may not throw when a closed stream is restored; both are in the model, and the code
may throw at any time. The client may time out or lose its connection while it waits (`ReceiveFails`); the helper learns nothing
of it. An answer that arrives may not parse, for example because the code printed bytes that are not UTF-8; that is a failure of the
socket like the others (the second disjunct of `Receive`). `understood` keeps the calls whose answer arrived and did parse. The marker transport is reduced to whether it runs the code. stderr is treated as stdout is and is left out, as is the
printing of the value, which is in a `try` of its own. The history variable `outer` keeps, of each eval, those that were in progress when it began:
an eval is nested as long as none of them ends before it (`crossed` says that one did).

## Runs

| Run | Question | Bounds |
|---|---|---|
| `server_traffic` | safety of the two threads | 3 lines of 4 kinds, 2 progress frames per call |
| `server_live` | liveness and refinement, every branch of the dispatch, a call that hangs | 2 lines of 14 kinds, 1 progress frame |
| `lock_safe` | what the lock does guarantee | 3 processes, 2 of which may end |
| `lock_reclaim_race` | the claim of the source, with a process that ends: **violated** | 3 processes, 1 may end |
| `eval_safe` | cache, double execution, attribution, detection, with an old and a new Julia | 2 evals, 3 REPLs, 1 tolerated capture failure |
| `capture_safe` | splice, extraction and compaction: bounded memory, end, verdict, result | screen of 2 rows, captures of 5, accumulator of 9, up to 11 rows printed, of which 0 to 3 may look alike |
| `life_safe` | binding, configuration and transcript of processes that end and start | 2 processes in 2 projects, 3 starts, 3 calls, 1 mishap |
| `process_short_input` | the run ends, with all output, and reaps | 2 units of input, 2 streams, any output, pipes of 2 |
| `process_long_input` | the deadline with input longer than the pipe: **violated** | 3 units of input, pipe of 2 |
| `syntax_no_julia` | validation without julia on PATH: **violated** | |
| `socket_safe` | nesting of streams, output, answers, repetition | 2 servers with 1 eval each, 1 death of Julia |
| `socket_overlap` | output reaches the terminal although evals cross: **violated** | 1 server, 2 evals |

Why the bounds are enough: `server_traffic` needs two queued calls and an inline
answer to overtake them, which three lines allow; a third queued job would wait as
the second does. Three processes are the least for the reclaim race (one that dies and two that reclaim). Two
evals are the least for a timed-out command to meet a later one, and three REPLs let a second restart hit the retry. `kMaxCaptureFailures` is 5
in the source and 1 in the runs: the counter only says how many failures in a row are tolerated.
Two socket evals
can nest, cross and follow each other, which is all that the redirection tells apart. In `capture_safe` eleven rows are more than two
captures and more than the accumulator, so that rows are missed, BEGIN scrolls out of sight, the accumulator is cut, and the markers of an
error still follow; once rows have been missed between two captures, none is missed again. The more rows may look alike, the fewer are
printed; six of them with three alike already give every ambiguous overlap of two captures with a border. Three starts let each
project be taken over by another process and by a successor of its own; three calls let a transcript be switched off and on around an entry that is
lost. For the pipes it matters only whether the input fits, and whether a read finds something. A frame of more than two chunks tears in no other way.

Fairness. In `McpServer` both threads are scheduled (WF of their steps), a call that does not hang returns, since all waits
in the tools have deadlines, and a mutex that is released again and again is granted in the end (SF): spurious
wakeups could otherwise let the worker take `jobs_mutex` for ever, and the standard does not promise fairness
of mutexes but schedulers provide it. Reading input is not fair: the client may never send anything. In `AdvisoryLock` processes run and
keep evaluating, and `open` does not always fail. In `ProcessRunner` the parent runs and time passes; the program has no
fairness, and a parent that finds an empty pipe leaves its read loop. `EvalSession`, `Capture`, `ServerLife` and `SocketEval` state safety only. Deadlock is checked where the code may not stop: `McpServer` (where `Exited` and
`Hung` are the states in which it may) and `AdvisoryLock`. Sessions of bounded calls and a run of a
process come to their end, so that those configurations do not check it.

Some properties need a word. `RerunOnlyIfRejected` is about `lineByLine` only: with an older Julia the
UndefVarError of an earlier command that was typed ahead may be printed after the echo of this one, and
trigger the second pass. It is harmless as long as that REPL rejects this command too, which it does unless a bootstrap waits in between: that can only be so for a call that was
`misled`, and `RunAtMostOnce` leaves those out.
`RestartNoticed` says that only failed captures can make an eval wait until its deadline for a command that was rejected.

`HumanSeesNestedOutput` and `NestedStreams` are about evals of which none
ends before one that started in its course, and `OwnOutput` about evals that do not overlap: a single client that waits for
each answer stays within both, and `socket_overlap` shows what happens otherwise. `RepeatedOnlyUnread` is the most that the fallback
of `transport=auto` guarantees: code whose answer did not arrive in time, was lost or did not parse (socket_client.cpp:118) does run
twice, in the last case although it has ended. Code whose answer was parsed, whatever error it reports, is not repeated.

`Returns` has an exception, because `append_available` looks at no deadline (process.cpp:65): the run may go on for ever while it reads
one stream that is written to for ever. That can be the child, before the deadline is checked again, or a process it left
behind, after the kill. Without the exception the property is false already for `process_short_input`, by the second of these: the parent is
in the read that follows the kill and takes each unit that the process left behind writes.

In `Capture`, two captures between which more was printed than one shows (`outrun`) overlap by accident or not at all: no splice could
do better, and `EndIsSeen` and `VerdictIsRight` leave that case out. `ResultIsOutput` holds always when the
last capture still shows BEGIN, which is why the code prefers it; from the accumulator it holds for full screens of different rows. The other cases are
real: the longest overlap of two captures with repeated rows may be longer than the true one, so that rows are lost; the blank rows of a screen
that is not full, and a row captured half printed, end the overlap, so that rows come twice; and compaction cuts `full_output`, for which
README.md:222-224 names a limit of 8 MiB, and counts in its note only the lines that the last cut removed.

In `ServerLife`, `StartsWithLatest` leaves out directories where a save failed, was interrupted or met the save of another process (`unsaved`), and
`NoSilentLoss` is about calls that return: one that throws leaves no entry and no gap. The lock file is beside the
configuration (`LockFollowsBinding`), so that servers of different projects bound to one pane do not exclude each other; `ExclusiveWhileAllRun` is about one lock file.

Some preconditions leave out what the hazard of the same line is about, and then a property says what holds apart from it:
`ExclusiveWhileAllRun` and `HeldFileStays` suppose that no process has ended, without which the reclaim race violates them, `RunAtMostOnce`, `ResultIsOwn` and
`NotInstalledNotRun` leave out the calls that were `misled`, and `ResultIsOutput` leaves out repeated rows that scrolled away. The notes of these hazards say so.

## What the violated runs show

1. *Reclaim race* (tools.cpp:555). Two processes both read the pid of one that has ended. The first
   unlinks the file, creates its own and holds the lock; the second then unlinks that file, by path, and creates
   another one. Both paste into the pane. The comments (tools.cpp:522-524, 1357) admit only a recycled pid.
2. *Deadline after the write* (process.cpp:178). stdin is written before the deadline is set. Code longer than a pipe,
   given to a julia that hangs in its start, blocks the worker for ever; the comment (tools.cpp:466) says it cannot.
3. *Missing julia* (tools.cpp:499). A failed `execvp` exits with 127, which is reported as a syntax error; the comment
   (tools.cpp:467) says that validation is skipped.
4. *Crossing evals* (JJMCPHelper.jl:239). An eval that begins while another one runs takes the pipe of that one for the
   terminal. When the other one ends first and closes its pipe, the copy fails and the failure is ignored; the output is never
   shown. The docstring (JJMCPHelper.jl:40) says the human still sees it. The socket transport returns before the advisory lock is taken (tools.cpp:1359).

## Proofs

`McpServerProofs`, for any kinds of lines, any number of messages and any number of progress frames:

- `ServerInvariant`: `Spec => []IInv`, the inductive invariant.
- `ServerTypes`: `Spec => []TypeOK`.
- `WholeFrames`: `Spec => []FramesWhole`.
- `OneCaller`: `Spec => []DispatcherExclusive`.

That frames are whole is a statement about the past of stdout, so the invariant ties it to the present: a thread
between the two chunks of a frame holds `stdout_mutex` (`WriterHoldsMutex`), and as long as the stream works, its last chunk is
the head that this thread has written, or a tail if there is no such thread (`LastChunk`). Every step is a locked
write or leaves all that alone (`StepKinds`); two lemmas on sequences (`AppendHead`, `AppendTail`) do the rest. `OneCaller` rests on what
the reader dispatches: its own lines are never those that `needs_worker` accepts (`ReaderCallsNothing`). Types need that cursors and jobs refer to
lines already read (`CursorsRead`). The only assumption used is `BoundsAssumption`.

The second part of the module is about answers, for the same range of constants:

- `AnswersInvariant`: `Spec => []AInv`, the inductive invariant.
- `OneAnswer`, `WorkerOrder`, `ProgressOrder`, `Drained`: `Spec => []` `AnsweredOnce`, `WorkerAnswersInOrder`, `ProgressInsideCall` and `DrainedAtExit`.
- `ServesClient`: `Spec => Service!Init /\ [][Service!Next]_(Service!vars)`, the safety part of the refinement of `RpcService`.

All of these compare places in the history of stdout, so the invariant says what the threads still have to do. A line is open while the reader has it,
it is queued, or the worker has it, and it is in one of these places only, in the order of the input (`InOrder`, `RightThread`). An answer to an open line is on
the wire only while a thread is in the middle of it (`HeadIsLast`), a line that is no longer open has its answer (`Complete`), and the worker skips no line
(`NoneSkipped`). A new answer is therefore the first to its line and comes after those of all earlier queued lines. The queue is empty when the worker ends (`Ends`), and a call
that hangs stays open for ever (`HangsStay`), so that what is answered was owed (`OnlyOwed`), which is what the refinement needs: each step
maps to a step of `RpcService` or leaves its state alone.

`AdvisoryLockProofs`, for any sets of processes and paths and any assignment of paths to processes:

- `TypeCorrect`: `Spec => []TypeOK`.
- `LockInvariant`: `Spec => []IInv`, the inductive invariant.
- `Exclusive`: `Spec => []ExclusiveWhileAllRun`.
- `HeldFileIsKept`: `Spec => HeldFileStays`.

Mutual exclusion is not inductive. O_EXCL helps only if the file at the path is the holder's own (`HolderOwnsFile`);
that file stays only if nobody is about to unlink it (`NobodyUnlinks`); and nobody is, because a probe looks
at the pid of a process (`ProbesAProcess`) and all processes run. `GoneStays` says that a process which has
ended stays ended, so that "all run" after a step means all ran before. The race above is the
reason why the hypothesis cannot be dropped. The assumptions are those of `AdvisoryLock` on its constants.

`ProcessRunnerProofs`, for any set of streams, any sizes of input and pipes and any amount of output, whatever the program does:

- `RunnerInvariant`: `Spec => []IInv`, the inductive invariant.
- `TypeCorrect`: `Spec => []TypeOK`.
- `Reaped`: `Spec => []ReapedOnReturn`.
- `Complete`: `Spec => []OutputComplete`.

That the output is complete when run returns is not inductive. The invariant keeps a balance for every stream: what the
parent misses is what waits in the pipe (`Accounted`), which also bounds it, so that types depend on it. A stream is seen closed only when its
pipe is empty and no process can write to it (`ClosedIsDrained`), and no writer comes back: a fork copies what its parent holds. A
return without a timeout has all streams closed (`ReturnsClosed`). The only assumption used is `PipeAssumption`.

`ServerLifeProofs`, for any processes, directories, roots and transcript files and any bounds:

- `LifeInvariant`: `Spec => []IInv`, the inductive invariant.
- `LifeTypes`: `Spec => []TypeOK`.
- `LockIsBeside`: `Spec => []LockFollowsBinding`.
- `Restored`: `Spec => RestoredWasBound`.
- `Latest`: `Spec => StartsWithLatest`.

What a process starts with is a statement about what others wrote. Whoever saves has a binding made for the directory it saves in
(`SavesItsOwn`), so a configuration that can be read was made for its directory (`ConfigIsLocal`). A process that is down is
unbound (`DownIsUnbound`), so that a start changes a binding only to the loaded one. As long as no save in a directory has failed, been
interrupted or met another, at most one process saves there and it saves the latest binding, and when none does the file holds that
binding (`SavedIsLatest`). The bounds on sequence numbers need that a call is numbered at most once (`Counted`). The assumptions
are `DirsAssumption`, `BoundsAssumption` and `NamesAssumption`.

The gaps of a transcript are counted by a second invariant, in the same module:

- `LossInvariant`: `Spec => []LossInv`.
- `LossShows`: `Spec => []NoSilentLoss`.

The next number of a process is larger than that of each entry it wrote by at least the entries it lost since (`NumbersPass`), whichever file they are in. That
is kept because processes that live come from different starts (`RunsDiffer`), so that nobody else writes or loses in their name, and because a call in
progress is later than all its process has written or lost (`CurrentIsLatest`), so that an entry lost now is never between two older ones.

`EvalSessionProofs`, for any numbers of calls, REPLs and tolerated failures, for both kinds of REPL:

- `SessionInvariant`: `Spec => []IInv`, the inductive invariant.
- `SessionTypes`: `Spec => []TypeOK`.
- `CacheIsSound`: `Spec => []CacheSound`.

The generation is read before the bootstrap is pasted and cached after its markers were seen, so the proof follows the bootstrap in
between. While the REPL is the one whose generation was read and lacks the runtime, the bootstrap is the last item that
waits, or it runs, or it has failed and its ERROR marker is on the screen or was seen (`Boot`); only a running command scrolls
the screen, and none can run after the bootstrap. That its markers are its own needs ids given out and items run in order (`Ids`). A restart
makes both the token and the cache older than the REPL (`Generations`). `SessionTypes` rests on `Counted`: a call
sends at most two items in each of two passes. The only assumption used is `BoundsAssumption`.

`EvalRunsProofs` goes on from there:

- `RunsInvariant`: `Spec => [](IInv /\ RInv)`, the inductive invariant.
- `RunsAtMostOnce`, `ResultsAreOwn`, `NotInstalledNeverRan`: `Spec => []` `RunAtMostOnce`, `ResultIsOwn` and `NotInstalledNotRun`.
- `RerunsOnlyIfRejected`, `RestartsNoticed`: `Spec =>` the action properties `RerunOnlyIfRejected` and `RestartNoticed`.

That code runs once is a question of where its command is. The argument is that a call whose command was rejected is `Doomed`: its code has not run, and what still
waits of it will be rejected too, because no bootstrap is ahead of it. No bootstrap waits or runs while a command is polled for (`Settled`), because the cache is
believed only where none does (`Quiet`) and filled only by one that has ended (`Booted`): this is the step that fails for a call that was `misled`. The
rest relates the screen to the pane: an UndefVarError below the echo means that the command is gone or that the runtime is missing (`Missing`), a command that
was started shows its BEGIN (`Begun`), markers belong to the call that polls for them (`Mine`, `Ended`), and a rejection stays the last thing on the
screen until it is seen (`Noticed`).

`SocketEvalProofs`, for any numbers of servers, calls and deaths of Julia:

- `SocketInvariant`: `Spec => []IInv`, the inductive invariant.
- `SocketTypes`: `Spec => []TypeOK`.
- `UnderstoodNotRepeated`: `Spec => []RepeatedOnlyUnread`.
- `StreamsNested`, `OutputShown`, `OutputOwn`: `Spec => []` `NestedStreams`, `HumanSeesNestedOutput` and `OwnOutput`.

Of two evals in progress one was in progress when the other began (`Outer`). As long as none crosses another, the stdout each eval found is that of the innermost
eval that runs outside of it, or the terminal (`Inner`), and it is still open (`Open`); so the `finally` block restores the right one, and the branch in which
that throws is not taken. The pipe of an eval that is over is empty (`PipeEmpty`), since the answer waits for the reader task, and what was
printed has been shown or is in a pipe, from which each copy takes it one eval further out (`Shown`). Evals that never overlap never cross (`Alone`), and their output
stays in their own pipe (`Own`). How often code runs follows from the state of its task and of its client alone (`Runs`). The
assumptions are `BoundsAssumption` and `TerminalAssumption`.

`CaptureProofs`, for any height of the screen, any scrollback, any number of rows, alike or not, and any bound of the accumulator that satisfies `SizesAssumption`:

- `CaptureInvariant`: `Spec => []IInv`, the inductive invariant.
- `CaptureTypes`, `AccumulatorStaysBounded`, `VerdictFollowsTheCode`, `ResultFollowsTheCode`: `Spec => []` `TypeOK`, `AccumulatorBounded`,
  `VerdictIsRight` and `ResultIsOutput`.
- `OverlapOfCapturesIsLongest`, `EndIsFound`: `Spec =>` the action properties `OverlapIsLongest` and `EndIsSeen`.

The overlap comes first, and needs no invariant. `Longest(q, t, i, P)` says that q is the most rows of a pattern P that are the last of the first i rows of a
text t. `Borders` says so of the prefix function, with the pattern below its first row as the text. The automaton falls back along borders of borders, so what it
falls back to is the longest that the next row can follow (`FallBackIs`); one step of it keeps the most rows matched (`AdvanceIs`); by induction the prefix
function holds the borders (`PrefixFunctionIs`) and the scan ends with the longest overlap (`OverlapIs`), which is unique (`OverlapUnique`).

The invariant has two halves. Of the pane: each marker was printed at most once, none before its time, BEGIN above and END below the others (`Printed`), and what was
printed in each phase is what the text between BEGIN and END is sliced into (`OutputIsText`). Of the eval: the accumulator and the last capture have no marker that was not
in the pane at the last poll (`MarkersSeen`); unless rows were missed, the accumulator keeps BEGIN, and ERROR below it, once they were captured, and END was not captured while the
eval polls (`MarkersKept`); and when captures were full screens of different rows that nothing was lost or cut between, accumulator and last capture
are ends of what was printed (`Exact`). A splice may lose or repeat text, but no marker is in the overlap unless the last capture had it, so those printed since are
below the old accumulator in their order (`NewMarkers`, `SplicedKeeps`); trimming and compaction keep BEGIN and ERROR (`TrimIs`, `CompactIs`). That is why the
verdict is right and END is found even where the result is not exact. Where it is, the rows being different leave one overlap only, the true one (`ExactSplice`). The bound
rests on the proportions in `SizesAssumption`: three truncated slices and three markers fit (`CompactIs`).

What a recursive function computes is an induction over its argument. The theorems of the library for that take an operator as a parameter, which
these provers cannot instantiate; but an induction over a *set* of arguments is a first-order statement, and follows from the fact that the finite subsets of a set
are well-founded under strict inclusion (`Least`, `Inductive`, `StronglyInductive`). The same gives the existence of functions defined from their value one below
(`PrimitiveRecursion`). For that the model writes the scans and the slices as functions over the length of a prefix.

Every invariant and every action property that a passing run checks is thereby proved for all values of the constants. Only
model-checked: everything about liveness and fairness (`OrphansReclaimed`, `EveryRequestAnswered`, `ExitsAfterEof`, `Returns`, and the fairness of
`RpcService` in `ImplementsService`), which TLAPS does not do here. The four properties that the code does not have are, of course, neither proved nor
assumed; the proofs say under which conditions they hold.

## Not modelled

- The test summary parser (tools.cpp): a pure reading of text into counts, whose difficulties are in its characters.
- Logging and the result type, which change nothing that the program reads; schemas and man pages.
- Single tmux commands without state: listing panes, sending a key for `jjmcp_interrupt`. The tools revise, activate, test and pkg_status are
  evals of a command composed from their arguments; that command is not modelled.
- `ping` and `pkg_status` of the helper, which no client in the repository sends, and the limit on the tail of an answer.
- The format of transcript entries and of the configuration, and the order of precedence of options.
- The timeout that the runtime itself keeps in Julia, and how it displays values.
- Output that is drawn again in place, and a screen that is cleared (`Capture`).
- A pid or a pane id that is used again.
