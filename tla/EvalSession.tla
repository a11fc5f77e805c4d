----------------------------- MODULE EvalSession -----------------------------
(***************************************************************************)
(* The marker path of eval_code: one server and the Julia REPL of the pane *)
(* it is bound to (src/tools.cpp, src/tmux.cpp, src/julia_wrap.cpp).  The  *)
(* server installs Main.JJMCPRuntime once per REPL, pastes the code as an  *)
(* @JJMCP_COMMAND, and polls the pane for the markers of that command.     *)
(* The user of the pane may restart the REPL at any time, and an eval that *)
(* timed out leaves its command running or waiting in the pane.            *)
(*                                                                         *)
(* Calls, marker ids and REPL generations are numbers.  The scrollback is  *)
(* a sequence of events: the echo of a command, its BEGIN, ERROR and END   *)
(* markers, and the UndefVarError of a REPL without the runtime.  The      *)
(* socket transport and the lock file are in modules of their own.         *)
(***************************************************************************)
EXTENDS Naturals, Sequences, FiniteSets

CONSTANTS
    MaxCalls,           \* bound: eval calls
    MaxGen,             \* bound, per lineByLine: REPLs that live in the pane one after another
    MaxCaptureFailures  \* kMaxCaptureFailures: consecutive failures that are tolerated

ASSUME BoundsAssumption ==
    MaxCalls \in Nat /\ MaxGen \in [BOOLEAN -> Nat \ {0}] /\ MaxCaptureFailures \in Nat

Calls == 1..MaxCalls
Gens == Nat \ {0}
MaxMarkers == 4 * MaxCalls   \* two bootstraps and two commands per call at most
Markers == 1..MaxMarkers
Unknown == 0                 \* the empty generation token

\* What is pasted: a bootstrap or a command.
Items == [kind : {"bootstrap", "command"}, id : Markers, call : Calls]
NoItem == [kind |-> "none"]
Human == [kind |-> "human"]  \* what the user of the pane runs
Events == [what : {"echo", "begin", "error", "end", "undefined"}, id : Markers]

VARIABLES
    pc, call, pass,    \* the server: where it is, which call, which pass of run_marker_eval
    seq, marker,       \* marker_sequence, and the id of the last item sent
    token,             \* the generation ensure_jjmcp_runtime read
    cache,             \* the generation cached for the pane, as a set of at most one
    seen, failures,    \* markers of the current item found so far, failed captures in a row
    outcome,           \* what each call has returned
    misled,            \* history: calls that took an earlier REPL's runtime for this one's
    lineByLine,        \* the pane: an unbracketed paste runs line by line (Julia 1.12 and later)
    gen, runtime,      \* which REPL runs, and whether it has the runtime
    input, running,    \* pasted items not read yet, the item being run
    screen,            \* the scrollback
    ran, done,         \* how often the code of each call was started; the calls it ended for
    rejected           \* markers whose command the REPL rejected

evalVars == <<pass, marker, token, seen, failures>>   \* the locals of eval_code
serverVars == <<pc, call, seq, cache, outcome, misled, evalVars>>
paneVars == <<lineByLine, gen, runtime, input, running, screen, ran, done, rejected>>
vars == <<serverVars, paneVars>>

Outcomes == {"none", "ok", "julia_error", "timed_out", "refused", "not_installed",
             "send_failed", "capture_failed"}

TypeOK ==
    /\ pc \in {"idle", "ensure", "bootstrap", "boot_poll", "paste", "poll"}
    /\ call \in 0..MaxCalls /\ pass \in 1..2
    /\ seq \in 0..MaxMarkers /\ marker \in 0..MaxMarkers /\ marker <= seq
    /\ token \in Gens \cup {Unknown}
    /\ cache \subseteq Gens \cup {Unknown} /\ Cardinality(cache) <= 1
    /\ seen \subseteq {"echo", "begin", "error", "end"}
    /\ failures \in 0..MaxCaptureFailures
    /\ outcome \in [Calls -> Outcomes] /\ misled \subseteq Calls
    /\ lineByLine \in BOOLEAN /\ gen \in 1..MaxGen[lineByLine] /\ runtime \in BOOLEAN
    /\ input \in Seq(Items) /\ running \in Items \cup {NoItem, Human}
    /\ screen \in Seq(Events)
    /\ ran \in [Calls -> Nat] /\ done \subseteq Calls /\ rejected \subseteq Markers

Init ==
    /\ pc = "idle" /\ call = 0 /\ pass = 1 /\ seq = 0 /\ marker = 0 /\ token = Unknown
    /\ cache = {} /\ seen = {} /\ failures = 0 /\ outcome = [c \in Calls |-> "none"] /\ misled = {}
    /\ lineByLine \in BOOLEAN /\ gen = 1 /\ runtime = FALSE
    /\ input = <<>> /\ running = NoItem /\ screen = <<>>
    /\ ran = [c \in Calls |-> 0] /\ done = {} /\ rejected = {}

-----------------------------------------------------------------------------
(* The server. *)

\* eval_code returns, and its locals are gone.
Return(o) ==
    /\ pc' = "idle" /\ outcome' = [outcome EXCEPT ![call] = o]
    /\ pass' = 1 /\ marker' = 0 /\ token' = Unknown /\ seen' = {} /\ failures' = 0

\* A call of an eval-style tool.  It is refused before anything is pasted when the
\* pane is dead, shows another prompt than julia>, or the lock file is held.
StartCall ==
    /\ pc = "idle" /\ call < MaxCalls
    /\ call' = call + 1
    /\ \/ pc' = "ensure" /\ UNCHANGED outcome
       \/ pc' = "idle" /\ outcome' = [outcome EXCEPT ![call'] = "refused"]
    /\ UNCHANGED <<seq, cache, misled, evalVars, paneVars>>

\* jjmcp_bind forgets the injection for the pane.
Bind ==
    /\ pc = "idle" /\ cache' = {}
    /\ UNCHANGED <<pc, call, seq, evalVars, outcome, misled, paneVars>>

IsCurrent(t) == \E g \in cache : t = Unknown \/ g = Unknown \/ g = t

\* The generation is read from /proc, which may fail, before anything is pasted.  A
\* generation that cannot be read is taken for the cached one: the call is misled when
\* that one is gone.
ReadGeneration ==
    /\ pc = "ensure"
    /\ \E t \in {gen, Unknown} :
         \/ /\ IsCurrent(t) /\ pc' = "paste" /\ UNCHANGED token
            /\ misled' = IF IsCurrent(gen) THEN misled ELSE misled \cup {call}
         \/ ~IsCurrent(t) /\ pc' = "bootstrap" /\ token' = t /\ UNCHANGED misled
    /\ UNCHANGED <<call, pass, seq, marker, cache, seen, failures, outcome, paneVars>>

\* The REPL reads an item.  A command it cannot expand is rejected.  Read line by
\* line, the code of a command runs without its markers, and of a bootstrap, which
\* installs nothing, the first marker may print and the echo shows the others.
Show(item, whats) ==
    screen' = screen \o [k \in 1..Len(whats) |-> [what |-> whats[k], id |-> item.id]]
Started(item) == IF item.kind = "command" THEN [ran EXCEPT ![item.call] = @ + 1] ELSE ran

ReadsAsLines(item) ==
    /\ \/ Show(item, <<"echo">>)
       \/ item.kind = "bootstrap" /\ Show(item, <<"echo", "begin", "error", "end">>)
    /\ ran' = Started(item)
    /\ UNCHANGED <<running, rejected>>

ReadsWhole(item) ==
    IF item.kind = "command" /\ ~runtime
    THEN /\ Show(item, <<"echo", "undefined">>)
         /\ rejected' = rejected \cup {item.id}
         /\ UNCHANGED <<running, ran>>
    ELSE /\ Show(item, <<"echo", "begin">>)
         /\ running' = item /\ ran' = Started(item)
         /\ UNCHANGED rejected

\* send_text.  A REPL at its prompt takes the bracketed paste as one input.  When it
\* stays busy for three seconds the paste is keystrokes, which wait to be read and
\* which the terminal may echo at once.
Idle == running = NoItem /\ input = <<>>

Paste(item) ==
    \/ Idle /\ ReadsWhole(item) /\ UNCHANGED input
    \/ /\ ~Idle /\ input' = Append(input, item)
       /\ Show(item, <<"echo">>) \/ UNCHANGED screen
       /\ UNCHANGED <<running, ran, rejected>>

\* tmux may fail before the paste or, by its timeout, after it.
Send(kind, next) ==
    /\ seq' = seq + 1
    /\ \/ /\ Paste([kind |-> kind, id |-> seq + 1, call |-> call])
          /\ pc' = next /\ marker' = seq + 1 /\ seen' = {} /\ failures' = 0
          /\ UNCHANGED <<pass, token, outcome>>
       \/ /\ Paste([kind |-> kind, id |-> seq + 1, call |-> call])
          /\ Return("send_failed")
       \/ Return("send_failed") /\ UNCHANGED <<input, screen, running, ran, rejected>>
    /\ UNCHANGED <<call, cache, misled, lineByLine, gen, runtime, done>>

SendBootstrap == pc = "bootstrap" /\ Send("bootstrap", "boot_poll")
SendCommand == pc = "paste" /\ Send("command", "poll")

\* Extraction from the capture, without what has scrolled out of it, and, when that
\* shows no BEGIN, from the accumulator of all captures of this item.
FoundInCaptureOfAnyone == {screen[i].what : i \in DOMAIN screen} \ {"undefined"}
FoundInCapture ==
    {screen[i].what : i \in {j \in DOMAIN screen : screen[j].id = marker}} \ {"undefined"}
Found == seen \cup FoundInCapture
FoundBegin(s) == "begin" \in s
FoundEnd(s) == "begin" \in s /\ "end" \in s

KeepPolling == seen' = Found /\ UNCHANGED <<pc, pass, marker, token, outcome>>

MarkInstalledNow == cache' = {gen}
MarkInstalled == cache' = {token}

\* ensure_jjmcp_runtime: the runtime is installed, was not, or the wait ends.
PollBootstrap ==
    /\ pc = "boot_poll"
    /\ \/ FoundEnd(Found) /\ "error" \notin Found
          /\ pc' = "paste" /\ MarkInstalled
          /\ marker' = 0 /\ token' = Unknown /\ seen' = {}
          /\ UNCHANGED <<pass, failures, outcome>>
       \/ FoundEnd(Found) /\ "error" \in Found
          /\ Return("not_installed") /\ UNCHANGED cache
       \/ ~FoundEnd(Found) /\ KeepPolling /\ UNCHANGED <<failures, cache>>
       \/ ~FoundEnd(Found) /\ Return("not_installed") /\ UNCHANGED cache
    /\ UNCHANGED <<call, seq, misled, paneVars>>

BootstrapCaptureFails ==
    /\ pc = "boot_poll" /\ Return("not_installed")
    /\ UNCHANGED <<call, seq, cache, misled, paneVars>>

\* jjmcp_runtime_missing: an UndefVarError after the last echo of this command.
UndefinedAnywhere(m) == \E i \in DOMAIN screen : screen[i].what = "undefined"
RuntimeMissing(m) ==
    \E i, j \in DOMAIN screen :
        /\ screen[i] = [what |-> "echo", id |-> m]
        /\ \A k \in DOMAIN screen : screen[k].id = m /\ screen[k].what # "undefined" => k <= i
        /\ i < j /\ screen[j].what = "undefined"

DetectsNever == FALSE
Detects == pass = 1 /\ ~FoundBegin(Found) /\ RuntimeMissing(marker)

\* A capture that shows the end of the command, or nothing new before or after
\* the deadline.
PollCommand ==
    /\ pc = "poll" /\ ~Detects
    /\ \/ FoundEnd(Found) /\ Return(IF "error" \in Found THEN "julia_error" ELSE "ok")
       \/ ~FoundEnd(Found) /\ KeepPolling /\ failures' = 0
       \/ ~FoundEnd(Found) /\ Return("timed_out")
    /\ UNCHANGED <<call, seq, cache, misled, paneVars>>

\* The REPL rejected the command: install the runtime again and retry, once.
Reinject ==
    /\ pc = "poll" /\ Detects
    /\ cache' = {} /\ pass' = 2 /\ pc' = "ensure"
    /\ marker' = 0 /\ token' = Unknown /\ seen' = {} /\ failures' = 0
    /\ UNCHANGED <<call, seq, outcome, misled, paneVars>>

CaptureFailsOnceMore ==
    /\ pc = "poll"
    /\ \/ failures <= MaxCaptureFailures /\ failures' = failures + 1
          /\ UNCHANGED <<pc, pass, marker, token, seen, outcome>>
       \/ failures <= MaxCaptureFailures /\ Return("timed_out")
       \/ failures > MaxCaptureFailures /\ Return("capture_failed")
    /\ UNCHANGED <<call, seq, cache, misled, paneVars>>
CaptureFails ==
    /\ pc = "poll"
    /\ \/ failures < MaxCaptureFailures /\ failures' = failures + 1
          /\ UNCHANGED <<pc, pass, marker, token, seen, outcome>>
       \/ failures < MaxCaptureFailures /\ Return("timed_out")
       \/ failures = MaxCaptureFailures /\ Return("capture_failed")
    /\ UNCHANGED <<call, seq, cache, misled, paneVars>>

Server ==
    \/ ReadGeneration \/ SendBootstrap \/ SendCommand \/ PollBootstrap \/ BootstrapCaptureFails
    \/ PollCommand \/ Reinject \/ CaptureFails

-----------------------------------------------------------------------------
(* The pane. *)

\* The REPL, back at its prompt, reads what was typed ahead.
ReplReads ==
    /\ running = NoItem /\ input # <<>>
    /\ input' = Tail(input)
    /\ IF lineByLine THEN ReadsAsLines(Head(input)) ELSE ReadsWhole(Head(input))
    /\ UNCHANGED <<lineByLine, gen, runtime, done, serverVars>>

\* run_command and the bootstrap print END whether the code succeeded or threw.
ReplFinishes ==
    /\ running \in Items
    /\ \E error \in BOOLEAN :
         /\ screen' = screen \o [k \in 1..(IF error THEN 2 ELSE 1) |->
                          [what |-> IF error /\ k = 1 THEN "error" ELSE "end", id |-> running.id]]
         /\ runtime' = (runtime \/ (running.kind = "bootstrap" /\ ~error))
    /\ done' = IF running.kind = "command" THEN done \cup {running.call} ELSE done
    /\ running' = NoItem
    /\ UNCHANGED <<lineByLine, gen, input, ran, rejected, serverVars>>

\* Julia exits and another one is started in the pane.  What was typed ahead is
\* lost or read by the new one; the scrollback stays.
Restart ==
    /\ gen < MaxGen[lineByLine]
    /\ gen' = gen + 1 /\ runtime' = FALSE /\ running' = NoItem
    /\ input' \in {input, <<>>}
    /\ UNCHANGED <<lineByLine, screen, ran, done, rejected, serverVars>>

\* The user runs something in the pane, which keeps the REPL busy for a while.
HumanRuns ==
    /\ Idle /\ running' = Human
    /\ UNCHANGED <<lineByLine, gen, runtime, input, screen, ran, done, rejected, serverVars>>

HumanFinishes ==
    /\ running = Human /\ running' = NoItem
    /\ UNCHANGED <<lineByLine, gen, runtime, input, screen, ran, done, rejected, serverVars>>

\* The running command prints more than the capture window holds: the oldest lines
\* leave it.  Errors, bootstraps and what the user runs do not print that much.
ReplFloods ==
    /\ running.kind = "command"
    /\ screen # <<>> /\ screen' = Tail(screen)
    /\ UNCHANGED <<lineByLine, gen, runtime, input, running, ran, done, rejected, serverVars>>

Next ==
    \/ StartCall \/ Bind \/ Server
    \/ ReplReads \/ ReplFinishes \/ HumanRuns \/ HumanFinishes
    \/ Restart \/ ReplFloods

Spec == Init /\ [][Next]_vars

-----------------------------------------------------------------------------
\* The cache never says that a REPL carries the runtime when it does not: if the
\* cached token is the generation in the pane, the runtime is installed in it,
\* whatever restarts happened while it was being installed.
CacheSound == gen \in cache => runtime

\* The code of one call is started at most once, over both passes, unless the call was
\* misled: it pastes where a bootstrap may still wait, which can install the runtime
\* between the rejection that triggers the second pass and the command of the first.
RunAtMostOnce == \A c \in Calls \ misled : ran[c] <= 1

\* A result is the result of this call's code, which ran to its end under this
\* call's marker.
ResultIsOwn ==
    \A c \in Calls : outcome[c] \in {"ok", "julia_error"} =>
        c \in done /\ (ran[c] = 1 \/ c \in misled)

\* A call that failed for want of the runtime has not run its code, unless it was misled.
NotInstalledNotRun ==
    \A c \in Calls \ misled : outcome[c] \in {"refused", "not_installed"} => ran[c] = 0

\* "An older failure in the scrollback cannot trigger a rerun" (tools.cpp:1147): the
\* second pass begins only when the REPL has rejected this very command, unless an
\* older Julia rejects an earlier command, typed ahead, below the echo of this one.
RerunOnlyIfRejected ==
    [][lineByLine /\ pass = 1 /\ pass' = 2 => marker \in rejected]_vars

\* A REPL restarted after the runtime was cached costs an eval no more than a poll:
\* a rejected command is not waited for until the deadline, unless captures fail.
RestartNoticed ==
    [][pc = "poll" /\ pass = 1 /\ marker \in rejected /\ outcome'[call] = "timed_out"
          => CaptureFails]_vars
=============================================================================
