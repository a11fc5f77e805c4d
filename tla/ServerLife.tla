------------------------------ MODULE ServerLife ------------------------------
(***************************************************************************)
(* What a jjmcp process keeps from one tool call to the next and from one  *)
(* run to the next: the bound pane with its .jjmcp/config.json, and the    *)
(* transcript (src/state.cpp, src/transcript.cpp, the start of serve in    *)
(* src/main.cpp, bind, transcript_tool and record_transcript in            *)
(* src/tools.cpp).  Several processes may share directories and files, and *)
(* each may end at any point.                                              *)
(*                                                                         *)
(* A binding is a pane id and the project_root it came with.  What a call  *)
(* does to the pane is in EvalSession; here it returns or throws.          *)
(***************************************************************************)
EXTENDS Naturals, Sequences, FiniteSets

CONSTANTS
    Servers,      \* jjmcp processes
    Dirs,         \* directories with a .jjmcp/config.json
    CwdOf,        \* the working directory of each process
    Roots,        \* the directories that calls of jjmcp_bind name as project_root
    Panes,        \* tmux pane ids
    Files,        \* transcript files
    MaxCalls,     \* bound: tool calls, over all processes
    MaxStarts,    \* bound: starts, over all processes
    MaxTrouble    \* bound: panes that die, files that cannot be written or are rotated

ASSUME DirsAssumption == CwdOf \in [Servers -> Dirs] /\ Roots \subseteq Dirs
ASSUME BoundsAssumption == MaxCalls \in Nat /\ MaxStarts \in Nat /\ MaxTrouble \in Nat

Off == "off"                                        \* no transcript path
NoRoot == "no_project_root"
NoBinding == [pane |-> "unbound", root |-> NoRoot]
NoConfig == [pane |-> "no_file", root |-> NoRoot]   \* the file does not exist
Torn == [pane |-> "torn", root |-> NoRoot]          \* the file exists and does not parse

ASSUME NamesAssumption ==
    {"unbound", "no_file", "torn"} \cap Panes = {} /\ Off \notin Files /\ NoRoot \notin Dirs

Binding == [pane : Panes, root : Dirs \cup {NoRoot}]
Entry == [run : 1..MaxStarts, seq : 1..MaxCalls, call : 1..MaxCalls]

VARIABLES
    pc,          \* where each process is
    run,         \* which of all starts each process comes from
    binding,     \* state_.binding
    configDir,   \* the directory of state_.config_path, which is also that of the lock
    config,      \* the configuration file of each directory
    alive,       \* the panes that live
    path,        \* the transcript path of each process
    sequence,    \* sequence_ of each process
    file,        \* the entries of each transcript file
    starts, calls, trouble,  \* counters of what is bounded
    current,     \* history: the number of the call each process is in
    lost,        \* history: the calls whose entry could not be written, with their runs
    bound,       \* history: bindings made, with the directory they were made for
    latest,      \* history: the latest of each directory
    unsaved      \* history: directories where a save failed, was interrupted or met another

bindVars == <<binding, configDir, bound, latest>>
configVars == <<config, unsaved>>
transcriptVars == <<path, sequence>>
fileVars == <<file, lost>>
vars == <<pc, run, bindVars, configVars, alive, transcriptVars, fileVars,
          starts, calls, trouble, current>>

TypeOK ==
    /\ pc \in [Servers -> {"down", "check", "idle", "open", "write", "record"}]
    /\ run \in [Servers -> 0..MaxStarts]
    /\ binding \in [Servers -> Binding \cup {NoBinding}]
    /\ configDir \in [Servers -> Dirs]
    /\ config \in [Dirs -> Binding \cup {NoConfig, Torn}]
    /\ alive \subseteq Panes
    /\ path \in [Servers -> Files \cup {Off}]
    /\ sequence \in [Servers -> 0..MaxCalls]
    /\ file \in [Files -> Seq(Entry)]
    /\ starts \in 0..MaxStarts /\ calls \in 0..MaxCalls /\ trouble \in 0..MaxTrouble
    /\ current \in [Servers -> 0..MaxCalls]
    /\ lost \subseteq [run : 1..MaxStarts, call : 1..MaxCalls]
    /\ bound \subseteq [binding : Binding, dir : Dirs]
    /\ latest \in [Dirs -> Binding \cup {NoBinding}] /\ unsaved \subseteq Dirs

Init ==
    /\ pc = [s \in Servers |-> "down"] /\ run = [s \in Servers |-> 0]
    /\ binding = [s \in Servers |-> NoBinding] /\ configDir = CwdOf
    /\ config = [d \in Dirs |-> NoConfig] /\ alive = Panes
    /\ path = [s \in Servers |-> Off] /\ sequence = [s \in Servers |-> 0]
    /\ file = [f \in Files |-> <<>>]
    /\ starts = 0 /\ calls = 0 /\ trouble = 0
    /\ current = [s \in Servers |-> 0] /\ lost = {}
    /\ bound = {} /\ latest = [d \in Dirs |-> NoBinding] /\ unsaved = {}

-----------------------------------------------------------------------------
Goto(s, from, to) == pc[s] = from /\ pc' = [pc EXCEPT ![s] = to]

\* Something goes wrong, which is bounded.
Trouble == trouble < MaxTrouble /\ trouble' = trouble + 1

(* The start of serve. *)

\* A file that is missing or does not parse leaves the process unbound.
LoadedUnchecked(d) == config[d]
Loaded(d) == IF config[d] \in {NoConfig, Torn} THEN NoBinding ELSE config[d]

\* load_config from the working directory; the transcript comes from the option, the
\* environment or the settings file.
Start(s) ==
    /\ Goto(s, "down", "check")
    /\ starts < MaxStarts /\ starts' = starts + 1
    /\ run' = [run EXCEPT ![s] = starts + 1]
    /\ configDir' = [configDir EXCEPT ![s] = CwdOf[s]]
    /\ binding' = [binding EXCEPT ![s] = Loaded(CwdOf[s])]
    /\ \E f \in Files \cup {Off} : path' = [path EXCEPT ![s] = f]
    /\ UNCHANGED <<configVars, bound, latest, alive, sequence, fileVars, calls, trouble, current>>

\* A binding whose pane does not live is cleared, in memory only.
CheckBinding(s) ==
    /\ Goto(s, "check", "idle")
    /\ binding' = [binding EXCEPT ![s] =
                     IF @.pane \in alive THEN @ ELSE NoBinding]
    /\ UNCHANGED <<run, configVars, configDir, bound, latest, alive, transcriptVars, fileVars,
                   starts, calls, trouble, current>>

-----------------------------------------------------------------------------
(* A tool call.  The worker thread runs one at a time. *)

\* A call is dispatched and gets as far as "to".
Begin(s, to) ==
    /\ Goto(s, "idle", to)
    /\ calls < MaxCalls /\ calls' = calls + 1
    /\ current' = [current EXCEPT ![s] = calls + 1]

\* config_base_from_project.
Base(s, root) == IF root = NoRoot THEN CwdOf[s] ELSE root

SomeoneSaves(d) == \E t \in Servers : pc[t] \in {"open", "write"} /\ configDir[t] = d

\* jjmcp_bind of a pane that lives: the binding is replaced in memory.  A pane that is
\* gone or dead is an error that changes nothing, one of those of ReturnUnchanged.
BindInPlace(s, p, root) ==
    /\ p \in alive /\ Begin(s, "open")
    /\ binding' = [binding EXCEPT ![s] = [pane |-> p, root |-> root]]
    /\ bound' = bound \cup {[binding |-> binding'[s], dir |-> Base(s, root)]}
    /\ latest' = [latest EXCEPT ![Base(s, root)] = binding'[s]]
    /\ UNCHANGED <<run, configVars, configDir, alive, transcriptVars, fileVars, starts, trouble>>
Bind(s, p, root) ==
    /\ p \in alive /\ Begin(s, "open")
    /\ binding' = [binding EXCEPT ![s] = [pane |-> p, root |-> root]]
    /\ configDir' = [configDir EXCEPT ![s] = Base(s, root)]
    /\ bound' = bound \cup {[binding |-> binding'[s], dir |-> Base(s, root)]}
    /\ latest' = [latest EXCEPT ![Base(s, root)] = binding'[s]]
    /\ unsaved' = unsaved \cup {d \in {Base(s, root)} : SomeoneSaves(d)}
    /\ UNCHANGED <<run, config, alive, transcriptVars, fileVars, starts, trouble>>

\* save_config opens the file, which truncates it, or warns that it cannot.
OpenConfig(s) ==
    /\ \/ /\ Goto(s, "open", "write")
          /\ config' = [config EXCEPT ![configDir[s]] = Torn]
          /\ UNCHANGED <<unsaved, trouble>>
       \/ /\ Goto(s, "open", "record") /\ Trouble
          /\ unsaved' = unsaved \cup {configDir[s]} /\ UNCHANGED config
    /\ UNCHANGED <<run, bindVars, alive, transcriptVars, fileVars, starts, calls, current>>

\* A write that fails is not noticed.
WriteConfigInCwd(s) ==
    /\ Goto(s, "write", "record")
    /\ config' = [config EXCEPT ![CwdOf[s]] = binding[s]]
    /\ UNCHANGED <<run, bindVars, unsaved, alive, transcriptVars, fileVars,
                   starts, calls, trouble, current>>
WriteConfigNever(s) ==
    /\ Goto(s, "write", "record")
    /\ UNCHANGED <<run, bindVars, configVars, alive, transcriptVars, fileVars,
                   starts, calls, trouble, current>>
WriteConfig(s) ==
    /\ Goto(s, "write", "record")
    /\ \/ /\ config' = [config EXCEPT ![configDir[s]] = binding[s]]
          /\ UNCHANGED <<unsaved, trouble>>
       \/ /\ Trouble /\ unsaved' = unsaved \cup {configDir[s]} /\ UNCHANGED config
    /\ UNCHANGED <<run, bindVars, alive, transcriptVars, fileVars, starts, calls, current>>

\* jjmcp_transcript: enabled false, or a path, before the call itself is recorded.
SetTranscript(s, f) ==
    /\ Begin(s, "record")
    /\ path' = [path EXCEPT ![s] = f]
    /\ UNCHANGED <<run, bindVars, configVars, alive, sequence, fileVars, starts, trouble>>

\* Any other call that returns, errors included.
ReturnUnchanged(s) ==
    /\ Begin(s, "record")
    /\ UNCHANGED <<run, bindVars, configVars, alive, transcriptVars, fileVars, starts, trouble>>

\* An exception leaves the dispatcher past record_transcript.
Throw(s) ==
    /\ pc[s] = "idle" /\ calls < MaxCalls /\ calls' = calls + 1
    /\ UNCHANGED <<pc, run, bindVars, configVars, alive, transcriptVars, fileVars,
                   starts, trouble, current>>

\* Transcript::append numbers the entry before it opens the file.
NumberedIfWritten(s) == [sequence EXCEPT ![s] = IF trouble' = trouble THEN @ + 1 ELSE @]
Numbered(s) == [sequence EXCEPT ![s] = @ + 1]

RecordOff(s) ==
    /\ Goto(s, "record", "idle") /\ path[s] = Off
    /\ current' = [current EXCEPT ![s] = 0]
    /\ UNCHANGED <<run, bindVars, configVars, alive, transcriptVars, fileVars,
                   starts, calls, trouble>>

Record(s) ==
    /\ Goto(s, "record", "idle") /\ path[s] # Off
    /\ \/ /\ file' = [file EXCEPT ![path[s]] = Append(@,
                       [run |-> run[s], seq |-> sequence[s] + 1, call |-> current[s]])]
          /\ UNCHANGED <<lost, trouble>>
       \/ /\ Trouble /\ lost' = lost \cup {[run |-> run[s], call |-> current[s]]}
          /\ UNCHANGED file
    /\ sequence' = Numbered(s) /\ current' = [current EXCEPT ![s] = 0]
    /\ UNCHANGED <<run, bindVars, configVars, alive, path, starts, calls>>

Call(s) ==
    \/ ReturnUnchanged(s) \/ Throw(s)
    \/ \E p \in Panes, root \in Roots \cup {NoRoot} : Bind(s, p, root)
    \/ OpenConfig(s) \/ WriteConfig(s)
    \/ \E f \in Files \cup {Off} : SetTranscript(s, f)
    \/ RecordOff(s) \/ Record(s)

-----------------------------------------------------------------------------
(* The process ends, or is killed, at any point; a new one starts from scratch. *)
End(s) ==
    /\ pc[s] # "down" /\ pc' = [pc EXCEPT ![s] = "down"]
    /\ binding' = [binding EXCEPT ![s] = NoBinding]
    /\ configDir' = [configDir EXCEPT ![s] = CwdOf[s]]
    /\ path' = [path EXCEPT ![s] = Off] /\ sequence' = [sequence EXCEPT ![s] = 0]
    /\ run' = [run EXCEPT ![s] = 0] /\ current' = [current EXCEPT ![s] = 0]
    /\ unsaved' = IF pc[s] \in {"open", "write"} THEN unsaved \cup {configDir[s]} ELSE unsaved
    /\ UNCHANGED <<config, bound, latest, alive, fileVars, starts, calls, trouble>>

PaneDies(p) ==
    /\ p \in alive /\ Trouble /\ alive' = alive \ {p}
    /\ UNCHANGED <<pc, run, bindVars, configVars, transcriptVars, fileVars, starts, calls, current>>

\* The user truncates or rotates a transcript.
Rotate(f) ==
    /\ file[f] # <<>> /\ Trouble /\ file' = [file EXCEPT ![f] = <<>>]
    /\ UNCHANGED <<pc, run, bindVars, configVars, alive, transcriptVars, lost,
                   starts, calls, current>>

Next ==
    \/ \E s \in Servers : Start(s) \/ CheckBinding(s) \/ Call(s) \/ End(s)
    \/ \E p \in Panes : PaneDies(p)
    \/ \E f \in Files : Rotate(f)

Spec == Init /\ [][Next]_vars

-----------------------------------------------------------------------------
\* The configuration, and the lock beside it, are those of the directory the binding
\* was made for, also after a restart that took the binding from a file which another
\* process, with another working directory, may have written (tools.cpp:1359).
LockFollowsBinding ==
    \A s \in Servers : binding[s] # NoBinding => configDir[s] = Base(s, binding[s].root)

\* A process that starts bound has a binding somebody made for the directory it starts
\* in, whatever was interrupted there, and never one made for another project.
RestoredWasBound ==
    [][\A s \in Servers : pc[s] = "down" /\ binding'[s] # NoBinding =>
          [binding |-> binding'[s], dir |-> CwdOf[s]] \in bound]_vars

\* "JJMCP persists the most recent tmux binding" (man/jjmcp-config.5:5): a process that
\* starts has the latest binding made for its directory, by whichever process, or none if
\* there was none, unless a save there failed, was interrupted, met another or is under way.
StartsWithLatest ==
    [][\A s \in Servers :
         /\ pc[s] = "down" /\ pc'[s] = "check"
         /\ CwdOf[s] \notin unsaved /\ ~SomeoneSaves(CwdOf[s])
       => binding'[s] = latest[CwdOf[s]]]_vars

\* A reader of a transcript sees lost entries as gaps: between two entries of a run
\* at least as many numbers are missing as calls that returned with the transcript on
\* and were not written, through whatever switching off and on.
LostBetween(e1, e2) == {l \in lost : l.run = e1.run /\ l.call \in e1.call..e2.call}
NoSilentLoss ==
    \A f \in Files : \A i, j \in DOMAIN file[f] :
        LET early == file[f][i]  later == file[f][j] IN
        i < j /\ early.run = later.run =>
          later.seq > early.seq + Cardinality(LostBetween(early, later))
=============================================================================
