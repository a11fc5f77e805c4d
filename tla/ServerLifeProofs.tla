-------------------------- MODULE ServerLifeProofs --------------------------
(***************************************************************************)
(* Proofs about ServerLife, for any processes, directories and roots.      *)
(*                                                                         *)
(* That a process which starts from a file is in the right project is a    *)
(* statement about what other processes wrote: whoever saves has a binding *)
(* made for the directory of its configuration, so what a file holds was   *)
(* made for the directory it is in.                                        *)
(***************************************************************************)
EXTENDS ServerLife, FiniteSetTheorems, TLAPS

Saves(s) == pc[s] \in {"open", "write"}
Busy(s) == pc[s] \in {"open", "write", "record"}

\* A call that returns is numbered once, after it began.
Counted ==
    /\ \A s \in Servers : sequence[s] <= calls
    /\ \A s \in Servers : Busy(s) => sequence[s] < calls /\ current[s] > 0
    /\ \A s \in Servers : pc[s] # "down" => run[s] > 0

\* Whoever saves has a binding that was made for the directory it saves in.
MadeFor(b, d) == [binding |-> b, dir |-> d] \in bound
SavesItsOwn == \A s \in Servers : Saves(s) => binding[s] # NoBinding /\ MadeFor(binding[s], configDir[s])

\* A configuration that can be read was made for its directory.
ConfigIsLocal ==
    \A d \in Dirs : config[d] \notin {NoConfig, Torn} =>
        MadeFor(config[d], d) /\ config[d].root \in {NoRoot, d}

\* A process that has ended, or not started, is not bound.
DownIsUnbound == \A s \in Servers : pc[s] = "down" => binding[s] = NoBinding

\* Where no save has failed, at most one process is saving, what it saves is the latest
\* binding, and if none is, the file holds it.
SavesIn(s, d) == Saves(s) /\ configDir[s] = d
SavedIsLatest ==
    \A d \in Dirs \ unsaved :
        /\ (\A s \in Servers : ~SavesIn(s, d)) => Loaded(d) = latest[d]
        /\ \A s \in Servers : SavesIn(s, d) => binding[s] = latest[d]
        /\ \A s, t \in Servers : SavesIn(s, d) /\ SavesIn(t, d) => s = t

IInv == TypeOK /\ Counted /\ DownIsUnbound /\ SavesItsOwn /\ ConfigIsLocal /\ LockFollowsBinding /\ SavedIsLatest

-----------------------------------------------------------------------------
(* The parts of the type invariant. *)

ControlTypes ==
    /\ pc \in [Servers -> {"down", "check", "idle", "open", "write", "record"}]
    /\ run \in [Servers -> 0..MaxStarts]
    /\ alive \subseteq Panes
    /\ starts \in 0..MaxStarts /\ calls \in 0..MaxCalls /\ trouble \in 0..MaxTrouble
    /\ current \in [Servers -> 0..MaxCalls]
BindingTypes ==
    /\ binding \in [Servers -> Binding \cup {NoBinding}]
    /\ configDir \in [Servers -> Dirs]
    /\ config \in [Dirs -> Binding \cup {NoConfig, Torn}]
    /\ bound \subseteq [binding : Binding, dir : Dirs]
    /\ latest \in [Dirs -> Binding \cup {NoBinding}] /\ unsaved \subseteq Dirs
TranscriptTypes ==
    /\ path \in [Servers -> Files \cup {Off}]
    /\ sequence \in [Servers -> 0..MaxCalls]
    /\ file \in [Files -> Seq(Entry)]
    /\ lost \subseteq [run : 1..MaxStarts, call : 1..MaxCalls]

LEMMA TypeParts == TypeOK <=> ControlTypes /\ BindingTypes /\ TranscriptTypes
  BY DEF TypeOK, ControlTypes, BindingTypes, TranscriptTypes

\* Bindings are told from what stands for none.
LEMMA Bindings ==
    /\ \A p \in Panes, r \in Dirs \cup {NoRoot} : [pane |-> p, root |-> r] \in Binding
    /\ \A b \in Binding : /\ b.pane \in Panes /\ b.root \in Dirs \cup {NoRoot}
                          /\ b # NoBinding /\ b # NoConfig /\ b # Torn
  BY NamesAssumption DEF Binding, NoBinding, NoConfig, Torn

LEMMA BaseIsDir == \A s \in Servers, r \in Dirs \cup {NoRoot} : Base(s, r) \in Dirs
  BY DirsAssumption DEF Base

\* A step is one of a process, or of the world around it.
LEMMA Steps ==
  ASSUME [Next]_vars
  PROVE  \/ \E s \in Servers : \/ Start(s) \/ CheckBinding(s) \/ ReturnUnchanged(s) \/ Throw(s)
                               \/ OpenConfig(s) \/ WriteConfig(s) \/ RecordOff(s) \/ Record(s) \/ End(s)
         \/ \E s \in Servers, p \in Panes, r \in Dirs \cup {NoRoot} : Bind(s, p, r)
         \/ \E s \in Servers, f \in Files \cup {Off} : SetTranscript(s, f)
         \/ \E p \in Panes : PaneDies(p)
         \/ \E f \in Files : Rotate(f)
         \/ UNCHANGED vars
  BY DirsAssumption DEF Next, Call

\* Types of the control variables.
LEMMA ControlStep ==
  ASSUME ControlTypes, [Next]_vars
  PROVE  ControlTypes'
<1> USE BoundsAssumption DEF ControlTypes
<1>1. ASSUME NEW s \in Servers, Start(s) PROVE ControlTypes'
  BY <1>1 DEF Start, Goto
<1>2. ASSUME NEW s \in Servers, CheckBinding(s) PROVE ControlTypes'
  BY <1>2 DEF CheckBinding, Goto
<1>3. ASSUME NEW s \in Servers, ReturnUnchanged(s) PROVE ControlTypes'
  BY <1>3 DEF ReturnUnchanged, Begin, Goto
<1>12. ASSUME NEW s \in Servers, Throw(s) PROVE ControlTypes'
  BY <1>12 DEF Throw
<1>4. ASSUME NEW s \in Servers, NEW p \in Panes, NEW r \in Dirs \cup {NoRoot}, Bind(s, p, r) PROVE ControlTypes'
  BY <1>4 DEF Bind, Begin, Goto
<1>5. ASSUME NEW s \in Servers, OpenConfig(s) \/ WriteConfig(s) PROVE ControlTypes'
  BY <1>5 DEF OpenConfig, WriteConfig, Goto, Trouble
<1>6. ASSUME NEW s \in Servers, NEW f \in Files \cup {Off}, SetTranscript(s, f) PROVE ControlTypes'
  BY <1>6 DEF SetTranscript, Begin, Goto
<1>7. ASSUME NEW s \in Servers, RecordOff(s) PROVE ControlTypes'
  BY <1>7 DEF RecordOff, Goto
<1>13. ASSUME NEW s \in Servers, Record(s) PROVE ControlTypes'
  <2>1. /\ pc' = [pc EXCEPT ![s] = "idle"] /\ current' = [current EXCEPT ![s] = 0]
        /\ trouble' = trouble \/ Trouble
        /\ UNCHANGED <<run, alive, starts, calls>>
    BY <1>13 DEF Record, Goto
  <2> QED
    BY <2>1 DEF Trouble
<1>8. ASSUME NEW s \in Servers, End(s) PROVE ControlTypes'
  BY <1>8 DEF End
<1>9. ASSUME NEW p \in Panes, PaneDies(p) PROVE ControlTypes'
  BY <1>9 DEF PaneDies, Trouble
<1>10. ASSUME NEW f \in Files, Rotate(f) PROVE ControlTypes'
  BY <1>10 DEF Rotate, Trouble
<1>11. CASE UNCHANGED vars
  BY <1>11 DEF vars
<1> QED
  BY Steps, <1>1, <1>2, <1>3, <1>4, <1>5, <1>6, <1>7, <1>8, <1>9, <1>10, <1>11, <1>12, <1>13

\* Calls are numbered at most as often as they are made.
LEMMA CountStep ==
  ASSUME ControlTypes, sequence \in [Servers -> 0..MaxCalls], Counted, [Next]_vars
  PROVE  Counted'
<1> USE BoundsAssumption DEF ControlTypes, Counted, Busy
<1>1. ASSUME NEW s \in Servers, Start(s) PROVE Counted'
  BY <1>1 DEF Start, Goto, transcriptVars
<1>2. ASSUME NEW s \in Servers, CheckBinding(s) PROVE Counted'
  BY <1>2 DEF CheckBinding, Goto, transcriptVars
<1>3. ASSUME NEW s \in Servers, ReturnUnchanged(s) \/ Throw(s) PROVE Counted'
  BY <1>3 DEF ReturnUnchanged, Throw, Begin, Goto, transcriptVars
<1>4. ASSUME NEW s \in Servers, NEW p \in Panes, NEW r \in Dirs \cup {NoRoot}, Bind(s, p, r) PROVE Counted'
  BY <1>4 DEF Bind, Begin, Goto, transcriptVars
<1>5. ASSUME NEW s \in Servers, OpenConfig(s) \/ WriteConfig(s) PROVE Counted'
  BY <1>5 DEF OpenConfig, WriteConfig, Goto, transcriptVars
<1>6. ASSUME NEW s \in Servers, NEW f \in Files \cup {Off}, SetTranscript(s, f) PROVE Counted'
  BY <1>6 DEF SetTranscript, Begin, Goto, transcriptVars
<1>7. ASSUME NEW s \in Servers, RecordOff(s) PROVE Counted'
  BY <1>7 DEF RecordOff, Goto, transcriptVars
<1>8. ASSUME NEW s \in Servers, Record(s) PROVE Counted'
  BY <1>8 DEF Record, Goto, Numbered
<1>9. ASSUME NEW s \in Servers, End(s) PROVE Counted'
  BY <1>9 DEF End
<1>10. ASSUME NEW p \in Panes, PaneDies(p) PROVE Counted'
  BY <1>10 DEF PaneDies, transcriptVars
<1>11. ASSUME NEW f \in Files, Rotate(f) PROVE Counted'
  BY <1>11 DEF Rotate, transcriptVars
<1>12. CASE UNCHANGED vars
  BY <1>12 DEF vars, transcriptVars
<1> QED
  BY Steps, <1>1, <1>2, <1>3, <1>4, <1>5, <1>6, <1>7, <1>8, <1>9, <1>10, <1>11, <1>12

\* Types of the binding and what is saved of it.
LEMMA BindingStep ==
  ASSUME BindingTypes, SavesItsOwn, [Next]_vars
  PROVE  BindingTypes'
<1> USE DEF BindingTypes
<1>1. ASSUME NEW s \in Servers, Start(s) PROVE BindingTypes'
  <2>1. CwdOf[s] \in Dirs
    BY DirsAssumption
  <2>2. Loaded(CwdOf[s]) \in Binding \cup {NoBinding}
    BY <2>1 DEF Loaded
  <2> QED
    BY <1>1, <2>1, <2>2 DEF Start, configVars
<1>2. ASSUME NEW s \in Servers, CheckBinding(s) PROVE BindingTypes'
  BY <1>2 DEF CheckBinding, configVars
<1>3. ASSUME NEW s \in Servers, NEW p \in Panes, NEW r \in Dirs \cup {NoRoot}, Bind(s, p, r)
      PROVE BindingTypes'
  <2> DEFINE b == [pane |-> p, root |-> r]
             d == Base(s, r)
  <2>1. b \in Binding /\ d \in Dirs
    BY Bindings, BaseIsDir
  <2>2. /\ binding' = [binding EXCEPT ![s] = b] /\ configDir' = [configDir EXCEPT ![s] = d]
        /\ bound' = bound \cup {[binding |-> binding'[s], dir |-> d]}
        /\ latest' = [latest EXCEPT ![d] = binding'[s]]
        /\ unsaved' \subseteq unsaved \cup {d} /\ config' = config
    BY <1>3 DEF Bind
  <2> HIDE DEF b, d
  <2>3. binding'[s] = b
    BY <2>2
  <2> QED
    BY <2>1, <2>2, <2>3
<1>4. ASSUME NEW s \in Servers, OpenConfig(s) PROVE BindingTypes'
  BY <1>4 DEF OpenConfig, bindVars
<1>5. ASSUME NEW s \in Servers, WriteConfig(s) PROVE BindingTypes'
  <2>1. binding[s] \in Binding
    BY <1>5 DEF SavesItsOwn, Saves, WriteConfig, Goto
  <2> QED
    BY <1>5, <2>1 DEF WriteConfig, bindVars
<1>6. ASSUME NEW s \in Servers, End(s) PROVE BindingTypes'
  BY <1>6, DirsAssumption DEF End
<1>7. CASE UNCHANGED <<bindVars, configVars>>
  BY <1>7 DEF bindVars, configVars
<1>8. ASSUME NEW s \in Servers, ReturnUnchanged(s) \/ Throw(s) \/ RecordOff(s) \/ Record(s)
      PROVE  UNCHANGED <<bindVars, configVars>>
  BY <1>8 DEF ReturnUnchanged, Throw, RecordOff, Record
<1>9. ASSUME NEW s \in Servers, NEW f \in Files \cup {Off}, SetTranscript(s, f)
      PROVE  UNCHANGED <<bindVars, configVars>>
  BY <1>9 DEF SetTranscript
<1>10. ASSUME (\E p \in Panes : PaneDies(p)) \/ (\E f \in Files : Rotate(f)) \/ UNCHANGED vars
       PROVE  UNCHANGED <<bindVars, configVars>>
  BY <1>10 DEF PaneDies, Rotate, vars
<1> QED
  BY Steps, <1>1, <1>2, <1>3, <1>4, <1>5, <1>6, <1>7, <1>8, <1>9, <1>10

\* Types of the transcripts.
LEMMA TranscriptStep ==
  ASSUME ControlTypes, TranscriptTypes, Counted, [Next]_vars
  PROVE  TranscriptTypes'
<1> USE DEF TranscriptTypes
<1>1. ASSUME NEW s \in Servers, Start(s) PROVE TranscriptTypes'
  BY <1>1 DEF Start, fileVars
<1>2. ASSUME NEW s \in Servers, NEW f \in Files \cup {Off}, SetTranscript(s, f) PROVE TranscriptTypes'
  BY <1>2 DEF SetTranscript, fileVars
<1>3. ASSUME NEW s \in Servers, Record(s) PROVE TranscriptTypes'
  <2>1. /\ run[s] \in 1..MaxStarts /\ sequence[s] + 1 \in 1..MaxCalls /\ current[s] \in 1..MaxCalls
    <3>1. Busy(s) /\ pc[s] # "down"
      BY <1>3 DEF Record, Goto, Busy
    <3> QED
      BY <3>1, BoundsAssumption DEF ControlTypes, Counted
  <2>2. sequence' \in [Servers -> 0..MaxCalls]
    BY <1>3, <2>1 DEF Record, Numbered
  <2>3. [run |-> run[s], seq |-> sequence[s] + 1, call |-> current[s]] \in Entry
    BY <2>1 DEF Entry
  <2>4. file' \in [Files -> Seq(Entry)]
    <3> DEFINE e == [run |-> run[s], seq |-> sequence[s] + 1, call |-> current[s]]
    <3>1. file' = file \/ file' = [file EXCEPT ![path[s]] = Append(@, e)]
      BY <1>3 DEF Record
    <3>2. path[s] \in Files
      BY <1>3 DEF Record
    <3> HIDE DEF e
    <3>3. Append(file[path[s]], e) \in Seq(Entry)
      BY <2>3, <3>2 DEF e
    <3> QED
      BY <3>1, <3>2, <3>3
  <2>5. lost' \subseteq [run : 1..MaxStarts, call : 1..MaxCalls]
    BY <1>3, <2>1 DEF Record
  <2> QED
    BY <1>3, <2>2, <2>4, <2>5 DEF Record
<1>4. ASSUME NEW s \in Servers, End(s) PROVE TranscriptTypes'
  BY <1>4, BoundsAssumption DEF End, fileVars
<1>5. ASSUME NEW f \in Files, Rotate(f) PROVE TranscriptTypes'
  BY <1>5 DEF Rotate, transcriptVars
<1>6. CASE UNCHANGED <<transcriptVars, fileVars>>
  BY <1>6 DEF transcriptVars, fileVars
<1>7. ASSUME NEW s \in Servers,
             \/ CheckBinding(s) \/ ReturnUnchanged(s) \/ Throw(s) \/ OpenConfig(s) \/ WriteConfig(s)
             \/ RecordOff(s) \/ \E p \in Panes, r \in Dirs \cup {NoRoot} : Bind(s, p, r)
      PROVE  UNCHANGED <<transcriptVars, fileVars>>
  BY <1>7 DEF CheckBinding, ReturnUnchanged, Throw, OpenConfig, WriteConfig, RecordOff, Bind
<1>8. ASSUME (\E p \in Panes : PaneDies(p)) \/ UNCHANGED vars
      PROVE  UNCHANGED <<transcriptVars, fileVars>>
  BY <1>8 DEF PaneDies, vars
<1> QED
  BY Steps, <1>1, <1>2, <1>3, <1>4, <1>5, <1>6, <1>7, <1>8

\* Nothing is forgotten of what was made for which directory.
LEMMA BoundGrows ==
  ASSUME [Next]_vars
  PROVE  bound \subseteq bound'
<1>1. ASSUME NEW s \in Servers, NEW p \in Panes, NEW r \in Dirs \cup {NoRoot}, Bind(s, p, r)
      PROVE bound \subseteq bound'
  BY <1>1 DEF Bind
<1>2. ASSUME NEW s \in Servers,
             \/ CheckBinding(s) \/ ReturnUnchanged(s) \/ Throw(s) \/ OpenConfig(s) \/ WriteConfig(s)
             \/ RecordOff(s) \/ Record(s) \/ \E f \in Files \cup {Off} : SetTranscript(s, f)
      PROVE bound' = bound
  BY <1>2 DEF CheckBinding, ReturnUnchanged, Throw, OpenConfig, WriteConfig, RecordOff, Record,
     SetTranscript, bindVars
<1>3. ASSUME NEW s \in Servers, Start(s) \/ End(s) PROVE bound' = bound
  BY <1>3 DEF Start, End
<1>4. ASSUME (\E p \in Panes : PaneDies(p)) \/ (\E f \in Files : Rotate(f)) \/ UNCHANGED vars
      PROVE bound' = bound
  BY <1>4 DEF PaneDies, Rotate, vars, bindVars
<1> QED
  BY Steps, <1>1, <1>2, <1>3, <1>4

\* Steps that touch neither a binding nor a configuration, and begin no save.
Quiet ==
    /\ UNCHANGED <<binding, configDir, config, bound, latest, unsaved>>
    /\ \A s \in Servers : (Saves(s)' <=> Saves(s)) /\ (pc'[s] = "down" => pc[s] = "down")

\* The steps that do.
LEMMA QuietOrNot ==
  ASSUME ControlTypes, [Next]_vars
  PROVE  \/ Quiet
         \/ \E s \in Servers : Start(s) \/ CheckBinding(s) \/ OpenConfig(s) \/ WriteConfig(s) \/ End(s)
         \/ \E s \in Servers, p \in Panes, r \in Dirs \cup {NoRoot} : Bind(s, p, r)
<1> USE DEF Quiet, Saves, ControlTypes
<1>1. ASSUME NEW s \in Servers, ReturnUnchanged(s) PROVE Quiet
  BY <1>1 DEF ReturnUnchanged, Begin, Goto, bindVars, configVars
<1>2. ASSUME NEW s \in Servers, Throw(s) PROVE Quiet
  BY <1>2 DEF Throw, bindVars, configVars
<1>3. ASSUME NEW s \in Servers, RecordOff(s) PROVE Quiet
  BY <1>3 DEF RecordOff, Goto, bindVars, configVars
<1>4. ASSUME NEW s \in Servers, Record(s) PROVE Quiet
  <2>1. pc[s] = "record" /\ pc' = [pc EXCEPT ![s] = "idle"] /\ UNCHANGED <<bindVars, configVars>>
    BY <1>4 DEF Record, Goto
  <2> QED
    BY <2>1 DEF bindVars, configVars
<1>5. ASSUME NEW s \in Servers, NEW f \in Files \cup {Off}, SetTranscript(s, f) PROVE Quiet
  BY <1>5 DEF SetTranscript, Begin, Goto, bindVars, configVars
<1>6. ASSUME (\E p \in Panes : PaneDies(p)) \/ (\E f \in Files : Rotate(f)) \/ UNCHANGED vars PROVE Quiet
  BY <1>6 DEF PaneDies, Rotate, vars, bindVars, configVars
<1> QED
  BY Steps, <1>1, <1>2, <1>3, <1>4, <1>5, <1>6

\* Who saves, what is saved and where the lock is agree.
LEMMA PlacesStep ==
  ASSUME ControlTypes, BindingTypes, SavesItsOwn, ConfigIsLocal, LockFollowsBinding, [Next]_vars
  PROVE  SavesItsOwn' /\ ConfigIsLocal' /\ LockFollowsBinding'
<1>0. \A b, d : MadeFor(b, d) => MadeFor(b, d)'
  BY BoundGrows DEF MadeFor
<1>1. CASE Quiet
  BY <1>1 DEF Quiet, SavesItsOwn, ConfigIsLocal, LockFollowsBinding, MadeFor
<1>2. ASSUME NEW s \in Servers, Start(s)
      PROVE SavesItsOwn' /\ ConfigIsLocal' /\ LockFollowsBinding'
  <2>1. /\ config' = config /\ pc' = [pc EXCEPT ![s] = "check"]
        /\ configDir' = [configDir EXCEPT ![s] = CwdOf[s]]
        /\ binding' = [binding EXCEPT ![s] = Loaded(CwdOf[s])] /\ bound' = bound
    BY <1>2 DEF Start, Goto, configVars
  <2>2. CwdOf[s] \in Dirs
    BY DirsAssumption
  <2>3. Loaded(CwdOf[s]) # NoBinding => Base(s, Loaded(CwdOf[s]).root) = CwdOf[s]
    BY <2>2 DEF Loaded, ConfigIsLocal, Base
  <2>4. SavesItsOwn'
    BY <2>1, <1>0 DEF SavesItsOwn, Saves, ControlTypes, BindingTypes
  <2>5. ConfigIsLocal'
    BY <2>1, <1>0 DEF ConfigIsLocal
  <2>6. LockFollowsBinding'
    BY <2>1, <2>3 DEF LockFollowsBinding, BindingTypes, Base
  <2> QED
    BY <2>4, <2>5, <2>6
<1>3. ASSUME NEW s \in Servers, CheckBinding(s)
      PROVE SavesItsOwn' /\ ConfigIsLocal' /\ LockFollowsBinding'
  <2>1. /\ config' = config /\ configDir' = configDir /\ pc' = [pc EXCEPT ![s] = "idle"] /\ bound' = bound
        /\ binding' = [binding EXCEPT ![s] = IF @.pane \in alive THEN @ ELSE NoBinding]
    BY <1>3 DEF CheckBinding, Goto, configVars
  <2>2. binding'[s] \in {binding[s], NoBinding}
    BY <2>1 DEF BindingTypes
  <2>3. \A t \in Servers : t # s => binding'[t] = binding[t] /\ (Saves(t)' => Saves(t))
    BY <2>1 DEF BindingTypes, Saves, ControlTypes
  <2>4. ~Saves(s)'
    BY <2>1 DEF Saves, ControlTypes
  <2>5. SavesItsOwn'
    BY <2>1, <2>3, <2>4, <1>0 DEF SavesItsOwn
  <2>6. ConfigIsLocal'
    BY <2>1, <1>0 DEF ConfigIsLocal
  <2>7. LockFollowsBinding'
    BY <2>1, <2>2, <2>3 DEF LockFollowsBinding, Base
  <2> QED
    BY <2>5, <2>6, <2>7
<1>4. ASSUME NEW s \in Servers, OpenConfig(s)
      PROVE SavesItsOwn' /\ ConfigIsLocal' /\ LockFollowsBinding'
  <2>1. /\ UNCHANGED <<binding, configDir, bound>>
        /\ \A t \in Servers : Saves(t)' => Saves(t)
        /\ config' = config \/ config' = [config EXCEPT ![configDir[s]] = Torn]
    BY <1>4 DEF OpenConfig, Goto, bindVars, Saves, ControlTypes
  <2>2. SavesItsOwn' /\ LockFollowsBinding'
    BY <2>1, <1>0 DEF SavesItsOwn, LockFollowsBinding
  <2>3. ConfigIsLocal'
    BY <2>1, <1>0 DEF ConfigIsLocal, BindingTypes
  <2> QED
    BY <2>2, <2>3
<1>5. ASSUME NEW s \in Servers, WriteConfig(s)
      PROVE SavesItsOwn' /\ ConfigIsLocal' /\ LockFollowsBinding'
  <2>1. /\ UNCHANGED <<binding, configDir, bound>> /\ Saves(s)
        /\ \A t \in Servers : Saves(t)' => Saves(t)
        /\ config' = config \/ config' = [config EXCEPT ![configDir[s]] = binding[s]]
    BY <1>5 DEF WriteConfig, Goto, bindVars, Saves, ControlTypes
  <2>2. SavesItsOwn' /\ LockFollowsBinding'
    BY <2>1, <1>0 DEF SavesItsOwn, LockFollowsBinding
  <2>3. MadeFor(binding[s], configDir[s]) /\ binding[s].root \in {NoRoot, configDir[s]}
    BY <2>1 DEF SavesItsOwn, LockFollowsBinding, Base
  <2>4. ConfigIsLocal'
    BY <2>1, <2>3, <1>0 DEF ConfigIsLocal, BindingTypes
  <2> QED
    BY <2>2, <2>4
<1>6. ASSUME NEW s \in Servers, End(s)
      PROVE SavesItsOwn' /\ ConfigIsLocal' /\ LockFollowsBinding'
  <2>1. /\ config' = config /\ bound' = bound /\ pc' = [pc EXCEPT ![s] = "down"]
        /\ binding' = [binding EXCEPT ![s] = NoBinding]
        /\ configDir' = [configDir EXCEPT ![s] = CwdOf[s]]
    BY <1>6 DEF End
  <2>2. \A t \in Servers : t # s => binding'[t] = binding[t] /\ configDir'[t] = configDir[t] /\ (Saves(t)' => Saves(t))
    BY <2>1 DEF BindingTypes, Saves, ControlTypes
  <2>3. ~Saves(s)' /\ binding'[s] = NoBinding
    BY <2>1 DEF Saves, ControlTypes, BindingTypes
  <2>4. SavesItsOwn'
    BY <2>1, <2>2, <2>3, <1>0 DEF SavesItsOwn
  <2>5. ConfigIsLocal'
    BY <2>1, <1>0 DEF ConfigIsLocal
  <2>6. LockFollowsBinding'
    BY <2>1, <2>2, <2>3 DEF LockFollowsBinding, Base
  <2> QED
    BY <2>4, <2>5, <2>6
<1>7. ASSUME NEW s \in Servers, NEW p \in Panes, NEW r \in Dirs \cup {NoRoot}, Bind(s, p, r)
      PROVE SavesItsOwn' /\ ConfigIsLocal' /\ LockFollowsBinding'
  <2> DEFINE b == [pane |-> p, root |-> r]
             d == Base(s, r)
  <2>1. b # NoBinding /\ b.root = r
    BY Bindings
  <2>2. /\ config' = config
        /\ binding' = [binding EXCEPT ![s] = b] /\ configDir' = [configDir EXCEPT ![s] = d]
        /\ bound' = bound \cup {[binding |-> binding'[s], dir |-> d]} /\ pc' = [pc EXCEPT ![s] = "open"]
    BY <1>7 DEF Bind, Begin, Goto
  <2>3. d = Base(s, b.root)
    BY <2>1
  <2> HIDE DEF b, d
  <2>4. binding'[s] = b /\ configDir'[s] = d
    BY <2>2 DEF BindingTypes
  <2>5. \A t \in Servers : t # s => binding'[t] = binding[t] /\ configDir'[t] = configDir[t] /\ (Saves(t)' => Saves(t))
    BY <2>2 DEF BindingTypes, Saves, ControlTypes
  <2>9. MadeFor(b, d)'
    BY <2>2, <2>4 DEF MadeFor
  <2>6. SavesItsOwn'
    <3>1. MadeFor(binding[s], configDir[s])'
      BY <2>4, <2>9
    <3>2. ASSUME NEW t \in Servers, t # s, Saves(t)' PROVE (binding[t] # NoBinding /\ MadeFor(binding[t], configDir[t]))'
      BY <2>5, <3>2, <1>0 DEF SavesItsOwn
    <3> QED
      BY <2>1, <2>4, <3>1, <3>2 DEF SavesItsOwn
  <2>7. ConfigIsLocal'
    BY <2>2, <1>0 DEF ConfigIsLocal
  <2>8. LockFollowsBinding'
    BY <2>3, <2>4, <2>5 DEF LockFollowsBinding, Base
  <2> QED
    BY <2>6, <2>7, <2>8
<1> QED
  BY QuietOrNot, <1>1, <1>2, <1>3, <1>4, <1>5, <1>6, <1>7

\* Only a process that runs becomes bound, and one that ends forgets.
LEMMA DownStep ==
  ASSUME ControlTypes, BindingTypes, DownIsUnbound, [Next]_vars
  PROVE  DownIsUnbound'
<1> USE DEF DownIsUnbound, ControlTypes, BindingTypes
<1>1. CASE Quiet
  BY <1>1 DEF Quiet
<1>2. ASSUME NEW s \in Servers, Start(s) PROVE DownIsUnbound'
  BY <1>2 DEF Start, Goto
<1>3. ASSUME NEW s \in Servers, CheckBinding(s) PROVE DownIsUnbound'
  BY <1>3 DEF CheckBinding, Goto
<1>4. ASSUME NEW s \in Servers, OpenConfig(s) \/ WriteConfig(s) PROVE DownIsUnbound'
  BY <1>4 DEF OpenConfig, WriteConfig, Goto, bindVars
<1>5. ASSUME NEW s \in Servers, End(s) PROVE DownIsUnbound'
  BY <1>5 DEF End
<1>6. ASSUME NEW s \in Servers, NEW p \in Panes, NEW r \in Dirs \cup {NoRoot}, Bind(s, p, r) PROVE DownIsUnbound'
  <2>1. \A t \in Servers : t # s => pc'[t] = pc[t] /\ binding'[t] = binding[t]
    BY <1>6 DEF Bind, Begin, Goto
  <2>2. pc'[s] = "open"
    BY <1>6 DEF Bind, Begin, Goto
  <2> QED
    BY <2>1, <2>2
<1> QED
  BY QuietOrNot, <1>1, <1>2, <1>3, <1>4, <1>5, <1>6

\* A step that leaves a directory alone leaves its file up to date.
Untouched(d) ==
    /\ d \in Dirs \ unsaved /\ config'[d] = config[d] /\ latest'[d] = latest[d]
    /\ \A s \in Servers : /\ SavesIn(s, d)' <=> SavesIn(s, d)
                          /\ SavesIn(s, d) => binding'[s] = binding[s]

LEMMA UntouchedIsLatest ==
  ASSUME SavedIsLatest, NEW d \in Dirs, Untouched(d)
  PROVE  /\ (\A s \in Servers : ~SavesIn(s, d)') => Loaded(d)' = latest'[d]
         /\ \A s \in Servers : SavesIn(s, d)' => binding'[s] = latest'[d]
         /\ \A s, t \in Servers : SavesIn(s, d)' /\ SavesIn(t, d)' => s = t
<1>1. Loaded(d)' = Loaded(d)
  BY DEF Untouched, Loaded
<1>2. d \in Dirs \ unsaved /\ latest'[d] = latest[d]
  BY DEF Untouched
<1>3. \A s \in Servers : SavesIn(s, d)' <=> SavesIn(s, d)
  BY DEF Untouched
<1>4. \A s \in Servers : SavesIn(s, d) => binding'[s] = binding[s]
  BY DEF Untouched
<1>5. /\ (\A s \in Servers : ~SavesIn(s, d)) => Loaded(d) = latest[d]
      /\ \A s \in Servers : SavesIn(s, d) => binding[s] = latest[d]
      /\ \A s, t \in Servers : SavesIn(s, d) /\ SavesIn(t, d) => s = t
  BY <1>2 DEF SavedIsLatest
<1> QED
  BY <1>1, <1>2, <1>3, <1>4, <1>5

\* What is saved, and what is in a file that was saved, is the latest binding.
LEMMA LatestStep ==
  ASSUME ControlTypes, BindingTypes, SavesItsOwn, SavedIsLatest, [Next]_vars
  PROVE  SavedIsLatest'
<1> SUFFICES ASSUME NEW d \in Dirs, d \notin unsaved'
             PROVE  /\ (\A s \in Servers : ~SavesIn(s, d)') => Loaded(d)' = latest'[d]
                    /\ \A s \in Servers : SavesIn(s, d)' => binding'[s] = latest'[d]
                    /\ \A s, t \in Servers : SavesIn(s, d)' /\ SavesIn(t, d)' => s = t
  BY DEF SavedIsLatest
<1> DEFINE Holds == /\ (\A s \in Servers : ~SavesIn(s, d)') => Loaded(d)' = latest'[d]
                    /\ \A s \in Servers : SavesIn(s, d)' => binding'[s] = latest'[d]
                    /\ \A s, t \in Servers : SavesIn(s, d)' /\ SavesIn(t, d)' => s = t
<1>0. Untouched(d) => Holds
  BY UntouchedIsLatest
<1> HIDE DEF Holds
<1>1. CASE Quiet
  <2>1. Untouched(d)
    BY <1>1 DEF Quiet, Untouched, SavesIn
  <2> QED
    BY <1>0, <2>1 DEF Holds
<1>2. ASSUME NEW s \in Servers, Start(s) \/ CheckBinding(s) PROVE Holds
  <2>1. /\ UNCHANGED <<config, latest, unsaved>> /\ ~Saves(s) /\ ~Saves(s)'
        /\ \A t \in Servers : t # s => /\ Saves(t)' <=> Saves(t)
                                       /\ binding'[t] = binding[t] /\ configDir'[t] = configDir[t]
    BY <1>2 DEF Start, CheckBinding, Goto, configVars, Saves, ControlTypes, BindingTypes
  <2>2. Untouched(d)
    BY <2>1 DEF Untouched, SavesIn
  <2> QED
    BY <1>0, <2>2
<1>3. ASSUME NEW s \in Servers, OpenConfig(s) PROVE Holds
  <2>1. /\ UNCHANGED <<binding, configDir, latest>> /\ unsaved \subseteq unsaved'
        /\ \A t \in Servers : t # s => (Saves(t)' <=> Saves(t))
    BY <1>3 DEF OpenConfig, Goto, bindVars, Saves, ControlTypes
  <2>2. Saves(s)
    BY <1>3 DEF OpenConfig, Goto, Saves
  <2>3. \/ Saves(s)' /\ config' = [config EXCEPT ![configDir[s]] = Torn]
        \/ configDir[s] \in unsaved' /\ config' = config
    BY <1>3 DEF OpenConfig, Goto, Saves, ControlTypes
  <2>4. CASE configDir[s] # d
    <3>1. Untouched(d)
      BY <2>1, <2>3, <2>4 DEF Untouched, SavesIn, BindingTypes
    <3> QED
      BY <1>0, <3>1
  <2>5. CASE configDir[s] = d
    <3>1. Saves(s)' /\ SavesIn(s, d) /\ SavesIn(s, d)'
      BY <2>1, <2>2, <2>3, <2>5 DEF SavesIn
    <3>2. \A t \in Servers : SavesIn(t, d)' <=> SavesIn(t, d)
      BY <2>1, <3>1 DEF SavesIn
    <3>3. \A t, u \in Servers : SavesIn(t, d) => binding[t] = latest[d] /\ (SavesIn(u, d) => t = u)
      BY <2>1 DEF SavedIsLatest
    <3> QED
      BY <2>1, <3>1, <3>2, <3>3 DEF Holds
  <2> QED
    BY <2>4, <2>5
<1>4. ASSUME NEW s \in Servers, WriteConfig(s) PROVE Holds
  <2>1. /\ UNCHANGED <<binding, configDir, latest>> /\ unsaved \subseteq unsaved' /\ ~Saves(s)'
        /\ \A t \in Servers : t # s => (Saves(t)' <=> Saves(t))
    BY <1>4 DEF WriteConfig, Goto, bindVars, Saves, ControlTypes
  <2>2. Saves(s)
    BY <1>4 DEF WriteConfig, Goto, Saves
  <2>3. \/ config' = [config EXCEPT ![configDir[s]] = binding[s]]
        \/ configDir[s] \in unsaved' /\ config' = config
    BY <1>4 DEF WriteConfig
  <2>4. CASE configDir[s] # d
    <3>1. Untouched(d)
      BY <2>1, <2>3, <2>4 DEF Untouched, SavesIn, BindingTypes
    <3> QED
      BY <1>0, <3>1
  <2>5. CASE configDir[s] = d
    <3>1. config'[d] = binding[s] /\ SavesIn(s, d)
      BY <2>2, <2>3, <2>5 DEF SavesIn, BindingTypes
    <3>2. \A t \in Servers : SavesIn(t, d) => t = s
      BY <2>1, <3>1 DEF SavedIsLatest
    <3>3. \A t \in Servers : ~SavesIn(t, d)'
      BY <2>1, <3>2 DEF SavesIn
    <3>4. binding[s] = latest[d]
      BY <2>1, <3>1 DEF SavedIsLatest
    <3>5. binding[s] \in Binding
      BY <2>2 DEF SavesItsOwn, BindingTypes
    <3>6. Loaded(d)' = binding[s]
      BY <3>1, <3>5, Bindings DEF Loaded
    <3> QED
      BY <2>1, <3>3, <3>4, <3>6 DEF Holds
  <2> QED
    BY <2>4, <2>5
<1>5. ASSUME NEW s \in Servers, End(s) PROVE Holds
  <2>1. /\ UNCHANGED <<config, latest>> /\ ~Saves(s)' /\ unsaved \subseteq unsaved'
        /\ Saves(s) => configDir[s] \in unsaved'
        /\ \A t \in Servers : t # s => /\ Saves(t)' <=> Saves(t)
                                       /\ binding'[t] = binding[t] /\ configDir'[t] = configDir[t]
    BY <1>5 DEF End, Saves, ControlTypes, BindingTypes
  <2>2. Untouched(d)
    BY <2>1 DEF Untouched, SavesIn
  <2> QED
    BY <1>0, <2>2
<1>6. ASSUME NEW s \in Servers, NEW p \in Panes, NEW r \in Dirs \cup {NoRoot}, Bind(s, p, r) PROVE Holds
  <2> DEFINE b == [pane |-> p, root |-> r]
             here == Base(s, r)
  <2>1. /\ config' = config
        /\ binding' = [binding EXCEPT ![s] = b] /\ configDir' = [configDir EXCEPT ![s] = here]
        /\ latest' = [latest EXCEPT ![here] = binding'[s]]
        /\ unsaved \subseteq unsaved' /\ (SomeoneSaves(here) => here \in unsaved')
        /\ pc[s] = "idle" /\ pc' = [pc EXCEPT ![s] = "open"]
    BY <1>6 DEF Bind, Begin, Goto
  <2>2. here \in Dirs
    BY BaseIsDir
  <2> HIDE DEF b, here
  <2>3. /\ ~Saves(s) /\ Saves(s)' /\ configDir'[s] = here /\ latest'[here] = binding'[s]
        /\ \A t \in Servers : t # s => /\ Saves(t)' <=> Saves(t)
                                       /\ binding'[t] = binding[t] /\ configDir'[t] = configDir[t]
    BY <2>1, <2>2 DEF Saves, ControlTypes, BindingTypes
  <2>4. CASE here # d
    <3>1. latest'[d] = latest[d]
      BY <2>1, <2>4 DEF BindingTypes
    <3>2. Untouched(d)
      BY <2>1, <2>3, <2>4, <3>1 DEF Untouched, SavesIn
    <3> QED
      BY <1>0, <3>2
  <2>5. CASE here = d
    <3>1. \A t \in Servers : ~SavesIn(t, d)
      BY <2>1, <2>5 DEF SomeoneSaves, SavesIn, Saves
    <3>2. \A t \in Servers : SavesIn(t, d)' => t = s
      BY <2>3, <3>1 DEF SavesIn
    <3>3. SavesIn(s, d)'
      BY <2>3, <2>5 DEF SavesIn
    <3> QED
      BY <2>3, <2>5, <3>2, <3>3 DEF Holds
  <2> QED
    BY <2>4, <2>5
<1> QED
  BY QuietOrNot, <1>1, <1>2, <1>3, <1>4, <1>5, <1>6 DEF Holds

-----------------------------------------------------------------------------
\* The strengthened invariant holds in every reachable state.
THEOREM LifeInvariant == Spec => []IInv
<1>1. Init => IInv
  <2> SUFFICES ASSUME Init PROVE IInv
    OBVIOUS
  <2>1. ControlTypes
    BY BoundsAssumption DEF Init, ControlTypes
  <2>2. BindingTypes
    BY DirsAssumption DEF Init, BindingTypes
  <2>3. TranscriptTypes
    BY BoundsAssumption DEF Init, TranscriptTypes
  <2>4. Counted
    BY DEF Init, Counted, Busy
  <2>5. DownIsUnbound /\ SavesItsOwn /\ ConfigIsLocal /\ LockFollowsBinding
    BY DEF Init, DownIsUnbound, SavesItsOwn, Saves, ConfigIsLocal, LockFollowsBinding
  <2>6. SavedIsLatest
    BY DEF Init, SavedIsLatest, SavesIn, Saves, Loaded
  <2> QED
    BY <2>1, <2>2, <2>3, <2>4, <2>5, <2>6, TypeParts DEF IInv
<1>2. IInv /\ [Next]_vars => IInv'
  <2> SUFFICES ASSUME IInv, [Next]_vars PROVE IInv'
    OBVIOUS
  <2>1. ControlTypes /\ BindingTypes /\ TranscriptTypes
    BY TypeParts DEF IInv
  <2>2. ControlTypes' /\ BindingTypes' /\ TranscriptTypes'
    BY <2>1, ControlStep, BindingStep, TranscriptStep DEF IInv
  <2>3. TypeOK'
    BY <2>2 DEF TypeOK, ControlTypes, BindingTypes, TranscriptTypes
  <2>4. Counted'
    BY <2>1, CountStep DEF IInv, TranscriptTypes
  <2> QED
    BY <2>1, <2>3, <2>4, DownStep, PlacesStep, LatestStep DEF IInv
<1> QED
  BY <1>1, <1>2, PTL DEF Spec

\* Every reachable state is well typed: in particular no run numbers more entries than
\* there were calls.
THEOREM LifeTypes == Spec => []TypeOK
<1> QED
  BY LifeInvariant, PTL DEF IInv

\* The configuration and the lock are those of the directory the binding was made for
\* (tools.cpp:1359), whoever wrote the file it was restored from.
THEOREM LockIsBeside == Spec => []LockFollowsBinding
<1> QED
  BY LifeInvariant, PTL DEF IInv

\* A process that starts bound has a binding that was made for its directory.
THEOREM Restored == Spec => RestoredWasBound
<1> DEFINE Restores == \A s \in Servers : pc[s] = "down" /\ binding'[s] # NoBinding =>
                          [binding |-> binding'[s], dir |-> CwdOf[s]] \in bound
<1>1. IInv /\ [Next]_vars => [Restores]_vars
  <2> SUFFICES ASSUME IInv, [Next]_vars, NEW s \in Servers, pc[s] = "down", binding'[s] # NoBinding
               PROVE  [binding |-> binding'[s], dir |-> CwdOf[s]] \in bound
    OBVIOUS
  <2>1. ControlTypes /\ BindingTypes /\ binding[s] = NoBinding
    BY TypeParts DEF IInv, DownIsUnbound
  <2>2. \/ binding'[s] = binding[s] \/ binding'[s] = NoBinding \/ Start(s)
    <3>1. CASE Quiet
      BY <3>1 DEF Quiet
    <3>2. ASSUME NEW t \in Servers, Start(t) PROVE binding'[s] = binding[s] \/ t = s
      BY <2>1, <3>2 DEF Start, BindingTypes
    <3>3. ASSUME NEW t \in Servers, CheckBinding(t) \/ End(t)
          PROVE binding'[s] = binding[s] \/ binding'[s] = NoBinding
      BY <2>1, <3>3 DEF CheckBinding, End, BindingTypes, Goto
    <3>4. ASSUME NEW t \in Servers, OpenConfig(t) \/ WriteConfig(t) PROVE binding'[s] = binding[s]
      BY <3>4 DEF OpenConfig, WriteConfig, bindVars
    <3>5. ASSUME NEW t \in Servers, NEW p \in Panes, NEW r \in Dirs \cup {NoRoot}, Bind(t, p, r)
          PROVE binding'[s] = binding[s]
      <4>1. t # s /\ binding' = [binding EXCEPT ![t] = [pane |-> p, root |-> r]]
        BY <3>5 DEF Bind, Begin, Goto
      <4> QED
        BY <2>1, <4>1 DEF BindingTypes
    <3> QED
      BY <2>1, QuietOrNot, <3>1, <3>2, <3>3, <3>4, <3>5
  <2>3. Start(s) /\ binding'[s] = Loaded(CwdOf[s])
    BY <2>1, <2>2 DEF Start, BindingTypes
  <2> QED
    BY <2>3, DirsAssumption DEF Loaded, IInv, ConfigIsLocal, MadeFor
<1> QED
  BY <1>1, LifeInvariant, PTL DEF Spec, RestoredWasBound

\* A process that starts has the latest binding made for its directory, unless a save
\* there failed or is under way (man/jjmcp-config.5:5).
THEOREM Latest == Spec => StartsWithLatest
<1> DEFINE Starts == \A s \in Servers : /\ pc[s] = "down" /\ pc'[s] = "check"
                                        /\ CwdOf[s] \notin unsaved /\ ~SomeoneSaves(CwdOf[s])
                                      => binding'[s] = latest[CwdOf[s]]
<1>1. IInv /\ [Next]_vars => [Starts]_vars
  <2> SUFFICES ASSUME IInv, [Next]_vars, NEW s \in Servers, pc[s] = "down", pc'[s] = "check",
                      CwdOf[s] \notin unsaved, ~SomeoneSaves(CwdOf[s])
               PROVE  binding'[s] = latest[CwdOf[s]]
    OBVIOUS
  <2>1. ControlTypes /\ BindingTypes
    BY TypeParts DEF IInv
  <2>2. Start(s)
    <3>1. ASSUME NEW t \in Servers,
                 \/ CheckBinding(t) \/ ReturnUnchanged(t) \/ Throw(t) \/ OpenConfig(t) \/ WriteConfig(t)
                 \/ RecordOff(t) \/ End(t)
          PROVE FALSE
      BY <2>1, <3>1 DEF CheckBinding, ReturnUnchanged, Throw, OpenConfig, WriteConfig, RecordOff, End,
         Begin, Goto, ControlTypes
    <3>2. ASSUME NEW t \in Servers, Start(t) PROVE t = s
      BY <2>1, <3>2 DEF Start, Goto, ControlTypes
    <3>3. ASSUME NEW t \in Servers, NEW to, Goto(t, "record", to) \/ Begin(t, to) PROVE to = "check"
      BY <2>1, <3>3 DEF Begin, Goto, ControlTypes
    <3>4. ASSUME NEW t \in Servers, Record(t) PROVE FALSE
      BY <3>3, <3>4 DEF Record
    <3>5. ASSUME NEW t \in Servers, NEW p \in Panes, NEW r \in Dirs \cup {NoRoot}, Bind(t, p, r) PROVE FALSE
      BY <3>3, <3>5 DEF Bind
    <3>6. ASSUME NEW t \in Servers, NEW f \in Files \cup {Off}, SetTranscript(t, f) PROVE FALSE
      BY <3>3, <3>6 DEF SetTranscript
    <3>7. ASSUME (\E p \in Panes : PaneDies(p)) \/ (\E f \in Files : Rotate(f)) \/ UNCHANGED vars PROVE FALSE
      BY <3>7 DEF PaneDies, Rotate, vars
    <3> QED
      BY Steps, <3>1, <3>2, <3>4, <3>5, <3>6, <3>7
  <2>3. binding'[s] = Loaded(CwdOf[s]) /\ CwdOf[s] \in Dirs
    BY <2>1, <2>2, DirsAssumption DEF Start, BindingTypes
  <2>4. \A t \in Servers : ~SavesIn(t, CwdOf[s])
    BY DEF SomeoneSaves, SavesIn, Saves
  <2> QED
    BY <2>3, <2>4 DEF IInv, SavedIsLatest
<1> QED
  BY <1>1, LifeInvariant, PTL DEF Spec, StartsWithLatest

-----------------------------------------------------------------------------
(* Lost entries show as gaps. *)

Live(s) == pc[s] # "down"
LostFrom(e) == {l \in lost : l.run = e.run /\ l.call >= e.call}

\* The processes that live come from different starts.
RunsDiffer ==
    /\ \A s \in Servers : Live(s) => run[s] <= starts
    /\ \A s, t \in Servers : Live(s) /\ Live(t) /\ run[s] = run[t] => s = t

\* What was written or lost belongs to a start and to a call there has been.
NotAhead ==
    /\ \A f \in Files : \A i \in DOMAIN file[f] : file[f][i].run <= starts /\ file[f][i].call <= calls
    /\ \A l \in lost : l.run <= starts /\ l.call <= calls

\* A call in progress is later than all that its process has written or lost.
CurrentIsLatest ==
    \A s \in Servers : Busy(s) =>
        /\ current[s] <= calls
        /\ \A f \in Files : \A i \in DOMAIN file[f] : file[f][i].run = run[s] => file[f][i].call < current[s]
        /\ \A l \in lost : l.run = run[s] => l.call < current[s]

\* The numbers of a process have passed each entry by at least the entries lost since.
NumbersPass ==
    \A s \in Servers : Live(s) =>
        \A f \in Files : \A i \in DOMAIN file[f] :
            file[f][i].run = run[s] => sequence[s] >= file[f][i].seq + Cardinality(LostFrom(file[f][i]))

LossInv ==
    IsFiniteSet(lost) /\ RunsDiffer /\ NotAhead /\ CurrentIsLatest /\ NumbersPass /\ NoSilentLoss

\* No process starts, and nothing is written, lost or rotated.
Steady ==
    /\ UNCHANGED <<file, lost, starts>> /\ calls <= calls'
    /\ \A s \in Servers : Live(s)' => Live(s) /\ run'[s] = run[s] /\ sequence'[s] = sequence[s]
    /\ \A s \in Servers : Busy(s)' => \/ Busy(s) /\ current'[s] = current[s]
                                      \/ current'[s] = calls + 1 /\ calls' = calls + 1

LEMMA BeginIsSteady ==
  ASSUME ControlTypes, NEW s \in Servers, NEW to \in {"open", "record"}, Begin(s, to),
         UNCHANGED <<file, lost, starts, run, sequence>>
  PROVE  Steady
<1>1. /\ pc[s] = "idle" /\ pc'[s] = to /\ calls' = calls + 1 /\ current'[s] = calls + 1
      /\ \A t \in Servers : t # s => pc'[t] = pc[t] /\ current'[t] = current[t]
  BY DEF Begin, Goto, ControlTypes
<1>2. calls \in Nat
  BY DEF ControlTypes
<1>3. \A t \in Servers : Live(t)' => Live(t)
  BY <1>1 DEF Live
<1>4. ASSUME NEW t \in Servers, Busy(t)'
      PROVE  \/ Busy(t) /\ current'[t] = current[t]
             \/ current'[t] = calls + 1 /\ calls' = calls + 1
  BY <1>1, <1>4 DEF Busy
<1> QED
  BY <1>1, <1>2, <1>3, <1>4 DEF Steady

LEMMA TranscriptEffects ==
  ASSUME ControlTypes, TranscriptTypes, [Next]_vars
  PROVE  \/ Steady
         \/ \E s \in Servers : Start(s) \/ Record(s)
         \/ \E f \in Files : Rotate(f)
<1> USE DEF ControlTypes
<1>1. ASSUME NEW s \in Servers,
             CheckBinding(s) \/ OpenConfig(s) \/ WriteConfig(s) \/ RecordOff(s) \/ Throw(s) \/ End(s)
      PROVE  Steady
  <2>1. UNCHANGED <<file, lost, starts>> /\ (calls' = calls \/ calls' = calls + 1)
    BY <1>1 DEF CheckBinding, OpenConfig, WriteConfig, RecordOff, Throw, End, fileVars
  <2>2. \A t \in Servers : Live(t)' => Live(t) /\ run'[t] = run[t] /\ sequence'[t] = sequence[t]
    <3>1. CASE End(s)
      BY <3>1 DEF End, Live, TranscriptTypes
    <3>2. CASE ~End(s)
      BY <1>1, <3>2 DEF CheckBinding, OpenConfig, WriteConfig, RecordOff, Throw, Goto, Live, transcriptVars
    <3> QED
      BY <3>1, <3>2
  <2>3. \A t \in Servers : Busy(t)' => Busy(t) /\ current'[t] = current[t]
    <3>1. CASE End(s)
      BY <3>1 DEF End, Busy
    <3>2. CASE RecordOff(s)
      BY <3>2 DEF RecordOff, Goto, Busy
    <3>3. CASE CheckBinding(s) \/ OpenConfig(s) \/ WriteConfig(s) \/ Throw(s)
      BY <3>3 DEF CheckBinding, OpenConfig, WriteConfig, Throw, Goto, Busy
    <3> QED
      BY <1>1, <3>1, <3>2, <3>3
  <2> QED
    BY <2>1, <2>2, <2>3 DEF Steady
<1>2. ASSUME NEW s \in Servers, ReturnUnchanged(s) PROVE Steady
  BY <1>2, BeginIsSteady DEF ReturnUnchanged, fileVars, transcriptVars
<1>3. ASSUME NEW s \in Servers, NEW p \in Panes, NEW r \in Dirs \cup {NoRoot}, Bind(s, p, r) PROVE Steady
  BY <1>3, BeginIsSteady DEF Bind, fileVars, transcriptVars
<1>4. ASSUME NEW s \in Servers, NEW f \in Files \cup {Off}, SetTranscript(s, f) PROVE Steady
  BY <1>4, BeginIsSteady DEF SetTranscript, fileVars
<1>5. CASE UNCHANGED vars \/ \E p \in Panes : PaneDies(p)
  BY <1>5 DEF vars, PaneDies, fileVars, transcriptVars, Steady, Live, Busy
<1> QED
  BY Steps, <1>1, <1>2, <1>3, <1>4, <1>5

LEMMA LoggedTypes ==
  ASSUME TranscriptTypes, NEW f \in Files, NEW i \in DOMAIN file[f]
  PROVE  file[f][i].run \in Nat /\ file[f][i].seq \in Nat /\ file[f][i].call \in Nat
<1>1. file[f] \in Seq(Entry)
  BY DEF TranscriptTypes
<1>2. file[f][i] \in Entry
  BY <1>1
<1> QED
  BY <1>2 DEF Entry

LEMMA LostCounts ==
  ASSUME IsFiniteSet(lost), NEW e
  PROVE  /\ IsFiniteSet(LostFrom(e)) /\ Cardinality(LostFrom(e)) \in Nat
         /\ \A x : LostBetween(e, x) \subseteq LostFrom(e) =>
                     /\ Cardinality(LostBetween(e, x)) \in Nat
                     /\ Cardinality(LostBetween(e, x)) <= Cardinality(LostFrom(e))
<1>1. IsFiniteSet(LostFrom(e))
  BY FS_Subset DEF LostFrom
<1>2. Cardinality(LostFrom(e)) \in Nat
  BY <1>1, FS_CardinalityType
<1>3. ASSUME NEW x, LostBetween(e, x) \subseteq LostFrom(e)
      PROVE  /\ Cardinality(LostBetween(e, x)) \in Nat
             /\ Cardinality(LostBetween(e, x)) <= Cardinality(LostFrom(e))
  BY <1>1, <1>3, FS_Subset, FS_CardinalityType
<1> QED
  BY <1>1, <1>2, <1>3

LEMMA OneMore ==
  ASSUME NEW S, IsFiniteSet(S), NEW y, NEW T, T = S \/ T = S \cup {y}
  PROVE  Cardinality(T) \in Nat /\ Cardinality(T) <= Cardinality(S) + 1
<1>1. Cardinality(S) \in Nat
  BY FS_CardinalityType
<1>2. Cardinality(S \cup {y}) = IF y \in S THEN Cardinality(S) ELSE Cardinality(S) + 1
  BY FS_AddElement
<1> QED
  BY <1>1, <1>2

LEMMA SteadyStep ==
  ASSUME ControlTypes, TranscriptTypes, LossInv, Steady, calls' \in Nat
  PROVE  LossInv'
<1>0. UNCHANGED <<file, lost, starts>> /\ calls <= calls' /\ calls \in Nat
  BY DEF Steady, ControlTypes
<1>1. IsFiniteSet(lost')
  BY <1>0 DEF LossInv
<1>2. RunsDiffer'
  BY <1>0 DEF LossInv, RunsDiffer, Steady
<1>3. \A f \in Files : \A i \in DOMAIN file[f] : file[f][i].call \in Nat
  BY LoggedTypes
<1>4. \A l \in lost : l.call \in Nat
  BY DEF TranscriptTypes
<1>5. NotAhead'
  BY <1>0, <1>3, <1>4 DEF LossInv, NotAhead
<1>6. CurrentIsLatest'
  <2> SUFFICES ASSUME NEW s \in Servers, Busy(s)'
               PROVE  /\ current'[s] <= calls'
                      /\ \A f \in Files : \A i \in DOMAIN file[f] : file[f][i].run = run[s] => file[f][i].call < current'[s]
                      /\ \A l \in lost : l.run = run[s] => l.call < current'[s]
    BY <1>0 DEF CurrentIsLatest, Steady, Busy, Live
  <2>1. CASE Busy(s) /\ current'[s] = current[s]
    BY <1>0, <2>1 DEF LossInv, CurrentIsLatest, ControlTypes
  <2>2. CASE current'[s] = calls + 1 /\ calls' = calls + 1
    BY <1>0, <1>3, <1>4, <2>2 DEF LossInv, NotAhead
  <2> QED
    BY <2>1, <2>2 DEF Steady
<1>7. NumbersPass'
  BY <1>0 DEF LossInv, NumbersPass, LostFrom, Steady
<1>8. NoSilentLoss'
  BY <1>0 DEF LossInv, NoSilentLoss, LostBetween
<1> QED
  BY <1>1, <1>2, <1>5, <1>6, <1>7, <1>8 DEF LossInv

LEMMA StartStep ==
  ASSUME ControlTypes, TranscriptTypes, LossInv, NEW s \in Servers, Start(s)
  PROVE  LossInv'
<1>0. /\ UNCHANGED <<file, lost, calls, sequence, current>> /\ starts' = starts + 1 /\ starts \in Nat
      /\ pc[s] = "down" /\ pc'[s] = "check" /\ run'[s] = starts + 1
      /\ \A t \in Servers : t # s => pc'[t] = pc[t] /\ run'[t] = run[t]
  BY DEF Start, Goto, fileVars, ControlTypes
<1>1. /\ Live(s)' /\ ~Busy(s)'
      /\ \A t \in Servers : t # s => (Live(t)' <=> Live(t)) /\ (Busy(t)' <=> Busy(t))
  BY <1>0 DEF Live, Busy
<1>2. \A t \in Servers : run[t] \in Nat
  BY DEF ControlTypes
<1>3. RunsDiffer'
  BY <1>0, <1>1, <1>2 DEF LossInv, RunsDiffer
<1>4. NotAhead'
  <2>1. \A f \in Files : \A i \in DOMAIN file[f] : file[f][i].run \in Nat
    BY LoggedTypes
  <2>2. \A l \in lost : l.run \in Nat
    BY DEF TranscriptTypes
  <2> QED
    BY <1>0, <2>1, <2>2 DEF LossInv, NotAhead
<1>5. CurrentIsLatest'
  BY <1>0, <1>1 DEF LossInv, CurrentIsLatest
<1>6. NumbersPass'
  <2> SUFFICES ASSUME NEW t \in Servers, Live(t)', NEW f \in Files, NEW i \in DOMAIN file[f],
                      file[f][i].run = run'[t]
               PROVE  sequence[t] >= file[f][i].seq + Cardinality(LostFrom(file[f][i]))
    BY <1>0 DEF NumbersPass, LostFrom
  <2>1. t # s
    BY <1>0 DEF LossInv, NotAhead
  <2> QED
    BY <1>0, <1>1, <2>1 DEF LossInv, NumbersPass
<1>7. NoSilentLoss'
  BY <1>0 DEF LossInv, NoSilentLoss, LostBetween
<1> QED
  BY <1>0, <1>3, <1>4, <1>5, <1>6, <1>7 DEF LossInv

LEMMA RotateStep ==
  ASSUME ControlTypes, TranscriptTypes, LossInv, NEW r \in Files, Rotate(r)
  PROVE  LossInv'
<1>0. UNCHANGED <<pc, run, lost, starts, calls, sequence, current>>
  BY DEF Rotate, transcriptVars
<1>1. \A f \in Files : \A i \in DOMAIN file'[f] : file'[f] = file[f] /\ i \in DOMAIN file[f]
  BY DEF Rotate, TranscriptTypes
<1>2. RunsDiffer'
  BY <1>0 DEF LossInv, RunsDiffer, Live
<1>3. NotAhead'
  BY <1>0, <1>1 DEF LossInv, NotAhead
<1>4. CurrentIsLatest'
  BY <1>0, <1>1 DEF LossInv, CurrentIsLatest, Busy
<1>5. NumbersPass'
  BY <1>0, <1>1 DEF LossInv, NumbersPass, Live, LostFrom
<1>6. NoSilentLoss'
  <2> SUFFICES ASSUME NEW f \in Files, NEW i \in DOMAIN file'[f], NEW j \in DOMAIN file'[f],
                      i < j, file'[f][i].run = file'[f][j].run
               PROVE  file'[f][j].seq > file'[f][i].seq + Cardinality(LostBetween(file'[f][i], file'[f][j]))
    BY <1>0 DEF NoSilentLoss, LostBetween
  <2>1. file'[f] = file[f] /\ i \in DOMAIN file[f] /\ j \in DOMAIN file[f]
    BY <1>1
  <2> QED
    BY <2>1 DEF LossInv, NoSilentLoss
<1> QED
  BY <1>0, <1>2, <1>3, <1>4, <1>5, <1>6 DEF LossInv

\* The number after one that exceeds a and a count exceeds a and every smaller count.
LEMMA Exceeds ==
  ASSUME NEW n \in Nat, NEW a \in Nat, NEW c \in Nat, NEW d \in Nat, n >= a + c, d <= c,
         NEW m, m = n + 1
  PROVE  m > a + d
  OBVIOUS

\* An entry is written.
LEMMA WrittenStep ==
  ASSUME ControlTypes, TranscriptTypes, LossInv, NEW s \in Servers, Busy(s), ~Busy(s)', NEW p \in Files,
         file' = [file EXCEPT ![p] = Append(@, [run |-> run[s], seq |-> sequence[s] + 1, call |-> current[s]])],
         UNCHANGED <<run, lost, starts, calls>>, sequence'[s] = sequence[s] + 1,
         \A t \in Servers : Live(t)' <=> Live(t),
         \A t \in Servers : t # s => /\ Busy(t)' <=> Busy(t)
                                     /\ sequence'[t] = sequence[t] /\ current'[t] = current[t]
  PROVE  LossInv'
<1> DEFINE x == [run |-> run[s], seq |-> sequence[s] + 1, call |-> current[s]]
<1>1. /\ x.run = run[s] /\ x.seq = sequence[s] + 1 /\ x.call = current[s]
      /\ run[s] \in Nat /\ sequence[s] \in Nat /\ current[s] \in Nat
  BY DEF ControlTypes, TranscriptTypes
<1>2. file' = [file EXCEPT ![p] = Append(@, x)]
  OBVIOUS
<1> HIDE DEF x
<1>3. \A f \in Files : \A i \in DOMAIN file'[f] :
        \/ i \in DOMAIN file[f] /\ file'[f][i] = file[f][i]
        \/ f = p /\ i = Len(file[p]) + 1 /\ file'[f][i] = x
  <2>1. file[p] \in Seq(Entry)
    BY DEF TranscriptTypes
  <2>2. file'[p] = Append(file[p], x) /\ \A f \in Files : f # p => file'[f] = file[f]
    BY <1>2 DEF TranscriptTypes
  <2>3. \A i \in DOMAIN Append(file[p], x) :
          \/ i \in DOMAIN file[p] /\ Append(file[p], x)[i] = file[p][i]
          \/ i = Len(file[p]) + 1 /\ Append(file[p], x)[i] = x
    BY <2>1
  <2> QED
    BY <2>2, <2>3
<1>4. Live(s)
  BY DEF Busy, Live
<1>5. \A t \in Servers : Live(t) /\ run[t] = run[s] => t = s
  BY <1>4 DEF LossInv, RunsDiffer
<1>6. RunsDiffer'
  BY DEF LossInv, RunsDiffer
<1>7. NotAhead'
  <2>1. x.run <= starts /\ x.call <= calls
    BY <1>1, <1>4 DEF LossInv, RunsDiffer, CurrentIsLatest
  <2> QED
    BY <1>3, <2>1 DEF LossInv, NotAhead
<1>8. CurrentIsLatest'
  <2> SUFFICES ASSUME NEW t \in Servers, Busy(t)'
               PROVE  /\ current'[t] <= calls
                      /\ \A f \in Files : \A i \in DOMAIN file'[f] : file'[f][i].run = run[t] => file'[f][i].call < current'[t]
                      /\ \A l \in lost : l.run = run[t] => l.call < current'[t]
    BY DEF CurrentIsLatest
  <2>1. t # s /\ Busy(t) /\ Live(t) /\ current'[t] = current[t]
    BY DEF Busy, Live
  <2>2. x.run # run[t]
    BY <1>1, <1>5, <2>1
  <2> QED
    BY <1>3, <2>1, <2>2 DEF LossInv, CurrentIsLatest
<1>9. NumbersPass'
  <2> SUFFICES ASSUME NEW t \in Servers, Live(t), NEW f \in Files, NEW i \in DOMAIN file'[f],
                      file'[f][i].run = run[t]
               PROVE  sequence'[t] >= file'[f][i].seq + Cardinality(LostFrom(file[f][i])')
    BY DEF NumbersPass
  <2>0. LostFrom(file[f][i])' = LostFrom(file'[f][i])
    BY DEF LostFrom
  <2>1. CASE i \in DOMAIN file[f] /\ file'[f][i] = file[f][i]
    <3>1. sequence[t] >= file[f][i].seq + Cardinality(LostFrom(file[f][i]))
      BY <2>1 DEF LossInv, NumbersPass
    <3>2. Cardinality(LostFrom(file[f][i])) \in Nat /\ file[f][i].seq \in Nat /\ sequence[t] \in Nat
      BY <2>1, LostCounts, LoggedTypes DEF LossInv, TranscriptTypes
    <3>3. sequence'[t] >= sequence[t]
      BY <3>2
    <3>4. sequence'[t] \in Nat
      BY <3>2
    <3> QED
      BY <2>0, <2>1, <3>1, <3>2, <3>3, <3>4
  <2>2. CASE file'[f][i] = x
    <3>1. t = s
      BY <1>1, <1>5, <2>2
    <3>2. LostFrom(x) = {}
      BY <1>1 DEF LossInv, CurrentIsLatest, LostFrom, TranscriptTypes
    <3>3. Cardinality(LostFrom(x)) = 0
      BY <3>2, FS_EmptySet
    <3> QED
      BY <1>1, <2>0, <2>2, <3>1, <3>3
  <2> QED
    BY <1>3, <2>1, <2>2
<1>10. NoSilentLoss'
  <2> SUFFICES ASSUME NEW f \in Files, NEW i \in DOMAIN file'[f], NEW j \in DOMAIN file'[f],
                      i < j, file'[f][i].run = file'[f][j].run
               PROVE  file'[f][j].seq > file'[f][i].seq + Cardinality(LostBetween(file'[f][i], file'[f][j]))
    BY DEF NoSilentLoss, LostBetween
  <2>0. file[f] \in Seq(Entry) /\ DOMAIN file[f] = 1..Len(file[f]) /\ Len(file[f]) \in Nat
    BY DEF TranscriptTypes
  <2>1. CASE j \in DOMAIN file[f] /\ file'[f][j] = file[f][j]
    <3>1. i # Len(file[f]) + 1
      BY <2>0, <2>1
    <3>2. i \in DOMAIN file[f] /\ file'[f][i] = file[f][i]
      BY <1>3, <3>1
    <3> QED
      BY <2>1, <3>2 DEF LossInv, NoSilentLoss
  <2>2. CASE f = p /\ j = Len(file[p]) + 1 /\ file'[f][j] = x
    <3>1. i # Len(file[f]) + 1
      BY <2>0, <2>2
    <3>2. i \in DOMAIN file[f] /\ file'[f][i] = file[f][i]
      BY <1>3, <3>1
    <3>3. sequence[s] >= file[f][i].seq + Cardinality(LostFrom(file[f][i]))
      BY <1>1, <1>4, <2>2, <3>2 DEF LossInv, NumbersPass
    <3>4. file[f][i].call \in Nat /\ file[f][i].seq \in Nat
      BY <3>2, LoggedTypes
    <3>5. LostBetween(file[f][i], x) \subseteq LostFrom(file[f][i])
      BY <1>1, <3>4 DEF LostBetween, LostFrom, TranscriptTypes
    <3>6. /\ Cardinality(LostFrom(file[f][i])) \in Nat
          /\ Cardinality(LostBetween(file[f][i], x)) \in Nat
          /\ Cardinality(LostBetween(file[f][i], x)) <= Cardinality(LostFrom(file[f][i]))
      BY <3>5, LostCounts DEF LossInv
    <3>7. x.seq > file[f][i].seq + Cardinality(LostBetween(file[f][i], x))
      <4>1. x.seq = sequence[s] + 1 /\ sequence[s] \in Nat
        BY <1>1
      <4> QED
        BY <3>3, <3>4, <3>6, <4>1, Exceeds
    <3>8. file'[f][i] = file[f][i] /\ file'[f][j] = x
      BY <2>2, <3>2
    <3> QED
      BY <3>7, <3>8
  <2> QED
    BY <1>3, <2>1, <2>2
<1> QED
  BY <1>6, <1>7, <1>8, <1>9, <1>10 DEF LossInv

\* An entry is numbered and lost.
LEMMA LostStep ==
  ASSUME ControlTypes, TranscriptTypes, LossInv, NEW s \in Servers, Busy(s), ~Busy(s)',
         lost' = lost \cup {[run |-> run[s], call |-> current[s]]},
         UNCHANGED <<run, file, starts, calls>>, sequence'[s] = sequence[s] + 1,
         \A t \in Servers : Live(t)' <=> Live(t),
         \A t \in Servers : t # s => /\ Busy(t)' <=> Busy(t)
                                     /\ sequence'[t] = sequence[t] /\ current'[t] = current[t]
  PROVE  LossInv'
<1> DEFINE y == [run |-> run[s], call |-> current[s]]
<1>1. /\ y.run = run[s] /\ y.call = current[s] /\ lost' = lost \cup {y}
      /\ run[s] \in Nat /\ current[s] \in Nat
  BY DEF ControlTypes
<1> HIDE DEF y
<1>2. IsFiniteSet(lost')
  BY <1>1, FS_AddElement DEF LossInv
<1>4. Live(s)
  BY DEF Busy, Live
<1>5. \A t \in Servers : Live(t) /\ run[t] = run[s] => t = s
  BY <1>4 DEF LossInv, RunsDiffer
<1>6. RunsDiffer'
  BY DEF LossInv, RunsDiffer
<1>7. NotAhead'
  <2>1. y.run <= starts /\ y.call <= calls
    BY <1>1, <1>4 DEF LossInv, RunsDiffer, CurrentIsLatest
  <2> QED
    BY <1>1, <2>1 DEF LossInv, NotAhead
<1>8. CurrentIsLatest'
  <2> SUFFICES ASSUME NEW t \in Servers, Busy(t)'
               PROVE  /\ current'[t] <= calls
                      /\ \A f \in Files : \A i \in DOMAIN file[f] : file[f][i].run = run[t] => file[f][i].call < current'[t]
                      /\ \A l \in lost' : l.run = run[t] => l.call < current'[t]
    BY DEF CurrentIsLatest
  <2>1. t # s /\ Busy(t) /\ Live(t) /\ current'[t] = current[t]
    BY DEF Busy, Live
  <2>2. y.run # run[t]
    BY <1>1, <1>5, <2>1
  <2> QED
    BY <1>1, <2>1, <2>2 DEF LossInv, CurrentIsLatest
<1>9. NumbersPass'
  <2> SUFFICES ASSUME NEW t \in Servers, Live(t), NEW f \in Files, NEW i \in DOMAIN file[f],
                      file[f][i].run = run[t]
               PROVE  sequence'[t] >= file[f][i].seq + Cardinality(LostFrom(file[f][i])')
    BY DEF NumbersPass, LostFrom
  <2>1. /\ sequence[t] >= file[f][i].seq + Cardinality(LostFrom(file[f][i]))
        /\ Cardinality(LostFrom(file[f][i])) \in Nat /\ IsFiniteSet(LostFrom(file[f][i]))
        /\ file[f][i].seq \in Nat /\ sequence[t] \in Nat
    BY LostCounts, LoggedTypes DEF LossInv, NumbersPass, TranscriptTypes
  <2>2. CASE t # s
    <3>1. y.run # file[f][i].run
      BY <1>1, <1>5, <2>2
    <3>2. LostFrom(file[f][i])' = LostFrom(file[f][i])
      BY <1>1, <3>1 DEF LostFrom
    <3> QED
      BY <2>1, <2>2, <3>2
  <2>3. CASE t = s
    <3>1. LostFrom(file[f][i])' = LostFrom(file[f][i]) \/ LostFrom(file[f][i])' = LostFrom(file[f][i]) \cup {y}
      BY <1>1 DEF LostFrom
    <3>2. /\ Cardinality(LostFrom(file[f][i])') \in Nat
          /\ Cardinality(LostFrom(file[f][i])') <= Cardinality(LostFrom(file[f][i])) + 1
      BY <2>1, <3>1, OneMore
    <3> QED
      BY <2>1, <2>3, <3>2
  <2> QED
    BY <2>2, <2>3
<1>10. NoSilentLoss'
  <2> SUFFICES ASSUME NEW f \in Files, NEW i \in DOMAIN file[f], NEW j \in DOMAIN file[f],
                      i < j, file[f][i].run = file[f][j].run
               PROVE  file[f][j].seq > file[f][i].seq + Cardinality(LostBetween(file[f][i], file[f][j])')
    BY DEF NoSilentLoss, LostBetween
  <2>1. y.run = file[f][i].run => file[f][j].call < y.call
    BY <1>1 DEF LossInv, CurrentIsLatest
  <2>2. file[f][j].call \in Nat /\ y.call \in Nat
    BY <1>1, LoggedTypes
  <2>3. LostBetween(file[f][i], file[f][j])' = LostBetween(file[f][i], file[f][j])
    BY <1>1, <2>1, <2>2 DEF LostBetween
  <2> QED
    BY <2>3 DEF LossInv, NoSilentLoss
<1> QED
  BY <1>2, <1>6, <1>7, <1>8, <1>9, <1>10 DEF LossInv

LEMMA RecordStep ==
  ASSUME ControlTypes, TranscriptTypes, LossInv, NEW s \in Servers, Record(s)
  PROVE  LossInv'
<1>1. /\ UNCHANGED <<run, starts, calls>> /\ pc[s] = "record" /\ pc' = [pc EXCEPT ![s] = "idle"]
      /\ sequence' = [sequence EXCEPT ![s] = @ + 1] /\ current' = [current EXCEPT ![s] = 0]
      /\ path[s] # Off
  BY DEF Record, Goto, Numbered
<1>2. /\ Busy(s) /\ ~Busy(s)' /\ sequence'[s] = sequence[s] + 1
      /\ \A t \in Servers : Live(t)' <=> Live(t)
      /\ \A t \in Servers : t # s => /\ Busy(t)' <=> Busy(t)
                                     /\ sequence'[t] = sequence[t] /\ current'[t] = current[t]
  BY <1>1 DEF Busy, Live, ControlTypes, TranscriptTypes
<1>3. path[s] \in Files
  BY <1>1 DEF TranscriptTypes
<1>4. \/ /\ file' = [file EXCEPT ![path[s]] = Append(@, [run |-> run[s], seq |-> sequence[s] + 1, call |-> current[s]])]
         /\ lost' = lost
      \/ lost' = lost \cup {[run |-> run[s], call |-> current[s]]} /\ file' = file
  BY DEF Record
<1>5. CASE /\ file' = [file EXCEPT ![path[s]] = Append(@, [run |-> run[s], seq |-> sequence[s] + 1, call |-> current[s]])]
           /\ lost' = lost
  BY <1>1, <1>2, <1>3, <1>5, WrittenStep
<1>6. CASE lost' = lost \cup {[run |-> run[s], call |-> current[s]]} /\ file' = file
  BY <1>1, <1>2, <1>6, LostStep
<1> QED
  BY <1>4, <1>5, <1>6

\* In every reachable state what a process numbers has passed what it wrote and lost.
THEOREM LossInvariant == Spec => []LossInv
<1>1. Init => LossInv
  <2> SUFFICES ASSUME Init PROVE LossInv
    OBVIOUS
  <2>1. IsFiniteSet(lost)
    BY FS_EmptySet DEF Init
  <2>2. RunsDiffer /\ CurrentIsLatest
    BY DEF Init, RunsDiffer, CurrentIsLatest, Live, Busy
  <2>3. \A f \in Files : DOMAIN file[f] = {}
    BY DEF Init
  <2>4. NotAhead /\ NoSilentLoss
    BY <2>3 DEF Init, NotAhead, NoSilentLoss
  <2>5. NumbersPass
    BY <2>3 DEF NumbersPass
  <2> QED
    BY <2>1, <2>2, <2>4, <2>5 DEF LossInv
<1>2. IInv /\ IInv' /\ LossInv /\ [Next]_vars => LossInv'
  <2> SUFFICES ASSUME IInv, IInv', LossInv, [Next]_vars PROVE LossInv'
    OBVIOUS
  <2>1. ControlTypes /\ TranscriptTypes
    BY TypeParts DEF IInv
  <2>2. calls' \in Nat
    BY DEF IInv, TypeOK
  <2> QED
    BY <2>1, <2>2, TranscriptEffects, SteadyStep, StartStep, RecordStep, RotateStep
<1> QED
  BY <1>1, <1>2, LifeInvariant, PTL DEF Spec

\* A reader of a transcript sees lost entries as gaps (Transcript::append numbers an
\* entry before it opens the file), whatever is switched, rotated or shared.
THEOREM LossShows == Spec => []NoSilentLoss
<1> QED
  BY LossInvariant, PTL DEF LossInv
=============================================================================
