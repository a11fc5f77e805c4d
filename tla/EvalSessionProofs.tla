-------------------------- MODULE EvalSessionProofs --------------------------
(***************************************************************************)
(* Proofs about EvalSession, for any number of calls and of REPLs and any  *)
(* tolerance for captures that fail.                                       *)
(*                                                                         *)
(* That the cache is sound needs to know what the bootstrap does while the *)
(* server waits for it: as long as the REPL is the one whose generation    *)
(* was read, the bootstrap is still to come, runs, has failed with an      *)
(* ERROR marker that nothing can scroll away, or has installed the runtime.*)
(***************************************************************************)
EXTENDS EvalSession, TLAPS, FiniteSetTheorems

\* An eval sends at most two items in each of its passes.
Sent(n) == call >= 1 /\ seq <= 4 * (call - 1) + 2 * (pass - 1) + n
Counted ==
    /\ seq <= 4 * call
    /\ pc \in {"ensure", "bootstrap"} => Sent(0)
    /\ pc \in {"boot_poll", "paste"} => Sent(1)
    /\ pc = "poll" => Sent(2)

ServerTypes ==
    /\ pc \in {"idle", "ensure", "bootstrap", "boot_poll", "paste", "poll"}
    /\ call \in 0..MaxCalls /\ pass \in 1..2
    /\ seq \in 0..MaxMarkers /\ marker \in 0..MaxMarkers /\ marker <= seq
    /\ token \in Gens \cup {Unknown}
    /\ cache \subseteq Gens \cup {Unknown} /\ Cardinality(cache) <= 1
    /\ seen \subseteq {"echo", "begin", "error", "end"}
    /\ failures \in 0..MaxCaptureFailures
    /\ outcome \in [Calls -> Outcomes] /\ misled \subseteq Calls
PaneTypes ==
    /\ lineByLine \in BOOLEAN /\ gen \in 1..MaxGen[lineByLine] /\ runtime \in BOOLEAN
    /\ input \in Seq(Items) /\ running \in Items \cup {NoItem, Human}
    /\ screen \in Seq(Events)
    /\ ran \in [Calls -> Nat] /\ done \subseteq Calls /\ rejected \subseteq Markers

LEMMA TypeParts == TypeOK <=> ServerTypes /\ PaneTypes
  BY DEF TypeOK, ServerTypes, PaneTypes

-----------------------------------------------------------------------------
(* Sequences, as the sets of what is in them. *)

Elements(s) == {s[i] : i \in DOMAIN s}
Whats == {"echo", "begin", "error", "end", "undefined"}
Event(w, m) == [what |-> w, id |-> m]

LEMMA ConcatElements ==
  ASSUME NEW S, NEW a \in Seq(S), NEW b \in Seq(S), NEW c, c = a \o b
  PROVE  c \in Seq(S) /\ Elements(c) = Elements(a) \cup Elements(b)
<1>1. c \in Seq(S)
  OBVIOUS
<1>2. /\ Len(a) \in Nat /\ Len(b) \in Nat /\ Len(c) = Len(a) + Len(b)
      /\ DOMAIN a = 1..Len(a) /\ DOMAIN b = 1..Len(b) /\ DOMAIN c = 1..Len(a) + Len(b)
      /\ \A i \in 1..Len(a) : c[i] = a[i]
      /\ \A i \in 1..Len(b) : c[Len(a) + i] = b[i]
  OBVIOUS
<1>3. ASSUME NEW x \in Elements(c) PROVE x \in Elements(a) \cup Elements(b)
  <2>1. PICK i \in 1..Len(a) + Len(b) : x = c[i]
    BY <1>2, <1>3 DEF Elements
  <2>2. CASE i <= Len(a)
    BY <1>2, <2>1, <2>2 DEF Elements
  <2>3. CASE i > Len(a)
    <3>1. i - Len(a) \in 1..Len(b) /\ Len(a) + (i - Len(a)) = i
      BY <1>2, <2>3
    <3>2. c[Len(a) + (i - Len(a))] = b[i - Len(a)]
      BY <1>2, <3>1
    <3> QED
      BY <1>2, <2>1, <3>1, <3>2 DEF Elements
  <2> QED
    BY <1>2, <2>2, <2>3
<1>4. ASSUME NEW x \in Elements(a) \cup Elements(b) PROVE x \in Elements(c)
  <2>1. CASE x \in Elements(a)
    <3>1. PICK i \in 1..Len(a) : x = a[i]
      BY <1>2, <2>1 DEF Elements
    <3>2. i \in 1..Len(a) + Len(b) /\ c[i] = x
      BY <1>2, <3>1
    <3> QED
      BY <1>2, <3>2 DEF Elements
  <2>2. CASE x \in Elements(b)
    <3>1. PICK i \in 1..Len(b) : x = b[i]
      BY <1>2, <2>2 DEF Elements
    <3>2. Len(a) + i \in 1..Len(a) + Len(b) /\ c[Len(a) + i] = x
      BY <1>2, <3>1
    <3> QED
      BY <1>2, <3>2 DEF Elements
  <2> QED
    BY <1>4, <2>1, <2>2
<1> QED
  BY <1>1, <1>3, <1>4

LEMMA TailFacts ==
  ASSUME NEW S, NEW a \in Seq(S), a # <<>>
  PROVE  /\ Tail(a) \in Seq(S) /\ Head(a) \in S /\ Head(a) = a[1]
         /\ Len(a) \in Nat \ {0} /\ Len(Tail(a)) = Len(a) - 1
         /\ \A i \in 1..Len(a) - 1 : Tail(a)[i] = a[i + 1]
         /\ Elements(Tail(a)) \subseteq Elements(a)
<1>1. /\ Tail(a) \in Seq(S) /\ Head(a) = a[1]
      /\ Len(a) \in Nat \ {0} /\ Len(Tail(a)) = Len(a) - 1
      /\ \A i \in 1..Len(a) - 1 : Tail(a)[i] = a[i + 1]
  OBVIOUS
<1>2. Head(a) \in S
  BY <1>1
<1>3. ASSUME NEW x \in Elements(Tail(a)) PROVE x \in Elements(a)
  <2>1. PICK i \in 1..Len(a) - 1 : x = Tail(a)[i]
    BY <1>1, <1>3 DEF Elements
  <2>2. i + 1 \in DOMAIN a /\ x = a[i + 1]
    BY <1>1, <2>1
  <2> QED
    BY <2>2 DEF Elements
<1> QED
  BY <1>1, <1>2, <1>3

\* What is shown of an item is added to the scrollback.
LEMMA Shows ==
  ASSUME screen \in Seq(Events), NEW item \in Items, NEW whats \in Seq(Whats), Show(item, whats)
  PROVE  /\ screen' \in Seq(Events)
         /\ Elements(screen') = Elements(screen) \cup {Event(whats[k], item.id) : k \in 1..Len(whats)}
<1> DEFINE s == [k \in 1..Len(whats) |-> [what |-> whats[k], id |-> item.id]]
<1>1. \A k \in 1..Len(whats) : whats[k] \in Whats
  OBVIOUS
<1>6. item.id \in Markers
  BY DEF Items
<1>7. \A w \in Whats, m \in Markers : [what |-> w, id |-> m] \in Events
  BY DEF Events, Whats
<1>2. \A k \in 1..Len(whats) : [what |-> whats[k], id |-> item.id] \in Events
  BY <1>1, <1>6, <1>7
<1>3. s \in Seq(Events) /\ DOMAIN s = 1..Len(whats)
  BY <1>2
<1>4. Elements(s) = {Event(whats[k], item.id) : k \in 1..Len(whats)}
  BY <1>3 DEF Elements, Event
<1>5. screen' = screen \o s
  BY DEF Show
<1> HIDE DEF s
<1>8. screen' \in Seq(Events) /\ Elements(screen') = Elements(screen) \cup Elements(s)
  <2>1. s \in Seq(Events)
    BY <1>3
  <2>2. \A c : c = screen \o s => c \in Seq(Events) /\ Elements(c) = Elements(screen) \cup Elements(s)
    BY <2>1, ConcatElements
  <2> QED
    BY <1>5, <2>2
<1> QED
  BY <1>4, <1>8

\* Items and what stands for none.
LEMMA ItemFacts ==
  /\ \A k \in {"bootstrap", "command"}, m \in Markers, c \in Calls :
        LET item == [kind |-> k, id |-> m, call |-> c]
        IN  item \in Items /\ item.kind = k /\ item.id = m /\ item.call = c
  /\ \A item \in Items : /\ item.kind \in {"bootstrap", "command"} /\ item.id \in Markers
                          /\ item.call \in Calls
  /\ NoItem \notin Items /\ Human \notin Items
  /\ NoItem.kind = "none" /\ Human.kind = "human" /\ NoItem # Human
<1>1. \A k \in {"bootstrap", "command"}, m \in Markers, c \in Calls :
        [kind |-> k, id |-> m, call |-> c] \in Items
  BY DEF Items
<1>2. \A item \in Items : /\ item.kind \in {"bootstrap", "command"} /\ item.id \in Markers
                          /\ item.call \in Calls
  BY DEF Items
<1>3. NoItem.kind = "none" /\ Human.kind = "human"
  BY DEF NoItem, Human
<1> QED
  BY <1>1, <1>2, <1>3

\* A REPL that reads an item shows markers of this item only, and its END only if it
\* shows its ERROR.
ShownOf(item) ==
    /\ screen' \in Seq(Events) /\ Elements(screen) \subseteq Elements(screen')
    /\ \A e \in Elements(screen') \ Elements(screen) : \E w \in Whats : e = Event(w, item.id)

LEMMA ReadWhole ==
  ASSUME PaneTypes, NEW item \in Items, ReadsWhole(item)
  PROVE  /\ ShownOf(item)
         /\ Event("end", item.id) \in Elements(screen') => Event("end", item.id) \in Elements(screen)
         /\ running' = running \/ running' = item
         /\ item.kind = "bootstrap" => running' = item
         /\ ran' \in [Calls -> Nat] /\ rejected' \subseteq Markers
<1>1. \/ /\ Show(item, <<"echo", "undefined">>) /\ running' = running /\ ran' = ran
         /\ rejected' = rejected \cup {item.id} /\ item.kind = "command"
      \/ /\ Show(item, <<"echo", "begin">>) /\ running' = item /\ ran' = Started(item)
         /\ rejected' = rejected
  BY DEF ReadsWhole
<1>2. ASSUME NEW w \in {"undefined", "begin"}, Show(item, <<"echo", w>>)
      PROVE  /\ ShownOf(item)
             /\ Event("end", item.id) \in Elements(screen') => Event("end", item.id) \in Elements(screen)
  <2> DEFINE whats == <<"echo", w>>
  <2>1. whats \in Seq(Whats) /\ Len(whats) = 2 /\ whats[1] = "echo" /\ whats[2] = w
    BY <1>2 DEF Whats
  <2>2. Show(item, whats) /\ screen \in Seq(Events)
    BY <1>2 DEF PaneTypes
  <2> HIDE DEF whats
  <2>3. /\ screen' \in Seq(Events)
        /\ Elements(screen') = Elements(screen) \cup {Event(whats[k], item.id) : k \in 1..Len(whats)}
    BY <2>1, <2>2, Shows
  <2>4. {Event(whats[k], item.id) : k \in 1..Len(whats)} = {Event("echo", item.id), Event(w, item.id)}
    <3>1. 1..Len(whats) = {1, 2}
      BY <2>1
    <3> QED
      BY <2>1, <3>1
  <2>5. Event("end", item.id) \notin {Event("echo", item.id), Event(w, item.id)}
    BY <1>2 DEF Event
  <2>6. w \in Whats /\ "echo" \in Whats
    BY DEF Whats
  <2> QED
    BY <2>3, <2>4, <2>5, <2>6 DEF ShownOf
<1>3. Started(item) \in [Calls -> Nat]
  BY ItemFacts DEF Started, PaneTypes
<1>4. rejected \cup {item.id} \subseteq Markers
  BY ItemFacts DEF PaneTypes
<1> QED
  BY <1>1, <1>2, <1>3, <1>4 DEF PaneTypes

LEMMA ReadLines ==
  ASSUME PaneTypes, NEW item \in Items, ReadsAsLines(item)
  PROVE  /\ ShownOf(item) /\ running' = running
         /\ Event("end", item.id) \in Elements(screen') =>
               Event("end", item.id) \in Elements(screen) \/ Event("error", item.id) \in Elements(screen')
         /\ ran' \in [Calls -> Nat] /\ rejected' \subseteq Markers
<1>1. ASSUME NEW whats \in Seq(Whats), Show(item, whats),
             whats = <<"echo">> \/ whats = <<"echo", "begin", "error", "end">>
      PROVE  /\ ShownOf(item)
             /\ Event("end", item.id) \in Elements(screen') =>
                   Event("end", item.id) \in Elements(screen) \/ Event("error", item.id) \in Elements(screen')
  <2>1. /\ screen' \in Seq(Events)
        /\ Elements(screen') = Elements(screen) \cup {Event(whats[k], item.id) : k \in 1..Len(whats)}
    BY <1>1, Shows DEF PaneTypes
  <2>2. \A k \in 1..Len(whats) : whats[k] \in Whats
    OBVIOUS
  <2>3. CASE whats = <<"echo">>
    <3>1. \A k \in 1..Len(whats) : whats[k] = "echo"
      BY <2>3
    <3>2. Event("end", item.id) # Event("echo", item.id)
      BY DEF Event
    <3> QED
      BY <2>1, <2>2, <3>1, <3>2 DEF ShownOf
  <2>4. CASE whats = <<"echo", "begin", "error", "end">>
    <3>1. 3 \in 1..Len(whats) /\ whats[3] = "error"
      BY <2>4
    <3>2. Event("error", item.id) \in {Event(whats[k], item.id) : k \in 1..Len(whats)}
      BY <3>1
    <3> QED
      BY <2>1, <2>2, <3>2 DEF ShownOf
  <2> QED
    BY <1>1, <2>3, <2>4
<1>2. <<"echo">> \in Seq(Whats) /\ <<"echo", "begin", "error", "end">> \in Seq(Whats)
  BY DEF Whats
<1>3. Show(item, <<"echo">>) \/ Show(item, <<"echo", "begin", "error", "end">>)
  BY DEF ReadsAsLines
<1>4. ran' = Started(item) /\ running' = running /\ rejected' = rejected
  BY DEF ReadsAsLines
<1>5. Started(item) \in [Calls -> Nat]
  BY ItemFacts DEF Started, PaneTypes
<1> QED
  BY <1>1, <1>2, <1>3, <1>4, <1>5 DEF PaneTypes

-----------------------------------------------------------------------------
(* Types. *)

\* A step is one of these.
LEMMA Steps ==
  ASSUME [Next]_vars
  PROVE  \/ StartCall \/ Bind \/ ReadGeneration \/ SendBootstrap \/ SendCommand
         \/ PollBootstrap \/ BootstrapCaptureFails \/ PollCommand \/ Reinject \/ CaptureFails
         \/ ReplReads \/ ReplFinishes \/ HumanRuns \/ HumanFinishes \/ Restart \/ ReplFloods
         \/ UNCHANGED vars
  BY DEF Next, Server

LEMMA FoundTypes ==
  ASSUME ServerTypes, PaneTypes
  PROVE  Found \subseteq {"echo", "begin", "error", "end"}
<1>1. \A e \in Events : e.what \in Whats
  BY DEF Events, Whats
<1>2. \A i \in DOMAIN screen : screen[i] \in Events
  BY DEF PaneTypes
<1>3. FoundInCapture \subseteq {"echo", "begin", "error", "end"}
  BY <1>1, <1>2 DEF FoundInCapture, Whats
<1> QED
  BY <1>3 DEF Found, ServerTypes

LEMMA OneCached ==
  ASSUME NEW t PROVE Cardinality({t}) <= 1 /\ Cardinality({}) <= 1
<1>1. Cardinality({t}) = 1
  BY FS_Singleton
<1>2. Cardinality({}) = 0
  BY FS_EmptySet
<1> QED
  BY <1>1, <1>2

\* The numbers of a call.
LEMMA Numbers ==
  ASSUME ServerTypes, Counted
  PROVE  /\ call \in Nat /\ pass \in Nat /\ seq \in Nat /\ MaxMarkers \in Nat /\ 4 * call <= MaxMarkers
         /\ pc # "idle" => call \in Calls
         /\ pc \in {"bootstrap", "paste"} => seq + 1 \in Markers /\ seq + 1 <= 4 * call
<1>1. call \in 0..MaxCalls /\ pass \in 1..2 /\ seq \in 0..MaxMarkers /\ MaxCalls \in Nat
  BY BoundsAssumption DEF ServerTypes
<1>2. MaxMarkers = 4 * MaxCalls
  BY DEF MaxMarkers
<1>3. 4 * call <= MaxMarkers
  BY <1>1, <1>2
<1>4. pc # "idle" => call >= 1
  BY DEF Counted, Sent, ServerTypes
<1>5. pc \in {"bootstrap", "paste"} => call >= 1 /\ seq <= 4 * (call - 1) + 2 * (pass - 1) + 1
  BY <1>1 DEF Counted, Sent
<1>6. pc \in {"bootstrap", "paste"} => seq + 1 <= 4 * call
  BY <1>1, <1>5
<1> QED
  BY <1>1, <1>2, <1>3, <1>4, <1>6 DEF Calls, Markers

\* The end of a call.
LEMMA ReturnTypes ==
  ASSUME ServerTypes, Counted, pc # "idle", NEW o \in Outcomes, Return(o),
         call' = call, seq' \in 0..MaxMarkers, seq' <= 4 * call,
         cache' \subseteq Gens \cup {Unknown}, Cardinality(cache') <= 1, misled' = misled
  PROVE  ServerTypes' /\ Counted'
<1>1. /\ pc' = "idle" /\ outcome' = [outcome EXCEPT ![call] = o] /\ pass' = 1 /\ marker' = 0
      /\ token' = Unknown /\ seen' = {} /\ failures' = 0
  BY DEF Return
<1>2. outcome' \in [Calls -> Outcomes]
  BY <1>1 DEF ServerTypes
<1>3. seq' \in 0..MaxMarkers /\ marker' \in 0..MaxMarkers /\ marker' <= seq'
  BY <1>1, Numbers
<1>4. failures' \in 0..MaxCaptureFailures
  BY <1>1, BoundsAssumption
<1>5. ServerTypes'
  BY <1>1, <1>2, <1>3, <1>4 DEF ServerTypes
<1>6. Counted'
  BY <1>1 DEF Counted
<1> QED
  BY <1>5, <1>6

LEMMA SendTypes ==
  ASSUME ServerTypes, Counted, NEW kind, NEW next, Send(kind, next),
         \/ pc = "bootstrap" /\ next = "boot_poll"
         \/ pc = "paste" /\ next = "poll"
  PROVE  ServerTypes' /\ Counted'
<1>1. /\ seq' = seq + 1 /\ call' = call /\ cache' = cache /\ misled' = misled
      /\ \/ /\ pc' = next /\ marker' = seq + 1 /\ seen' = {} /\ failures' = 0
            /\ pass' = pass /\ token' = token /\ outcome' = outcome
         \/ Return("send_failed")
  BY DEF Send
<1>2. /\ call \in Nat /\ pass \in Nat /\ seq \in Nat /\ MaxMarkers \in Nat /\ 4 * call <= MaxMarkers
      /\ seq + 1 \in Markers /\ seq + 1 <= 4 * call
  BY Numbers
<1>3. CASE Return("send_failed")
  <2>1. seq' \in 0..MaxMarkers /\ seq' <= 4 * call
    BY <1>1, <1>2
  <2>2. "send_failed" \in Outcomes /\ pc # "idle"
    BY DEF Outcomes
  <2>3. cache' \subseteq Gens \cup {Unknown} /\ Cardinality(cache') <= 1
    BY <1>1 DEF ServerTypes
  <2> QED
    BY <1>1, <1>3, <2>1, <2>2, <2>3, ReturnTypes
<1>4. CASE /\ pc' = next /\ marker' = seq + 1 /\ seen' = {} /\ failures' = 0
           /\ pass' = pass /\ token' = token /\ outcome' = outcome
  <2>1. seq' \in 0..MaxMarkers /\ marker' \in 0..MaxMarkers /\ marker' <= seq' /\ failures' \in 0..MaxCaptureFailures
    BY <1>1, <1>2, <1>4, BoundsAssumption DEF Markers
  <2>2. ServerTypes'
    BY <1>1, <1>4, <2>1 DEF ServerTypes
  <2>3. /\ pc = "bootstrap" => Sent(0)
        /\ pc = "paste" => Sent(1)
    BY DEF Counted
  <2>4. seq' <= 4 * call'
    BY <1>1, <1>2
  <2>5. /\ pc = "bootstrap" => Sent(1)'
        /\ pc = "paste" => Sent(2)'
    BY <1>1, <1>2, <1>4, <2>3 DEF Sent
  <2> QED
    BY <1>4, <2>2, <2>4, <2>5 DEF Counted
<1> QED
  BY <1>1, <1>3, <1>4

\* The server keeps its types and its count.
LEMMA ServerStep ==
  ASSUME ServerTypes, PaneTypes, Counted, [Next]_vars
  PROVE  ServerTypes' /\ Counted'
<1>0. /\ cache \subseteq Gens \cup {Unknown} /\ Cardinality(cache) <= 1
      /\ seq \in 0..MaxMarkers /\ seq <= 4 * call
  BY DEF ServerTypes, Counted
<1>13. {"ok", "julia_error", "timed_out", "not_installed", "capture_failed"} \subseteq Outcomes
  BY DEF Outcomes
<1>1. CASE StartCall
  <2>1. /\ pc = "idle" /\ call < MaxCalls /\ call' = call + 1
        /\ \/ pc' = "ensure" /\ outcome' = outcome
           \/ pc' = "idle" /\ outcome' = [outcome EXCEPT ![call'] = "refused"]
        /\ UNCHANGED <<seq, cache, misled, pass, marker, token, seen, failures>>
    BY <1>1 DEF StartCall, evalVars
  <2>2. call' \in 0..MaxCalls /\ call' >= 1 /\ seq' <= 4 * (call' - 1) /\ seq' <= 4 * call'
    BY <2>1, <1>0, Numbers, BoundsAssumption DEF ServerTypes
  <2>3. outcome' \in [Calls -> Outcomes]
    BY <2>1 DEF ServerTypes, Outcomes
  <2>4. ServerTypes'
    BY <2>1, <2>2, <2>3 DEF ServerTypes
  <2>5. Sent(0)'
    BY <2>1, <2>2, Numbers DEF Sent, ServerTypes
  <2> QED
    BY <2>1, <2>2, <2>4, <2>5 DEF Counted
<1>2. CASE Bind
  BY <1>2, OneCached DEF Bind, evalVars, ServerTypes, Counted, Sent
<1>3. CASE ReadGeneration
  <2>1. /\ pc = "ensure" /\ UNCHANGED <<call, pass, seq, marker, cache, seen, failures, outcome>>
        /\ pc' = "paste" \/ pc' = "bootstrap"
        /\ token' \in {token, gen, Unknown} /\ misled' \in {misled, misled \cup {call}}
    BY <1>3 DEF ReadGeneration
  <2>2. gen \in Gens
    BY BoundsAssumption DEF PaneTypes, Gens
  <2>5. misled' \subseteq Calls
    BY <2>1, Numbers DEF ServerTypes
  <2>3. ServerTypes'
    BY <2>1, <2>2, <2>5 DEF ServerTypes
  <2>4. Sent(0)' /\ Sent(1)'
    BY <2>1, Numbers DEF Counted, Sent
  <2> QED
    BY <2>1, <2>3, <2>4, <1>0 DEF Counted
<1>4. CASE SendBootstrap
  BY <1>4, SendTypes DEF SendBootstrap
<1>5. CASE SendCommand
  BY <1>5, SendTypes DEF SendCommand
<1>6. ASSUME NEW o \in Outcomes, pc # "idle", Return(o), UNCHANGED <<call, seq, cache, misled>>
      PROVE ServerTypes' /\ Counted'
  BY <1>0, <1>6, ReturnTypes
<1>7. CASE PollBootstrap
  <2>1. pc = "boot_poll" /\ UNCHANGED <<call, seq, misled>>
    BY <1>7 DEF PollBootstrap
  <2>2. CASE /\ pc' = "paste" /\ cache' = {token} /\ marker' = 0 /\ token' = Unknown /\ seen' = {}
             /\ UNCHANGED <<pass, failures, outcome>>
    <3>1. marker' \in 0..MaxMarkers /\ marker' <= seq'
      BY <2>1, <2>2, <1>0, Numbers
    <3>2. ServerTypes'
      BY <2>1, <2>2, <3>1, OneCached DEF ServerTypes
    <3> QED
      BY <2>1, <2>2, <3>2 DEF Counted, Sent
  <2>3. CASE Return("not_installed") /\ cache' = cache
    BY <2>1, <2>3, <1>13, <1>6
  <2>4. CASE /\ seen' = Found /\ UNCHANGED <<pc, pass, marker, token, outcome, failures, cache>>
    BY <2>1, <2>4, FoundTypes DEF ServerTypes, Counted, Sent
  <2> QED
    BY <1>7, <2>2, <2>3, <2>4 DEF PollBootstrap, MarkInstalled, KeepPolling
<1>8. CASE BootstrapCaptureFails
  BY <1>8, <1>13, <1>6 DEF BootstrapCaptureFails
<1>9. CASE PollCommand
  <2>1. pc = "poll" /\ UNCHANGED <<call, seq, cache, misled>>
    BY <1>9 DEF PollCommand
  <2>2. ASSUME NEW o \in {"ok", "julia_error", "timed_out"}, Return(o) PROVE ServerTypes' /\ Counted'
    BY <2>1, <2>2, <1>13, <1>6
  <2>3. CASE /\ seen' = Found /\ UNCHANGED <<pc, pass, marker, token, outcome>> /\ failures' = 0
    <3>1. failures' \in 0..MaxCaptureFailures
      BY <2>3, BoundsAssumption
    <3> QED
      BY <2>1, <2>3, <3>1, FoundTypes DEF ServerTypes, Counted, Sent
  <2> QED
    BY <1>9, <2>2, <2>3 DEF PollCommand, KeepPolling
<1>10. CASE Reinject
  <2>1. /\ pc = "poll" /\ pass = 1 /\ cache' = {} /\ pass' = 2 /\ pc' = "ensure"
        /\ marker' = 0 /\ token' = Unknown /\ seen' = {} /\ failures' = 0
        /\ UNCHANGED <<call, seq, outcome, misled>>
    BY <1>10 DEF Reinject, Detects
  <2>2. marker' \in 0..MaxMarkers /\ marker' <= seq' /\ failures' \in 0..MaxCaptureFailures
    BY <2>1, <1>0, Numbers, BoundsAssumption
  <2>5. Cardinality({}) <= 1
    BY OneCached
  <2>3. ServerTypes'
    <3>1. cache' \subseteq Gens \cup {Unknown} /\ Cardinality(cache') <= 1
      BY <2>1, <2>5
    <3> QED
      BY <2>1, <2>2, <3>1 DEF ServerTypes
  <2>4. Sent(0)'
    BY <2>1, Numbers DEF Counted, Sent
  <2> QED
    BY <2>1, <2>3, <2>4, <1>0 DEF Counted
<1>11. CASE CaptureFails
  <2>1. pc = "poll" /\ UNCHANGED <<call, seq, cache, misled>>
    BY <1>11 DEF CaptureFails
  <2>2. ASSUME NEW o \in {"timed_out", "capture_failed"}, Return(o) PROVE ServerTypes' /\ Counted'
    BY <2>1, <2>2, <1>13, <1>6
  <2>3. CASE /\ failures < MaxCaptureFailures /\ failures' = failures + 1
             /\ UNCHANGED <<pc, pass, marker, token, seen, outcome>>
    <3>1. failures' \in 0..MaxCaptureFailures
      BY <2>3, BoundsAssumption DEF ServerTypes
    <3> QED
      BY <2>1, <2>3, <3>1 DEF ServerTypes, Counted, Sent
  <2> QED
    BY <1>11, <2>2, <2>3 DEF CaptureFails
<1>12. CASE ReplReads \/ ReplFinishes \/ HumanRuns \/ HumanFinishes \/ Restart \/ ReplFloods \/ UNCHANGED vars
  <2>1. UNCHANGED serverVars
    BY <1>12 DEF ReplReads, ReplFinishes, HumanRuns, HumanFinishes, Restart, ReplFloods, vars
  <2> QED
    BY <2>1 DEF serverVars, evalVars, ServerTypes, Counted, Sent
<1> QED
  BY Steps, <1>1, <1>2, <1>3, <1>4, <1>5, <1>7, <1>8, <1>9, <1>10, <1>11, <1>12

\* What a paste does to the pane: the item is read at once, or waits.
LEMMA Pastes ==
  ASSUME PaneTypes, NEW item \in Items, Paste(item)
  PROVE  \/ /\ running = NoItem /\ input = <<>> /\ input' = <<>> /\ ReadsWhole(item)
         \/ /\ ~Idle /\ input' = Append(input, item) /\ UNCHANGED <<running, ran, rejected>>
            /\ ShownOf(item)
            /\ Event("end", item.id) \in Elements(screen') => Event("end", item.id) \in Elements(screen)
<1>1. CASE Idle /\ ReadsWhole(item) /\ UNCHANGED input
  BY <1>1 DEF Idle
<1>2. CASE ~Idle /\ input' = Append(input, item) /\ UNCHANGED <<running, ran, rejected>> /\ UNCHANGED screen
  BY <1>2 DEF ShownOf, PaneTypes
<1>3. CASE /\ ~Idle /\ input' = Append(input, item) /\ UNCHANGED <<running, ran, rejected>>
           /\ Show(item, <<"echo">>)
  <2>1. <<"echo">> \in Seq(Whats) /\ Len(<<"echo">>) = 1 /\ <<"echo">>[1] = "echo" /\ "echo" \in Whats
    BY DEF Whats
  <2>2. /\ screen' \in Seq(Events)
        /\ Elements(screen') = Elements(screen) \cup {Event(<<"echo">>[k], item.id) : k \in 1..Len(<<"echo">>)}
    BY <1>3, <2>1, Shows DEF PaneTypes
  <2>3. {Event(<<"echo">>[k], item.id) : k \in 1..Len(<<"echo">>)} = {Event("echo", item.id)}
    BY <2>1
  <2>4. Event("end", item.id) # Event("echo", item.id)
    BY DEF Event
  <2> QED
    BY <1>3, <2>1, <2>2, <2>3, <2>4 DEF ShownOf
<1> QED
  BY <1>1, <1>2, <1>3 DEF Paste

\* What a send does to the pane: its item is pasted, or nothing.
LEMMA Sends ==
  ASSUME ServerTypes, Counted, pc \in {"bootstrap", "paste"},
         NEW kind \in {"bootstrap", "command"}, NEW next, Send(kind, next)
  PROVE  \E item \in Items :
            /\ item.kind = kind /\ item.id = seq + 1
            /\ Paste(item) \/ (pc' = "idle" /\ UNCHANGED <<input, screen, running, ran, rejected>>)
            /\ UNCHANGED <<lineByLine, gen, runtime, done, cache>> /\ seq' = seq + 1
            /\ pc' = "idle" \/ (pc' = next /\ marker' = seq + 1 /\ seen' = {} /\ token' = token)
<1> DEFINE item == [kind |-> kind, id |-> seq + 1, call |-> call]
<1>1. seq + 1 \in Markers /\ call \in Calls
  BY Numbers
<1>2. item \in Items /\ item.kind = kind /\ item.id = seq + 1
  BY <1>1, ItemFacts
<1>3. /\ Paste(item) \/ (pc' = "idle" /\ UNCHANGED <<input, screen, running, ran, rejected>>)
      /\ UNCHANGED <<lineByLine, gen, runtime, done, cache>> /\ seq' = seq + 1
      /\ pc' = "idle" \/ (pc' = next /\ marker' = seq + 1 /\ seen' = {} /\ token' = token)
  BY DEF Send, Return
<1> HIDE DEF item
<1> QED
  BY <1>2, <1>3

\* What the REPL shows when an item ends.
LEMMA Finishes ==
  ASSUME PaneTypes, ReplFinishes
  PROVE  /\ running \in Items /\ running' = NoItem /\ input' = input /\ ShownOf(running)
         /\ \/ Event("error", running.id) \in Elements(screen') /\ runtime' = runtime
            \/ runtime' = (runtime \/ running.kind = "bootstrap")
<1>1. PICK error \in BOOLEAN :
        /\ screen' = screen \o [k \in 1..(IF error THEN 2 ELSE 1) |->
                          [what |-> IF error /\ k = 1 THEN "error" ELSE "end", id |-> running.id]]
        /\ runtime' = (runtime \/ (running.kind = "bootstrap" /\ ~error))
  BY DEF ReplFinishes
<1>2. running \in Items /\ running' = NoItem /\ input' = input
  BY DEF ReplFinishes
<1>3. CASE error
  <2> DEFINE whats == <<"error", "end">>
  <2>1. whats \in Seq(Whats) /\ Len(whats) = 2 /\ whats[1] = "error" /\ whats[2] = "end"
    BY DEF Whats
  <2>2. screen' = screen \o [k \in 1..2 |-> [what |-> IF k = 1 THEN "error" ELSE "end", id |-> running.id]]
    BY <1>1, <1>3
  <2>3. \A k \in 1..2 : whats[k] = IF k = 1 THEN "error" ELSE "end"
    BY <2>1
  <2> HIDE DEF whats
  <2>4. Show(running, whats)
    BY <2>1, <2>2, <2>3 DEF Show
  <2>5. /\ screen' \in Seq(Events)
        /\ Elements(screen') = Elements(screen) \cup {Event(whats[k], running.id) : k \in 1..Len(whats)}
    BY <1>2, <2>1, <2>4, Shows DEF PaneTypes
  <2>6. 1 \in 1..Len(whats) /\ \A k \in 1..Len(whats) : whats[k] \in Whats
    BY <2>1
  <2>7. ShownOf(running)
    BY <2>5, <2>6 DEF ShownOf
  <2>8. Event("error", running.id) \in Elements(screen')
    BY <2>1, <2>5, <2>6
  <2>9. runtime' = runtime
    BY <1>1, <1>3 DEF PaneTypes
  <2> QED
    BY <1>2, <2>7, <2>8, <2>9
<1>4. CASE ~error
  <2> DEFINE whats == <<"end">>
  <2>1. whats \in Seq(Whats) /\ Len(whats) = 1 /\ whats[1] = "end"
    BY DEF Whats
  <2>2. screen' = screen \o [k \in 1..1 |-> [what |-> "end", id |-> running.id]]
    BY <1>1, <1>4
  <2> HIDE DEF whats
  <2>4. Show(running, whats)
    BY <2>1, <2>2 DEF Show
  <2>5. /\ screen' \in Seq(Events)
        /\ Elements(screen') = Elements(screen) \cup {Event(whats[k], running.id) : k \in 1..Len(whats)}
    BY <1>2, <2>1, <2>4, Shows DEF PaneTypes
  <2>6. \A k \in 1..Len(whats) : whats[k] \in Whats
    BY <2>1
  <2>7. ShownOf(running)
    BY <2>5, <2>6 DEF ShownOf
  <2>8. runtime' = (runtime \/ running.kind = "bootstrap")
    BY <1>1, <1>4
  <2> QED
    BY <1>2, <2>7, <2>8
<1> QED
  BY <1>1, <1>3, <1>4

\* The pane keeps its types.
LEMMA PaneStep ==
  ASSUME ServerTypes, PaneTypes, Counted, [Next]_vars
  PROVE  PaneTypes'
<1>1. ASSUME NEW item \in Items, Paste(item), UNCHANGED <<lineByLine, gen, runtime, done>>
      PROVE  PaneTypes'
  <2>1. CASE running = NoItem /\ input = <<>> /\ input' = <<>> /\ ReadsWhole(item)
    <3>1. /\ screen' \in Seq(Events) /\ running' \in Items \cup {NoItem, Human}
          /\ ran' \in [Calls -> Nat] /\ rejected' \subseteq Markers
      BY <1>1, <2>1, ReadWhole DEF ShownOf, PaneTypes
    <3> QED
      BY <1>1, <2>1, <3>1 DEF PaneTypes
  <2>2. CASE input' = Append(input, item) /\ UNCHANGED <<running, ran, rejected>> /\ ShownOf(item)
    <3>1. input' \in Seq(Items)
      BY <2>2 DEF PaneTypes
    <3> QED
      BY <1>1, <2>2, <3>1 DEF PaneTypes, ShownOf
  <2> QED
    BY <1>1, <2>1, <2>2, Pastes
<1>2. CASE UNCHANGED paneVars
  BY <1>2 DEF paneVars, PaneTypes
<1>3. ASSUME pc \in {"bootstrap", "paste"}, NEW kind \in {"bootstrap", "command"}, NEW next,
             Send(kind, next)
      PROVE PaneTypes'
  <2>1. PICK item \in Items :
            /\ Paste(item) \/ UNCHANGED <<input, screen, running, ran, rejected>>
            /\ UNCHANGED <<lineByLine, gen, runtime, done>>
    BY <1>3, Sends
  <2>2. CASE UNCHANGED <<input, screen, running, ran, rejected>>
    BY <2>1, <2>2 DEF PaneTypes
  <2> QED
    BY <2>1, <2>2, <1>1
<1>4. CASE SendBootstrap \/ SendCommand
  BY <1>3, <1>4 DEF SendBootstrap, SendCommand
<1>5. CASE StartCall \/ Bind \/ ReadGeneration \/ PollBootstrap \/ BootstrapCaptureFails \/ PollCommand
           \/ Reinject \/ CaptureFails \/ UNCHANGED vars
  BY <1>2, <1>5 DEF StartCall, Bind, ReadGeneration, PollBootstrap, BootstrapCaptureFails, PollCommand,
     Reinject, CaptureFails, vars
<1>6. CASE ReplReads
  <2>1. /\ input # <<>> /\ input' = Tail(input) /\ UNCHANGED <<lineByLine, gen, runtime, done>>
        /\ ReadsAsLines(Head(input)) \/ ReadsWhole(Head(input))
    BY <1>6 DEF ReplReads
  <2>2. Head(input) \in Items /\ input' \in Seq(Items)
    BY <2>1, TailFacts DEF PaneTypes
  <2>3. /\ screen' \in Seq(Events) /\ running' \in Items \cup {NoItem, Human}
        /\ ran' \in [Calls -> Nat] /\ rejected' \subseteq Markers
    BY <2>1, <2>2, ReadWhole, ReadLines DEF ShownOf, PaneTypes
  <2> QED
    BY <2>1, <2>2, <2>3 DEF PaneTypes
<1>7. CASE ReplFinishes
  <2>1. /\ running \in Items /\ running' = NoItem /\ input' = input /\ screen' \in Seq(Events)
    BY <1>7, Finishes DEF ShownOf
  <2>3. runtime' \in BOOLEAN
    BY <1>7, Finishes DEF PaneTypes
  <2>4. done' \in {done, done \cup {running.call}} /\ UNCHANGED <<lineByLine, gen, ran, rejected>>
    BY <1>7 DEF ReplFinishes
  <2>2. runtime' \in BOOLEAN /\ done' \subseteq Calls /\ UNCHANGED <<lineByLine, gen, ran, rejected>>
    BY <2>1, <2>3, <2>4, ItemFacts DEF PaneTypes
  <2> QED
    BY <2>1, <2>2 DEF PaneTypes
<1>8. CASE HumanRuns
  BY <1>8 DEF HumanRuns, PaneTypes, Idle
<1>9. CASE HumanFinishes
  BY <1>9 DEF HumanFinishes, PaneTypes
<1>10. CASE Restart
  <2>1. gen' \in 1..MaxGen[lineByLine]
    <3> DEFINE n == MaxGen[lineByLine]
    <3>1. lineByLine \in BOOLEAN /\ MaxGen \in [BOOLEAN -> Nat \ {0}]
      BY BoundsAssumption DEF PaneTypes
    <3>2. n \in Nat \ {0}
      BY Zenon, <3>1
    <3>3. gen \in 1..n /\ gen < n /\ gen' = gen + 1
      BY <1>10 DEF Restart, PaneTypes
    <3> HIDE DEF n
    <3>4. gen' \in 1..n
      BY <3>2, <3>3
    <3> QED
      BY <3>4 DEF n
  <2>2. input' \in Seq(Items)
    <3>1. input' = input \/ input' = <<>>
      BY <1>10 DEF Restart
    <3>2. input \in Seq(Items) /\ <<>> \in Seq(Items)
      BY DEF PaneTypes
    <3> QED
      BY <3>1, <3>2
  <2>3. /\ lineByLine' = lineByLine /\ runtime' = FALSE /\ running' = NoItem
        /\ UNCHANGED <<screen, ran, done, rejected>>
    BY <1>10 DEF Restart
  <2>4. gen' \in 1..MaxGen[lineByLine']
    BY Zenon, <2>1, <2>3
  <2>5. lineByLine' \in BOOLEAN /\ runtime' \in BOOLEAN
    BY <2>3 DEF PaneTypes
  <2> QED
    BY <2>2, <2>3, <2>4, <2>5 DEF PaneTypes
<1>11. CASE ReplFloods
  <2>1. /\ screen # <<>> /\ screen' = Tail(screen)
        /\ UNCHANGED <<lineByLine, gen, runtime, input, running, ran, done, rejected>>
    BY <1>11 DEF ReplFloods
  <2>2. screen' \in Seq(Events)
    BY <2>1, TailFacts DEF PaneTypes
  <2> QED
    BY <2>1, <2>2 DEF PaneTypes
<1> QED
  BY Steps, <1>4, <1>5, <1>6, <1>7, <1>8, <1>9, <1>10, <1>11

-----------------------------------------------------------------------------
(* The cache. *)

\* Items wait and run in the order of their ids, and nothing is shown of one not sent.
Ids ==
    /\ \A e \in Elements(screen) : e.id <= seq
    /\ \A i \in 1..Len(input) : input[i].id <= seq
    /\ \A i, j \in 1..Len(input) : i < j => input[i].id < input[j].id
    /\ running \in Items => running.id <= seq /\ \A i \in 1..Len(input) : running.id < input[i].id

\* No generation is known before it lives.
Generations == token <= gen /\ \A g \in cache : g <= gen

\* Where a bootstrap is that has not installed the runtime in the REPL it was meant for.
EndFound == "end" \in seen \/ Event("end", marker) \in Elements(screen)
ErrorFound == "error" \in seen \/ Event("error", marker) \in Elements(screen)
Waits ==
    /\ input # <<>> /\ input[Len(input)].kind = "bootstrap" /\ input[Len(input)].id = marker
    /\ ~EndFound
Runs ==
    /\ running \in Items /\ running.kind = "bootstrap" /\ running.id = marker
    /\ input = <<>> /\ ~EndFound
Fails == running \notin Items /\ input = <<>> /\ (EndFound => ErrorFound)
Boot == pc = "boot_poll" /\ token = gen /\ ~runtime => Waits \/ Runs \/ Fails

IInv == TypeOK /\ Counted /\ Ids /\ Generations /\ Boot /\ CacheSound

LEMMA FoundIs ==
  ASSUME PaneTypes
  PROVE  ("end" \in Found <=> EndFound) /\ ("error" \in Found <=> ErrorFound)
<1>1. ASSUME NEW w \in {"end", "error"} PROVE w \in FoundInCapture <=> Event(w, marker) \in Elements(screen)
  <2>1. \A i \in DOMAIN screen : screen[i] \in Events
    BY DEF PaneTypes
  <2>2. \A e \in Events : e.what = w /\ e.id = marker <=> e = Event(w, marker)
    BY DEF Events, Event
  <2>3. w \in FoundInCapture <=> \E i \in DOMAIN screen : screen[i].id = marker /\ screen[i].what = w
    BY <1>1 DEF FoundInCapture
  <2> QED
    BY <2>1, <2>2, <2>3 DEF Elements
<1>2. ("end" \in FoundInCapture <=> Event("end", marker) \in Elements(screen))
      /\ ("error" \in FoundInCapture <=> Event("error", marker) \in Elements(screen))
  BY <1>1
<1> QED
  BY <1>2 DEF Found, EndFound, ErrorFound

\* Ids are given out in order, and so items are read and run.
LEMMA IdsStep ==
  ASSUME ServerTypes, PaneTypes, Counted, Ids, [Next]_vars
  PROVE  Ids'
<1>0. seq \in Nat /\ input \in Seq(Items) /\ Len(input) \in Nat
      /\ \A i \in 1..Len(input) : input[i] \in Items /\ input[i].id \in Nat
  <2>1. seq \in Nat
    BY Numbers
  <2>2. input \in Seq(Items)
    BY DEF PaneTypes
  <2>3. \A x \in Items : x.id \in Nat
    BY Numbers, ItemFacts DEF Markers
  <2> QED
    BY <2>1, <2>2, <2>3
<1>11. \A e \in Elements(screen) : e.id \in Nat
  <2>1. \A e \in Events : e.id \in Nat
    BY Numbers DEF Events, Markers
  <2>2. \A i \in DOMAIN screen : screen[i] \in Events
    BY DEF PaneTypes
  <2> QED
    BY <2>1, <2>2 DEF Elements
<1>1. ASSUME NEW item \in Items, NEW n \in Nat, ShownOf(item), item.id <= n, seq <= n
      PROVE  \A e \in Elements(screen') : e.id <= n
  <2>2. \A e \in Elements(screen) : e.id <= n
    BY <1>0, <1>1, <1>11 DEF Ids
  <2>3. \A w \in Whats : Event(w, item.id).id = item.id
    BY DEF Event
  <2>4. ASSUME NEW e \in Elements(screen'), e \notin Elements(screen) PROVE e.id <= n
    BY <1>1, <2>3, <2>4 DEF ShownOf
  <2> QED
    BY <2>2, <2>4
<1>2. CASE UNCHANGED <<seq, screen, input, running>>
  BY <1>2 DEF Ids
<1>3. ASSUME pc \in {"bootstrap", "paste"}, NEW kind \in {"bootstrap", "command"}, NEW next,
             Send(kind, next)
      PROVE Ids'
  <2>1. PICK item \in Items :
            /\ item.kind = kind /\ item.id = seq + 1
            /\ Paste(item) \/ (pc' = "idle" /\ UNCHANGED <<input, screen, running, ran, rejected>>)
            /\ seq' = seq + 1
    BY <1>3, Sends
  <2>2. CASE UNCHANGED <<input, screen, running, ran, rejected>>
    <3>2. \A e \in Elements(screen') : e.id <= seq'
      BY <1>0, <1>11, <2>1, <2>2 DEF Ids
    <3>3. running \in Items => running.id \in Nat
      BY Numbers, ItemFacts DEF Markers
    <3> QED
      BY <1>0, <2>1, <2>2, <3>2, <3>3 DEF Ids
  <2>3. CASE running = NoItem /\ input = <<>> /\ input' = <<>> /\ ReadsWhole(item)
    <3>1. ShownOf(item) /\ (running' = NoItem \/ running' = item)
      BY <2>3, ReadWhole
    <3>2. \A e \in Elements(screen') : e.id <= seq'
      BY <1>0, <1>1, <2>1, <3>1
    <3>3. running' \in Items => running'.id <= seq'
      BY <1>0, <2>1, <3>1, ItemFacts
    <3> QED
      BY <2>3, <3>2, <3>3 DEF Ids
  <2>4. CASE input' = Append(input, item) /\ running' = running /\ ShownOf(item)
    <3>1. \A e \in Elements(screen') : e.id <= seq'
      BY <1>0, <1>1, <2>1, <2>4
    <3>2. /\ Len(input') = Len(input) + 1 /\ input'[Len(input) + 1] = item
          /\ \A i \in 1..Len(input) : input'[i] = input[i]
      BY <1>0, <2>4
    <3>3. \A i \in 1..Len(input') : i \in 1..Len(input) \/ i = Len(input) + 1
      BY <1>0, <3>2
    <3>4. \A i \in 1..Len(input) : input'[i].id <= seq
      BY <3>2 DEF Ids
    <3>5. \A i \in 1..Len(input') : input'[i].id <= seq'
      BY <1>0, <2>1, <3>2, <3>3, <3>4
    <3>6. \A i, j \in 1..Len(input') : i < j => input'[i].id < input'[j].id
      <4> SUFFICES ASSUME NEW i \in 1..Len(input'), NEW j \in 1..Len(input'), i < j
                   PROVE  input'[i].id < input'[j].id
        OBVIOUS
      <4>1. CASE j = Len(input) + 1
        <5>1. i \in 1..Len(input)
          BY <1>0, <3>2, <4>1
        <5>2. input'[i].id \in Nat /\ input'[i].id <= seq
          BY <1>0, <3>2, <3>4, <5>1
        <5> QED
          BY <1>0, <2>1, <3>2, <4>1, <5>2
      <4>2. CASE j # Len(input) + 1
        <5>1. i \in 1..Len(input) /\ j \in 1..Len(input)
          BY <1>0, <3>2, <3>3, <4>2
        <5> QED
          BY <3>2, <5>1 DEF Ids
      <4> QED
        BY <4>1, <4>2
    <3>7. running \in Items => running.id \in Nat
      BY Numbers, ItemFacts DEF Markers
    <3>8. running' \in Items => running'.id <= seq' /\ \A i \in 1..Len(input') : running'.id < input'[i].id
      <4> SUFFICES ASSUME running \in Items
                   PROVE  running.id <= seq' /\ \A i \in 1..Len(input') : running.id < input'[i].id
        BY <2>4
      <4>1. running.id \in Nat /\ running.id <= seq
        BY <3>7 DEF Ids
      <4>2. \A i \in 1..Len(input) : running.id < input'[i].id
        BY <3>2 DEF Ids
      <4>3. running.id < seq + 1
        BY <1>0, <4>1
      <4> QED
        BY <1>0, <2>1, <3>2, <3>3, <4>1, <4>2, <4>3
    <3> QED
      BY <3>1, <3>5, <3>6, <3>8 DEF Ids
  <2> QED
    BY <2>1, <2>2, <2>3, <2>4, Pastes
<1>4. CASE SendBootstrap \/ SendCommand
  BY <1>3, <1>4 DEF SendBootstrap, SendCommand
<1>5. CASE \/ StartCall \/ Bind \/ ReadGeneration \/ PollBootstrap \/ BootstrapCaptureFails \/ PollCommand
           \/ Reinject \/ CaptureFails \/ UNCHANGED vars
  BY <1>2, <1>5 DEF StartCall, Bind, ReadGeneration, PollBootstrap, BootstrapCaptureFails, PollCommand,
     Reinject, CaptureFails, vars, serverVars, paneVars
<1>6. CASE ReplReads
  <2>1. /\ running = NoItem /\ input # <<>> /\ input' = Tail(input) /\ seq' = seq
        /\ ReadsAsLines(Head(input)) \/ ReadsWhole(Head(input))
    BY <1>6 DEF ReplReads, serverVars
  <2>2. /\ Head(input) \in Items /\ Head(input) = input[1] /\ Len(input) \in Nat \ {0}
        /\ Len(input') = Len(input) - 1 /\ \A i \in 1..Len(input) - 1 : input'[i] = input[i + 1]
    BY <1>0, <2>1, TailFacts
  <2>3. ShownOf(Head(input)) /\ (running' = NoItem \/ running' = Head(input))
    BY <2>1, <2>2, ReadWhole, ReadLines
  <2>4. 1 \in 1..Len(input) /\ input[1].id <= seq
    BY <2>2 DEF Ids
  <2>5. \A e \in Elements(screen') : e.id <= seq'
    BY <1>0, <1>1, <2>1, <2>2, <2>3, <2>4
  <2>6. \A i \in 1..Len(input') : i + 1 \in 1..Len(input) /\ 1 < i + 1
    BY <2>2
  <2>7. \A i \in 1..Len(input') : input'[i].id <= seq' /\ input[1].id < input'[i].id
    BY <2>1, <2>2, <2>4, <2>6 DEF Ids
  <2>8. \A i, j \in 1..Len(input') : i < j => input'[i].id < input'[j].id
    <3> SUFFICES ASSUME NEW i \in 1..Len(input'), NEW j \in 1..Len(input'), i < j
                   PROVE  input'[i].id < input'[j].id
      OBVIOUS
    <3>1. i + 1 < j + 1 /\ i + 1 \in 1..Len(input) /\ j + 1 \in 1..Len(input)
      BY <2>2, <2>6
    <3>2. input[i + 1].id < input[j + 1].id
      BY <3>1 DEF Ids
    <3> QED
      BY <2>2, <3>2
  <2>9. running' \in Items => running' = input[1]
    BY <2>2, <2>3, ItemFacts
  <2> QED
    BY <2>1, <2>4, <2>5, <2>7, <2>8, <2>9 DEF Ids
<1>7. CASE ReplFinishes
  <2>1. running \in Items /\ running' = NoItem /\ input' = input /\ ShownOf(running) /\ seq' = seq
    BY <1>7, Finishes DEF ReplFinishes, serverVars
  <2>2. \A e \in Elements(screen') : e.id <= seq'
    BY <1>0, <1>1, <2>1 DEF Ids
  <2> QED
    BY <2>1, <2>2, ItemFacts DEF Ids
<1>8. CASE HumanRuns \/ HumanFinishes
  <2>1. running' \in {NoItem, Human} /\ input' = input /\ screen' = screen /\ seq' = seq
    BY <1>8 DEF HumanRuns, HumanFinishes, serverVars, Idle
  <2> QED
    BY <2>1, ItemFacts DEF Ids
<1>9. CASE Restart
  <2>1. running' = NoItem /\ (input' = input \/ input' = <<>>) /\ screen' = screen /\ seq' = seq
    BY <1>9 DEF Restart, serverVars
  <2> QED
    BY <2>1, ItemFacts DEF Ids
<1>10. CASE ReplFloods
  <2>1. screen # <<>> /\ screen' = Tail(screen) /\ UNCHANGED <<input, running>> /\ seq' = seq
    BY <1>10 DEF ReplFloods, serverVars
  <2>2. Elements(screen') \subseteq Elements(screen)
    BY <2>1, TailFacts DEF PaneTypes
  <2> QED
    BY <2>1, <2>2 DEF Ids
<1> QED
  BY Steps, <1>4, <1>5, <1>6, <1>7, <1>8, <1>9, <1>10

\* No generation is known before it lives.
LEMMA GenerationsStep ==
  ASSUME ServerTypes, PaneTypes, Counted, Generations, [Next]_vars
  PROVE  Generations'
<1>1. /\ gen \in Nat /\ gen >= 1 /\ token \in Nat /\ Unknown = 0
      /\ \A g \in cache : g \in Nat
  <2>1. gen \in Nat /\ gen >= 1
    BY BoundsAssumption DEF PaneTypes
  <2>2. token \in Nat /\ Unknown = 0 /\ \A g \in cache : g \in Nat
    BY DEF ServerTypes, Gens, Unknown
  <2> QED
    BY <2>1, <2>2
<1>2. /\ gen' = gen \/ gen' = gen + 1
      /\ token' \in {token, gen, Unknown}
      /\ cache' \in {cache, {}, {token}}
  <2>1. CASE SendBootstrap \/ SendCommand
    BY <2>1 DEF SendBootstrap, SendCommand, Send, Return
  <2>2. CASE StartCall \/ Bind \/ ReadGeneration \/ PollBootstrap \/ BootstrapCaptureFails
    BY <2>2 DEF StartCall, Bind, ReadGeneration, PollBootstrap, BootstrapCaptureFails, MarkInstalled,
       KeepPolling, Return, evalVars, paneVars
  <2>3. CASE PollCommand \/ Reinject \/ CaptureFails
    BY <2>3 DEF PollCommand, Reinject, CaptureFails, KeepPolling, Return, paneVars
  <2>4. CASE ReplReads \/ ReplFinishes \/ HumanRuns \/ HumanFinishes \/ Restart \/ ReplFloods
    <3>1. UNCHANGED serverVars /\ (gen' = gen \/ gen' = gen + 1)
      BY <2>4 DEF ReplReads, ReplFinishes, HumanRuns, HumanFinishes, Restart, ReplFloods
    <3> QED
      BY <3>1 DEF serverVars, evalVars
  <2>5. CASE UNCHANGED vars
    BY <2>5 DEF vars, serverVars, evalVars, paneVars
  <2> QED
    BY Steps, <2>1, <2>2, <2>3, <2>4, <2>5
<1>3. token' <= gen'
  BY <1>1, <1>2 DEF Generations
<1>4. \A g \in cache' : g <= gen'
  BY <1>1, <1>2 DEF Generations
<1> QED
  BY <1>3, <1>4 DEF Generations

\* The bootstrap, once sent, waits, runs, has failed or has installed the runtime.
LEMMA BootStep ==
  ASSUME ServerTypes, PaneTypes, Counted, Ids, Generations, Boot, [Next]_vars
  PROVE  Boot'
<1> SUFFICES ASSUME pc' = "boot_poll", token' = gen', ~runtime' PROVE Waits' \/ Runs' \/ Fails'
  BY DEF Boot
<1>1. /\ seq \in Nat /\ gen \in Nat /\ token \in Nat /\ input \in Seq(Items) /\ Len(input) \in Nat
      /\ \A i \in 1..Len(input) : input[i] \in Items /\ input[i].id \in Nat
  <2>1. seq \in Nat /\ gen \in Nat
    BY Numbers, BoundsAssumption DEF PaneTypes
  <2>2. token \in Nat
    BY DEF ServerTypes, Gens, Unknown
  <2>3. \A x \in Items : x.id \in Nat
    BY Numbers, ItemFacts DEF Markers
  <2>4. input \in Seq(Items)
    BY DEF PaneTypes
  <2> QED
    BY <2>1, <2>2, <2>3, <2>4
<1>2. ASSUME NEW item \in Items, ShownOf(item), item.id # marker, UNCHANGED <<marker, seen>>, ~EndFound
      PROVE  ~EndFound'
  <2>1. \A w \in Whats : Event("end", marker) # Event(w, item.id)
    BY <1>2 DEF Event
  <2>2. Event("end", marker) \in Elements(screen') => Event("end", marker) \in Elements(screen)
    BY <1>2, <2>1 DEF ShownOf
  <2>3. EndFound' <=> "end" \in seen' \/ Event("end", marker') \in Elements(screen')
    BY DEF EndFound, Event
  <2> QED
    BY <1>2, <2>2, <2>3 DEF EndFound
<1>3. CASE SendBootstrap
  <2>1. PICK item \in Items :
            /\ item.kind = "bootstrap" /\ item.id = seq + 1 /\ Paste(item)
            /\ marker' = seq + 1 /\ seen' = {}
    <3>1. Send("bootstrap", "boot_poll") /\ pc = "bootstrap"
      BY <1>3 DEF SendBootstrap
    <3> QED
      BY <3>1, Sends
  <2>2. Event("end", item.id) \notin Elements(screen)
    <3>1. Event("end", item.id).id = seq + 1
      BY <2>1 DEF Event
    <3> QED
      BY <1>1, <3>1 DEF Ids
  <2>3. Event("end", item.id) \notin Elements(screen') => ~EndFound'
    <3>1. EndFound' <=> "end" \in seen' \/ Event("end", marker') \in Elements(screen')
      BY DEF EndFound, Event
    <3> QED
      BY <2>1, <3>1
  <2>4. CASE running = NoItem /\ input = <<>> /\ input' = <<>> /\ ReadsWhole(item)
    BY <2>1, <2>2, <2>3, <2>4, ReadWhole DEF Runs
  <2>5. CASE /\ input' = Append(input, item)
             /\ Event("end", item.id) \in Elements(screen') => Event("end", item.id) \in Elements(screen)
    <3>1. input' # <<>> /\ Len(input') = Len(input) + 1 /\ input'[Len(input) + 1] = item
      BY <1>1, <2>5
    <3> QED
      BY <2>1, <2>2, <2>3, <2>5, <3>1 DEF Waits
  <2> QED
    BY <2>1, <2>4, <2>5, Pastes
<1>4. CASE PollBootstrap
  <2>1. /\ pc = "boot_poll" /\ seen' = Found /\ UNCHANGED <<marker, token, paneVars>>
    BY <1>4 DEF PollBootstrap, KeepPolling, Return
  <2>2. UNCHANGED <<gen, runtime, input, running, screen>>
    BY <2>1 DEF paneVars
  <2>3. (EndFound' <=> EndFound) /\ (ErrorFound' <=> ErrorFound)
    <3>1. /\ EndFound' <=> "end" \in seen' \/ Event("end", marker') \in Elements(screen')
          /\ ErrorFound' <=> "error" \in seen' \/ Event("error", marker') \in Elements(screen')
      BY DEF EndFound, ErrorFound, Event
    <3> QED
      BY <2>1, <2>2, <3>1, FoundIs DEF EndFound, ErrorFound
  <2>4. Waits \/ Runs \/ Fails
    BY <2>1, <2>2 DEF Boot
  <2> QED
    BY <2>1, <2>2, <2>3, <2>4 DEF Waits, Runs, Fails
<1>5. CASE StartCall \/ Bind \/ ReadGeneration \/ SendCommand \/ BootstrapCaptureFails \/ PollCommand
           \/ Reinject \/ CaptureFails
  <2>1. pc' \in {"idle", "ensure", "paste", "bootstrap", "poll"}
    BY <1>5 DEF StartCall, Bind, ReadGeneration, SendCommand, Send, BootstrapCaptureFails, PollCommand,
       Reinject, CaptureFails, KeepPolling, Return
  <2> QED
    BY <2>1
<1>6. ASSUME UNCHANGED <<serverVars, gen>>, ~runtime
      PROVE  (Waits \/ Runs \/ Fails) /\ UNCHANGED <<pc, seq, marker, seen, token>>
  BY <1>6 DEF serverVars, evalVars, Boot
<1>7. CASE ReplReads
  <2>1. /\ running = NoItem /\ input # <<>> /\ input' = Tail(input) /\ UNCHANGED <<gen, serverVars, runtime>>
        /\ ReadsAsLines(Head(input)) \/ ReadsWhole(Head(input))
    BY <1>7 DEF ReplReads
  <2>2. Waits /\ UNCHANGED <<marker, seen>>
    BY <1>6, <2>1, ItemFacts DEF Runs, Fails
  <2>3. /\ Head(input) \in Items /\ Head(input) = input[1] /\ Len(input) \in Nat \ {0}
        /\ Len(input') = Len(input) - 1 /\ \A i \in 1..Len(input) - 1 : input'[i] = input[i + 1]
        /\ input' \in Seq(Items)
    BY <1>1, <2>1, TailFacts
  <2>4. CASE Len(input) = 1
    <3>1. Head(input).kind = "bootstrap" /\ Head(input).id = marker /\ input' = <<>> /\ ~EndFound
      BY <2>2, <2>3, <2>4 DEF Waits
    <3>2. /\ EndFound' <=> "end" \in seen \/ Event("end", marker) \in Elements(screen')
          /\ ErrorFound' <=> "error" \in seen \/ Event("error", marker) \in Elements(screen')
      BY <2>2 DEF EndFound, ErrorFound, Event
    <3>3. CASE ReadsAsLines(Head(input))
      BY <2>1, <2>3, <3>1, <3>2, <3>3, ReadLines, ItemFacts DEF Fails, EndFound
    <3>4. CASE ReadsWhole(Head(input))
      BY <2>2, <2>3, <3>1, <3>2, <3>4, ReadWhole DEF Runs, EndFound
    <3> QED
      BY <2>1, <3>3, <3>4
  <2>5. CASE Len(input) # 1
    <3>1. /\ 1 \in 1..Len(input) /\ Len(input) \in 1..Len(input) /\ 1 < Len(input)
          /\ Len(input') \in 1..Len(input) - 1 /\ Len(input') + 1 = Len(input)
      BY <2>3, <2>5
    <3>2. Head(input).id # marker /\ ~EndFound
      BY <1>1, <2>2, <2>3, <3>1 DEF Ids, Waits
    <3>3. ShownOf(Head(input))
      BY <2>1, <2>3, ReadWhole, ReadLines
    <3>4. ~EndFound'
      BY <1>2, <2>2, <2>3, <3>2, <3>3
    <3>5. input' # <<>> /\ input'[Len(input')] = input[Len(input)]
      BY <2>3, <3>1
    <3> QED
      BY <2>2, <3>4, <3>5 DEF Waits
  <2> QED
    BY <2>4, <2>5
<1>8. CASE ReplFinishes
  <2>1. /\ running \in Items /\ running' = NoItem /\ input' = input /\ ShownOf(running)
        /\ \/ Event("error", running.id) \in Elements(screen') /\ runtime' = runtime
           \/ runtime' = (runtime \/ running.kind = "bootstrap")
        /\ UNCHANGED <<gen, serverVars>>
    BY <1>8, Finishes DEF ReplFinishes
  <2>2. ~runtime
    BY <2>1 DEF PaneTypes
  <2>3. (Waits \/ Runs) /\ UNCHANGED <<marker, seen>>
    BY <1>6, <2>1, <2>2 DEF Fails
  <2>4. CASE Waits
    <3>1. Len(input) \in 1..Len(input)
      BY <1>1, <2>4 DEF Waits
    <3>2. running.id # marker /\ ~EndFound
      <4>1. running.id < input[Len(input)].id /\ input[Len(input)].id \in Nat
        BY <1>1, <2>1, <3>1 DEF Ids
      <4>2. running.id \in Nat
        BY <2>1, Numbers, ItemFacts DEF Markers
      <4> QED
        BY <2>4, <4>1, <4>2 DEF Waits
    <3>3. ~EndFound'
      BY <1>2, <2>1, <2>3, <3>2
    <3> QED
      BY <2>1, <2>3, <2>4, <3>3 DEF Waits
  <2>5. CASE Runs
    <3>1. running.kind = "bootstrap" /\ running.id = marker /\ input = <<>>
      BY <2>5 DEF Runs
    <3>2. Event("error", marker) \in Elements(screen')
      BY <2>1, <3>1
    <3>3. ErrorFound'
      BY <2>3, <3>2 DEF ErrorFound, Event
    <3> QED
      BY <2>1, <3>1, <3>3, ItemFacts DEF Fails
  <2> QED
    BY <2>3, <2>4, <2>5
<1>9. CASE HumanRuns \/ HumanFinishes
  <2>1. /\ UNCHANGED <<gen, serverVars, runtime, input, screen>>
        /\ \/ running = NoItem /\ input = <<>> /\ running' = Human
           \/ running = Human /\ running' = NoItem
    BY <1>9 DEF HumanRuns, HumanFinishes, Idle
  <2>2. (Waits \/ Fails) /\ UNCHANGED <<marker, seen>>
    BY <1>6, <2>1, ItemFacts DEF Runs
  <2>3. (EndFound' <=> EndFound) /\ (ErrorFound' <=> ErrorFound)
    BY <2>1, <2>2 DEF EndFound, ErrorFound, Elements, Event
  <2> QED
    BY <2>1, <2>2, <2>3, ItemFacts DEF Waits, Fails
<1>10. CASE Restart
  <2>1. gen' = gen + 1 /\ UNCHANGED serverVars
    BY <1>10 DEF Restart
  <2>2. token' = token
    BY <2>1 DEF serverVars, evalVars
  <2> QED
    BY <1>1, <2>1, <2>2 DEF Generations
<1>11. CASE ReplFloods
  <2>1. /\ running.kind = "command" /\ screen # <<>> /\ screen' = Tail(screen)
        /\ UNCHANGED <<gen, serverVars, runtime, input, running>>
    BY <1>11 DEF ReplFloods
  <2>2. Elements(screen') \subseteq Elements(screen)
    BY <2>1, TailFacts DEF PaneTypes
  <2>3. Waits /\ UNCHANGED <<marker, seen>>
    <3>1. running \in Items
      BY <2>1, ItemFacts DEF PaneTypes
    <3> QED
      BY <1>6, <2>1, <3>1 DEF Runs, Fails
  <2>4. ~EndFound'
    <3>1. EndFound' <=> "end" \in seen' \/ Event("end", marker') \in Elements(screen')
      BY DEF EndFound, Event
    <3> QED
      BY <2>2, <2>3, <3>1 DEF EndFound, Waits
  <2> QED
    BY <2>1, <2>3, <2>4 DEF Waits
<1>12. CASE UNCHANGED vars
  <2>1. UNCHANGED <<serverVars, gen, runtime, input, running, screen>>
    BY <1>12 DEF vars, paneVars
  <2>2. (Waits \/ Runs \/ Fails) /\ UNCHANGED <<marker, seen>>
    BY <1>6, <2>1
  <2>3. (EndFound' <=> EndFound) /\ (ErrorFound' <=> ErrorFound)
    BY <2>1, <2>2 DEF EndFound, ErrorFound, Elements, Event
  <2> QED
    BY <2>1, <2>2, <2>3 DEF Waits, Runs, Fails
<1> QED
  BY Steps, <1>3, <1>4, <1>5, <1>7, <1>8, <1>9, <1>10, <1>11, <1>12

\* What is cached has the runtime.
LEMMA CacheStep ==
  ASSUME ServerTypes, PaneTypes, Counted, Generations, Boot, CacheSound, [Next]_vars
  PROVE  CacheSound'
<1>1. gen \in Nat /\ \A g \in cache : g \in Nat
  <2>1. gen \in Nat
    BY BoundsAssumption DEF PaneTypes
  <2> QED
    BY <2>1 DEF ServerTypes, Gens, Unknown
<1>2. CASE PollBootstrap
  <2>1. UNCHANGED <<gen, runtime>> /\ pc = "boot_poll"
    BY <1>2 DEF PollBootstrap, paneVars
  <2>2. CASE cache' = cache
    BY <2>1, <2>2 DEF CacheSound
  <2>3. CASE FoundEnd(Found) /\ "error" \notin Found /\ cache' = {token}
    <3>1. EndFound /\ ~ErrorFound
      BY <2>3, FoundIs DEF FoundEnd
    <3>2. ~Waits /\ ~Runs /\ ~Fails
      BY <3>1 DEF Waits, Runs, Fails
    <3>3. token = gen => runtime
      BY <2>1, <3>2 DEF Boot
    <3> QED
      BY <2>1, <2>3, <3>3 DEF CacheSound
  <2> QED
    BY <1>2, <2>2, <2>3 DEF PollBootstrap, MarkInstalled
<1>3. CASE Restart
  <2>1. gen' = gen + 1 /\ cache' = cache
    BY <1>3 DEF Restart, serverVars
  <2>2. gen' \notin cache'
    BY <1>1, <2>1 DEF Generations
  <2> QED
    BY <2>2 DEF CacheSound
<1>4. CASE ReplFinishes
  <2>1. gen' = gen /\ cache' = cache /\ (runtime => runtime')
    BY <1>4, Finishes DEF ReplFinishes, serverVars
  <2> QED
    BY <2>1 DEF CacheSound
<1>5. CASE \/ StartCall \/ Bind \/ ReadGeneration \/ SendBootstrap \/ SendCommand \/ BootstrapCaptureFails
           \/ PollCommand \/ Reinject \/ CaptureFails
           \/ ReplReads \/ HumanRuns \/ HumanFinishes \/ ReplFloods \/ UNCHANGED vars
  <2>1. UNCHANGED <<gen, runtime>> /\ (cache' = cache \/ cache' = {})
    <3>1. CASE SendBootstrap \/ SendCommand
      BY <3>1 DEF SendBootstrap, SendCommand, Send
    <3>2. CASE StartCall \/ Bind \/ ReadGeneration \/ BootstrapCaptureFails
      BY <3>2 DEF StartCall, Bind, ReadGeneration, BootstrapCaptureFails, paneVars
    <3>3. CASE PollCommand \/ Reinject \/ CaptureFails
      BY <3>3 DEF PollCommand, Reinject, CaptureFails, paneVars
    <3>4. CASE ReplReads \/ HumanRuns \/ HumanFinishes \/ ReplFloods
      BY <3>4 DEF ReplReads, HumanRuns, HumanFinishes, ReplFloods, serverVars
    <3>5. CASE UNCHANGED vars
      BY <3>5 DEF vars, serverVars, paneVars
    <3> QED
      BY <1>5, <3>1, <3>2, <3>3, <3>4, <3>5
  <2> QED
    BY <2>1 DEF CacheSound
<1> QED
  BY Steps, <1>2, <1>3, <1>4, <1>5

-----------------------------------------------------------------------------
(* The theorems. *)

LEMMA Initially ==
  ASSUME Init
  PROVE  IInv
<1>1. /\ pc = "idle" /\ call = 0 /\ pass = 1 /\ seq = 0 /\ marker = 0 /\ token = Unknown
      /\ cache = {} /\ seen = {} /\ failures = 0 /\ outcome = [c \in Calls |-> "none"] /\ misled = {}
      /\ lineByLine \in BOOLEAN /\ gen = 1 /\ runtime = FALSE
      /\ input = <<>> /\ running = NoItem /\ screen = <<>>
      /\ ran = [c \in Calls |-> 0] /\ done = {} /\ rejected = {}
  BY DEF Init
<1>2. MaxCalls \in Nat /\ MaxMarkers \in Nat
  BY BoundsAssumption DEF MaxMarkers
<1>3. ServerTypes
  <2>1. call \in 0..MaxCalls /\ seq \in 0..MaxMarkers /\ marker \in 0..MaxMarkers /\ marker <= seq
    BY <1>1, <1>2
  <2>2. failures \in 0..MaxCaptureFailures
    BY <1>1, BoundsAssumption
  <2>3. Cardinality(cache) <= 1
    BY <1>1, OneCached
  <2> QED
    BY <1>1, <2>1, <2>2, <2>3 DEF ServerTypes, Outcomes
<1>4. PaneTypes
  <2>1. gen \in 1..MaxGen[lineByLine]
    <3> DEFINE n == MaxGen[lineByLine]
    <3>1. n \in Nat \ {0}
      BY Zenon, <1>1, BoundsAssumption
    <3> HIDE DEF n
    <3>2. gen \in 1..n
      BY <1>1, <3>1
    <3> QED
      BY <3>2 DEF n
  <2>2. ran \in [Calls -> Nat]
    BY <1>1
  <2>3. screen \in Seq(Events) /\ input \in Seq(Items)
    BY <1>1
  <2> QED
    BY <1>1, <2>1, <2>2, <2>3 DEF PaneTypes
<1>5. Counted
  BY <1>1 DEF Counted
<1>6. Ids
  <2>1. Elements(screen) = {}
    BY <1>1 DEF Elements
  <2> QED
    BY <1>1, <2>1, ItemFacts DEF Ids
<1>7. Generations /\ Boot /\ CacheSound
  BY <1>1 DEF Generations, Boot, CacheSound, Unknown
<1> QED
  BY <1>3, <1>4, <1>5, <1>6, <1>7, TypeParts DEF IInv

\* The inductive invariant: types and counts, the order of the ids, the generations,
\* and where the bootstrap is, for any number of calls and of REPLs.
THEOREM SessionInvariant == Spec => []IInv
<1>1. Init => IInv
  BY Initially
<1>2. IInv /\ [Next]_vars => IInv'
  <2> SUFFICES ASSUME IInv, [Next]_vars PROVE IInv'
    OBVIOUS
  <2>1. ServerTypes /\ PaneTypes /\ Counted /\ Ids /\ Generations /\ Boot /\ CacheSound
    BY TypeParts DEF IInv
  <2>2. ServerTypes' /\ PaneTypes' /\ Counted'
    BY <2>1, ServerStep, PaneStep
  <2>3. TypeOK'
    BY <2>2 DEF TypeOK, ServerTypes, PaneTypes
  <2>4. Ids' /\ Generations' /\ Boot' /\ CacheSound'
    BY <2>1, IdsStep, GenerationsStep, BootStep, CacheStep
  <2> QED
    BY <2>2, <2>3, <2>4 DEF IInv
<1> QED
  BY <1>1, <1>2, PTL DEF Spec

\* Every variable of a session has its type, marker ids included: no sequence of
\* calls uses more of them than two passes of two items each.
THEOREM SessionTypes == Spec => []TypeOK
<1>1. IInv => TypeOK
  BY DEF IInv
<1> QED
  BY <1>1, SessionInvariant, PTL

\* ensure_jjmcp_runtime never skips the bootstrap of a REPL that lacks the runtime:
\* the generation cached is that of a REPL that has it, whenever the REPL is
\* restarted and whatever is typed ahead.
THEOREM CacheIsSound == Spec => []CacheSound
<1>1. IInv => CacheSound
  BY DEF IInv
<1> QED
  BY <1>1, SessionInvariant, PTL
=============================================================================
