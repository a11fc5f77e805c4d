--------------------------- MODULE EvalRunsProofs ---------------------------
(***************************************************************************)
(* What EvalSession promises of the code of a call: it is started at most  *)
(* once, the result returned is its own, and a call that failed for want   *)
(* of the runtime has not run it and never will; the second pass begins    *)
(* when the command was rejected, and every rejection is noticed.          *)
(*                                                                         *)
(* EvalSessionProofs says where a bootstrap is.  Here the invariant says   *)
(* where a command is.  Until a command is sent its call is Unstarted, and *)
(* once it is rejected its call is Doomed: its code has not run, and if a  *)
(* command of it is still typed ahead, the REPL in the pane will reject    *)
(* that too, since it lacks the runtime and no bootstrap is before the     *)
(* command.  No bootstrap waits or runs while a command is polled for, as  *)
(* the cache is believed only in a REPL where none does (Quiet), and it is *)
(* filled only by a bootstrap that has ended (Booted).  So the rejection   *)
(* that triggers the second pass (Missing, Rejected, Begun) dooms the      *)
(* first command, and an END under a marker is that of its own call (Mine).*)
(* A rejection stays the last thing on the screen (Noticed), since nothing *)
(* waits behind the command and what the server sends next is the retry.   *)
(***************************************************************************)
EXTENDS EvalSessionProofs

-----------------------------------------------------------------------------
(* The invariant. *)

\* The commands of a call in a sequence of items.
Commands(s, c) == {k \in 1..Len(s) : s[k].kind = "command" /\ s[k].call = c}
Pending(c) == Commands(input, c)
Unstarted(c) == ran[c] = 0 /\ Pending(c) = {}

\* The code of a call has not run, and a command of it that waits will be rejected.
Clean(s, k) == \A j \in 1..k : s[j].kind = "command"
Doomed(c) ==
    /\ ran[c] = 0
    /\ Pending(c) # {} => ~lineByLine /\ ~runtime /\ running.kind # "bootstrap"
    /\ \A k \in Pending(c) : Clean(input, k)

\* No bootstrap waits or runs.
NoBoot == running.kind # "bootstrap" /\ Clean(input, Len(input))

\* An UndefVarError below an echo of a command, and echoes that a BEGIN follows.
MissedIn(s, m) ==
    \E i, j \in 1..Len(s) : i < j /\ s[i] = Event("echo", m) /\ s[j].what = "undefined"
BegunIn(s, m) ==
    \A i \in 1..Len(s) : s[i] = Event("echo", m) =>
        \E k \in 1..Len(s) : i < k /\ s[k] = Event("begin", m)

\* The server polls for the first command of a call that was not misled.
Polls == pc = "poll" /\ pass = 1 /\ call \notin misled

\* The marker polled for is the last one given out.
Latest == pc \in {"boot_poll", "poll"} => marker = seq

\* A call that has not begun has left no trace, and one that has not returned no outcome.
Future ==
    \A c \in Calls : /\ c > call => Unstarted(c) /\ outcome[c] = "none"
                     /\ pc # "idle" /\ c = call => outcome[c] = "none"

\* One command of a call waits, or its code was started, once.
Once ==
    \A c \in Calls \ misled :
        /\ ran[c] <= 1 /\ (Pending(c) # {} => ran[c] = 0)
        /\ \A i, j \in Pending(c) : i = j

\* A call that has yet to send its command is doomed as far as it has gone.
Unsent ==
    pc \in {"ensure", "bootstrap", "boot_poll", "paste"} /\ call \notin misled =>
        Doomed(call) /\ (pass = 1 \/ pc = "paste" => Unstarted(call))

\* A call that failed for want of the runtime is doomed.
Refused ==
    \A c \in Calls \ misled : outcome[c] \in {"refused", "not_installed"} => Doomed(c)

\* The second pass installs the runtime again.
Retries == pass = 2 => pc # "idle" /\ (pc = "ensure" => cache = {})

\* A bootstrap is sent only to a REPL younger than the cached one.
Stale == pc = "bootstrap" => \A g \in cache : g # Unknown /\ g < gen

\* Where the cache is believed, and while a command is polled for, no bootstrap is around.
Quiet == \A g \in cache : g = Unknown \/ g = gen => NoBoot
Settled == pc \in {"paste", "poll"} /\ call \notin misled => NoBoot

\* A bootstrap that has ended was the last item.
Booted == pc = "boot_poll" /\ EndFound => input = <<>> /\ running \notin Items

\* The marker polled for is on a command of this call, and on each one that waits.
Mine ==
    pc = "poll" =>
        /\ \A k \in 1..Len(input) :
              input[k].id = marker => input[k].kind = "command" /\ input[k].call = call
        /\ running \in Items /\ running.id = marker => running.kind = "command" /\ running.call = call
First == Polls => \A k \in Pending(call) : input[k].id = marker

\* An UndefVarError below the echo says that the command was rejected or will be.
Missing == Polls /\ ~lineByLine /\ MissedIn(screen, marker) => Pending(call) = {} \/ ~runtime
MissedByLine == pc = "poll" /\ lineByLine /\ MissedIn(screen, marker) => marker \in rejected

\* A command that waits or was rejected shows no BEGIN.
Waiting ==
    pc = "poll" /\ (marker \in rejected \/ \E k \in 1..Len(input) : input[k].id = marker) =>
        "begin" \notin seen /\ Event("begin", marker) \notin Elements(screen)

\* A rejection is the last thing on the screen, and nothing waits behind it.
Noticed ==
    pc = "poll" /\ marker \in rejected =>
        /\ running \notin Items /\ input = <<>> /\ Len(screen) >= 2
        /\ screen[Len(screen) - 1] = Event("echo", marker)
        /\ screen[Len(screen)] = Event("undefined", marker)

\* A command that was rejected is gone, and one that was started shows its BEGIN.
Rejected == (\A m \in rejected : m <= seq) /\ (Polls /\ marker \in rejected => Unstarted(call))
Begun == Polls /\ ~lineByLine /\ ran[call] > 0 => BegunIn(screen, marker)

\* An END under the marker, the end of the code, and a result go together.
Ended == pc = "poll" /\ EndFound => call \in done
Ran == /\ \A c \in done : ran[c] >= 1
       /\ running.kind = "command" => ran[running.call] >= 1
Results == \A c \in Calls : outcome[c] \in {"ok", "julia_error"} => c \in done

RInv ==
    /\ Latest /\ Future /\ Once /\ Unsent /\ Refused /\ Retries /\ Stale /\ Quiet /\ Settled
    /\ Booted /\ Mine /\ First /\ Missing /\ MissedByLine /\ Waiting /\ Noticed
    /\ Rejected /\ Begun /\ Ended /\ Ran /\ Results

-----------------------------------------------------------------------------
(* Sequences. *)

\* The types the proofs below need.
LEMMA RunTypes ==
  ASSUME ServerTypes, PaneTypes, Counted
  PROVE  /\ seq \in Nat /\ gen \in Nat /\ call \in Nat /\ Calls \subseteq Nat
         /\ input \in Seq(Items) /\ Len(input) \in Nat
         /\ \A k \in 1..Len(input) : input[k] \in Items
         /\ \A x \in Items : /\ x.id \in Nat /\ x.call \in Calls
                              /\ x.kind \in {"bootstrap", "command"}
         /\ screen \in Seq(Events) /\ Len(screen) \in Nat /\ ran \in [Calls -> Nat]
         /\ \A g \in cache : g \in Nat
<1>1. seq \in Nat /\ gen \in Nat /\ call \in Nat
  BY Numbers, BoundsAssumption DEF PaneTypes
<1>2. Calls \subseteq Nat
  BY BoundsAssumption DEF Calls
<1>3. input \in Seq(Items) /\ screen \in Seq(Events) /\ ran \in [Calls -> Nat]
  BY DEF PaneTypes
<1>4. Len(input) \in Nat /\ Len(screen) \in Nat /\ \A k \in 1..Len(input) : input[k] \in Items
  BY <1>3
<1>5. \A x \in Items : /\ x.id \in Nat /\ x.call \in Calls /\ x.kind \in {"bootstrap", "command"}
  BY Numbers, ItemFacts DEF Markers
<1>6. \A g \in cache : g \in Nat
  BY DEF ServerTypes, Gens, Unknown
<1> QED
  BY <1>1, <1>2, <1>3, <1>4, <1>5, <1>6

\* Items are appended to the input and taken off its front, events likewise.
LEMMA CommandsAppend ==
  ASSUME NEW s \in Seq(Items), NEW item \in Items, NEW t, t = Append(s, item), NEW c
  PROVE  /\ Len(s) \in Nat /\ Len(t) = Len(s) + 1 /\ t[Len(s) + 1] = item
         /\ \A k \in 1..Len(s) : t[k] = s[k]
         /\ \A k \in Commands(t, c) :
               k \in Commands(s, c) \/ (k = Len(s) + 1 /\ item.kind = "command" /\ item.call = c)
         /\ \A k \in Commands(s, c) : Clean(s, k) => Clean(t, k)
         /\ Clean(s, Len(s)) /\ item.kind = "command" => Clean(t, Len(t))
<1>1. /\ Len(s) \in Nat /\ Len(t) = Len(s) + 1 /\ t[Len(s) + 1] = item
      /\ \A k \in 1..Len(s) : t[k] = s[k]
  OBVIOUS
<1>2. \A k \in 1..Len(t) : k \in 1..Len(s) \/ k = Len(s) + 1
  BY <1>1
<1>3. ASSUME NEW k \in Commands(t, c)
      PROVE  k \in Commands(s, c) \/ (k = Len(s) + 1 /\ item.kind = "command" /\ item.call = c)
  BY <1>1, <1>2, <1>3 DEF Commands
<1>4. ASSUME NEW k \in Commands(s, c), Clean(s, k) PROVE Clean(t, k)
  <2>1. k \in 1..Len(s) /\ \A j \in 1..k : j \in 1..Len(s)
    BY <1>1, <1>4 DEF Commands
  <2> QED
    BY <1>1, <1>4, <2>1 DEF Clean
<1>5. Clean(s, Len(s)) /\ item.kind = "command" => Clean(t, Len(t))
  BY <1>1, <1>2 DEF Clean
<1> QED
  BY <1>1, <1>3, <1>4, <1>5

LEMMA CommandsTail ==
  ASSUME NEW s \in Seq(Items), s # <<>>, NEW t, t = Tail(s), NEW c
  PROVE  /\ Head(s) \in Items /\ Head(s) = s[1] /\ Len(s) \in Nat \ {0} /\ Len(t) = Len(s) - 1
         /\ \A k \in 1..Len(t) : t[k] = s[k + 1] /\ k + 1 \in 1..Len(s)
         /\ \A k \in Commands(t, c) : k + 1 \in Commands(s, c) /\ k \in Nat /\ k >= 1
         /\ \A k \in Commands(t, c) : Clean(s, k + 1) => Clean(t, k) /\ s[1].kind = "command"
         /\ Clean(s, Len(s)) => Clean(t, Len(t)) /\ s[1].kind = "command"
         /\ Head(s).kind = "command" /\ Head(s).call = c => 1 \in Commands(s, c)
<1>1. /\ Head(s) \in Items /\ Head(s) = s[1] /\ Len(s) \in Nat \ {0} /\ Len(t) = Len(s) - 1
      /\ \A i \in 1..Len(s) - 1 : t[i] = s[i + 1]
  BY TailFacts
<1>2. \A k \in 1..Len(t) : t[k] = s[k + 1] /\ k + 1 \in 1..Len(s) /\ k \in Nat /\ k >= 1
  BY <1>1
<1>3. \A k \in Commands(t, c) : k + 1 \in Commands(s, c) /\ k \in Nat /\ k >= 1
  BY <1>2 DEF Commands
<1>4. ASSUME NEW k \in 1..Len(t), Clean(s, k + 1) PROVE Clean(t, k) /\ s[1].kind = "command"
  <2>1. 1 \in 1..k + 1 /\ \A j \in 1..k : j + 1 \in 1..k + 1 /\ j \in 1..Len(t)
    BY <1>1
  <2> QED
    BY <1>2, <1>4, <2>1 DEF Clean
<1>5. \A k \in Commands(t, c) : k \in 1..Len(t)
  BY DEF Commands
<1>6. ASSUME Clean(s, Len(s)) PROVE Clean(t, Len(t)) /\ s[1].kind = "command"
  <2>1. 1 \in 1..Len(s)
    BY <1>1
  <2> QED
    BY <1>1, <1>2, <1>6, <2>1 DEF Clean
<1>7. Head(s).kind = "command" /\ Head(s).call = c => 1 \in Commands(s, c)
  <2>1. 1 \in 1..Len(s)
    BY <1>1
  <2> QED
    BY <1>1, <2>1 DEF Commands
<1> QED
  BY <1>1, <1>2, <1>3, <1>4, <1>5, <1>6, <1>7

LEMMA EventsConcat ==
  ASSUME NEW a \in Seq(Events), NEW b \in Seq(Events), NEW c, c = a \o b, NEW m
  PROVE  /\ (\A k \in 1..Len(b) : b[k].what # "undefined") /\ MissedIn(c, m) => MissedIn(a, m)
         /\ (\A k \in 1..Len(b) : b[k] # Event("echo", m)) /\ BegunIn(a, m) => BegunIn(c, m)
         /\ Len(b) > 0 /\ b[Len(b)] = Event("begin", m) => BegunIn(c, m)
<1>1. /\ Len(a) \in Nat /\ Len(b) \in Nat /\ Len(c) = Len(a) + Len(b)
      /\ \A i \in 1..Len(a) : c[i] = a[i]
      /\ \A i \in 1..Len(b) : c[Len(a) + i] = b[i]
  OBVIOUS
<1>2. \A i \in 1..Len(c) : i \in 1..Len(a) \/ (i - Len(a) \in 1..Len(b) /\ c[i] = b[i - Len(a)])
  <2> SUFFICES ASSUME NEW i \in 1..Len(c), i \notin 1..Len(a)
               PROVE  i - Len(a) \in 1..Len(b) /\ c[i] = b[i - Len(a)]
    OBVIOUS
  <2>1. i - Len(a) \in 1..Len(b) /\ Len(a) + (i - Len(a)) = i
    BY <1>1
  <2>2. c[Len(a) + (i - Len(a))] = b[i - Len(a)]
    BY <1>1, <2>1
  <2> QED
    BY <2>1, <2>2
<1>3. ASSUME \A k \in 1..Len(b) : b[k].what # "undefined", MissedIn(c, m) PROVE MissedIn(a, m)
  <2>1. PICK i, j \in 1..Len(c) : i < j /\ c[i] = Event("echo", m) /\ c[j].what = "undefined"
    BY <1>3 DEF MissedIn
  <2>2. j \in 1..Len(a)
    BY <1>2, <1>3, <2>1
  <2>3. i \in 1..Len(a)
    BY <1>1, <2>1, <2>2
  <2> QED
    BY <1>1, <2>1, <2>2, <2>3 DEF MissedIn
<1>4. ASSUME \A k \in 1..Len(b) : b[k] # Event("echo", m), BegunIn(a, m) PROVE BegunIn(c, m)
  <2> SUFFICES ASSUME NEW i \in 1..Len(c), c[i] = Event("echo", m)
               PROVE  \E k \in 1..Len(c) : i < k /\ c[k] = Event("begin", m)
    BY DEF BegunIn
  <2>1. i \in 1..Len(a) /\ a[i] = Event("echo", m)
    BY <1>1, <1>2, <1>4
  <2>2. PICK k \in 1..Len(a) : i < k /\ a[k] = Event("begin", m)
    BY <1>4, <2>1 DEF BegunIn
  <2>3. k \in 1..Len(c) /\ c[k] = a[k]
    BY <1>1, <2>2
  <2> QED
    BY <2>2, <2>3
<1>5. ASSUME Len(b) > 0, b[Len(b)] = Event("begin", m) PROVE BegunIn(c, m)
  <2> SUFFICES ASSUME NEW i \in 1..Len(c), c[i] = Event("echo", m)
               PROVE  \E k \in 1..Len(c) : i < k /\ c[k] = Event("begin", m)
    BY DEF BegunIn
  <2>1. Len(b) \in 1..Len(b) /\ Len(c) \in 1..Len(c) /\ c[Len(c)] = Event("begin", m)
    BY <1>1, <1>5
  <2>2. i # Len(c)
    BY <2>1 DEF Event
  <2>3. i < Len(c)
    <3>1. Len(c) \in Nat /\ i \in 1..Len(c)
      BY <1>1
    <3> QED
      BY <2>2, <3>1
  <2> QED
    BY <2>1, <2>3
<1> QED
  BY <1>3, <1>4, <1>5

LEMMA EventsTail ==
  ASSUME NEW a \in Seq(Events), a # <<>>, NEW t, t = Tail(a), NEW m
  PROVE  /\ MissedIn(t, m) => MissedIn(a, m)
         /\ BegunIn(a, m) => BegunIn(t, m)
<1>1. /\ Len(a) \in Nat \ {0} /\ Len(t) = Len(a) - 1
      /\ \A i \in 1..Len(a) - 1 : t[i] = a[i + 1]
  BY TailFacts
<1>2. ASSUME MissedIn(t, m) PROVE MissedIn(a, m)
  <2>1. PICK i, j \in 1..Len(t) : i < j /\ t[i] = Event("echo", m) /\ t[j].what = "undefined"
    BY <1>2 DEF MissedIn
  <2>2. i + 1 \in 1..Len(a) /\ j + 1 \in 1..Len(a) /\ i + 1 < j + 1
    BY <1>1, <2>1
  <2> QED
    BY <1>1, <2>1, <2>2 DEF MissedIn
<1>3. ASSUME BegunIn(a, m) PROVE BegunIn(t, m)
  <2> SUFFICES ASSUME NEW i \in 1..Len(t), t[i] = Event("echo", m)
               PROVE  \E k \in 1..Len(t) : i < k /\ t[k] = Event("begin", m)
    BY DEF BegunIn
  <2>1. i + 1 \in 1..Len(a) /\ a[i + 1] = Event("echo", m)
    BY <1>1
  <2>2. PICK k \in 1..Len(a) : i + 1 < k /\ a[k] = Event("begin", m)
    BY <1>3, <2>1 DEF BegunIn
  <2>3. k - 1 \in 1..Len(t) /\ i < k - 1 /\ t[k - 1] = a[(k - 1) + 1]
    BY <1>1, <2>2
  <2> QED
    BY <2>2, <2>3
<1> QED
  BY <1>2, <1>3

\* What showing an item does to what is missed and begun.
LEMMA ShowsOn ==
  ASSUME screen \in Seq(Events), NEW item \in Items, NEW whats \in Seq(Whats), Show(item, whats), NEW m
  PROVE  /\ (\A k \in 1..Len(whats) : whats[k] # "undefined") /\ MissedIn(screen', m) => MissedIn(screen, m)
         /\ (item.id # m \/ \A k \in 1..Len(whats) : whats[k] # "echo") /\ BegunIn(screen, m) => BegunIn(screen', m)
         /\ Len(whats) > 0 /\ whats[Len(whats)] = "begin" => BegunIn(screen', item.id)
<1> DEFINE s == [k \in 1..Len(whats) |-> [what |-> whats[k], id |-> item.id]]
<1>1. \A k \in 1..Len(whats) : whats[k] \in Whats
  OBVIOUS
<1>2. item.id \in Markers
  BY DEF Items
<1>3. \A w \in Whats, n \in Markers : [what |-> w, id |-> n] \in Events
  BY DEF Events, Whats
<1>4. \A k \in 1..Len(whats) : [what |-> whats[k], id |-> item.id] \in Events
  BY <1>1, <1>2, <1>3
<1>5. s \in Seq(Events) /\ Len(s) = Len(whats) /\ Len(whats) \in Nat
  BY <1>4
<1>6. \A k \in 1..Len(whats) : s[k] = Event(whats[k], item.id)
  BY DEF Event
<1>7. screen' = screen \o s
  BY DEF Show
<1> HIDE DEF s
<1>8. \A c, n : c = screen \o s =>
         /\ (\A k \in 1..Len(s) : s[k].what # "undefined") /\ MissedIn(c, n) => MissedIn(screen, n)
         /\ (\A k \in 1..Len(s) : s[k] # Event("echo", n)) /\ BegunIn(screen, n) => BegunIn(c, n)
         /\ Len(s) > 0 /\ s[Len(s)] = Event("begin", n) => BegunIn(c, n)
  BY <1>5, EventsConcat
<1>9. /\ (\A k \in 1..Len(s) : s[k].what # "undefined") /\ MissedIn(screen', m) => MissedIn(screen, m)
      /\ (\A k \in 1..Len(s) : s[k] # Event("echo", m)) /\ BegunIn(screen, m) => BegunIn(screen', m)
      /\ Len(s) > 0 /\ s[Len(s)] = Event("begin", item.id) => BegunIn(screen', item.id)
  BY <1>7, <1>8
<1>10. \A w : Event(w, item.id).what = w /\ Event(w, item.id).id = item.id
  BY DEF Event
<1>11. Event("echo", m).id = m /\ Event("echo", m).what = "echo"
  BY DEF Event
<1>12. (\A k \in 1..Len(whats) : whats[k] # "undefined") => \A k \in 1..Len(s) : s[k].what # "undefined"
  BY <1>5, <1>6, <1>10
<1>13. item.id # m \/ (\A k \in 1..Len(whats) : whats[k] # "echo") => \A k \in 1..Len(s) : s[k] # Event("echo", m)
  BY <1>5, <1>6, <1>10, <1>11
<1>14. Len(whats) > 0 => Len(s) > 0 /\ s[Len(s)] = Event(whats[Len(whats)], item.id)
  BY <1>5, <1>6
<1> QED
  BY <1>9, <1>12, <1>13, <1>14

-----------------------------------------------------------------------------
(* What a step does to the pane. *)

Rejects(item) ==
    /\ item.kind = "command" /\ ~runtime /\ Show(item, <<"echo", "undefined">>)
    /\ rejected' = rejected \cup {item.id} /\ running' = running /\ ran' = ran
Starts(item) ==
    /\ item.kind = "bootstrap" \/ runtime
    /\ Show(item, <<"echo", "begin">>)
    /\ running' = item /\ ran' = Started(item) /\ rejected' = rejected
Types(item) ==
    /\ \/ Show(item, <<"echo">>)
       \/ item.kind = "bootstrap" /\ Show(item, <<"echo", "begin", "error", "end">>)
    /\ running' = running /\ ran' = Started(item) /\ rejected' = rejected
LEMMA Readings ==
  ASSUME NEW item \in Items
  PROVE  /\ ReadsWhole(item) => Rejects(item) \/ Starts(item)
         /\ ReadsAsLines(item) => Types(item)
<1>1. item.kind \in {"bootstrap", "command"}
  BY ItemFacts
<1> QED
  BY <1>1 DEF ReadsWhole, ReadsAsLines, Rejects, Starts, Types

\* The six ways in which a step changes the pane, or it leaves the pane alone.
Kept == UNCHANGED <<lineByLine, gen, runtime, done>>
PastesNow(item) == running = NoItem /\ input = <<>> /\ input' = <<>> /\ (Rejects(item) \/ Starts(item))
PastesAhead(item) ==
    /\ input' = Append(input, item) /\ UNCHANGED <<running, ran, rejected>>
    /\ screen' = screen \/ Show(item, <<"echo">>)
Pasted(item) ==
    /\ item.id = seq + 1 /\ item.call = call /\ Kept
    /\ (item.kind = "bootstrap" /\ pc = "bootstrap") \/ (item.kind = "command" /\ pc = "paste")
    /\ PastesNow(item) \/ PastesAhead(item)
Reads ==
    /\ running = NoItem /\ input # <<>> /\ input' = Tail(input) /\ Kept
    /\ (lineByLine /\ Types(Head(input))) \/ (~lineByLine /\ (Rejects(Head(input)) \/ Starts(Head(input))))
Ends(whats) ==
    /\ running \in Items /\ running' = NoItem /\ Show(running, whats)
    /\ whats = <<"end">> \/ whats = <<"error", "end">>
    /\ runtime' = runtime \/ (running.kind = "bootstrap" /\ runtime' = TRUE)
    /\ done' = (IF running.kind = "command" THEN done \cup {running.call} ELSE done)
    /\ UNCHANGED <<lineByLine, gen, input, ran, rejected>>
Humans ==
    /\ running \in {NoItem, Human} /\ running' \in {NoItem, Human}
    /\ UNCHANGED <<lineByLine, gen, runtime, input, screen, ran, done, rejected>>
Restarts ==
    /\ gen' = gen + 1 /\ runtime' = FALSE /\ running' = NoItem
    /\ input' = input \/ input' = <<>>
    /\ UNCHANGED <<lineByLine, screen, ran, done, rejected>>
Floods ==
    /\ running.kind = "command" /\ screen # <<>> /\ screen' = Tail(screen)
    /\ UNCHANGED <<lineByLine, gen, runtime, input, running, ran, done, rejected>>
ReplMoves == Reads \/ (\E w \in Seq(Whats) : Ends(w)) \/ Humans \/ Restarts \/ Floods

LEMMA EndsHow ==
  ASSUME PaneTypes, ReplFinishes
  PROVE  \E w \in Seq(Whats) : Ends(w)
<1>1. PICK error \in BOOLEAN :
        /\ screen' = screen \o [k \in 1..(IF error THEN 2 ELSE 1) |->
                          [what |-> IF error /\ k = 1 THEN "error" ELSE "end", id |-> running.id]]
        /\ runtime' = (runtime \/ (running.kind = "bootstrap" /\ ~error))
  BY DEF ReplFinishes
<1>2. /\ running \in Items /\ running' = NoItem
      /\ done' = (IF running.kind = "command" THEN done \cup {running.call} ELSE done)
      /\ UNCHANGED <<lineByLine, gen, input, ran, rejected>>
  BY DEF ReplFinishes
<1>3. runtime \in BOOLEAN
  BY DEF PaneTypes
<1>4. runtime' = runtime \/ (running.kind = "bootstrap" /\ runtime' = TRUE)
  BY <1>1, <1>3
<1>5. CASE error
  <2> DEFINE whats == <<"error", "end">>
  <2>1. whats \in Seq(Whats) /\ Len(whats) = 2 /\ whats[1] = "error" /\ whats[2] = "end"
    BY DEF Whats
  <2>2. screen' = screen \o [k \in 1..2 |-> [what |-> IF k = 1 THEN "error" ELSE "end", id |-> running.id]]
    BY <1>1, <1>5
  <2>3. \A k \in 1..2 : whats[k] = IF k = 1 THEN "error" ELSE "end"
    BY <2>1
  <2>5. whats = <<"error", "end">>
    OBVIOUS
  <2> HIDE DEF whats
  <2>4. Show(running, whats)
    BY <2>1, <2>2, <2>3 DEF Show
  <2> QED
    BY <1>2, <1>4, <2>1, <2>4, <2>5 DEF Ends
<1>6. CASE ~error
  <2> DEFINE whats == <<"end">>
  <2>1. whats \in Seq(Whats) /\ Len(whats) = 1 /\ whats[1] = "end"
    BY DEF Whats
  <2>2. screen' = screen \o [k \in 1..1 |-> [what |-> "end", id |-> running.id]]
    BY <1>1, <1>6
  <2>5. whats = <<"end">>
    OBVIOUS
  <2> HIDE DEF whats
  <2>4. Show(running, whats)
    BY <2>1, <2>2 DEF Show
  <2> QED
    BY <1>2, <1>4, <2>1, <2>4, <2>5 DEF Ends
<1> QED
  BY <1>1, <1>5, <1>6

\* A send pastes an item, or fails before it does.
LEMMA SendsItem ==
  ASSUME ServerTypes, PaneTypes, Counted, NEW kind, NEW next, Send(kind, next),
         (kind = "bootstrap" /\ pc = "bootstrap") \/ (kind = "command" /\ pc = "paste")
  PROVE  \/ UNCHANGED paneVars /\ pc' = "idle"
         \/ \E item \in Items : Pasted(item)
<1> DEFINE item == [kind |-> kind, id |-> seq + 1, call |-> call]
<1>1. seq + 1 \in Markers /\ call \in Calls
  BY Numbers
<1>2. item \in Items /\ item.kind = kind /\ item.id = seq + 1 /\ item.call = call
  BY <1>1, ItemFacts
<1>3. /\ Paste(item) \/ (pc' = "idle" /\ UNCHANGED <<input, screen, running, ran, rejected>>)
      /\ Kept
  BY DEF Send, Return, Kept
<1> HIDE DEF item
<1>4. Paste(item) => PastesNow(item) \/ PastesAhead(item)
  BY <1>2, Readings DEF Paste, Idle, PastesNow, PastesAhead
<1> QED
  BY <1>2, <1>3, <1>4 DEF Pasted, Kept, paneVars

LEMMA PaneEffects ==
  ASSUME ServerTypes, PaneTypes, Counted, [Next]_vars
  PROVE  \/ UNCHANGED paneVars
         \/ (SendBootstrap \/ SendCommand) /\ \E item \in Items : Pasted(item)
         \/ ReplMoves /\ UNCHANGED serverVars
<1>1. CASE SendBootstrap \/ SendCommand
  BY <1>1, SendsItem DEF SendBootstrap, SendCommand
<1>2. CASE \/ StartCall \/ Bind \/ ReadGeneration \/ PollBootstrap \/ BootstrapCaptureFails \/ PollCommand
           \/ Reinject \/ CaptureFails \/ UNCHANGED vars
  BY <1>2 DEF StartCall, Bind, ReadGeneration, PollBootstrap, BootstrapCaptureFails, PollCommand,
     Reinject, CaptureFails, vars
<1>3. CASE ReplReads
  <2>1. /\ running = NoItem /\ input # <<>> /\ input' = Tail(input) /\ Kept /\ UNCHANGED serverVars
        /\ IF lineByLine THEN ReadsAsLines(Head(input)) ELSE ReadsWhole(Head(input))
    BY <1>3 DEF ReplReads, Kept
  <2>2. Head(input) \in Items
    BY <2>1, TailFacts DEF PaneTypes
  <2> QED
    BY <2>1, <2>2, Readings DEF Reads, ReplMoves
<1>4. CASE ReplFinishes
  BY <1>4, EndsHow DEF ReplMoves, ReplFinishes
<1>5. CASE HumanRuns \/ HumanFinishes
  BY <1>5 DEF HumanRuns, HumanFinishes, Idle, Humans, ReplMoves
<1>6. CASE Restart
  BY <1>6 DEF Restart, Restarts, ReplMoves
<1>7. CASE ReplFloods
  BY <1>7 DEF ReplFloods, Floods, ReplMoves
<1> QED
  BY Steps, <1>1, <1>2, <1>3, <1>4, <1>5, <1>6, <1>7

\* What is shown, as sequences.
LEMMA WhatsAre ==
  /\ <<"echo">> \in Seq(Whats) /\ <<"echo", "undefined">> \in Seq(Whats) /\ <<"echo", "begin">> \in Seq(Whats)
  /\ <<"echo", "begin", "error", "end">> \in Seq(Whats)
  BY DEF Whats
LEMMA StartedIs ==
  ASSUME PaneTypes, NEW item \in Items, NEW c \in Calls
  PROVE  /\ Started(item) \in [Calls -> Nat]
         /\ Started(item)[c] = IF item.kind = "command" /\ item.call = c THEN ran[c] + 1 ELSE ran[c]
  BY ItemFacts DEF Started, PaneTypes

LEMMA OthersAppend ==
  ASSUME NEW s \in Seq(Items), NEW item \in Items, NEW t, t = Append(s, item), NEW c,
         ~(item.kind = "command" /\ item.call = c)
  PROVE  Commands(t, c) \subseteq Commands(s, c)
<1>1. /\ Len(s) \in Nat /\ Len(t) = Len(s) + 1 /\ t[Len(s) + 1] = item
      /\ \A k \in 1..Len(s) : t[k] = s[k]
  OBVIOUS
<1>2. \A k \in 1..Len(t) : k \in 1..Len(s) \/ k = Len(s) + 1
  BY <1>1
<1> QED
  BY <1>1, <1>2 DEF Commands

-----------------------------------------------------------------------------
(* Commands that wait, and what becomes of them. *)

LEMMA PendingMoves ==
  ASSUME ServerTypes, PaneTypes, Counted, [Next]_vars, NEW c \in Calls
  PROVE  /\ input' = input \/ input' = <<>> => Pending(c)' \subseteq Pending(c)
         /\ Reads => \A k \in Pending(c)' : k + 1 \in Pending(c) /\ k >= 1 /\ k \in Nat
         /\ \A item \in Items : Pasted(item) /\ ~(pc = "paste" /\ call = c) => Pending(c)' \subseteq Pending(c)
<1>0. input \in Seq(Items)
  BY RunTypes
<1>1. input' = input \/ input' = <<>> => Pending(c)' \subseteq Pending(c)
  BY DEF Pending, Commands
<1>2. Reads => \A k \in Pending(c)' : k + 1 \in Pending(c) /\ k >= 1 /\ k \in Nat
  <2> SUFFICES ASSUME Reads PROVE \A k \in Commands(input', c) : k + 1 \in Commands(input, c) /\ k >= 1 /\ k \in Nat
    BY DEF Pending
  <2>1. input # <<>> /\ input' = Tail(input)
    BY DEF Reads
  <2>2. \A t : t = Tail(input) => \A k \in Commands(t, c) : k + 1 \in Commands(input, c) /\ k >= 1 /\ k \in Nat
    BY <1>0, <2>1, CommandsTail
  <2> QED
    BY <2>1, <2>2
<1>3. ASSUME NEW item \in Items, Pasted(item), ~(pc = "paste" /\ call = c)
      PROVE  Pending(c)' \subseteq Pending(c)
  <2>1. CASE PastesNow(item)
    BY <1>1, <2>1 DEF PastesNow
  <2>2. CASE PastesAhead(item)
    <3>1. input' = Append(input, item) /\ ~(item.kind = "command" /\ item.call = c)
      BY <1>3, <2>2 DEF PastesAhead, Pasted
    <3>2. \A t : t = Append(input, item) => Commands(t, c) \subseteq Commands(input, c)
      BY <1>0, <3>1, OthersAppend
    <3>3. \A k \in Commands(input', c) : k \in Commands(input, c)
      BY <3>1, <3>2
    <3> QED
      BY <3>3 DEF Pending
  <2> QED
    BY <1>3, <2>1, <2>2 DEF Pasted
<1> QED
  BY <1>1, <1>2, <1>3

\* The code of a call is started only by a command of this call that is sent or read.
LEMMA RanMoves ==
  ASSUME ServerTypes, PaneTypes, Counted, [Next]_vars, NEW c \in Calls
  PROVE  \/ ran'[c] = ran[c]
         \/ /\ ran'[c] = ran[c] + 1
            /\ \/ SendCommand /\ call = c /\ input' = <<>>
               \/ Reads /\ 1 \in Pending(c) /\ (lineByLine \/ runtime)
<1>0. input \in Seq(Items) /\ ran \in [Calls -> Nat]
  BY RunTypes
<1>1. CASE UNCHANGED paneVars
  BY <1>1 DEF paneVars
<1>2. ASSUME NEW item \in Items, Pasted(item), SendBootstrap \/ SendCommand
      PROVE  ran'[c] = ran[c] \/ (ran'[c] = ran[c] + 1 /\ SendCommand /\ call = c /\ input' = <<>>)
  <2>1. CASE PastesNow(item) /\ Starts(item)
    <3>1. ran' = Started(item) /\ input' = <<>>
      BY <2>1 DEF PastesNow, Starts
    <3>2. ran'[c] = ran[c] \/ (ran'[c] = ran[c] + 1 /\ item.kind = "command" /\ item.call = c)
      BY <3>1, StartedIs
    <3>3. pc = "paste" => SendCommand
      BY <1>2 DEF SendBootstrap
    <3> QED
      BY <1>2, <3>1, <3>2, <3>3 DEF Pasted
  <2>2. CASE ran' = ran
    BY <2>2
  <2> QED
    BY <1>2, <2>1, <2>2 DEF Pasted, PastesNow, PastesAhead, Rejects
<1>3. CASE Reads
  <2>1. Head(input) \in Items /\ (Head(input).kind = "command" /\ Head(input).call = c => 1 \in Pending(c))
    <3>1. input # <<>>
      BY <1>3 DEF Reads
    <3> QED
      BY <1>0, <3>1, CommandsTail DEF Pending
  <2>2. CASE ran' = Started(Head(input)) /\ (lineByLine \/ Starts(Head(input)))
    <3>1. \/ ran'[c] = ran[c]
          \/ ran'[c] = ran[c] + 1 /\ Head(input).kind = "command" /\ Head(input).call = c
      BY <2>1, <2>2, StartedIs
    <3> QED
      BY <1>3, <2>1, <2>2, <3>1 DEF Starts
  <2>3. CASE ran' = ran
    BY <2>3
  <2> QED
    BY <1>3, <2>2, <2>3 DEF Reads, Types, Starts, Rejects
<1>4. CASE (\E w \in Seq(Whats) : Ends(w)) \/ Humans \/ Restarts \/ Floods
  BY <1>4 DEF Ends, Humans, Restarts, Floods
<1> QED
  BY PaneEffects, <1>1, <1>2, <1>3, <1>4 DEF ReplMoves

LEMMA NonePendingStep ==
  ASSUME ServerTypes, PaneTypes, Counted, [Next]_vars, NEW c \in Calls,
         Pending(c) = {}, ~(SendCommand /\ call = c)
  PROVE  Pending(c)' = {}
<1>1. CASE input' = input \/ input' = <<>>
  BY <1>1, PendingMoves
<1>2. CASE Reads
  BY <1>2, PendingMoves
<1>3. ASSUME NEW item \in Items, Pasted(item), SendBootstrap \/ SendCommand PROVE Pending(c)' = {}
  <2>1. ~(pc = "paste" /\ call = c)
    BY <1>3 DEF SendBootstrap
  <2> QED
    BY <1>3, <2>1, PendingMoves
<1> QED
  BY PaneEffects, <1>1, <1>2, <1>3 DEF ReplMoves, paneVars, Ends, Humans, Restarts, Floods

LEMMA UnstartedStep ==
  ASSUME ServerTypes, PaneTypes, Counted, [Next]_vars, NEW c \in Calls,
         Unstarted(c), ~(SendCommand /\ call = c)
  PROVE  Unstarted(c)'
<1>1. ran[c] = 0 /\ Pending(c) = {}
  BY DEF Unstarted
<1>2. ran'[c] = 0
  BY <1>1, RanMoves
<1>3. Pending(c)' = {}
  BY <1>1, NonePendingStep
<1> QED
  BY <1>2, <1>3 DEF Unstarted

\* A command of a call that is doomed never runs, whatever is read before it.
LEMMA DoomedStep ==
  ASSUME ServerTypes, PaneTypes, Counted, [Next]_vars, NEW c \in Calls,
         Doomed(c), ~(SendCommand /\ call = c)
  PROVE  Doomed(c)'
<1>0. input \in Seq(Items) /\ ran \in [Calls -> Nat] /\ Len(input) \in Nat
  BY RunTypes
<1>1. /\ ran[c] = 0
      /\ Pending(c) # {} => ~lineByLine /\ ~runtime /\ running.kind # "bootstrap"
      /\ \A k \in Pending(c) : Clean(input, k)
  BY DEF Doomed
<1>2. ran'[c] = 0
  BY <1>1, RanMoves
<1>3. ASSUME Pending(c)' \subseteq Pending(c), UNCHANGED lineByLine,
             \A k \in Pending(c) : Clean(input, k) /\ k \in Pending(c)' => Clean(input', k),
             Pending(c)' # {} /\ ~runtime /\ running.kind # "bootstrap" => ~runtime' /\ running'.kind # "bootstrap"
      PROVE  Doomed(c)'
  BY <1>1, <1>2, <1>3 DEF Doomed
<1>4. CASE UNCHANGED paneVars
  BY <1>3, <1>4, PendingMoves DEF paneVars
<1>5. ASSUME NEW item \in Items, Pasted(item), SendBootstrap \/ SendCommand PROVE Doomed(c)'
  <2>4. ~(pc = "paste" /\ call = c)
    BY <1>5 DEF SendBootstrap
  <2>1. Pending(c)' \subseteq Pending(c) /\ UNCHANGED <<lineByLine, runtime>>
    BY <1>5, <2>4, PendingMoves DEF Pasted, Kept
  <2>2. CASE PastesNow(item)
    <3>1. Pending(c)' = {}
      BY <2>2 DEF PastesNow, Pending, Commands
    <3> QED
      BY <1>2, <3>1 DEF Doomed
  <2>3. CASE PastesAhead(item)
    <3>1. input' = Append(input, item) /\ running' = running
      BY <2>3 DEF PastesAhead
    <3>2. \A t : t = Append(input, item) => \A k \in Commands(input, c) : Clean(input, k) => Clean(t, k)
      BY <1>0, CommandsAppend
    <3>3. \A k \in Pending(c) : Clean(input, k) => Clean(input', k)
      BY <3>1, <3>2 DEF Pending
    <3> QED
      BY <1>3, <2>1, <3>1, <3>3
  <2> QED
    BY <1>5, <2>2, <2>3 DEF Pasted
<1>6. CASE Reads
  <2>1. input # <<>> /\ input' = Tail(input) /\ Kept
    BY <1>6 DEF Reads
  <2>2. CASE Pending(c)' = {}
    BY <1>2, <2>2 DEF Doomed
  <2>3. CASE Pending(c)' # {}
    <3>1. \A k \in Pending(c)' : k + 1 \in Pending(c)
      BY <1>6, PendingMoves
    <3>2. \A t : t = Tail(input) => \A k \in Commands(t, c) : Clean(input, k + 1) => Clean(t, k) /\ input[1].kind = "command"
      BY <1>0, <2>1, CommandsTail
    <3>3. \A k \in Pending(c)' : Clean(input, k + 1) => Clean(input', k) /\ input[1].kind = "command"
      BY <2>1, <3>2 DEF Pending
    <3>4. ~lineByLine /\ ~runtime /\ running.kind # "bootstrap"
      BY <1>1, <2>3, <3>1
    <3>5. (\A k \in Pending(c)' : Clean(input', k)) /\ input[1].kind = "command"
      BY <1>1, <2>3, <3>1, <3>3
    <3>6. Head(input).kind = "command"
      BY <1>0, <2>1, <3>5, TailFacts
    <3>7. running' = running
      BY <1>6, <3>4, <3>6 DEF Reads, Rejects, Starts
    <3>8. lineByLine' = lineByLine /\ runtime' = runtime
      BY <2>1 DEF Kept
    <3> QED
      BY <1>2, <3>4, <3>5, <3>7, <3>8 DEF Doomed
  <2> QED
    BY <2>2, <2>3
<1>7. ASSUME NEW w \in Seq(Whats), Ends(w) PROVE Doomed(c)'
  <2>1. UNCHANGED <<lineByLine, input>> /\ running' = NoItem
        /\ (runtime' = runtime \/ running.kind = "bootstrap")
    BY <1>7 DEF Ends
  <2>2. Pending(c)' \subseteq Pending(c) /\ running'.kind # "bootstrap"
    BY <2>1, PendingMoves, ItemFacts
  <2> QED
    BY <1>3, <2>1, <2>2
<1>8. CASE Humans
  <2>1. UNCHANGED <<lineByLine, input, runtime>> /\ running'.kind # "bootstrap"
    BY <1>8, ItemFacts DEF Humans
  <2> QED
    BY <1>3, <2>1, PendingMoves
<1>9. CASE Restarts
  <2>1. UNCHANGED lineByLine /\ runtime' = FALSE /\ (input' = input \/ input' = <<>>) /\ running'.kind # "bootstrap"
    BY <1>9, ItemFacts DEF Restarts
  <2>2. CASE input' = input
    BY <1>3, <2>1, <2>2, PendingMoves
  <2>3. CASE input' = <<>>
    <3>1. Pending(c)' = {}
      BY <2>3 DEF Pending, Commands
    <3> QED
      BY <1>2, <3>1 DEF Doomed
  <2> QED
    BY <2>1, <2>2, <2>3
<1>10. CASE Floods
  <2>1. UNCHANGED <<lineByLine, input, runtime, running>>
    BY <1>10 DEF Floods
  <2> QED
    BY <1>3, <2>1, PendingMoves
<1> QED
  BY PaneEffects, <1>4, <1>5, <1>6, <1>7, <1>8, <1>9, <1>10 DEF ReplMoves

LEMMA UnstartedIsDoomed ==
  ASSUME NEW c, Unstarted(c) PROVE Doomed(c)
  BY DEF Unstarted, Doomed

-----------------------------------------------------------------------------
(* What a step does to the server. *)

Gives(o) == pc' = "idle" /\ outcome' = [outcome EXCEPT ![call] = o] /\ pass' = 1 /\ marker' = 0 /\ seen' = {}
Begins ==
    /\ pc = "idle" /\ call' = call + 1 /\ call + 1 \in Calls
    /\ \/ pc' = "ensure" /\ outcome' = outcome
       \/ pc' = "idle" /\ outcome' = [outcome EXCEPT ![call + 1] = "refused"]
    /\ UNCHANGED <<cache, misled, pass, marker, seen, seq, paneVars>>
Binds ==
    /\ pc = "idle" /\ cache' = {}
    /\ UNCHANGED <<pc, call, misled, pass, marker, seen, seq, outcome, paneVars>>
Trusts ==
    /\ pc = "ensure" /\ pc' = "paste" /\ cache # {}
    /\ misled' = (IF IsCurrent(gen) THEN misled ELSE misled \cup {call})
    /\ UNCHANGED <<call, pass, seq, marker, cache, seen, outcome, paneVars>>
Doubts ==
    /\ pc = "ensure" /\ pc' = "bootstrap" /\ (\A g \in cache : g # Unknown /\ g # gen)
    /\ UNCHANGED <<call, misled, pass, seq, marker, cache, seen, outcome, paneVars>>
SendsTo(next) ==
    /\ seq' = seq + 1 /\ UNCHANGED <<call, misled, cache>>
    /\ \/ /\ pc' = next /\ marker' = seq + 1 /\ seen' = {} /\ UNCHANGED <<pass, outcome>>
          /\ \E item \in Items : Pasted(item)
       \/ Gives("send_failed") /\ (UNCHANGED paneVars \/ \E item \in Items : Pasted(item))
SendsBootstrap == pc = "bootstrap" /\ SendsTo("boot_poll")
SendsCommand == pc = "paste" /\ SendsTo("poll")
Installs ==
    /\ pc = "boot_poll" /\ EndFound /\ pc' = "paste" /\ cache' = {token}
    /\ UNCHANGED <<call, misled, pass, seq, outcome, paneVars>>
Goes ==
    /\ pc \in {"boot_poll", "poll"} /\ seen' \in {seen, Found}
    /\ UNCHANGED <<pc, call, misled, pass, seq, marker, cache, outcome, paneVars>>
Misses ==
    /\ pc = "boot_poll" /\ Gives("not_installed")
    /\ UNCHANGED <<call, misled, seq, cache, paneVars>>
Leaves ==
    /\ pc = "poll"
    /\ \/ \E o \in {"timed_out", "capture_failed"} : Gives(o)
       \/ EndFound /\ \E o \in {"ok", "julia_error"} : Gives(o)
    /\ UNCHANGED <<call, misled, seq, cache, paneVars>>
Reinjects ==
    /\ pc = "poll" /\ pass = 1 /\ Detects /\ cache' = {} /\ pass' = 2 /\ pc' = "ensure"
    /\ UNCHANGED <<call, misled, seq, outcome, paneVars>>
Pauses == UNCHANGED serverVars /\ (ReplMoves \/ UNCHANGED paneVars)

LEMMA ServerEffects ==
  ASSUME ServerTypes, PaneTypes, Counted, [Next]_vars
  PROVE  \/ Begins \/ Binds \/ Trusts \/ Doubts \/ SendsBootstrap \/ SendsCommand \/ Installs \/ Goes
         \/ Misses \/ Leaves \/ Reinjects \/ Pauses
<1>1. CASE StartCall
  <2>1. call + 1 \in Calls
    BY <1>1, RunTypes, BoundsAssumption DEF StartCall, Calls
  <2>2. /\ pc = "idle" /\ call' = call + 1
        /\ \/ pc' = "ensure" /\ outcome' = outcome
           \/ pc' = "idle" /\ outcome' = [outcome EXCEPT ![call'] = "refused"]
        /\ UNCHANGED <<cache, misled, pass, marker, seen, seq, paneVars>>
    BY <1>1 DEF StartCall, evalVars
  <2> QED
    BY <2>1, <2>2 DEF Begins
<1>2. CASE Bind
  BY <1>2 DEF Bind, Binds, evalVars
<1>3. CASE ReadGeneration
  <2>1. PICK t \in {gen, Unknown} :
         \/ /\ IsCurrent(t) /\ pc' = "paste"
            /\ misled' = IF IsCurrent(gen) THEN misled ELSE misled \cup {call}
         \/ ~IsCurrent(t) /\ pc' = "bootstrap" /\ misled' = misled
    BY <1>3 DEF ReadGeneration
  <2>2. pc = "ensure" /\ UNCHANGED <<call, pass, seq, marker, cache, seen, outcome, paneVars>>
    BY <1>3 DEF ReadGeneration
  <2>3. IsCurrent(t) => cache # {}
    BY DEF IsCurrent
  <2>4. ~IsCurrent(t) => \A g \in cache : g # Unknown /\ g # gen
    BY DEF IsCurrent
  <2> QED
    BY <2>1, <2>2, <2>3, <2>4 DEF Trusts, Doubts
<1>4. ASSUME NEW kind, NEW next, Send(kind, next),
             (kind = "bootstrap" /\ pc = "bootstrap") \/ (kind = "command" /\ pc = "paste")
      PROVE SendsTo(next)
  <2> DEFINE item == [kind |-> kind, id |-> seq + 1, call |-> call]
  <2>1. seq + 1 \in Markers /\ call \in Calls
    BY <1>4, Numbers
  <2>2. item \in Items /\ item.kind = kind /\ item.id = seq + 1 /\ item.call = call
    BY <1>4, <2>1, ItemFacts
  <2>3. /\ seq' = seq + 1 /\ UNCHANGED <<call, misled, cache, lineByLine, gen, runtime, done>>
        /\ \/ /\ Paste(item) /\ pc' = next /\ marker' = seq + 1 /\ seen' = {} /\ UNCHANGED <<pass, outcome>>
           \/ Paste(item) /\ Gives("send_failed")
           \/ Gives("send_failed") /\ UNCHANGED <<input, screen, running, ran, rejected>>
    BY <1>4 DEF Send, Return, Gives
  <2> HIDE DEF item
  <2>4. Paste(item) => PastesNow(item) \/ PastesAhead(item)
    BY <2>2, Readings DEF Paste, Idle, PastesNow, PastesAhead
  <2>5. Paste(item) => Pasted(item)
    BY <1>4, <2>2, <2>3, <2>4 DEF Pasted, Kept
  <2> QED
    BY <2>2, <2>3, <2>5 DEF SendsTo, paneVars
<1>5. CASE SendBootstrap
  BY <1>4, <1>5 DEF SendBootstrap, SendsBootstrap
<1>6. CASE SendCommand
  BY <1>4, <1>6 DEF SendCommand, SendsCommand
<1>7. FoundEnd(Found) => EndFound
  BY FoundIs DEF FoundEnd
<1>8. CASE PollBootstrap
  <2>1. /\ pc = "boot_poll" /\ UNCHANGED <<call, seq, misled, paneVars>>
        /\ \/ /\ EndFound /\ pc' = "paste" /\ cache' = {token} /\ UNCHANGED <<pass, outcome>>
           \/ Gives("not_installed") /\ UNCHANGED cache
           \/ seen' = Found /\ UNCHANGED <<pc, pass, marker, outcome, cache>>
    BY <1>7, <1>8 DEF PollBootstrap, MarkInstalled, Return, Gives, KeepPolling
  <2> QED
    BY <2>1 DEF Installs, Misses, Goes
<1>9. CASE BootstrapCaptureFails
  BY <1>9 DEF BootstrapCaptureFails, Misses, Return, Gives
<1>10. CASE PollCommand
  <2>1. /\ pc = "poll" /\ UNCHANGED <<call, seq, misled, cache, paneVars>>
        /\ \/ EndFound /\ Gives("julia_error")
           \/ EndFound /\ Gives("ok")
           \/ Gives("timed_out")
           \/ seen' = Found /\ UNCHANGED <<pc, pass, marker, outcome>>
    <3>1. /\ pc = "poll" /\ UNCHANGED <<call, seq, misled, cache, paneVars>>
          /\ \/ FoundEnd(Found) /\ Return(IF "error" \in Found THEN "julia_error" ELSE "ok")
             \/ Return("timed_out")
             \/ seen' = Found /\ UNCHANGED <<pc, pass, marker, outcome>>
      BY <1>10 DEF PollCommand, KeepPolling
    <3>2. Return(IF "error" \in Found THEN "julia_error" ELSE "ok") => Gives("julia_error") \/ Gives("ok")
      <4>1. CASE "error" \in Found
        BY <4>1 DEF Return, Gives
      <4>2. CASE "error" \notin Found
        BY <4>2 DEF Return, Gives
      <4> QED
        BY <4>1, <4>2
    <3>3. Return("timed_out") => Gives("timed_out")
      BY DEF Return, Gives
    <3> QED
      BY <1>7, <3>1, <3>2, <3>3
  <2> QED
    BY <2>1 DEF Leaves, Goes
<1>11. CASE Reinject
  BY <1>11 DEF Reinject, Detects, Reinjects
<1>12. CASE CaptureFails
  <2>1. /\ pc = "poll" /\ UNCHANGED <<call, seq, misled, cache, paneVars>>
        /\ \/ Gives("capture_failed")
           \/ Gives("timed_out")
           \/ seen' = seen /\ UNCHANGED <<pc, pass, marker, outcome>>
    BY <1>12 DEF CaptureFails, Return, Gives
  <2> QED
    BY <2>1 DEF Leaves, Goes
<1>13. CASE ReplReads \/ ReplFinishes \/ HumanRuns \/ HumanFinishes \/ Restart \/ ReplFloods \/ UNCHANGED vars
  <2>1. UNCHANGED serverVars
    BY <1>13 DEF ReplReads, ReplFinishes, HumanRuns, HumanFinishes, Restart, ReplFloods, vars
  <2>3. seq' = seq /\ seq \in Nat
    BY <2>1, RunTypes DEF serverVars
  <2>4. ReplMoves \/ UNCHANGED paneVars
    <3>1. CASE SendBootstrap \/ SendCommand
      BY <2>3, <3>1 DEF SendBootstrap, SendCommand, Send
    <3> QED
      BY <3>1, PaneEffects
  <2> QED
    BY <2>1, <2>4 DEF Pauses
<1> QED
  BY Steps, <1>1, <1>2, <1>3, <1>5, <1>6, <1>8, <1>9, <1>10, <1>11, <1>12, <1>13

\* The pane moves by itself, takes an item, or rests.
LEMMA PauseKeeps ==
  ASSUME Pauses
  PROVE  UNCHANGED <<pc, call, seq, cache, outcome, misled, pass, marker, token, seen>>
  BY DEF Pauses, serverVars, evalVars

-----------------------------------------------------------------------------
(* The invariant of the runs, part by part. *)

LEMMA LatestStep ==
  ASSUME ServerTypes, PaneTypes, Counted, [Next]_vars, Latest
  PROVE  Latest'
<1>1. CASE Pauses
  BY <1>1, PauseKeeps DEF Latest
<1>2. CASE Begins \/ Binds \/ Trusts \/ Doubts \/ Installs \/ Misses \/ Leaves \/ Reinjects
  BY <1>2 DEF Latest, Begins, Binds, Trusts, Doubts, Installs, Misses, Leaves, Gives, Reinjects
<1>3. CASE SendsBootstrap \/ SendsCommand
  BY <1>3 DEF Latest, SendsBootstrap, SendsCommand, SendsTo, Gives
<1>4. CASE Goes
  BY <1>4 DEF Latest, Goes
<1> QED
  BY ServerEffects, <1>1, <1>2, <1>3, <1>4

LEMMA RetriesStep ==
  ASSUME ServerTypes, PaneTypes, Counted, [Next]_vars, Retries
  PROVE  Retries'
<1>1. CASE Pauses
  BY <1>1, PauseKeeps DEF Retries
<1>2. CASE Begins \/ Binds \/ Trusts \/ Doubts \/ Installs \/ Misses \/ Leaves \/ Reinjects
  BY <1>2 DEF Retries, Begins, Binds, Trusts, Doubts, Installs, Misses, Leaves, Gives, Reinjects
<1>3. CASE SendsBootstrap \/ SendsCommand
  BY <1>3 DEF Retries, SendsBootstrap, SendsCommand, SendsTo, Gives
<1>4. CASE Goes
  BY <1>4 DEF Retries, Goes
<1> QED
  BY ServerEffects, <1>1, <1>2, <1>3, <1>4

LEMMA StaleStep ==
  ASSUME ServerTypes, PaneTypes, Counted, Generations, [Next]_vars, Stale
  PROVE  Stale'
<1>0. gen \in Nat /\ (\A g \in cache : g \in Nat)
  BY RunTypes
<1>1. CASE Pauses
  <2>1. pc' = pc /\ cache' = cache
    BY <1>1, PauseKeeps
  <2>2. gen' = gen \/ gen' = gen + 1
    BY <1>1 DEF Pauses, ReplMoves, paneVars, Reads, Kept, Ends, Humans, Restarts, Floods
  <2>3. pc = "bootstrap" => \A g \in cache : g # Unknown /\ g < gen'
    BY <1>0, <2>2 DEF Stale
  <2> QED
    BY <2>1, <2>3 DEF Stale
<1>2. CASE Doubts
  <2>1. cache' = cache /\ gen' = gen /\ \A g \in cache : g # Unknown /\ g # gen
    BY <1>2 DEF Doubts, paneVars
  <2>2. \A g \in cache : g < gen
    BY <1>0, <2>1 DEF Generations
  <2> QED
    BY <2>1, <2>2 DEF Stale
<1>3. CASE pc' # "bootstrap"
  BY <1>3 DEF Stale
<1>4. CASE Begins \/ Binds \/ Trusts \/ SendsBootstrap \/ SendsCommand \/ Installs \/ Goes \/ Misses \/ Leaves \/ Reinjects
  <2>1. pc' # "bootstrap"
    BY <1>4 DEF Begins, Binds, Trusts, SendsBootstrap, SendsCommand, SendsTo, Installs, Goes, Misses, Leaves, Reinjects, Gives
  <2> QED
    BY <1>3, <2>1
<1> QED
  BY ServerEffects, <1>1, <1>2, <1>4

LEMMA FutureStep ==
  ASSUME ServerTypes, PaneTypes, Counted, [Next]_vars, Future
  PROVE  Future'
<1>0. call \in Nat /\ Calls \subseteq Nat /\ outcome \in [Calls -> Outcomes] /\ (pc # "idle" => call \in Calls)
  BY RunTypes, Numbers DEF ServerTypes
<1>1. \A c \in Calls : c > call => Unstarted(c) /\ outcome[c] = "none"
  BY DEF Future
<1>2. pc # "idle" => outcome[call] = "none"
  BY <1>0 DEF Future
<1>3. /\ call' = call \/ call' = call + 1
      /\ \A c \in Calls : c > call' => outcome'[c] = "none"
      /\ pc' # "idle" => outcome'[call'] = "none"
  <2>1. CASE Pauses
    BY <1>1, <1>2, <2>1, PauseKeeps
  <2>2. CASE Begins
    <3>1. /\ call' = call + 1 /\ call + 1 \in Calls
          /\ \/ pc' = "ensure" /\ outcome' = outcome
             \/ pc' = "idle" /\ outcome' = [outcome EXCEPT ![call + 1] = "refused"]
      BY <2>2 DEF Begins
    <3>2. \A c \in Calls : c > call + 1 => outcome'[c] = outcome[c] /\ c > call
      BY <1>0, <3>1
    <3>3. outcome[call + 1] = "none"
      BY <1>0, <1>1, <3>1
    <3> QED
      BY <1>1, <3>1, <3>2, <3>3
  <2>3. ASSUME NEW o, Gives(o), pc # "idle", call' = call PROVE \A c \in Calls : c > call' => outcome'[c] = "none"
    <3>1. \A c \in Calls : c > call => outcome'[c] = outcome[c]
      BY <1>0, <2>3 DEF Gives
    <3> QED
      BY <1>1, <2>3, <3>1
  <2>4. CASE SendsBootstrap \/ SendsCommand
    <3>1. call' = call /\ pc # "idle" /\ (outcome' = outcome \/ Gives("send_failed"))
      BY <2>4 DEF SendsBootstrap, SendsCommand, SendsTo
    <3>2. Gives("send_failed") => pc' = "idle"
      BY DEF Gives
    <3> QED
      BY <1>1, <1>2, <2>3, <3>1, <3>2
  <2>5. CASE Binds \/ Trusts \/ Doubts \/ Installs \/ Goes \/ Reinjects
    BY <1>1, <1>2, <2>5 DEF Binds, Trusts, Doubts, Installs, Goes, Reinjects
  <2>6. CASE Misses \/ Leaves
    <3>1. call' = call /\ pc # "idle" /\ \E o \in Outcomes : Gives(o)
      BY <2>6 DEF Misses, Leaves, Outcomes
    <3>2. pc' = "idle"
      BY <3>1 DEF Gives
    <3> QED
      BY <2>3, <3>1, <3>2
  <2> QED
    BY ServerEffects, <2>1, <2>2, <2>4, <2>5, <2>6
<1>4. ASSUME NEW c \in Calls, c > call' PROVE Unstarted(c)'
  <2>1. c > call /\ c # call
    BY <1>0, <1>3, <1>4
  <2> QED
    BY <1>1, <2>1, UnstartedStep
<1> QED
  BY <1>3, <1>4 DEF Future

LEMMA NoSend ==
  ASSUME ServerTypes, PaneTypes, Counted
  PROVE  SendCommand => pc = "paste" /\ seq' # seq
<1>1. seq \in Nat
  BY RunTypes
<1> QED
  BY <1>1 DEF SendCommand, Send

LEMMA MisledGrows ==
  ASSUME ServerTypes, PaneTypes, Counted, [Next]_vars
  PROVE  misled \subseteq misled' /\ (misled' = misled \/ Trusts)
<1>1. CASE Pauses
  BY <1>1, PauseKeeps
<1>2. CASE Trusts
  BY <1>2 DEF Trusts
<1> QED
  BY ServerEffects, <1>1, <1>2 DEF Begins, Binds, Doubts, SendsBootstrap, SendsCommand, SendsTo, Installs, Goes,
     Misses, Leaves, Reinjects

\* What a send of a command adds to those that wait.
LEMMA PendingOfSend ==
  ASSUME ServerTypes, PaneTypes, Counted, [Next]_vars, SendCommand,
         NEW c \in Calls, c = call, Unstarted(c)
  PROVE  /\ ran'[c] <= 1 /\ (Pending(c)' # {} => ran'[c] = 0)
         /\ \A k \in Pending(c)' : k = Len(input) + 1
<1>0. input \in Seq(Items) /\ ran \in [Calls -> Nat]
  BY RunTypes
<1>1. ran[c] = 0 /\ Pending(c) = {}
  BY DEF Unstarted
<1>2. ran'[c] = 0 \/ (ran'[c] = 1 /\ input' = <<>>)
  <2>1. ~Reads \/ 1 \notin Pending(c)
    BY <1>1
  <2> QED
    BY <1>0, <1>1, <2>1, RanMoves
<1>3. \A k \in Pending(c)' : k = Len(input) + 1
  <2>1. CASE input' = input \/ input' = <<>>
    BY <1>0, <1>1, <2>1, PendingMoves
  <2>2. CASE Reads
    BY <1>0, <1>1, <2>2, PendingMoves
  <2>3. ASSUME NEW item \in Items, PastesAhead(item) PROVE \A k \in Pending(c)' : k = Len(input) + 1
    <3>1. input' = Append(input, item)
      BY <2>3 DEF PastesAhead
    <3>2. \A t : t = Append(input, item) => Len(t) = Len(input) + 1 /\ Len(input) \in Nat /\ \A k \in 1..Len(input) : t[k] = input[k]
      BY <1>0
    <3>3. Len(input') = Len(input) + 1 /\ Len(input) \in Nat /\ \A k \in 1..Len(input) : input'[k] = input[k]
      BY <3>1, <3>2
    <3>4. \A k \in 1..Len(input') : k \in 1..Len(input) \/ k = Len(input) + 1
      BY <3>3
    <3>5. \A k \in Pending(c)' : k \in 1..Len(input') /\ input'[k].kind = "command" /\ input'[k].call = c
      BY DEF Pending, Commands
    <3>6. \A k \in 1..Len(input) : ~(input[k].kind = "command" /\ input[k].call = c)
      BY <1>1 DEF Pending, Commands
    <3> QED
      BY <3>3, <3>4, <3>5, <3>6
  <2> QED
    BY PaneEffects, <2>1, <2>2, <2>3 DEF ReplMoves, paneVars, Ends, Humans, Restarts, Floods, Pasted, PastesNow
<1>4. input' = <<>> => Pending(c)' = {}
  BY DEF Pending, Commands
<1> QED
  BY <1>2, <1>3, <1>4

LEMMA OnceStep ==
  ASSUME ServerTypes, PaneTypes, Counted, [Next]_vars, Once, Unsent
  PROVE  Once'
<1>0. input \in Seq(Items) /\ ran \in [Calls -> Nat]
  BY RunTypes
<1> SUFFICES ASSUME NEW c \in Calls, c \notin misled'
             PROVE  /\ ran'[c] <= 1 /\ (Pending(c)' # {} => ran'[c] = 0)
                    /\ \A i, j \in Pending(c)' : i = j
  BY DEF Once
<1>1. c \notin misled
  BY MisledGrows
<1>2. /\ ran[c] \in Nat /\ ran[c] <= 1 /\ (Pending(c) # {} => ran[c] = 0)
      /\ \A i, j \in Pending(c) : i = j
  BY <1>0, <1>1 DEF Once
<1>3. CASE SendCommand /\ call = c
  <2>1. pc = "paste"
    BY <1>3 DEF SendCommand
  <2>2. Unstarted(c)
    BY <1>1, <1>3, <2>1 DEF Unsent
  <2>3. /\ ran'[c] <= 1 /\ (Pending(c)' # {} => ran'[c] = 0)
        /\ \A k \in Pending(c)' : k = Len(input) + 1
    BY <1>3, <2>2, PendingOfSend
  <2> QED
    BY <2>3
<1>4. CASE ~(SendCommand /\ call = c)
  <2>1. CASE Reads
    <3>1. \A k \in Pending(c)' : k + 1 \in Pending(c) /\ k >= 1 /\ k \in Nat
      BY <2>1, PendingMoves
    <3>2. \A i, j \in Pending(c)' : i = j
      BY <1>2, <3>1
    <3>3. ran'[c] = ran[c] \/ (ran'[c] = ran[c] + 1 /\ 1 \in Pending(c))
      BY <1>4, RanMoves
    <3>4. CASE ran'[c] = ran[c]
      BY <1>2, <3>1, <3>2, <3>4
    <3>5. CASE ran'[c] = ran[c] + 1 /\ 1 \in Pending(c)
      <4>1. Pending(c)' = {}
        <5> SUFFICES ASSUME NEW k \in Pending(c)' PROVE FALSE
          OBVIOUS
        <5>1. k + 1 = 1 /\ k >= 1 /\ k \in Nat
          BY <1>2, <3>1, <3>5
        <5> QED
          BY <5>1
      <4> QED
        BY <1>2, <3>5, <4>1
    <3> QED
      BY <3>3, <3>4, <3>5
  <2>2. CASE ~Reads
    <3>1. ran'[c] = ran[c]
      BY <1>4, <2>2, RanMoves
    <3>2. Pending(c)' \subseteq Pending(c)
      <4>1. CASE input' = input \/ input' = <<>>
        BY <4>1, PendingMoves
      <4>2. ASSUME NEW item \in Items, Pasted(item), SendBootstrap \/ SendCommand PROVE Pending(c)' \subseteq Pending(c)
        <5>1. ~(pc = "paste" /\ call = c)
          BY <1>4, <4>2 DEF SendBootstrap
        <5> QED
          BY <4>2, <5>1, PendingMoves
      <4> QED
        BY PaneEffects, <2>2, <4>1, <4>2 DEF ReplMoves, paneVars, Ends, Humans, Restarts, Floods
    <3> QED
      BY <1>2, <3>1, <3>2
  <2> QED
    BY <2>1, <2>2
<1> QED
  BY <1>3, <1>4

\* What RuntimeMissing says: an UndefVarError below an echo that no BEGIN follows.
LEMMA MissingIs ==
  ASSUME PaneTypes, RuntimeMissing(marker)
  PROVE  MissedIn(screen, marker) /\ ~BegunIn(screen, marker)
<1>0. screen \in Seq(Events) /\ Len(screen) \in Nat
  BY DEF PaneTypes
<1>2. PICK i, j \in DOMAIN screen :
        /\ screen[i] = [what |-> "echo", id |-> marker]
        /\ \A k \in DOMAIN screen : screen[k].id = marker /\ screen[k].what # "undefined" => k <= i
        /\ i < j /\ screen[j].what = "undefined"
  BY DEF RuntimeMissing
<1>3. i \in 1..Len(screen) /\ j \in 1..Len(screen) /\ DOMAIN screen = 1..Len(screen)
  BY <1>0, <1>2
<1>4. screen[i] = Event("echo", marker)
  BY <1>2 DEF Event
<1>5. MissedIn(screen, marker)
  BY <1>2, <1>3, <1>4 DEF MissedIn
<1>6. ~BegunIn(screen, marker)
  <2> SUFFICES ASSUME BegunIn(screen, marker) PROVE FALSE
    OBVIOUS
  <2>1. PICK k \in 1..Len(screen) : i < k /\ screen[k] = Event("begin", marker)
    BY <1>3, <1>4 DEF BegunIn
  <2>2. Event("begin", marker).id = marker /\ Event("begin", marker).what # "undefined"
    BY DEF Event
  <2>3. k <= i
    BY <1>2, <1>3, <2>1, <2>2
  <2> QED
    BY <1>3, <2>1, <2>3
<1> QED
  BY <1>5, <1>6

\* The REPL rejected the command that is polled: its code has not run and will not.
LEMMA DetectedIsDoomed ==
  ASSUME ServerTypes, PaneTypes, Counted, Missing, MissedByLine, Rejected, Begun, Settled,
         pc = "poll", Detects, call \notin misled
  PROVE  Doomed(call)
<1>0. ran \in [Calls -> Nat] /\ call \in Calls /\ Len(input) \in Nat /\ lineByLine \in BOOLEAN
  BY RunTypes, Numbers DEF PaneTypes
<1>1. Polls /\ MissedIn(screen, marker) /\ ~BegunIn(screen, marker)
  BY MissingIs DEF Detects, Polls
<1>7. CASE lineByLine
  BY <1>1, <1>7, UnstartedIsDoomed DEF MissedByLine, Rejected
<1>8. CASE ~lineByLine
  <2>1. ran[call] = 0
    BY <1>0, <1>1, <1>8 DEF Begun
  <2>2. Pending(call) # {} => ~runtime
    BY <1>1, <1>8 DEF Missing
  <2>3. running.kind # "bootstrap" /\ Clean(input, Len(input))
    BY DEF Settled, NoBoot
  <2>4. ASSUME NEW k \in Pending(call) PROVE Clean(input, k)
    <3>1. k \in 1..Len(input)
      BY DEF Pending, Commands
    <3> QED
      BY <1>0, <2>3, <3>1 DEF Clean
  <2> QED
    BY <1>8, <2>1, <2>2, <2>3, <2>4 DEF Doomed
<1> QED
  BY <1>7, <1>8

LEMMA UnsentStep ==
  ASSUME ServerTypes, PaneTypes, Counted, [Next]_vars,
         Future, Unsent, Retries, Booted, Missing, MissedByLine, Rejected, Begun, Settled
  PROVE  Unsent'
<1>0. call \in Nat /\ Calls \subseteq Nat /\ (pc # "idle" => call \in Calls)
  BY RunTypes, Numbers
<1> SUFFICES ASSUME pc' \in {"ensure", "bootstrap", "boot_poll", "paste"}, call' \notin misled'
             PROVE  Doomed(call)' /\ (pass' = 1 \/ pc' = "paste" => Unstarted(call)')
  BY DEF Unsent
<1>1. call' \notin misled
  BY MisledGrows
<1>2. ASSUME NEW c \in Calls, ~SendCommand
      PROVE  (Doomed(c) => Doomed(c)') /\ (Unstarted(c) => Unstarted(c)')
  BY <1>2, DoomedStep, UnstartedStep
<1>3. ASSUME call' = call, pc # "idle", ~SendCommand
      PROVE  (Doomed(call) => Doomed(call)') /\ (Unstarted(call) => Unstarted(call)')
  <2>1. \A c \in Calls : c = call => (Doomed(c) => Doomed(c)') /\ (Unstarted(c) => Unstarted(c)')
    BY <1>2, <1>3
  <2>2. \A c : c = call => Doomed(c)' = Doomed(call)' /\ Unstarted(c)' = Unstarted(call)'
    BY <1>3 DEF Doomed, Unstarted, Pending
  <2> QED
    BY <1>0, <1>3, <2>1, <2>2
<1>4. CASE Pauses
  <2>1. UNCHANGED <<pc, call, pass, seq>>
    BY <1>4, PauseKeeps
  <2>2. ~SendCommand /\ pc # "idle"
    BY <2>1, NoSend
  <2>3. Doomed(call) /\ (pass = 1 \/ pc = "paste" => Unstarted(call))
    BY <1>1, <2>1 DEF Unsent
  <2> QED
    BY <1>3, <2>1, <2>2, <2>3
<1>5. CASE Begins
  <2>1. call' = call + 1 /\ call + 1 \in Calls /\ ~SendCommand
    BY <1>5, NoSend DEF Begins
  <2>2. Unstarted(call + 1)
    BY <1>0, <2>1 DEF Future
  <2>3. \A c \in Calls : c = call + 1 => Doomed(c)' /\ Unstarted(c)'
    BY <1>2, <2>1, <2>2, UnstartedIsDoomed
  <2>4. \A c : c = call' => Doomed(c)' = Doomed(call)' /\ Unstarted(c)' = Unstarted(call)'
    BY DEF Doomed, Unstarted, Pending
  <2> QED
    BY <2>1, <2>3, <2>4
<1>6. CASE Trusts
  <2>1. pc = "ensure" /\ call' = call /\ pass' = pass /\ cache # {} /\ ~SendCommand
    BY <1>6, NoSend DEF Trusts
  <2>2. pass = 1
    BY <2>1 DEF Retries, ServerTypes
  <2>3. Doomed(call) /\ Unstarted(call)
    BY <1>1, <2>1, <2>2 DEF Unsent
  <2> QED
    BY <1>3, <2>1, <2>3
<1>7. CASE Doubts
  <2>1. pc = "ensure" /\ pc' = "bootstrap" /\ call' = call /\ pass' = pass /\ ~SendCommand
    BY <1>7, NoSend DEF Doubts
  <2>3. Doomed(call) /\ (pass = 1 => Unstarted(call))
    BY <1>1, <2>1 DEF Unsent
  <2> QED
    BY <1>3, <2>1, <2>3
<1>8. CASE SendsBootstrap
  <2>1. pc = "bootstrap" /\ pc' = "boot_poll" /\ call' = call /\ pass' = pass /\ ~SendCommand
    BY <1>8, NoSend DEF SendsBootstrap, SendsTo, Gives
  <2>3. Doomed(call) /\ (pass = 1 => Unstarted(call))
    BY <1>1, <2>1 DEF Unsent
  <2> QED
    BY <1>3, <2>1, <2>3
<1>9. CASE Installs
  <2>1. pc = "boot_poll" /\ EndFound /\ call' = call /\ ~SendCommand
    BY <1>9, NoSend DEF Installs
  <2>2. input = <<>> /\ Doomed(call)
    BY <1>1, <2>1 DEF Booted, Unsent
  <2>3. Unstarted(call)
    BY <2>2 DEF Doomed, Unstarted, Pending, Commands
  <2> QED
    BY <1>3, <2>1, <2>2, <2>3
<1>10. CASE Goes
  <2>1. pc' = pc /\ pc = "boot_poll" /\ call' = call /\ pass' = pass /\ ~SendCommand
    BY <1>10, NoSend DEF Goes
  <2>3. Doomed(call) /\ (pass = 1 => Unstarted(call))
    BY <1>1, <2>1 DEF Unsent
  <2> QED
    BY <1>3, <2>1, <2>3
<1>11. CASE Reinjects
  <2>1. pc = "poll" /\ pc' = "ensure" /\ call' = call /\ pass' = 2 /\ Detects /\ ~SendCommand
    BY <1>11, NoSend DEF Reinjects
  <2>2. Doomed(call)
    BY <1>1, <2>1, DetectedIsDoomed
  <2> QED
    BY <1>3, <2>1, <2>2
<1>12. CASE Binds \/ SendsCommand \/ Misses \/ Leaves
  <2>1. pc' \in {"idle", "poll"}
    BY <1>12 DEF Binds, SendsCommand, SendsTo, Misses, Leaves, Gives
  <2> QED
    BY <2>1
<1> QED
  BY ServerEffects, <1>4, <1>5, <1>6, <1>7, <1>8, <1>9, <1>10, <1>11, <1>12

LEMMA RefusedStep ==
  ASSUME ServerTypes, PaneTypes, Counted, [Next]_vars, Future, Unsent, Refused
  PROVE  Refused'
<1>0. call \in Nat /\ Calls \subseteq Nat /\ outcome \in [Calls -> Outcomes] /\ (pc # "idle" => call \in Calls)
  BY RunTypes, Numbers DEF ServerTypes
<1> SUFFICES ASSUME NEW c \in Calls, c \notin misled', outcome'[c] \in {"refused", "not_installed"}
             PROVE  Doomed(c)'
  BY DEF Refused
<1>1. c \notin misled
  BY MisledGrows
<1>2. ASSUME outcome'[c] = outcome[c] PROVE Doomed(c)'
  <2>1. Doomed(c)
    BY <1>1, <1>2 DEF Refused
  <2>2. ~(SendCommand /\ call = c)
    <3>1. SendCommand /\ call = c => outcome[c] = "none"
      BY DEF SendCommand, Future
    <3> QED
      BY <1>2, <3>1
  <2> QED
    BY <2>1, <2>2, DoomedStep
<1>3. CASE Begins
  <2>1. /\ call + 1 \in Calls /\ ~SendCommand
        /\ outcome' = outcome \/ outcome' = [outcome EXCEPT ![call + 1] = "refused"]
    BY <1>3, NoSend DEF Begins
  <2>2. CASE c = call + 1
    <3>1. Unstarted(c)
      BY <1>0, <2>2 DEF Future
    <3> QED
      BY <2>1, <3>1, UnstartedIsDoomed, DoomedStep
  <2>3. CASE c # call + 1
    BY <1>0, <1>2, <2>1, <2>3
  <2> QED
    BY <2>2, <2>3
<1>4. CASE Misses
  <2>1. pc = "boot_poll" /\ outcome' = [outcome EXCEPT ![call] = "not_installed"] /\ ~SendCommand
    BY <1>4, NoSend DEF Misses, Gives
  <2>2. CASE c = call
    <3>1. Doomed(c)
      BY <1>1, <2>1, <2>2 DEF Unsent
    <3> QED
      BY <2>1, <3>1, DoomedStep
  <2>3. CASE c # call
    BY <1>0, <1>2, <2>1, <2>3
  <2> QED
    BY <2>2, <2>3
<1>5. ASSUME NEW o, outcome' = [outcome EXCEPT ![call] = o], o \notin {"refused", "not_installed"} PROVE Doomed(c)'
  <2>1. c # call
    BY <1>0, <1>5
  <2> QED
    BY <1>0, <1>2, <1>5, <2>1
<1>6. CASE SendsBootstrap \/ SendsCommand \/ Leaves
  <2>1. outcome' = outcome \/ \E o \in {"send_failed", "timed_out", "capture_failed", "ok", "julia_error"} : Gives(o)
    BY <1>6 DEF SendsBootstrap, SendsCommand, SendsTo, Leaves
  <2>2. \A o : Gives(o) => outcome' = [outcome EXCEPT ![call] = o]
    BY DEF Gives
  <2> QED
    BY <1>2, <1>5, <2>1, <2>2
<1>7. CASE Binds \/ Trusts \/ Doubts \/ Installs \/ Goes \/ Reinjects \/ Pauses
  <2>1. outcome' = outcome
    BY <1>7, PauseKeeps DEF Binds, Trusts, Doubts, Installs, Goes, Reinjects
  <2> QED
    BY <1>2, <2>1
<1> QED
  BY ServerEffects, <1>3, <1>4, <1>6, <1>7

LEMMA NoSendBootstrap ==
  ASSUME ServerTypes, PaneTypes, Counted
  PROVE  SendBootstrap => pc = "bootstrap" /\ seq' # seq
<1>1. seq \in Nat
  BY RunTypes
<1> QED
  BY <1>1 DEF SendBootstrap, Send

LEMMA NoBootStep ==
  ASSUME ServerTypes, PaneTypes, Counted, [Next]_vars, NoBoot, ~SendBootstrap
  PROVE  NoBoot'
<1>0. input \in Seq(Items)
  BY RunTypes
<1>1. running.kind # "bootstrap" /\ Clean(input, Len(input))
  BY DEF NoBoot
<1>7. \A s : s = <<>> => Clean(s, Len(s))
  BY DEF Clean
<1>2. CASE input' = input /\ running'.kind # "bootstrap"
  <2>1. Clean(input', Len(input'))
    BY <1>1, <1>2
  <2> QED
    BY <1>2, <2>1 DEF NoBoot
<1>3. CASE input' = <<>> /\ running'.kind # "bootstrap"
  <2>1. Clean(input', Len(input'))
    BY <1>3, <1>7
  <2> QED
    BY <1>3, <2>1 DEF NoBoot
<1>4. ASSUME NEW item \in Items, Pasted(item), SendCommand PROVE NoBoot'
  <2>1. item.kind = "command"
    BY <1>4 DEF Pasted, SendCommand
  <2>2. CASE PastesNow(item)
    <3>1. running'.kind # "bootstrap" /\ input' = <<>>
      BY <1>1, <2>1, <2>2 DEF PastesNow, Rejects, Starts
    <3> QED
      BY <1>3, <3>1
  <2>3. CASE PastesAhead(item)
    <3>1. input' = Append(input, item) /\ running' = running
      BY <2>3 DEF PastesAhead
    <3>2. \A t, c : t = Append(input, item) => (Clean(input, Len(input)) /\ item.kind = "command" => Clean(t, Len(t)))
      BY <1>0, CommandsAppend
    <3>3. Clean(input', Len(input'))
      BY <1>1, <2>1, <3>1, <3>2
    <3> QED
      BY <1>1, <3>1, <3>3 DEF NoBoot
  <2> QED
    BY <1>4, <2>2, <2>3 DEF Pasted
<1>5. CASE Reads
  <2>1. input # <<>> /\ input' = Tail(input)
    BY <1>5 DEF Reads
  <2>2. \A t, c : t = Tail(input) => (Clean(input, Len(input)) => Clean(t, Len(t)) /\ input[1].kind = "command")
    BY <1>0, <2>1, CommandsTail
  <2>3. Clean(input', Len(input')) /\ input[1].kind = "command"
    BY <1>1, <2>1, <2>2
  <2>4. Head(input).kind = "command"
    BY <1>0, <2>1, <2>3, TailFacts
  <2>5. running' = running \/ running' = Head(input)
    BY <1>5 DEF Reads, Types, Rejects, Starts
  <2> QED
    BY <1>1, <2>3, <2>4, <2>5 DEF NoBoot
<1>6. CASE (\E w \in Seq(Whats) : Ends(w)) \/ Humans \/ Restarts \/ Floods \/ UNCHANGED paneVars
  <2>1. (input' = input \/ input' = <<>>) /\ (running' = running \/ running' \in {NoItem, Human})
    BY <1>6 DEF Ends, Humans, Restarts, Floods, paneVars
  <2>2. running'.kind # "bootstrap"
    BY <1>1, <2>1, ItemFacts
  <2> QED
    BY <1>2, <1>3, <2>1, <2>2
<1> QED
  BY PaneEffects, <1>4, <1>5, <1>6 DEF ReplMoves

LEMMA BootedIsQuiet ==
  ASSUME Booted, pc = "boot_poll", EndFound, PaneTypes
  PROVE  NoBoot
<1>1. input = <<>> /\ running \notin Items
  BY DEF Booted
<1>2. running \in {NoItem, Human}
  BY <1>1 DEF PaneTypes
<1>3. running.kind # "bootstrap"
  BY <1>2, ItemFacts
<1> QED
  BY <1>1, <1>3 DEF NoBoot, Clean

LEMMA QuietStep ==
  ASSUME ServerTypes, PaneTypes, Counted, [Next]_vars, Generations, Stale, Quiet, Booted
  PROVE  Quiet'
<1>0. gen \in Nat /\ \A g \in cache : g \in Nat
  BY RunTypes
<1>1. ASSUME cache' \subseteq cache, gen' = gen \/ gen' = gen + 1, ~SendBootstrap PROVE Quiet'
  <2> SUFFICES ASSUME NEW g \in cache', g = Unknown \/ g = gen' PROVE NoBoot'
    BY DEF Quiet
  <2>1. g \in cache /\ g \in Nat /\ g <= gen
    BY <1>0, <1>1 DEF Generations
  <2>2. g = Unknown \/ g = gen
    BY <1>0, <1>1, <2>1
  <2>3. NoBoot
    BY <2>1, <2>2 DEF Quiet
  <2> QED
    BY <1>1, <2>3, NoBootStep
<1>2. CASE Pauses
  <2>1. cache' = cache /\ seq' = seq
    BY <1>2, PauseKeeps
  <2>2. gen' = gen \/ gen' = gen + 1
    BY <1>2 DEF Pauses, ReplMoves, paneVars, Reads, Kept, Ends, Humans, Restarts, Floods
  <2> QED
    BY <1>1, <2>1, <2>2, NoSendBootstrap
<1>3. CASE SendsBootstrap
  <2>1. pc = "bootstrap" /\ cache' = cache
    BY <1>3 DEF SendsBootstrap, SendsTo
  <2>2. gen' = gen
    BY <1>3 DEF SendsBootstrap, SendsTo, Pasted, Kept, paneVars
  <2>3. \A g \in cache : g # Unknown /\ g # gen
    BY <1>0, <2>1 DEF Stale
  <2> QED
    BY <2>1, <2>2, <2>3 DEF Quiet
<1>4. CASE SendsCommand
  <2>1. pc = "paste" /\ cache' = cache
    BY <1>4 DEF SendsCommand, SendsTo
  <2>2. gen' = gen
    BY <1>4 DEF SendsCommand, SendsTo, Pasted, Kept, paneVars
  <2> QED
    BY <1>1, <2>1, <2>2, NoSendBootstrap
<1>5. CASE Installs
  <2>1. NoBoot /\ seq' = seq
    BY <1>5, BootedIsQuiet DEF Installs
  <2>2. NoBoot'
    BY <2>1, NoBootStep, NoSendBootstrap
  <2> QED
    BY <2>2 DEF Quiet
<1>6. CASE Begins \/ Binds \/ Trusts \/ Doubts \/ Goes \/ Misses \/ Leaves \/ Reinjects
  <2>1. cache' \subseteq cache /\ gen' = gen /\ seq' = seq
    BY <1>6 DEF Begins, Binds, Trusts, Doubts, Goes, Misses, Leaves, Reinjects, paneVars
  <2> QED
    BY <1>1, <2>1, NoSendBootstrap
<1> QED
  BY ServerEffects, <1>2, <1>3, <1>4, <1>5, <1>6

LEMMA SettledStep ==
  ASSUME ServerTypes, PaneTypes, Counted, [Next]_vars, Quiet, Booted, Settled
  PROVE  Settled'
<1> SUFFICES ASSUME pc' \in {"paste", "poll"}, call' \notin misled' PROVE NoBoot'
  BY DEF Settled
<1>1. call' \notin misled
  BY MisledGrows
<1>2. ASSUME NoBoot, pc # "bootstrap" \/ seq' = seq PROVE NoBoot'
  BY <1>2, NoBootStep, NoSendBootstrap
<1>3. CASE Pauses \/ Goes
  <2>1. pc' = pc /\ call' = call /\ seq' = seq
    BY <1>3, PauseKeeps DEF Goes
  <2> QED
    BY <1>1, <1>2, <2>1 DEF Settled
<1>4. CASE Trusts
  <2>1. call' = call /\ IsCurrent(gen) /\ seq' = seq
    BY <1>4 DEF Trusts
  <2>2. gen >= 1 /\ gen \in Nat
    BY BoundsAssumption DEF PaneTypes
  <2>3. \E g \in cache : g = Unknown \/ g = gen
    BY <2>1, <2>2 DEF IsCurrent, Unknown
  <2> QED
    BY <1>2, <2>1, <2>3 DEF Quiet
<1>5. CASE Installs
  <2>1. NoBoot /\ seq' = seq
    BY <1>5, BootedIsQuiet DEF Installs
  <2> QED
    BY <1>2, <2>1
<1>6. CASE SendsCommand
  <2>1. pc = "paste" /\ call' = call
    BY <1>6 DEF SendsCommand, SendsTo
  <2> QED
    BY <1>1, <1>2, <2>1 DEF Settled
<1>7. CASE Begins \/ Binds \/ Doubts \/ SendsBootstrap \/ Misses \/ Leaves \/ Reinjects
  <2>1. pc' \notin {"paste", "poll"}
    BY <1>7 DEF Begins, Binds, Doubts, SendsBootstrap, SendsTo, Misses, Leaves, Reinjects, Gives
  <2> QED
    BY <2>1
<1> QED
  BY ServerEffects, <1>3, <1>4, <1>5, <1>6, <1>7

\* How the END of an item comes to be on the screen.
LEMMA EndMoves ==
  ASSUME ServerTypes, PaneTypes, Counted, [Next]_vars, NEW m, Event("end", m) \in Elements(screen')
  PROVE  \/ Event("end", m) \in Elements(screen)
         \/ (\E w \in Seq(Whats) : Ends(w)) /\ running.id = m
         \/ Reads /\ lineByLine /\ Head(input).kind = "bootstrap" /\ Head(input).id = m
<1>0. screen \in Seq(Events) /\ input \in Seq(Items)
  BY RunTypes
<1>1. ASSUME NEW item \in Items, NEW w \in Seq(Whats), Show(item, w), Event("end", m) \notin Elements(screen)
      PROVE  item.id = m /\ \E k \in 1..Len(w) : w[k] = "end"
  <2>1. Elements(screen') = Elements(screen) \cup {Event(w[k], item.id) : k \in 1..Len(w)}
    BY <1>0, <1>1, Shows
  <2>2. PICK k \in 1..Len(w) : Event("end", m) = Event(w[k], item.id)
    BY <1>1, <2>1
  <2>3. \A a, n : Event(a, n).what = a /\ Event(a, n).id = n
    BY DEF Event
  <2>4. w[k] = "end" /\ item.id = m
    BY <2>2, <2>3
  <2> QED
    BY <2>4
<1>2. ASSUME NEW item \in Items, Show(item, <<"echo">>) PROVE Event("end", m) \in Elements(screen)
  <2>1. \A k \in 1..Len(<<"echo">>) : <<"echo">>[k] # "end"
    OBVIOUS
  <2> QED
    BY <1>1, <1>2, <2>1, WhatsAre
<1>3. ASSUME NEW item \in Items, Rejects(item) \/ Starts(item) PROVE Event("end", m) \in Elements(screen)
  <2>1. \A k \in 1..Len(<<"echo", "undefined">>) : <<"echo", "undefined">>[k] # "end"
    OBVIOUS
  <2>2. \A k \in 1..Len(<<"echo", "begin">>) : <<"echo", "begin">>[k] # "end"
    OBVIOUS
  <2> QED
    BY <1>1, <1>3, <2>1, <2>2, WhatsAre DEF Rejects, Starts
<1>4. ASSUME NEW item \in Items, Pasted(item) PROVE Event("end", m) \in Elements(screen)
  <2>1. CASE screen' = screen
    BY <2>1 DEF Elements
  <2> QED
    BY <1>2, <1>3, <1>4, <2>1 DEF Pasted, PastesNow, PastesAhead
<1>5. CASE Reads
  <2>1. Head(input) \in Items
    BY <1>0, <1>5, TailFacts DEF Reads
  <2>2. CASE lineByLine /\ Types(Head(input))
    <3>1. CASE Show(Head(input), <<"echo">>)
      BY <1>2, <2>1, <3>1
    <3>2. CASE Head(input).kind = "bootstrap" /\ Show(Head(input), <<"echo", "begin", "error", "end">>)
      BY <1>1, <1>5, <2>1, <2>2, <3>2, WhatsAre
    <3> QED
      BY <2>2, <3>1, <3>2 DEF Types
  <2> QED
    BY <1>3, <1>5, <2>1, <2>2 DEF Reads
<1>6. ASSUME NEW w \in Seq(Whats), Ends(w), Event("end", m) \notin Elements(screen) PROVE running.id = m
  BY <1>1, <1>6 DEF Ends
<1>7. CASE Humans \/ Restarts \/ UNCHANGED paneVars
  <2>1. screen' = screen
    BY <1>7 DEF Humans, Restarts, paneVars
  <2> QED
    BY <2>1 DEF Elements
<1>8. CASE Floods
  <2>1. screen # <<>> /\ screen' = Tail(screen)
    BY <1>8 DEF Floods
  <2>2. \A t : t = Tail(screen) => Elements(t) \subseteq Elements(screen)
    BY <1>0, <2>1, TailFacts
  <2> QED
    BY <2>1, <2>2
<1> QED
  BY PaneEffects, <1>4, <1>5, <1>6, <1>7, <1>8 DEF ReplMoves

\* A new marker has not ended.
LEMMA NewNotEnded ==
  ASSUME ServerTypes, PaneTypes, Counted, Ids, [Next]_vars, marker' = seq + 1, seen' = {},
         SendsBootstrap \/ SendsCommand
  PROVE  ~EndFound'
<1>0. seq \in Nat /\ input \in Seq(Items) /\ \A x \in Items : x.id \in Nat
  BY RunTypes
<1>1. PICK m : m = seq + 1
  OBVIOUS
<1>2. Event("end", m) \notin Elements(screen)
  <2>1. Event("end", m).id = m
    BY DEF Event
  <2> QED
    BY <1>0, <1>1, <2>1 DEF Ids
<1>3. ~(running \in Items /\ running.id = m)
  BY <1>0, <1>1 DEF Ids
<1>4. ~(Reads /\ Head(input).id = m)
  <2>1. input # <<>> => Head(input) = input[1] /\ 1 \in 1..Len(input)
    BY <1>0, TailFacts
  <2>2. input # <<>> => Head(input).id <= seq /\ Head(input) \in Items
    BY <1>0, <2>1, TailFacts DEF Ids
  <2> QED
    BY <1>0, <1>1, <2>2 DEF Reads
<1>5. Event("end", m) \notin Elements(screen')
  BY <1>2, <1>3, <1>4, EndMoves DEF Ends
<1>6. EndFound' <=> "end" \in seen' \/ Event("end", marker') \in Elements(screen')
  BY DEF EndFound, Event
<1> QED
  BY <1>1, <1>5, <1>6

LEMMA BootedStep ==
  ASSUME ServerTypes, PaneTypes, Counted, Ids, [Next]_vars, Latest, Booted
  PROVE  Booted'
<1>0. /\ seq \in Nat /\ input \in Seq(Items) /\ Len(input) \in Nat /\ \A x \in Items : x.id \in Nat
      /\ \A k \in 1..Len(input) : input[k] \in Items
  BY RunTypes
<1> SUFFICES ASSUME pc' = "boot_poll", EndFound' PROVE input' = <<>> /\ running' \notin Items
  BY DEF Booted
<1>6. EndFound' <=> "end" \in seen' \/ Event("end", marker') \in Elements(screen')
  BY DEF EndFound, Event
<1>1. CASE SendsBootstrap
  <2>1. marker' = seq + 1 /\ seen' = {}
    BY <1>1 DEF SendsBootstrap, SendsTo, Gives
  <2> QED
    BY <1>1, <2>1, NewNotEnded
<1>2. CASE Goes
  <2>1. pc = "boot_poll" /\ seen' \in {seen, Found} /\ marker' = marker /\ screen' = screen /\ input' = input /\ running' = running
    BY <1>2 DEF Goes, paneVars
  <2>2. EndFound
    BY <1>6, <2>1, FoundIs DEF EndFound
  <2> QED
    BY <2>1, <2>2 DEF Booted
<1>3. CASE Pauses
  <2>1. pc = "boot_poll" /\ marker' = marker /\ seen' = seen /\ marker = seq
    BY <1>3, PauseKeeps DEF Latest
  <2>2. CASE EndFound
    <3>1. input = <<>> /\ running \notin Items
      BY <2>1, <2>2 DEF Booted
    <3> QED
      BY <1>3, <3>1, ItemFacts DEF Pauses, ReplMoves, paneVars, Reads, Ends, Humans, Restarts, Floods
  <2>3. CASE ~EndFound
    <3>1. Event("end", marker) \in Elements(screen') /\ Event("end", marker) \notin Elements(screen)
      BY <1>6, <2>1, <2>3 DEF EndFound
    <3>2. \A m : m = marker => \/ (\E w \in Seq(Whats) : Ends(w)) /\ running.id = m
                               \/ Reads /\ lineByLine /\ Head(input).id = m
      BY <3>1, EndMoves
    <3>3. \/ (\E w \in Seq(Whats) : Ends(w)) /\ running.id = seq
          \/ Reads /\ lineByLine /\ Head(input).id = seq
      BY <2>1, <3>2
    <3>4. CASE (\E w \in Seq(Whats) : Ends(w)) /\ running.id = seq
      <4>1. running \in Items /\ running' = NoItem /\ input' = input
        BY <3>4 DEF Ends
      <4>2. \A i \in 1..Len(input) : FALSE
        BY <1>0, <3>4, <4>1 DEF Ids
      <4>3. input = <<>>
        BY <1>0, <4>2
      <4> QED
        BY <4>1, <4>3, ItemFacts
    <3>5. CASE Reads /\ lineByLine /\ Head(input).id = seq
      <4>1. input # <<>> /\ input' = Tail(input) /\ running' = NoItem
        BY <3>5 DEF Reads, Types
      <4>2. Head(input) = input[1] /\ Len(input) \in Nat \ {0} /\ 1 \in 1..Len(input)
        BY <1>0, <4>1, TailFacts
      <4>3. ~(2 \in 1..Len(input))
        BY <1>0, <3>5, <4>2 DEF Ids
      <4>4. Len(input) = 1
        <5>1. \A n \in Nat \ {0} : 2 \in 1..n \/ n = 1
          OBVIOUS
        <5> QED
          BY <4>2, <4>3, <5>1
      <4>5. Tail(input) = <<>>
        <5>1. Tail(input) \in Seq(Items) /\ Len(Tail(input)) = 0
          BY <1>0, <4>1, <4>4, TailFacts
        <5>2. \A s \in Seq(Items) : Len(s) = 0 => s = <<>>
          OBVIOUS
        <5> QED
          BY <5>1, <5>2
      <4> QED
        BY <4>1, <4>5, ItemFacts
    <3> QED
      BY <3>3, <3>4, <3>5
  <2> QED
    BY <2>2, <2>3
<1>4. CASE Begins \/ Binds \/ Trusts \/ Doubts \/ SendsCommand \/ Installs \/ Misses \/ Leaves \/ Reinjects
  <2>1. pc' # "boot_poll"
    BY <1>4 DEF Begins, Binds, Trusts, Doubts, SendsCommand, SendsTo, Installs, Misses, Leaves, Reinjects, Gives
  <2> QED
    BY <2>1
<1> QED
  BY ServerEffects, <1>1, <1>2, <1>3, <1>4

\* How the server comes to poll for a command, and what happens while it does.
LEMMA PollFrom ==
  ASSUME ServerTypes, PaneTypes, Counted, [Next]_vars, pc' = "poll"
  PROVE  \/ /\ SendCommand /\ SendsCommand /\ pc = "paste" /\ marker' = seq + 1 /\ seq' = seq + 1 /\ seen' = {}
            /\ UNCHANGED <<call, pass, misled>>
            /\ \E item \in Items : Pasted(item) /\ item.kind = "command"
         \/ /\ ~SendCommand /\ pc = "poll" /\ UNCHANGED <<call, pass, misled, marker, seq>>
            /\ \/ seen' = seen /\ ReplMoves
               \/ seen' \in {seen, Found} /\ UNCHANGED paneVars
<1>0. seq \in Nat
  BY RunTypes
<1>1. CASE SendsCommand
  <2>1. /\ pc = "paste" /\ marker' = seq + 1 /\ seq' = seq + 1 /\ seen' = {} /\ UNCHANGED <<call, pass, misled>>
        /\ \E item \in Items : Pasted(item)
    BY <1>1 DEF SendsCommand, SendsTo, Gives
  <2>2. \E item \in Items : Pasted(item) /\ item.kind = "command"
    BY <2>1 DEF Pasted
  <2>3. SendCommand
    BY <1>0, <2>1, Steps DEF StartCall, Bind, ReadGeneration, SendBootstrap, PollBootstrap, BootstrapCaptureFails,
       PollCommand, Reinject, CaptureFails, ReplReads, ReplFinishes, HumanRuns, HumanFinishes, Restart, ReplFloods,
       serverVars, vars
  <2> QED
    BY <1>1, <2>1, <2>2, <2>3
<1>2. CASE Goes
  BY <1>2, NoSend DEF Goes
<1>3. CASE Pauses
  <2>1. ~SendCommand /\ pc = "poll" /\ UNCHANGED <<call, pass, misled, marker, seq, seen>>
    BY <1>3, PauseKeeps, NoSend
  <2> QED
    BY <1>3, <2>1 DEF Pauses
<1>4. CASE Begins \/ Binds \/ Trusts \/ Doubts \/ SendsBootstrap \/ Installs \/ Misses \/ Leaves \/ Reinjects
  <2>1. pc' # "poll"
    BY <1>4 DEF Begins, Binds, Trusts, Doubts, SendsBootstrap, SendsTo, Installs, Misses, Leaves, Reinjects, Gives
  <2> QED
    BY <2>1
<1> QED
  BY ServerEffects, <1>1, <1>2, <1>3, <1>4

\* Ids that are not given out yet.
LEMMA NewIds ==
  ASSUME ServerTypes, PaneTypes, Counted, Ids
  PROVE  /\ \A k \in 1..Len(input) : input[k].id # seq + 1
         /\ running \in Items => running.id # seq + 1
         /\ \A m : ~MissedIn(screen, m) \/ m # seq + 1
<1>0. seq \in Nat /\ Len(input) \in Nat /\ (\A k \in 1..Len(input) : input[k] \in Items) /\ \A x \in Items : x.id \in Nat
  BY RunTypes
<1>1. \A k \in 1..Len(input) : input[k].id # seq + 1
  BY <1>0 DEF Ids
<1>2. running \in Items => running.id # seq + 1
  BY <1>0 DEF Ids
<1>3. ASSUME NEW m, MissedIn(screen, m), m = seq + 1 PROVE FALSE
  <2>1. PICK i \in 1..Len(screen) : screen[i] = Event("echo", m)
    BY <1>3 DEF MissedIn
  <2>2. screen \in Seq(Events)
    BY RunTypes
  <2>3. screen[i] \in Elements(screen) /\ Event("echo", m).id = m
    BY <2>1, <2>2 DEF Elements, Event
  <2> QED
    BY <1>0, <1>3, <2>1, <2>3 DEF Ids
<1> QED
  BY <1>1, <1>2, <1>3

LEMMA MineStep ==
  ASSUME ServerTypes, PaneTypes, Counted, Ids, [Next]_vars, Mine
  PROVE  Mine'
<1>0. input \in Seq(Items) /\ Len(input) \in Nat
  BY RunTypes
<1> SUFFICES ASSUME pc' = "poll"
             PROVE  /\ \A k \in 1..Len(input') :
                          input'[k].id = marker' => input'[k].kind = "command" /\ input'[k].call = call'
                    /\ running' \in Items /\ running'.id = marker' => running'.kind = "command" /\ running'.call = call'
  BY DEF Mine
<1>1. ASSUME NEW item \in Items, Pasted(item), item.kind = "command", marker' = seq + 1, call' = call
      PROVE  /\ \A k \in 1..Len(input') :
                   input'[k].id = marker' => input'[k].kind = "command" /\ input'[k].call = call'
             /\ running' \in Items /\ running'.id = marker' => running'.kind = "command" /\ running'.call = call'
  <2>1. item.call = call
    BY <1>1 DEF Pasted
  <2>2. CASE PastesNow(item)
    <3>1. input' = <<>> /\ (running' = NoItem \/ running' = item)
      BY <2>2 DEF PastesNow, Rejects, Starts
    <3> QED
      BY <1>1, <2>1, <3>1, ItemFacts
  <2>3. CASE PastesAhead(item)
    <3>1. input' = Append(input, item) /\ running' = running
      BY <2>3 DEF PastesAhead
    <3>2. \A t : t = Append(input, item) => /\ \A k \in 1..Len(t) : k \in 1..Len(input) \/ k = Len(input) + 1
                                            /\ \A k \in 1..Len(input) : t[k] = input[k]
                                            /\ t[Len(input) + 1] = item
      BY <1>0
    <3>3. /\ \A k \in 1..Len(input') : k \in 1..Len(input) \/ k = Len(input) + 1
          /\ \A k \in 1..Len(input) : input'[k] = input[k]
          /\ input'[Len(input) + 1] = item
      BY <3>1, <3>2
    <3> QED
      BY <1>1, <2>1, <3>1, <3>3, NewIds
  <2> QED
    BY <1>1, <2>2, <2>3 DEF Pasted
<1>2. CASE pc = "poll" /\ UNCHANGED <<call, marker>> /\ (ReplMoves \/ UNCHANGED paneVars)
  <2>1. CASE Reads
    <3>1. input # <<>> /\ input' = Tail(input) /\ (running' = NoItem \/ running' = Head(input))
      BY <2>1 DEF Reads, Types, Rejects, Starts
    <3>2. \A t : t = Tail(input) => \A k \in 1..Len(t) : t[k] = input[k + 1] /\ k + 1 \in 1..Len(input)
      BY <1>0, <3>1, CommandsTail
    <3>3. \A k \in 1..Len(input') : input'[k] = input[k + 1] /\ k + 1 \in 1..Len(input)
      BY <3>1, <3>2
    <3>4. Head(input) = input[1] /\ 1 \in 1..Len(input)
      BY <1>0, <3>1, TailFacts
    <3> QED
      BY <1>2, <3>1, <3>3, <3>4, ItemFacts DEF Mine
  <2>2. CASE (\E w \in Seq(Whats) : Ends(w)) \/ Humans \/ Restarts \/ Floods \/ UNCHANGED paneVars
    <3>1. (input' = input \/ input' = <<>>) /\ (running' = running \/ running' \in {NoItem, Human})
      BY <2>2 DEF Ends, Humans, Restarts, Floods, paneVars
    <3> QED
      BY <1>2, <3>1, ItemFacts DEF Mine
  <2> QED
    BY <1>2, <2>1, <2>2 DEF ReplMoves
<1> QED
  BY PollFrom, <1>1, <1>2

LEMMA FirstStep ==
  ASSUME ServerTypes, PaneTypes, Counted, [Next]_vars, Unsent, First
  PROVE  First'
<1>0. input \in Seq(Items) /\ Len(input) \in Nat /\ (pc # "idle" => call \in Calls)
  BY RunTypes, Numbers
<1> SUFFICES ASSUME pc' = "poll", pass' = 1, call' \notin misled'
             PROVE  \A k \in Pending(call)' : input'[k].id = marker'
  BY DEF First, Polls
<1>1. call' \notin misled
  BY MisledGrows
<1>2. ASSUME SendCommand, pc = "paste", marker' = seq + 1, call' = call, pass' = pass,
             NEW item \in Items, Pasted(item)
      PROVE  \A k \in Pending(call)' : input'[k].id = marker'
  <2>1. call \in Calls /\ Unstarted(call) /\ item.id = seq + 1
    BY <1>0, <1>1, <1>2 DEF Unsent, Pasted
  <2>2. \A c \in Calls : c = call => \A k \in Pending(c)' : k = Len(input) + 1
    BY <1>2, <2>1, PendingOfSend
  <2>3. \A c : c = call => Pending(c)' = Pending(call)'
    BY <1>2 DEF Pending
  <2>4. \A k \in Pending(call)' : k = Len(input) + 1
    BY <2>1, <2>2, <2>3
  <2>5. input' = <<>> => Pending(call)' = {}
    BY DEF Pending, Commands
  <2>6. input' = Append(input, item) => input'[Len(input) + 1] = item
    BY <1>0
  <2> QED
    BY <1>2, <2>1, <2>4, <2>5, <2>6 DEF Pasted, PastesNow, PastesAhead
<1>3. CASE pc = "poll" /\ UNCHANGED <<call, marker, pass, seq>> /\ (ReplMoves \/ UNCHANGED paneVars)
  <2>1. \A k \in Pending(call) : input[k].id = marker
    BY <1>1, <1>3 DEF First, Polls
  <2>2. call \in Calls
    BY <1>0, <1>3
  <2>3. \A c : c = call => Pending(c)' = Pending(call)'
    BY <1>3 DEF Pending
  <2>4. CASE Reads
    <3>1. \A c \in Calls : c = call => \A k \in Pending(c)' : k + 1 \in Pending(c)
      BY <2>4, PendingMoves
    <3>2. \A k \in Pending(call)' : k + 1 \in Pending(call)
      BY <2>2, <2>3, <3>1
    <3>3. \A t : t = Tail(input) => \A k \in 1..Len(t) : t[k] = input[k + 1]
      BY <1>0, <2>4, CommandsTail DEF Reads
    <3>4. \A k \in 1..Len(input') : input'[k] = input[k + 1]
      BY <2>4, <3>3 DEF Reads
    <3>5. \A k \in Pending(call)' : k \in 1..Len(input')
      BY DEF Pending, Commands
    <3> QED
      BY <1>3, <2>1, <3>2, <3>4, <3>5
  <2>5. CASE input' = input \/ input' = <<>>
    <3>1. \A k \in Pending(call)' : k \in Pending(call) /\ input' = input
      BY <1>3, <2>5 DEF Pending, Commands
    <3> QED
      BY <1>3, <2>1, <3>1
  <2> QED
    BY <1>3, <2>4, <2>5 DEF ReplMoves, paneVars, Ends, Humans, Restarts, Floods
<1> QED
  BY PollFrom, <1>2, <1>3

\* What a step of the pane leaves: the kind of REPL, what was rejected, ended and started.
LEMMA PaneGrows ==
  ASSUME ServerTypes, PaneTypes, Counted, [Next]_vars
  PROVE  /\ lineByLine' = lineByLine /\ rejected \subseteq rejected' /\ done \subseteq done'
         /\ \A c \in Calls : ran'[c] >= ran[c]
<1>1. \A c \in Calls : ran'[c] >= ran[c]
  <2>1. \A c \in Calls : ran[c] \in Nat
    BY RunTypes
  <2>2. \A c \in Calls : ran'[c] = ran[c] \/ ran'[c] = ran[c] + 1
    BY RanMoves
  <2> QED
    BY <2>1, <2>2
<1>2. CASE UNCHANGED paneVars
  BY <1>1, <1>2 DEF paneVars
<1>3. ASSUME NEW item \in Items, Pasted(item)
      PROVE lineByLine' = lineByLine /\ rejected \subseteq rejected' /\ done \subseteq done'
  BY <1>3 DEF Pasted, Kept, PastesNow, PastesAhead, Rejects, Starts
<1>4. CASE ReplMoves
  <2>1. CASE Reads
    BY <2>1, <1>1 DEF Reads, Kept, Types, Rejects, Starts
  <2>2. CASE (\E w \in Seq(Whats) : Ends(w)) \/ Humans \/ Restarts \/ Floods
    BY <2>2, <1>1 DEF Ends, Humans, Restarts, Floods
  <2> QED
    BY <1>4, <2>1, <2>2 DEF ReplMoves
<1> QED
  BY PaneEffects, <1>1, <1>2, <1>3, <1>4

\* The item at the head of the input.
LEMMA HeadIs ==
  ASSUME ServerTypes, PaneTypes, Counted, Reads
  PROVE  Head(input) \in Items /\ Head(input) = input[1] /\ 1 \in 1..Len(input)
<1>1. input \in Seq(Items) /\ input # <<>>
  BY RunTypes DEF Reads
<1> QED
  BY <1>1, TailFacts

\* What the REPL shows while the server waits.
LEMMA MovesShow ==
  ASSUME ServerTypes, PaneTypes, Counted, ReplMoves, NEW m
  PROVE  /\ MissedIn(screen', m) => MissedIn(screen, m) \/ (Reads /\ ~lineByLine /\ Rejects(Head(input)))
         /\ BegunIn(screen, m) => \/ BegunIn(screen', m)
                                  \/ Reads /\ (lineByLine \/ Head(input).id = m)
<1>0. screen \in Seq(Events)
  BY RunTypes
<1>1. CASE Reads
  <2>1. Head(input) \in Items
    BY <1>1, HeadIs
  <2>2. CASE lineByLine /\ Types(Head(input))
    <3>1. CASE Show(Head(input), <<"echo">>)
      <4>1. \A k \in 1..Len(<<"echo">>) : <<"echo">>[k] # "undefined"
        OBVIOUS
      <4> QED
        BY <1>0, <1>1, <2>1, <2>2, <3>1, <4>1, WhatsAre, ShowsOn
    <3>2. CASE Show(Head(input), <<"echo", "begin", "error", "end">>)
      <4>1. \A k \in 1..Len(<<"echo", "begin", "error", "end">>) : <<"echo", "begin", "error", "end">>[k] # "undefined"
        OBVIOUS
      <4> QED
        BY <1>0, <1>1, <2>1, <2>2, <3>2, <4>1, WhatsAre, ShowsOn
    <3> QED
      BY <2>2, <3>1, <3>2 DEF Types
  <2>3. CASE ~lineByLine /\ Rejects(Head(input))
    <3>1. Show(Head(input), <<"echo", "undefined">>)
      BY <2>3 DEF Rejects
    <3>2. Head(input).id # m /\ BegunIn(screen, m) => BegunIn(screen', m)
      BY <1>0, <2>1, <3>1, WhatsAre, ShowsOn
    <3> QED
      BY <1>1, <2>3, <3>2
  <2>4. CASE ~lineByLine /\ Starts(Head(input))
    <3>1. Show(Head(input), <<"echo", "begin">>)
      BY <2>4 DEF Starts
    <3>2. \A k \in 1..Len(<<"echo", "begin">>) : <<"echo", "begin">>[k] # "undefined"
      OBVIOUS
    <3>3. /\ Head(input).id # m /\ BegunIn(screen, m) => BegunIn(screen', m)
          /\ MissedIn(screen', m) => MissedIn(screen, m)
      BY <1>0, <2>1, <3>1, <3>2, WhatsAre, ShowsOn
    <3> QED
      BY <1>1, <2>4, <3>3
  <2> QED
    BY <1>1, <2>2, <2>3, <2>4 DEF Reads
<1>2. ASSUME NEW w \in Seq(Whats), Ends(w)
      PROVE  (MissedIn(screen', m) => MissedIn(screen, m)) /\ (BegunIn(screen, m) => BegunIn(screen', m))
  <2>1. running \in Items /\ Show(running, w) /\ (w = <<"end">> \/ w = <<"error", "end">>)
    BY <1>2 DEF Ends
  <2>2. \A k \in 1..Len(<<"end">>) : <<"end">>[k] \notin {"undefined", "echo"}
    OBVIOUS
  <2>3. \A k \in 1..Len(<<"error", "end">>) : <<"error", "end">>[k] \notin {"undefined", "echo"}
    OBVIOUS
  <2>4. \A k \in 1..Len(w) : w[k] \notin {"undefined", "echo"}
    BY <2>1, <2>2, <2>3
  <2>5. (\A k \in 1..Len(w) : w[k] # "undefined") /\ (\A k \in 1..Len(w) : w[k] # "echo")
    BY <2>4
  <2> QED
    BY <1>0, <2>1, <2>5, ShowsOn
<1>3. CASE Humans \/ Restarts
  BY <1>3 DEF Humans, Restarts
<1>4. CASE Floods
  <2>1. screen # <<>> /\ screen' = Tail(screen)
    BY <1>4 DEF Floods
  <2>2. \A t : t = Tail(screen) => (MissedIn(t, m) => MissedIn(screen, m)) /\ (BegunIn(screen, m) => BegunIn(t, m))
    BY <1>0, <2>1, EventsTail
  <2> QED
    BY <2>1, <2>2
<1> QED
  BY <1>1, <1>2, <1>3, <1>4 DEF ReplMoves

\* The command sent is missed only if it was rejected at once.
LEMMA SentMissed ==
  ASSUME ServerTypes, PaneTypes, Counted, Ids, marker' = seq + 1, NEW item \in Items, Pasted(item),
         MissedIn(screen', marker')
  PROVE  PastesNow(item) /\ Rejects(item) /\ marker' \in rejected' /\ input' = <<>>
<1>0. screen \in Seq(Events)
  BY RunTypes
<1>1. item.id = marker'
  BY DEF Pasted
<1>2. \A m : m = marker' => ~MissedIn(screen, m) /\ MissedIn(screen', m)
  BY NewIds
<1>3. ASSUME NEW w \in Seq(Whats), Show(item, w), \A k \in 1..Len(w) : w[k] # "undefined" PROVE FALSE
  <2>1. \A m : MissedIn(screen', m) => MissedIn(screen, m)
    BY <1>0, <1>3, ShowsOn
  <2> QED
    BY <1>2, <2>1
<1>4. ~Show(item, <<"echo">>)
  <2>1. \A k \in 1..Len(<<"echo">>) : <<"echo">>[k] # "undefined"
    OBVIOUS
  <2> QED
    BY <1>3, <2>1, WhatsAre
<1>5. ~Show(item, <<"echo", "begin">>)
  <2>1. \A k \in 1..Len(<<"echo", "begin">>) : <<"echo", "begin">>[k] # "undefined"
    OBVIOUS
  <2> QED
    BY <1>3, <2>1, WhatsAre
<1>6. screen' # screen
  BY <1>2
<1>7. PastesNow(item) /\ Rejects(item)
  BY <1>4, <1>5, <1>6 DEF Pasted, PastesNow, PastesAhead, Starts
<1> QED
  BY <1>1, <1>7 DEF PastesNow, Rejects

\* A command that is polled for is missed as long as it was, or since it was rejected.
LEMMA StillMissed ==
  ASSUME ServerTypes, PaneTypes, Counted, MissedIn(screen', marker'), marker' = marker,
         ReplMoves \/ UNCHANGED paneVars, ~MissedIn(screen, marker)
  PROVE  ~lineByLine /\ ~runtime /\ Reads
<1>1. MissedIn(screen', marker)
  OBVIOUS
<1>2. ReplMoves
  BY <1>1 DEF paneVars
<1>3. \A m : m = marker => (MissedIn(screen', m) => MissedIn(screen, m) \/ (Reads /\ ~lineByLine /\ Rejects(Head(input))))
  BY <1>2, MovesShow
<1> QED
  BY <1>1, <1>3 DEF Rejects

LEMMA MissedByLineStep ==
  ASSUME ServerTypes, PaneTypes, Counted, Ids, [Next]_vars, MissedByLine
  PROVE  MissedByLine'
<1>0. lineByLine' = lineByLine /\ rejected \subseteq rejected'
  BY PaneGrows
<1> SUFFICES ASSUME pc' = "poll", MissedIn(screen', marker'), lineByLine PROVE marker' \in rejected'
  BY <1>0 DEF MissedByLine
<1>1. CASE marker' = seq + 1 /\ \E item \in Items : Pasted(item)
  BY <1>1, SentMissed
<1>2. CASE pc = "poll" /\ marker' = marker /\ (ReplMoves \/ UNCHANGED paneVars)
  BY <1>0, <1>2, StillMissed DEF MissedByLine
<1> QED
  BY PollFrom, <1>1, <1>2

LEMMA MissingStep ==
  ASSUME ServerTypes, PaneTypes, Counted, Ids, [Next]_vars, Settled, Missing
  PROVE  Missing'
<1>0. (pc # "idle" => call \in Calls) /\ lineByLine' = lineByLine
  BY Numbers, PaneGrows
<1> SUFFICES ASSUME pc' = "poll", pass' = 1, call' \notin misled', ~lineByLine, MissedIn(screen', marker')
             PROVE  Pending(call)' = {} \/ ~runtime'
  BY <1>0 DEF Missing, Polls
<1>1. call' \notin misled
  BY MisledGrows
<1>2. ASSUME marker' = seq + 1, NEW item \in Items, Pasted(item) PROVE Pending(call)' = {}
  <2>1. input' = <<>>
    BY <1>2, SentMissed
  <2> QED
    BY <2>1 DEF Pending, Commands
<1>3. CASE ~SendCommand /\ pc = "poll" /\ UNCHANGED <<call, pass, marker, seq>> /\ (ReplMoves \/ UNCHANGED paneVars)
  <2>1. NoBoot /\ Polls
    BY <1>1, <1>3 DEF Settled, Polls
  <2>2. ~runtime => ~runtime'
    BY <1>3, <2>1 DEF NoBoot, ReplMoves, paneVars, Reads, Kept, Ends, Humans, Restarts, Floods
  <2>3. Pending(call) = {} => Pending(call)' = {}
    <3>1. \A c \in Calls : c = call => (Pending(c) = {} => Pending(c)' = {})
      BY <1>3, NonePendingStep
    <3>2. \A c : c = call => Pending(c)' = Pending(call)'
      BY <1>3 DEF Pending
    <3> QED
      BY <1>0, <1>3, <3>1, <3>2
  <2>4. CASE MissedIn(screen, marker)
    BY <2>1, <2>2, <2>3, <2>4 DEF Missing
  <2>5. CASE ~MissedIn(screen, marker)
    BY <1>3, <2>2, <2>5, StillMissed
  <2> QED
    BY <2>4, <2>5
<1> QED
  BY PollFrom, <1>2, <1>3

LEMMA RejectedStep ==
  ASSUME ServerTypes, PaneTypes, Counted, Ids, [Next]_vars, Once, Unsent, Mine, Rejected
  PROVE  Rejected'
<1>0. /\ seq \in Nat /\ (pc # "idle" => call \in Calls) /\ (\A c \in Calls : ran[c] \in Nat)
      /\ (\A m \in rejected : m \in Nat) /\ (\A x \in Items : x.id \in Nat) /\ Len(input) \in Nat
  <2>1. \A m \in rejected : m \in Nat
    BY DEF PaneTypes, Markers
  <2> QED
    BY <2>1, RunTypes, Numbers
<1>1. \A m \in rejected' : m <= seq'
  <2>1. \A m \in rejected : m <= seq
    BY DEF Rejected
  <2>2. seq' = seq \/ seq' = seq + 1
    BY ServerEffects, PauseKeeps DEF Begins, Binds, Trusts, Doubts, SendsBootstrap, SendsCommand, SendsTo, Installs,
       Goes, Misses, Leaves, Reinjects
  <2>3. ASSUME NEW item \in Items, Pasted(item), SendBootstrap \/ SendCommand PROVE \A m \in rejected' : m <= seq'
    <3>1. seq' = seq + 1 /\ item.id = seq + 1
      BY <2>3 DEF SendBootstrap, SendCommand, Send, Pasted
    <3>2. \A m \in rejected' : m \in rejected \/ m = seq + 1
      BY <2>3, <3>1 DEF Pasted, PastesNow, PastesAhead, Rejects, Starts
    <3>3. \A m \in rejected : m <= seq + 1
      BY <1>0, <2>1
    <3> QED
      BY <1>0, <3>1, <3>2, <3>3
  <2>4. CASE Reads
    <3>1. Head(input).id <= seq
      BY <2>4, HeadIs DEF Ids
    <3>2. \A m \in rejected' : m \in rejected \/ m = Head(input).id
      BY <2>4 DEF Reads, Types, Rejects, Starts
    <3>3. \A m \in rejected' : m \in Nat /\ m <= seq
      BY <1>0, <2>1, <2>4, <3>1, <3>2, HeadIs
    <3> QED
      BY <1>0, <2>2, <3>3
  <2>5. CASE rejected' = rejected
    BY <1>0, <2>1, <2>2, <2>5
  <2> QED
    BY PaneEffects, <2>3, <2>4, <2>5 DEF ReplMoves, paneVars, Ends, Humans, Restarts, Floods
<1> SUFFICES ASSUME pc' = "poll", pass' = 1, call' \notin misled', marker' \in rejected'
             PROVE  Unstarted(call)'
  BY <1>1 DEF Rejected, Polls
<1>2. call' \notin misled
  BY MisledGrows
<1>3. ASSUME SendCommand, pc = "paste", marker' = seq + 1, call' = call, NEW item \in Items, Pasted(item)
      PROVE  Unstarted(call)'
  <2>1. Unstarted(call)
    BY <1>2, <1>3 DEF Unsent
  <2>2. marker' \notin rejected
    BY <1>0, <1>3 DEF Rejected
  <2>3. PastesNow(item) /\ Rejects(item)
    BY <1>3, <2>2 DEF Pasted, PastesNow, PastesAhead, Starts
  <2>4. ran' = ran /\ input' = <<>>
    BY <2>3 DEF PastesNow, Rejects
  <2> QED
    BY <1>3, <2>1, <2>4 DEF Unstarted, Pending, Commands
<1>4. CASE ~SendCommand /\ pc = "poll" /\ UNCHANGED <<call, pass, marker, seq>> /\ (ReplMoves \/ UNCHANGED paneVars)
  <2>0. call \in Calls /\ Polls /\ call \notin misled
    BY <1>0, <1>2, <1>4 DEF Polls
  <2>1. CASE marker \in rejected
    <3>1. Unstarted(call)
      BY <2>0, <2>1 DEF Rejected
    <3>2. \A c \in Calls : c = call => Unstarted(c)'
      BY <1>4, <3>1, UnstartedStep
    <3>3. \A c : c = call => Unstarted(c)' = Unstarted(call)'
      BY <1>4 DEF Unstarted, Pending
    <3> QED
      BY <2>0, <3>2, <3>3
  <2>2. CASE marker \notin rejected
    <3>1. rejected' # rejected
      BY <1>4, <2>2
    <3>2. Reads /\ Rejects(Head(input))
      BY <1>4, <3>1 DEF paneVars, ReplMoves, Ends, Humans, Restarts, Floods, Reads, Types, Starts
    <3>3. Head(input).id = marker
      BY <1>4, <2>2, <3>2 DEF Rejects
    <3>4. Head(input).kind = "command" /\ Head(input).call = call
      BY <1>4, <3>2, <3>3, HeadIs DEF Mine
    <3>5. 1 \in Pending(call)
      BY <3>2, <3>4, HeadIs DEF Pending, Commands
    <3>6. ran[call] = 0 /\ (\A i \in Pending(call) : i = 1)
      BY <2>0, <3>5 DEF Once
    <3>7. \A c \in Calls : c = call => \A k \in Pending(c)' : k + 1 \in Pending(c) /\ k >= 1 /\ k \in Nat
      BY <3>2, PendingMoves
    <3>8. \A c \in Calls : c = call => \A k \in Pending(c)' : FALSE
      <4> SUFFICES ASSUME NEW c \in Calls, c = call, NEW k \in Pending(c)' PROVE FALSE
        OBVIOUS
      <4>1. k + 1 = 1 /\ k >= 1 /\ k \in Nat
        BY <3>6, <3>7
      <4> QED
        BY <4>1
    <3>9. \A c : c = call => Pending(c)' = Pending(call)'
      BY <1>4 DEF Pending
    <3>10. Pending(call)' = {} /\ ran'[call'] = 0
      BY <1>4, <2>0, <3>2, <3>6, <3>8, <3>9 DEF Rejects
    <3> QED
      BY <3>10 DEF Unstarted
  <2> QED
    BY <2>1, <2>2
<1> QED
  BY PollFrom, <1>3, <1>4

LEMMA BegunStep ==
  ASSUME ServerTypes, PaneTypes, Counted, [Next]_vars, Once, Unsent, Mine, First, Begun
  PROVE  Begun'
<1>0. /\ (pc # "idle" => call \in Calls) /\ (\A c \in Calls : ran[c] \in Nat) /\ lineByLine' = lineByLine
      /\ screen \in Seq(Events)
  BY RunTypes, Numbers, PaneGrows
<1> SUFFICES ASSUME pc' = "poll", pass' = 1, call' \notin misled', ~lineByLine, ran'[call'] > 0
             PROVE  BegunIn(screen', marker')
  BY <1>0 DEF Begun, Polls
<1>1. call' \notin misled
  BY MisledGrows
<1>2. ASSUME NEW item \in Items, Starts(item) PROVE BegunIn(screen', item.id)
  <2>1. Show(item, <<"echo", "begin">>)
    BY <1>2 DEF Starts
  <2>2. Len(<<"echo", "begin">>) > 0 /\ <<"echo", "begin">>[Len(<<"echo", "begin">>)] = "begin"
    OBVIOUS
  <2> QED
    BY <1>0, <2>1, <2>2, WhatsAre, ShowsOn
<1>3. ASSUME SendCommand, pc = "paste", marker' = seq + 1, call' = call, NEW item \in Items, Pasted(item)
      PROVE  BegunIn(screen', marker')
  <2>1. Unstarted(call)
    BY <1>1, <1>3 DEF Unsent
  <2>2. ran' # ran
    BY <1>0, <1>3, <2>1 DEF Unstarted
  <2>3. Starts(item) /\ item.id = marker'
    BY <1>3, <2>2 DEF Pasted, PastesNow, PastesAhead, Rejects
  <2> QED
    BY <1>2, <2>3
<1>4. CASE ~SendCommand /\ pc = "poll" /\ UNCHANGED <<call, pass, marker, seq>> /\ (ReplMoves \/ UNCHANGED paneVars)
  <2>0. call \in Calls /\ Polls /\ call \notin misled
    BY <1>0, <1>1, <1>4 DEF Polls
  <2>1. CASE ran[call] > 0
    <3>1. BegunIn(screen, marker)
      BY <2>0, <2>1 DEF Begun
    <3>2. ASSUME Reads PROVE Head(input).id # marker
      <4> SUFFICES ASSUME Head(input).id = marker PROVE FALSE
        OBVIOUS
      <4>1. Head(input).kind = "command" /\ Head(input).call = call
        BY <1>4, <3>2, HeadIs DEF Mine
      <4>2. 1 \in Pending(call)
        BY <3>2, <4>1, HeadIs DEF Pending, Commands
      <4>3. ran[call] = 0
        BY <2>0, <4>2 DEF Once
      <4> QED
        BY <2>1, <4>3
    <3>3. CASE ReplMoves
      <4>1. \A m : m = marker => (BegunIn(screen, m) => BegunIn(screen', m) \/ (Reads /\ Head(input).id = m))
        BY <3>3, MovesShow
      <4>2. BegunIn(screen', marker)
        BY <3>1, <3>2, <4>1
      <4> QED
        BY <1>4, <4>2
    <3>4. CASE UNCHANGED paneVars
      BY <1>4, <3>1, <3>4 DEF paneVars
    <3> QED
      BY <1>4, <3>3, <3>4
  <2>2. CASE ~(ran[call] > 0)
    <3>1. ran'[call] # ran[call]
      BY <1>4, <2>2
    <3>2. Reads /\ 1 \in Pending(call) /\ runtime
      BY <1>4, <2>0, <3>1, RanMoves
    <3>3. Starts(Head(input))
      BY <3>2 DEF Reads, Rejects
    <3>4. Head(input).id = marker
      BY <2>0, <3>2, HeadIs DEF First
    <3> QED
      BY <1>2, <1>4, <3>2, <3>3, <3>4, HeadIs
  <2> QED
    BY <2>1, <2>2
<1> QED
  BY PollFrom, <1>3, <1>4

LEMMA EndedStep ==
  ASSUME ServerTypes, PaneTypes, Counted, Ids, [Next]_vars, Mine, Ended
  PROVE  Ended'
<1> SUFFICES ASSUME pc' = "poll", EndFound' PROVE call' \in done'
  BY DEF Ended
<1>1. CASE SendsCommand /\ marker' = seq + 1 /\ seen' = {}
  BY <1>1, NewNotEnded
<1>2. CASE /\ pc = "poll" /\ UNCHANGED <<call, pass, misled, marker, seq>>
           /\ \/ seen' = seen /\ ReplMoves
              \/ seen' \in {seen, Found} /\ UNCHANGED paneVars
  <2>1. EndFound' <=> "end" \in seen' \/ Event("end", marker') \in Elements(screen')
    BY DEF EndFound, Event
  <2>2. CASE EndFound
    BY <1>2, <2>2, PaneGrows DEF Ended
  <2>3. CASE ~EndFound
    <3>1. ReplMoves /\ seen' = seen
      BY <1>2, <2>1, <2>3, FoundIs DEF EndFound, paneVars
    <3>2. Event("end", marker) \in Elements(screen') /\ Event("end", marker) \notin Elements(screen)
      BY <1>2, <2>1, <2>3, <3>1 DEF EndFound
    <3>3. \A m : m = marker => \/ (\E w \in Seq(Whats) : Ends(w)) /\ running.id = m
                               \/ Reads /\ lineByLine /\ Head(input).kind = "bootstrap" /\ Head(input).id = m
      BY <3>2, EndMoves
    <3>4. ~(Reads /\ Head(input).kind = "bootstrap" /\ Head(input).id = marker)
      BY <1>2, HeadIs DEF Mine
    <3>5. (\E w \in Seq(Whats) : Ends(w)) /\ running.id = marker
      BY <3>3, <3>4
    <3>6. running.kind = "command" /\ running.call = call
      BY <1>2, <3>5 DEF Ends, Mine
    <3> QED
      BY <1>2, <3>5, <3>6 DEF Ends
  <2> QED
    BY <2>2, <2>3
<1> QED
  BY PollFrom, <1>1, <1>2

LEMMA RanStep ==
  ASSUME ServerTypes, PaneTypes, Counted, [Next]_vars, Ran
  PROVE  Ran'
<1>0. /\ done \subseteq Calls /\ ran \in [Calls -> Nat] /\ (\A c \in Calls : ran'[c] >= ran[c])
      /\ \A c \in Calls : ran[c] \in Nat /\ (ran'[c] = ran[c] \/ ran'[c] = ran[c] + 1)
  BY PaneGrows, RanMoves, RunTypes DEF PaneTypes
<1>1. \A c \in Calls : ran[c] >= 1 => ran'[c] >= 1
  BY <1>0
<1>2. running.kind = "command" => running \in Items /\ running.call \in Calls /\ ran[running.call] >= 1
  <2>1. running.kind = "command" => running \in Items
    BY ItemFacts DEF PaneTypes
  <2> QED
    BY <2>1, ItemFacts DEF Ran
<1>3. \A c \in done : c \in Calls /\ ran[c] >= 1
  BY <1>0 DEF Ran
<1>4. \A c \in done' : ran'[c] >= 1
  <2>1. done' = done \/ (running.kind = "command" /\ done' = done \cup {running.call})
    BY PaneEffects DEF ReplMoves, paneVars, Pasted, Kept, Reads, Ends, Humans, Restarts, Floods
  <2> QED
    BY <1>1, <1>2, <1>3, <2>1
<1>5. ASSUME NEW item \in Items, Starts(item), item.kind = "command" PROVE ran'[item.call] >= 1
  <2>1. item.call \in Calls
    BY ItemFacts
  <2>2. ran'[item.call] = ran[item.call] + 1
    BY <1>5, <2>1, StartedIs DEF Starts
  <2> QED
    BY <1>0, <2>1, <2>2
<1>6. running'.kind = "command" => ran'[running'.call] >= 1
  <2>1. ASSUME NEW item \in Items, Pasted(item) PROVE running' = running \/ (running' = item /\ Starts(item))
    BY <2>1 DEF Pasted, PastesNow, PastesAhead, Rejects, Starts
  <2>2. Reads => running' = running \/ (running' = Head(input) /\ Starts(Head(input)) /\ Head(input) \in Items)
    BY HeadIs DEF Reads, Types, Rejects, Starts
  <2>3. \/ running' = running \/ running' \in {NoItem, Human}
        \/ \E item \in Items : running' = item /\ Starts(item)
    BY PaneEffects, <2>1, <2>2 DEF ReplMoves, paneVars, Ends, Humans, Restarts, Floods
  <2>4. CASE running' = running
    BY <1>1, <1>2, <2>4
  <2>5. CASE running' \in {NoItem, Human}
    BY <2>5, ItemFacts
  <2>6. CASE \E item \in Items : running' = item /\ Starts(item)
    BY <1>5, <2>6
  <2> QED
    BY <2>3, <2>4, <2>5, <2>6
<1> QED
  BY <1>4, <1>6 DEF Ran

LEMMA ResultsStep ==
  ASSUME ServerTypes, PaneTypes, Counted, [Next]_vars, Ended, Results
  PROVE  Results'
<1>0. outcome \in [Calls -> Outcomes] /\ (pc # "idle" => call \in Calls) /\ done \subseteq done'
  BY Numbers, PaneGrows DEF ServerTypes
<1> SUFFICES ASSUME NEW c \in Calls, outcome'[c] \in {"ok", "julia_error"} PROVE c \in done'
  BY DEF Results
<1>1. CASE outcome'[c] = outcome[c]
  BY <1>0, <1>1 DEF Results
<1>2. ASSUME NEW o, Gives(o), pc # "idle", outcome'[c] # outcome[c] PROVE o = outcome'[c] /\ c = call
  BY <1>0, <1>2 DEF Gives
<1>3. CASE Leaves
  <2>1. CASE \E o \in {"timed_out", "capture_failed"} : Gives(o)
    BY <1>1, <1>2, <1>3, <2>1 DEF Leaves
  <2>2. CASE EndFound /\ \E o \in {"ok", "julia_error"} : Gives(o)
    <3>1. call \in done /\ pc # "idle"
      BY <1>3, <2>2 DEF Leaves, Ended
    <3> QED
      BY <1>0, <1>1, <1>2, <2>2, <3>1
  <2> QED
    BY <1>3, <2>1, <2>2 DEF Leaves
<1>4. CASE Misses
  BY <1>1, <1>2, <1>4 DEF Misses
<1>5. CASE SendsBootstrap \/ SendsCommand
  BY <1>1, <1>2, <1>5 DEF SendsBootstrap, SendsCommand, SendsTo
<1>6. CASE Begins
  <2>1. outcome' = outcome \/ outcome' = [outcome EXCEPT ![call + 1] = "refused"]
    BY <1>6 DEF Begins
  <2>2. outcome'[c] = outcome[c] \/ outcome'[c] = "refused"
    BY <1>0, <2>1
  <2> QED
    BY <1>1, <2>2
<1>7. CASE Binds \/ Trusts \/ Doubts \/ Installs \/ Goes \/ Reinjects \/ Pauses
  <2>1. outcome' = outcome
    BY <1>7, PauseKeeps DEF Binds, Trusts, Doubts, Installs, Goes, Reinjects
  <2> QED
    BY <1>1, <2>1
<1> QED
  BY ServerEffects, <1>3, <1>4, <1>5, <1>6, <1>7

LEMMA LastOfConcat ==
  ASSUME NEW S, NEW a \in Seq(S), NEW b \in Seq(S), NEW c, c = a \o b
  PROVE  Len(b) = 2 => Len(c) >= 2 /\ c[Len(c) - 1] = b[1] /\ c[Len(c)] = b[2]
<1>1. /\ Len(a) \in Nat /\ Len(b) \in Nat /\ Len(c) = Len(a) + Len(b)
      /\ \A i \in 1..Len(b) : c[Len(a) + i] = b[i]
  OBVIOUS
<1> SUFFICES ASSUME Len(b) = 2 PROVE Len(c) >= 2 /\ c[Len(c) - 1] = b[1] /\ c[Len(c)] = b[2]
  OBVIOUS
<1>2. 1 \in 1..Len(b) /\ 2 \in 1..Len(b)
  OBVIOUS
<1>3. c[Len(a) + 1] = b[1] /\ c[Len(a) + 2] = b[2]
  BY <1>1, <1>2
<1>4. Len(c) = Len(a) + 2 /\ Len(c) - 1 = Len(a) + 1 /\ Len(c) >= 2
  BY <1>1
<1> QED
  BY <1>3, <1>4

\* The last two events after an item was rejected.
LEMMA LastTwo ==
  ASSUME screen \in Seq(Events), NEW item \in Items, Rejects(item), NEW m, m = item.id
  PROVE  /\ Len(screen') >= 2
         /\ screen'[Len(screen') - 1] = Event("echo", m) /\ screen'[Len(screen')] = Event("undefined", m)
<1> DEFINE w == <<"echo", "undefined">>
<1> DEFINE s == [k \in 1..Len(w) |-> [what |-> w[k], id |-> m]]
<1>0. screen \in Seq(Events)
  OBVIOUS
<1>1. screen' = screen \o s
  BY DEF Rejects, Show
<1>2. w \in Seq(Whats) /\ Len(w) = 2 /\ w[1] = "echo" /\ w[2] = "undefined"
  BY DEF Whats
<1>3. m \in Markers
  BY ItemFacts
<1>4. \A a \in Whats : [what |-> a, id |-> m] \in Events
  BY <1>3 DEF Events, Whats
<1>5. s[1] = Event("echo", m) /\ s[2] = Event("undefined", m)
  BY <1>2 DEF Event
<1>6. s \in Seq(Events) /\ Len(s) = 2
  BY <1>2, <1>4
<1> HIDE DEF s
<1>7. \A c : c = screen \o s =>
         Len(c) >= 2 /\ c[Len(c) - 1] = s[1] /\ c[Len(c)] = s[2]
  BY <1>0, <1>6, LastOfConcat
<1> QED
  BY <1>1, <1>5, <1>7

\* How the BEGIN of an item comes to be on the screen.
LEMMA BeginMoves ==
  ASSUME ServerTypes, PaneTypes, Counted, [Next]_vars, NEW m,
         Event("begin", m) \in Elements(screen'), Event("begin", m) \notin Elements(screen)
  PROVE  \/ \E item \in Items : Pasted(item) /\ PastesNow(item) /\ Starts(item) /\ item.id = m
         \/ Reads /\ Head(input).id = m /\ rejected' = rejected
                  /\ (Head(input).kind = "bootstrap" \/ Starts(Head(input)))
<1>0. screen \in Seq(Events) /\ input \in Seq(Items)
  BY RunTypes
<1>1. ASSUME NEW item \in Items, NEW w \in Seq(Whats), Show(item, w)
      PROVE  item.id = m /\ \E k \in 1..Len(w) : w[k] = "begin"
  <2>1. Elements(screen') = Elements(screen) \cup {Event(w[k], item.id) : k \in 1..Len(w)}
    BY <1>0, <1>1, Shows
  <2>2. PICK k \in 1..Len(w) : Event("begin", m) = Event(w[k], item.id)
    BY <1>1, <2>1
  <2>3. \A a, n : Event(a, n).what = a /\ Event(a, n).id = n
    BY DEF Event
  <2>4. w[k] = "begin" /\ item.id = m
    BY <2>2, <2>3
  <2> QED
    BY <2>4
<1>2. ASSUME NEW item \in Items, Show(item, <<"echo">>) PROVE FALSE
  <2>1. \A k \in 1..Len(<<"echo">>) : <<"echo">>[k] # "begin"
    OBVIOUS
  <2> QED
    BY <1>1, <1>2, <2>1, WhatsAre
<1>3. ASSUME NEW item \in Items, Rejects(item) PROVE FALSE
  <2>1. \A k \in 1..Len(<<"echo", "undefined">>) : <<"echo", "undefined">>[k] # "begin"
    OBVIOUS
  <2> QED
    BY <1>1, <1>3, <2>1, WhatsAre DEF Rejects
<1>4. ASSUME NEW item \in Items, Starts(item) PROVE item.id = m
  BY <1>1, <1>4, WhatsAre DEF Starts
<1>5. ASSUME NEW item \in Items, Pasted(item) PROVE PastesNow(item) /\ Starts(item) /\ item.id = m
  <2>1. screen' # screen
    BY DEF Elements
  <2> QED
    BY <1>2, <1>3, <1>4, <1>5, <2>1 DEF Pasted, PastesNow, PastesAhead
<1>6. CASE Reads
  <2>1. Head(input) \in Items
    BY <1>6, HeadIs
  <2>2. CASE Types(Head(input))
    <3>1. Head(input).kind = "bootstrap" /\ Show(Head(input), <<"echo", "begin", "error", "end">>)
      BY <1>2, <2>1, <2>2 DEF Types
    <3> QED
      BY <1>1, <1>6, <2>1, <2>2, <3>1, WhatsAre DEF Types
  <2>3. CASE Starts(Head(input))
    BY <1>4, <1>6, <2>1, <2>3 DEF Starts
  <2> QED
    BY <1>3, <1>6, <2>1, <2>2, <2>3 DEF Reads
<1>7. ~\E w \in Seq(Whats) : Ends(w)
  <2> SUFFICES ASSUME NEW w \in Seq(Whats), Ends(w) PROVE FALSE
    OBVIOUS
  <2>1. \A k \in 1..Len(<<"end">>) : <<"end">>[k] # "begin"
    OBVIOUS
  <2>2. \A k \in 1..Len(<<"error", "end">>) : <<"error", "end">>[k] # "begin"
    OBVIOUS
  <2> QED
    BY <1>1, <2>1, <2>2 DEF Ends
<1>8. ~(Humans \/ Restarts \/ UNCHANGED paneVars)
  <2>1. screen' # screen
    BY DEF Elements
  <2> QED
    BY <2>1 DEF Humans, Restarts, paneVars
<1>9. ~Floods
  <2> SUFFICES ASSUME Floods PROVE FALSE
    OBVIOUS
  <2>1. screen # <<>> /\ screen' = Tail(screen)
    BY DEF Floods
  <2>2. \A t : t = Tail(screen) => Elements(t) \subseteq Elements(screen)
    BY <1>0, <2>1, TailFacts
  <2> QED
    BY <2>1, <2>2
<1> QED
  BY PaneEffects, <1>5, <1>6, <1>7, <1>8, <1>9 DEF ReplMoves

LEMMA BeginFoundIs ==
  ASSUME PaneTypes
  PROVE  "begin" \in Found <=> "begin" \in seen \/ Event("begin", marker) \in Elements(screen)
<1>1. \A i \in DOMAIN screen : screen[i] \in Events
  BY DEF PaneTypes
<1>2. \A e \in Events : e.what = "begin" /\ e.id = marker <=> e = Event("begin", marker)
  BY DEF Events, Event
<1>3. "begin" \in FoundInCapture <=> \E i \in DOMAIN screen : screen[i].id = marker /\ screen[i].what = "begin"
  BY DEF FoundInCapture
<1>4. "begin" \in FoundInCapture <=> Event("begin", marker) \in Elements(screen)
  BY <1>1, <1>2, <1>3 DEF Elements
<1> QED
  BY <1>4 DEF Found

\* How the marker that is polled for comes to be rejected: it was the last item.
LEMMA LastRejected ==
  ASSUME ServerTypes, PaneTypes, Counted, Ids, Latest, pc = "poll", ReplMoves,
         marker \in rejected', marker \notin rejected
  PROVE  /\ Reads /\ Rejects(Head(input)) /\ Head(input) \in Items /\ Head(input).id = marker
         /\ running = NoItem /\ input' = <<>>
<1>0. /\ seq \in Nat /\ input \in Seq(Items) /\ \A x \in Items : x.id \in Nat
      /\ \A k \in 1..Len(input) : input[k] \in Items
  BY RunTypes
<1>1. Reads /\ Rejects(Head(input))
  BY DEF ReplMoves, Ends, Humans, Restarts, Floods, Reads, Types, Starts
<1>2. Head(input).id = marker /\ Head(input) \in Items /\ Head(input) = input[1]
  BY <1>1, HeadIs DEF Rejects
<1>3. Head(input).id = seq
  BY <1>2 DEF Latest
<1>4. input # <<>> /\ input' = Tail(input) /\ running = NoItem
  BY <1>1 DEF Reads
<1>5. Len(input) \in Nat \ {0} /\ 1 \in 1..Len(input)
  BY <1>0, <1>4, TailFacts
<1>6. ~(2 \in 1..Len(input))
  BY <1>0, <1>2, <1>3, <1>5 DEF Ids
<1>7. Len(input) = 1
  <2>1. \A n \in Nat \ {0} : 2 \in 1..n \/ n = 1
    OBVIOUS
  <2> QED
    BY <1>5, <1>6, <2>1
<1>8. Tail(input) = <<>>
  <2>1. Tail(input) \in Seq(Items) /\ Len(Tail(input)) = 0
    BY <1>0, <1>4, <1>7, TailFacts
  <2>2. \A s \in Seq(Items) : Len(s) = 0 => s = <<>>
    OBVIOUS
  <2> QED
    BY <2>1, <2>2
<1> QED
  BY <1>1, <1>2, <1>4, <1>8

LEMMA WaitingStep ==
  ASSUME ServerTypes, PaneTypes, Counted, Ids, [Next]_vars, Latest, Mine, Rejected, Noticed, Waiting
  PROVE  Waiting'
<1>0. /\ seq \in Nat /\ input \in Seq(Items) /\ Len(input) \in Nat /\ \A x \in Items : x.id \in Nat
      /\ \A m \in rejected : m \in Nat
  <2>1. \A m \in rejected : m \in Nat
    BY DEF PaneTypes, Markers
  <2> QED
    BY <2>1, RunTypes
<1> DEFINE Waits1 == marker' \in rejected' \/ \E k \in 1..Len(input') : input'[k].id = marker'
<1> SUFFICES ASSUME pc' = "poll", Waits1
             PROVE  "begin" \notin seen' /\ Event("begin", marker') \notin Elements(screen')
  BY DEF Waiting, Event
<1>1. ASSUME marker' = seq + 1, seen' = {}, pc = "paste", NEW item \in Items, Pasted(item)
      PROVE  "begin" \notin seen' /\ Event("begin", marker') \notin Elements(screen')
  <2>1. PICK m : m = seq + 1
    OBVIOUS
  <2>2. Event("begin", m) \notin Elements(screen)
    <3>1. Event("begin", m).id = m
      BY DEF Event
    <3> QED
      BY <1>0, <2>1, <3>1 DEF Ids
  <2>3. m \notin rejected
    BY <1>0, <2>1 DEF Rejected
  <2>4. ASSUME NEW x \in Items, PastesNow(x), Starts(x) PROVE FALSE
    <3>1. input' = <<>> /\ rejected' = rejected
      BY <2>4 DEF PastesNow, Starts
    <3> QED
      BY <1>1, <2>1, <2>3, <3>1
  <2>5. ~(Reads /\ Head(input).id = m)
    <3> SUFFICES ASSUME Reads, Head(input).id = m PROVE FALSE
      OBVIOUS
    <3>1. Head(input).id <= seq /\ Head(input) \in Items
      BY HeadIs DEF Ids
    <3> QED
      BY <1>0, <2>1, <3>1
  <2>6. Event("begin", m) \notin Elements(screen')
    BY <2>2, <2>4, <2>5, BeginMoves
  <2> QED
    BY <1>1, <2>1, <2>6
<1>2. CASE /\ pc = "poll" /\ UNCHANGED <<marker, seq>>
           /\ \/ seen' = seen /\ ReplMoves
              \/ seen' \in {seen, Found} /\ UNCHANGED paneVars
  <2>1. marker \in rejected \/ \E k \in 1..Len(input) : input[k].id = marker
    <3>1. CASE UNCHANGED paneVars
      BY <1>2, <3>1 DEF paneVars
    <3>2. CASE ReplMoves
      <4>1. CASE marker \in rejected' /\ marker \notin rejected
        BY <3>2, <4>1, <1>2, LastRejected, HeadIs
      <4>2. ASSUME NEW k \in 1..Len(input'), input'[k].id = marker PROVE \E j \in 1..Len(input) : input[j].id = marker
        <5>1. CASE input' = input
          BY <4>2, <5>1
        <5>2. CASE input' = <<>>
          BY <4>2, <5>2
        <5>3. CASE Reads
          <6>1. input # <<>> /\ input' = Tail(input)
            BY <5>3 DEF Reads
          <6>2. \A t : t = Tail(input) => \A i \in 1..Len(t) : t[i] = input[i + 1] /\ i + 1 \in 1..Len(input)
            BY <1>0, <6>1, CommandsTail
          <6>3. input'[k] = input[k + 1] /\ k + 1 \in 1..Len(input)
            BY <6>1, <6>2
          <6> QED
            BY <4>2, <6>3
        <5> QED
          BY <3>2, <5>1, <5>2, <5>3 DEF ReplMoves, Ends, Humans, Restarts, Floods
      <4> QED
        BY <1>2, <4>1, <4>2
    <3> QED
      BY <1>2, <3>1, <3>2
  <2>2. "begin" \notin seen /\ Event("begin", marker) \notin Elements(screen)
    BY <1>2, <2>1 DEF Waiting
  <2>3. "begin" \notin seen'
    BY <1>2, <2>2, BeginFoundIs
  <2>4. ASSUME Event("begin", marker) \in Elements(screen') PROVE FALSE
    <3>1. ~\E item \in Items : Pasted(item) /\ item.id = marker
      BY <1>0, <1>2 DEF Pasted, Latest
    <3>2. \A m : m = marker =>
             \/ \E item \in Items : Pasted(item) /\ PastesNow(item) /\ Starts(item) /\ item.id = m
             \/ Reads /\ Head(input).id = m /\ rejected' = rejected
                      /\ (Head(input).kind = "bootstrap" \/ Starts(Head(input)))
      BY <2>2, <2>4, BeginMoves
    <3>3. Reads /\ Head(input).id = marker /\ rejected' = rejected
      BY <3>1, <3>2
    <3>4. marker \notin rejected
      BY <1>2, <3>3 DEF Noticed, Reads
    <3>5. PICK k \in 1..Len(input') : input'[k].id = marker
      BY <1>2, <3>3, <3>4
    <3>6. \A t : t = Tail(input) => \A i \in 1..Len(t) : t[i] = input[i + 1] /\ i + 1 \in 1..Len(input) /\ i >= 1 /\ i \in Nat
      BY <1>0, <3>3, CommandsTail DEF Reads
    <3>7. input'[k] = input[k + 1] /\ k + 1 \in 1..Len(input) /\ k >= 1 /\ k \in Nat
      BY <3>3, <3>6 DEF Reads
    <3>8. input[1].id < input[k + 1].id /\ input[1] \in Items
      BY <3>3, <3>7, HeadIs DEF Ids
    <3> QED
      BY <1>0, <3>3, <3>5, <3>7, <3>8, HeadIs
  <2> QED
    BY <1>2, <2>3, <2>4
<1> QED
  BY PollFrom, <1>1, <1>2

LEMMA NoticedStep ==
  ASSUME ServerTypes, PaneTypes, Counted, Ids, [Next]_vars, Latest, Rejected, Noticed
  PROVE  Noticed'
<1>0. /\ seq \in Nat /\ screen \in Seq(Events) /\ \A m \in rejected : m \in Nat
  <2>1. \A m \in rejected : m \in Nat
    BY DEF PaneTypes, Markers
  <2> QED
    BY <2>1, RunTypes
<1> SUFFICES ASSUME pc' = "poll", marker' \in rejected'
             PROVE  /\ running' \notin Items /\ input' = <<>> /\ Len(screen') >= 2
                    /\ screen'[Len(screen') - 1] = Event("echo", marker')
                    /\ screen'[Len(screen')] = Event("undefined", marker')
  BY DEF Noticed, Event
<1>1. ASSUME marker' = seq + 1, NEW item \in Items, Pasted(item)
      PROVE  /\ running' \notin Items /\ input' = <<>> /\ Len(screen') >= 2
             /\ screen'[Len(screen') - 1] = Event("echo", marker')
             /\ screen'[Len(screen')] = Event("undefined", marker')
  <2>1. marker' \notin rejected
    BY <1>0, <1>1 DEF Rejected
  <2>2. PastesNow(item) /\ Rejects(item) /\ item.id = marker'
    BY <1>1, <2>1 DEF Pasted, PastesNow, PastesAhead, Starts
  <2>3. running' = NoItem /\ input' = <<>>
    BY <2>2 DEF PastesNow, Rejects
  <2>4. \A m : m = item.id => /\ Len(screen') >= 2
                              /\ screen'[Len(screen') - 1] = Event("echo", m)
                              /\ screen'[Len(screen')] = Event("undefined", m)
    BY <1>0, <2>2, LastTwo
  <2> QED
    BY <2>2, <2>3, <2>4, ItemFacts
<1>2. CASE pc = "poll" /\ marker' = marker /\ (ReplMoves \/ UNCHANGED paneVars)
  <2>1. CASE marker \in rejected
    <3>1. /\ running \notin Items /\ input = <<>> /\ Len(screen) >= 2
          /\ screen[Len(screen) - 1] = Event("echo", marker)
          /\ screen[Len(screen)] = Event("undefined", marker)
      BY <1>2, <2>1 DEF Noticed
    <3>2. running.kind # "command"
      BY <3>1, ItemFacts DEF PaneTypes
    <3>3. screen' = screen /\ input' = <<>> /\ running' \notin Items
      BY <1>2, <3>1, <3>2, ItemFacts DEF ReplMoves, paneVars, Reads, Ends, Humans, Restarts, Floods
    <3> QED
      BY <1>2, <3>1, <3>3
  <2>2. CASE marker \notin rejected
    <3>1. ReplMoves /\ marker \in rejected'
      BY <1>2, <2>2 DEF paneVars
    <3>2. /\ Rejects(Head(input)) /\ Head(input) \in Items /\ Head(input).id = marker
          /\ running = NoItem /\ input' = <<>>
      BY <1>2, <2>2, <3>1, LastRejected
    <3>3. running' = NoItem
      BY <3>2 DEF Rejects
    <3>4. \A m : m = Head(input).id => /\ Len(screen') >= 2
                                       /\ screen'[Len(screen') - 1] = Event("echo", m)
                                       /\ screen'[Len(screen')] = Event("undefined", m)
      BY <1>0, <3>2, LastTwo
    <3> QED
      BY <1>2, <3>2, <3>3, <3>4, ItemFacts
  <2> QED
    BY <2>1, <2>2
<1> QED
  BY PollFrom, <1>1, <1>2

\* What was rejected is detected.
LEMMA NoticedIsDetected ==
  ASSUME PaneTypes, Waiting, Noticed, pc = "poll", pass = 1, marker \in rejected
  PROVE  Detects
<1>0. screen \in Seq(Events) /\ Len(screen) \in Nat
  BY DEF PaneTypes
<1>1. /\ Len(screen) >= 2
      /\ screen[Len(screen) - 1] = Event("echo", marker)
      /\ screen[Len(screen)] = Event("undefined", marker)
  BY DEF Noticed
<1>2. "begin" \notin Found
  BY BeginFoundIs DEF Waiting
<1>3. RuntimeMissing(marker)
  <2> DEFINE n == Len(screen)
  <2>1. n \in DOMAIN screen /\ n - 1 \in DOMAIN screen /\ n - 1 < n /\ \A k \in DOMAIN screen : k = n \/ k <= n - 1
    BY <1>0, <1>1
  <2>2. screen[n].what = "undefined" /\ screen[n - 1] = [what |-> "echo", id |-> marker]
    BY <1>1 DEF Event
  <2> HIDE DEF n
  <2> QED
    BY <2>1, <2>2 DEF RuntimeMissing
<1> QED
  BY <1>2, <1>3 DEF Detects, FoundBegin

-----------------------------------------------------------------------------
(* The theorems. *)

LEMMA InitiallyRuns ==
  ASSUME Init
  PROVE  RInv
<1>1. /\ pc = "idle" /\ call = 0 /\ pass = 1 /\ seq = 0 /\ marker = 0 /\ cache = {} /\ seen = {}
      /\ outcome = [c \in Calls |-> "none"] /\ input = <<>> /\ running = NoItem /\ screen = <<>>
      /\ ran = [c \in Calls |-> 0] /\ done = {} /\ rejected = {}
  BY DEF Init
<1>2. \A c \in Calls : Unstarted(c) /\ Pending(c) = {} /\ ran[c] = 0 /\ outcome[c] = "none"
  BY <1>1 DEF Unstarted, Pending, Commands
<1>3. /\ Latest /\ Unsent /\ Retries /\ Stale /\ Quiet /\ Settled /\ Booted /\ Mine /\ First
      /\ Missing /\ MissedByLine /\ Waiting /\ Noticed /\ Begun /\ Ended
  BY <1>1 DEF Latest, Unsent, Retries, Stale, Quiet, Settled, Booted, Mine, First, Missing, MissedByLine,
     Waiting, Noticed, Polls, Begun, Ended
<1>4. Future /\ Once /\ Refused /\ Results
  BY <1>2 DEF Future, Once, Refused, Results
<1>5. Rejected /\ Ran
  BY <1>1, ItemFacts DEF Rejected, Polls, Ran
<1> QED
  BY <1>3, <1>4, <1>5 DEF RInv

\* The inductive invariant of the runs, on top of that of the session, for any number of
\* calls, of REPLs of either kind, and of failed captures.
THEOREM RunsInvariant == Spec => [](IInv /\ RInv)
<1>1. Init => IInv /\ RInv
  BY Initially, InitiallyRuns
<1>2. IInv /\ RInv /\ IInv' /\ [Next]_vars => RInv'
  <2> SUFFICES ASSUME IInv, RInv, [Next]_vars PROVE RInv'
    OBVIOUS
  <2>1. ServerTypes /\ PaneTypes /\ Counted /\ Ids /\ Generations
    BY TypeParts DEF IInv
  <2>2. /\ Latest /\ Future /\ Once /\ Unsent /\ Refused /\ Retries /\ Stale /\ Quiet /\ Settled
        /\ Booted /\ Mine /\ First /\ Missing /\ MissedByLine /\ Waiting /\ Noticed /\ Rejected
        /\ Begun /\ Ended /\ Ran /\ Results
    BY DEF RInv
  <2>3. Latest' /\ Future' /\ Once' /\ Unsent' /\ Refused' /\ Retries' /\ Stale' /\ Quiet' /\ Settled'
    BY <2>1, <2>2, LatestStep, FutureStep, OnceStep, UnsentStep, RefusedStep, RetriesStep, StaleStep, QuietStep,
       SettledStep
  <2>4. /\ Booted' /\ Mine' /\ First' /\ Missing' /\ MissedByLine' /\ Waiting' /\ Noticed' /\ Rejected'
        /\ Begun' /\ Ended' /\ Ran' /\ Results'
    BY <2>1, <2>2, BootedStep, MineStep, FirstStep, MissingStep, MissedByLineStep, WaitingStep, NoticedStep,
       RejectedStep, BegunStep, EndedStep, RanStep, ResultsStep
  <2> QED
    BY <2>3, <2>4 DEF RInv
<1>3. Spec => []IInv
  BY SessionInvariant
<1> QED
  BY <1>1, <1>2, <1>3, PTL DEF Spec

\* run_marker_eval never runs the code of a call twice, though it pastes it again when
\* the REPL rejected it, restarts and typed-ahead pastes included, unless the call was
\* misled about the generation of the REPL.
THEOREM RunsAtMostOnce == Spec => []RunAtMostOnce
<1>1. IInv /\ RInv => RunAtMostOnce
  BY DEF RInv, Once, RunAtMostOnce
<1> QED
  BY <1>1, RunsInvariant, PTL

\* A result that is returned is that of code of this call, which was started and came
\* to its end: no stale END marker of another call or of an earlier pass is taken for it.
THEOREM ResultsAreOwn == Spec => []ResultIsOwn
<1>1. IInv /\ RInv => ResultIsOwn
  <2> SUFFICES ASSUME IInv, RInv, NEW c \in Calls, outcome[c] \in {"ok", "julia_error"}
               PROVE  c \in done /\ (ran[c] = 1 \/ c \in misled)
    BY DEF ResultIsOwn
  <2>1. c \in done
    BY DEF RInv, Results
  <2>2. ran[c] \in Nat
    BY TypeParts, RunTypes DEF IInv
  <2>3. ran[c] >= 1
    BY <2>1 DEF RInv, Ran
  <2>4. c \notin misled => ran[c] <= 1
    BY DEF RInv, Once
  <2> QED
    BY <2>1, <2>2, <2>3, <2>4
<1> QED
  BY <1>1, RunsInvariant, PTL

\* A call that ensure_jjmcp_runtime failed, or that was refused, has not run its code and,
\* whatever is read later of what it pasted, never will, unless it was misled.
THEOREM NotInstalledNeverRan == Spec => []NotInstalledNotRun
<1>1. IInv /\ RInv => NotInstalledNotRun
  BY DEF RInv, Refused, Doomed, NotInstalledNotRun
<1> QED
  BY <1>1, RunsInvariant, PTL

\* On a REPL that reads typed-ahead pastes line by line, jjmcp_runtime_missing is true
\* only of a command that was itself rejected: an older failure triggers no rerun.
THEOREM RerunsOnlyIfRejected == Spec => RerunOnlyIfRejected
<1> DEFINE A == lineByLine /\ pass = 1 /\ pass' = 2 => marker \in rejected
<1>1. IInv /\ RInv /\ [Next]_vars => [A]_vars
  <2> SUFFICES ASSUME IInv, RInv, [Next]_vars, lineByLine, pass = 1, pass' = 2 PROVE marker \in rejected
    OBVIOUS
  <2>1. ServerTypes /\ PaneTypes /\ Counted
    BY TypeParts DEF IInv
  <2>2. CASE Reinjects
    <3>1. MissedIn(screen, marker)
      BY <2>1, <2>2, MissingIs DEF Reinjects, Detects
    <3> QED
      BY <2>2, <3>1 DEF RInv, MissedByLine, Reinjects
  <2>3. CASE Begins \/ Binds \/ Trusts \/ Doubts \/ SendsBootstrap \/ SendsCommand \/ Installs \/ Goes \/ Misses \/ Leaves
    <3>1. pass' = pass \/ pass' = 1
      BY <2>3 DEF Begins, Binds, Trusts, Doubts, SendsBootstrap, SendsCommand, SendsTo, Installs, Goes, Misses, Leaves,
         Gives
    <3> QED
      BY <3>1
  <2>4. CASE Pauses
    BY <2>4, PauseKeeps
  <2> QED
    BY <2>1, <2>2, <2>3, <2>4, ServerEffects
<1> QED
  BY <1>1, RunsInvariant, PTL DEF Spec, RerunOnlyIfRejected

\* A command that the REPL rejected for want of the runtime is never waited for until
\* its deadline, unless the captures fail: the next capture detects it.
THEOREM RestartsNoticed == Spec => RestartNoticed
<1> DEFINE A == pc = "poll" /\ pass = 1 /\ marker \in rejected /\ outcome'[call] = "timed_out" => CaptureFails
<1>1. IInv /\ RInv /\ [Next]_vars => [A]_vars
  <2> SUFFICES ASSUME IInv, RInv, [Next]_vars, pc = "poll", pass = 1, marker \in rejected, outcome'[call] = "timed_out"
               PROVE  CaptureFails
    OBVIOUS
  <2>1. ServerTypes /\ PaneTypes /\ Counted
    BY TypeParts DEF IInv
  <2>2. Detects
    BY <2>1, NoticedIsDetected DEF RInv
  <2>3. outcome[call] # "timed_out"
    BY <2>1, Numbers DEF RInv, Future
  <2>4. outcome' # outcome
    BY <2>3
  <2> QED
    BY <2>1, <2>2, <2>4, Steps DEF StartCall, Bind, ReadGeneration, SendBootstrap, SendCommand, PollBootstrap,
       BootstrapCaptureFails, PollCommand, Reinject, ReplReads, ReplFinishes, HumanRuns, HumanFinishes, Restart,
       ReplFloods, serverVars, vars
<1> QED
  BY <1>1, RunsInvariant, PTL DEF Spec, RestartNoticed
=============================================================================
