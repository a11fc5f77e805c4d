-------------------------- MODULE SocketEvalProofs --------------------------
(***************************************************************************)
(* What SocketEval promises for any number of servers, calls and deaths of *)
(* the Julia process: the types, that the fallback repeats only what was   *)
(* not answered, and what becomes of the streams.                          *)
(*                                                                         *)
(* The streams rest on the order in which evals begin.  Of two evals in    *)
(* progress one was in progress when the other began (Outer), and as long  *)
(* as none crosses another, the stdout each found is still open: it is     *)
(* that of the innermost eval running outside of it, or the terminal       *)
(* (Inner, Open).  So its END restores the stdout of that eval, a pipe is  *)
(* empty once its eval is over (PipeEmpty), and a chunk that was printed   *)
(* is in a pipe on its way to the terminal or has arrived there (Shown).   *)
(***************************************************************************)
EXTENDS SocketEval, TLAPS

-----------------------------------------------------------------------------
(* The invariant. *)

Running == {e \in Calls : task[e] = "running"}
Began(e) == task[e] \notin {"none", "queued"}
Repeated(e) == IF client[e] = "marker" THEN 1 ELSE 0

\* How often the code of a call was started.
RunsOf(e) ==
    /\ client[e] = "idle" => task[e] = "none"
    /\ task[e] \in {"none", "queued"} => ran[e] = Repeated(e)
    /\ task[e] \in {"running", "draining", "done"} => ran[e] = 1 + Repeated(e)
    /\ task[e] = "dropped" => ran[e] \in {Repeated(e), 1 + Repeated(e)}
    /\ reply[e].kind # "none" => task[e] = "done"
    /\ e \in understood => client[e] \in {"ok", "error"} /\ reply[e].kind # "none"
    /\ client[e] \in {"fallback", "marker"} => transport[e] = "auto"
Runs == \A e \in Calls : RunsOf(e)

\* Evals in progress began one in the course of the other.
Outer ==
    /\ \A e \in Calls : e \notin outer[e] /\ \A d \in outer[e] : Began(d)
    /\ \A d, e \in InProgress : d = e \/ d \in outer[e] \/ e \in outer[d]

Closed == \A e \in closed : task[e] \in {"draining", "done", "dropped"}

\* The stream s is that of the eval in R that began last.
Innermost(R, s) == IF R = {} THEN s = Terminal ELSE s \in R /\ \A d \in R : d = s \/ d \in outer[s]
Inner ==
    ~crossed => /\ Innermost(Running, stdout)
                /\ \A e \in Running : Innermost(Running \cap outer[e], saved[e])
Open ==
    ~crossed => \A e \in InProgress :
        saved[e] = Terminal \/ (saved[e] \in outer[e] /\ saved[e] \in Running)
PipeEmpty == ~crossed => \A e \in Calls : pipe[e] # {} => e \in InProgress
Shown ==
    ~crossed /\ (\A e \in Calls : task[e] # "dropped") =>
        \A e \in printed : e \in seen \/ \E p \in Calls : e \in pipe[p]

\* As long as evals do not overlap.
Alone == ~overlapped => ~crossed /\ \A d, e \in InProgress : d = e
Own ==
    ~overlapped => \A e \in Calls :
        /\ e \in InProgress => captured[e] \cup pipe[e] = printed \cap {e}
        /\ ~Began(e) => captured[e] = {} /\ e \notin printed
        /\ reply[e].kind # "none" => reply[e].out = printed \cap {e}

StreamInv == Outer /\ Closed /\ Inner /\ Open /\ PipeEmpty /\ Shown /\ Alone /\ Own
IInv == TypeOK /\ Runs /\ StreamInv

-----------------------------------------------------------------------------
(* What a step does. *)

\* The tasks and the streams are left alone, but for requests that come or are dropped.
Idles ==
    /\ UNCHANGED <<reply, streamVars, outer, overlapped, crossed>>
    /\ \A e \in Calls : \/ task'[e] = task[e]
                        \/ task[e] = "none" /\ task'[e] = "queued"
                        \/ task[e] = "queued" /\ task'[e] = "dropped"

LEMMA Effects ==
  ASSUME TypeOK, Runs, [Next]_vars
  PROVE  \/ Idles \/ JuliaDies
         \/ \E e \in Calls : BeginEval(e) \/ PrintChunk(e) \/ Drain(e) \/ EndEval(e) \/ AnswerWhenDrained(e)
<1>0. task \in [Calls -> {"none", "queued", "running", "draining", "done", "dropped"}]
  BY DEF TypeOK
<1>1. ASSUME NEW e \in Calls, Connect(e) PROVE Idles
  <2>1. task[e] = "none"
    BY <1>1 DEF Connect, Runs, RunsOf
  <2>2. task' = task \/ task' = [task EXCEPT ![e] = "queued"]
    BY <1>1 DEF Connect
  <2>3. \A d \in Calls : task'[d] = task[d] \/ (task[d] = "none" /\ task'[d] = "queued")
    BY <1>0, <2>1, <2>2
  <2> QED
    BY <1>1, <2>3 DEF Connect, Idles, historyVars
<1>2. ASSUME NEW e \in Calls, Receive(e) \/ ReceiveFails(e) \/ MarkerEval(e) PROVE Idles
  BY <1>2 DEF Receive, ReceiveFails, MarkerEval, Idles, historyVars
<1>3. CASE HelperStarts \/ UNCHANGED vars
  BY <1>3 DEF HelperStarts, Idles, historyVars, vars
<1>4. CASE HelperStops
  <2>1. PICK D \in SUBSET {e \in Calls : task[e] = "queued"} : Drop(D)
    BY <1>4 DEF HelperStops
  <2>2. \A e \in Calls : task'[e] = IF e \in D THEN "dropped" ELSE task[e]
    BY <2>1 DEF Drop
  <2>3. \A e \in D : task[e] = "queued"
    OBVIOUS
  <2> QED
    BY <1>4, <2>2, <2>3 DEF HelperStops, Idles, historyVars
<1> QED
  BY <1>1, <1>2, <1>3, <1>4 DEF Next

\* A step of one task leaves the others where they are.
LEMMA TaskOf ==
  ASSUME TypeOK, NEW e \in Calls, NEW t, task' = [task EXCEPT ![e] = t]
  PROVE  /\ task'[e] = t /\ \A d \in Calls : d # e => task'[d] = task[d]
  BY DEF TypeOK

LEMMA IdlesKeep ==
  ASSUME TypeOK, Idles
  PROVE  /\ InProgress' = InProgress /\ Running' = Running
         /\ \A e \in Calls : Began(e) => Began(e)'
         /\ \A e \in Calls : task[e] = "dropped" => task'[e] = "dropped"
         /\ \A e \in Calls : task[e] \in {"draining", "done", "dropped"} => task'[e] = task[e]
         /\ \A e \in Calls : ~Began(e)' => ~Began(e)
         /\ UNCHANGED <<reply, stdout, saved, closed, pipe, captured, printed, seen, outer, overlapped, crossed>>
<1>1. \A e \in Calls : \/ task'[e] = task[e]
                       \/ task[e] = "none" /\ task'[e] = "queued"
                       \/ task[e] = "queued" /\ task'[e] = "dropped"
  BY DEF Idles
<1>2. InProgress' = InProgress /\ Running' = Running
  BY <1>1 DEF InProgress, Running
<1>3. \A e \in Calls : Began(e) => Began(e)'
  BY <1>1 DEF Began
<1>4. \A e \in Calls : ~Began(e)' => ~Began(e)
  BY <1>3
<1>5. UNCHANGED <<reply, stdout, saved, closed, pipe, captured, printed, seen, outer, overlapped, crossed>>
  BY DEF Idles, streamVars
<1> QED
  BY <1>1, <1>2, <1>3, <1>4, <1>5

-----------------------------------------------------------------------------
(* Types and runs. *)

LEMMA FailTypes ==
  ASSUME TypeOK, NEW e \in Calls, Fail(e)
  PROVE  /\ client' = [client EXCEPT ![e] = client'[e]]
         /\ client'[e] = "failed" \/ (client'[e] = "fallback" /\ transport[e] = "auto")
<1>1. client \in [Calls -> {"idle", "waiting", "fallback"} \cup Returned] /\ transport[e] \in {"auto", "socket"}
  BY DEF TypeOK
<1>2. client' = [client EXCEPT ![e] = IF transport[e] = "socket" THEN "failed" ELSE "fallback"]
  BY DEF Fail, Goto
<1> QED
  BY <1>1, <1>2

\* Each step of a client, of one call.
LEMMA ClientMoves ==
  ASSUME TypeOK, NEW e \in Calls, Connect(e) \/ Receive(e) \/ ReceiveFails(e) \/ MarkerEval(e)
  PROVE  /\ client' = [client EXCEPT ![e] = client'[e]]
         /\ client'[e] \in {"waiting", "fallback"} \cup Returned
         /\ client[e] \in {"idle", "waiting", "fallback"}
         /\ client'[e] = "fallback" => transport[e] = "auto"
         /\ client'[e] = "marker" => client[e] = "fallback" /\ ran' = [ran EXCEPT ![e] = @ + 1]
         /\ client'[e] # "marker" => ran' = ran
         /\ understood' = understood \/ (Receive(e) /\ understood' = understood \cup {e} /\ client'[e] \in {"ok", "error"})
<1>0. client \in [Calls -> {"idle", "waiting", "fallback"} \cup Returned] /\ ran \in [Calls -> 0..2]
  BY DEF TypeOK
<1>1. \A v : client' = [client EXCEPT ![e] = v] => client'[e] = v
  BY <1>0
<1>2. CASE Connect(e)
  <2>1. client[e] = "idle" /\ ran' = ran /\ understood' = understood
    BY <1>2 DEF Connect, historyVars
  <2>2. client' = [client EXCEPT ![e] = client'[e]] /\ client'[e] \in {"waiting", "failed", "fallback"}
        /\ (client'[e] = "fallback" => transport[e] = "auto")
    BY <1>1, <1>2, FailTypes DEF Connect, Goto
  <2> QED
    BY <2>1, <2>2 DEF Returned
<1>3. CASE Receive(e)
  <2>1. client[e] = "waiting" /\ ran' = ran
    BY <1>3 DEF Receive
  <2>2. CASE Fail(e) /\ UNCHANGED understood
    <3>1. client' = [client EXCEPT ![e] = client'[e]] /\ client'[e] \in {"failed", "fallback"}
          /\ (client'[e] = "fallback" => transport[e] = "auto")
      BY <2>2, FailTypes
    <3> QED
      BY <2>1, <2>2, <3>1 DEF Returned
  <2>3. CASE /\ Goto(e, IF reply[e].kind = "ok" THEN "ok" ELSE "error")
             /\ understood' = understood \cup {e}
    <3>1. client' = [client EXCEPT ![e] = client'[e]] /\ client'[e] \in {"ok", "error"}
      BY <1>1, <2>3 DEF Goto
    <3> QED
      BY <1>3, <2>1, <2>3, <3>1 DEF Returned
  <2> QED
    BY <1>3, <2>2, <2>3 DEF Receive
<1>4. CASE ReceiveFails(e)
  <2>1. client[e] = "waiting" /\ ran' = ran /\ understood' = understood
    BY <1>4 DEF ReceiveFails, historyVars
  <2>2. client' = [client EXCEPT ![e] = client'[e]] /\ client'[e] \in {"failed", "fallback"}
        /\ (client'[e] = "fallback" => transport[e] = "auto")
    BY <1>4, FailTypes DEF ReceiveFails
  <2> QED
    BY <2>1, <2>2 DEF Returned
<1>5. CASE MarkerEval(e)
  <2>1. client[e] = "fallback" /\ understood' = understood
    BY <1>5 DEF MarkerEval, historyVars
  <2>2. \/ client' = [client EXCEPT ![e] = "marker"] /\ ran' = [ran EXCEPT ![e] = @ + 1]
        \/ client' = [client EXCEPT ![e] = "refused"] /\ ran' = ran
    BY <1>5 DEF MarkerEval, Goto
  <2>3. client' = [client EXCEPT ![e] = client'[e]] /\ client'[e] \in {"marker", "refused"}
    BY <1>1, <2>2
  <2>4. client'[e] = "marker" => ran' = [ran EXCEPT ![e] = @ + 1]
    BY <1>1, <2>2
  <2>5. client'[e] # "marker" => ran' = ran
    BY <1>1, <2>2
  <2> QED
    BY <2>1, <2>3, <2>4, <2>5 DEF Returned
<1> QED
  BY <1>2, <1>3, <1>4, <1>5

\* A code that has not been started a second time.
LEMMA RanOnce ==
  ASSUME TypeOK, Runs, NEW e \in Calls, client[e] = "fallback" \/ task[e] = "queued"
  PROVE  ran[e] \in 0..1 /\ ran[e] + 1 \in 0..2
<1>1. task[e] \in {"none", "queued", "running", "draining", "done", "dropped"}
  BY DEF TypeOK
<1>2. Repeated(e) \in {0, 1} /\ (client[e] = "fallback" => Repeated(e) = 0)
  BY DEF Repeated
<1>3. ran[e] = 0 \/ ran[e] = 1
  <2>1. CASE task[e] \in {"none", "queued"}
    BY <1>2, <2>1 DEF Runs, RunsOf
  <2>2. CASE client[e] = "fallback" /\ task[e] \in {"running", "draining", "done"}
    <3>1. ran[e] = 1 + Repeated(e)
      BY <2>2 DEF Runs, RunsOf
    <3> QED
      BY <1>2, <2>2, <3>1
  <2>3. CASE client[e] = "fallback" /\ task[e] = "dropped"
    <3>1. ran[e] \in {Repeated(e), 1 + Repeated(e)}
      BY <2>3 DEF Runs, RunsOf
    <3> QED
      BY <1>2, <2>3, <3>1
  <2> QED
    BY <1>1, <2>1, <2>2, <2>3
<1> QED
  BY <1>3

LEMMA ReplyTypes ==
  ASSUME TypeOK, NEW e \in Calls, Answer(e)
  PROVE  /\ task' = [task EXCEPT ![e] = "done"]
         /\ reply' \in [Calls -> [kind : {"none", "ok", "error", "crash"}, out : SUBSET Calls]]
<1>1. captured[e] \in SUBSET Calls
  BY DEF TypeOK
<1>2. PICK r \in [kind : {"none", "ok", "error", "crash"}, out : SUBSET Calls] :
        reply' = [reply EXCEPT ![e] = r]
  <2>1. CASE Crash(e)
    BY <2>1 DEF Crash
  <2>2. CASE reply' = [reply EXCEPT ![e] = [kind |-> IF e \in threw THEN "error" ELSE "ok", out |-> captured[e]]]
    <3>1. [kind |-> IF e \in threw THEN "error" ELSE "ok", out |-> captured[e]]
            \in [kind : {"none", "ok", "error", "crash"}, out : SUBSET Calls]
      BY <1>1
    <3> QED
      BY <2>2, <3>1
  <2> QED
    BY <2>1, <2>2 DEF Answer
<1>3. task' = [task EXCEPT ![e] = "done"]
  BY DEF Answer, Crash
<1> QED
  BY <1>2, <1>3 DEF TypeOK

LEMMA TypesStep ==
  ASSUME TypeOK, Runs, [Next]_vars
  PROVE  TypeOK'
<1> USE DEF TypeOK, Streams
<1>1. ASSUME NEW e \in Calls, Connect(e) \/ Receive(e) \/ ReceiveFails(e) \/ MarkerEval(e) PROVE TypeOK'
  <2> HIDE DEF TypeOK
  <2>0. /\ client' = [client EXCEPT ![e] = client'[e]]
        /\ client'[e] \in {"waiting", "fallback"} \cup Returned
        /\ client'[e] = "marker" => client[e] = "fallback" /\ ran' = [ran EXCEPT ![e] = @ + 1]
        /\ client'[e] # "marker" => ran' = ran
        /\ understood' = understood \/ understood' = understood \cup {e}
    BY <1>1, ClientMoves
  <2> USE DEF TypeOK
  <2>1. client' \in [Calls -> {"idle", "waiting", "fallback"} \cup Returned]
    <3>1. PICK v \in {"idle", "waiting", "fallback"} \cup Returned : client' = [client EXCEPT ![e] = v]
      BY <2>0
    <3> QED
      BY <3>1
  <2>2. understood' \subseteq Calls
    <3>1. understood' = understood \/ understood' = understood \cup {e}
      BY <2>0
    <3> QED
      BY <3>1
  <2>3. ran' \in [Calls -> 0..2]
    <3>1. CASE client'[e] = "marker"
      <4>1. ran[e] + 1 \in 0..2
        BY <2>0, <3>1, RanOnce
      <4> QED
        BY <2>0, <3>1, <4>1
    <3>2. CASE client'[e] # "marker"
      BY <2>0, <3>2
    <3> QED
      BY <3>1, <3>2
  <2>4. task' \in [Calls -> {"none", "queued", "running", "draining", "done", "dropped"}]
    BY <1>1 DEF Connect, Receive, ReceiveFails, MarkerEval
  <2>5. UNCHANGED <<transport, threw, reply, socket, restarts, streamVars, outer, overlapped, crossed>>
    BY <1>1 DEF Connect, Receive, ReceiveFails, MarkerEval, historyVars
  <2> QED
    BY <2>1, <2>2, <2>3, <2>4, <2>5 DEF streamVars
<1>2. ASSUME NEW e \in Calls, BeginEval(e) PROVE TypeOK'
  <2>1. ran' \in [Calls -> 0..2]
    BY <1>2, RanOnce DEF BeginEval
  <2>2. outer' \in [Calls -> SUBSET Calls] /\ overlapped' \in BOOLEAN
    BY <1>2 DEF BeginEval, InProgress
  <2> QED
    BY <1>2, <2>1, <2>2 DEF BeginEval, clientVars
<1>3. ASSUME NEW e \in Calls, PrintChunk(e) PROVE TypeOK'
  <2>1. stdout # Terminal => stdout \in Calls
    OBVIOUS
  <2>2. threw' \subseteq Calls /\ printed' \subseteq Calls /\ seen' \subseteq Calls
    BY <1>3 DEF PrintChunk
  <2>3. pipe' \in [Calls -> SUBSET Calls]
    <3>1. pipe' = pipe \/ (stdout \in Calls /\ pipe' = [pipe EXCEPT ![stdout] = @ \cup {e}])
      BY <1>3, <2>1 DEF PrintChunk
    <3>2. stdout \in Calls => pipe[stdout] \cup {e} \in SUBSET Calls
      OBVIOUS
    <3> QED
      BY <3>1, <3>2
  <2> QED
    BY <1>3, <2>2, <2>3 DEF PrintChunk, clientVars, historyVars
<1>4. ASSUME NEW e \in Calls, Drain(e) PROVE TypeOK'
  <2>1. seen' \subseteq Calls
    BY <1>4 DEF Drain
  <2>2. \A p \in Calls : pipe[p] \in SUBSET Calls /\ pipe[p] \cup pipe[e] \in SUBSET Calls
    OBVIOUS
  <2>3. pipe' \in [Calls -> SUBSET Calls]
    BY <1>4, <2>2 DEF Drain
  <2>4. captured' \in [Calls -> SUBSET Calls]
    BY <1>4 DEF Drain
  <2> QED
    BY <1>4, <2>1, <2>3, <2>4 DEF Drain, clientVars, historyVars
<1>5. ASSUME NEW e \in Calls, EndEval(e) PROVE TypeOK'
  <2>1. threw' \subseteq Calls /\ closed' \subseteq Calls /\ stdout' \in Streams
    BY <1>5 DEF EndEval
  <2>2. task' \in [Calls -> {"none", "queued", "running", "draining", "done", "dropped"}]
    BY <1>5 DEF EndEval, Crash
  <2>3. [kind |-> "crash", out |-> {}] \in [kind : {"none", "ok", "error", "crash"}, out : SUBSET Calls]
    OBVIOUS
  <2>4. reply' \in [Calls -> [kind : {"none", "ok", "error", "crash"}, out : SUBSET Calls]]
    BY <1>5, <2>3 DEF EndEval, Crash
  <2>5. crossed' \in BOOLEAN
    BY <1>5 DEF EndEval
  <2> QED
    BY <1>5, <2>1, <2>2, <2>4, <2>5 DEF EndEval, clientVars
<1>6. ASSUME NEW e \in Calls, AnswerWhenDrained(e) PROVE TypeOK'
  <2>1. Answer(e)
    BY <1>6 DEF AnswerWhenDrained
  <2>2. task' \in [Calls -> {"none", "queued", "running", "draining", "done", "dropped"}]
    BY <2>1, ReplyTypes
  <2> QED
    BY <1>6, <2>1, <2>2, ReplyTypes DEF AnswerWhenDrained, clientVars, historyVars, streamVars
<1>7. CASE HelperStarts \/ UNCHANGED vars
  BY <1>7 DEF HelperStarts, clientVars, historyVars, streamVars, vars
<1>8. ASSUME NEW D \in SUBSET Calls, Drop(D)
      PROVE  task' \in [Calls -> {"none", "queued", "running", "draining", "done", "dropped"}]
  BY <1>8 DEF Drop
<1>9. CASE HelperStops
  BY <1>8, <1>9 DEF HelperStops, clientVars, historyVars, streamVars
<1>10. CASE JuliaDies
  <2>1. task' \in [Calls -> {"none", "queued", "running", "draining", "done", "dropped"}]
    BY <1>8, <1>10 DEF JuliaDies
  <2>2. restarts' \in 0..MaxRestarts
    BY <1>10, BoundsAssumption DEF JuliaDies
  <2> QED
    BY <1>10, <2>1, <2>2 DEF JuliaDies, clientVars, historyVars
<1> QED
  BY <1>1, <1>2, <1>3, <1>4, <1>5, <1>6, <1>7, <1>9, <1>10 DEF Next

\* A call that a step does not concern.
LEMMA RunsApart ==
  ASSUME NEW d \in Calls, Runs, client'[d] = client[d], task'[d] = task[d], ran'[d] = ran[d],
         reply'[d] = reply[d], transport' = transport, d \in understood' => d \in understood
  PROVE  RunsOf(d)'
<1>1. Repeated(d)' = Repeated(d)
  BY DEF Repeated
<1> QED
  BY <1>1 DEF Runs, RunsOf

\* The calls of a process that dies, or of requests that are dropped.
LEMMA RunsDropped ==
  ASSUME TypeOK, Runs, UNCHANGED <<client, ran, reply, transport, understood>>, NEW d \in Calls,
         \/ task'[d] = task[d]
         \/ task[d] \in {"queued", "running", "draining"} /\ task'[d] = "dropped"
  PROVE  RunsOf(d)'
<1>1. CASE task'[d] = task[d]
  BY <1>1, RunsApart
<1>2. CASE task[d] \in {"queued", "running", "draining"} /\ task'[d] = "dropped"
  <2>1. Repeated(d)' = Repeated(d)
    BY DEF Repeated
  <2>2. ran[d] \in {Repeated(d), 1 + Repeated(d)}
    BY <1>2 DEF Runs, RunsOf
  <2>3. client[d] # "idle" /\ reply[d].kind = "none" /\ d \notin understood
    BY <1>2 DEF Runs, RunsOf
  <2>4. client[d] \in {"fallback", "marker"} => transport[d] = "auto"
    BY DEF Runs, RunsOf
  <2> QED
    BY <1>2, <2>1, <2>2, <2>3, <2>4 DEF RunsOf
<1> QED
  BY <1>1, <1>2

\* A task that goes on.
LEMMA RunsOn ==
  ASSUME TypeOK, Runs, UNCHANGED <<client, transport, understood>>, NEW d \in Calls,
         \/ task[d] = "queued" /\ task'[d] = "running" /\ ran'[d] = ran[d] + 1 /\ reply'[d] = reply[d]
         \/ task[d] = "running" /\ task'[d] = "draining" /\ ran'[d] = ran[d] /\ reply'[d] = reply[d]
         \/ task[d] \in {"running", "draining"} /\ task'[d] = "done" /\ ran'[d] = ran[d]
  PROVE  RunsOf(d)'
<1>1. Repeated(d)' = Repeated(d) /\ Repeated(d) \in {0, 1}
  BY DEF Repeated
<1>2. client[d] # "idle" /\ reply[d].kind = "none" /\ d \notin understood
  BY DEF Runs, RunsOf
<1>3. ran'[d] = 1 + Repeated(d)
  <2>1. CASE task[d] = "queued" /\ ran'[d] = ran[d] + 1
    <3>1. ran[d] = Repeated(d)
      BY <2>1 DEF Runs, RunsOf
    <3> QED
      BY <1>1, <2>1, <3>1
  <2>2. CASE task[d] \in {"running", "draining"} /\ ran'[d] = ran[d]
    BY <2>2 DEF Runs, RunsOf
  <2> QED
    BY <2>1, <2>2
<1>4. client[d] \in {"fallback", "marker"} => transport[d] = "auto"
  BY DEF Runs, RunsOf
<1> QED
  BY <1>1, <1>2, <1>3, <1>4 DEF RunsOf

\* The call of a client that goes on.
LEMMA RunsClient ==
  ASSUME TypeOK, Runs, NEW e \in Calls, Connect(e) \/ Receive(e) \/ ReceiveFails(e) \/ MarkerEval(e)
  PROVE  RunsOf(e)'
<1>0. /\ client[e] \in {"idle", "waiting", "fallback"} /\ Repeated(e) = 0
      /\ client'[e] \in {"waiting", "fallback"} \cup Returned
      /\ client'[e] = "fallback" => transport[e] = "auto"
      /\ client'[e] # "marker" => ran' = ran
      /\ transport' = transport
  BY ClientMoves DEF Repeated, Connect, Receive, ReceiveFails, MarkerEval
<1>1. CASE Connect(e)
  <2>1. client[e] = "idle" /\ task[e] = "none" /\ ran[e] = 0 /\ e \notin understood /\ reply[e].kind = "none"
    BY <1>0, <1>1 DEF Connect, Runs, RunsOf
  <2>2. task'[e] \in {"none", "queued"} /\ UNCHANGED <<ran, reply, understood>>
    BY <1>1, <2>1 DEF Connect, historyVars, TypeOK
  <2>3. client'[e] \in {"waiting", "failed", "fallback"}
    BY <1>1, FailTypes DEF Connect, Goto, TypeOK
  <2>4. Repeated(e)' = 0
    BY <2>3 DEF Repeated
  <2> QED
    BY <1>0, <2>1, <2>2, <2>3, <2>4 DEF RunsOf
<1>2. CASE /\ Goto(e, IF reply[e].kind = "ok" THEN "ok" ELSE "error") /\ reply[e].kind # "none"
           /\ UNCHANGED <<task, reply, ran>>
  <2>1. UNCHANGED <<task, reply, ran>> /\ reply[e].kind # "none" /\ client'[e] \in {"ok", "error"}
    BY <1>2 DEF Goto, TypeOK
  <2>2. Repeated(e)' = 0
    BY <2>1 DEF Repeated
  <2> QED
    BY <1>0, <2>1, <2>2 DEF Runs, RunsOf
<1>3. CASE Fail(e) /\ client[e] = "waiting" /\ UNCHANGED <<task, reply, ran, understood>>
  <2>1. UNCHANGED <<task, reply, ran, understood>> /\ client[e] = "waiting"
    BY <1>3
  <2>2. client'[e] \in {"failed", "fallback"}
    BY <1>3, FailTypes
  <2>3. Repeated(e)' = 0
    BY <2>2 DEF Repeated
  <2>4. e \notin understood
    BY <2>1 DEF Runs, RunsOf
  <2> QED
    BY <1>0, <2>1, <2>2, <2>3, <2>4 DEF Runs, RunsOf
<1>4. CASE MarkerEval(e)
  <2>1. UNCHANGED <<task, reply, understood>> /\ client[e] = "fallback"
    BY <1>4 DEF MarkerEval, historyVars
  <2>2. transport[e] = "auto" /\ e \notin understood
    BY <2>1 DEF Runs, RunsOf
  <2>3. ran'[e] = ran[e] + Repeated(e)' /\ Repeated(e)' \in {0, 1}
        /\ client'[e] \in {"marker", "refused"}
    <3>1. CASE client' = [client EXCEPT ![e] = "marker"] /\ ran' = [ran EXCEPT ![e] = @ + 1]
      <4>1. client'[e] = "marker" /\ ran'[e] = ran[e] + 1
        BY <3>1 DEF TypeOK
      <4> QED
        BY <4>1 DEF Repeated
    <3>2. CASE client' = [client EXCEPT ![e] = "refused"] /\ ran' = ran
      <4>1. client'[e] = "refused" /\ ran'[e] = ran[e]
        BY <3>2 DEF TypeOK
      <4>2. ran[e] \in Nat
        BY DEF TypeOK
      <4>3. Repeated(e)' = 0
        BY <4>1 DEF Repeated
      <4> QED
        BY <4>1, <4>2, <4>3
    <3> QED
      BY <1>4, <3>1, <3>2 DEF MarkerEval, Goto
  <2>4. /\ task[e] \in {"none", "queued"} => ran[e] = 0
        /\ task[e] \in {"running", "draining", "done"} => ran[e] = 1
        /\ task[e] = "dropped" => ran[e] \in {0, 1}
        /\ reply[e].kind # "none" => task[e] = "done"
    BY <1>0 DEF Runs, RunsOf
  <2>5. /\ task'[e] \in {"none", "queued"} => ran'[e] = Repeated(e)'
        /\ task'[e] \in {"running", "draining", "done"} => ran'[e] = 1 + Repeated(e)'
        /\ task'[e] = "dropped" => ran'[e] \in {Repeated(e)', 1 + Repeated(e)'}
    BY <2>1, <2>3, <2>4
  <2> QED
    BY <2>1, <2>2, <2>3, <2>4, <2>5, <1>0 DEF RunsOf
<1>5. CASE Receive(e)
  BY <1>2, <1>3, <1>5 DEF Receive
<1>6. CASE ReceiveFails(e)
  BY <1>3, <1>6 DEF ReceiveFails, historyVars
<1> QED
  BY <1>1, <1>4, <1>5, <1>6

LEMMA RunsStep ==
  ASSUME TypeOK, Runs, [Next]_vars
  PROVE  Runs'
<1> SUFFICES ASSUME NEW d \in Calls PROVE RunsOf(d)'
  BY DEF Runs
<1>1. ASSUME NEW e \in Calls, Connect(e) \/ Receive(e) \/ ReceiveFails(e) \/ MarkerEval(e) PROVE RunsOf(d)'
  <2>1. CASE d = e
    BY <1>1, <2>1, RunsClient
  <2>2. CASE d # e
    <3>1. client' = [client EXCEPT ![e] = client'[e]]
      BY <1>1, ClientMoves
    <3>2. client'[d] = client[d]
      BY <2>2, <3>1 DEF TypeOK
    <3>3. task'[d] = task[d] /\ ran'[d] = ran[d] /\ (d \in understood' => d \in understood)
      BY <1>1, <2>2 DEF Connect, Receive, ReceiveFails, MarkerEval, historyVars, TypeOK
    <3>4. reply' = reply /\ transport' = transport
      BY <1>1 DEF Connect, Receive, ReceiveFails, MarkerEval
    <3> QED
      BY <3>2, <3>3, <3>4, RunsApart
  <2> QED
    BY <2>1, <2>2
<1>2. ASSUME NEW e \in Calls, BeginEval(e) \/ EndEval(e) \/ AnswerWhenDrained(e) PROVE RunsOf(d)'
  <2>0. UNCHANGED <<client, transport, understood>>
    BY <1>2 DEF BeginEval, EndEval, AnswerWhenDrained, clientVars, historyVars
  <2>1. \/ task[d] = "queued" /\ task'[d] = "running" /\ ran'[d] = ran[d] + 1 /\ reply'[d] = reply[d]
        \/ task[d] = "running" /\ task'[d] = "draining" /\ ran'[d] = ran[d] /\ reply'[d] = reply[d]
        \/ task[d] \in {"running", "draining"} /\ task'[d] = "done" /\ ran'[d] = ran[d]
        \/ task'[d] = task[d] /\ ran'[d] = ran[d] /\ reply'[d] = reply[d]
    <3>1. CASE BeginEval(e)
      BY <3>1 DEF BeginEval, TypeOK
    <3>2. CASE EndEval(e)
      BY <3>2 DEF EndEval, Crash, TypeOK
    <3>3. CASE AnswerWhenDrained(e)
      BY <3>3 DEF AnswerWhenDrained, Answer, Crash, TypeOK
    <3> QED
      BY <1>2, <3>1, <3>2, <3>3
  <2> QED
    BY <2>0, <2>1, RunsOn, RunsApart
<1>3. ASSUME NEW e \in Calls, PrintChunk(e) \/ Drain(e) PROVE RunsOf(d)'
  BY <1>3, RunsApart DEF PrintChunk, Drain, clientVars, historyVars
<1>4. CASE HelperStarts \/ UNCHANGED vars
  BY <1>4, RunsApart DEF HelperStarts, clientVars, historyVars, vars
<1>5. CASE HelperStops \/ JuliaDies
  BY <1>5, RunsDropped DEF HelperStops, JuliaDies, Drop, clientVars, historyVars
<1> QED
  BY <1>1, <1>2, <1>3, <1>4, <1>5 DEF Next

-----------------------------------------------------------------------------
(* The streams. *)

\* A stdout that evals in progress have found, and the present one, are open.
LEMMA StdoutOpen ==
  ASSUME TypeOK, Closed, Inner, Open, ~crossed
  PROVE  /\ stdout = Terminal \/ stdout \in Running
         /\ stdout \notin closed
         /\ \A e \in InProgress : saved[e] \notin closed
<1>1. Running \cap closed = {} /\ Terminal \notin closed
  BY TerminalAssumption DEF Running, Closed, TypeOK
<1>2. stdout = Terminal \/ stdout \in Running
  BY DEF Inner, Innermost
<1>3. \A e \in InProgress : saved[e] = Terminal \/ saved[e] \in Running
  BY DEF Open
<1> QED
  BY <1>1, <1>2, <1>3

LEMMA IdlesStream ==
  ASSUME TypeOK, StreamInv, Idles
  PROVE  StreamInv'
<1>0. /\ InProgress' = InProgress /\ Running' = Running
      /\ \A e \in Calls : Began(e) => Began(e)'
      /\ \A e \in Calls : task[e] = "dropped" => task'[e] = "dropped"
      /\ \A e \in Calls : task[e] \in {"draining", "done", "dropped"} => task'[e] = task[e]
      /\ \A e \in Calls : ~Began(e)' => ~Began(e)
      /\ UNCHANGED <<reply, stdout, saved, closed, pipe, captured, printed, seen, outer, overlapped, crossed>>
  BY IdlesKeep
<1>1. Outer'
  BY <1>0 DEF StreamInv, Outer, TypeOK
<1>2. Closed'
  BY <1>0 DEF StreamInv, Closed, TypeOK
<1>3. Inner'
  BY <1>0 DEF StreamInv, Inner, Innermost
<1>4. Open' /\ PipeEmpty'
  BY <1>0 DEF StreamInv, Open, PipeEmpty
<1>5. Shown'
  BY <1>0 DEF StreamInv, Shown
<1>6. Alone'
  BY <1>0 DEF StreamInv, Alone
<1>7. Own'
  BY <1>0 DEF StreamInv, Own
<1> QED
  BY <1>1, <1>2, <1>3, <1>4, <1>5, <1>6, <1>7 DEF StreamInv

LEMMA BeginStream ==
  ASSUME TypeOK, Runs, StreamInv, NEW e \in Calls, BeginEval(e)
  PROVE  StreamInv'
<1>0. UNCHANGED <<reply, closed, pipe, captured, printed, seen, crossed>>
  BY DEF BeginEval
<1>1. /\ task[e] = "queued" /\ task'[e] = "running"
      /\ \A d \in Calls : d # e => task'[d] = task[d]
  BY TaskOf DEF BeginEval
<1>2. /\ saved'[e] = stdout /\ stdout' = e /\ outer'[e] = InProgress
      /\ \A d \in Calls : d # e => saved'[d] = saved[d] /\ outer'[d] = outer[d]
      /\ overlapped' = (overlapped \/ InProgress # {})
  BY DEF BeginEval, TypeOK
<1>3. /\ InProgress' = InProgress \cup {e} /\ Running' = Running \cup {e}
      /\ e \notin InProgress /\ Running \subseteq InProgress /\ InProgress \subseteq Calls
  BY <1>1 DEF InProgress, Running
<1>4. /\ \A d \in Calls : Began(d) => Began(d)'
      /\ \A d \in InProgress : Began(d)
      /\ ~Began(e)
      /\ \A d \in Calls : ~Began(d)' => ~Began(d)
  BY <1>1 DEF Began, InProgress
<1>5. \A d \in Calls : e \notin outer[d]
  BY <1>4 DEF StreamInv, Outer
<1>6. Outer'
  <2>1. ASSUME NEW c \in Calls PROVE c \notin outer'[c] /\ \A d \in outer'[c] : Began(d)'
    <3>1. CASE c = e
      BY <1>2, <1>3, <1>4, <3>1
    <3>2. CASE c # e
      BY <1>2, <1>4, <3>2 DEF StreamInv, Outer, TypeOK
    <3> QED
      BY <3>1, <3>2
  <2>2. ASSUME NEW d \in InProgress', NEW c \in InProgress'
        PROVE  d = c \/ d \in outer'[c] \/ c \in outer'[d]
    BY <1>2, <1>3 DEF StreamInv, Outer
  <2> QED
    BY <2>1, <2>2 DEF Outer
<1>7. Closed'
  BY <1>0, <1>1 DEF StreamInv, Closed, TypeOK
<1>8. Inner'
  <2> SUFFICES ASSUME ~crossed PROVE /\ Innermost(Running, stdout)'
                                     /\ \A c \in Running' : Innermost(Running \cap outer[c], saved[c])'
    BY <1>0 DEF Inner
  <2>1. Innermost(Running, stdout)'
    BY <1>2, <1>3 DEF Innermost
  <2>2. ASSUME NEW c \in Running', c # e PROVE Innermost(Running \cap outer[c], saved[c])'
    <3>1. c \in Running /\ Running' \cap outer'[c] = Running \cap outer[c] /\ saved'[c] = saved[c]
      BY <1>2, <1>3, <1>5, <2>2
    <3>2. \A d \in Running : outer'[d] = outer[d]
      BY <1>2, <1>3
    <3>3. Innermost(Running \cap outer[c], saved[c])
      BY <3>1 DEF StreamInv, Inner
    <3> QED
      BY <3>1, <3>2, <3>3 DEF Innermost
  <2>3. Innermost(Running \cap outer[e], saved[e])'
    <3>1. Running' \cap outer'[e] = Running /\ saved'[e] = stdout
      BY <1>2, <1>3
    <3>2. \A d \in Running : outer'[d] = outer[d]
      BY <1>2, <1>3
    <3>3. Innermost(Running, stdout)
      BY DEF StreamInv, Inner
    <3> QED
      BY <3>1, <3>2, <3>3 DEF Innermost
  <2> QED
    BY <2>1, <2>2, <2>3
<1>9. Open'
  <2> SUFFICES ASSUME ~crossed, NEW c \in InProgress'
               PROVE  saved'[c] = Terminal \/ (saved'[c] \in outer'[c] /\ saved'[c] \in Running')
    BY <1>0 DEF Open
  <2>1. CASE c = e
    <3>1. stdout = Terminal \/ stdout \in Running
      BY StdoutOpen DEF StreamInv
    <3> QED
      BY <1>2, <1>3, <2>1, <3>1
  <2>2. CASE c # e
    BY <1>2, <1>3, <2>2 DEF StreamInv, Open
  <2> QED
    BY <2>1, <2>2
<1>10. PipeEmpty'
  BY <1>0, <1>3 DEF StreamInv, PipeEmpty
<1>11. Shown'
  BY <1>0, <1>1 DEF StreamInv, Shown, TypeOK
<1>12. Alone'
  BY <1>0, <1>2, <1>3 DEF StreamInv, Alone
<1>13. Own'
  <2> SUFFICES ASSUME ~overlapped, ~crossed, InProgress = {}, NEW c \in Calls
               PROVE  /\ c \in InProgress' => captured'[c] \cup pipe'[c] = printed' \cap {c}
                      /\ ~Began(c)' => captured'[c] = {} /\ c \notin printed'
                      /\ reply'[c].kind # "none" => reply'[c].out = printed' \cap {c}
    BY <1>0, <1>2 DEF Own, StreamInv, Alone
  <2>1. c \in InProgress' => captured[c] \cup pipe[c] = printed \cap {c}
    <3>1. captured[e] = {} /\ e \notin printed
      BY <1>4 DEF StreamInv, Own
    <3>2. pipe[e] = {}
      BY DEF StreamInv, PipeEmpty
    <3> QED
      BY <1>3, <3>1, <3>2
  <2> QED
    BY <1>0, <1>4, <2>1 DEF StreamInv, Own
<1> QED
  BY <1>6, <1>7, <1>8, <1>9, <1>10, <1>11, <1>12, <1>13 DEF StreamInv

\* A step that leaves the tasks and stdout alone disturbs only what is in the pipes.
LEMMA TasksKept ==
  ASSUME StreamInv, UNCHANGED <<task, reply, stdout, saved, closed, outer, overlapped, crossed>>
  PROVE  /\ Outer' /\ Closed' /\ Inner' /\ Open' /\ Alone'
         /\ InProgress' = InProgress /\ Running' = Running
         /\ \A e \in Calls : Began(e)' <=> Began(e)
<1>1. InProgress' = InProgress /\ Running' = Running
  BY DEF InProgress, Running
<1>2. \A e \in Calls : Began(e)' <=> Began(e)
  BY DEF Began
<1>3. Outer'
  BY <1>1 DEF StreamInv, Outer, Began
<1>4. Closed'
  BY DEF StreamInv, Closed
<1>5. Inner'
  BY <1>1 DEF StreamInv, Inner, Innermost
<1>6. Open' /\ Alone'
  BY <1>1 DEF StreamInv, Open, Alone
<1> QED
  BY <1>1, <1>2, <1>3, <1>4, <1>5, <1>6

LEMMA PrintStream ==
  ASSUME TypeOK, Runs, StreamInv, NEW e \in Calls, PrintChunk(e)
  PROVE  StreamInv'
<1>0. UNCHANGED <<task, reply, stdout, saved, closed, captured, outer, overlapped, crossed>>
  BY DEF PrintChunk, historyVars
<1>1. /\ Outer' /\ Closed' /\ Inner' /\ Open' /\ Alone'
      /\ InProgress' = InProgress /\ Running' = Running
      /\ \A d \in Calls : Began(d)' <=> Began(d)
  BY <1>0, TasksKept
<1>2. \/ UNCHANGED <<printed, pipe, seen>>
      \/ printed' = printed \cup {e} /\ stdout = Terminal /\ seen' = seen \cup {e} /\ UNCHANGED pipe
      \/ /\ printed' = printed \cup {e} /\ stdout \in Calls /\ UNCHANGED seen
         /\ pipe' = [pipe EXCEPT ![stdout] = @ \cup {e}]
  BY DEF PrintChunk, TypeOK, Streams
<1>3. e \in Running /\ e \in InProgress /\ Running \subseteq InProgress /\ Began(e) /\ reply[e].kind = "none"
  BY DEF PrintChunk, Running, InProgress, Began, Runs, RunsOf
<1>4. ~crossed => stdout \in Running
  BY <1>3 DEF StreamInv, Inner, Innermost
<1>5. PipeEmpty'
  <2> SUFFICES ASSUME ~crossed, NEW d \in Calls, pipe'[d] # {} PROVE d \in InProgress
    BY <1>0, <1>1 DEF PipeEmpty
  <2>1. pipe'[d] = pipe[d] \/ d = stdout
    BY <1>2 DEF TypeOK
  <2> QED
    BY <1>3, <1>4, <2>1 DEF StreamInv, PipeEmpty
<1>6. Shown'
  <2> SUFFICES ASSUME ~crossed, \A d \in Calls : task[d] # "dropped", NEW d \in printed'
               PROVE  d \in seen' \/ \E p \in Calls : d \in pipe'[p]
    BY <1>0 DEF Shown
  <2>1. \A p \in Calls : pipe[p] \subseteq pipe'[p]
    BY <1>2 DEF TypeOK
  <2>2. seen \subseteq seen'
    BY <1>2
  <2>3. CASE d \in printed
    BY <2>1, <2>2, <2>3 DEF StreamInv, Shown
  <2>4. CASE d \notin printed
    <3>1. CASE stdout = Terminal
      BY <1>2, <2>4, <3>1, TerminalAssumption
    <3>2. CASE stdout \in Calls
      <4>1. d = e /\ pipe' = [pipe EXCEPT ![stdout] = @ \cup {e}]
        BY <1>2, <2>4, <3>2, TerminalAssumption
      <4>2. d \in pipe'[stdout]
        BY <3>2, <4>1 DEF TypeOK
      <4> QED
        BY <3>2, <4>2
    <3> QED
      BY <3>1, <3>2 DEF TypeOK, Streams
  <2> QED
    BY <2>3, <2>4
<1>7. Own'
  <2> SUFFICES ASSUME ~overlapped, ~crossed, NEW c \in Calls
               PROVE  /\ c \in InProgress => captured[c] \cup pipe'[c] = printed' \cap {c}
                      /\ ~Began(c) => captured[c] = {} /\ c \notin printed'
                      /\ reply[c].kind # "none" => reply[c].out = printed' \cap {c}
    BY <1>0, <1>1 DEF Own, StreamInv, Alone
  <2>1. CASE c = e
    <3>1. stdout = e
      BY <1>3, <1>4 DEF StreamInv, Alone
    <3>2. captured[e] \cup pipe[e] = printed \cap {e}
      BY <1>3 DEF StreamInv, Own
    <3>3. e # Terminal
      BY TerminalAssumption
    <3>4. \/ printed' = printed /\ pipe'[e] = pipe[e]
          \/ printed' = printed \cup {e} /\ pipe'[e] = pipe[e] \cup {e}
      BY <1>2, <3>1, <3>3 DEF TypeOK
    <3> QED
      BY <1>3, <2>1, <3>2, <3>4
  <2>2. CASE c # e
    <3>1. c \notin InProgress
      BY <1>3, <2>2 DEF StreamInv, Alone
    <3>2. printed' \cap {c} = printed \cap {c} /\ (c \in printed' => c \in printed)
      BY <1>2, <2>2
    <3> QED
      BY <3>1, <3>2 DEF StreamInv, Own
  <2> QED
    BY <2>1, <2>2
<1> QED
  BY <1>1, <1>5, <1>6, <1>7 DEF StreamInv

LEMMA DrainStream ==
  ASSUME TypeOK, Runs, StreamInv, NEW e \in Calls, Drain(e)
  PROVE  StreamInv'
<1>0. UNCHANGED <<task, reply, stdout, saved, closed, printed, outer, overlapped, crossed>>
  BY DEF Drain, historyVars
<1>1. /\ Outer' /\ Closed' /\ Inner' /\ Open' /\ Alone'
      /\ InProgress' = InProgress /\ Running' = Running
      /\ \A d \in Calls : Began(d)' <=> Began(d)
  BY <1>0, TasksKept
<1>2. /\ captured'[e] = captured[e] \cup pipe[e]
      /\ \A d \in Calls : d # e => captured'[d] = captured[d]
      /\ seen \subseteq seen' /\ (saved[e] = Terminal => seen' = seen \cup pipe[e])
  <2>1. captured' = [captured EXCEPT ![e] = @ \cup pipe[e]]
    BY DEF Drain
  <2>2. captured'[e] = captured[e] \cup pipe[e] /\ \A d \in Calls : d # e => captured'[d] = captured[d]
    BY <2>1 DEF TypeOK
  <2>3. seen' = IF saved[e] = Terminal THEN seen \cup pipe[e] ELSE seen
    BY DEF Drain
  <2> QED
    BY <2>2, <2>3
<1>3. /\ \A d \in Calls : d # e =>
           pipe'[d] = IF d = saved[e] /\ d \notin closed THEN pipe[d] \cup pipe[e] ELSE pipe[d]
      /\ saved[e] # e => pipe'[e] = {}
  <2> DEFINE emptied == [pipe EXCEPT ![e] = {}]
  <2>1. pipe' = IF saved[e] \in Calls \ closed THEN [emptied EXCEPT ![saved[e]] = @ \cup pipe[e]] ELSE emptied
    BY DEF Drain
  <2>2. emptied \in [Calls -> SUBSET Calls] /\ emptied[e] = {} /\ \A d \in Calls : d # e => emptied[d] = pipe[d]
    BY DEF TypeOK
  <2> HIDE DEF emptied
  <2>3. CASE saved[e] \in Calls \ closed
    BY <2>1, <2>2, <2>3
  <2>4. CASE saved[e] \notin Calls \ closed
    BY <2>1, <2>2, <2>4
  <2> QED
    BY <2>3, <2>4
<1>4. ~crossed => /\ e \in InProgress
                  /\ \/ saved[e] = Terminal
                     \/ saved[e] \in Running /\ saved[e] # e /\ saved[e] \notin closed
  <2>1. ASSUME ~crossed PROVE e \in InProgress
    BY <2>1 DEF Drain, StreamInv, PipeEmpty
  <2>2. ASSUME ~crossed PROVE saved[e] \notin closed
    BY <2>1, <2>2, StdoutOpen DEF StreamInv
  <2> QED
    BY <2>1, <2>2 DEF StreamInv, Open, Outer
<1>5. Running \subseteq InProgress /\ Running \subseteq Calls
  BY DEF Running, InProgress
<1>6. PipeEmpty'
  <2> SUFFICES ASSUME ~crossed, NEW d \in Calls, pipe'[d] # {} PROVE d \in InProgress
    BY <1>0, <1>1 DEF PipeEmpty
  <2>1. d = e \/ d = saved[e] \/ pipe[d] # {}
    BY <1>3
  <2>2. CASE d = saved[e]
    BY <1>4, <1>5, <2>2, TerminalAssumption
  <2> QED
    BY <1>4, <2>1, <2>2 DEF StreamInv, PipeEmpty
<1>7. Shown'
  <2> SUFFICES ASSUME ~crossed, \A d \in Calls : task[d] # "dropped", NEW d \in printed
               PROVE  d \in seen' \/ \E p \in Calls : d \in pipe'[p]
    BY <1>0 DEF Shown
  <2>1. CASE d \in seen
    BY <1>2, <2>1
  <2>2. ASSUME NEW p \in Calls, d \in pipe[p] PROVE d \in seen' \/ \E q \in Calls : d \in pipe'[q]
    <3>1. CASE p # e
      BY <1>3, <2>2, <3>1
    <3>2. CASE p = e /\ saved[e] = Terminal
      BY <1>2, <2>2, <3>2
    <3>3. CASE p = e /\ saved[e] \in Running /\ saved[e] # e /\ saved[e] \notin closed
      <4>1. saved[e] \in Calls /\ pipe'[saved[e]] = pipe[saved[e]] \cup pipe[e]
        BY <1>3, <1>5, <3>3
      <4> QED
        BY <2>2, <3>3, <4>1
    <3> QED
      BY <1>4, <3>1, <3>2, <3>3
  <2> QED
    BY <2>1, <2>2 DEF StreamInv, Shown
<1>8. Own'
  <2> SUFFICES ASSUME ~overlapped, ~crossed, NEW c \in Calls
               PROVE  /\ c \in InProgress => captured'[c] \cup pipe'[c] = printed \cap {c}
                      /\ ~Began(c) => captured'[c] = {} /\ c \notin printed
                      /\ reply[c].kind # "none" => reply[c].out = printed \cap {c}
    BY <1>0, <1>1 DEF Own, StreamInv, Alone
  <2>1. CASE c = e
    <3>1. Began(e) /\ captured[e] \cup pipe[e] = printed \cap {e}
      BY <1>4 DEF StreamInv, Own, Began, InProgress
    <3>2. captured'[e] \cup pipe'[e] = printed \cap {e}
      BY <1>2, <1>3, <1>4, <3>1, TerminalAssumption
    <3> QED
      BY <2>1, <3>1, <3>2 DEF StreamInv, Own
  <2>2. CASE c # e
    <3>1. c \notin InProgress
      BY <1>4, <2>2 DEF StreamInv, Alone
    <3> QED
      BY <1>2, <2>2, <3>1 DEF StreamInv, Own
  <2> QED
    BY <2>1, <2>2
<1> QED
  BY <1>1, <1>6, <1>7, <1>8 DEF StreamInv

LEMMA EndStream ==
  ASSUME TypeOK, Runs, StreamInv, NEW e \in Calls, EndEval(e)
  PROVE  StreamInv'
<1>0. /\ UNCHANGED <<saved, pipe, captured, printed, seen, outer, overlapped>>
      /\ crossed' = (crossed \/ \E d \in InProgress : e \in outer[d])
      /\ closed' = closed \cup {e} /\ task[e] = "running"
  BY DEF EndEval
<1>1. task'[e] \in {"draining", "done"} /\ \A d \in Calls : d # e => task'[d] = task[d]
  BY TaskOf DEF EndEval, Crash
<1>2. e \in InProgress /\ e \in Running /\ Running' = Running \ {e} /\ Running \subseteq InProgress
  BY <1>0, <1>1 DEF Running, InProgress
<1>3. ASSUME ~crossed'
      PROVE  /\ task'[e] = "draining" /\ reply' = reply /\ stdout' = saved[e]
             /\ \A d \in InProgress : e \notin outer[d]
  <2>1. \A d \in InProgress : e \notin outer[d]
    BY <1>0, <1>3
  <2>2. saved[e] \notin closed
    BY <1>0, <1>2, <1>3, StdoutOpen DEF StreamInv
  <2>3. stdout' = saved[e] /\ task' = [task EXCEPT ![e] = "draining"] /\ reply' = reply
    BY <2>2 DEF EndEval
  <2> QED
    BY <2>1, <2>3 DEF TypeOK
<1>4. /\ InProgress' \subseteq InProgress
      /\ task'[e] = "draining" => InProgress' = InProgress
      /\ \A d \in Calls : Began(d)' <=> Began(d)
      /\ \A d \in Calls : task'[d] = "dropped" <=> task[d] = "dropped"
  BY <1>0, <1>1 DEF InProgress, Began
<1>5. Outer'
  BY <1>0, <1>4 DEF StreamInv, Outer, TypeOK
<1>6. Closed'
  BY <1>0, <1>1 DEF StreamInv, Closed, TypeOK
<1>7. Inner'
  <2> SUFFICES ASSUME ~crossed' PROVE /\ Innermost(Running', saved[e])
                                      /\ \A c \in Running' : Innermost(Running' \cap outer[c], saved[c])
    BY <1>0, <1>3 DEF Inner, Innermost
  <2>1. \A d \in Running : d = e \/ d \in outer[e]
    BY <1>2, <1>3 DEF StreamInv, Outer
  <2>2. Running' = Running \cap outer[e]
    BY <1>2, <2>1 DEF StreamInv, Outer
  <2>3. Innermost(Running', saved[e])
    BY <1>0, <1>2, <2>2 DEF StreamInv, Inner
  <2>4. ASSUME NEW c \in Running' PROVE Innermost(Running' \cap outer[c], saved[c])
    <3>1. c \in Running /\ Running' \cap outer[c] = Running \cap outer[c]
      BY <1>2, <1>3
    <3> QED
      BY <1>0, <3>1 DEF StreamInv, Inner
  <2> QED
    BY <2>3, <2>4
<1>8. Open'
  <2> SUFFICES ASSUME ~crossed', NEW c \in InProgress
               PROVE  saved[c] = Terminal \/ (saved[c] \in outer[c] /\ saved[c] \in Running')
    BY <1>0, <1>3, <1>4 DEF Open
  <2> QED
    BY <1>0, <1>2, <1>3 DEF StreamInv, Open
<1>9. PipeEmpty'
  BY <1>0, <1>3, <1>4 DEF StreamInv, PipeEmpty
<1>10. Shown'
  BY <1>0, <1>4 DEF StreamInv, Shown
<1>11. Alone'
  <2> SUFFICES ASSUME ~overlapped PROVE ~crossed' /\ \A d, c \in InProgress : d = c
    BY <1>0, <1>4 DEF Alone
  <2>1. ~crossed /\ \A d, c \in InProgress : d = c
    BY DEF StreamInv, Alone
  <2>2. e \notin outer[e]
    BY DEF StreamInv, Outer
  <2> QED
    BY <1>0, <1>2, <2>1, <2>2
<1>12. Own'
  <2> SUFFICES ASSUME ~overlapped, NEW c \in Calls
               PROVE  /\ c \in InProgress' => captured[c] \cup pipe[c] = printed \cap {c}
                      /\ ~Began(c)' => captured[c] = {} /\ c \notin printed
                      /\ reply'[c].kind # "none" => reply'[c].out = printed \cap {c}
    BY <1>0 DEF Own
  <2>1. reply' = reply
    BY <1>0, <1>3, <1>11 DEF Alone
  <2> QED
    BY <1>4, <2>1 DEF StreamInv, Own
<1> QED
  BY <1>5, <1>6, <1>7, <1>8, <1>9, <1>10, <1>11, <1>12 DEF StreamInv

LEMMA AnswerStream ==
  ASSUME TypeOK, Runs, StreamInv, NEW e \in Calls, AnswerWhenDrained(e)
  PROVE  StreamInv'
<1>0. /\ UNCHANGED <<stdout, saved, closed, pipe, captured, printed, seen, outer, overlapped, crossed>>
      /\ task[e] = "draining" /\ pipe[e] = {}
  BY DEF AnswerWhenDrained, streamVars, historyVars
<1>1. task'[e] = "done" /\ \A d \in Calls : d # e => task'[d] = task[d]
  BY ReplyTypes, TaskOf DEF AnswerWhenDrained
<1>2. e \in InProgress /\ InProgress' = InProgress \ {e} /\ Running' = Running
  BY <1>0, <1>1 DEF Running, InProgress
<1>3. /\ \A d \in Calls : Began(d)' <=> Began(d)
      /\ \A d \in Calls : task'[d] = "dropped" <=> task[d] = "dropped"
  BY <1>0, <1>1 DEF Began
<1>4. Outer'
  BY <1>0, <1>2, <1>3 DEF StreamInv, Outer, TypeOK
<1>5. Closed'
  BY <1>0, <1>1 DEF StreamInv, Closed, TypeOK
<1>6. Inner'
  BY <1>0, <1>2 DEF StreamInv, Inner, Innermost
<1>7. Open'
  BY <1>0, <1>2 DEF StreamInv, Open
<1>8. PipeEmpty'
  BY <1>0, <1>2 DEF StreamInv, PipeEmpty
<1>9. Shown'
  BY <1>0, <1>3 DEF StreamInv, Shown
<1>10. Alone'
  BY <1>0, <1>2 DEF StreamInv, Alone
<1>11. Own'
  <2> SUFFICES ASSUME ~overlapped, NEW c \in Calls
               PROVE  reply'[c].kind # "none" => reply'[c].out = printed \cap {c}
    BY <1>0, <1>2, <1>3 DEF Own, StreamInv
  <2>1. CASE c # e
    <3>1. reply'[c] = reply[c]
      BY <2>1 DEF AnswerWhenDrained, Answer, Crash, TypeOK
    <3> QED
      BY <3>1 DEF StreamInv, Own
  <2>2. CASE c = e
    <3>1. stdout \notin closed
      BY StdoutOpen DEF StreamInv, Alone
    <3>2. reply' = [reply EXCEPT ![e] = [kind |-> IF e \in threw THEN "error" ELSE "ok", out |-> captured[e]]]
      BY <3>1 DEF AnswerWhenDrained, Answer
    <3>3. reply'[e].out = captured[e]
      BY <3>2 DEF TypeOK
    <3>4. captured[e] \cup pipe[e] = printed \cap {e}
      BY <1>2 DEF StreamInv, Own
    <3> QED
      BY <1>0, <2>2, <3>3, <3>4
  <2> QED
    BY <2>1, <2>2
<1> QED
  BY <1>4, <1>5, <1>6, <1>7, <1>8, <1>9, <1>10, <1>11 DEF StreamInv

LEMMA DiesStream ==
  ASSUME TypeOK, Runs, StreamInv, JuliaDies
  PROVE  StreamInv'
<1>0. /\ UNCHANGED <<reply, saved, closed, captured, printed, seen, outer, overlapped, crossed>>
      /\ stdout' = Terminal /\ \A e \in Calls : pipe'[e] = {}
  BY DEF JuliaDies, historyVars
<1>1. \A e \in Calls : task'[e] = IF task[e] \in {"queued", "running", "draining"} THEN "dropped" ELSE task[e]
  BY DEF JuliaDies, Drop
<1>2. InProgress' = {} /\ Running' = {}
  BY <1>1 DEF InProgress, Running
<1>3. /\ \A d \in Calls : Began(d) => Began(d)'
      /\ \A d \in Calls : ~Began(d)' => ~Began(d)
  BY <1>1 DEF Began
<1>4. Outer'
  BY <1>0, <1>2, <1>3 DEF StreamInv, Outer, TypeOK
<1>5. Closed'
  BY <1>0, <1>1 DEF StreamInv, Closed, TypeOK
<1>6. Inner' /\ Open' /\ PipeEmpty'
  BY <1>0, <1>2 DEF Inner, Innermost, Open, PipeEmpty
<1>7. Shown'
  <2> SUFFICES ASSUME ~crossed, \A d \in Calls : task'[d] # "dropped", NEW d \in printed
               PROVE  d \in seen
    BY <1>0 DEF Shown
  <2>1. \A p \in Calls : pipe[p] = {}
    <3>1. InProgress = {}
      BY <1>1 DEF InProgress
    <3> QED
      BY <3>1 DEF StreamInv, PipeEmpty
  <2>2. \A p \in Calls : task[p] # "dropped"
    BY <1>1
  <2> QED
    BY <2>1, <2>2 DEF StreamInv, Shown
<1>8. Alone'
  BY <1>0, <1>2 DEF StreamInv, Alone
<1>9. Own'
  BY <1>0, <1>2, <1>3 DEF StreamInv, Own
<1> QED
  BY <1>4, <1>5, <1>6, <1>7, <1>8, <1>9 DEF StreamInv

-----------------------------------------------------------------------------
(* The theorems. *)

\* Of every number of servers and calls, and however often the Julia process dies, the
\* invariant holds: every variable has its type, every call was run as often as its
\* requests say, and as long as no eval crosses another the streams are nested.
THEOREM SocketInvariant == Spec => []IInv
<1>1. Init => IInv
  <2>1. ASSUME Init PROVE TypeOK
    <3>1. NoReply \in [kind : {"none", "ok", "error", "crash"}, out : SUBSET Calls]
      BY DEF NoReply
    <3>2. reply \in [Calls -> [kind : {"none", "ok", "error", "crash"}, out : SUBSET Calls]]
      BY <2>1, <3>1 DEF Init
    <3>3. 0 \in 0..2 /\ 0 \in 0..MaxRestarts
      BY BoundsAssumption
    <3>4. ran \in [Calls -> 0..2] /\ restarts \in 0..MaxRestarts
      BY <2>1, <3>3 DEF Init
    <3>5. /\ client \in [Calls -> {"idle", "waiting", "fallback"} \cup Returned]
          /\ task \in [Calls -> {"none", "queued", "running", "draining", "done", "dropped"}]
      BY <2>1 DEF Init
    <3>6. /\ saved \in [Calls -> Streams] /\ stdout \in Streams
          /\ pipe \in [Calls -> SUBSET Calls] /\ captured \in [Calls -> SUBSET Calls]
          /\ outer \in [Calls -> SUBSET Calls]
      BY <2>1 DEF Init, Streams
    <3> QED
      BY <2>1, <3>2, <3>4, <3>5, <3>6 DEF Init, TypeOK
  <2>2. ASSUME Init PROVE Runs
    BY <2>2 DEF Init, Runs, RunsOf, Repeated, NoReply
  <2>3. ASSUME Init PROVE StreamInv
    <3>1. InProgress = {} /\ Running = {}
      BY <2>3 DEF Init, InProgress, Running
    <3>2. Outer /\ Closed /\ Inner /\ Open /\ PipeEmpty /\ Shown /\ Alone
      BY <2>3, <3>1 DEF Init, Outer, Closed, Inner, Innermost, Open, PipeEmpty, Shown, Alone
    <3>3. Own
      BY <2>3, <3>1 DEF Init, Own, NoReply
    <3> QED
      BY <3>2, <3>3 DEF StreamInv
  <2> QED
    BY <2>1, <2>2, <2>3 DEF IInv
<1>2. IInv /\ [Next]_vars => IInv'
  <2> SUFFICES ASSUME IInv, [Next]_vars PROVE IInv'
    OBVIOUS
  <2>1. TypeOK' /\ Runs'
    BY TypesStep, RunsStep DEF IInv
  <2>2. StreamInv'
    BY Effects, IdlesStream, BeginStream, PrintStream, DrainStream, EndStream, AnswerStream, DiesStream DEF IInv
  <2> QED
    BY <2>1, <2>2 DEF IInv
<1> QED
  BY <1>1, <1>2, PTL DEF Spec

\* Every variable has its type, whatever the tasks and the servers do.
THEOREM SocketTypes == Spec => []TypeOK
<1>1. IInv => TypeOK
  BY DEF IInv
<1> QED
  BY <1>1, SocketInvariant, PTL

\* The fallback to the marker transport (eval_code) runs code a second time only when
\* no answer to the first request could be read: none came in time, or what came did
\* not parse.
THEOREM UnderstoodNotRepeated == Spec => []RepeatedOnlyUnread
<1>1. IInv => RepeatedOnlyUnread
  <2> SUFFICES ASSUME IInv, NEW e \in Calls
               PROVE  /\ e \in understood => ran[e] = 1
                      /\ ran[e] = 2 => transport[e] = "auto" /\ client[e] = "marker" /\ task[e] # "none"
    BY DEF RepeatedOnlyUnread
  <2>1. e \in understood => ran[e] = 1
    <3>1. e \in understood => task[e] = "done" /\ Repeated(e) = 0
      BY DEF IInv, Runs, RunsOf, Repeated
    <3> QED
      BY <3>1 DEF IInv, Runs, RunsOf
  <2>2. ASSUME ran[e] = 2 PROVE client[e] = "marker" /\ task[e] # "none"
    <3>1. client[e] # "marker" => Repeated(e) = 0
      BY DEF Repeated
    <3>2. Repeated(e) \in {0, 1}
      BY DEF Repeated
    <3>3. ran[e] = Repeated(e) \/ (ran[e] = 1 + Repeated(e) /\ task[e] # "none")
      BY DEF IInv, TypeOK, Runs, RunsOf
    <3> QED
      BY <2>2, <3>1, <3>2, <3>3
  <2> QED
    BY <2>1, <2>2 DEF IInv, Runs, RunsOf
<1> QED
  BY <1>1, SocketInvariant, PTL

\* The evals of JJMCPHelper restore the streams (the finally block of _run_eval): as
\* long as none crosses another, stdout is that of the innermost running eval, and the
\* terminal when none runs.
THEOREM StreamsNested == Spec => []NestedStreams
<1>1. IInv => NestedStreams
  BY DEF IInv, StreamInv, Inner, Innermost, Running, NestedStreams
<1> QED
  BY <1>1, SocketInvariant, PTL

\* As long as no eval crosses another and the process does not die, all that was
\* printed reaches the terminal (_drain_pipe_tail).
THEOREM OutputShown == Spec => []HumanSeesNestedOutput
<1>1. IInv => HumanSeesNestedOutput
  BY DEF IInv, StreamInv, Shown, HumanSeesNestedOutput, HumanSeesOutput, Quiet
<1> QED
  BY <1>1, SocketInvariant, PTL

\* As long as evals do not overlap, an answer carries all that its eval printed, and
\* nothing else.
THEOREM OutputOwn == Spec => []OwnOutput
<1>1. IInv => OwnOutput
  BY DEF IInv, StreamInv, Own, OwnOutput
<1> QED
  BY <1>1, SocketInvariant, PTL
=============================================================================
