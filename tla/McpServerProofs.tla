--------------------------- MODULE McpServerProofs ---------------------------
(***************************************************************************)
(* Proofs about McpServer, for any kinds of lines, any number of messages  *)
(* and of progress frames: what its two threads write and call, what it    *)
(* answers, and that every step of it is one of RpcService.                *)
(***************************************************************************)
EXTENDS McpServer, TLAPS

-----------------------------------------------------------------------------
(* The threads.  Whole frames are not inductive: a chunk goes where it     *)
(* belongs because only the holder of stdout_mutex writes, and because the *)
(* last chunk on the wire tells where that thread is.  That the dispatcher *)
(* is used by one thread needs that what the reader dispatches is not for  *)
(* the worker.                                                             *)

Writing == {"write", "head", "tail"}
Handling == {"lock_push", "push", "dispatch", "tool"} \cup Writing

\* A thread that handles a message, and a queued job, refer to a line that was read.
CursorsRead ==
    /\ \A t \in Threads : pc[t] \in Handling => cur[t] \in 1..Len(received)
    /\ \A k \in 1..Len(jobs) : jobs[k] \in 1..Len(received)

\* A thread that writes has a frame to write.
FramesReady == \A t \in Threads : pc[t] \in Writing => frame[t] \in Frames

\* Between the two chunks of a frame and before the first a thread holds stdout_mutex.
WriterHoldsMutex == \A t \in Threads : pc[t] \in {"head", "tail"} => stdoutMutex = t

\* As long as the stream works, its last chunk is the head of the frame a thread is
\* in the middle of, or the tail of one.
LastChunk ==
    linkUp =>
        /\ \A t \in Threads : pc[t] = "tail" =>
               Len(wire) > 0 /\ wire[Len(wire)] = Chunk(frame[t], "head")
        /\ (\A t \in Threads : pc[t] # "tail") /\ Len(wire) > 0 =>
               wire[Len(wire)].part = "tail"

\* The reader is never in a call, nor about to begin one.
ReaderCallsNothing ==
    /\ pc["reader"] # "tool"
    /\ pc["reader"] = "dispatch" => ~NeedsWorker(received[cur["reader"]])
    /\ pc["reader"] \in Writing => frame["reader"].type # "progress"

\* A step that has nothing to do with a locked write.
ElsewhereStep ==
    /\ stdoutMutex' = stdoutMutex /\ wire' = wire /\ linkUp' \in {linkUp, FALSE}
    /\ \A t \in Threads :
          pc[t] \in {"head", "tail"} \/ pc'[t] \in {"head", "tail"} =>
              pc'[t] = pc[t] /\ frame'[t] = frame[t]

Typed == TypeOK /\ CursorsRead /\ FramesReady
WireInv == WriterHoldsMutex /\ LastChunk /\ FramesWhole
IInv == Typed /\ WireInv /\ ReaderCallsNothing

-----------------------------------------------------------------------------
\* Frames of messages that were read are frames.
LEMMA FrameKinds ==
  ASSUME NEW i \in 1..MaxMessages
  PROVE  /\ \A b \in Bodies : Response(i, b) \in Frames
         /\ \A type \in {"progress", "list_changed"} : Notice(i, type) \in Frames
BY DEF Response, Notice, Frames

\* What a thread answers is one of the bodies.
LEMMA AnswerKinds ==
  ASSUME NEW m
  PROVE  DirectAnswer(m) \in Bodies /\ ToolOutcomes(m) \subseteq Bodies
<1>1. DirectAnswer(m) \in Bodies
  BY Zenon DEF DirectAnswer, Bodies
<1>2. ToolOutcomes(m) \subseteq Bodies
  BY Zenon DEF ToolOutcomes, Bodies
<1> QED
  BY <1>1, <1>2

\* A chunk has the frame and the part it was made of.
LEMMA ChunkKinds ==
  ASSUME NEW f \in Frames, NEW part \in {"head", "tail"}
  PROVE  Chunk(f, part) \in Chunks /\ Chunk(f, part).frame = f /\ Chunk(f, part).part = part
BY DEF Chunk, Chunks

\* FramesWhole, of any sequence of chunks.
Whole(w) ==
    \A k \in DOMAIN w :
        IF w[k].part = "head"
        THEN k < Len(w) => w[k + 1] = Chunk(w[k].frame, "tail")
        ELSE k > 1 /\ w[k - 1] = Chunk(w[k].frame, "head")

\* What appending a chunk leaves and adds.
LEMMA AppendFacts ==
  ASSUME NEW w \in Seq(Chunks), NEW c \in Chunks, NEW x, x = Append(w, c)
  PROVE  /\ x \in Seq(Chunks) /\ Len(w) \in Nat /\ Len(x) = Len(w) + 1 /\ x[Len(w) + 1] = c
         /\ DOMAIN w = 1..Len(w) /\ DOMAIN x = 1..(Len(w) + 1)
         /\ \A k \in 1..Len(w) : x[k] = w[k]
OBVIOUS

\* The head of a frame may follow the tail of one.
LEMMA AppendHead ==
  ASSUME NEW w \in Seq(Chunks), NEW f \in Frames, Whole(w),
         Len(w) > 0 => w[Len(w)].part = "tail", NEW x, x = Append(w, Chunk(f, "head"))
  PROVE  Whole(x) /\ Len(x) > 0 /\ x[Len(x)] = Chunk(f, "head")
<1> DEFINE n == Len(w)
<1> DEFINE h == Chunk(f, "head")
<1>1. h \in Chunks /\ h.part = "head"
  BY ChunkKinds
<1>2. /\ n \in Nat /\ Len(x) = n + 1 /\ x[n + 1] = h /\ DOMAIN w = 1..n /\ DOMAIN x = 1..n + 1
      /\ \A k \in 1..n : x[k] = w[k]
  BY <1>1, AppendFacts
<1>3. n > 0 => w[n].part # "head"
  OBVIOUS
<1> HIDE DEF n, h
<1>4. ASSUME NEW k \in 1..n, w[k].part = "head" PROVE x[k + 1] = Chunk(x[k].frame, "tail")
  <2>1. k # n
    BY <1>2, <1>3, <1>4
  <2>2. k < n /\ k + 1 \in 1..n /\ k \in DOMAIN w
    BY <1>2, <2>1
  <2>3. w[k + 1] = Chunk(w[k].frame, "tail")
    BY <1>4, <2>2 DEF Whole, n
  <2> QED
    BY <1>2, <2>2, <2>3
<1>5. ASSUME NEW k \in 1..n, w[k].part # "head" PROVE k > 1 /\ x[k - 1] = Chunk(x[k].frame, "head")
  <2>1. k > 1 /\ w[k - 1] = Chunk(w[k].frame, "head")
    BY <1>2, <1>5 DEF Whole
  <2>2. k - 1 \in 1..n
    BY <1>2, <2>1
  <2> QED
    BY <1>2, <2>1, <2>2
<1>6. Whole(x)
  <2> SUFFICES ASSUME NEW k \in 1..n + 1
               PROVE  IF x[k].part = "head"
                      THEN k < Len(x) => x[k + 1] = Chunk(x[k].frame, "tail")
                      ELSE k > 1 /\ x[k - 1] = Chunk(x[k].frame, "head")
    BY <1>2 DEF Whole
  <2>1. CASE k = n + 1
    BY <1>1, <1>2, <2>1 DEF h
  <2>2. CASE k \in 1..n
    BY <1>2, <1>4, <1>5, <2>2
  <2> QED
    BY <1>2, <2>1, <2>2
<1> QED
  BY <1>2, <1>6 DEF h

\* The tail of a frame may follow its head.
LEMMA AppendTail ==
  ASSUME NEW w \in Seq(Chunks), NEW f \in Frames, Whole(w),
         Len(w) > 0, w[Len(w)] = Chunk(f, "head"), NEW x, x = Append(w, Chunk(f, "tail"))
  PROVE  Whole(x) /\ x[Len(x)].part = "tail"
<1> DEFINE n == Len(w)
<1> DEFINE h == Chunk(f, "head")
<1> DEFINE t == Chunk(f, "tail")
<1>1. t \in Chunks /\ t.part = "tail" /\ t.frame = f /\ h.part = "head" /\ h.frame = f
  BY ChunkKinds
<1>2. /\ n \in Nat /\ Len(x) = n + 1 /\ x[n + 1] = t /\ DOMAIN w = 1..n /\ DOMAIN x = 1..n + 1
      /\ \A k \in 1..n : x[k] = w[k]
  BY <1>1, AppendFacts
<1>3. n > 0 /\ w[n] = h
  OBVIOUS
<1> HIDE DEF n, h, t
<1>4. ASSUME NEW k \in 1..n, w[k].part = "head" PROVE x[k + 1] = Chunk(x[k].frame, "tail")
  <2>1. CASE k = n
    BY <1>1, <1>2, <1>3, <2>1 DEF t
  <2>2. CASE k # n
    <3>1. k < n /\ k + 1 \in 1..n /\ k \in DOMAIN w
      BY <1>2, <2>2
    <3>2. w[k + 1] = Chunk(w[k].frame, "tail")
      BY <1>4, <3>1 DEF Whole, n
    <3> QED
      BY <1>2, <3>1, <3>2
  <2> QED
    BY <2>1, <2>2
<1>5. ASSUME NEW k \in 1..n, w[k].part # "head" PROVE k > 1 /\ x[k - 1] = Chunk(x[k].frame, "head")
  <2>1. k > 1 /\ w[k - 1] = Chunk(w[k].frame, "head")
    BY <1>2, <1>5 DEF Whole
  <2>2. k - 1 \in 1..n
    BY <1>2, <2>1
  <2> QED
    BY <1>2, <2>1, <2>2
<1>6. Whole(x)
  <2> SUFFICES ASSUME NEW k \in 1..n + 1
               PROVE  IF x[k].part = "head"
                      THEN k < Len(x) => x[k + 1] = Chunk(x[k].frame, "tail")
                      ELSE k > 1 /\ x[k - 1] = Chunk(x[k].frame, "head")
    BY <1>2 DEF Whole
  <2>1. CASE k = n + 1
    <3>1. x[k - 1] = Chunk(x[k].frame, "head") /\ k > 1 /\ x[k].part # "head"
      BY <1>1, <1>2, <1>3, <2>1 DEF h
    <3> QED
      BY <3>1
  <2>2. CASE k \in 1..n
    BY <1>2, <1>4, <1>5, <2>2
  <2> QED
    BY <1>2, <2>1, <2>2
<1> QED
  BY <1>1, <1>2, <1>6 DEF t

\* A thread that is home handles nothing.
LEMMA HomeIsIdle ==
  ASSUME NEW t \in Threads
  PROVE  Home(t) \in Labels /\ Home(t) \notin Handling
BY DEF Home, Labels, Handling, Writing

\* At the start nothing is handled or written.
LEMMA InitTyped == Init => Typed
<1> SUFFICES ASSUME Init PROVE Typed
  OBVIOUS
<1>1. received \in Seq(Messages) /\ Len(received) <= MaxMessages
  BY BoundsAssumption DEF Init
<1>2. pc \in [Threads -> Labels] /\ \A t \in Threads : pc[t] \notin Handling
  BY HomeIsIdle DEF Init
<1>3. cur \in [Threads -> 0..MaxMessages] /\ frame \in [Threads -> Frames \cup {NoFrame}]
  BY BoundsAssumption DEF Init
<1>4. emitted \in 0..MaxProgress
  BY BoundsAssumption DEF Init
<1>5. jobs \in Seq(1..MaxMessages) /\ wire \in Seq(Chunks) /\ Len(jobs) = 0
  BY DEF Init
<1>6. \A t \in Threads : pc[t] \notin Writing
  BY <1>2 DEF Handling
<1>7. /\ jobsMutex \in Threads \cup {NoThread} /\ stdoutMutex \in Threads \cup {NoThread}
      /\ shuttingDown \in BOOLEAN /\ linkUp \in BOOLEAN
  BY DEF Init
<1> QED
  BY <1>1, <1>2, <1>3, <1>4, <1>5, <1>6, <1>7 DEF Typed, TypeOK, CursorsRead, FramesReady

\* Steps keep the types, and what they refer to.
LEMMA TypedStep ==
  ASSUME Typed, [Next]_vars
  PROVE  Typed'
<1> USE BoundsAssumption DEF Typed, TypeOK, CursorsRead, FramesReady, Handling, Writing, Labels, Goto,
            queueVars, outVars
<1>0. "reader" \in Threads /\ "worker" \in Threads
  BY DEF Threads
<1>1. ASSUME NEW m \in Messages, ReadLine(m) PROVE Typed'
  <2> DEFINE i == Len(received) + 1
  <2>1. i \in 1..MaxMessages /\ received' \in Seq(Messages) /\ Len(received') = i
    BY <1>1 DEF ReadLine
  <2>2. Response(i, "parse_error") \in Frames
    BY <2>1, FrameKinds DEF Bodies
  <2>3. cur' = [cur EXCEPT !["reader"] = i] /\ pc["reader"] = "read"
    BY <1>1 DEF ReadLine
  <2>4. /\ \/ pc' = [pc EXCEPT !["reader"] = "write"] /\ frame' = [frame EXCEPT !["reader"] = Response(i, "parse_error")]
           \/ pc' = [pc EXCEPT !["reader"] = "lock_push"] /\ frame' = frame
           \/ pc' = [pc EXCEPT !["reader"] = "dispatch"] /\ frame' = frame
    BY <1>1 DEF ReadLine
  <2>5. /\ emitted' = emitted /\ jobs' = jobs /\ jobsMutex' = jobsMutex /\ shuttingDown' = shuttingDown
        /\ stdoutMutex' = stdoutMutex /\ wire' = wire /\ linkUp' = linkUp
    BY <1>1 DEF ReadLine
  <2>6. Len(received) \in Nat /\ i = Len(received) + 1
    OBVIOUS
  <2> HIDE DEF i
  <2>7. TypeOK'
    <3>1. pc' \in [Threads -> Labels] /\ frame' \in [Threads -> Frames \cup {NoFrame}]
      BY <1>0, <2>2, <2>4
    <3>2. cur' \in [Threads -> 0..MaxMessages]
      BY <1>0, <2>1, <2>3
    <3> QED
      BY <2>1, <2>5, <3>1, <3>2
  <2>8. CursorsRead'
    BY <1>0, <2>1, <2>3, <2>4, <2>5, <2>6
  <2>9. FramesReady'
    BY <1>0, <2>2, <2>4
  <2> QED
    BY <2>7, <2>8, <2>9
<1>2. CASE ReadEof
  BY <1>2, <1>0 DEF ReadEof
<1>3. ASSUME NEW t \in Threads, NEW from \in Labels, NEW to \in Labels, LockJobs(t, from, to),
             from \notin Handling => to \notin Handling, to \notin Writing
      PROVE  Typed'
  BY <1>3 DEF LockJobs
<1>4. CASE PushJob
  <2>1. cur["reader"] \in 1..Len(received) /\ cur["reader"] \in 1..MaxMessages
    BY <1>4, <1>0 DEF PushJob
  <2>2. jobs' \in Seq(1..MaxMessages) /\ \A k \in 1..Len(jobs') : jobs'[k] \in 1..Len(received)
    BY <1>4, <2>1 DEF PushJob
  <2> QED
    BY <1>4, <1>0, <2>2 DEF PushJob
<1>5. CASE RaiseShutdown
  BY <1>5, <1>0 DEF RaiseShutdown
<1>6. ASSUME NEW from \in Labels, NEW to \in Labels \ Handling, Notify(from, to) PROVE Typed'
  BY <1>6, <1>0 DEF Notify
<1>7. CASE JoinWorker
  BY <1>7, <1>0 DEF JoinWorker
<1>8. CASE WaitSleep \/ WaitSpuriousWakeup \/ WorkerReturn
  BY <1>8, <1>0 DEF WaitSleep, WaitSpuriousWakeup, WorkerReturn
<1>9. CASE PopJob
  <2>1. Len(jobs) > 0 /\ Head(jobs) = jobs[1] /\ Len(Tail(jobs)) = Len(jobs) - 1
    BY <1>9 DEF PopJob
  <2>2. Tail(jobs) \in Seq(1..MaxMessages) /\ \A k \in 1..Len(Tail(jobs)) : Tail(jobs)[k] \in 1..Len(received)
    BY <2>1
  <2> QED
    BY <1>9, <1>0, <2>1, <2>2 DEF PopJob
<1>10. ASSUME NEW t \in Threads, Dispatch(t) PROVE Typed'
  <2>1. cur[t] \in 1..MaxMessages
    BY <1>10 DEF Dispatch
  <2>2. Notice(cur[t], "list_changed") \in Frames /\ Response(cur[t], DirectAnswer(received[cur[t]])) \in Frames
    BY <2>1, FrameKinds, AnswerKinds
  <2>3. /\ received' = received /\ cur' = cur /\ jobs' = jobs /\ jobsMutex' = jobsMutex
        /\ shuttingDown' = shuttingDown /\ stdoutMutex' = stdoutMutex /\ wire' = wire /\ linkUp' = linkUp
        /\ pc[t] = "dispatch" /\ emitted' \in {emitted, 0}
    BY <1>10 DEF Dispatch
  <2>4. \/ pc' = [pc EXCEPT ![t] = "write"] /\ \E f \in Frames : frame' = [frame EXCEPT ![t] = f]
        \/ pc' = [pc EXCEPT ![t] = Home(t)] /\ frame' = frame
        \/ pc' = [pc EXCEPT ![t] = "tool"] /\ frame' = frame
    BY <1>10, <2>2 DEF Dispatch
  <2>5. pc' \in [Threads -> Labels] /\ frame' \in [Threads -> Frames \cup {NoFrame}]
    BY <2>4, HomeIsIdle
  <2>6. TypeOK'
    BY <2>3, <2>5
  <2>7. CursorsRead'
    BY <2>3, <2>4, HomeIsIdle
  <2>8. FramesReady'
    BY <2>3, <2>4, HomeIsIdle
  <2> QED
    BY <2>6, <2>7, <2>8
<1>11. ASSUME NEW t \in Threads, EmitProgress(t) PROVE Typed'
  <2>1. cur[t] \in 1..MaxMessages
    BY <1>11 DEF EmitProgress
  <2> QED
    BY <1>11, <2>1, FrameKinds DEF EmitProgress
<1>12. ASSUME NEW t \in Threads, ToolReturn(t) PROVE Typed'
  <2>1. cur[t] \in 1..MaxMessages
    BY <1>12 DEF ToolReturn
  <2>2. \A b \in ToolOutcomes(received[cur[t]]) : Response(cur[t], b) \in Frames
    BY <2>1, FrameKinds, AnswerKinds
  <2> QED
    BY <1>12, <2>2 DEF ToolReturn
<1>13. ASSUME NEW t \in Threads, LockStdout(t) PROVE Typed'
  BY <1>13 DEF LockStdout
<1>14. ASSUME NEW t \in Threads, WriteHead(t) PROVE Typed'
  BY <1>14, ChunkKinds DEF WriteHead, Put
<1>15. ASSUME NEW t \in Threads, WriteTail(t) PROVE Typed'
  BY <1>15, ChunkKinds, HomeIsIdle DEF WriteTail, Put
<1>16. CASE LinkBreaks \/ Exited \/ Hung \/ UNCHANGED vars
  BY <1>16 DEF LinkBreaks, Exited, Hung, vars
<1> QED
  BY <1>0, <1>1, <1>2, <1>3, <1>4, <1>5, <1>6, <1>7, <1>8, <1>9, <1>10, <1>11, <1>12, <1>13,
     <1>14, <1>15, <1>16
  DEF Next, ReadMessage, ReaderStep, WorkerStep, Handle

-----------------------------------------------------------------------------
\* Four actions make up a locked write; the rest is elsewhere.
LEMMA StepKinds ==
  ASSUME Typed, [Next]_vars
  PROVE  ElsewhereStep \/ \E t \in Threads : LockStdout(t) \/ WriteHead(t) \/ WriteTail(t)
<1> USE DEF Typed, TypeOK, Goto, queueVars, outVars, ElsewhereStep
<1>0. "reader" \in Threads /\ "worker" \in Threads
  BY DEF Threads
<1>1. ASSUME NEW m \in Messages, ReadLine(m) PROVE ElsewhereStep
  BY <1>0, <1>1 DEF ReadLine
<1>2. CASE \/ LockJobs("reader", "lock_push", "push") \/ LockJobs("reader", "lock_stop", "stop")
         \/ LockJobs("worker", "lock_jobs", "check")
  BY <1>0, <1>2 DEF LockJobs
<1>3. ASSUME NEW from, NEW to, Notify(from, to),
             from \notin {"head", "tail"}, to \notin {"head", "tail"}
      PROVE  ElsewhereStep
  BY <1>0, <1>3 DEF Notify
<1>4. CASE ReadEof \/ PushJob \/ RaiseShutdown \/ JoinWorker
  BY <1>0, <1>4 DEF ReadEof, PushJob, RaiseShutdown, JoinWorker
<1>5. CASE WaitSleep \/ WaitSpuriousWakeup \/ PopJob \/ WorkerReturn
  BY <1>0, <1>5 DEF WaitSleep, WaitSpuriousWakeup, PopJob, WorkerReturn
<1>6. ASSUME NEW t \in Threads, Dispatch(t) PROVE ElsewhereStep
  <2>1. Home(t) \notin {"head", "tail"}
    BY DEF Home
  <2>2. /\ stdoutMutex' = stdoutMutex /\ wire' = wire /\ linkUp' = linkUp /\ pc[t] = "dispatch"
        /\ \E to \in {"write", "tool", Home(t)} : pc' = [pc EXCEPT ![t] = to]
        /\ frame' = frame \/ \E f : frame' = [frame EXCEPT ![t] = f]
    BY <1>6 DEF Dispatch
  <2> QED
    BY <2>1, <2>2
<1>7. ASSUME NEW t \in Threads, EmitProgress(t) \/ ToolReturn(t) PROVE ElsewhereStep
  BY <1>7 DEF EmitProgress, ToolReturn
<1>8. CASE LinkBreaks \/ Exited \/ Hung \/ UNCHANGED vars
  BY <1>8 DEF LinkBreaks, Exited, Hung, vars
<1> HIDE DEF ElsewhereStep
<1>9. CASE ReaderStep
  <2>1. ASSUME Notify("notify", "read") \/ Notify("notify_all", "join") PROVE ElsewhereStep
    BY <1>3, <2>1
  <2> QED
    BY <1>0, <1>2, <1>4, <1>6, <1>9, <2>1 DEF ReaderStep, Handle
<1>10. CASE WorkerStep
  BY <1>0, <1>2, <1>5, <1>6, <1>10 DEF WorkerStep, Handle
<1> QED
  BY <1>1, <1>4, <1>5, <1>7, <1>8, <1>9, <1>10 DEF Next, ReadMessage

\* Steps elsewhere leave the wire, and may only lose the stream.
LEMMA ElsewhereKeepsWire ==
  ASSUME Typed, WireInv, ElsewhereStep
  PROVE  WireInv'
<1> USE DEF Typed, TypeOK, WireInv, ElsewhereStep
<1>1. WriterHoldsMutex'
  BY DEF WriterHoldsMutex
<1>2. LastChunk'
  BY DEF LastChunk
<1>3. FramesWhole'
  BY DEF FramesWhole
<1> QED
  BY <1>1, <1>2, <1>3

\* Taking stdout_mutex finds nobody in the middle of a frame.
LEMMA LockKeepsWire ==
  ASSUME Typed, WireInv, NEW t \in Threads, LockStdout(t)
  PROVE  WireInv'
<1> USE DEF Typed, TypeOK, WireInv, LockStdout, Goto
<1>1. \A u \in Threads : pc[u] \notin {"head", "tail"}
  BY DEF WriterHoldsMutex, NoThread, Threads
<1>2. WriterHoldsMutex'
  BY <1>1 DEF WriterHoldsMutex
<1>3. LastChunk'
  BY <1>1 DEF LastChunk
<1>4. FramesWhole'
  BY DEF FramesWhole
<1> QED
  BY <1>2, <1>3, <1>4

\* The first chunk follows a whole frame: the other thread is not in the middle of one.
LEMMA HeadKeepsWire ==
  ASSUME Typed, WireInv, NEW t \in Threads, WriteHead(t)
  PROVE  WireInv'
<1> USE DEF Typed, TypeOK, WireInv, WriteHead, Goto
<1>1. \A u \in Threads : u # t => pc[u] \notin {"head", "tail"}
  BY DEF WriterHoldsMutex
<1>2. WriterHoldsMutex'
  BY DEF WriterHoldsMutex
<1>3. frame[t] \in Frames
  BY DEF FramesReady, Writing
<1>4. \A u \in Threads : pc'[u] = "tail" <=> u = t
  BY <1>1
<1>5. CASE linkUp
  <2>1. wire' = Append(wire, Chunk(frame[t], "head")) /\ linkUp' /\ frame' = frame
    BY <1>5 DEF Put
  <2>2. Len(wire) > 0 => wire[Len(wire)].part = "tail"
    BY <1>1, <1>5 DEF LastChunk
  <2>3. wire \in Seq(Chunks) /\ Whole(wire)
    BY DEF FramesWhole, Whole
  <2>4. Whole(wire') /\ Len(wire') > 0 /\ wire'[Len(wire')] = Chunk(frame[t], "head")
    BY <1>3, <2>1, <2>2, <2>3, AppendHead
  <2>5. LastChunk'
    BY <1>4, <2>1, <2>4 DEF LastChunk
  <2>6. FramesWhole'
    BY <2>4 DEF FramesWhole, Whole
  <2> QED
    BY <1>2, <2>5, <2>6
<1>6. CASE ~linkUp
  <2>1. LastChunk'
    BY <1>6 DEF LastChunk
  <2>2. FramesWhole'
    BY <1>6 DEF FramesWhole, Put
  <2> QED
    BY <1>2, <2>1, <2>2
<1> QED
  BY <1>5, <1>6

\* The second chunk follows the first one of the same frame.
LEMMA TailKeepsWire ==
  ASSUME Typed, WireInv, NEW t \in Threads, WriteTail(t)
  PROVE  WireInv'
<1> USE DEF Typed, TypeOK, WireInv, WriteTail, Goto
<1>1. \A u \in Threads : pc'[u] \notin {"head", "tail"}
  <2>1. \A u \in Threads : u # t => pc[u] \notin {"head", "tail"}
    BY DEF WriterHoldsMutex
  <2>2. Home(t) \notin {"head", "tail"}
    BY DEF Home
  <2> QED
    BY <2>1, <2>2
<1>2. WriterHoldsMutex'
  BY <1>1 DEF WriterHoldsMutex
<1>3. frame[t] \in Frames
  BY DEF FramesReady, Writing
<1>4. CASE linkUp
  <2>1. wire' = Append(wire, Chunk(frame[t], "tail"))
    BY <1>4 DEF Put
  <2>2. Len(wire) > 0 /\ wire[Len(wire)] = Chunk(frame[t], "head")
    BY <1>4 DEF LastChunk
  <2>3. wire \in Seq(Chunks) /\ Whole(wire)
    BY DEF FramesWhole, Whole
  <2>4. Whole(wire') /\ wire'[Len(wire')].part = "tail"
    BY <1>3, <2>1, <2>2, <2>3, AppendTail
  <2>5. LastChunk'
    BY <1>1, <2>4 DEF LastChunk
  <2>6. FramesWhole'
    BY <2>4 DEF FramesWhole, Whole
  <2> QED
    BY <1>2, <2>5, <2>6
<1>5. CASE ~linkUp
  <2>1. LastChunk'
    BY <1>5 DEF LastChunk
  <2>2. FramesWhole'
    BY <1>5 DEF FramesWhole, Put
  <2> QED
    BY <1>2, <2>1, <2>2
<1> QED
  BY <1>4, <1>5

\* A line whose method calls the dispatcher is queued, so the reader does not dispatch it.
LEMMA ReaderStaysOut ==
  ASSUME Typed, ReaderCallsNothing, [Next]_vars
  PROVE  ReaderCallsNothing'
<1> USE DEF Typed, TypeOK, Goto, queueVars, outVars, ReaderCallsNothing, Writing
<1>0. "reader" \in Threads /\ "worker" \in Threads /\ "reader" # "worker"
  BY DEF Threads
<1>1. ASSUME NEW m \in Messages, ReadLine(m) PROVE ReaderCallsNothing'
  BY <1>0, <1>1 DEF ReadLine, Response
<1>2. ASSUME NEW t \in Threads, NEW from, NEW to, LockJobs(t, from, to),
             to \notin {"tool", "dispatch"} \cup Writing
      PROVE  ReaderCallsNothing'
  BY <1>0, <1>2 DEF LockJobs
<1>3. ASSUME NEW from, NEW to, Notify(from, to), to \notin {"tool", "dispatch"} \cup Writing
      PROVE  ReaderCallsNothing'
  BY <1>0, <1>3 DEF Notify
<1>4. CASE ReadEof \/ PushJob \/ RaiseShutdown \/ JoinWorker
  BY <1>0, <1>4 DEF ReadEof, PushJob, RaiseShutdown, JoinWorker
<1>5. CASE WaitSleep \/ WaitSpuriousWakeup \/ PopJob \/ WorkerReturn
  BY <1>0, <1>5 DEF WaitSleep, WaitSpuriousWakeup, PopJob, WorkerReturn
<1>6. ASSUME NEW t \in Threads, Dispatch(t) PROVE ReaderCallsNothing'
  <2>1. CASE t = "worker"
    BY <1>0, <1>6, <2>1 DEF Dispatch
  <2>2. CASE t = "reader"
    <3>1. ~Calls(received[cur["reader"]])
      BY <1>6, <2>2 DEF Dispatch, NeedsWorker, Calls, DispatcherMethods
    <3> QED
      BY <1>0, <1>6, <2>2, <3>1 DEF Dispatch, Home, Response, Notice
  <2> QED
    BY <2>1, <2>2 DEF Threads
<1>7. ASSUME NEW t \in Threads, EmitProgress(t) \/ ToolReturn(t) PROVE ReaderCallsNothing'
  BY <1>0, <1>7 DEF EmitProgress, ToolReturn, Threads
<1>8. ASSUME NEW t \in Threads, LockStdout(t) \/ WriteHead(t) PROVE ReaderCallsNothing'
  BY <1>0, <1>8 DEF LockStdout, WriteHead
<1>9. ASSUME NEW t \in Threads, WriteTail(t) PROVE ReaderCallsNothing'
  BY <1>0, <1>9 DEF WriteTail, Home
<1>10. CASE LinkBreaks \/ Exited \/ Hung \/ UNCHANGED vars
  BY <1>10 DEF LinkBreaks, Exited, Hung, vars
<1> QED
  BY <1>0, <1>1, <1>2, <1>3, <1>4, <1>5, <1>6, <1>7, <1>8, <1>9, <1>10
  DEF Next, ReadMessage, ReaderStep, WorkerStep, Handle

-----------------------------------------------------------------------------
\* At the start stdout is empty and the reader reads.
LEMMA InitInvariant == Init => IInv
<1> SUFFICES ASSUME Init PROVE IInv
  OBVIOUS
<1>1. Typed
  BY InitTyped
<1>2. \A t \in Threads : pc[t] \notin {"head", "tail"}
  BY DEF Init, Home
<1>3. WireInv
  BY <1>2 DEF Init, WireInv, WriterHoldsMutex, LastChunk, FramesWhole
<1>4. pc["reader"] = "read"
  BY DEF Init, Home, Threads
<1>5. ReaderCallsNothing
  BY <1>4 DEF ReaderCallsNothing, Writing
<1> QED
  BY <1>1, <1>3, <1>5 DEF IInv

\* The inductive invariant: a thread in the middle of a write holds stdout_mutex, the
\* last chunk on the wire is the one it has written, and the reader calls no tool.
THEOREM ServerInvariant == Spec => []IInv
<1>1. IInv /\ [Next]_vars => IInv'
  <2> SUFFICES ASSUME IInv, [Next]_vars PROVE IInv'
    OBVIOUS
  <2>1. Typed /\ WireInv /\ ReaderCallsNothing
    BY DEF IInv
  <2>2. Typed' /\ ReaderCallsNothing'
    BY <2>1, TypedStep, ReaderStaysOut
  <2>3. WireInv'
    BY <2>1, StepKinds, ElsewhereKeepsWire, LockKeepsWire, HeadKeepsWire, TailKeepsWire
  <2> QED
    BY <2>2, <2>3 DEF IInv
<1> QED
  BY <1>1, InitInvariant, PTL DEF Spec

\* Every reachable state of the server is well typed.
THEOREM ServerTypes == Spec => []TypeOK
<1>1. IInv => TypeOK
  BY DEF IInv, Typed
<1> QED
  BY <1>1, ServerInvariant, PTL

\* Frames of the two threads never mix on stdout, whatever the client sends and
\* however many progress frames a call emits (main.cpp:153).
THEOREM WholeFrames == Spec => []FramesWhole
<1>1. IInv => FramesWhole
  BY DEF IInv, WireInv
<1> QED
  BY <1>1, ServerInvariant, PTL

\* At most one thread is inside a dispatcher call (main.cpp:161): the reader never is.
THEOREM OneCaller == Spec => []DispatcherExclusive
<1>1. IInv => DispatcherExclusive
  BY DEF IInv, ReaderCallsNothing, Writing, DispatcherExclusive, InCall
<1> QED
  BY <1>1, ServerInvariant, PTL

-----------------------------------------------------------------------------
(* The answers: once, in order, around progress, and to the last line.  A  *)
(* line is open from the moment it is read until a thread has handled it:  *)
(* the reader has it, it waits in the queue, or the worker has it.  It is  *)
(* in one of these places only, and answered when it is not open.          *)

Lines == 1..Len(received)
Takes(t, i) == pc[t] \in Handling /\ cur[t] = i
InQueue(i) == \E k \in 1..Len(jobs) : jobs[k] = i
Open(i) == InQueue(i) \/ \E t \in Threads : Takes(t, i)

\* Lines are queued in the order they are read, and taken in that order.
InOrder ==
    /\ \A k, l \in 1..Len(jobs) : k < l => jobs[k] < jobs[l]
    /\ pc["worker"] \in Handling => \A k \in 1..Len(jobs) : cur["worker"] < jobs[k]
    /\ pc["reader"] \in Handling =>
          /\ cur["reader"] = Len(received)
          /\ \A k \in 1..Len(jobs) : jobs[k] < cur["reader"]
          /\ pc["worker"] \in Handling => cur["worker"] < cur["reader"]

\* What is queued, and what the worker has, is for the worker; the reader has such a
\* line only to push it.
RightThread ==
    /\ \A k \in 1..Len(jobs) : Queued(jobs[k])
    /\ pc["worker"] \in Handling => Queued(cur["worker"])
    /\ pc["reader"] \in Handling => (Queued(cur["reader"]) <=> pc["reader"] \in {"lock_push", "push"})

\* The worker skips no line.
NoneSkipped == \A i, j \in Lines : i < j /\ Queued(i) /\ Queued(j) /\ Open(i) => Open(j)

\* A frame says of the line it is about what may be said of it.
Fits(f, m) ==
    /\ f.type = "response" => WantsReply(m) /\ (m.parses /\ Valid(m) /\ Calls(m) => m.returns)
    /\ f.type = "progress" => Valid(m) /\ Calls(m) /\ m.method = "tools/call" /\ m.token
    /\ f.type = "list_changed" => ~WantsReply(m)

InHand ==
    \A t \in Threads :
        /\ pc[t] = "dispatch" => received[cur[t]].parses
        /\ pc[t] = "tool" => Valid(received[cur[t]]) /\ Calls(received[cur[t]])
        /\ pc[t] \in Writing => frame[t].msg = cur[t] /\ Fits(frame[t], received[cur[t]])

\* What is on the wire is about lines that were read.
OnWire == \A k \in 1..Len(wire) : wire[k].frame.msg \in Lines /\ Fits(wire[k].frame, received[wire[k].frame.msg])

IsAnswer(k, i, part) == wire[k].part = part /\ wire[k].frame.type = "response" /\ wire[k].frame.msg = i
EndsAnswer(i) == \E t \in Threads : pc[t] = "tail" /\ frame[t].type = "response" /\ cur[t] = i

\* An answer to an open line is on the wire only while a thread is writing it.
HeadIsLast == \A k \in 1..Len(wire), i \in Lines : IsAnswer(k, i, "head") /\ Open(i) => EndsAnswer(i)

\* A line that is not open any more has its answer, unless the stream failed.
Answered(i) == \E k \in 1..Len(wire) : IsAnswer(k, i, "tail")
Complete == linkUp => \A i \in Lines : WantsReply(received[i]) => Open(i) \/ Answered(i)

\* The worker never gets past a call that hangs, and so answers only what is owed.
HangsStay == \A i \in Lines : Hangs(i) => Open(i)
OnlyOwed == \A i \in Lines : Answered(i) => Owed(i)

\* The worker ends when shutdown was raised and the queue is empty, and the reader joins it.
Ends ==
    /\ shuttingDown <=> pc["reader"] \in {"notify_all", "join", "exited"}
    /\ pc["worker"] = "exited" => shuttingDown /\ jobs = <<>>
    /\ pc["reader"] = "exited" => pc["worker"] = "exited"

\* What the client may rely on, of the chunks on the wire.
Once ==
    \A k, l \in 1..Len(wire), i \in Lines : IsAnswer(k, i, "head") /\ IsAnswer(l, i, "head") => k = l
InSequence ==
    \A k, l \in 1..Len(wire), i, j \in Lines :
        i < j /\ Queued(i) /\ Queued(j) /\ IsAnswer(k, i, "head") /\ IsAnswer(l, j, "head") => k < l
IsProgress(k, i) == wire[k].part = "head" /\ wire[k].frame.type = "progress" /\ wire[k].frame.msg = i
InsideCall ==
    \A k \in 1..Len(wire), i \in Lines : IsProgress(k, i) =>
        /\ \A l \in 1..Len(wire) : IsAnswer(l, i, "head") => k < l
        /\ \A j \in Lines : j < i /\ Queued(j) /\ WantsReply(received[j]) =>
               \E l \in 1..Len(wire) : l < k /\ IsAnswer(l, j, "tail")

Hands == InOrder /\ RightThread /\ NoneSkipped /\ InHand /\ HangsStay
Sent == OnWire /\ HeadIsLast /\ Complete /\ OnlyOwed
Promises == Once /\ InSequence /\ InsideCall
AInv == IInv /\ Ends /\ Hands /\ Sent /\ Promises

-----------------------------------------------------------------------------
(* Kinds of steps. *)

\* A step that moves no line from one place to another, and no frame.
StillStep ==
    /\ received' = received /\ cur' = cur /\ frame' = frame /\ jobs' = jobs /\ wire' = wire
    /\ linkUp' \in {linkUp, FALSE}
    /\ \A t \in Threads :
          \/ pc'[t] = pc[t]
          \/ pc[t] \notin Handling /\ pc'[t] \notin Handling
          \/ pc[t] = "lock_push" /\ pc'[t] = "push"
          \/ pc[t] = "write" /\ pc'[t] = "head"

\* What handling a line may lead to, short of writing: a frame, a call, nothing.
Elsewhere == received' = received /\ cur' = cur /\ jobs' = jobs /\ wire' = wire /\ linkUp' = linkUp
ComposeStep(t) ==
    /\ pc[t] \in {"dispatch", "tool"} /\ pc' = [pc EXCEPT ![t] = "write"]
    /\ \E f \in Frames : f.msg = cur[t] /\ Fits(f, received[cur[t]]) /\ frame' = [frame EXCEPT ![t] = f]
    /\ Elsewhere
CallStep(t) ==
    /\ pc[t] = "dispatch" /\ pc' = [pc EXCEPT ![t] = "tool"] /\ frame' = frame
    /\ Valid(received[cur[t]]) /\ Calls(received[cur[t]]) /\ Elsewhere
DropStep(t) ==
    /\ pc[t] = "dispatch" /\ pc' = [pc EXCEPT ![t] = Home(t)] /\ frame' = frame
    /\ ~WantsReply(received[cur[t]]) /\ ~Hangs(cur[t]) /\ Elsewhere

\* A frame of the line a thread has.
LEMMA FrameFields ==
  ASSUME NEW i \in 1..MaxMessages
  PROVE  /\ \A b \in Bodies : LET f == Response(i, b) IN f \in Frames /\ f.msg = i /\ f.type = "response"
         /\ \A type \in {"progress", "list_changed"} :
               LET f == Notice(i, type) IN f \in Frames /\ f.msg = i /\ f.type = type
<1>1. \A b \in Bodies : Response(i, b).msg = i /\ Response(i, b).type = "response"
  BY DEF Response
<1>2. \A type \in {"progress", "list_changed"} : Notice(i, type).msg = i /\ Notice(i, type).type = type
  BY DEF Notice
<1> QED
  BY <1>1, <1>2, FrameKinds

\* What dispatch_mcp_request makes of a line.
LEMMA Dispatched ==
  ASSUME Typed, InHand, NEW t \in Threads, Dispatch(t)
  PROVE  ComposeStep(t) \/ CallStep(t) \/ DropStep(t)
<1> DEFINE m == received[cur[t]]
<1>1. pc[t] = "dispatch" /\ m.parses /\ cur[t] \in 1..MaxMessages
  BY DEF Dispatch, InHand, Typed, TypeOK, CursorsRead, Handling
<1>2. Elsewhere
  BY DEF Dispatch, Elsewhere, queueVars, outVars
<1>3. CASE Announces(m) /\ Goto(t, "dispatch", "write") /\ frame' = [frame EXCEPT ![t] = Notice(cur[t], "list_changed")]
  <2> DEFINE f == Notice(cur[t], "list_changed")
  <2>1. f \in Frames /\ f.msg = cur[t] /\ f.type = "list_changed"
    BY <1>1, FrameFields
  <2> HIDE DEF f
  <2>2. Fits(f, m)
    BY <1>1, <1>3, <2>1 DEF Fits, Announces, WantsReply
  <2> QED
    BY <1>1, <1>2, <1>3, <2>1, <2>2 DEF ComposeStep, Goto, f
<1>4. CASE Drops(m) /\ Goto(t, "dispatch", Home(t)) /\ UNCHANGED <<frame, emitted>>
  <2>1. ~WantsReply(m) /\ ~Hangs(cur[t])
    BY <1>1, <1>4 DEF Drops, Announces, WantsReply, Hangs, Calls
  <2> QED
    BY <1>1, <1>2, <1>4, <2>1 DEF DropStep, Goto
<1>5. CASE Valid(m) /\ Calls(m) /\ Goto(t, "dispatch", "tool") /\ UNCHANGED frame
  BY <1>1, <1>2, <1>5 DEF CallStep, Goto
<1>6. CASE /\ ~Announces(m) /\ ~Drops(m) /\ ~(Valid(m) /\ Calls(m)) /\ Goto(t, "dispatch", "write")
           /\ frame' = [frame EXCEPT ![t] = Response(cur[t], DirectAnswer(m))]
  <2> DEFINE f == Response(cur[t], DirectAnswer(m))
  <2>1. f \in Frames /\ f.msg = cur[t] /\ f.type = "response"
    BY <1>1, FrameFields, AnswerKinds
  <2> HIDE DEF f
  <2>2. Fits(f, m)
    BY <1>6, <2>1 DEF Fits, Announces, Drops, WantsReply
  <2> QED
    BY <1>1, <1>2, <1>6, <2>1, <2>2 DEF ComposeStep, Goto, f
<1> QED
  BY <1>3, <1>4, <1>5, <1>6 DEF Dispatch

\* What a call emits, and returns.
LEMMA CallComposes ==
  ASSUME Typed, InHand, NEW t \in Threads, EmitProgress(t) \/ ToolReturn(t)
  PROVE  ComposeStep(t)
<1> DEFINE m == received[cur[t]]
<1>1. pc[t] = "tool" /\ Valid(m) /\ Calls(m) /\ cur[t] \in 1..MaxMessages
  BY DEF EmitProgress, ToolReturn, Goto, InHand, Typed, TypeOK, CursorsRead, Handling
<1>2. Elsewhere /\ pc' = [pc EXCEPT ![t] = "write"]
  BY DEF EmitProgress, ToolReturn, Goto, Elsewhere, queueVars, outVars
<1>3. CASE EmitProgress(t)
  <2> DEFINE f == Notice(cur[t], "progress")
  <2>1. f \in Frames /\ f.msg = cur[t] /\ f.type = "progress"
    BY <1>1, FrameFields
  <2>2. m.method = "tools/call" /\ m.token /\ frame' = [frame EXCEPT ![t] = f]
    BY <1>3 DEF EmitProgress
  <2> HIDE DEF f
  <2>3. Fits(f, m)
    BY <1>1, <2>1, <2>2 DEF Fits
  <2> QED
    BY <1>1, <1>2, <2>1, <2>2, <2>3 DEF ComposeStep
<1>4. CASE ToolReturn(t)
  <2>1. PICK b \in ToolOutcomes(m) : frame' = [frame EXCEPT ![t] = Response(cur[t], b)]
    BY <1>4 DEF ToolReturn
  <2> DEFINE f == Response(cur[t], b)
  <2>2. f \in Frames /\ f.msg = cur[t] /\ f.type = "response"
    BY <1>1, <2>1, FrameFields, AnswerKinds
  <2>3. m.returns /\ frame' = [frame EXCEPT ![t] = f]
    BY <1>4, <2>1 DEF ToolReturn
  <2> HIDE DEF f
  <2>4. Fits(f, m)
    BY <1>1, <2>2, <2>3 DEF Fits, WantsReply, Calls, DispatcherMethods
  <2> QED
    BY <1>1, <1>2, <2>2, <2>3, <2>4 DEF ComposeStep
<1> QED
  BY <1>3, <1>4

\* Every step is of one of these kinds.
LEMMA Kinds ==
  ASSUME Typed, InHand, [Next]_vars
  PROVE  \/ StillStep \/ (\E m \in Messages : ReadLine(m)) \/ PushJob \/ PopJob
         \/ \E t \in Threads : ComposeStep(t) \/ CallStep(t) \/ DropStep(t) \/ WriteHead(t) \/ WriteTail(t)
<1> USE DEF Goto, queueVars, outVars
<1>0. "reader" \in Threads /\ "worker" \in Threads /\ pc \in [Threads -> Labels]
  BY DEF Threads, Typed, TypeOK
<1>1. CASE \/ LockJobs("reader", "lock_push", "push") \/ LockJobs("reader", "lock_stop", "stop")
           \/ LockJobs("worker", "lock_jobs", "check")
  BY <1>0, <1>1 DEF LockJobs, StillStep, Handling, Writing
<1>2. CASE Notify("notify", "read") \/ Notify("notify_all", "join")
  BY <1>0, <1>2 DEF Notify, StillStep, Handling, Writing
<1>3. CASE ReadEof \/ RaiseShutdown \/ JoinWorker
  BY <1>0, <1>3 DEF ReadEof, RaiseShutdown, JoinWorker, StillStep, Handling, Writing
<1>4. CASE WaitSleep \/ WaitSpuriousWakeup \/ WorkerReturn
  BY <1>0, <1>4 DEF WaitSleep, WaitSpuriousWakeup, WorkerReturn, StillStep, Handling, Writing
<1>5. ASSUME NEW t \in Threads, LockStdout(t) PROVE StillStep
  BY <1>0, <1>5 DEF LockStdout, StillStep
<1>6. CASE LinkBreaks \/ Exited \/ Hung \/ UNCHANGED vars
  BY <1>6 DEF LinkBreaks, Exited, Hung, vars, StillStep
<1>7. CASE ReaderStep
  BY <1>0, <1>1, <1>2, <1>3, <1>5, <1>7, Dispatched DEF ReaderStep, Handle
<1>8. CASE WorkerStep
  BY <1>0, <1>1, <1>4, <1>5, <1>8, Dispatched DEF WorkerStep, Handle
<1> QED
  BY <1>3, <1>4, <1>6, <1>7, <1>8, CallComposes DEF Next, ReadMessage

-----------------------------------------------------------------------------
(* Where the lines are. *)

\* What is known of the numbers that name lines.
LEMMA LineFacts ==
  ASSUME Typed
  PROVE  /\ Len(received) \in Nat /\ Len(jobs) \in Nat /\ Len(wire) \in Nat
         /\ \A k \in 1..Len(jobs) : jobs[k] \in Lines /\ jobs[k] \in Nat
         /\ \A t \in Threads : cur[t] \in Nat /\ (pc[t] \in Handling => cur[t] \in Lines)
         /\ \A i \in Lines : i \in Nat
         /\ pc \in [Threads -> Labels] /\ frame \in [Threads -> Frames \cup {NoFrame}]
         /\ cur \in [Threads -> 0..MaxMessages] /\ jobs \in Seq(1..MaxMessages) /\ wire \in Seq(Chunks)
         /\ "reader" \in Threads /\ "worker" \in Threads /\ Threads = {"reader", "worker"}
         /\ received \in Seq(Messages)
<1>1. /\ received \in Seq(Messages) /\ jobs \in Seq(1..MaxMessages) /\ wire \in Seq(Chunks)
      /\ cur \in [Threads -> 0..MaxMessages] /\ MaxMessages \in Nat
      /\ pc \in [Threads -> Labels] /\ frame \in [Threads -> Frames \cup {NoFrame}]
      /\ \A t \in Threads : pc[t] \in Handling => cur[t] \in 1..Len(received)
      /\ \A k \in 1..Len(jobs) : jobs[k] \in 1..Len(received)
  BY BoundsAssumption DEF Typed, TypeOK, CursorsRead
<1>2. Len(received) \in Nat /\ Len(jobs) \in Nat /\ Len(wire) \in Nat
  BY <1>1
<1>3. \A t \in Threads : cur[t] \in Nat
  BY <1>1
<1> QED
  BY <1>1, <1>2, <1>3 DEF Lines, Threads

\* A line is in one place.
LEMMA OnePlace ==
  ASSUME Typed, InOrder, NEW t \in Threads, pc[t] \in Handling
  PROVE  ~InQueue(cur[t]) /\ \A u \in Threads \ {t} : ~Takes(u, cur[t])
<1>1. ~InQueue(cur[t])
  <2>1. \A k \in 1..Len(jobs) : jobs[k] \in Nat /\ cur[t] \in Nat /\ (cur[t] < jobs[k] \/ jobs[k] < cur[t])
    BY LineFacts DEF InOrder
  <2>2. \A k \in 1..Len(jobs) : jobs[k] # cur[t]
    BY <2>1
  <2> QED
    BY <2>2 DEF InQueue
<1>2. \A u \in Threads \ {t} : ~Takes(u, cur[t])
  BY LineFacts DEF InOrder, Takes
<1> QED
  BY <1>1, <1>2

\* Where a step leaves every line where it is.
Stays == received' = received /\ \A i : Open(i)' <=> Open(i)
\* Where it ends the handling of a line, or reads one.
Ended(t) == received' = received /\ \A i : Open(i)' <=> Open(i) /\ i # cur[t]
Began == \A i : Open(i)' <=> Open(i) \/ i = Len(received) + 1

\* A thread that goes on handling its line.
LEMMA GoesOn ==
  ASSUME Typed, UNCHANGED <<received, cur, jobs>>,
         \A t \in Threads : pc'[t] \in Handling <=> pc[t] \in Handling
  PROVE  Stays
BY DEF Stays, Open, Takes, InQueue

LEMMA StillStays ==
  ASSUME Typed, StillStep
  PROVE  Stays /\ \A t \in Threads : pc'[t] \in Handling <=> pc[t] \in Handling
<1>1. \A t \in Threads : pc'[t] \in Handling <=> pc[t] \in Handling
  BY DEF StillStep, Handling, Writing
<1> QED
  BY <1>1, GoesOn DEF StillStep

LEMMA ThreadStays ==
  ASSUME Typed, NEW t \in Threads, NEW to \in Handling, pc[t] \in Handling,
         pc' = [pc EXCEPT ![t] = to], UNCHANGED <<received, cur, jobs>>
  PROVE  Stays
<1>1. \A u \in Threads : pc'[u] \in Handling <=> pc[u] \in Handling
  BY LineFacts
<1> QED
  BY <1>1, GoesOn

LEMMA ThreadEnds ==
  ASSUME Typed, InOrder, NEW t \in Threads, NEW to, to \notin Handling, pc[t] \in Handling,
         pc' = [pc EXCEPT ![t] = to], UNCHANGED <<received, cur, jobs>>
  PROVE  Ended(t)
<1>1. pc'[t] = to /\ \A u \in Threads \ {t} : pc'[u] = pc[u]
  BY LineFacts
<1>2. ~InQueue(cur[t]) /\ \A u \in Threads \ {t} : ~Takes(u, cur[t])
  BY OnePlace
<1>3. ASSUME NEW i PROVE Open(i)' <=> Open(i) /\ i # cur[t]
  <2>1. InQueue(i)' <=> InQueue(i)
    BY DEF InQueue
  <2>2. ~Takes(t, i)' /\ \A u \in Threads \ {t} : Takes(u, i)' <=> Takes(u, i)
    BY <1>1 DEF Takes
  <2>3. Takes(t, i) <=> i = cur[t]
    BY DEF Takes
  <2> QED
    BY <1>2, <2>1, <2>2, <2>3 DEF Open
<1> QED
  BY <1>3 DEF Ended

LEMMA ReadBegins ==
  ASSUME Typed, NEW m \in Messages, ReadLine(m)
  PROVE  Began
<1>1. /\ pc["reader"] = "read" /\ cur' = [cur EXCEPT !["reader"] = Len(received) + 1] /\ jobs' = jobs
      /\ \E to \in {"write", "lock_push", "dispatch"} : pc' = [pc EXCEPT !["reader"] = to]
  BY DEF ReadLine, Goto, queueVars
<1>2. /\ pc'["reader"] \in Handling /\ pc["reader"] \notin Handling /\ cur'["reader"] = Len(received) + 1
      /\ \A t \in Threads \ {"reader"} : pc'[t] = pc[t] /\ cur'[t] = cur[t]
  BY <1>1, LineFacts DEF Handling, Writing
<1>3. ASSUME NEW i PROVE Open(i)' <=> Open(i) \/ i = Len(received) + 1
  <2>1. InQueue(i)' <=> InQueue(i)
    BY <1>1 DEF InQueue
  <2>2. /\ Takes("reader", i)' <=> i = Len(received) + 1
        /\ ~Takes("reader", i)
        /\ Takes("worker", i)' <=> Takes("worker", i)
    BY <1>2, LineFacts DEF Takes
  <2> QED
    BY <2>1, <2>2, LineFacts DEF Open
<1> QED
  BY <1>3 DEF Began

LEMMA PushStays ==
  ASSUME Typed, PushJob
  PROVE  Stays /\ Len(jobs') = Len(jobs) + 1 /\ jobs'[Len(jobs) + 1] = cur["reader"]
         /\ \A k \in 1..Len(jobs) : jobs'[k] = jobs[k]
<1>1. /\ pc["reader"] = "push" /\ pc' = [pc EXCEPT !["reader"] = "notify"] /\ UNCHANGED <<received, cur>>
      /\ jobs' = Append(jobs, cur["reader"])
  BY DEF PushJob, Goto
<1>2. cur["reader"] \in 1..MaxMessages
  BY <1>1 DEF Typed, TypeOK, CursorsRead, Handling, Threads
<1>3. /\ Len(jobs') = Len(jobs) + 1 /\ jobs'[Len(jobs) + 1] = cur["reader"]
      /\ \A k \in 1..Len(jobs) : jobs'[k] = jobs[k]
  BY <1>1, <1>2, LineFacts
<1>4. ASSUME NEW i PROVE Open(i)' <=> Open(i)
  <2>1. InQueue(i)' <=> InQueue(i) \/ i = cur["reader"]
    <3>1. 1..Len(jobs') = 1..Len(jobs) \cup {Len(jobs) + 1}
      BY <1>3, LineFacts
    <3> QED
      BY <1>3, <3>1 DEF InQueue
  <2>2. /\ ~Takes("reader", i)'
        /\ Takes("reader", i) <=> i = cur["reader"]
        /\ Takes("worker", i)' <=> Takes("worker", i)
    BY <1>1, LineFacts DEF Takes, Handling, Writing
  <2> QED
    BY <2>1, <2>2, LineFacts DEF Open
<1> QED
  BY <1>1, <1>3, <1>4 DEF Stays

LEMMA PopStays ==
  ASSUME Typed, PopJob
  PROVE  /\ Stays /\ Len(jobs) \in Nat \ {0} /\ Len(jobs') = Len(jobs) - 1 /\ cur'["worker"] = jobs[1]
         /\ \A k \in 1..Len(jobs') : k + 1 \in 1..Len(jobs) /\ jobs'[k] = jobs[k + 1]
         /\ 1 \in 1..Len(jobs)
<1>1. /\ pc["worker"] = "check" /\ pc' = [pc EXCEPT !["worker"] = "dispatch"] /\ received' = received
      /\ jobs # <<>> /\ cur' = [cur EXCEPT !["worker"] = Head(jobs)] /\ jobs' = Tail(jobs)
  BY DEF PopJob, Goto
<1>2. /\ Len(jobs) \in Nat \ {0} /\ Len(jobs') = Len(jobs) - 1 /\ Head(jobs) = jobs[1]
      /\ \A k \in 1..Len(jobs') : k + 1 \in 1..Len(jobs) /\ jobs'[k] = jobs[k + 1]
  BY <1>1, LineFacts
<1>3. cur'["worker"] = jobs[1] /\ cur'["reader"] = cur["reader"] /\ 1 \in 1..Len(jobs)
  BY <1>1, <1>2, LineFacts
<1>4. ASSUME NEW i PROVE Open(i)' <=> Open(i)
  <2>1. InQueue(i) <=> InQueue(i)' \/ i = jobs[1]
    <3>1. ASSUME InQueue(i) PROVE InQueue(i)' \/ i = jobs[1]
      <4>1. PICK k \in 1..Len(jobs) : jobs[k] = i
        BY <3>1 DEF InQueue
      <4>2. CASE k # 1
        <5>1. k - 1 \in 1..Len(jobs') /\ (k - 1) + 1 = k
          BY <1>2, <4>2
        <5>2. jobs'[k - 1] = i
          BY <1>2, <4>1, <5>1
        <5> QED
          BY <5>1, <5>2 DEF InQueue
      <4> QED
        BY <4>1, <4>2
    <3>2. ASSUME InQueue(i)' PROVE InQueue(i)
      BY <1>2, <3>2 DEF InQueue
    <3> QED
      BY <1>3, <3>1, <3>2 DEF InQueue
  <2>2. /\ Takes("worker", i)' <=> i = jobs[1]
        /\ ~Takes("worker", i)
        /\ Takes("reader", i)' <=> Takes("reader", i)
    BY <1>1, <1>3, LineFacts DEF Takes, Handling, Writing
  <2> QED
    BY <2>1, <2>2, LineFacts DEF Open
<1> QED
  BY <1>1, <1>2, <1>3, <1>4 DEF Stays

-----------------------------------------------------------------------------
(* What the threads have stays what it should be. *)

\* What a thread handles comes before everything else that is for the worker.
LEMMA FirstFirst ==
  ASSUME Typed, InOrder, RightThread, NEW t \in Threads,
         pc[t] \in Handling \ {"lock_push", "push"}, Queued(cur[t]),
         NEW i \in Lines, i < cur[t]
  PROVE  ~Open(i)
<1>1. t = "worker"
  BY LineFacts DEF RightThread
<1>2. ~InQueue(i)
  <2>1. \A k \in 1..Len(jobs) : jobs[k] \in Nat /\ cur[t] < jobs[k] /\ cur[t] \in Nat /\ i \in Nat
    BY <1>1, LineFacts DEF InOrder
  <2>2. \A k \in 1..Len(jobs) : jobs[k] # i
    BY <2>1
  <2> QED
    BY <2>2 DEF InQueue
<1>3. ~Takes("worker", i)
  BY <1>1, LineFacts DEF Takes
<1>4. ~Takes("reader", i)
  BY <1>1, LineFacts DEF Takes, InOrder
<1> QED
  BY <1>2, <1>3, <1>4, LineFacts DEF Open

LEMMA StillHands ==
  ASSUME Typed, Hands, StillStep
  PROVE  Hands'
<1> USE DEF Hands, StillStep
<1>1. Stays /\ \A t \in Threads : pc'[t] \in Handling <=> pc[t] \in Handling
  BY StillStays
<1>2. InOrder'
  BY <1>1, LineFacts DEF InOrder
<1>3. RightThread'
  <2>1. pc["reader"] \in Handling => (pc'["reader"] \in {"lock_push", "push"} <=> pc["reader"] \in {"lock_push", "push"})
    BY LineFacts DEF Handling, Writing
  <2> QED
    BY <1>1, <2>1, LineFacts DEF RightThread, Queued
<1>4. NoneSkipped'
  BY <1>1 DEF NoneSkipped, Stays, Lines, Queued
<1>5. InHand'
  BY LineFacts DEF InHand, Handling, Writing
<1>6. HangsStay'
  BY <1>1 DEF HangsStay, Stays, Lines, Hangs, Queued
<1> QED
  BY <1>2, <1>3, <1>4, <1>5, <1>6

\* A thread that goes on to a call or to writing, or from its first chunk to the second.
LEMMA GoingOnHands ==
  ASSUME Typed, Hands, NEW t \in Threads, NEW to \in {"tool", "write", "tail"},
         pc[t] \in {"dispatch", "tool"} \cup Writing,
         pc' = [pc EXCEPT ![t] = to], UNCHANGED <<received, cur, jobs>>,
         \A u \in Threads \ {t} : frame'[u] = frame[u],
         to = "tool" => Valid(received[cur[t]]) /\ Calls(received[cur[t]]),
         to # "tool" => frame'[t].msg = cur[t] /\ Fits(frame'[t], received[cur[t]])
  PROVE  Hands' /\ Stays
<1> USE DEF Hands
<1>1. Stays
  BY ThreadStays DEF Handling, Writing
<1>2. pc'[t] = to /\ (\A u \in Threads \ {t} : pc'[u] = pc[u]) /\ to \in Handling /\ pc[t] \in Handling
  BY LineFacts DEF Handling, Writing
<1>3. InOrder'
  BY <1>2, LineFacts DEF InOrder
<1>4. RightThread'
  <2>1. pc["reader"] \in Handling => (pc'["reader"] \in {"lock_push", "push"} <=> pc["reader"] \in {"lock_push", "push"})
    BY <1>2, LineFacts DEF Writing
  <2> QED
    BY <1>2, <2>1, LineFacts DEF RightThread, Queued
<1>5. NoneSkipped'
  BY <1>1 DEF NoneSkipped, Stays, Lines, Queued
<1>6. InHand'
  <2> SUFFICES ASSUME NEW u \in Threads
               PROVE  /\ pc'[u] = "dispatch" => received'[cur'[u]].parses
                      /\ pc'[u] = "tool" => Valid(received'[cur'[u]]) /\ Calls(received'[cur'[u]])
                      /\ pc'[u] \in Writing => frame'[u].msg = cur'[u] /\ Fits(frame'[u], received'[cur'[u]])
    BY DEF InHand
  <2>1. CASE u = t
    BY <1>2, <2>1 DEF Writing
  <2>2. CASE u # t
    BY <1>2, <2>2 DEF InHand
  <2> QED
    BY <2>1, <2>2
<1>7. HangsStay'
  BY <1>1 DEF HangsStay, Stays, Lines, Hangs, Queued
<1> QED
  BY <1>1, <1>3, <1>4, <1>5, <1>6, <1>7

\* A thread that has handled its line.
LEMMA EndingHands ==
  ASSUME Typed, Hands, NEW t \in Threads, pc[t] \in Handling \ {"lock_push", "push"}, ~Hangs(cur[t]),
         pc' = [pc EXCEPT ![t] = Home(t)], UNCHANGED <<received, cur, jobs, frame>>
  PROVE  Hands' /\ Ended(t)
<1> USE DEF Hands
<1>1. Home(t) \notin Handling /\ Home(t) \notin {"dispatch", "tool"} \cup Writing
  BY HomeIsIdle DEF Home, Writing
<1>2. Ended(t)
  BY <1>1, ThreadEnds
<1>3. pc'[t] = Home(t) /\ (\A u \in Threads \ {t} : pc'[u] = pc[u])
  BY LineFacts
<1>4. InOrder'
  BY <1>1, <1>3, LineFacts DEF InOrder
<1>5. RightThread'
  BY <1>1, <1>3, LineFacts DEF RightThread, Queued
<1>6. NoneSkipped'
  <2> SUFFICES ASSUME NEW i \in Lines, NEW j \in Lines, i < j, Queued(i), Queued(j), Open(i)
               PROVE  j # cur[t]
    BY <1>2 DEF NoneSkipped, Ended, Lines, Queued
  <2> QED
    BY FirstFirst
<1>7. InHand'
  BY <1>1, <1>3 DEF InHand
<1>8. HangsStay'
  BY <1>2 DEF HangsStay, Ended, Lines, Hangs, Queued
<1> QED
  BY <1>2, <1>4, <1>5, <1>6, <1>7, <1>8

LEMMA ReadHands ==
  ASSUME Typed, Hands, NEW m \in Messages, ReadLine(m)
  PROVE  Hands' /\ Began
<1> USE DEF Hands
<1>0. PICK n : n = Len(received) + 1
  OBVIOUS
<1>1. Began
  BY ReadBegins
<1>2. /\ pc["reader"] = "read" /\ cur' = [cur EXCEPT !["reader"] = n] /\ jobs' = jobs
      /\ received' = Append(received, m)
      /\ \/ ~m.parses /\ pc' = [pc EXCEPT !["reader"] = "write"]
            /\ frame' = [frame EXCEPT !["reader"] = Response(n, "parse_error")]
         \/ m.parses /\ NeedsWorker(m) /\ pc' = [pc EXCEPT !["reader"] = "lock_push"] /\ frame' = frame
         \/ m.parses /\ ~NeedsWorker(m) /\ pc' = [pc EXCEPT !["reader"] = "dispatch"] /\ frame' = frame
  BY <1>0 DEF ReadLine, Goto, queueVars
<1>3. /\ n \in Nat /\ Len(received') = n /\ received'[n] = m /\ \A i \in Lines : received'[i] = received[i] /\ i < n
      /\ Lines' = Lines \cup {n} /\ n \in 1..MaxMessages
  <2>1. Len(received) \in Nat /\ received \in Seq(Messages) /\ Len(received) < MaxMessages /\ MaxMessages \in Nat
    BY LineFacts, BoundsAssumption DEF ReadLine
  <2> QED
    BY <1>0, <1>2, <2>1 DEF Lines
<1>4. /\ cur'["reader"] = n /\ cur'["worker"] = cur["worker"] /\ pc'["worker"] = pc["worker"]
      /\ frame'["worker"] = frame["worker"]
      /\ \/ ~m.parses /\ pc'["reader"] = "write" /\ frame'["reader"] = Response(n, "parse_error")
         \/ m.parses /\ NeedsWorker(m) /\ pc'["reader"] = "lock_push"
         \/ m.parses /\ ~NeedsWorker(m) /\ pc'["reader"] = "dispatch"
  BY <1>2, LineFacts
<1>5. \A i \in Lines : Queued(i)' <=> Queued(i)
  BY <1>3 DEF Queued
<1>7. InOrder'
  BY <1>2, <1>3, <1>4, LineFacts DEF InOrder
<1>8. RightThread'
  <2>1. (\A k \in 1..Len(jobs) : Queued(jobs[k]))'
    BY <1>2, <1>3, LineFacts DEF RightThread, Queued
  <2>2. (pc["worker"] \in Handling => Queued(cur["worker"]))'
    BY <1>3, <1>4, LineFacts DEF RightThread, Queued
  <2>3. (Queued(cur["reader"]) <=> pc["reader"] \in {"lock_push", "push"})'
    BY <1>3, <1>4 DEF Queued, NeedsWorker, DispatcherMethods
  <2> QED
    BY <2>1, <2>2, <2>3 DEF RightThread
<1>9. NoneSkipped'
  <2> SUFFICES ASSUME NEW i \in Lines \cup {n}, NEW j \in Lines \cup {n}, i < j, Queued(i)', Queued(j)', Open(i)'
               PROVE  Open(j)'
    BY <1>3 DEF NoneSkipped
  <2>0. Open(j)' <=> Open(j) \/ j = n
    BY <1>0, <1>1 DEF Began
  <2>1. CASE j = n
    BY <2>0, <2>1
  <2>2. CASE j # n
    <3>1. i \in Lines /\ j \in Lines /\ i # n
      BY <1>3, <2>2, LineFacts
    <3>2. Open(i)
      BY <1>0, <1>1, <3>1 DEF Began
    <3> QED
      BY <1>5, <2>0, <3>1, <3>2 DEF NoneSkipped
  <2> QED
    BY <2>1, <2>2
<1>10. InHand'
  <2>1. /\ pc'["worker"] = "dispatch" => received'[cur'["worker"]].parses
        /\ pc'["worker"] = "tool" => Valid(received'[cur'["worker"]]) /\ Calls(received'[cur'["worker"]])
        /\ pc'["worker"] \in Writing => frame'["worker"].msg = cur'["worker"]
              /\ Fits(frame'["worker"], received'[cur'["worker"]])
    BY <1>3, <1>4, LineFacts DEF InHand, Handling, Writing
  <2>2. Response(n, "parse_error").msg = n /\ Response(n, "parse_error").type = "response"
    BY DEF Response
  <2>3. ~m.parses => Fits(Response(n, "parse_error"), m)
    BY <2>2 DEF Fits, WantsReply
  <2>4. /\ pc'["reader"] = "dispatch" => received'[cur'["reader"]].parses
        /\ pc'["reader"] # "tool"
        /\ pc'["reader"] \in Writing => frame'["reader"].msg = cur'["reader"]
              /\ Fits(frame'["reader"], received'[cur'["reader"]])
    BY <1>3, <1>4, <2>2, <2>3 DEF Writing
  <2> QED
    BY <2>1, <2>4, LineFacts DEF InHand
<1>11. HangsStay'
  <2> SUFFICES ASSUME NEW i \in Lines \cup {n}, Hangs(i)' PROVE Open(i)'
    BY <1>3 DEF HangsStay
  <2>0. Open(i)' <=> Open(i) \/ i = n
    BY <1>0, <1>1 DEF Began
  <2>1. i \in Lines => Hangs(i)
    BY <1>3 DEF Hangs, Queued
  <2> QED
    BY <2>0, <2>1 DEF HangsStay
<1> QED
  BY <1>1, <1>7, <1>8, <1>9, <1>10, <1>11

LEMMA PushHands ==
  ASSUME Typed, Hands, PushJob
  PROVE  Hands'
<1> USE DEF Hands
<1>1. /\ Stays /\ Len(jobs') = Len(jobs) + 1 /\ jobs'[Len(jobs) + 1] = cur["reader"]
      /\ \A k \in 1..Len(jobs) : jobs'[k] = jobs[k]
  BY PushStays
<1>2. /\ pc["reader"] = "push" /\ pc' = [pc EXCEPT !["reader"] = "notify"]
      /\ cur' = cur /\ frame' = frame /\ received' = received
  BY DEF PushJob, Goto
<1>3. /\ pc'["reader"] = "notify" /\ pc'["worker"] = pc["worker"] /\ "notify" \notin Handling
      /\ "push" \in Handling
  BY <1>2, LineFacts DEF Handling, Writing
<1>4. \A k \in 1..Len(jobs') : k \in 1..Len(jobs) \/ k = Len(jobs) + 1
  BY <1>1, LineFacts
<1>5. InOrder'
  <2>1. ASSUME NEW k \in 1..Len(jobs'), NEW l \in 1..Len(jobs'), k < l
        PROVE  k \in 1..Len(jobs) /\ (l \in 1..Len(jobs) \/ l = Len(jobs) + 1)
    <3>1. Len(jobs) \in Nat /\ Len(jobs') = Len(jobs) + 1 /\ k \in Nat /\ l \in Nat
      BY <1>1, LineFacts
    <3> QED
      BY <1>4, <2>1, <3>1
  <2>2. \A k \in 1..Len(jobs) : jobs[k] < cur["reader"]
    BY <1>2, <1>3 DEF InOrder
  <2>3. \A k, l \in 1..Len(jobs') : k < l => jobs'[k] < jobs'[l]
    BY <1>1, <2>1, <2>2 DEF InOrder
  <2>4. pc["worker"] \in Handling => \A k \in 1..Len(jobs') : cur["worker"] < jobs'[k]
    BY <1>1, <1>2, <1>3, <1>4 DEF InOrder
  <2> QED
    BY <1>2, <1>3, <2>3, <2>4 DEF InOrder
<1>6. RightThread'
  <2>1. Queued(cur["reader"])
    BY <1>2, <1>3 DEF RightThread
  <2>2. \A k \in 1..Len(jobs') : Queued(jobs'[k])
    BY <1>1, <1>4, <2>1 DEF RightThread
  <2> QED
    BY <1>2, <1>3, <2>2 DEF RightThread, Queued
<1>7. NoneSkipped'
  BY <1>1 DEF NoneSkipped, Stays, Lines, Queued
<1>8. InHand'
  BY <1>2, <1>3, LineFacts DEF InHand, Writing
<1>9. HangsStay'
  BY <1>1 DEF HangsStay, Stays, Lines, Hangs, Queued
<1> QED
  BY <1>5, <1>6, <1>7, <1>8, <1>9

LEMMA PopHands ==
  ASSUME Typed, Hands, PopJob
  PROVE  Hands'
<1> USE DEF Hands
<1>1. /\ Stays /\ Len(jobs) \in Nat \ {0} /\ Len(jobs') = Len(jobs) - 1 /\ cur'["worker"] = jobs[1]
      /\ \A k \in 1..Len(jobs') : k + 1 \in 1..Len(jobs) /\ jobs'[k] = jobs[k + 1]
      /\ 1 \in 1..Len(jobs)
  BY PopStays
<1>2. /\ pc["worker"] = "check" /\ pc' = [pc EXCEPT !["worker"] = "dispatch"]
      /\ cur' = [cur EXCEPT !["worker"] = Head(jobs)] /\ frame' = frame /\ received' = received
  BY DEF PopJob, Goto
<1>3. pc'["worker"] = "dispatch" /\ pc'["reader"] = pc["reader"] /\ cur'["reader"] = cur["reader"]
  BY <1>2, LineFacts
<1>4. \A k \in 1..Len(jobs') : k \in Nat /\ 1 < k + 1
  BY <1>1
<1>5. InOrder'
  <2>1. \A k, l \in 1..Len(jobs') : k < l => k + 1 < l + 1
    BY <1>4
  <2>2. \A k, l \in 1..Len(jobs') : k < l => jobs'[k] < jobs'[l]
    BY <1>1, <2>1 DEF InOrder
  <2>3. \A k \in 1..Len(jobs') : cur'["worker"] < jobs'[k]
    BY <1>1, <1>4 DEF InOrder
  <2>4. pc["reader"] \in Handling =>
          /\ cur["reader"] = Len(received) /\ cur'["worker"] < cur["reader"]
          /\ \A k \in 1..Len(jobs') : jobs'[k] < cur["reader"]
    BY <1>1 DEF InOrder
  <2> QED
    BY <1>2, <1>3, <2>2, <2>3, <2>4 DEF InOrder
<1>6. RightThread'
  BY <1>1, <1>2, <1>3 DEF RightThread, Queued
<1>7. NoneSkipped'
  BY <1>1 DEF NoneSkipped, Stays, Lines, Queued
<1>8. InHand'
  <2>1. received[jobs[1]].parses
    BY <1>1 DEF RightThread, Queued
  <2> QED
    BY <1>1, <1>2, <1>3, <2>1, LineFacts DEF InHand, Writing
<1>9. HangsStay'
  BY <1>1 DEF HangsStay, Stays, Lines, Hangs, Queued
<1> QED
  BY <1>5, <1>6, <1>7, <1>8, <1>9

-----------------------------------------------------------------------------
(* How the process ends. *)

\* A step that leaves the queue and the shutdown flag alone, and neither begins nor
\* ends the end of a thread.
Running ==
    /\ jobs' = jobs /\ shuttingDown' = shuttingDown
    /\ pc'["worker"] = "exited" <=> pc["worker"] = "exited"
    /\ \/ pc'["reader"] = pc["reader"]
       \/ \A l \in {pc["reader"], pc'["reader"]} : l \notin {"notify_all", "join", "exited"}

LEMMA EndsStep ==
  ASSUME Typed, Ends, [Next]_vars
  PROVE  Ends'
<1> USE DEF Goto, queueVars, outVars
<1>0. "reader" \in Threads /\ "worker" \in Threads /\ pc \in [Threads -> Labels] /\ "reader" # "worker"
  BY DEF Threads, Typed, TypeOK
<1>1. ASSUME Running PROVE Ends'
  BY <1>1 DEF Ends, Running
<1>2. ASSUME NEW m \in Messages, ReadLine(m) PROVE Running
  BY <1>0, <1>2 DEF ReadLine, Running
<1>3. CASE \/ LockJobs("reader", "lock_push", "push") \/ LockJobs("reader", "lock_stop", "stop")
           \/ LockJobs("worker", "lock_jobs", "check") \/ ReadEof \/ Notify("notify", "read")
           \/ WaitSleep \/ WaitSpuriousWakeup
  BY <1>0, <1>1, <1>3 DEF LockJobs, ReadEof, Notify, WaitSleep, WaitSpuriousWakeup, Running
<1>4. CASE PushJob
  BY <1>0, <1>4 DEF PushJob, Ends
<1>5. CASE PopJob
  BY <1>0, <1>5 DEF PopJob, Ends
<1>6. CASE RaiseShutdown
  BY <1>0, <1>6 DEF RaiseShutdown, Ends
<1>7. CASE Notify("notify_all", "join") \/ JoinWorker
  BY <1>0, <1>7 DEF Notify, JoinWorker, Ends
<1>8. CASE WorkerReturn
  BY <1>0, <1>8 DEF WorkerReturn, Ends
<1>9. ASSUME NEW t \in Threads, Dispatch(t) PROVE Running
  <2>1. /\ jobs' = jobs /\ shuttingDown' = shuttingDown /\ pc[t] = "dispatch"
        /\ \E to \in {"write", "tool", Home(t)} : pc' = [pc EXCEPT ![t] = to]
    BY <1>9 DEF Dispatch
  <2> QED
    BY <1>0, <2>1 DEF Running, Home
<1>10. ASSUME NEW t \in Threads, \/ EmitProgress(t) \/ ToolReturn(t) \/ LockStdout(t) \/ WriteHead(t) \/ WriteTail(t)
       PROVE  Running
  BY <1>0, <1>10 DEF EmitProgress, ToolReturn, LockStdout, WriteHead, WriteTail, Running, Home
<1>11. CASE LinkBreaks \/ Exited \/ Hung \/ UNCHANGED vars
  BY <1>1, <1>11 DEF LinkBreaks, Exited, Hung, vars, Running
<1> QED
  BY <1>0, <1>1, <1>2, <1>3, <1>4, <1>5, <1>6, <1>7, <1>8, <1>9, <1>10, <1>11
  DEF Next, ReadMessage, ReaderStep, WorkerStep, Handle

-----------------------------------------------------------------------------
(* What is on the wire stays what it should be. *)

\* What is said of a line does not change when no line is read.
LEMMA SameLines ==
  ASSUME received' = received
  PROVE  Lines' = Lines /\ \A i \in Lines : (Queued(i)' <=> Queued(i)) /\ (Owed(i)' <=> Owed(i))
BY DEF Lines, Queued, Owed, Served, Hangs

\* A step that writes nothing.
LEMMA QuietSent ==
  ASSUME Sent, Promises, received' = received, wire' = wire, linkUp' \in {linkUp, FALSE},
         \A i \in Lines : Open(i)' => Open(i),
         \A i \in Lines : EndsAnswer(i) /\ Open(i)' => EndsAnswer(i)',
         \A i \in Lines : linkUp' /\ WantsReply(received[i]) /\ Open(i) => Open(i)'
  PROVE  Sent' /\ Promises'
<1> USE DEF Sent, Promises
<1>1. OnWire'
  BY SameLines DEF OnWire
<1>2. HeadIsLast'
  BY SameLines DEF HeadIsLast, IsAnswer
<1>3. Complete'
  BY SameLines DEF Complete, Answered, IsAnswer
<1>4. OnlyOwed'
  BY SameLines DEF OnlyOwed, Answered, IsAnswer
<1>5. Once' /\ InSequence'
  BY SameLines DEF Once, InSequence, IsAnswer
<1>6. InsideCall'
  BY SameLines DEF InsideCall, IsAnswer, IsProgress
<1> QED
  BY <1>1, <1>2, <1>3, <1>4, <1>5, <1>6

\* A thread that goes on without finishing a frame keeps the lines open and the answers unfinished.
LEMMA StaysSent ==
  ASSUME Sent, Promises, Stays, wire' = wire, linkUp' \in {linkUp, FALSE},
         \A t \in Threads : pc[t] = "tail" => pc'[t] = "tail" /\ frame'[t] = frame[t] /\ cur'[t] = cur[t]
  PROVE  Sent' /\ Promises'
<1>1. \A i \in Lines : EndsAnswer(i) => EndsAnswer(i)'
  BY DEF EndsAnswer
<1> QED
  BY <1>1, QuietSent DEF Stays

\* A line that is read later changes nothing about what is owed.
LEMMA ReadOwes ==
  ASSUME Typed, NEW m \in Messages, ReadLine(m), NEW n, n = Len(received) + 1
  PROVE  /\ \A i \in Lines : received'[i] = received[i] /\ i < n /\ i \in Nat /\ i # n
         /\ Lines' = Lines \cup {n} /\ n \in 1..MaxMessages
         /\ \A i \in Lines : (Queued(i)' <=> Queued(i)) /\ (Owed(i)' <=> Owed(i))
<1>1. received' = Append(received, m) /\ Len(received) < MaxMessages
  BY DEF ReadLine
<1>2. /\ \A i \in Lines : received'[i] = received[i] /\ i < n /\ i \in Nat /\ i # n
      /\ Lines' = Lines \cup {n} /\ n \in 1..MaxMessages
      /\ DOMAIN received = Lines /\ DOMAIN received' = Lines \cup {n}
  BY <1>1, LineFacts, BoundsAssumption DEF Lines
<1>3. \A i \in Lines : (Queued(i)' <=> Queued(i)) /\ (Hangs(i)' <=> Hangs(i))
  BY <1>2 DEF Hangs, Queued
<1>4. \A i \in Lines : Served(i)' <=> Served(i)
  BY <1>2, <1>3 DEF Served
<1>5. \A i \in Lines : Owed(i)' <=> Owed(i)
  BY <1>2, <1>3, <1>4 DEF Owed
<1> QED
  BY <1>2, <1>3, <1>5

LEMMA ReadSent ==
  ASSUME Typed, Sent, Promises, Began, NEW m \in Messages, ReadLine(m)
  PROVE  Sent' /\ Promises'
<1> USE DEF Sent, Promises
<1>0. PICK n : n = Len(received) + 1
  OBVIOUS
<1>1. /\ pc["reader"] = "read" /\ received' = Append(received, m) /\ wire' = wire /\ linkUp' = linkUp
      /\ cur' = [cur EXCEPT !["reader"] = n]
      /\ \E to : pc' = [pc EXCEPT !["reader"] = to]
      /\ frame' = frame \/ \E f : frame' = [frame EXCEPT !["reader"] = f]
  BY <1>0 DEF ReadLine, Goto, outVars
<1>2. /\ \A i \in Lines : received'[i] = received[i] /\ i < n /\ i \in Nat /\ i # n
      /\ Lines' = Lines \cup {n} /\ n \in Nat
      /\ \A i \in Lines : (Queued(i)' <=> Queued(i)) /\ (Owed(i)' <=> Owed(i))
  BY <1>0, ReadOwes
<1>3. /\ pc'["worker"] = pc["worker"] /\ cur'["worker"] = cur["worker"]
      /\ frame'["worker"] = frame["worker"]
  BY <1>1, LineFacts
<1>4. \A i \in Lines : Queued(i)' <=> Queued(i)
  BY <1>2
<1>5. \A i \in Lines : (Open(i)' <=> Open(i)) /\ (EndsAnswer(i) => EndsAnswer(i)')
  BY <1>0, <1>1, <1>2, <1>3, LineFacts DEF Began, EndsAnswer
<1>6. \A k \in 1..Len(wire) : wire[k].frame.msg \in Lines
  BY DEF OnWire
<1>7. OnWire'
  BY <1>1, <1>2 DEF OnWire
<1>8. HeadIsLast'
  BY <1>1, <1>2, <1>5, <1>6 DEF HeadIsLast, IsAnswer
<1>9. Complete'
  <2>1. Open(n)'
    BY <1>0, <1>1 DEF Began
  <2>2. \A i \in Lines : Answered(i) => Answered(i)'
    BY <1>1 DEF Answered, IsAnswer
  <2> QED
    BY <1>1, <1>2, <1>5, <2>1, <2>2 DEF Complete
<1>10. OnlyOwed'
  <2>1. \A i \in Lines \cup {n} : Answered(i)' => i \in Lines /\ Answered(i)
    BY <1>1, <1>6 DEF Answered, IsAnswer
  <2> QED
    BY <1>2, <2>1 DEF OnlyOwed
<1>11. Once'
  BY <1>1, <1>2, <1>6 DEF Once, IsAnswer
<1>12. InSequence'
  <2>1. \A k \in 1..Len(wire), i \in Lines \cup {n} : IsAnswer(k, i, "head")' => i \in Lines /\ IsAnswer(k, i, "head")
    BY <1>1, <1>6 DEF IsAnswer
  <2> SUFFICES ASSUME NEW k \in 1..Len(wire), NEW l \in 1..Len(wire),
                      NEW i \in Lines \cup {n}, NEW j \in Lines \cup {n},
                      i < j, Queued(i)', Queued(j)', IsAnswer(k, i, "head")', IsAnswer(l, j, "head")'
               PROVE  k < l
    BY <1>1, <1>2 DEF InSequence
  <2> QED
    BY <1>4, <2>1 DEF InSequence
<1>13. InsideCall'
  <2>1. \A k \in 1..Len(wire), i \in Lines \cup {n} : IsProgress(k, i)' => i \in Lines /\ IsProgress(k, i)
    BY <1>1, <1>6 DEF IsProgress
  <2>2. \A k \in 1..Len(wire) : \A i, part : IsAnswer(k, i, part)' <=> IsAnswer(k, i, part)
    BY <1>1 DEF IsAnswer
  <2> SUFFICES ASSUME NEW k \in 1..Len(wire), NEW i \in Lines \cup {n}, IsProgress(k, i)'
               PROVE  /\ \A l \in 1..Len(wire) : IsAnswer(l, i, "head")' => k < l
                      /\ \A j \in Lines \cup {n} : j < i /\ Queued(j)' /\ WantsReply(received[j])' =>
                             \E l \in 1..Len(wire) : l < k /\ IsAnswer(l, j, "tail")'
    BY <1>1, <1>2 DEF InsideCall
  <2>3. i \in Lines /\ IsProgress(k, i)
    BY <2>1
  <2>4. \A l \in 1..Len(wire) : IsAnswer(l, i, "head") => k < l
    BY <2>3 DEF InsideCall
  <2>5. ASSUME NEW j \in Lines \cup {n}, j < i, Queued(j)', WantsReply(received[j])'
        PROVE  \E l \in 1..Len(wire) : l < k /\ IsAnswer(l, j, "tail")
    <3>1. j \in Lines
      BY <1>2, <2>3, <2>5
    <3> QED
      BY <1>2, <1>4, <2>3, <2>5, <3>1 DEF InsideCall
  <2> QED
    BY <2>2, <2>4, <2>5
<1> QED
  BY <1>7, <1>8, <1>9, <1>10, <1>11, <1>12, <1>13

\* What a written chunk adds to the wire.
LEMMA Appended ==
  ASSUME Typed, InHand, OnWire, NEW t \in Threads, NEW part \in {"head", "tail"}, pc[t] \in Writing,
         linkUp, Put(t, part), received' = received, NEW n, n = Len(wire) + 1
  PROVE  /\ n \in Nat /\ Len(wire') = n /\ 1..Len(wire') = 1..Len(wire) \cup {n}
         /\ \A k \in 1..Len(wire) : wire'[k] = wire[k] /\ k < n
         /\ wire'[n].frame = frame[t] /\ wire'[n].part = part
         /\ OnWire'
         /\ frame[t].msg = cur[t] /\ cur[t] \in Lines /\ Fits(frame[t], received[cur[t]])
<1>1. frame[t] \in Frames
  BY DEF Typed, FramesReady
<1>2. PICK c : c = Chunk(frame[t], part)
  OBVIOUS
<1>3. c \in Chunks /\ c.frame = frame[t] /\ c.part = part
  BY <1>1, <1>2, ChunkKinds
<1>4. wire' = Append(wire, c)
  BY <1>2 DEF Put
<1>5. PICK x : x = wire'
  OBVIOUS
<1>6. /\ Len(x) = n /\ x[n] = c /\ \A k \in 1..Len(wire) : x[k] = wire[k]
  BY <1>3, <1>4, <1>5, AppendFacts, LineFacts
<1>7. n \in Nat /\ 1..n = 1..Len(wire) \cup {n} /\ \A k \in 1..Len(wire) : k < n
  BY LineFacts
<1>8. frame[t].msg = cur[t] /\ cur[t] \in Lines /\ Fits(frame[t], received[cur[t]])
  BY LineFacts DEF InHand, Handling
<1>9. OnWire'
  BY <1>3, <1>5, <1>6, <1>7, <1>8 DEF OnWire, Lines
<1> QED
  BY <1>3, <1>5, <1>6, <1>7, <1>8, <1>9

\* While a thread has stdout_mutex no line that is open is answered, in whole or in part,
\* but the one it has.
LEMMA OpenUnanswered ==
  ASSUME Typed, Hands, Sent, WriterHoldsMutex, NEW t \in Threads, pc[t] \in {"head", "tail"},
         NEW k \in 1..Len(wire), NEW i \in Lines, IsAnswer(k, i, "head"), Open(i)
  PROVE  pc[t] = "tail" /\ frame[t].type = "response" /\ i = cur[t]
<1>1. PICK u \in Threads : pc[u] = "tail" /\ frame[u].type = "response" /\ cur[u] = i
  BY DEF Sent, HeadIsLast, EndsAnswer
<1>2. u = t
  BY <1>1 DEF WriterHoldsMutex
<1> QED
  BY <1>1, <1>2

\* The first chunk of a frame: no line that is open has an answer, and what a progress
\* frame's call waited for is answered.
LEMMA HeadSent ==
  ASSUME Typed, Hands, Sent, Promises, WriterHoldsMutex, ReaderCallsNothing, Stays,
         NEW t \in Threads, WriteHead(t)
  PROVE  Sent' /\ Promises'
<1>1. /\ pc[t] = "head" /\ pc' = [pc EXCEPT ![t] = "tail"] /\ UNCHANGED <<received, cur, frame, jobs, linkUp>>
      /\ Put(t, "head")
  BY DEF WriteHead, Goto, queueVars
<1>2. pc'[t] = "tail" /\ \A u \in Threads \ {t} : pc'[u] = pc[u]
  BY <1>1, LineFacts
<1>3. ASSUME NEW k \in 1..Len(wire), NEW j \in Lines, IsAnswer(k, j, "head") PROVE ~Open(j)
  BY <1>1, <1>3, OpenUnanswered
<1>4. CASE ~linkUp
  BY <1>1, <1>2, <1>4, StaysSent DEF Put
<1>5. CASE linkUp
  <2> USE DEF Sent, Promises
  <2>0. PICK n, i, f : n = Len(wire) + 1 /\ i = cur[t] /\ f = frame[t]
    OBVIOUS
  <2>1. /\ n \in Nat /\ Len(wire') = n /\ 1..Len(wire') = 1..Len(wire) \cup {n}
        /\ \A k \in 1..Len(wire) : wire'[k] = wire[k] /\ k < n
        /\ wire'[n].frame = f /\ wire'[n].part = "head"
        /\ OnWire'
        /\ f.msg = i /\ i \in Lines /\ Fits(f, received[i])
    BY <1>1, <1>5, <2>0, Appended DEF Hands, Writing
  <2>2. /\ \A k \in 1..Len(wire) : \A j, part : IsAnswer(k, j, part)' <=> IsAnswer(k, j, part)
        /\ \A j : ~IsAnswer(n, j, "tail")'
        /\ \A j : IsAnswer(n, j, "head")' => j = i /\ f.type = "response"
        /\ \A k \in 1..Len(wire) : \A j : IsProgress(k, j)' <=> IsProgress(k, j)
        /\ \A j : IsProgress(n, j)' => j = i /\ f.type = "progress"
    BY <2>1 DEF IsAnswer, IsProgress
  <2>3. Lines' = Lines /\ Open(i)
    BY <1>1, <2>0, LineFacts DEF Lines, Open, Takes, Handling, Writing
  <2>4. \A j \in Lines : (Queued(j)' <=> Queued(j)) /\ (Owed(j)' <=> Owed(j)) /\ (Answered(j)' <=> Answered(j))
    BY <1>1, <2>1, <2>2, SameLines DEF Answered
  <2>5. HeadIsLast'
    <3> SUFFICES ASSUME NEW k \in 1..Len(wire) \cup {n}, NEW j \in Lines, IsAnswer(k, j, "head")', Open(j)'
                 PROVE  EndsAnswer(j)'
      BY <2>1, <2>3 DEF HeadIsLast
    <3>1. k = n
      BY <1>3, <2>2 DEF Stays
    <3> QED
      BY <1>1, <1>2, <2>0, <2>2, <3>1 DEF EndsAnswer
  <2>6. Complete'
    BY <1>1, <2>3, <2>4 DEF Complete, Stays
  <2>7. OnlyOwed'
    BY <2>3, <2>4 DEF OnlyOwed
  <2>8. Once'
    <3> SUFFICES ASSUME NEW k \in 1..Len(wire) \cup {n}, NEW l \in 1..Len(wire) \cup {n}, NEW j \in Lines,
                        IsAnswer(k, j, "head")', IsAnswer(l, j, "head")'
                 PROVE  k = l
      BY <2>1, <2>3 DEF Once
    <3> QED
      BY <1>3, <2>2, <2>3 DEF Once
  <2>9. InSequence'
    <3> SUFFICES ASSUME NEW k \in 1..Len(wire) \cup {n}, NEW l \in 1..Len(wire) \cup {n},
                        NEW h \in Lines, NEW j \in Lines,
                        h < j, Queued(h), Queued(j), IsAnswer(k, h, "head")', IsAnswer(l, j, "head")'
                 PROVE  k < l
      BY <2>1, <2>3, <2>4 DEF InSequence
    <3>1. CASE l \in 1..Len(wire)
      <4>1. ~Open(j)
        BY <1>3, <2>2, <3>1
      <4>2. ~Open(h)
        BY <4>1 DEF Hands, NoneSkipped
      <4>3. k # n
        BY <2>2, <2>3, <4>2
      <4> QED
        BY <2>2, <3>1, <4>3 DEF InSequence
    <3>2. CASE l = n
      <4>1. h # j
        BY LineFacts
      <4>2. k # n
        BY <2>2, <3>2, <4>1
      <4> QED
        BY <2>1, <3>2, <4>2
    <3> QED
      BY <3>1, <3>2
  <2>10. InsideCall'
    <3> SUFFICES ASSUME NEW k \in 1..Len(wire) \cup {n}, NEW h \in Lines, IsProgress(k, h)'
                 PROVE  /\ \A l \in 1..Len(wire) \cup {n} : IsAnswer(l, h, "head")' => k < l
                        /\ \A j \in Lines : j < h /\ Queued(j) /\ WantsReply(received[j]) =>
                               \E l \in 1..Len(wire) \cup {n} : l < k /\ IsAnswer(l, j, "tail")'
      BY <1>1, <2>1, <2>3, <2>4 DEF InsideCall
    <3>1. CASE k \in 1..Len(wire)
      BY <2>1, <2>2, <3>1 DEF InsideCall
    <3>2. CASE k = n
      <4>1. h = i /\ f.type = "progress"
        BY <2>2, <3>2
      <4>2. \A l \in 1..Len(wire) \cup {n} : ~IsAnswer(l, h, "head")'
        BY <1>3, <2>2, <2>3, <4>1
      <4>3. t = "worker" /\ Queued(i)
        BY <1>1, <2>0, <4>1, LineFacts DEF ReaderCallsNothing, Hands, RightThread, Handling, Writing
      <4>4. ASSUME NEW j \in Lines, j < h, Queued(j), WantsReply(received[j])
            PROVE  \E l \in 1..Len(wire) : l < n /\ IsAnswer(l, j, "tail")'
        <5>1. pc[t] \in Handling \ {"lock_push", "push"}
          BY <1>1 DEF Handling, Writing
        <5>2. ~Open(j)
          BY <2>0, <4>1, <4>3, <4>4, <5>1, FirstFirst DEF Hands
        <5> QED
          BY <1>5, <2>1, <2>2, <4>4, <5>2 DEF Complete, Answered
      <4> QED
        BY <3>2, <4>2, <4>4
    <3> QED
      BY <3>1, <3>2
  <2> QED
    BY <2>1, <2>5, <2>6, <2>7, <2>8, <2>9, <2>10
<1> QED
  BY <1>4, <1>5

\* What a thread answers is owed: no call before it hangs.
LEMMA AnswerOwed ==
  ASSUME Typed, Hands, NEW t \in Threads, pc[t] = "tail", frame[t].type = "response"
  PROVE  Owed(cur[t])
<1>0. PICK i : i = cur[t]
  OBVIOUS
<1>1. i \in Lines /\ pc[t] \in Handling \ {"lock_push", "push"} /\ DOMAIN received = Lines /\ i \in Nat
  BY <1>0, LineFacts DEF Handling, Writing, Lines
<1>2. WantsReply(received[i]) /\ (received[i].parses /\ Valid(received[i]) /\ Calls(received[i]) => received[i].returns)
  BY <1>0 DEF Hands, InHand, Writing, Fits
<1>3. ASSUME Queued(i), NEW j \in Lines, Hangs(j) PROVE j > i
  <2>1. j # i
    BY <1>2, <1>3 DEF Hangs, Queued
  <2>2. ~(j < i)
    BY <1>0, <1>1, <1>3, FirstFirst DEF Hands, HangsStay
  <2> QED
    BY <1>1, <2>1, <2>2, LineFacts
<1> QED
  BY <1>0, <1>1, <1>2, <1>3 DEF Owed, Served

\* The last chunk of a frame: the line has its answer, or wanted none.
LEMMA TailSent ==
  ASSUME Typed, Hands, Sent, Promises, WriterHoldsMutex, NEW t \in Threads, WriteTail(t),
         \/ frame[t].type = "progress" /\ Stays
         \/ frame[t].type # "progress" /\ Ended(t)
  PROVE  Sent' /\ Promises'
<1> USE DEF Sent, Promises
<1>0. PICK n, i, f : n = Len(wire) + 1 /\ i = cur[t] /\ f = frame[t]
  OBVIOUS
<1>1. pc[t] = "tail" /\ Put(t, "tail") /\ UNCHANGED <<received, cur, frame, jobs, linkUp>>
  BY DEF WriteTail, Goto, queueVars
<1>2. \A j : Open(j)' => Open(j) /\ (f.type = "response" => j # i)
  BY <1>0 DEF Stays, Ended
<1>3. CASE ~linkUp
  <2>1. wire' = wire /\ ~linkUp'
    BY <1>1, <1>3 DEF Put
  <2>2. \A j \in Lines : ~(EndsAnswer(j) /\ Open(j)')
    BY <1>0, <1>1, <1>2 DEF EndsAnswer, WriterHoldsMutex
  <2> QED
    BY <1>1, <1>2, <2>1, <2>2, QuietSent
<1>4. CASE linkUp
  <2>1. /\ n \in Nat /\ Len(wire') = n /\ 1..Len(wire') = 1..Len(wire) \cup {n}
        /\ \A k \in 1..Len(wire) : wire'[k] = wire[k] /\ k < n
        /\ wire'[n].frame = f /\ wire'[n].part = "tail"
        /\ OnWire'
        /\ f.msg = i /\ i \in Lines /\ Fits(f, received[i])
    BY <1>0, <1>1, <1>4, Appended DEF Hands, Writing
  <2>2. /\ \A k \in 1..Len(wire) : \A j, part : IsAnswer(k, j, part)' <=> IsAnswer(k, j, part)
        /\ \A j : ~IsAnswer(n, j, "head")' /\ ~IsProgress(n, j)'
        /\ \A j : IsAnswer(n, j, "tail")' <=> j = i /\ f.type = "response"
        /\ \A k \in 1..Len(wire) : \A j : IsProgress(k, j)' <=> IsProgress(k, j)
    BY <2>1 DEF IsAnswer, IsProgress
  <2>3. Lines' = Lines
    BY <1>1 DEF Lines
  <2>4. \A j \in Lines : (Queued(j)' <=> Queued(j)) /\ (Owed(j)' <=> Owed(j))
    BY <1>1, SameLines
  <2>5. \A j \in Lines : Answered(j)' <=> Answered(j) \/ (j = i /\ f.type = "response")
    BY <2>1, <2>2 DEF Answered
  <2>6. HeadIsLast'
    <3> SUFFICES ASSUME NEW k \in 1..Len(wire), NEW j \in Lines, IsAnswer(k, j, "head"), Open(j)'
                 PROVE  FALSE
      BY <2>1, <2>2, <2>3 DEF HeadIsLast
    <3> QED
      BY <1>0, <1>1, <1>2, OpenUnanswered
  <2>7. Complete'
    <3>1. f.type \in {"response", "progress", "list_changed"}
      BY <1>0, <1>1 DEF Typed, FramesReady, Writing, Frames
    <3>2. \A j \in Lines : WantsReply(received[j]) /\ Open(j) => Open(j)' \/ Answered(j)'
      BY <1>0, <2>1, <2>5, <3>1 DEF Fits, Stays, Ended
    <3> QED
      BY <1>1, <1>4, <2>3, <2>5, <3>2 DEF Complete
  <2>8. OnlyOwed'
    BY <1>0, <1>1, <2>3, <2>4, <2>5, AnswerOwed DEF OnlyOwed
  <2>9. Once'
    BY <2>1, <2>2, <2>3 DEF Once
  <2>10. InSequence'
    BY <2>1, <2>2, <2>3, <2>4 DEF InSequence
  <2>11. InsideCall'
    <3> SUFFICES ASSUME NEW k \in 1..Len(wire), NEW h \in Lines, IsProgress(k, h)
                 PROVE  /\ \A l \in 1..Len(wire) : IsAnswer(l, h, "head") => k < l
                        /\ \A j \in Lines : j < h /\ Queued(j) /\ WantsReply(received[j]) =>
                               \E l \in 1..Len(wire) : l < k /\ IsAnswer(l, j, "tail")
      BY <1>1, <2>1, <2>2, <2>3, <2>4 DEF InsideCall
    <3> QED
      BY DEF InsideCall
  <2> QED
    BY <2>1, <2>6, <2>7, <2>8, <2>9, <2>10, <2>11
<1> QED
  BY <1>3, <1>4

-----------------------------------------------------------------------------
(* Every step keeps all of it. *)

LEMMA StillKeeps ==
  ASSUME Typed, Hands, Sent, Promises, StillStep
  PROVE  Hands' /\ Sent' /\ Promises'
<1>1. Stays
  BY StillStays
<1>2. \A t \in Threads : pc[t] = "tail" => pc'[t] = "tail" /\ frame'[t] = frame[t] /\ cur'[t] = cur[t]
  BY DEF StillStep, Handling, Writing
<1> QED
  BY <1>1, <1>2, StillHands, StaysSent DEF StillStep

LEMMA QueueKeeps ==
  ASSUME Typed, Hands, Sent, Promises, PushJob \/ PopJob
  PROVE  Hands' /\ Sent' /\ Promises'
<1>1. Stays /\ Hands'
  BY PushStays, PopStays, PushHands, PopHands
<1>2. PICK t \in Threads :
        /\ pc[t] \in {"push", "check"} /\ (\E to : pc' = [pc EXCEPT ![t] = to])
        /\ frame' = frame /\ wire' = wire /\ linkUp' = linkUp
        /\ \A u \in Threads \ {t} : cur'[u] = cur[u]
  BY LineFacts DEF PushJob, PopJob, Goto, outVars
<1>3. \A u \in Threads : pc[u] = "tail" => pc'[u] = "tail" /\ frame'[u] = frame[u] /\ cur'[u] = cur[u]
  BY <1>2, LineFacts
<1> QED
  BY <1>1, <1>2, <1>3, StaysSent

LEMMA HandlingKeeps ==
  ASSUME Typed, Hands, Sent, Promises, NEW t \in Threads, ComposeStep(t) \/ CallStep(t) \/ DropStep(t)
  PROVE  Hands' /\ Sent' /\ Promises'
<1>1. /\ pc[t] \in {"dispatch", "tool"} /\ (\E to : pc' = [pc EXCEPT ![t] = to])
      /\ UNCHANGED <<received, cur, jobs>> /\ wire' = wire /\ linkUp' = linkUp
      /\ \A u \in Threads \ {t} : frame'[u] = frame[u]
  BY LineFacts DEF ComposeStep, CallStep, DropStep, Elsewhere
<1>2. \A u \in Threads : pc[u] = "tail" => pc'[u] = "tail" /\ frame'[u] = frame[u] /\ cur'[u] = cur[u]
  BY <1>1, LineFacts
<1>3. CASE ComposeStep(t)
  <2>1. pc' = [pc EXCEPT ![t] = "write"] /\ frame'[t].msg = cur[t] /\ Fits(frame'[t], received[cur[t]])
    BY <1>3, LineFacts DEF ComposeStep
  <2> QED
    BY <1>1, <1>2, <2>1, GoingOnHands, StaysSent
<1>4. CASE CallStep(t)
  <2>1. pc' = [pc EXCEPT ![t] = "tool"] /\ Valid(received[cur[t]]) /\ Calls(received[cur[t]])
    BY <1>4 DEF CallStep
  <2> QED
    BY <1>1, <1>2, <2>1, GoingOnHands, StaysSent
<1>5. CASE DropStep(t)
  <2>1. pc' = [pc EXCEPT ![t] = Home(t)] /\ ~WantsReply(received[cur[t]]) /\ ~Hangs(cur[t]) /\ frame' = frame
    BY <1>5 DEF DropStep
  <2>2. Hands' /\ Ended(t)
    BY <1>1, <2>1, EndingHands DEF Handling
  <2>3. \A i \in Lines : EndsAnswer(i) => EndsAnswer(i)'
    BY <1>2 DEF EndsAnswer
  <2> QED
    BY <1>1, <2>1, <2>2, <2>3, QuietSent DEF Ended
<1> QED
  BY <1>3, <1>4, <1>5

LEMMA WritingKeeps ==
  ASSUME Typed, WireInv, ReaderCallsNothing, Hands, Sent, Promises,
         NEW t \in Threads, WriteHead(t) \/ WriteTail(t)
  PROVE  Hands' /\ Sent' /\ Promises'
<1>1. /\ pc[t] \in {"head", "tail"} /\ UNCHANGED <<received, cur, jobs>> /\ frame' = frame
      /\ pc[t] \in Writing /\ pc[t] \in Handling \ {"lock_push", "push"}
  BY DEF WriteHead, WriteTail, Goto, queueVars, Writing, Handling
<1>2. /\ frame[t].msg = cur[t] /\ Fits(frame[t], received[cur[t]])
      /\ frame[t].type \in {"response", "progress", "list_changed"}
  BY <1>1 DEF Hands, InHand, Typed, FramesReady, Frames
<1>3. CASE WriteHead(t)
  <2>1. Hands' /\ Stays
    BY <1>1, <1>2, <1>3, GoingOnHands DEF WriteHead, Goto
  <2> QED
    BY <1>3, <2>1, HeadSent DEF WireInv
<1>4. CASE WriteTail(t) /\ frame[t].type = "progress"
  <2>1. pc' = [pc EXCEPT ![t] = "tool"] /\ Valid(received[cur[t]]) /\ Calls(received[cur[t]])
    BY <1>2, <1>4 DEF WriteTail, Goto, Fits
  <2>2. Hands' /\ Stays
    BY <1>1, <2>1, GoingOnHands
  <2> QED
    BY <1>4, <2>2, TailSent DEF WireInv
<1>5. CASE WriteTail(t) /\ frame[t].type # "progress"
  <2>1. pc' = [pc EXCEPT ![t] = Home(t)]
    BY <1>5 DEF WriteTail, Goto
  <2>2. ~Hangs(cur[t])
    BY <1>2, <1>5 DEF Fits, Hangs, Queued, WantsReply, Calls, DispatcherMethods
  <2>3. Hands' /\ Ended(t)
    BY <1>1, <2>1, <2>2, EndingHands
  <2> QED
    BY <1>5, <2>3, TailSent DEF WireInv
<1> QED
  BY <1>3, <1>4, <1>5

LEMMA AnswersStep ==
  ASSUME IInv, Hands, Sent, Promises, [Next]_vars
  PROVE  Hands' /\ Sent' /\ Promises'
<1>1. Typed /\ WireInv /\ ReaderCallsNothing /\ InHand
  BY DEF IInv, Hands
<1>2. ASSUME NEW m \in Messages, ReadLine(m) PROVE Hands' /\ Sent' /\ Promises'
  BY <1>1, <1>2, ReadHands, ReadSent
<1> QED
  BY <1>1, <1>2, Kinds, StillKeeps, QueueKeeps, HandlingKeeps, WritingKeeps

-----------------------------------------------------------------------------
(* What is proved. *)

\* At the start no line was read and nothing is on the wire.
LEMMA InitAnswers == Init => AInv
<1> SUFFICES ASSUME Init PROVE AInv
  OBVIOUS
<1>1. IInv
  BY InitInvariant
<1>2. /\ Lines = {} /\ 1..Len(wire) = {} /\ 1..Len(jobs) = {}
      /\ jobs = <<>> /\ shuttingDown = FALSE
  BY DEF Init, Lines
<1>3. \A t \in Threads : pc[t] = Home(t) /\ pc[t] \notin Handling
  BY HomeIsIdle DEF Init
<1>4. "reader" \in Threads /\ "worker" \in Threads
  BY DEF Threads
<1>5. Ends
  BY <1>2, <1>3, <1>4 DEF Ends, Home
<1>6. Hands
  BY <1>2, <1>3, <1>4 DEF Hands, InOrder, RightThread, NoneSkipped, InHand, HangsStay, Handling
<1>7. Sent /\ Promises
  BY <1>2 DEF Sent, OnWire, HeadIsLast, Complete, OnlyOwed, Promises, Once, InSequence, InsideCall
<1> QED
  BY <1>1, <1>5, <1>6, <1>7 DEF AInv

\* The inductive invariant: every line is in one place until a thread is done with it, the
\* worker takes lines in order and skips none, and what is on the wire answers the rest.
THEOREM AnswersInvariant == Spec => []AInv
<1>1. AInv /\ [Next]_vars => Ends' /\ Hands' /\ Sent' /\ Promises'
  BY EndsStep, AnswersStep DEF AInv, IInv
<1> QED
  BY <1>1, InitAnswers, ServerInvariant, PTL DEF Spec, AInv

\* The terms of the properties.
LEMMA WireTerms ==
  ASSUME Typed
  PROVE  /\ DOMAIN received = Lines /\ DOMAIN wire = 1..Len(wire)
         /\ \A k, part : k \in FramesOf(part) <=> k \in 1..Len(wire) /\ wire[k].part = part
         /\ \A i, part, k : k \in Answers(i, part) <=> k \in 1..Len(wire) /\ IsAnswer(k, i, part)
         /\ \A i : Answers(i, "tail") # {} <=> Answered(i)
<1>1. DOMAIN received = Lines /\ DOMAIN wire = 1..Len(wire)
  BY LineFacts DEF Lines
<1>2. \A i, part, k : k \in Answers(i, part) <=> k \in 1..Len(wire) /\ IsAnswer(k, i, part)
  BY <1>1 DEF Answers, FramesOf, IsAnswer
<1>3. \A i : Answers(i, "tail") # {} <=> Answered(i)
  BY <1>2 DEF Answered
<1> QED
  BY <1>1, <1>2, <1>3 DEF FramesOf

\* A line gets at most one response, and none unless it wants one, whichever thread and
\* whichever exception handler answers it (main.cpp, mcp.cpp).
THEOREM OneAnswer == Spec => []AnsweredOnce
<1>1. AInv => AnsweredOnce
  BY WireTerms DEF AInv, IInv, Sent, OnWire, Fits, Promises, Once, IsAnswer, AnsweredOnce
<1> QED
  BY <1>1, AnswersInvariant, PTL

\* What the worker answers it answers in the order of the input (main.cpp:161).
THEOREM WorkerOrder == Spec => []WorkerAnswersInOrder
<1>1. AInv => WorkerAnswersInOrder
  BY WireTerms DEF AInv, IInv, Promises, InSequence, WorkerAnswersInOrder
<1> QED
  BY <1>1, AnswersInvariant, PTL

\* Progress frames come inside their own call: after the answers to all calls before it,
\* before its own (progress.cpp).
THEOREM ProgressOrder == Spec => []ProgressInsideCall
<1>1. AInv => ProgressInsideCall
  <2> SUFFICES ASSUME AInv, NEW k \in FramesOf("head"), wire[k].frame.type = "progress"
               PROVE  LET i == wire[k].frame.msg IN
                      /\ received[i].method = "tools/call" /\ received[i].token /\ received[i].hasId
                      /\ \A l \in Answers(i, "head") : k < l
                      /\ \A j \in 1..i - 1 : Queued(j) /\ WantsReply(received[j]) =>
                             \E l \in Answers(j, "tail") : l < k
    BY DEF ProgressInsideCall
  <2>1. Typed /\ OnWire /\ InsideCall
    BY DEF AInv, IInv, Sent, Promises
  <2>2. PICK i : i = wire[k].frame.msg
    OBVIOUS
  <2>3. k \in 1..Len(wire) /\ i \in Lines /\ IsProgress(k, i) /\ Fits(wire[k].frame, received[i])
    BY <2>1, <2>2, WireTerms DEF OnWire, IsProgress
  <2>4. \A j \in 1..i - 1 : j \in Lines /\ j < i
    BY <2>1, <2>3, LineFacts DEF Lines
  <2>5. received[i].method = "tools/call" /\ received[i].token /\ received[i].hasId
    BY <2>2, <2>3 DEF Fits, Calls
  <2>6. \A l \in Answers(i, "head") : k < l
    BY <2>1, <2>3, WireTerms DEF InsideCall
  <2>7. \A j \in 1..i - 1 : Queued(j) /\ WantsReply(received[j]) => \E l \in Answers(j, "tail") : l < k
    BY <2>1, <2>3, <2>4, WireTerms DEF InsideCall
  <2> QED
    BY <2>2, <2>5, <2>6, <2>7
<1> QED
  BY <1>1, AnswersInvariant, PTL

\* When the worker has ended no line is open.
LEMMA NothingOpen ==
  ASSUME Typed, Ends, pc["worker"] = "exited"
  PROVE  jobs = <<>> /\ \A i : ~Open(i)
<1>1. jobs = <<>> /\ 1..Len(jobs) = {} /\ pc["reader"] \in {"notify_all", "join", "exited"}
  BY DEF Ends
<1> QED
  BY <1>1, LineFacts DEF Open, InQueue, Takes, Handling, Writing

\* The process does not end with a line unanswered, unless the client has stopped reading
\* (serve, main.cpp).
THEOREM Drained == Spec => []DrainedAtExit
<1>1. AInv => DrainedAtExit
  <2> SUFFICES ASSUME AInv, pc["reader"] = "exited"
               PROVE  /\ pc["worker"] = "exited" /\ jobs = <<>>
                      /\ linkUp => \A i \in DOMAIN received : WantsReply(received[i]) => Answers(i, "tail") # {}
    BY DEF DrainedAtExit
  <2>1. Typed /\ Ends /\ Complete /\ pc["worker"] = "exited"
    BY DEF AInv, IInv, Ends, Sent
  <2> QED
    BY <2>1, NothingOpen, WireTerms DEF Complete
<1> QED
  BY <1>1, AnswersInvariant, PTL

-----------------------------------------------------------------------------
(* The server implements RpcService. *)

Asked == {i \in DOMAIN received : Owed(i)}
HasAnswer == {i \in DOMAIN received : Answers(i, "tail") # {}}

LEMMA ServiceTerms == Typed => Asked = {i \in Lines : Owed(i)} /\ HasAnswer = {i \in Lines : Answered(i)}
BY WireTerms DEF Asked, HasAnswer

LEMMA ServiceTermsNext ==
  ASSUME Typed'
  PROVE  (Asked = {i \in Lines : Owed(i)} /\ HasAnswer = {i \in Lines : Answered(i)})'
BY ServiceTerms, PTL

\* What is not of the client's concern: the rest of the threads' work.
Unseen ==
    /\ received' = received /\ linkUp' = linkUp
    /\ pc'["reader"] = "exited" <=> pc["reader"] = "exited"
    /\ wire' = wire \/ \E t \in Threads : WriteHead(t)

LEMMA SeenOrUnseen ==
  ASSUME Typed, [Next]_vars
  PROVE  Unseen \/ LinkBreaks \/ JoinWorker \/ (\E m \in Messages : ReadLine(m)) \/ \E t \in Threads : WriteTail(t)
<1> USE DEF Goto, queueVars, outVars
<1>0. "reader" \in Threads /\ "worker" \in Threads /\ pc \in [Threads -> Labels] /\ "reader" # "worker"
  BY DEF Threads, Typed, TypeOK
<1>1. CASE \/ LockJobs("reader", "lock_push", "push") \/ LockJobs("reader", "lock_stop", "stop")
           \/ LockJobs("worker", "lock_jobs", "check") \/ PushJob \/ RaiseShutdown \/ ReadEof
           \/ Notify("notify", "read") \/ Notify("notify_all", "join")
  BY <1>0, <1>1 DEF LockJobs, PushJob, RaiseShutdown, ReadEof, Notify, Unseen
<1>2. CASE WaitSleep \/ WaitSpuriousWakeup \/ PopJob \/ WorkerReturn
  BY <1>0, <1>2 DEF WaitSleep, WaitSpuriousWakeup, PopJob, WorkerReturn, Unseen
<1>3. ASSUME NEW t \in Threads, Dispatch(t) PROVE Unseen
  <2>1. /\ received' = received /\ wire' = wire /\ linkUp' = linkUp /\ pc[t] = "dispatch"
        /\ \E to \in {"write", "tool", Home(t)} : pc' = [pc EXCEPT ![t] = to]
    BY <1>3 DEF Dispatch
  <2> QED
    BY <1>0, <2>1 DEF Unseen, Home
<1>4. ASSUME NEW t \in Threads, EmitProgress(t) \/ ToolReturn(t) \/ LockStdout(t) \/ WriteHead(t) PROVE Unseen
  BY <1>0, <1>4 DEF EmitProgress, ToolReturn, LockStdout, WriteHead, Unseen
<1>5. CASE Exited \/ Hung \/ UNCHANGED vars
  BY <1>5 DEF Exited, Hung, vars, Unseen
<1> QED
  BY <1>0, <1>1, <1>2, <1>3, <1>4, <1>5 DEF Next, ReadMessage, ReaderStep, WorkerStep, Handle

\* What the client sees of each step.
LEMMA UnseenKeeps ==
  ASSUME Typed, Typed', Unseen
  PROVE  Asked' = Asked /\ HasAnswer' = HasAnswer
<1>1. Asked' = Asked
  BY DEF Unseen, Asked, Owed, Served, Hangs, Queued
<1>2. \A i : Answered(i)' <=> Answered(i)
  <2>1. CASE wire' = wire
    BY <2>1 DEF Answered, IsAnswer
  <2>2. ASSUME NEW t \in Threads, WriteHead(t), linkUp PROVE \A i : Answered(i)' <=> Answered(i)
    <3>0. PICK x, c : x = wire' /\ c = Chunk(frame[t], "head")
      OBVIOUS
    <3>1. frame[t] \in Frames /\ x = Append(wire, c)
      BY <2>2, <3>0 DEF WriteHead, Goto, Put, Typed, FramesReady, Writing
    <3>2. c \in Chunks /\ c.part = "head"
      BY <3>0, <3>1, ChunkKinds
    <3>3. /\ Len(x) = Len(wire) + 1 /\ x[Len(wire) + 1] = c /\ \A k \in 1..Len(wire) : x[k] = wire[k]
          /\ 1..Len(x) = 1..Len(wire) \cup {Len(wire) + 1}
      BY <3>1, <3>2, AppendFacts, LineFacts
    <3> QED
      BY <3>0, <3>2, <3>3 DEF Answered, IsAnswer
  <2>3. ASSUME NEW t \in Threads, WriteHead(t), ~linkUp PROVE wire' = wire
    BY <2>3 DEF WriteHead, Put
  <2> QED
    BY <2>1, <2>2, <2>3 DEF Unseen
<1>3. HasAnswer' = HasAnswer
  <2>1. HasAnswer' = {i \in Lines' : Answered(i)'}
    BY ServiceTermsNext
  <2> QED
    BY <1>2, <2>1, ServiceTerms DEF Unseen, Lines
<1> QED
  BY <1>1, <1>3

LEMMA ReadAsks ==
  ASSUME Typed, Typed', OnWire, NEW m \in Messages, ReadLine(m)
  PROVE  /\ HasAnswer' = HasAnswer /\ linkUp' = linkUp /\ pc["reader"] # "exited" /\ pc'["reader"] # "exited"
         /\ Asked' = Asked \/ \E i \in (1..MaxMessages) \ Asked : Asked' = Asked \cup {i}
<1>0. PICK n : n = Len(received) + 1
  OBVIOUS
<1>1. /\ \A i \in Lines : i # n
      /\ Lines' = Lines \cup {n} /\ n \in 1..MaxMessages
      /\ \A i \in Lines : Owed(i)' <=> Owed(i)
  BY <1>0, ReadOwes
<1>2. /\ pc["reader"] = "read" /\ wire' = wire /\ linkUp' = linkUp
      /\ \E to \in {"write", "lock_push", "dispatch"} : pc' = [pc EXCEPT !["reader"] = to]
  BY DEF ReadLine, Goto, outVars
<1>3. \A i \in Lines \cup {n} : Answered(i)' <=> i \in Lines /\ Answered(i)
  BY <1>2 DEF OnWire, Answered, IsAnswer
<1>4. HasAnswer' = HasAnswer
  BY <1>1, <1>3, ServiceTerms, ServiceTermsNext
<1>5. Asked' = Asked \/ Asked' = Asked \cup {n}
  BY <1>1, ServiceTerms, ServiceTermsNext
<1>6. n \notin Asked
  BY <1>1, ServiceTerms
<1>7. pc'["reader"] # "exited"
  BY <1>2, LineFacts
<1> QED
  BY <1>1, <1>2, <1>4, <1>5, <1>6, <1>7

LEMMA TailAnswers ==
  ASSUME Typed, Typed', Hands, OnWire, Ends, NEW t \in Threads, WriteTail(t)
  PROVE  /\ Asked' = Asked /\ linkUp' = linkUp /\ pc["reader"] # "exited" /\ pc'["reader"] # "exited"
         /\ HasAnswer' = HasAnswer \/ (linkUp /\ \E i \in Asked \ HasAnswer : HasAnswer' = HasAnswer \cup {i})
<1>0. PICK n, i, f : n = Len(wire) + 1 /\ i = cur[t] /\ f = frame[t]
  OBVIOUS
<1>1. /\ pc[t] = "tail" /\ Put(t, "tail") /\ received' = received /\ linkUp' = linkUp
      /\ \E to \in {"tool", Home(t)} : pc' = [pc EXCEPT ![t] = to]
  BY DEF WriteTail, Goto
<1>2. pc["reader"] # "exited" /\ pc'["reader"] # "exited"
  BY <1>1, LineFacts DEF Ends, Home
<1>3. Asked' = Asked
  BY <1>1 DEF Asked, Owed, Served, Hangs, Queued
<1>4. CASE ~linkUp
  <2>1. wire' = wire /\ Lines' = Lines
    BY <1>1, <1>4 DEF Put, Lines
  <2>2. \A j : Answered(j)' <=> Answered(j)
    BY <2>1 DEF Answered, IsAnswer
  <2>3. HasAnswer' = HasAnswer
    BY <2>1, <2>2, ServiceTerms, ServiceTermsNext
  <2> QED
    BY <1>1, <1>2, <1>3, <2>3
<1>5. CASE linkUp
  <2>1. /\ 1..Len(wire') = 1..Len(wire) \cup {n}
        /\ \A k \in 1..Len(wire) : wire'[k] = wire[k]
        /\ wire'[n].frame = f /\ wire'[n].part = "tail" /\ f.msg = i /\ i \in Lines
    BY <1>0, <1>1, <1>5, Appended DEF Hands, Writing
  <2>2. \A j : Answered(j)' <=> Answered(j) \/ (j = i /\ f.type = "response")
    BY <2>1 DEF Answered, IsAnswer
  <2>3. Lines' = Lines
    BY <1>1 DEF Lines
  <2>4. f.type = "response" => Owed(i)
    BY <1>0, <1>1, AnswerOwed
  <2>5. HasAnswer' = HasAnswer \/ (f.type = "response" /\ i \notin HasAnswer /\ HasAnswer' = HasAnswer \cup {i})
    BY <2>1, <2>2, <2>3, ServiceTerms, ServiceTermsNext
  <2>6. f.type = "response" => i \in Asked
    BY <2>1, <2>4, ServiceTerms
  <2> QED
    BY <1>1, <1>2, <1>3, <1>5, <2>5, <2>6
<1> QED
  BY <1>4, <1>5

LEMMA JoinStops ==
  ASSUME Typed, Ends, Sent, JoinWorker
  PROVE  /\ Asked' = Asked /\ HasAnswer' = HasAnswer /\ linkUp' = linkUp
         /\ pc["reader"] # "exited" /\ pc'["reader"] = "exited"
         /\ Asked = HasAnswer \/ ~linkUp
<1>1. /\ pc["reader"] = "join" /\ pc' = [pc EXCEPT !["reader"] = "exited"] /\ pc["worker"] = "exited"
      /\ received' = received /\ wire' = wire /\ linkUp' = linkUp
  BY DEF JoinWorker, Goto, outVars
<1>2. Asked' = Asked /\ HasAnswer' = HasAnswer
  BY <1>1 DEF Asked, HasAnswer, Owed, Served, Hangs, Queued, Answers, FramesOf
<1>3. linkUp => \A i \in Lines : Owed(i) => Answered(i)
  BY <1>1, NothingOpen DEF Sent, Complete, Owed
<1>4. Asked = HasAnswer \/ ~linkUp
  BY <1>3, ServiceTerms DEF Sent, OnlyOwed
<1> QED
  BY <1>1, <1>2, <1>4, LineFacts

LEMMA BreakDisconnects ==
  ASSUME LinkBreaks
  PROVE  Asked' = Asked /\ HasAnswer' = HasAnswer /\ linkUp /\ linkUp' = FALSE /\ pc' = pc
BY DEF LinkBreaks, Asked, HasAnswer, Owed, Served, Hangs, Queued, Answers, FramesOf

\* The server implements the service it is for its client, RpcService, as far as safety
\* goes: it starts as the service does, and each of its steps is a step of the service (a
\* request that is owed an answer, an answer that was owed, the end of the client or of the
\* process) or one that the client does not see.
THEOREM ServesClient == Spec => Service!Init /\ [][Service!Next]_(Service!vars)
<1>1. Init => Service!Init
  <2>1. ASSUME Init PROVE Service!Init
    <3>1. Asked = {} /\ HasAnswer = {} /\ linkUp = TRUE
      BY <2>1 DEF Init, Asked, HasAnswer
    <3>2. pc["reader"] # "exited"
      BY <2>1 DEF Init, Threads, Home
    <3> QED
      BY <3>1, <3>2 DEF Service!Init, Asked, HasAnswer
  <2> QED
    BY <2>1
<1>2. AInv /\ AInv' /\ [Next]_vars => [Service!Next]_(Service!vars)
  <2> SUFFICES ASSUME AInv, AInv', [Next]_vars PROVE [Service!Next]_(Service!vars)
    OBVIOUS
  <2> USE DEF Service!vars, Service!Next, Service!Ask, Service!Answer, Service!Disconnect, Service!Stop
  <2>0. Typed /\ Typed' /\ Hands /\ Sent /\ OnWire /\ Ends
    BY DEF AInv, IInv, Sent
  <2>1. CASE Unseen
    <3>1. Asked' = Asked /\ HasAnswer' = HasAnswer
      BY <2>0, <2>1, UnseenKeeps
    <3> QED
      BY <2>1, <3>1 DEF Unseen, Asked, HasAnswer
  <2>2. CASE LinkBreaks
    BY <2>2, BreakDisconnects DEF Asked, HasAnswer
  <2>3. CASE JoinWorker
    BY <2>0, <2>3, JoinStops DEF Asked, HasAnswer
  <2>4. ASSUME NEW m \in Messages, ReadLine(m) PROVE [Service!Next]_(Service!vars)
    BY <2>0, <2>4, ReadAsks DEF Asked, HasAnswer
  <2>5. ASSUME NEW t \in Threads, WriteTail(t) PROVE [Service!Next]_(Service!vars)
    <3>1. /\ Asked' = Asked /\ linkUp' = linkUp /\ pc["reader"] # "exited" /\ pc'["reader"] # "exited"
          /\ HasAnswer' = HasAnswer \/ (linkUp /\ \E i \in Asked \ HasAnswer : HasAnswer' = HasAnswer \cup {i})
      BY <2>0, <2>5, TailAnswers
    <3>2. CASE HasAnswer' = HasAnswer
      BY <3>1, <3>2 DEF Asked, HasAnswer
    <3>3. ASSUME linkUp, NEW i \in Asked \ HasAnswer, HasAnswer' = HasAnswer \cup {i}
          PROVE  [Service!Next]_(Service!vars)
      <4>1. i \in 1..MaxMessages
        <5>1. i \in Lines
          BY <2>0, ServiceTerms
        <5>2. Len(received) \in Nat /\ Len(received) <= MaxMessages /\ MaxMessages \in Nat
          BY <2>0, LineFacts, BoundsAssumption DEF Typed, TypeOK
        <5> QED
          BY <5>1, <5>2 DEF Lines
      <4>2. Service!Answer(i)
        BY <3>1, <3>3 DEF Asked, HasAnswer
      <4> QED
        BY <4>1, <4>2
    <3> QED
      BY <3>1, <3>2, <3>3
  <2> QED
    BY <2>0, <2>1, <2>2, <2>3, <2>4, <2>5, SeenOrUnseen
<1> QED
  BY <1>1, <1>2, AnswersInvariant, PTL DEF Spec
=============================================================================
