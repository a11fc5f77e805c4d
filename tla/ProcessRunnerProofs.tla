-------------------------- MODULE ProcessRunnerProofs --------------------------
(***************************************************************************)
(* Proofs about ProcessRunner, for any number of streams, any sizes of     *)
(* input and pipes, any amount of output, and whatever the program does.   *)
(*                                                                         *)
(* That the output is complete is not inductive: it needs that what the    *)
(* parent misses is what waits in the pipes, and that a stream counts as   *)
(* closed only when its pipe is empty and no process can write to it any   *)
(* more.                                                                   *)
(***************************************************************************)
EXTENDS ProcessRunner, TLAPS

\* Nothing is lost between the program and the parent.
Accounted == \A s \in Streams : missing[s] = outPipe[s]

\* A closed stream has nothing left to read and nobody who could write.
ClosedIsDrained == \A s \in Streams : ~open[s] => writers[s] = {} /\ outPipe[s] = 0
StartsOpen == pc = "start" => \A s \in Streams : open[s]

\* The two ways to return: both streams closed, or the deadline.
ReturnsClosed == pc = "returned" /\ ~timedOut => \A s \in Streams : ~open[s]
DrainsLate == pc = "drain" => timedOut

\* From the last waitpid on the child is reaped.
StaysReaped == pc \in {"drain", "returned", "gave_up"} => child = "reaped"

IInv == TypeOK /\ Accounted /\ ClosedIsDrained /\ StartsOpen /\ ReturnsClosed /\ DrainsLate /\ StaysReaped

\* One read of append_available, which takes a unit off a pipe or finds it empty.
LEMMA Appended ==
  ASSUME TypeOK, Accounted, NEW s \in Streams, AppendAvailable(s)
  PROVE  /\ outPipe' \in [Streams -> 0..PipeCap] /\ missing' \in [Streams -> 0..PipeCap]
         /\ open' \in [Streams -> BOOLEAN] /\ ready' \subseteq Streams
         /\ \A t \in Streams : missing'[t] = outPipe'[t]
         /\ \A t \in Streams : outPipe[t] = 0 => outPipe'[t] = 0
         /\ \A t \in Streams : ~open'[t] => ~open[t] \/ (writers[t] = {} /\ outPipe'[t] = 0)
<1> USE PipeAssumption
<1>1. CASE /\ outPipe[s] > 0
           /\ outPipe' = [outPipe EXCEPT ![s] = @ - 1] /\ missing' = [missing EXCEPT ![s] = @ - 1]
           /\ UNCHANGED <<open, ready>>
  <2>1. \A t \in Streams : outPipe[t] \in 0..PipeCap /\ missing[t] = outPipe[t]
    BY DEF TypeOK, Accounted
  <2>2. outPipe[s] - 1 \in 0..PipeCap /\ missing[s] - 1 = outPipe[s] - 1
    BY <1>1, <2>1
  <2> QED
    BY <1>1, <2>1, <2>2 DEF TypeOK
<1>2. CASE /\ outPipe[s] = 0
           /\ ready' = ready \ {s} /\ open' = [open EXCEPT ![s] = @ /\ writers[s] # {}]
           /\ UNCHANGED <<outPipe, missing>>
  BY <1>2 DEF TypeOK, Accounted
<1> QED
  BY <1>1, <1>2 DEF AppendAvailable

\* Types need that what is missing is in the pipes, which bound it.
LEMMA Types ==
  ASSUME TypeOK, Accounted, [Next]_vars
  PROVE  TypeOK'
<1> USE PipeAssumption
<1>1. CASE Fork
  BY <1>1 DEF TypeOK, Fork, Goto, childVars, Holders
<1>2. CASE WriteStdin
  <2>1. left' \in 0..StdinSize /\ inPipe' \in 0..PipeCap
    <3>1. left \in 0..StdinSize /\ inPipe \in 0..PipeCap
      BY DEF TypeOK
    <3>2. left > 0 /\ inPipe < PipeCap /\ left' = left - 1 /\ inPipe' = inPipe + 1
      BY <1>2 DEF WriteStdin
    <3> QED
      BY <3>1, <3>2
  <2> QED
    BY <1>2, <2>1 DEF TypeOK, WriteStdin
<1>10. CASE CloseStdin \/ DeadlinePasses
  BY <1>10 DEF TypeOK, CloseStdin, DeadlinePasses, Goto, childVars
<1>3. CASE WaitChild \/ CheckDeadline \/ Poll \/ EndTurn \/ PollInterrupted \/ PollFails \/ ReapAfterLoop
  BY <1>3 DEF TypeOK, WaitChild, CheckDeadline, Poll, EndTurn, PollInterrupted, PollFails, ReapAfterLoop,
     Goto, childVars
<1>4. ASSUME NEW s \in Streams, AppendAvailable(s) PROVE TypeOK'
  BY <1>4, Appended DEF TypeOK, AppendAvailable
<1>5. CASE Kill
  BY <1>5 DEF TypeOK, Kill, Goto, Without, Statuses
<1>6. CASE Exec \/ ChildExits
  BY <1>6 DEF TypeOK, Exec, ChildExits, Exits, Without, Statuses, parentVars
<1>13. CASE HeirExits
  BY <1>13 DEF TypeOK, HeirExits, Without, parentVars
<1>7. CASE Reads
  <2>1. inPipe' \in 0..PipeCap
    <3>1. inPipe \in 0..PipeCap
      BY DEF TypeOK
    <3>2. inPipe > 0 /\ inPipe' = inPipe - 1
      BY <1>7 DEF Reads
    <3> QED
      BY <3>1, <3>2
  <2> QED
    BY <1>7, <2>1 DEF TypeOK, Reads, parentVars
<1>11. CASE ChildCloses
  <2>1. readers' \subseteq Holders /\ writers' \in [Streams -> SUBSET Holders]
    <3>1. CASE readers' = readers \ {"child"} /\ UNCHANGED writers
      BY <3>1 DEF TypeOK
    <3>2. ASSUME NEW s \in Streams, writers' = [writers EXCEPT ![s] = @ \ {"child"}], UNCHANGED readers
          PROVE readers' \subseteq Holders /\ writers' \in [Streams -> SUBSET Holders]
      BY <3>2 DEF TypeOK
    <3> QED
      BY <1>11, <3>1, <3>2 DEF ChildCloses
  <2> QED
    BY <1>11, <2>1 DEF TypeOK, ChildCloses, parentVars
<1>12. CASE ChildForks
  <2>1. readers' \subseteq Holders /\ writers' \in [Streams -> SUBSET Holders]
    BY <1>12 DEF TypeOK, ChildForks
  <2> QED
    BY <1>12, <2>1 DEF TypeOK, ChildForks, parentVars
<1>8. ASSUME NEW s \in Streams, Writes(s) PROVE TypeOK'
  <2>1. outPipe[s] \in 0..PipeCap /\ missing[s] = outPipe[s]
    BY DEF TypeOK, Accounted
  <2>2. outPipe[s] + 1 \in 0..PipeCap /\ missing[s] + 1 \in 0..PipeCap
    BY <1>8, <2>1 DEF Writes
  <2> QED
    BY <1>8, <2>2 DEF TypeOK, Writes, parentVars
<1>9. CASE UNCHANGED vars
  BY <1>9 DEF TypeOK, vars, parentVars, childVars
<1> QED
  BY <1>1, <1>2, <1>3, <1>4, <1>5, <1>6, <1>7, <1>8, <1>9, <1>10, <1>11, <1>12, <1>13 DEF Next, Parent, Program

\* What was written is kept account of, and a closed stream stays closed and drained.
LEMMA Balance ==
  ASSUME TypeOK, Accounted, ClosedIsDrained, StartsOpen, [Next]_vars
  PROVE  Accounted' /\ ClosedIsDrained' /\ StartsOpen'
<1>1. CASE Fork
  BY <1>1 DEF TypeOK, Accounted, ClosedIsDrained, StartsOpen, Fork, Goto, childVars
<1>2. CASE WriteStdin \/ CloseStdin \/ DeadlinePasses
  BY <1>2 DEF Accounted, ClosedIsDrained, StartsOpen, WriteStdin, CloseStdin, DeadlinePasses, Goto, childVars
<1>3. CASE WaitChild \/ CheckDeadline \/ Poll \/ EndTurn \/ PollInterrupted \/ PollFails \/ ReapAfterLoop
  BY <1>3 DEF Accounted, ClosedIsDrained, StartsOpen, WaitChild, CheckDeadline, Poll, EndTurn, PollInterrupted,
     PollFails, ReapAfterLoop, Goto, childVars
<1>4. ASSUME NEW s \in Streams, AppendAvailable(s) PROVE Accounted' /\ ClosedIsDrained' /\ StartsOpen'
  <2>1. pc' # "start" /\ UNCHANGED writers
    BY <1>4 DEF AppendAvailable
  <2> QED
    BY <1>4, <2>1, Appended DEF Accounted, ClosedIsDrained, StartsOpen
<1>5. CASE Kill
  BY <1>5 DEF TypeOK, Accounted, ClosedIsDrained, StartsOpen, Kill, Goto, Without
<1>6. CASE Exec \/ ChildExits \/ HeirExits
  BY <1>6 DEF TypeOK, Accounted, ClosedIsDrained, StartsOpen, Exec, ChildExits, HeirExits, Exits,
     Without, parentVars
<1>7. CASE Reads \/ ChildCloses \/ ChildForks
  BY <1>7 DEF TypeOK, Accounted, ClosedIsDrained, StartsOpen, Reads, ChildCloses, ChildForks, parentVars
<1>8. ASSUME NEW s \in Streams, Writes(s) PROVE Accounted' /\ ClosedIsDrained' /\ StartsOpen'
  BY <1>8 DEF TypeOK, Accounted, ClosedIsDrained, StartsOpen, Writes, parentVars
<1>9. CASE UNCHANGED vars
  BY <1>9 DEF Accounted, ClosedIsDrained, StartsOpen, vars, parentVars, childVars
<1> QED
  BY <1>1, <1>2, <1>3, <1>4, <1>5, <1>6, <1>7, <1>8, <1>9 DEF Next, Parent, Program

\* How run returns, and that nothing runs again once it has.
LEMMA Ends ==
  ASSUME TypeOK, ReturnsClosed, DrainsLate, StaysReaped, [Next]_vars
  PROVE  ReturnsClosed' /\ DrainsLate' /\ StaysReaped'
<1> USE DEF ReturnsClosed, DrainsLate, StaysReaped
<1>1. CASE Fork
  BY <1>1 DEF Fork, Goto, childVars
<1>2. CASE WriteStdin \/ CloseStdin \/ DeadlinePasses
  BY <1>2 DEF WriteStdin, CloseStdin, DeadlinePasses, Goto, childVars
<1>3. CASE WaitChild \/ CheckDeadline \/ PollInterrupted \/ PollFails \/ ReapAfterLoop
  BY <1>3 DEF WaitChild, CheckDeadline, PollInterrupted, PollFails, ReapAfterLoop, Goto, childVars
<1>4. CASE Poll \/ Kill
  BY <1>4 DEF Poll, Kill, Goto
<1>7. CASE EndTurn
  BY <1>7 DEF EndTurn, Goto, TypeOK, childVars
<1>8. ASSUME NEW s \in Streams, AppendAvailable(s) PROVE ReturnsClosed' /\ DrainsLate' /\ StaysReaped'
  BY <1>8 DEF AppendAvailable
<1>5. CASE Program
  BY <1>5 DEF Program, Exec, Exits, Reads, Writes, ChildCloses, ChildForks, ChildExits,
     HeirExits, parentVars
<1>6. CASE UNCHANGED vars
  BY <1>6 DEF vars, parentVars, childVars
<1> QED
  BY <1>1, <1>2, <1>3, <1>4, <1>5, <1>6, <1>7, <1>8 DEF Next, Parent

\* The strengthened invariant holds in every reachable state.
THEOREM RunnerInvariant == Spec => []IInv
<1>1. Init => IInv
  <2> SUFFICES ASSUME Init PROVE IInv
    OBVIOUS
  <2>1. TypeOK
    <3>1. left \in 0..StdinSize /\ inPipe \in 0..PipeCap
      BY PipeAssumption DEF Init
    <3>2. outPipe \in [Streams -> 0..PipeCap]
      BY PipeAssumption DEF Init
    <3>3. missing \in [Streams -> 0..PipeCap]
      BY PipeAssumption DEF Init
    <3> QED
      BY <3>1, <3>2, <3>3 DEF Init, TypeOK, Statuses, Holders
  <2>2. Accounted /\ ClosedIsDrained /\ StartsOpen
    BY DEF Init, Accounted, ClosedIsDrained, StartsOpen
  <2>3. ReturnsClosed /\ DrainsLate /\ StaysReaped
    BY DEF Init, ReturnsClosed, DrainsLate, StaysReaped
  <2> QED
    BY <2>1, <2>2, <2>3 DEF IInv
<1>2. IInv /\ [Next]_vars => IInv'
  BY Types, Balance, Ends DEF IInv
<1> QED
  BY <1>1, <1>2, PTL DEF Spec

\* Every reachable state is well typed: in particular no more is missing than fits in the pipes.
THEOREM TypeCorrect == Spec => []TypeOK
<1> QED
  BY RunnerInvariant, PTL DEF IInv

\* However a run ends, its child is reaped (process.cpp:209-273).
THEOREM Reaped == Spec => []ReapedOnReturn
<1>1. IInv => ReapedOnReturn
  BY DEF IInv, StaysReaped, ReapedOnReturn, Ended
<1> QED
  BY <1>1, RunnerInvariant, PTL

\* A run that did not time out has collected all that the program and its
\* descendants wrote on every stream.
THEOREM Complete == Spec => []OutputComplete
<1>1. IInv => OutputComplete
  BY DEF IInv, Accounted, ClosedIsDrained, ReturnsClosed, OutputComplete
<1> QED
  BY <1>1, RunnerInvariant, PTL
=============================================================================
