------------------------- MODULE AdvisoryLockProofs -------------------------
(***************************************************************************)
(* Proofs about AdvisoryLock, for any processes, lock files and panes.     *)
(*                                                                         *)
(* Exclusion is not inductive: it needs that the file at the path of a     *)
(* holder is the holder's own, which needs that nobody is about to unlink  *)
(* a file, which needs that a process which probes has read a real pid.    *)
(* The middle two hold while no process has ended, the last one always.    *)
(***************************************************************************)
EXTENDS AdvisoryLock, TLAPS

AllRun == \A p \in Procs : pc[p] # "gone"

\* A process that probes has read the pid of a process.
ProbesAProcess == \A p \in Procs : pc[p] = "probe" => seen[p] \in Procs

\* While all run, the file at the path of a holder is its own ...
HolderOwnsFile == AllRun => \A p \in Procs : Holds(p) => creator[PathOf[p]] = p

\* ... and no probe has found a process gone.
NobodyUnlinks == AllRun => \A p \in Procs : pc[p] # "unlink"

IInv == TypeOK /\ ProbesAProcess /\ HolderOwnsFile /\ NobodyUnlinks

\* Every reachable state is well typed: acquire makes two attempts at most.
THEOREM TypeCorrect == Spec => []TypeOK
<1>1. Init => TypeOK
  BY PathAssumption DEF Init, TypeOK
<1>2. TypeOK /\ [Next]_vars => TypeOK'
  <2> SUFFICES ASSUME TypeOK, [Next]_vars PROVE TypeOK'
    OBVIOUS
  <2>1. ASSUME NEW p \in Procs, Start(p) PROVE TypeOK'
    BY <2>1 DEF TypeOK, Start, Goto
  <2>2. ASSUME NEW p \in Procs, OpenCreates(p) PROVE TypeOK'
    BY <2>2, PathAssumption DEF TypeOK, OpenCreates, Goto
  <2>3. ASSUME NEW p \in Procs, OpenFindsFile(p) \/ OpenFails(p) PROVE TypeOK'
    BY <2>3 DEF TypeOK, OpenFindsFile, OpenFails, Goto
  <2>4. ASSUME NEW p \in Procs, WritePid(p) PROVE TypeOK'
    BY <2>4, PathAssumption DEF TypeOK, WritePid, Goto
  <2>5. ASSUME NEW p \in Procs, ReadPid(p) PROVE TypeOK'
    BY <2>5, PathAssumption DEF TypeOK, ReadPid, Goto
  <2>6. ASSUME NEW p \in Procs, Probe(p) PROVE TypeOK'
    BY <2>6 DEF TypeOK, Probe, Goto
  <2>7. ASSUME NEW p \in Procs, UnlinkStale(p) PROVE TypeOK'
    <3>1. attempt[p] \in 0..2
      BY DEF TypeOK
    <3>2. attempt' \in [Procs -> 0..2]
      BY <2>7, <3>1 DEF TypeOK, UnlinkStale, Goto
    <3> QED
      BY <2>7, <3>2, PathAssumption DEF TypeOK, UnlinkStale, Goto, Remove
  <2>8. ASSUME NEW p \in Procs, Release(p) PROVE TypeOK'
    BY <2>8, PathAssumption DEF TypeOK, Release, Goto, Remove
  <2>9. ASSUME NEW p \in Procs, End(p) PROVE TypeOK'
    BY <2>9 DEF TypeOK, End
  <2>10. CASE UNCHANGED vars
    BY <2>10 DEF TypeOK, vars
  <2> QED
    BY <2>1, <2>2, <2>3, <2>4, <2>5, <2>6, <2>7, <2>8, <2>9, <2>10 DEF Next, Step
<1> QED
  BY <1>1, <1>2, PTL DEF Spec

\* Once a process has ended it stays gone, so if all run after a step, all ran
\* before it.
LEMMA GoneStays ==
  ASSUME TypeOK, [Next]_vars, AllRun'
  PROVE  AllRun
<1>1. ASSUME NEW q \in Procs, pc[q] = "gone" PROVE FALSE
  <2>1. CASE UNCHANGED vars
    BY <1>1, <2>1 DEF AllRun, vars
  <2>2. ASSUME NEW p \in Procs, Start(p) PROVE FALSE
    BY <1>1, <2>2 DEF AllRun, TypeOK, Start, Goto
  <2>3. ASSUME NEW p \in Procs, Step(p) PROVE FALSE
    BY <1>1, <2>3 DEF AllRun, TypeOK, Step, Goto, OpenCreates, OpenFindsFile, OpenFails,
       WritePid, ReadPid, Probe, UnlinkStale, Release
  <2>4. ASSUME NEW p \in Procs, End(p) PROVE FALSE
    BY <2>4 DEF AllRun, TypeOK, End
  <2> QED
    BY <2>1, <2>2, <2>3, <2>4 DEF Next
<1> QED
  BY <1>1 DEF AllRun

\* The strengthened invariant is preserved by every step.
LEMMA Inductive ==
  ASSUME IInv, TypeOK', [Next]_vars
  PROVE  IInv'
<1> USE DEF IInv
<1>1. ProbesAProcess'
  <2>1. ASSUME NEW p \in Procs, Start(p) \/ Step(p) \/ End(p) PROVE ProbesAProcess'
    BY <2>1, PathAssumption DEF ProbesAProcess, TypeOK, Start, Step, End, Goto, OpenCreates,
       OpenFindsFile, OpenFails, WritePid, ReadPid, Probe, UnlinkStale, Release
  <2> QED
    BY <2>1 DEF Next, vars, ProbesAProcess
<1>2. ASSUME AllRun' PROVE \A p \in Procs : pc'[p] # "unlink"
  <2>1. AllRun
    BY <1>2, GoneStays
  <2>2. ASSUME NEW p \in Procs, Probe(p) PROVE pc'[p] # "unlink"
    BY <2>1, <2>2 DEF AllRun, ProbesAProcess, TypeOK, Probe, Goto
  <2>3. ASSUME NEW p \in Procs, Start(p) \/ Step(p) \/ End(p) PROVE \A q \in Procs : pc'[q] # "unlink"
    BY <2>1, <2>2, <2>3 DEF NobodyUnlinks, TypeOK, Start, Step, End, Goto, OpenCreates,
       OpenFindsFile, OpenFails, WritePid, ReadPid, Probe, UnlinkStale, Release
  <2> QED
    BY <2>1, <2>3 DEF Next, vars, NobodyUnlinks
<1>3. ASSUME AllRun', NEW q \in Procs, Holds(q)' PROVE creator'[PathOf[q]] = q
  <2>1. AllRun
    BY <1>3, GoneStays
  <2>2. ASSUME NEW p \in Procs, OpenCreates(p) PROVE creator'[PathOf[q]] = q
    <3>1. CASE p = q
      BY <2>2, <3>1, PathAssumption DEF TypeOK, OpenCreates
    <3>2. CASE p # q
      BY <1>3, <2>1, <2>2, <3>2, PathAssumption, NobodyAssumption
      DEF TypeOK, OpenCreates, Goto, Holds, HolderOwnsFile, Exists
    <3> QED
      BY <3>1, <3>2
  <2>3. ASSUME NEW p \in Procs, Release(p) PROVE creator'[PathOf[q]] = q
    BY <1>3, <2>1, <2>3, PathAssumption DEF TypeOK, Release, Goto, Remove, Holds, HolderOwnsFile
  <2>4. ASSUME NEW p \in Procs, UnlinkStale(p) PROVE FALSE
    BY <2>1, <2>4 DEF NobodyUnlinks, UnlinkStale, Goto
  <2>5. ASSUME NEW p \in Procs,
               \/ Start(p) \/ OpenFindsFile(p) \/ OpenFails(p) \/ WritePid(p)
               \/ ReadPid(p) \/ Probe(p) \/ End(p)
        PROVE creator'[PathOf[q]] = q
    BY <1>3, <2>1, <2>5 DEF TypeOK, Start, OpenFindsFile, OpenFails, WritePid, ReadPid,
       Probe, End, Goto, Holds, HolderOwnsFile
  <2>6. CASE UNCHANGED vars
    BY <1>3, <2>1, <2>6 DEF vars, Holds, HolderOwnsFile
  <2> QED
    BY <2>2, <2>3, <2>4, <2>5, <2>6 DEF Next, Step
<1> QED
  BY <1>1, <1>2, <1>3 DEF HolderOwnsFile, NobodyUnlinks

\* The strengthened invariant holds in every reachable state.
THEOREM LockInvariant == Spec => []IInv
<1>1. Init => IInv
  BY PathAssumption DEF Init, IInv, TypeOK, ProbesAProcess, HolderOwnsFile, NobodyUnlinks, Holds
<1>2. IInv /\ TypeOK' /\ [Next]_vars => IInv'
  BY Inductive
<1> QED
  BY <1>1, <1>2, TypeCorrect, PTL DEF Spec

\* Two processes that use one lock file never hold it together while no
\* process has ended, however their system calls interleave.
THEOREM Exclusive == Spec => []ExclusiveWhileAllRun
<1>1. IInv => ExclusiveWhileAllRun
  BY DEF IInv, AllRun, HolderOwnsFile, ExclusiveWhileAllRun
<1> QED
  BY <1>1, LockInvariant, PTL

\* While no process has ended, the file of a holder goes away by its own
\* release only.
THEOREM HeldFileIsKept == Spec => HeldFileStays
<1>1. ASSUME IInv, [Next]_vars, NEW p \in Procs, AllRun, Holds(p), creator[PathOf[p]] = p,
             creator'[PathOf[p]] # p
      PROVE  pc[p] = "held" /\ pc'[p] = "idle"
  <2>1. PICK q \in Procs : Start(q) \/ Step(q) \/ End(q)
    BY <1>1 DEF Next, vars
  <2>2. ~UnlinkStale(q)
    BY <1>1 DEF IInv, NobodyUnlinks, UnlinkStale, Goto
  <2>3. ~OpenCreates(q)
    BY <1>1, PathAssumption, NobodyAssumption DEF IInv, TypeOK, OpenCreates, Exists
  <2>4. Release(q)
    BY <1>1, <2>1, <2>2, <2>3 DEF Step, Start, End, OpenFindsFile, OpenFails, WritePid, ReadPid, Probe
  <2>5. p = q
    BY <1>1, <2>4, PathAssumption
    DEF IInv, TypeOK, Release, Goto, Remove, Holds, HolderOwnsFile
  <2> QED
    BY <1>1, <2>4, <2>5 DEF Release, Goto, IInv, TypeOK
<1>2. IInv /\ [Next]_vars =>
        [\A p \in Procs :
          (\A q \in Procs : pc[q] # "gone") /\ Holds(p) /\ creator[PathOf[p]] = p =>
              creator'[PathOf[p]] = p \/ (pc[p] = "held" /\ pc'[p] = "idle")]_vars
  BY <1>1 DEF AllRun
<1> QED
  BY <1>2, LockInvariant, PTL DEF Spec, HeldFileStays
=============================================================================
