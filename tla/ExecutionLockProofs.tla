------------------------ MODULE ExecutionLockProofs ------------------------
(***************************************************************************)
(* For every set of processes and every bound on crashes: the lock file    *)
(* excludes, only dead owners' files are unlinked by others, and every     *)
(* behaviour of the file protocol is a behaviour of the abstract lease.    *)
(***************************************************************************)
EXTENDS ExecutionLock, TLAPS

\* A process inside acquisition owns the file it created, and a process inside
\* the reclaim section owns the guard.
FileHeld ==
  /\ \A p \in Proc : pc[p] = "opened" => file = Partial(p)
  /\ \A p \in Proc : pc[p] \in Holding => file = Whole(p)

GuardHeld == \A p \in Proc : pc[p] \in Guarded => guard = p

\* Only an owner found dead is judged, and the dead do not come back; once the
\* re-read matched, the judged file stays until its judge removes it.
JudgedFile ==
  /\ \A p \in Proc : pc[p] \in {"guard", "reread", "reprobe"} =>
       seen[p] \in Proc /\ Dead(seen[p])
  /\ \A p \in Proc : pc[p] = "probe" => seen[p] \in Proc
  /\ \A p \in Proc : pc[p] = "reprobe" => file = Whole(seen[p])

\* The loop body only runs while passes are left.
LoopBound ==
  \A p \in Proc : pc[p] \in Guarded \cup {"opened", "read", "probe", "guard"} =>
    tries[p] < Attempts

IInv == /\ TypeOK
        /\ LoopBound
        /\ FileHeld
        /\ GuardHeld
        /\ JudgedFile
        /\ UnlinksOnlyDeadOwners

LEMMA InitIInv == Init => IInv
  BY ExecutionLockAssumption
  DEF Init, IInv, TypeOK, LoopBound, FileHeld, GuardHeld, JudgedFile,
      UnlinksOnlyDeadOwners, Steps, Attempts, NoFile, Holding, Guarded

\* A file that no longer is the one that was judged is not judged again.
LEMMA RereadIInv == ASSUME IInv, NEW p \in Proc, Reread(p) PROVE IInv'
<1>1. /\ pc[p] = "reread" /\ UNCHANGED <<file, guard, tries, seen, reused>>
      /\ pc' = [pc EXCEPT ![p] = IF file = Whole(seen[p]) THEN "reprobe" ELSE "refuse"]
  BY DEF Reread, Go
<1>2. /\ pc \in [Proc -> Steps] /\ pc'[p] \in {"reprobe", "refuse"}
      /\ pc'[p] = "reprobe" => file = Whole(seen[p])
      /\ \A q \in Proc : q # p => pc'[q] = pc[q]
  BY <1>1 DEF IInv, TypeOK
<1>3. TypeOK' /\ LoopBound'
  <2>1. pc' \in [Proc -> Steps]
    BY <1>1, <1>2 DEF Steps
  <2>2. tries[p] < Attempts
    BY <1>1 DEF IInv, LoopBound, Guarded
  <2> QED BY <1>1, <1>2, <2>1, <2>2 DEF IInv, TypeOK, LoopBound
<1>4. FileHeld'
  BY <1>1, <1>2 DEF IInv, FileHeld, Holding
<1>5. GuardHeld'
  BY <1>1, <1>2 DEF IInv, GuardHeld, Guarded
<1>6. JudgedFile'
  <2>1. seen[p] \in Proc /\ Dead(seen[p])
    BY <1>1 DEF IInv, JudgedFile
  <2> QED BY <1>1, <1>2, <2>1 DEF IInv, JudgedFile, Dead
<1>7. UnlinksOnlyDeadOwners'
  BY <1>1, <1>2 DEF IInv, UnlinksOnlyDeadOwners, Dead
<1> QED BY <1>3, <1>4, <1>5, <1>6, <1>7 DEF IInv

\* One fact per action: the moving process's step keeps every conjunct.
LEMMA StepIInv == IInv /\ [Next]_vars => IInv'
<1> SUFFICES ASSUME IInv, [Next]_vars PROVE IInv'
  OBVIOUS
<1> USE ExecutionLockAssumption
    DEF IInv, TypeOK, LoopBound, FileHeld, GuardHeld, JudgedFile,
        UnlinksOnlyDeadOwners, Steps, Attempts, NoFile, Whole, Partial, Go,
        Holding, Guarded, Dead
<1>1. CASE UNCHANGED vars
  BY <1>1 DEF vars
<1>2. ASSUME NEW p \in Proc, Call(p) PROVE IInv'
  BY <1>2 DEF Call
<1>3. ASSUME NEW p \in Proc, Acquire(p) PROVE IInv'
  <2>1. CASE Create(p) BY <2>1 DEF Create
  <2>2. CASE CreateFails(p) BY <2>2 DEF CreateFails
  <2>3. CASE WriteOwner(p)
    <3>1. file = Partial(p) /\ file # NoFile BY <2>3 DEF WriteOwner
    <3>2. ~file.whole /\ file.by = p BY <3>1
    <3>3. \A q \in Proc : /\ pc[q] \notin Holding
                         /\ pc[q] # "reprobe"
                         /\ pc[q] # "unlink"
      BY <3>2
    <3>4. \A q \in Proc : pc[q] = "opened" => q = p BY <3>2
    <3>5. QED BY <2>3, <3>3, <3>4 DEF WriteOwner
  <2>4. CASE WriteFails(p) BY <2>4 DEF WriteFails
  <2>5. CASE ReadOwner(p)
    <3>1. file.by \in Proc BY <2>5 DEF ReadOwner
    <3>2. QED BY <2>5, <3>1 DEF ReadOwner
  <2>6. CASE Unreadable(p) BY <2>6 DEF Unreadable
  <2>7. CASE ProbeOwner(p) BY <2>7 DEF ProbeOwner, LooksAlive
  <2>8. CASE TakeGuard(p) BY <2>8 DEF TakeGuard
  <2>9. CASE Reread(p)
    <3> HIDE DEF IInv, TypeOK, LoopBound, FileHeld, GuardHeld, JudgedFile, UnlinksOnlyDeadOwners
    <3> QED BY <2>9, RereadIInv
  <2>10. CASE Reprobe(p) BY <2>10 DEF Reprobe, LooksAlive
  <2>11. CASE Unlink(p)
    \* nobody else can rely on the file: its owner is dead and the guard is p's
    <3>1. file = Whole(seen[p]) /\ Dead(seen[p]) /\ guard = p
      BY <2>11 DEF Unlink
    <3>2. \A q \in Proc : pc[q] # "opened" /\ pc[q] \notin Holding
      BY <3>1
    <3>3. \A q \in Proc : q # p => pc[q] \notin Guarded
      BY <3>1
    <3>4. QED BY <2>11, <3>1, <3>2, <3>3 DEF Unlink
  <2>12. CASE LeaveGuard(p) BY <2>12 DEF LeaveGuard
  <2>13. CASE GiveUp(p) BY <2>13 DEF GiveUp
  <2>14. QED
    BY <1>3, <2>1, <2>2, <2>3, <2>4, <2>5, <2>6, <2>7, <2>8, <2>9, <2>10,
       <2>11, <2>12, <2>13 DEF Acquire
<1>4. ASSUME NEW p \in Proc, Release(p) PROVE IInv'
  <2>1. CASE ReleaseRead(p) BY <2>1 DEF ReleaseRead
  <2>2. CASE ReleaseUnlink(p)
    <3>1. file = Whole(p) /\ ~Dead(p) BY <2>2 DEF ReleaseUnlink
    <3>2. QED BY <2>2, <3>1 DEF ReleaseUnlink
  <2>3. QED BY <1>4, <2>1, <2>2 DEF Release
<1>5. ASSUME NEW p \in Proc, Environment(p) PROVE IInv'
  <2>1. CASE Crash(p) BY <2>1 DEF Crash
  <2>2. CASE PidReused(p) BY <2>2 DEF PidReused
  <2>3. CASE PidFreed(p) BY <2>3 DEF PidFreed
  <2>4. QED BY <1>5, <2>1, <2>2, <2>3 DEF Environment
<1>6. QED
  BY <1>1, <1>2, <1>3, <1>4, <1>5 DEF Next

\* Two live processes never hold the same lock file at once.
THEOREM LockExcludes == Spec => []MutualExclusion
<1>1. IInv => MutualExclusion
  BY ExecutionLockAssumption DEF IInv, FileHeld, MutualExclusion, Whole
<1>2. QED BY <1>1, InitIInv, StepIInv, PTL DEF Spec

\* A contender unlinks nothing but the file of the dead owner it judged.
THEOREM ReclaimIsSafe == Spec => [](TypeOK /\ UnlinksOnlyDeadOwners)
<1>1. IInv => TypeOK /\ UnlinksOnlyDeadOwners BY DEF IInv
<1>2. QED BY <1>1, InitIInv, StepIInv, PTL DEF Spec

-----------------------------------------------------------------------------
\* A step that changes neither the written owner nor who is alive stutters.
LEMMA Stutter ==
  ASSUME file' = file \/ (~file.whole /\ ~file'.whole), \A q \in Proc : Dead(q)' = Dead(q)
  PROVE  UNCHANGED Abstract!vars
  BY DEF Abstract!vars

LEMMA StepLease == IInv /\ [Next]_vars => [Abstract!Next]_Abstract!vars
<1> SUFFICES ASSUME IInv, [Next]_vars PROVE [Abstract!Next]_Abstract!vars
  OBVIOUS
<1> USE ExecutionLockAssumption DEF NoFile, Whole, Partial, Go, Dead
<1>t. TypeOK BY DEF IInv
<1>1. CASE UNCHANGED vars
  BY <1>1, Stutter DEF vars
<1>2. ASSUME NEW p \in Proc, WriteOwner(p) PROVE Abstract!Next
  <2>1. file = Partial(p) BY <1>2 DEF WriteOwner, IInv, FileHeld
  <2>2. Abstract!Grant(p) BY <1>t, <1>2, <2>1 DEF WriteOwner, Abstract!Grant, TypeOK
  <2>3. QED BY <2>2 DEF Abstract!Next
<1>3. ASSUME NEW p \in Proc, Unlink(p) PROVE Abstract!Next
  <2>1. file = Whole(seen[p]) /\ Dead(seen[p]) /\ seen[p] \in Proc
    BY <1>t, <1>3 DEF Unlink, IInv, UnlinksOnlyDeadOwners, TypeOK, Steps
  <2>2. Abstract!Reclaim BY <1>t, <1>3, <2>1 DEF Unlink, Abstract!Reclaim, TypeOK
  <2>3. QED BY <2>2 DEF Abstract!Next
<1>4. ASSUME NEW p \in Proc, ReleaseUnlink(p) PROVE Abstract!Next
  <2>1. file = Whole(p) BY <1>4 DEF ReleaseUnlink, IInv, FileHeld, Holding
  <2>2. Abstract!Release(p) BY <1>t, <1>4, <2>1 DEF ReleaseUnlink, Abstract!Release, TypeOK
  <2>3. QED BY <2>2 DEF Abstract!Next
<1>5. ASSUME NEW p \in Proc, Crash(p) PROVE Abstract!Next
  <2>1. Abstract!Die(p) BY <1>t, <1>5 DEF Crash, Abstract!Die, TypeOK
  <2>2. QED BY <2>1 DEF Abstract!Next
<1>6. ASSUME NEW p \in Proc, Create(p) \/ WriteFails(p) PROVE UNCHANGED Abstract!vars
  <2>1. ~file.whole /\ ~file'.whole
    BY <1>6 DEF Create, WriteFails, IInv, FileHeld
  <2>2. \A q \in Proc : Dead(q)' = Dead(q)
    BY <1>t, <1>6 DEF Create, WriteFails, TypeOK
  <2>3. QED BY <2>1, <2>2, Stutter
<1>7. ASSUME NEW p \in Proc,
             \/ Call(p) \/ CreateFails(p) \/ ReadOwner(p) \/ Unreadable(p)
             \/ ProbeOwner(p) \/ TakeGuard(p) \/ Reread(p) \/ Reprobe(p)
             \/ LeaveGuard(p) \/ GiveUp(p) \/ ReleaseRead(p)
             \/ PidReused(p) \/ PidFreed(p)
      PROVE UNCHANGED Abstract!vars
  <2>1. file' = file
    BY <1>7 DEF Call, CreateFails, ReadOwner, Unreadable, ProbeOwner, TakeGuard,
                Reread, Reprobe, LeaveGuard, GiveUp, ReleaseRead, PidReused, PidFreed
  <2>2. \A q \in Proc : Dead(q)' = Dead(q)
    BY <1>t, <1>7
    DEF Call, CreateFails, ReadOwner, Unreadable, ProbeOwner, TakeGuard, Reread,
        Reprobe, LeaveGuard, GiveUp, ReleaseRead, PidReused, PidFreed, TypeOK
  <2>3. QED BY <2>1, <2>2, Stutter
<1>8. QED
  BY <1>1, <1>2, <1>3, <1>4, <1>5, <1>6, <1>7
  DEF Next, Acquire, Release, Environment

\* The file protocol implements the abstract lease.
THEOREM FileProtocolImplementsLease == Spec => ImplementsLease
<1>1. Init => Abstract!Init
  BY DEF Init, Abstract!Init, NoFile, Dead
<1>2. QED
  BY <1>1, InitIInv, StepIInv, StepLease, PTL DEF Spec, ImplementsLease, Abstract!Spec
=============================================================================
