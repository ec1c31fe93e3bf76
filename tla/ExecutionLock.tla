--------------------------- MODULE ExecutionLock ---------------------------
(***************************************************************************)
(* The lock files of the observation layer (v2-run.lock,                   *)
(* harvest-fallback.lock, dashboard-operations.lock, ...), one file-system *)
(* call per action, so that any other process can run between two calls.   *)
(* A process may die between any two calls and leaves its files behind.    *)
(* `Proc` is the set of process incarnations: a dead one never comes back, *)
(* but the operating system may hand its pid to an unrelated process.      *)
(***************************************************************************)
EXTENDS Naturals, FiniteSets

CONSTANTS Proc,        \* process incarnations contending for the lock
          NoProc,      \* not a process
          MaxCrashes   \* bound on the processes that die

ASSUME ExecutionLockAssumption == NoProc \notin Proc /\ MaxCrashes \in Nat

VARIABLES
  file,    \* the lock file: NoFile, or its creator and whether it is written out
  guard,   \* creator of the `.reclaim` file, or NoProc when there is none
  pc,      \* where each process stands
  tries,   \* passes of the acquisition loop a process has used up
  seen,    \* owner a contender read from the lock file
  reused   \* dead processes whose pid now belongs to somebody else

vars == <<file, guard, pc, tries, seen, reused>>

NoFile  == [by |-> NoProc, whole |-> FALSE]
\* Mutant: an owner record without its pid.
AnonymousOwner(p) == [by |-> NoProc, whole |-> TRUE]
Whole(p) == [by |-> p, whole |-> TRUE]
Partial(p) == [by |-> p, whole |-> FALSE]

Attempts == 2

Steps == {"idle", "open", "opened", "read", "probe", "guard", "reread",
          "reprobe", "unlink", "retry", "refuse", "holding", "releasing", "dead"}
Guarded == {"reread", "reprobe", "unlink", "retry", "refuse"}
Holding == {"holding", "releasing"}

Dead(p)  == pc[p] = "dead"
\* process.kill(pid, 0): a reused pid answers for the dead owner.
LooksAlive(p) == ~Dead(p) \/ p \in reused

Go(p, step) == pc' = [pc EXCEPT ![p] = step]

TypeOK ==
  /\ file \in [by : Proc, whole : BOOLEAN] \cup {NoFile}
  /\ guard \in Proc \cup {NoProc}
  /\ pc \in [Proc -> Steps]
  /\ tries \in [Proc -> 0..Attempts]
  /\ seen \in [Proc -> Proc \cup {NoProc}]
  /\ reused \in SUBSET Proc

Init ==
  /\ file = NoFile
  /\ guard = NoProc
  /\ pc = [p \in Proc |-> "idle"]
  /\ tries = [p \in Proc |-> 0]
  /\ seen = [p \in Proc |-> NoProc]
  /\ reused = {}

-----------------------------------------------------------------------------
(* acquireExecutionLock *)

Call(p) ==
  /\ pc[p] = "idle"
  /\ Go(p, "open")
  /\ tries' = [tries EXCEPT ![p] = 0]
  /\ UNCHANGED <<file, guard, seen, reused>>

\* Mutant: the file is opened with 'w' and truncates whatever is there.
CreateOverwriting(p) ==
  /\ pc[p] = "open" /\ tries[p] < Attempts
  /\ file' = Partial(p)
  /\ Go(p, "opened")
  /\ UNCHANGED <<guard, tries, seen, reused>>

\* openSync(file, 'wx'): exclusive creation, the content comes later.
Create(p) ==
  /\ pc[p] = "open" /\ tries[p] < Attempts
  /\ file = NoFile
  /\ file' = Partial(p)
  /\ Go(p, "opened")
  /\ UNCHANGED <<guard, tries, seen, reused>>

CreateFails(p) ==
  /\ pc[p] = "open" /\ tries[p] < Attempts
  /\ file # NoFile
  /\ Go(p, "read")
  /\ UNCHANGED <<file, guard, tries, seen, reused>>

\* writeFileSync and closeSync: the caller owns the lease.
WriteOwner(p) ==
  /\ pc[p] = "opened"
  /\ file' = Whole(p)
  /\ Go(p, "holding")
  /\ UNCHANGED <<guard, tries, seen, reused>>

\* The write failed: the handler removes the file it created and rethrows.
WriteFails(p) ==
  /\ pc[p] = "opened"
  /\ file' = NoFile
  /\ Go(p, "idle")
  /\ UNCHANGED <<guard, tries, seen, reused>>

ReadOwner(p) ==
  /\ pc[p] = "read"
  /\ file.whole
  /\ seen' = [seen EXCEPT ![p] = file.by]
  /\ Go(p, "probe")
  /\ UNCHANGED <<file, guard, tries, reused>>

\* An absent or a partly written file has no owner to judge: refuse.
Unreadable(p) ==
  /\ pc[p] = "read"
  /\ ~file.whole
  /\ Go(p, "idle")
  /\ UNCHANGED <<file, guard, tries, seen, reused>>

ProbeOwner(p) ==
  /\ pc[p] = "probe"
  /\ Go(p, IF LooksAlive(seen[p]) THEN "idle" ELSE "guard")
  /\ UNCHANGED <<file, guard, tries, seen, reused>>

\* openSync(file + '.reclaim', 'wx'), refused while another contender reclaims.
TakeGuard(p) ==
  /\ pc[p] = "guard"
  /\ IF guard = NoProc
       THEN guard' = p /\ Go(p, "reread")
       ELSE Go(p, "idle") /\ UNCHANGED guard
  /\ UNCHANGED <<file, tries, seen, reused>>

\* Mutant: under the guard the first reading is trusted.
RereadSkipped(p) ==
  /\ pc[p] = "reread"
  /\ Go(p, "reprobe")
  /\ UNCHANGED <<file, guard, tries, seen, reused>>

\* Under the guard the file must still be the one that was judged.
Reread(p) ==
  /\ pc[p] = "reread"
  /\ Go(p, IF file = Whole(seen[p]) THEN "reprobe" ELSE "refuse")
  /\ UNCHANGED <<file, guard, tries, seen, reused>>

Reprobe(p) ==
  /\ pc[p] = "reprobe"
  /\ Go(p, IF LooksAlive(seen[p]) THEN "refuse" ELSE "unlink")
  /\ UNCHANGED <<file, guard, tries, seen, reused>>

Unlink(p) ==
  /\ pc[p] = "unlink"
  /\ file' = NoFile
  /\ Go(p, "retry")
  /\ UNCHANGED <<guard, tries, seen, reused>>

\* Mutant: a refusal under the guard throws past the removal of the guard.
LeaveGuardOnSuccess(p) ==
  /\ pc[p] \in {"retry", "refuse"}
  /\ guard' = IF guard = p /\ pc[p] = "retry" THEN NoProc ELSE guard
  /\ Go(p, IF pc[p] = "retry" THEN "open" ELSE "idle")
  /\ tries' = [tries EXCEPT ![p] = IF pc[p] = "retry" THEN @ + 1 ELSE @]
  /\ UNCHANGED <<file, seen, reused>>

\* The finally block, then the next pass of the loop or the exception.
LeaveGuard(p) ==
  /\ pc[p] \in {"retry", "refuse"}
  /\ guard' = IF guard = p THEN NoProc ELSE guard
  /\ Go(p, IF pc[p] = "retry" THEN "open" ELSE "idle")
  /\ tries' = [tries EXCEPT ![p] = IF pc[p] = "retry" THEN @ + 1 ELSE @]
  /\ UNCHANGED <<file, seen, reused>>

GiveUp(p) ==
  /\ pc[p] = "open" /\ tries[p] = Attempts
  /\ Go(p, "idle")
  /\ UNCHANGED <<file, guard, tries, seen, reused>>

-----------------------------------------------------------------------------
(* releaseExecutionLock *)

ReleaseRead(p) ==
  /\ pc[p] = "holding"
  /\ Go(p, IF file = Whole(p) THEN "releasing" ELSE "idle")
  /\ UNCHANGED <<file, guard, tries, seen, reused>>

ReleaseUnlink(p) ==
  /\ pc[p] = "releasing"
  /\ file' = NoFile
  /\ Go(p, "idle")
  /\ UNCHANGED <<guard, tries, seen, reused>>

-----------------------------------------------------------------------------
(* The operating system *)

Crash(p) ==
  /\ ~Dead(p)
  /\ Cardinality({q \in Proc : Dead(q)}) < MaxCrashes
  /\ Go(p, "dead")
  /\ UNCHANGED <<file, guard, tries, seen, reused>>

PidReused(p) ==
  /\ Dead(p)
  /\ p \notin reused
  /\ reused' = reused \cup {p}
  /\ UNCHANGED <<file, guard, pc, tries, seen>>

PidFreed(p) ==
  /\ p \in reused
  /\ reused' = reused \ {p}
  /\ UNCHANGED <<file, guard, pc, tries, seen>>

-----------------------------------------------------------------------------
Acquire(p) ==
  \/ Create(p) \/ CreateFails(p) \/ WriteOwner(p) \/ WriteFails(p)
  \/ ReadOwner(p) \/ Unreadable(p) \/ ProbeOwner(p) \/ TakeGuard(p)
  \/ Reread(p) \/ Reprobe(p) \/ Unlink(p) \/ LeaveGuard(p) \/ GiveUp(p)

Release(p) == ReleaseRead(p) \/ ReleaseUnlink(p)

Environment(p) == Crash(p) \/ PidReused(p) \/ PidFreed(p)

Next == \E p \in Proc : Call(p) \/ Acquire(p) \/ Release(p) \/ Environment(p)

Spec == Init /\ [][Next]_vars

\* Every scheduled task calls again on its next trigger, and a process that is
\* not killed runs on; crashes and pid reuse are never owed.
FairSpec == Spec /\ \A p \in Proc : WF_vars(Call(p) \/ Acquire(p) \/ Release(p))

-----------------------------------------------------------------------------
(* Properties *)

\* No interleaving of file operations, crashes and pid reuse lets two live
\* processes run a section guarded by the same lock file: a holder's own lease
\* is what the file says until it removes it.
MutualExclusion ==
  \A p, q \in Proc : pc[p] \in Holding /\ pc[q] \in Holding => p = q

\* The file a contender is about to unlink belongs to a process that is dead,
\* whatever happened since the contender judged it: this is what the
\* re-read under the `.reclaim` guard is for.
UnlinksOnlyDeadOwners ==
  \A p \in Proc : pc[p] = "unlink" => file = Whole(seen[p]) /\ Dead(seen[p])

\* The lock file is an implementation of the abstract lease, the written file
\* naming the holder.
Abstract == INSTANCE Lease WITH
              holder <- IF file.whole THEN file.by ELSE NoProc,
              dead   <- {p \in Proc : Dead(p)}
ImplementsLease == Abstract!Spec

Abandoned(p) == file = Whole(p) /\ Dead(p)

\* A lease whose owner died is reclaimed, unless a contender died inside the
\* reclaim section (the guard then stays for ever and every later contender is
\* refused) or the dead owner's pid is in use again.
AbandonedIsReclaimed ==
  \A p \in Proc : Abandoned(p) ~>
    (~Abandoned(p) \/ p \in reused \/ \E q \in Proc : guard = q /\ Dead(q))
=============================================================================
