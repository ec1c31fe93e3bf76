------------------------------ MODULE RunLock ------------------------------
(***************************************************************************)
(* The lock files of the execution layer (run.lock, native-pt-gate.lock,   *)
(* ...): every reading or writing of the lock file happens inside a guard  *)
(* directory, and a guard older than ten seconds is taken to be orphaned   *)
(* and removed by whoever finds it.  The PowerShell parent that killed a   *)
(* timed-out child removes the child's lock file without the guard.        *)
(* One file-system call per action; the hundred attempts at the guard are  *)
(* abstracted to a waiter that may give up whenever it finds the guard.    *)
(***************************************************************************)
EXTENDS Naturals, FiniteSets

CONSTANTS Proc,         \* process incarnations
          NoProc,       \* not a process
          MaxCrashes    \* bound on the processes that die

ASSUME RunLockAssumption ==
  /\ NoProc \notin Proc
  /\ MaxCrashes \in Nat

VARIABLES
  file,      \* the lock file: NoFile, or its creator and whether it is written out
  guard,     \* creator of the guard directory, or NoProc
  old,       \* is the guard older than GUARD_STALE_MS
  pc,        \* where each process stands
  seen,      \* owner read from the lock file
  releasing, \* processes that entered the guard to release
  reused,    \* dead processes whose pid belongs to somebody else
  cleaning,  \* dead children whose lock file the parent has matched, not yet removed
  trespass   \* has somebody removed a live process's guard, or the wrong lock file

vars == <<file, guard, old, pc, seen, releasing, reused, cleaning, trespass>>

NoFile  == [by |-> NoProc, whole |-> FALSE]
Partial(p) == [by |-> p, whole |-> FALSE]
\* Mutant: an owner record without its pid.
AnonymousOwner(p) == [by |-> NoProc, whole |-> TRUE]
Whole(p) == [by |-> p, whole |-> TRUE]

Section == {"create", "opened", "inspect", "probe", "remove", "create2",
            "relread", "relremove", "got", "refused", "collided", "released"}
Steps == Section \cup {"idle", "enter", "stat", "break", "holding", "dead"}

Dead(p) == pc[p] = "dead"
Go(p, step) == pc' = [pc EXCEPT ![p] = step]

TypeOK ==
  /\ file \in [by : Proc, whole : BOOLEAN] \cup {NoFile}
  /\ guard \in Proc \cup {NoProc} /\ old \in BOOLEAN
  /\ pc \in [Proc -> Steps]
  /\ seen \in [Proc -> Proc \cup {NoProc}]
  /\ releasing \in SUBSET Proc /\ reused \in SUBSET Proc /\ cleaning \in SUBSET Proc
  /\ trespass \in BOOLEAN

Init ==
  /\ file = NoFile
  /\ guard = NoProc /\ old = FALSE
  /\ pc = [p \in Proc |-> "idle"]
  /\ seen = [p \in Proc |-> NoProc]
  /\ releasing = {} /\ reused = {} /\ cleaning = {}
  /\ trespass = FALSE

-----------------------------------------------------------------------------
(* withLockGuard *)

CallAcquire(p) ==
  /\ pc[p] = "idle"
  /\ Go(p, "enter")
  /\ releasing' = releasing \ {p}
  /\ UNCHANGED <<file, guard, old, seen, reused, cleaning, trespass>>

CallRelease(p) ==
  /\ pc[p] = "holding"
  /\ Go(p, "enter")
  /\ releasing' = releasing \cup {p}
  /\ UNCHANGED <<file, guard, old, seen, reused, cleaning, trespass>>

\* Mutant: mkdir with `recursive`, which does not fail on an existing directory.
MakeGuardRecursive(p) ==
  /\ pc[p] = "enter"
  /\ guard' = p /\ old' = FALSE
  /\ Go(p, IF p \in releasing THEN "relread" ELSE "create")
  /\ UNCHANGED <<file, seen, releasing, reused, cleaning, trespass>>

MakeGuard(p) ==
  /\ pc[p] = "enter"
  /\ IF guard = NoProc
       THEN /\ guard' = p /\ old' = FALSE
            /\ Go(p, IF p \in releasing THEN "relread" ELSE "create")
       ELSE /\ Go(p, "stat")
            /\ UNCHANGED <<guard, old>>
  /\ UNCHANGED <<file, seen, releasing, reused, cleaning, trespass>>

\* Mutant: the age of the guard is never looked at.
StatGuardAgeless(p) ==
  /\ pc[p] = "stat"
  /\ Go(p, "enter")
  /\ UNCHANGED <<file, guard, old, seen, releasing, reused, cleaning, trespass>>

\* The age is that of whatever guard is there now; the removal comes later.
StatGuard(p) ==
  /\ pc[p] = "stat"
  /\ Go(p, IF guard # NoProc /\ old THEN "break" ELSE "enter")
  /\ UNCHANGED <<file, guard, old, seen, releasing, reused, cleaning, trespass>>

BreakGuard(p) ==
  /\ pc[p] = "break"
  /\ guard' = NoProc /\ old' = FALSE
  /\ trespass' = (trespass \/ (guard # NoProc /\ ~Dead(guard)))
  /\ Go(p, "enter")
  /\ UNCHANGED <<file, seen, releasing, reused, cleaning>>

\* The attempts run out on a guard that is held and not yet old.
GuardTimeout(p) ==
  /\ pc[p] = "stat"
  /\ guard # NoProc /\ ~old
  /\ Go(p, "idle")
  /\ UNCHANGED <<file, guard, old, seen, releasing, reused, cleaning, trespass>>

\* The finally block.  An EEXIST thrown by the section lands in the same
\* handler as a guard that exists: the waiter looks at the guard again.
LeaveGuard(p) ==
  /\ pc[p] \in {"got", "refused", "collided", "released"}
  /\ guard' = NoProc /\ old' = FALSE
  /\ Go(p, CASE pc[p] = "got" -> "holding"
             [] pc[p] = "collided" -> "stat"
             [] OTHER -> "idle")
  /\ UNCHANGED <<file, seen, releasing, reused, cleaning, trespass>>

-----------------------------------------------------------------------------
(* acquireRunLock, inside the guard *)

Create(p) ==
  /\ pc[p] \in {"create", "create2"}
  /\ IF file = NoFile
       THEN file' = Partial(p) /\ Go(p, "opened")
       ELSE /\ Go(p, IF pc[p] = "create" THEN "inspect" ELSE "collided")
            /\ UNCHANGED file
  /\ UNCHANGED <<guard, old, seen, releasing, reused, cleaning, trespass>>

WriteOwner(p) ==
  /\ pc[p] = "opened"
  /\ file' = IF file = Partial(p) THEN Whole(p) ELSE file
  /\ Go(p, "got")
  /\ UNCHANGED <<guard, old, seen, releasing, reused, cleaning, trespass>>

\* A partly written file is refused while younger than its grace period and
\* replaced afterwards; a live writer has written it out before that.
Inspect(p) ==
  /\ pc[p] = "inspect"
  /\ \/ file = NoFile /\ Go(p, "create2") /\ UNCHANGED seen
     \/ file # NoFile /\ ~file.whole /\ Go(p, "refused") /\ UNCHANGED seen
     \/ file # NoFile /\ ~file.whole /\ Dead(file.by) /\ Go(p, "remove") /\ UNCHANGED seen
     \/ file.whole /\ Go(p, "probe") /\ seen' = [seen EXCEPT ![p] = file.by]
  /\ UNCHANGED <<file, guard, old, releasing, reused, cleaning, trespass>>

\* Mutant: an owner whose start time cannot be had counts as stale.
ProbeOwnerHasty(p) ==
  /\ pc[p] = "probe"
  /\ Go(p, "remove")
  /\ UNCHANGED <<file, guard, old, seen, releasing, reused, cleaning, trespass>>

\* inspectProcessIdentity and classifyLockOwner: a reused pid is told from its
\* dead owner by the start time, when that is available.
ProbeOwner(p) ==
  /\ pc[p] = "probe"
  /\ \/ Dead(seen[p]) /\ Go(p, "remove")
     \/ (~Dead(seen[p]) \/ seen[p] \in reused) /\ Go(p, "refused")
  /\ UNCHANGED <<file, guard, old, seen, releasing, reused, cleaning, trespass>>

RemoveLock(p) ==
  /\ pc[p] = "remove"
  /\ file' = NoFile
  /\ Go(p, "create2")
  /\ UNCHANGED <<guard, old, seen, releasing, reused, cleaning, trespass>>

-----------------------------------------------------------------------------
(* releaseRunLock, inside the guard *)

ReleaseRead(p) ==
  /\ pc[p] = "relread"
  /\ Go(p, IF file = Whole(p) THEN "relremove" ELSE "released")
  /\ UNCHANGED <<file, guard, old, seen, releasing, reused, cleaning, trespass>>

ReleaseRemove(p) ==
  /\ pc[p] = "relremove"
  /\ file' = NoFile
  /\ Go(p, "released")
  /\ UNCHANGED <<guard, old, seen, releasing, reused, cleaning, trespass>>

-----------------------------------------------------------------------------
(* Remove-RunLockOwnedByProcess, run by the parent of a child it killed *)

ParentMatch(p) ==
  /\ Dead(p)
  /\ file = Whole(p)
  /\ cleaning' = cleaning \cup {p}
  /\ UNCHANGED <<file, guard, old, pc, seen, releasing, reused, trespass>>

ParentRemove(p) ==
  /\ p \in cleaning
  /\ file' = NoFile
  /\ cleaning' = cleaning \ {p}
  /\ trespass' = (trespass \/ file \notin {NoFile, Whole(p)})
  /\ UNCHANGED <<guard, old, pc, seen, releasing, reused>>

-----------------------------------------------------------------------------
(* The operating system *)

Crash(p) ==
  /\ ~Dead(p)
  /\ Cardinality({q \in Proc : Dead(q)}) < MaxCrashes
  /\ Go(p, "dead")
  /\ UNCHANGED <<file, guard, old, seen, releasing, reused, cleaning, trespass>>

\* Ten seconds pass over the guard of a dead process; a live one leaves the
\* section sooner.
GuardAges ==
  /\ guard # NoProc /\ ~old
  /\ Dead(guard)
  /\ old' = TRUE
  /\ UNCHANGED <<file, guard, pc, seen, releasing, reused, cleaning, trespass>>

PidReused(p) ==
  /\ Dead(p) /\ p \notin reused
  /\ reused' = reused \cup {p}
  /\ UNCHANGED <<file, guard, old, pc, seen, releasing, cleaning, trespass>>

-----------------------------------------------------------------------------
Guarding(p) == MakeGuard(p) \/ StatGuard(p) \/ BreakGuard(p) \/ GuardTimeout(p) \/ LeaveGuard(p)
Acquire(p)  == Create(p) \/ WriteOwner(p) \/ Inspect(p) \/ ProbeOwner(p) \/ RemoveLock(p)
Release(p)  == ReleaseRead(p) \/ ReleaseRemove(p)
Run(p) == CallAcquire(p) \/ CallRelease(p) \/ Guarding(p) \/ Acquire(p) \/ Release(p)

Next ==
  \/ \E p \in Proc : Run(p) \/ ParentMatch(p) \/ ParentRemove(p) \/ Crash(p) \/ PidReused(p)
  \/ GuardAges

Spec == Init /\ [][Next]_vars

\* Runs are scheduled again and again, and time passes.
FairSpec ==
  Spec /\ WF_vars(GuardAges) /\ \A p \in Proc : WF_vars(Run(p))

-----------------------------------------------------------------------------
(* Properties *)

\* While one process works under the lock no other does (run-lock.mjs, 116).
MutualExclusion ==
  \A p, q \in Proc : pc[p] = "holding" /\ pc[q] = "holding" => p = q

\* Mutual exclusion is lost in two ways only: a waiter that judged an orphaned
\* guard removes the next waiter's guard, or a parent that matched its dead
\* child's lock removes the next owner's.
ExcludesUnlessTrespassed == ~trespass => MutualExclusion

\* Until then the working process's lease is on disk, and a release removes
\* the lease of the releasing process (sameLockOwner).
LeaseIsItsOwners ==
  ~trespass => \A p \in Proc : pc[p] \in {"holding", "relremove"} => file = Whole(p)

\* A dead owner's lock is reclaimed, orphaned guards included, unless its pid
\* is in use again.
DeadOwnerIsReclaimed ==
  \A p \in Proc : (file = Whole(p) /\ Dead(p)) ~> (file # Whole(p) \/ p \in reused)
=============================================================================
