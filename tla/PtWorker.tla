------------------------------ MODULE PtWorker ------------------------------
(***************************************************************************)
(* The supervised PT worker.  A controller takes the execution lease,      *)
(* makes sure that no earlier worker survives, writes the lifecycle marker *)
(* and only then starts the worker process; the marker is removed when the *)
(* worker and its private browser are known to be gone.  A controller may  *)
(* instead run the whole native engine.  Controllers die at any point;     *)
(* the children they started live on.  Both lock files are used through    *)
(* what they promise (module Lease).                                       *)
(***************************************************************************)
EXTENDS Naturals, FiniteSets

CONSTANTS Ctrl,        \* controller processes
          Worker,      \* PT worker processes, one for each owner id
          Engine,      \* native engine processes
          None,        \* no process
          MaxCrashes   \* bound on the controllers that die

Child == Worker \cup Engine

ASSUME PtWorkerAssumption ==
  /\ Ctrl \cap Child = {} /\ Worker \cap Engine = {}
  /\ None \notin Ctrl \cup Child
  /\ MaxCrashes \in Nat

VARIABLES
  owner,    \* holder of the execution lease (v2-run.lock)
  down,     \* controllers that have died
  runner,   \* holder of the engine's run.lock
  gone,     \* children that have exited
  pc,       \* where each controller stands
  job,      \* the child a controller deals with
  marker,   \* owner id in pt-worker-lifecycle.json, None without the file
  life,     \* stage of every child
  clean,    \* children that exited with code 0, 3 or 4
  browsers  \* workers whose private browser is open

vars == <<owner, down, runner, gone, pc, job, marker, life, clean, browsers>>

ctrlVars  == <<owner, down, pc, job>>
childVars == <<runner, gone, life, clean, browsers>>

\* The execution lock, and the run lock of the engine.
Lock == INSTANCE Lease WITH Proc <- Ctrl, NoProc <- None, holder <- owner, dead <- down
Run  == INSTANCE Lease WITH Proc <- Child, NoProc <- None, holder <- runner, dead <- gone

Steps  == {"idle", "locked", "swept", "ready", "begun", "spawned", "watching",
           "stopping", "finishing", "engine", "leaving", "dead"}
Stages == {"unborn", "born", "valid", "driving", "gone"}
Alive(k)  == life[k] \in {"born", "valid", "driving"}
\* A worker process or the private browser it left behind.
Survives(w) == Alive(w) \/ w \in browsers

TypeOK ==
  /\ owner \in Ctrl \cup {None} /\ down \in SUBSET Ctrl
  /\ runner \in Child \cup {None} /\ gone \in SUBSET Child
  /\ pc \in [Ctrl -> Steps]
  /\ job \in [Ctrl -> Child \cup {None}]
  /\ marker \in Worker \cup {None}
  /\ life \in [Child -> Stages]
  /\ clean \in SUBSET gone
  /\ browsers \in SUBSET Worker

Init ==
  /\ owner = None /\ down = {} /\ runner = None /\ gone = {}
  /\ pc = [c \in Ctrl |-> "idle"]
  /\ job = [c \in Ctrl |-> None]
  /\ marker = None
  /\ life = [k \in Child |-> "unborn"]
  /\ clean = {} /\ browsers = {}

Go(c, step) == pc' = [pc EXCEPT ![c] = step]
Stage(k, stage) == life' = [life EXCEPT ![k] = stage]

-----------------------------------------------------------------------------
(* The lease and the barrier: acquireExecutionLock, reconcilePtWorker *)

Acquire(c) ==
  /\ pc[c] = "idle"
  /\ Lock!Grant(c)
  /\ Go(c, "locked")
  /\ UNCHANGED <<job, marker, childVars>>

Reclaim ==
  /\ Lock!Reclaim
  /\ UNCHANGED <<pc, job, marker, childVars>>

\* Cleanup-PtWorker.ps1 for owner id w: it may stop the worker and the browser
\* below it, and only what is left at the end decides what it reports.  A dead
\* worker's browser is never killed.
Sweep(w, completed) ==
  /\ life' \in IF Alive(w) THEN {life, [life EXCEPT ![w] = "gone"]} ELSE {life}
  /\ browsers' \in IF Alive(w) /\ life' # life
                     THEN {browsers, browsers \ {w}} ELSE {browsers}
  /\ gone' = IF life' = life THEN gone ELSE gone \cup {w}
  /\ completed => life'[w] \in {"unborn", "gone"} /\ w \notin browsers'
  /\ UNCHANGED <<runner, clean>>

NoBarrier(c) ==
  /\ pc[c] = "locked" /\ marker = None
  /\ Go(c, "ready")
  /\ UNCHANGED <<owner, down, job, marker, childVars>>

\* boundedCleanup: a failure and a timeout count as "not completed".
Reconcile(c) ==
  /\ pc[c] = "locked" /\ marker # None
  /\ \E completed \in BOOLEAN :
       /\ Sweep(marker, completed)
       /\ job' = [job EXCEPT ![c] = IF completed THEN marker ELSE None]
       /\ Go(c, IF completed THEN "swept" ELSE "leaving")
  /\ UNCHANGED <<owner, down, marker>>

\* Mutant: the cleaned-up marker stays on disk.
KeepMarker(c) ==
  /\ pc[c] = "swept" /\ marker = job[c]
  /\ job' = [job EXCEPT ![c] = None]
  /\ Go(c, "leaving")
  /\ UNCHANGED <<owner, down, marker, childVars>>

\* The marker is read again: it must still be the one that was cleaned up.
RemoveMarker(c) ==
  /\ pc[c] = "swept" /\ marker = job[c]
  /\ marker' = None
  /\ job' = [job EXCEPT ![c] = None]
  /\ Go(c, "ready")
  /\ UNCHANGED <<owner, down, childVars>>

-----------------------------------------------------------------------------
(* spawnPtSiteChild *)

\* Cancelled, or no profile scope, before anything was written.
Abandon(c) ==
  /\ pc[c] = "ready"
  /\ Go(c, "leaving")
  /\ UNCHANGED <<owner, down, job, marker, childVars>>

Begin(c, w) ==
  /\ pc[c] = "ready" /\ marker = None
  /\ life[w] = "unborn" /\ \A d \in Ctrl : job[d] # w
  /\ marker' = w
  /\ job' = [job EXCEPT ![c] = w]
  /\ Go(c, "begun")
  /\ UNCHANGED <<owner, down, childVars>>

Spawn(c) ==
  /\ pc[c] = "begun"
  /\ Stage(job[c], "born")
  /\ Go(c, "spawned")
  /\ UNCHANGED <<owner, down, job, marker, runner, gone, clean, browsers>>

SpawnFails(c) ==
  /\ pc[c] = "begun"
  /\ Go(c, "finishing")
  /\ UNCHANGED <<owner, down, job, marker, childVars>>

\* started(pid): the marker is written again, now with the pid.
Record(c) ==
  /\ pc[c] = "spawned"
  /\ marker' = job[c]
  /\ Go(c, "watching")
  /\ UNCHANGED <<owner, down, job, childVars>>

\* Timeout, cancellation, too much output, or the pid could not be saved; the
\* marker is rewritten as cleanup_pending where that works.
Stop(c) ==
  /\ pc[c] \in {"spawned", "watching"}
  /\ marker' \in {marker, job[c]}
  /\ Go(c, "stopping")
  /\ UNCHANGED <<owner, down, job, childVars>>

\* Mutant: every exit code ends the run.
ClosedAnyCode(c) ==
  /\ pc[c] = "watching" /\ job[c] \in gone
  /\ Go(c, "finishing")
  /\ UNCHANGED <<owner, down, job, marker, childVars>>

\* The close event: exit codes 0, 3 and 4 end the run, others need a cleanup.
Closed(c) ==
  /\ pc[c] = "watching" /\ job[c] \in gone
  /\ Go(c, IF job[c] \in clean THEN "finishing" ELSE "stopping")
  /\ UNCHANGED <<owner, down, job, marker, childVars>>

\* terminate: without a completed cleanup and a closed child the marker stays.
Terminate(c) ==
  /\ pc[c] = "stopping"
  /\ \E completed, closed \in BOOLEAN :
       /\ Sweep(job[c], completed)
       /\ closed => job[c] \in gone'
       /\ Go(c, IF completed /\ closed THEN "finishing" ELSE "leaving")
  /\ UNCHANGED <<owner, down, job, marker>>

\* lifecycle.finish: removes the marker of this owner; Windows may refuse.
Finish(c) ==
  /\ pc[c] = "finishing"
  /\ marker' \in IF marker = job[c] THEN {None, marker} ELSE {marker}
  /\ Go(c, "leaving")
  /\ UNCHANGED <<owner, down, job, childVars>>

-----------------------------------------------------------------------------
(* runLegacyEngine, and giving the lease back *)

\* Mutant: the engine starts without looking at the barrier.
StartEngineUnchecked(c, e) ==
  /\ pc[c] \in {"locked", "ready"} /\ life[e] = "unborn"
  /\ Stage(e, "born")
  /\ job' = [job EXCEPT ![c] = e]
  /\ Go(c, "engine")
  /\ UNCHANGED <<owner, down, marker, runner, gone, clean, browsers>>

StartEngine(c, e) ==
  /\ pc[c] = "ready" /\ life[e] = "unborn"
  /\ Stage(e, "born")
  /\ job' = [job EXCEPT ![c] = e]
  /\ Go(c, "engine")
  /\ UNCHANGED <<owner, down, marker, runner, gone, clean, browsers>>

EngineExited(c) ==
  /\ pc[c] = "engine" /\ job[c] \in gone
  /\ Go(c, "leaving")
  /\ UNCHANGED <<owner, down, job, marker, childVars>>

Leave(c) ==
  /\ pc[c] = "leaving"
  /\ Lock!Release(c)
  /\ Go(c, "idle")
  /\ job' = [job EXCEPT ![c] = None]
  /\ UNCHANGED <<marker, childVars>>

Crash(c) ==
  /\ Cardinality(down) < MaxCrashes
  /\ c \notin down
  /\ Lock!Die(c)
  /\ Go(c, "dead")
  /\ UNCHANGED <<job, marker, childVars>>

-----------------------------------------------------------------------------
(* The children: validateEngineLease, then run.lock, then the browser *)

\* Mutant: a clean exit is acted on before the process is closed.
ExitUnclosed(k, isClean) ==
  /\ Stage(k, "gone")
  /\ gone' = IF isClean THEN gone ELSE gone \cup {k}
  /\ clean' = IF isClean THEN clean \cup {k} ELSE clean

Exit(k, isClean) ==
  /\ Stage(k, "gone")
  /\ gone' = gone \cup {k}
  /\ clean' = IF isClean THEN clean \cup {k} ELSE clean

\* The nonce in the lock file is that of the acquisition that started k.
LeaseHeldFor(k) == \E c \in Ctrl : job[c] = k /\ owner = c /\ c \notin down

Validate(k) ==
  /\ life[k] = "born" /\ LeaseHeldFor(k)
  /\ Stage(k, "valid")
  /\ UNCHANGED <<ctrlVars, marker, runner, gone, clean, browsers>>

Refused(k) ==
  /\ life[k] = "born" /\ ~LeaseHeldFor(k)
  /\ Exit(k, FALSE)
  /\ UNCHANGED <<ctrlVars, marker, runner, browsers>>

\* Mutant: the worker relies on the execution lease alone.
TakeRunLockUnasked(k) ==
  /\ life[k] = "valid"
  /\ k \in Worker \/ runner = None
  /\ runner' = k
  /\ Stage(k, "driving")
  /\ browsers' = IF k \in Worker THEN browsers \cup {k} ELSE browsers
  /\ UNCHANGED <<ctrlVars, marker, gone, clean>>

\* A worker opens its private browser once it has the run lock.
TakeRunLock(k) ==
  /\ life[k] = "valid"
  /\ Run!Grant(k)
  /\ Stage(k, "driving")
  /\ browsers' = IF k \in Worker THEN browsers \cup {k} ELSE browsers
  /\ UNCHANGED <<ctrlVars, marker, clean>>

RunLockBusy(k) ==
  /\ life[k] = "valid" /\ runner # None
  /\ Exit(k, TRUE)
  /\ UNCHANGED <<ctrlVars, marker, runner, browsers>>

ReclaimRunLock ==
  /\ Run!Reclaim
  /\ UNCHANGED <<ctrlVars, marker, life, clean, browsers>>

\* The finally block: the context is closed, the run lock released.
Complete(k) ==
  /\ life[k] = "driving"
  /\ browsers' = browsers \ {k}
  /\ runner' = IF runner = k THEN None ELSE runner
  /\ Exit(k, TRUE)
  /\ UNCHANGED <<ctrlVars, marker>>

\* An exception after which the browser may not have closed, or a crash that
\* leaves the run lock as well.
Fail(k) ==
  /\ Alive(k)
  /\ browsers' \in {browsers, browsers \ {k}}
  /\ runner' \in IF runner = k THEN {None, k} ELSE {runner}
  /\ Exit(k, FALSE)
  /\ UNCHANGED <<ctrlVars, marker>>

\* A browser left behind by a dead worker closes, or is closed by the operator.
BrowserCloses(w) ==
  /\ w \in browsers /\ ~Alive(w)
  /\ browsers' = browsers \ {w}
  /\ UNCHANGED <<ctrlVars, marker, runner, gone, life, clean>>

-----------------------------------------------------------------------------

\* What a controller does while it is neither killed nor interrupted.
Advance(c) ==
  \/ NoBarrier(c) \/ RemoveMarker(c) \/ Abandon(c) \/ Spawn(c) \/ Record(c)
  \/ Closed(c) \/ Terminate(c) \/ Finish(c) \/ EngineExited(c) \/ Leave(c)

ChildStep(k) ==
  \/ Validate(k) \/ Refused(k) \/ TakeRunLock(k) \/ RunLockBusy(k)
  \/ Complete(k) \/ Fail(k)

Next ==
  \/ \E c \in Ctrl :
       \/ Acquire(c) \/ Reconcile(c) \/ Advance(c)
       \/ SpawnFails(c) \/ Stop(c) \/ Crash(c)
       \/ \E w \in Worker : Begin(c, w)
       \/ \E e \in Engine : StartEngine(c, e)
  \/ Reclaim
  \/ ReclaimRunLock
  \/ \E k \in Child : ChildStep(k)
  \/ \E w \in Worker : BrowserCloses(w)

Spec == Init /\ [][Next]_vars

\* Controllers are started again and again by the schedulers; children and the
\* browsers they leave end some day; a cleanup that finds nothing says so, and
\* a marker that can be unlinked is not refused for ever.
Fairness ==
  /\ \A c \in Ctrl :
       /\ SF_vars(Acquire(c)) /\ WF_vars(Advance(c))
       /\ SF_vars(Reconcile(c) /\ pc'[c] = "swept")
  /\ WF_vars(Reclaim) /\ WF_vars(ReclaimRunLock)
  /\ \A k \in Child : WF_vars(ChildStep(k))
  /\ \A w \in Worker : WF_vars(BrowserCloses(w))

FairSpec == Spec /\ Fairness

-----------------------------------------------------------------------------
(* What the barrier promises *)

\* While a worker or its private browser lives, the marker names it: a timeout,
\* a failed cleanup or the death of the controller never loses the barrier.
SurvivorIsBarred == \A w \in Worker : Survives(w) => marker = w

\* No worker and no engine is started while an earlier worker or the browser it
\* left on the private profile is still there (PT_CLEANUP_PENDING).
NoStartOverSurvivor ==
  [][\A k \in Child : life[k] = "unborn" /\ life'[k] # "unborn" =>
       \A w \in Worker : ~Survives(w)]_vars

\* An engine whose controller died goes on without the execution lease; the run
\* lock still keeps a second process from driving a browser beside it.
OneDriver ==
  \A k, l \in Child : life[k] = "driving" /\ life[l] = "driving" => k = l

\* An interrupted run does not block execution for ever.
BarrierClears == marker # None ~> marker = None
=============================================================================
