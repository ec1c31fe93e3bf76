------------------------- MODULE SupervisionProofs -------------------------
(***************************************************************************)
(* Processes that start others and answer for them.                        *)
(*                                                                         *)
(* The controller of a PT worker, for any number of controllers, workers   *)
(* and engines, and any crashes of controllers: a surviving worker or      *)
(* browser is always behind the marker, nothing is started over one, and   *)
(* one child at a time drives a browser.                                   *)
(*                                                                         *)
(* The scheduler, the wrapper and the engine of a day, for any sites,      *)
(* outcomes, budgets and bounds, and whatever dies in between: a scheduled *)
(* run does not visit a site whose submission is in doubt, a deferred      *)
(* result wakes its site once, what is settled stays settled, and a site   *)
(* that is due is served.  The two models share no variable.               *)
(***************************************************************************)
EXTENDS PtWorker, DailyRun, FiniteSetTheorems, WellFoundedInduction, TLAPS

-----------------------------------------------------------------------------
(* The controller and its worker.                                          *)

USE DEF Child

Working == {"swept", "begun", "spawned", "watching", "stopping", "finishing"}

\* A controller past the acquisition is the lease's holder and is alive.
LeaseHeld ==
  \A c \in Ctrl : /\ c \in down <=> pc[c] = "dead"
                  /\ pc[c] \notin {"idle", "dead"} => owner = c

\* The marker is that of the run in progress; a controller about to start
\* something has none.
MarkerHeld ==
  \A c \in Ctrl : /\ pc[c] \in Working => job[c] \in Worker /\ marker = job[c]
                  /\ pc[c] = "ready" => marker = None

\* Nothing of the worker is left when its marker is about to go, nor before
\* it is started.
NothingLeft ==
  \A c \in Ctrl : /\ pc[c] \in {"swept", "finishing"} => ~Survives(job[c])
                  /\ pc[c] = "begun" => life[job[c]] = "unborn" /\ job[c] \notin browsers

\* Exits and browsers agree with the stage of the child.
ChildrenConsistent ==
  /\ \A k \in Child : k \in gone <=> life[k] = "gone"
  /\ \A w \in browsers : life[w] \in {"driving", "gone"}
  /\ clean \cap browsers = {}

DriverHoldsRunLock == \A k \in Child : life[k] = "driving" => runner = k

IInv ==
  /\ TypeOK /\ LeaseHeld /\ MarkerHeld /\ NothingLeft
  /\ ChildrenConsistent /\ DriverHoldsRunLock /\ SurvivorIsBarred

LEMMA InitIInv == Init => IInv
  BY PtWorkerAssumption DEF Init, IInv, TypeOK, LeaseHeld, MarkerHeld, NothingLeft, Working,
     ChildrenConsistent, DriverHoldsRunLock, SurvivorIsBarred, Survives, Alive, Steps, Stages

\* Two controllers past the acquisition are one.
LEMMA OneController ==
  ASSUME LeaseHeld, NEW c \in Ctrl, NEW d \in Ctrl,
         pc[c] \notin {"idle", "dead"}, pc[d] \notin {"idle", "dead"}
  PROVE  c = d
  BY DEF LeaseHeld

\* What a cleanup does to the children: it ends worker w or leaves it.
LEMMA SweepEffect ==
  ASSUME IInv, NEW w \in Worker, NEW completed \in BOOLEAN, Sweep(w, completed)
  PROVE  /\ life' \in [Child -> Stages] /\ gone' \in SUBSET Child
         /\ browsers' \subseteq browsers
         /\ \A k \in Child \ {w} : life'[k] = life[k]
         /\ life'[w] = life[w] \/ (life'[w] = "gone" /\ Alive(w))
         /\ \A k \in Child : k \in gone' <=> life'[k] = "gone"
         /\ gone \subseteq gone'
         /\ completed => ~Alive(w)' /\ w \notin browsers'
         /\ runner' = runner /\ clean' = clean
<1> USE DEF IInv, TypeOK, Alive, Stages
<1>1. CASE life' = life
  <2>1. browsers' = browsers /\ gone' = gone
    BY <1>1 DEF Sweep
  <2> QED BY <1>1, <2>1 DEF Sweep, ChildrenConsistent
<1>2. CASE life' # life
  <2>1. Alive(w) /\ life' = [life EXCEPT ![w] = "gone"]
    BY <1>2 DEF Sweep
  <2>2. browsers' \in {browsers, browsers \ {w}} /\ gone' = gone \cup {w}
    BY <1>2, <2>1 DEF Sweep
  <2> QED BY <2>1, <2>2 DEF Sweep, ChildrenConsistent
<1> QED BY <1>1, <1>2

LEMMA StepIInv == IInv /\ [Next]_vars => IInv'
<1> SUFFICES ASSUME IInv, [Next]_vars PROVE IInv'
  OBVIOUS
<1> USE PtWorkerAssumption
<1>1. CASE UNCHANGED vars
  BY <1>1 DEF vars, IInv, TypeOK, LeaseHeld, MarkerHeld, NothingLeft,
     ChildrenConsistent, DriverHoldsRunLock, SurvivorIsBarred, Survives, Alive
<1>2. ASSUME NEW c \in Ctrl, Acquire(c) PROVE IInv'
  BY <1>2 DEF Acquire, Lock!Grant, Go, childVars, IInv, TypeOK, LeaseHeld, MarkerHeld, NothingLeft, Working,
     ChildrenConsistent, DriverHoldsRunLock, SurvivorIsBarred, Survives, Alive, Steps
<1>3. ASSUME NEW c \in Ctrl, Reconcile(c) PROVE IInv'
  <2>1. PICK completed \in BOOLEAN :
          /\ Sweep(marker, completed)
          /\ job' = [job EXCEPT ![c] = IF completed THEN marker ELSE None]
          /\ Go(c, IF completed THEN "swept" ELSE "leaving")
    BY <1>3 DEF Reconcile
  <2>2. marker \in Worker
    BY <1>3 DEF Reconcile, IInv, TypeOK
  <2>3. TypeOK'
    BY <1>3, <2>1, <2>2, SweepEffect DEF Reconcile, Go, IInv, TypeOK, Steps
  <2>4. LeaseHeld'
    BY <1>3, <2>1 DEF Reconcile, Go, IInv, TypeOK, LeaseHeld
  <2>5. \A d \in Ctrl : d # c => pc[d] \in {"idle", "dead"}
    BY <1>3, OneController DEF Reconcile, IInv
  <2>6. MarkerHeld'
    BY <1>3, <2>1, <2>2, <2>5 DEF Reconcile, Go, IInv, TypeOK, MarkerHeld, Working
  <2>7. NothingLeft'
    BY <1>3, <2>1, <2>2, <2>5, SweepEffect DEF Reconcile, Go, IInv, TypeOK, NothingLeft, Survives, Alive
  <2>8. ChildrenConsistent' /\ DriverHoldsRunLock'
    BY <1>3, <2>1, <2>2, SweepEffect DEF IInv, TypeOK, ChildrenConsistent, DriverHoldsRunLock, Alive
  <2>9. SurvivorIsBarred'
    BY <1>3, <2>1, <2>2, SweepEffect DEF Reconcile, IInv, TypeOK, SurvivorIsBarred, Survives, Alive
  <2> QED BY <2>3, <2>4, <2>6, <2>7, <2>8, <2>9 DEF IInv
<1>4. ASSUME NEW c \in Ctrl, NoBarrier(c) \/ Abandon(c) \/ Record(c) \/ SpawnFails(c) \/ Stop(c)
                             \/ EngineExited(c)
      PROVE IInv'
  BY <1>4 DEF NoBarrier, Abandon, Record, SpawnFails, Stop, EngineExited, Go, childVars,
     IInv, TypeOK, LeaseHeld, MarkerHeld, NothingLeft, Working,
     ChildrenConsistent, DriverHoldsRunLock, SurvivorIsBarred, Survives, Alive, Steps
<1>5. ASSUME NEW c \in Ctrl, RemoveMarker(c) \/ Finish(c) PROVE IInv'
  <2>1. \A d \in Ctrl : d # c => pc[d] \in {"idle", "dead"}
    BY <1>5, OneController DEF RemoveMarker, Finish, IInv
  <2>2. job[c] \in Worker /\ marker = job[c] /\ ~Survives(job[c])
    BY <1>5 DEF RemoveMarker, Finish, IInv, MarkerHeld, NothingLeft, Working
  <2> QED
    BY <1>5, <2>1, <2>2 DEF RemoveMarker, Finish, Go, childVars,
     IInv, TypeOK, LeaseHeld, MarkerHeld, NothingLeft, Working,
     ChildrenConsistent, DriverHoldsRunLock, SurvivorIsBarred, Survives, Alive, Steps
<1>6. ASSUME NEW c \in Ctrl, NEW w \in Worker, Begin(c, w) PROVE IInv'
  <2>1. \A d \in Ctrl : d # c => pc[d] \in {"idle", "dead"}
    BY <1>6, OneController DEF Begin, IInv
  <2>2. ~Survives(w) /\ marker = None
    BY <1>6 DEF Begin, IInv, SurvivorIsBarred
  <2> QED
    BY <1>6, <2>1, <2>2 DEF Begin, Go, childVars,
     IInv, TypeOK, LeaseHeld, MarkerHeld, NothingLeft, Working,
     ChildrenConsistent, DriverHoldsRunLock, SurvivorIsBarred, Survives, Alive, Steps
<1>7. ASSUME NEW c \in Ctrl, Spawn(c) PROVE IInv'
  <2>1. \A d \in Ctrl : d # c => pc[d] \in {"idle", "dead"}
    BY <1>7, OneController DEF Spawn, IInv
  <2>2. job[c] \in Worker /\ marker = job[c] /\ life[job[c]] = "unborn" /\ job[c] \notin browsers
    BY <1>7 DEF Spawn, IInv, MarkerHeld, NothingLeft, Working
  <2> QED
    BY <1>7, <2>1, <2>2 DEF Spawn, Go, Stage,
     IInv, TypeOK, LeaseHeld, MarkerHeld, NothingLeft, Working,
     ChildrenConsistent, DriverHoldsRunLock, SurvivorIsBarred, Survives, Alive, Steps, Stages
<1>8. ASSUME NEW c \in Ctrl, Closed(c) PROVE IInv'
  <2>1. job[c] \in Worker
    BY <1>8 DEF Closed, IInv, MarkerHeld, Working
  <2>2. job[c] \in clean => ~Survives(job[c])
    BY <1>8, <2>1 DEF Closed, IInv, TypeOK, ChildrenConsistent, Survives, Alive
  <2> QED
    BY <1>8, <2>1, <2>2 DEF Closed, Go, childVars,
     IInv, TypeOK, LeaseHeld, MarkerHeld, NothingLeft, Working,
     ChildrenConsistent, DriverHoldsRunLock, SurvivorIsBarred, Survives, Alive, Steps
<1>9. ASSUME NEW c \in Ctrl, Terminate(c) PROVE IInv'
  <2>1. PICK completed \in BOOLEAN, closed \in BOOLEAN :
          /\ Sweep(job[c], completed)
          /\ Go(c, IF completed /\ closed THEN "finishing" ELSE "leaving")
    BY <1>9 DEF Terminate
  <2>2. job[c] \in Worker /\ marker = job[c]
    BY <1>9 DEF Terminate, IInv, MarkerHeld, Working
  <2>3. TypeOK'
    BY <1>9, <2>1, <2>2, SweepEffect DEF Terminate, Go, IInv, TypeOK, Steps
  <2>4. LeaseHeld'
    BY <1>9, <2>1 DEF Terminate, Go, IInv, TypeOK, LeaseHeld
  <2>5. \A d \in Ctrl : d # c => pc[d] \in {"idle", "dead"}
    BY <1>9, OneController DEF Terminate, IInv
  <2>6. MarkerHeld'
    BY <1>9, <2>1, <2>2, <2>5 DEF Terminate, Go, IInv, TypeOK, MarkerHeld, Working
  <2>7. NothingLeft'
    BY <1>9, <2>1, <2>2, <2>5, SweepEffect DEF Terminate, Go, IInv, TypeOK, NothingLeft, Survives, Alive
  <2>8. ChildrenConsistent' /\ DriverHoldsRunLock'
    BY <1>9, <2>1, <2>2, SweepEffect DEF IInv, TypeOK, ChildrenConsistent, DriverHoldsRunLock, Alive
  <2>9. SurvivorIsBarred'
    BY <1>9, <2>1, <2>2, SweepEffect DEF Terminate, IInv, TypeOK, SurvivorIsBarred, Survives, Alive
  <2> QED BY <2>3, <2>4, <2>6, <2>7, <2>8, <2>9 DEF IInv
<1>10. ASSUME NEW c \in Ctrl, NEW e \in Engine, StartEngine(c, e) PROVE IInv'
  <2>1. \A d \in Ctrl : d # c => pc[d] \in {"idle", "dead"}
    BY <1>10, OneController DEF StartEngine, IInv
  <2> QED
    BY <1>10, <2>1 DEF StartEngine, Go, Stage,
     IInv, TypeOK, LeaseHeld, MarkerHeld, NothingLeft, Working,
     ChildrenConsistent, DriverHoldsRunLock, SurvivorIsBarred, Survives, Alive, Steps, Stages
<1>11. ASSUME NEW c \in Ctrl, Leave(c) \/ Crash(c) PROVE IInv'
  BY <1>11 DEF Leave, Crash, Lock!Release, Lock!Die, Go, childVars,
     IInv, TypeOK, LeaseHeld, MarkerHeld, NothingLeft, Working,
     ChildrenConsistent, DriverHoldsRunLock, SurvivorIsBarred, Survives, Alive, Steps
<1>12. CASE Reclaim
  BY <1>12 DEF Reclaim, Lock!Reclaim, childVars,
     IInv, TypeOK, LeaseHeld, MarkerHeld, NothingLeft, Working,
     ChildrenConsistent, DriverHoldsRunLock, SurvivorIsBarred, Survives, Alive, Steps
<1>13. CASE ReclaimRunLock
  BY <1>13 DEF ReclaimRunLock, Run!Reclaim, ctrlVars,
     IInv, TypeOK, LeaseHeld, MarkerHeld, NothingLeft, Working,
     ChildrenConsistent, DriverHoldsRunLock, SurvivorIsBarred, Survives, Alive, Steps
<1>14. ASSUME NEW k \in Child, ChildStep(k) PROVE IInv'
  <2> USE DEF ctrlVars, Stage, Exit,
     IInv, TypeOK, LeaseHeld, MarkerHeld, NothingLeft, Working,
     ChildrenConsistent, DriverHoldsRunLock, SurvivorIsBarred, Survives, Alive, Stages
  <2>1. CASE Validate(k)
    BY <2>1 DEF Validate
  <2>2. CASE Refused(k)
    BY <2>2 DEF Refused
  <2>3. CASE TakeRunLock(k)
    BY <2>3 DEF TakeRunLock, Run!Grant
  <2>4. CASE RunLockBusy(k)
    BY <2>4 DEF RunLockBusy
  <2>5. CASE Complete(k)
    BY <2>5 DEF Complete
  <2>6. CASE Fail(k)
    BY <2>6 DEF Fail
  <2> QED BY <1>14, <2>1, <2>2, <2>3, <2>4, <2>5, <2>6 DEF ChildStep
<1>15. ASSUME NEW w \in Worker, BrowserCloses(w) PROVE IInv'
  BY <1>15 DEF BrowserCloses, ctrlVars,
     IInv, TypeOK, LeaseHeld, MarkerHeld, NothingLeft, Working,
     ChildrenConsistent, DriverHoldsRunLock, SurvivorIsBarred, Survives, Alive
<1> QED
  BY <1>1, <1>2, <1>3, <1>4, <1>5, <1>6, <1>7, <1>8, <1>9, <1>10, <1>11, <1>12, <1>13, <1>14, <1>15
  DEF Next, Advance

LEMMA AlwaysIInv == Spec => []IInv
  BY InitIInv, StepIInv, PTL DEF Spec

-----------------------------------------------------------------------------

\* The marker written by beginPtWorker stands for whatever is left of its worker
\* until a cleanup or a clean exit has proved that nothing is.
THEOREM BarrierCoversSurvivors == Spec => []SurvivorIsBarred
<1>1. IInv => SurvivorIsBarred
  BY DEF IInv
<1> QED BY <1>1, AlwaysIInv, PTL

\* An engine without a controller and a later worker never drive a browser
\* together, although each was started under its own execution lease.
THEOREM DriversExclude == Spec => []OneDriver
<1>1. IInv => OneDriver
  BY DEF IInv, DriverHoldsRunLock, OneDriver
<1> QED BY <1>1, AlwaysIInv, PTL

\* Nothing is started while something of an earlier worker is left.
THEOREM StartsAreGuarded == Spec => NoStartOverSurvivor
<1> DEFINE Guarded == \A k \in Child : life[k] = "unborn" /\ life'[k] # "unborn" =>
                        \A w \in Worker : ~Survives(w)
<1>1. IInv /\ [Next]_vars => [Guarded]_vars
  <2> SUFFICES ASSUME IInv, Next, NEW k \in Child, life[k] = "unborn", life'[k] # "unborn"
               PROVE  \A w \in Worker : ~Survives(w)
    OBVIOUS
  <2> USE PtWorkerAssumption
  <2>1. ASSUME NEW c \in Ctrl, Spawn(c) PROVE \A w \in Worker : ~Survives(w)
    <3>1. marker = job[c] /\ ~Survives(job[c])
      BY <2>1 DEF Spawn, IInv, MarkerHeld, NothingLeft, Working, Survives, Alive
    <3> QED BY <3>1 DEF IInv, SurvivorIsBarred
  <2>2. ASSUME NEW c \in Ctrl, NEW e \in Engine, StartEngine(c, e)
        PROVE  \A w \in Worker : ~Survives(w)
    BY <2>2 DEF StartEngine, IInv, MarkerHeld, SurvivorIsBarred
  <2>3. ASSUME NEW c \in Ctrl, Reconcile(c) \/ Terminate(c) PROVE FALSE
    <3>1. PICK w \in Worker, completed \in BOOLEAN : Sweep(w, completed)
      BY <2>3 DEF Reconcile, Terminate, IInv, TypeOK, MarkerHeld, Working
    <3> QED BY <3>1, SweepEffect DEF Alive
  <2>4. ASSUME NEW c \in Ctrl,
               Acquire(c) \/ NoBarrier(c) \/ RemoveMarker(c) \/ Abandon(c) \/ Record(c)
               \/ Closed(c) \/ Finish(c) \/ EngineExited(c) \/ Leave(c) \/ SpawnFails(c)
               \/ Stop(c) \/ Crash(c) \/ \E w \in Worker : Begin(c, w)
        PROVE  FALSE
    BY <2>4 DEF Acquire, NoBarrier, RemoveMarker, Abandon, Record, Closed, Finish, EngineExited,
       Leave, SpawnFails, Stop, Crash, Begin, childVars
  <2>5. ASSUME NEW l \in Child, ChildStep(l) PROVE FALSE
    BY <2>5 DEF ChildStep, Validate, Refused, TakeRunLock, RunLockBusy, Complete, Fail,
       Exit, Stage, Alive, IInv, TypeOK
  <2>6. ASSUME Reclaim \/ ReclaimRunLock \/ \E w \in Worker : BrowserCloses(w) PROVE FALSE
    BY <2>6 DEF Reclaim, ReclaimRunLock, BrowserCloses, childVars
  <2> QED BY <2>1, <2>2, <2>3, <2>4, <2>5, <2>6 DEF Next, Advance
<1> QED BY <1>1, AlwaysIInv, PTL DEF Spec, NoStartOverSurvivor
-----------------------------------------------------------------------------
(* The day.  First the invariant, in four parts: the engine, its report    *)
(* and the calendar; the wrapper that drives the engine; the scheduler's   *)
(* state and the wakes it launched; the view it decides on.                *)

\* A result as the day keeps it: its time is a time, and one that says a
\* submission was sent is settled or a person's.
Sound == {r \in Results : /\ r.next \in Nat \cup {NoTime}
                          /\ r.sub => r.status \in {"attention", "done"}}

\* Values a report, an engine and a state of the scheduler may have.
Days == Nat \cup {NoTime}
Reports == [day : Days, plan : Nat, res : [Sites -> Sound]]

Engines(logins, tries) ==
      [on : BOOLEAN, orphan : BOOLEAN, day : Days, plan : Nat, resumed : BOOLEAN,
           base : [Sites -> Sound], only : Sites \cup {NoSite}, confirmed : SUBSET Sites,
           results : [Sites -> Sound], todo : SUBSET Sites,
           stage : {"visit", "login", "supplement"}, queue : SUBSET Sites, round : Nat,
           logins : {logins}, tries : {tries}]

\* The types of the variables.
EngineTyped == eng \in Engines(eng.logins, eng.tries)

WrapTyped ==
  wrap \in [pc : {"off", "start", "attempt", "engine", "after"},
            by : {"none", "scheduler", "operator"}, only : Sites \cup {NoSite},
            confirm : Sites \cup {NoSite}, attempt : Nat,
            base : {"none", "final", "progress"}, day : Days,
            fresh : {"none", "final", "progress"}, code : {0, 1, 2}]

States(tokens) ==
  [phase : {"idle", "running", "finished", "error"}, attemptDay : Days, attempts : Nat,
   started : Days, runDay : Days, valid : BOOLEAN, complete : BOOLEAN, auto : Nat, plan : Nat,
   next : Days, wakeDay : Days, tokens : {tokens}]
StateTyped(st) == st \in States(st.tokens) /\ IsFiniteSet(st.tokens)
SchedTyped == StateTyped(sched)

LoopTyped ==
  loop \in [pc : {"idle", "looked", "running"}, now : Nat, plan : Nat, view : Reports,
            unread : BOOLEAN, wake : Sites \cup {NoSite}, drained : {loop.drained},
            fresh : BOOLEAN]

StartsTyped ==
  starts \in [day : {starts.day}, plan : {starts.plan}, runs : {starts.runs},
              stale : BOOLEAN, again : BOOLEAN]

LaunchedTyped == \A l \in launched : l[1] \in Nat /\ l[2][2] \in Nat

\* One wrapper has the engine that is not an orphan, and none has another.
OneWrapperDrives == wrap.pc = "engine" <=> eng.on /\ ~eng.orphan

\* While the wrapper of the scheduler works, the scheduler waits for it.
SchedulersWrapper == wrap.pc # "off" /\ wrap.by = "scheduler" => loop.pc = "running"

\* The scheduler decides on the latest report unless one was written since.
ViewIsLatest == loop.pc = "looked" /\ ~loop.fresh => loop.view = latest

\* A run resumed without a selection opens nothing that is in doubt.
ResumedPlanIsFree ==
  eng.on /\ eng.resumed /\ ~Selects(eng.only) => \A s \in eng.todo : ~eng.base[s].sub

\* What the scheduler woke has sent nothing whose outcome is unknown.
WokenIsFree ==
  (wrap.by = "scheduler" /\ Selects(wrap.only) /\ ~starts.stale) =>
    /\ wrap.pc = "start" => ~latest.res[wrap.only].sub
    /\ wrap.pc \in {"attempt", "engine"} /\ wrap.base = "final" => ~latest.res[wrap.only].sub
    /\ wrap.pc = "after" /\ wrap.base = "final" /\ wrap.fresh = "none" => ~latest.res[wrap.only].sub
    /\ wrap.pc = "engine" /\ eng.resumed => eng.only = wrap.only /\ ~eng.base[wrap.only].sub

\* A wrapper and its engine are of the same run.
DrivenEngine == wrap.pc = "engine" => eng.only = wrap.only /\ wrap.fresh = "none"
StartHasNoBase == wrap.pc = "start" => wrap.base = "none"

\* An engine that is down has nothing, and one resumed from a report keeps
\* what the report settled: it neither opens nor downgrades it.
EngineIsDown == eng.on \/ eng = Down
ResumedKeepsSettled ==
  eng.resumed => \A s \in Sites :
    /\ Terminal(latest.res[s]) => Terminal(eng.base[s])
    /\ Terminal(eng.base[s]) => /\ eng.results[s].status \in {"none", "done"}
                                /\ s \notin eng.queue
                                /\ s \in eng.todo => Selects(eng.only)
\* A recovery round has someone to recover, and an explicit selection is
\* all the run opens.
SomeoneWaits == eng.stage = "login" => eng.queue # {}
OnlyIsOnly == Selects(eng.only) => eng.todo \subseteq {eng.only}

\* No result asks for a retry before the day of the report it is in.
NotBefore(r, d) == r.next # NoTime => Day(r.next) >= d
AllNotBefore(res, d) == \A s \in Sites : NotBefore(res[s], d)
ReportLooksAhead == AllNotBefore(latest.res, latest.day)
ViewLooksAhead == loop.pc = "looked" => AllNotBefore(loop.view.res, loop.view.day)
EngineLooksAhead ==
  eng.on => AllNotBefore(eng.results, eng.day) /\ AllNotBefore(eng.base, eng.day)

EngineInv ==
  /\ EngineTyped /\ EngineIsDown /\ ResumedKeepsSettled /\ SomeoneWaits /\ OnlyIsOnly
  /\ ResumedPlanIsFree /\ EngineLooksAhead

\* Reports, engines and the calendar follow one another, day and plan.
DaysAdvance ==
  /\ latest.day <= Day(clock) /\ latest.plan <= plan
  /\ eng.on => /\ latest.day <= eng.day /\ eng.day <= Day(clock)
               /\ latest.plan <= eng.plan /\ eng.plan <= plan

\* What a wrapper resumes is not newer than the last report.
BaseIsNotNewer ==
  /\ wrap.pc \in {"attempt", "engine"} /\ wrap.base = "final" => wrap.day <= latest.day
  /\ wrap.pc = "after" /\ wrap.fresh = "final" => wrap.day <= latest.day
  /\ wrap.pc = "after" /\ wrap.fresh = "none" /\ wrap.base = "final" => wrap.day <= latest.day

\* What the scheduler read is not newer than what it read it from.
LoopIsBehind ==
  loop.pc # "idle" => /\ loop.now <= clock /\ loop.plan <= plan
                      /\ sched.plan <= loop.plan
LookedIsBehind ==
  loop.pc = "looked" => /\ loop.view.plan <= latest.plan /\ loop.view.plan <= loop.plan
                        /\ sched.wakeDay <= Day(loop.now)
                        /\ \A l \in launched : l[1] <= loop.view.plan
StateIsBehind == sched.plan <= plan /\ sched.wakeDay <= Day(clock)

\* A wake was launched for a plan that has a report and a state.
LaunchedAreReported == \A l \in launched : l[1] <= latest.plan /\ l[1] <= sched.plan

\* The claims a state keeps: the tokens of its last day are in it, and no
\* claimed one is of a later day.
KeepsClaims(st) ==
  \A l \in launched : l[1] = st.plan =>
    /\ Day(l[2][2]) <= st.wakeDay
    /\ Day(l[2][2]) = st.wakeDay => l[2] \in st.tokens
ClaimsAreKept == KeepsClaims(sched)

-----------------------------------------------------------------------------
\* The engine, its report and the calendar.
WorldInv ==
  /\ clock \in Nat /\ plan \in Nat /\ latest \in Reports
  /\ EngineInv /\ ReportLooksAhead /\ DaysAdvance

WrapInv ==
  WrapTyped /\ OneWrapperDrives /\ DrivenEngine /\ StartHasNoBase /\ BaseIsNotNewer

-----------------------------------------------------------------------------
(* The operators.                                                          *)

LEMMA MinIn ==
  ASSUME NEW S \in SUBSET Nat, S # {}
  PROVE  Min(S) \in S /\ \A y \in S : Min(S) <= y
<1> DEFINE R == OpToRel(<, Nat)
<1>1. PICK x \in S : \A y \in S : ~(<<y, x>> \in R)
  <2> HIDE DEF R
  <2> QED BY NatLessThanWellFounded, WFMin DEF R
<1>2. ASSUME NEW y \in S PROVE x <= y
  <2>1. ~(y < x)
    BY <1>1 DEF OpToRel
  <2> QED BY <2>1
<1> QED BY <1>2 DEF Min

LEMMA MinSite ==
  ASSUME NEW S \in SUBSET Sites, S # {}
  PROVE  Min(S) \in S
  BY MinIn, RetryAssumption

LEMMA NoSiteIsNone == NoSite \notin Sites
  BY EngineAssumption DEF NoSite

\* The days of times.
LEMMA DayOfTime ==
  ASSUME NEW t \in Nat
  PROVE  /\ Day(t) \in Nat
         /\ \A d \in Int : d <= Day(t) <=> d * SlotsPerDay <= t
  BY RetryAssumption DEF Day

LEMMA DayMonotone ==
  ASSUME NEW t \in Nat, NEW u \in Nat, t <= u
  PROVE  Day(t) <= Day(u)
<1>1. Day(t) * SlotsPerDay <= t
  BY DayOfTime
<1>2. Day(t) * SlotsPerDay \in Int
  BY DayOfTime, RetryAssumption
<1>3. Day(t) * SlotsPerDay <= u
  BY <1>1, <1>2
<1> QED BY <1>3, DayOfTime

LEMMA NextDayIsLater ==
  ASSUME NEW t \in Nat
  PROVE  NextDay(t) \in Nat /\ Day(t) <= Day(NextDay(t))
<1>1. NextDay(t) \in Nat
  BY DayOfTime, RetryAssumption DEF NextDay
<1>2. (Day(t) + 1) * SlotsPerDay <= NextDay(t)
  BY <1>1 DEF NextDay
<1>3. Day(t) + 1 <= Day(NextDay(t))
  BY <1>1, <1>2, DayOfTime
<1>4. Day(NextDay(t)) \in Nat /\ Day(t) \in Nat
  BY <1>1, DayOfTime
<1> QED BY <1>1, <1>3, <1>4

LEMMA LateTodayIsToday ==
  ASSUME NEW t \in Nat
  PROVE  /\ LateToday(t) \in Days
         /\ LateToday(t) # NoTime => Day(t) <= Day(LateToday(t))
<1>1. CASE LateToday(t) = NoTime
  BY <1>1 DEF Days
<1>2. CASE LateToday(t) # NoTime
  <2>1. LateToday(t) = Day(t) * SlotsPerDay + LateSlot
    BY <1>2 DEF LateToday
  <2>2. LateToday(t) \in Nat
    BY <2>1, DayOfTime, RetryAssumption
  <2>3. Day(t) * SlotsPerDay <= LateToday(t)
    BY <2>1, DayOfTime, RetryAssumption
  <2> QED BY <2>2, <2>3, DayOfTime DEF Days
<1> QED BY <1>1, <1>2

-----------------------------------------------------------------------------
(* What becomes of a result.                                               *)

\* q is a later form of r, settled if r was, and its time is r's or lies on
\* the day of now or after it.
Follows(q, r, now) ==
  /\ q \in Sound
  /\ q.next = r.next \/ q.next = NoTime \/ Day(now) <= Day(q.next)
  /\ Terminal(r) => Terminal(q)

LEMMA FollowsTrans ==
  ASSUME NEW now \in Nat, NEW r, NEW q, NEW p, Follows(q, r, now), Follows(p, q, now)
  PROVE  Follows(p, r, now)
  BY DEF Follows

LEMMA FollowsSelf == ASSUME NEW now, NEW r \in Sound PROVE Follows(r, r, now)
  BY DEF Follows

LEMMA FollowsNotBefore ==
  ASSUME NEW now \in Nat, NEW r \in Sound, NEW q, Follows(q, r, now), NEW d \in Int, d <= Day(now),
         NotBefore(r, d)
  PROVE  NotBefore(q, d)
<1>1. CASE q.next = NoTime \/ q.next = r.next
  BY <1>1 DEF NotBefore
<1>2. CASE q.next # NoTime /\ Day(now) <= Day(q.next)
  <2>1. q.next \in Nat
    BY <1>2 DEF Follows, Sound
  <2>2. Day(q.next) \in Nat /\ Day(now) \in Nat
    BY <2>1, DayOfTime
  <2> QED BY <1>2, <2>2 DEF NotBefore
<1> QED BY <1>1, <1>2 DEF Follows

LEMMA OutcomeIsSound ==
  ASSUME NEW status \in {"none", "done", "retry", "login", "deferred", "attention", "weak"},
         NEW cause \in Causes
  PROVE  /\ Outcome(status, cause, FALSE) \in Sound
         /\ Outcome(status, cause, FALSE).status = status
         /\ Outcome(status, cause, FALSE).next = NoTime
         /\ Outcome(status, cause, FALSE).sub = FALSE
<1> DEFINE o == Outcome(status, cause, FALSE)
<1>1. /\ o.status = status /\ o.next = NoTime /\ o.sub = FALSE
      /\ o \in Results
  <2>1. o = [status |-> status, cause |-> cause, next |-> NoTime, seq |-> 0, seqDay |-> NoTime,
             late |-> FALSE, exhausted |-> FALSE, sub |-> FALSE]
    BY DEF Outcome
  <2>2. NoTime \in Int /\ 0 \in Nat
    BY DEF NoTime
  <2> HIDE DEF o
  <2> QED BY <2>1, <2>2 DEF Results
<1> HIDE DEF o
<1>2. o \in Sound
  BY <1>1 DEF Sound
<1> QED BY <1>1, <1>2 DEF o

LEMMA NoResultIsSound == NoResult \in Sound /\ NoResult.status = "none" /\ NoResult.next = NoTime
                           /\ ~NoResult.sub
<1>1. "none" \in Causes
  BY DEF Causes
<1> QED BY <1>1, OutcomeIsSound DEF NoResult

LEMMA NothingIsSound == Nothing \in [Sites -> Sound] /\ \A s \in Sites : Nothing[s] = NoResult
  BY NoResultIsSound DEF Nothing

LEMMA VisitsAreSound ==
  ASSUME NEW s \in Sites, NEW r \in Outcomes[s]
  PROVE  r \in Sound /\ r.next = NoTime
<1>1. r \in Results /\ r.next = NoTime /\ (r.sub => r.status \in {"done", "attention"})
  BY EngineAssumption
<1> QED BY <1>1 DEF Sound

LEMMA ScheduleFollows ==
  ASSUME NEW r \in Sound, NEW now \in Nat
  PROVE  /\ Follows(WithRetrySchedule(r, now), r, now)
         /\ WithRetrySchedule(r, now).status = r.status
<1>1. CASE r.status = "deferred" /\ r.next = NoTime
  <2>1. WithRetrySchedule(r, now) = [r EXCEPT !.next = now + 1]
    BY <1>1 DEF WithRetrySchedule
  <2>2. now + 1 \in Nat /\ now + 1 # NoTime /\ Day(now) <= Day(now + 1)
    BY DayMonotone DEF NoTime
  <2>3. [r EXCEPT !.next = now + 1] \in Sound
    BY <2>2 DEF Sound, Results
  <2>4. /\ [r EXCEPT !.next = now + 1].next = now + 1
        /\ [r EXCEPT !.next = now + 1].status = r.status
    BY DEF Sound, Results
  <2> QED BY <2>1, <2>2, <2>3, <2>4 DEF Follows, Terminal
<1>2. CASE ~(r.status = "deferred" /\ r.next = NoTime)
  BY <1>2, FollowsSelf DEF WithRetrySchedule
<1> QED BY <1>1, <1>2

\* A result whose status is not a settled one, with another time.
LEMMA ChangeFollows ==
  ASSUME NEW r \in Sound, NEW now \in Nat, NEW q \in Results,
         q.status = r.status, q.sub = r.sub,
         q.next = r.next \/ q.next = NoTime \/ (q.next \in Nat /\ Day(now) <= Day(q.next))
  PROVE  Follows(q, r, now)
<1>1. q \in Sound
  BY DEF Sound
<1> QED BY <1>1 DEF Follows, Terminal

LEMMA DeferFollows ==
  ASSUME NEW r \in Sound, NEW now \in Nat
  PROVE  Follows(DeferUnresolvedLogin(r, now), r, now)
<1> DEFINE cause == IF r.cause \in {"upstream", "rate"} THEN r.cause ELSE "login"
           q == [r EXCEPT !.status = "deferred", !.cause = cause]
<1>1. CASE r.status = "login"
  <2>1. DeferUnresolvedLogin(r, now) = WithRetrySchedule(q, now)
    BY <1>1 DEF DeferUnresolvedLogin, Sound, Results
  <2>2. cause \in Causes
    BY DEF Causes
  <2>3. q \in Sound /\ q.next = r.next /\ ~Terminal(r)
    BY <1>1, <2>2 DEF Sound, Results, Terminal
  <2>4. Follows(q, r, now)
    BY <2>3 DEF Follows
  <2> HIDE DEF q
  <2> QED BY <2>1, <2>3, <2>4, ScheduleFollows, FollowsTrans
<1>2. CASE r.status # "login"
  BY <1>2, FollowsSelf DEF DeferUnresolvedLogin
<1> QED BY <1>1, <1>2

LEMMA PutOffFollows ==
  ASSUME NEW r \in Sound, NEW now \in Nat
  PROVE  Follows(PutOff(r, now), r, now)
<1> DEFINE next == NextDay(now)
           q == [r EXCEPT !.exhausted = TRUE, !.late = FALSE, !.next = next]
<1>1. next \in Nat /\ next \in Int /\ Day(now) <= Day(next)
  BY NextDayIsLater
<1>2. r \in Results
  BY DEF Sound
<1>3. PutOff(r, now) = q
  BY DEF PutOff
<1> HIDE DEF next
<1>4. q \in Results
  BY <1>1, <1>2 DEF Results
<1>5. q.next = next
  BY <1>1, <1>2 DEF Results
<1>6. q.status = r.status
  BY <1>1, <1>2 DEF Results
<1>7. q.sub = r.sub
  BY <1>1, <1>2 DEF Results
<1> HIDE DEF q
<1> QED BY <1>1, <1>3, <1>4, <1>5, <1>6, <1>7, ChangeFollows

\* The late time given to a result while it is to come.
LEMMA LateFollows ==
  ASSUME NEW r \in Sound, NEW now \in Nat, LateToday(now) # NoTime, NEW day \in Int
  PROVE  Follows([r EXCEPT !.late = TRUE, !.next = LateToday(now), !.seqDay = day], r, now)
<1> DEFINE next == LateToday(now)
           q == [r EXCEPT !.late = TRUE, !.next = next, !.seqDay = day]
<1>1. next \in Nat /\ next \in Int /\ Day(now) <= Day(next)
  BY LateTodayIsToday DEF Days
<1>2. r \in Results
  BY DEF Sound
<1> HIDE DEF next
<1>3. q \in Results
  BY <1>1, <1>2 DEF Results
<1>4. q.next = next
  BY <1>1, <1>2 DEF Results
<1>5. q.status = r.status
  BY <1>1, <1>2 DEF Results
<1>6. q.sub = r.sub
  BY <1>1, <1>2 DEF Results
<1>7. Follows(q, r, now)
  <2> HIDE DEF q
  <2> QED BY <1>1, <1>3, <1>4, <1>5, <1>6, ChangeFollows
<1> QED BY <1>7 DEF next

LEMMA UpstreamFollows ==
  ASSUME NEW r \in Sound, NEW previous \in Sound, NEW now \in Nat
  PROVE  Follows(AdvanceUpstream(r, previous, now), r, now)
<1>1. CASE r.seq < SiteLimit
  BY <1>1, FollowsSelf DEF AdvanceUpstream
<1>2. CASE ~(r.seq < SiteLimit) /\ ~previous.late /\ LateToday(now) # NoTime
  <2> DEFINE next == LateToday(now)
             q == [r EXCEPT !.late = TRUE, !.next = next]
  <2>1. AdvanceUpstream(r, previous, now) = q
    BY <1>2 DEF AdvanceUpstream
  <2>2. next \in Nat /\ next \in Int /\ Day(now) <= Day(next)
    BY <1>2, LateTodayIsToday DEF Days
  <2>3. r \in Results
    BY DEF Sound
  <2> HIDE DEF next
  <2>4. q \in Results
    BY <2>2, <2>3 DEF Results
  <2>5. q.next = next
    BY <2>2, <2>3 DEF Results
  <2>6. q.status = r.status
    BY <2>2, <2>3 DEF Results
  <2>7. q.sub = r.sub
    BY <2>2, <2>3 DEF Results
  <2> HIDE DEF q
  <2> QED BY <2>1, <2>2, <2>4, <2>5, <2>6, <2>7, ChangeFollows
<1>3. CASE ~(r.seq < SiteLimit) /\ ~(~previous.late /\ LateToday(now) # NoTime)
  BY <1>3, PutOffFollows DEF AdvanceUpstream
<1> QED BY <1>1, <1>2, <1>3

LEMMA LoginFollows ==
  ASSUME NEW r \in Sound, NEW now \in Nat, r.status = "deferred"
  PROVE  Follows(AdvanceLogin(r), r, now)
<1>1. CASE r.seq < LoginLimit
  BY <1>1, FollowsSelf DEF AdvanceLogin
<1>2. CASE ~(r.seq < LoginLimit)
  <2> DEFINE q == [r EXCEPT !.status = "attention", !.exhausted = TRUE, !.next = NoTime]
  <2>1. AdvanceLogin(r) = q
    BY <1>2 DEF AdvanceLogin
  <2>2. r \in Results /\ NoTime \in Int
    BY DEF Sound, NoTime
  <2>3. q \in Results
    BY <2>2 DEF Results
  <2>4. q.next = NoTime
    BY <2>2 DEF Results
  <2>5. q.status = "attention"
    BY <2>2 DEF Results
  <2> HIDE DEF q
  <2>6. q \in Sound
    BY <2>3, <2>4, <2>5 DEF Sound
  <2> QED BY <2>1, <2>4, <2>6 DEF Follows, Terminal
<1> QED BY <1>1, <1>2

LEMMA RateFollows ==
  ASSUME NEW r \in Sound, NEW now \in Nat, r.seq # 0
  PROVE  Follows(AdvanceRate(r, now), r, now)
<1>1. CASE r.seq >= RateLimit
  BY <1>1, PutOffFollows DEF AdvanceRate
<1>2. CASE ~(r.seq >= RateLimit)
  <2> DEFINE k == r.seq - 1
             delay == Min({MaxDelay, 2 ^ k})
  <2>1. k \in 0 .. RateLimit
    BY <1>2, RetryAssumption DEF Sound, Results
  <2>2. {MaxDelay, 2 ^ k} \subseteq Nat
    BY <2>1, BackoffAssumption, RetryAssumption
  <2>3. delay \in Nat
    <3> HIDE DEF k
    <3> QED BY <2>2, MinIn
  <2>4. AdvanceRate(r, now) = [r EXCEPT !.next = now + delay]
    BY <1>2 DEF AdvanceRate
  <2> HIDE DEF delay
  <2>5. now + delay \in Nat /\ Day(now) <= Day(now + delay)
    BY <2>3, DayMonotone
  <2>6. /\ AdvanceRate(r, now) \in Results /\ AdvanceRate(r, now).next = now + delay
        /\ AdvanceRate(r, now).status = r.status /\ AdvanceRate(r, now).sub = r.sub
    BY <2>4, <2>5 DEF Sound, Results
  <2> QED BY <2>5, <2>6, ChangeFollows
<1> QED BY <1>1, <1>2

LEMMA AdvanceFollows ==
  ASSUME NEW r \in Sound, NEW previous \in Sound, NEW now \in Nat
  PROVE  Follows(AdvanceDeferredRetry(r, previous, now), r, now)
<1> DEFINE next == NextSequence(r, previous, now)
           n == [r EXCEPT !.seq = next, !.seqDay = Day(now)]
           h == [r EXCEPT !.seq = 0, !.seqDay = Day(now)]
<1>1. r \in Results /\ previous \in Results /\ Day(now) \in Int
  BY DayOfTime DEF Sound
<1>2. next \in Nat \ {0}
  BY <1>1 DEF NextSequence, Results
<1> HIDE DEF next
<1>3. n \in Results
  BY <1>1, <1>2 DEF Results
<1>4. n.seq = next
  BY <1>1, <1>2 DEF Results
<1>5. n.status = r.status
  BY <1>1 DEF Results
<1>6. n.next = r.next
  BY <1>1 DEF Results
<1>7. n.sub = r.sub
  BY <1>1 DEF Results
<1>8. h \in Results
  BY <1>1 DEF Results
<1>9. h.status = r.status
  BY <1>1 DEF Results
<1>10. h.next = r.next
  BY <1>1 DEF Results
<1>11. h.sub = r.sub
  BY <1>1 DEF Results
<1>12. Follows(h, r, now)
  <2> HIDE DEF h
  <2> QED BY <1>8, <1>9, <1>10, <1>11, ChangeFollows
<1>13. Follows(n, r, now)
  <2> HIDE DEF n
  <2> QED BY <1>3, <1>5, <1>6, <1>7, ChangeFollows
<1>14. n \in Sound
  BY <1>13 DEF Follows
<1>20. CASE r.status # "deferred"
  BY <1>20, FollowsSelf DEF AdvanceDeferredRetry
<1>21. CASE r.status = "deferred" /\ r.cause = "harvest" /\ ~r.sub
  BY <1>21, <1>12 DEF AdvanceDeferredRetry
<1>22. CASE r.status = "deferred" /\ ~(r.cause = "harvest" /\ ~r.sub)
  <2>1. AdvanceDeferredRetry(r, previous, now) =
          CASE r.cause = "upstream" -> AdvanceUpstream(n, previous, now)
            [] r.cause \in {"login", "challenge"} -> AdvanceLogin(n)
            [] r.cause = "rate" -> AdvanceRate(n, now)
            [] OTHER -> n
    BY <1>22 DEF AdvanceDeferredRetry, next
  <2>2. n.seq # 0 /\ n.status = "deferred"
    BY <1>2, <1>4, <1>5, <1>22
  <2> HIDE DEF n
  <2>3. CASE r.cause = "upstream"
    BY <2>1, <2>3, <1>13, <1>14, UpstreamFollows, FollowsTrans
  <2>4. CASE r.cause \in {"login", "challenge"}
    <3>1. AdvanceDeferredRetry(r, previous, now) = AdvanceLogin(n)
      BY <2>1, <2>4
    <3> QED BY <3>1, <2>2, <1>13, <1>14, LoginFollows, FollowsTrans
  <2>5. CASE r.cause = "rate"
    <3>1. AdvanceDeferredRetry(r, previous, now) = AdvanceRate(n, now)
      BY <2>1, <2>5
    <3> QED BY <3>1, <2>2, <1>13, <1>14, RateFollows, FollowsTrans
  <2>6. CASE r.cause \notin {"upstream", "login", "challenge", "rate"}
    <3>1. AdvanceDeferredRetry(r, previous, now) = n
      BY <2>1, <2>6
    <3> QED BY <3>1, <1>13
  <2> QED BY <2>3, <2>4, <2>5, <2>6
<1> QED BY <1>20, <1>21, <1>22

LEMMA CircuitFollows ==
  ASSUME NEW results \in [Sites -> Sound], NEW s \in Sites, NEW now \in Nat
  PROVE  Follows(CircuitOf(results, s, now), results[s], now)
<1> DEFINE r == results[s]
           day == IF r.seqDay = NoTime THEN Day(now) ELSE r.seqDay
           late == [r EXCEPT !.late = TRUE, !.next = LateToday(now), !.seqDay = day]
<1>1. r \in Sound
  OBVIOUS
<1>2. day \in Int
  BY <1>1, DayOfTime DEF Sound, Results
<1>3. \/ CircuitOf(results, s, now) = r
      \/ LateToday(now) # NoTime /\ CircuitOf(results, s, now) = late
      \/ CircuitOf(results, s, now) = PutOff(r, now)
  BY DEF CircuitOf
<1>4. CASE LateToday(now) # NoTime /\ CircuitOf(results, s, now) = late
  <2> HIDE DEF day, r
  <2>1. Follows([r EXCEPT !.late = TRUE, !.next = LateToday(now), !.seqDay = day], r, now)
    BY <1>1, <1>2, <1>4, LateFollows
  <2> QED BY <1>4, <2>1 DEF r
<1>5. CASE CircuitOf(results, s, now) = r
  BY <1>1, <1>5, FollowsSelf
<1>6. CASE CircuitOf(results, s, now) = PutOff(r, now)
  BY <1>1, <1>6, PutOffFollows
<1> QED BY <1>3, <1>4, <1>5, <1>6

LEMMA AttemptedFollows ==
  ASSUME NEW results \in [Sites -> Sound], NEW attempted, NEW previous \in [Sites -> Sound],
         NEW now \in Nat
  PROVE  /\ AdvanceAttempted(results, attempted, previous, now) \in [Sites -> Sound]
         /\ \A s \in Sites :
              Follows(AdvanceAttempted(results, attempted, previous, now)[s], results[s], now)
<1> DEFINE advanced == [s \in Sites |->
             IF s \in attempted
               THEN AdvanceDeferredRetry(DeferUnresolvedLogin(results[s], now), previous[s], now)
               ELSE results[s]]
<1>1. ASSUME NEW s \in Sites
      PROVE  advanced[s] \in Sound /\ Follows(advanced[s], results[s], now)
  <2>1. CASE s \in attempted
    <3> DEFINE d == DeferUnresolvedLogin(results[s], now)
               q == AdvanceDeferredRetry(d, previous[s], now)
    <3>1. Follows(d, results[s], now)
      BY DeferFollows
    <3>2. d \in Sound
      BY <3>1 DEF Follows
    <3> HIDE DEF d
    <3>3. Follows(q, d, now)
      BY <3>2, AdvanceFollows
    <3>4. Follows(q, results[s], now)
      <4> HIDE DEF q
      <4> QED BY <3>1, <3>3, FollowsTrans
    <3>5. advanced[s] = q
      BY <2>1 DEF d
    <3> QED BY <3>4, <3>5 DEF Follows
  <2>2. CASE s \notin attempted
    BY <2>2, FollowsSelf
  <2> QED BY <2>1, <2>2
<1>2. advanced \in [Sites -> Sound]
  BY <1>1
<1>3. AdvanceAttempted(results, attempted, previous, now) = [s \in Sites |-> CircuitOf(advanced, s, now)]
  BY DEF AdvanceAttempted, CircuitBreakers
<1> HIDE DEF advanced
<1>4. ASSUME NEW s \in Sites
      PROVE  Follows(CircuitOf(advanced, s, now), results[s], now)
  <2> DEFINE q == CircuitOf(advanced, s, now)
  <2>1. Follows(q, advanced[s], now)
    BY <1>2, CircuitFollows
  <2> HIDE DEF q
  <2>2. Follows(q, results[s], now)
    BY <1>1, <2>1, FollowsTrans
  <2> QED BY <2>2 DEF q
<1> QED BY <1>3, <1>4 DEF Follows

\* The final report settles no less than what the run took up or found.
LEMMA FinalFollows ==
  ASSUME EngineTyped, clock \in Nat
  PROVE  /\ Merged \in [Sites -> Sound] /\ FinalResults \in [Sites -> Sound]
         /\ \A s \in Sites : Follows(FinalResults[s], Merged[s], clock)
<1>1. eng.results \in [Sites -> Sound] /\ eng.base \in [Sites -> Sound]
  BY DEF EngineTyped, Engines
<1>2. Merged \in [Sites -> Sound]
  BY <1>1 DEF Merged
<1> QED BY <1>1, <1>2, AttemptedFollows DEF FinalResults

LEMMA ManualIsSound ==
  ASSUME NEW res \in [Sites -> Sound], NEW confirmed
  PROVE  /\ ApplyManual(res, confirmed) \in [Sites -> Sound]
         /\ \A s \in Sites :
              /\ Terminal(res[s]) => Terminal(ApplyManual(res, confirmed)[s])
              /\ ApplyManual(res, confirmed)[s].next \in {res[s].next, NoTime}
              /\ ~res[s].sub => ~ApplyManual(res, confirmed)[s].sub
<1>1. /\ Outcome("done", "none", FALSE) \in Sound
      /\ Outcome("done", "none", FALSE).next = NoTime
      /\ ~Outcome("done", "none", FALSE).sub
      /\ Terminal(Outcome("done", "none", FALSE))
  BY OutcomeIsSound DEF Causes, Terminal
<1> QED BY <1>1 DEF ApplyManual

-----------------------------------------------------------------------------
(* The engine.                                                             *)

\* What a step of the engine does to it at most: e is the engine after it.
Works(e) ==
  /\ e \in Engines(e.logins, e.tries)
  /\ e.on = eng.on /\ e.orphan = eng.orphan /\ e.resumed = eng.resumed
  /\ e.day = eng.day /\ e.plan = eng.plan /\ e.base = eng.base /\ e.only = eng.only
  /\ e.todo \subseteq eng.todo
  /\ \A s \in Sites : e.results[s] # eng.results[s] =>
       /\ NotBefore(e.results[s], eng.day)
       /\ eng.resumed /\ Terminal(eng.base[s]) => Terminal(e.results[s])
  /\ \A s \in e.queue : s \in eng.queue \/ eng.results[s].status \notin {"none", "done"}
  /\ e.stage = "login" => e.queue # {}

\* A day an engine runs on is over at the latest now.
Running == eng.on /\ clock \in Nat /\ eng.day <= Day(clock)

LEMMA WorksKeeps ==
  ASSUME EngineInv, eng.on, Works(eng'), latest' = latest
  PROVE  EngineInv'
<1> DEFINE e == eng'
<1>1. e.base \in [Sites -> Sound] /\ e.results \in [Sites -> Sound] /\ e.queue \subseteq Sites
  BY DEF Works, Engines
<1>2. e.on /\ e.on = eng.on
  BY DEF Works
<1>3. EngineTyped'
  BY DEF Works, EngineTyped
<1>4. EngineIsDown'
  BY <1>2 DEF EngineIsDown
<1>5. ResumedKeepsSettled'
  <2> SUFFICES ASSUME e.resumed, NEW s \in Sites
               PROVE  /\ Terminal(latest.res[s]) => Terminal(e.base[s])
                      /\ Terminal(e.base[s]) => /\ e.results[s].status \in {"none", "done"}
                                                /\ s \notin e.queue
                                                /\ s \in e.todo => Selects(e.only)
    BY DEF ResumedKeepsSettled
  <2>1. eng.resumed /\ e.base = eng.base /\ e.only = eng.only /\ e.todo \subseteq eng.todo
    BY DEF Works
  <2>2. /\ Terminal(latest.res[s]) => Terminal(eng.base[s])
        /\ Terminal(eng.base[s]) => /\ eng.results[s].status \in {"none", "done"}
                                    /\ s \notin eng.queue
                                    /\ s \in eng.todo => Selects(eng.only)
    BY <2>1 DEF EngineInv, ResumedKeepsSettled
  <2>3. ASSUME Terminal(e.base[s]) PROVE e.results[s].status \in {"none", "done"}
    BY <2>1, <2>2, <2>3 DEF Works, Terminal
  <2>4. ASSUME Terminal(e.base[s]) PROVE s \notin e.queue
    BY <2>1, <2>2, <2>4 DEF Works
  <2>5. ASSUME Terminal(e.base[s]), s \in e.todo PROVE Selects(e.only)
    BY <2>1, <2>2, <2>5
  <2> QED BY <2>1, <2>2, <2>3, <2>4, <2>5
<1>6. SomeoneWaits'
  BY DEF SomeoneWaits, Works
<1>7. OnlyIsOnly'
  BY DEF OnlyIsOnly, Works, EngineInv
<1>8. ResumedPlanIsFree'
  BY DEF ResumedPlanIsFree, Works, EngineInv
<1>9. EngineLooksAhead'
  <2>1. AllNotBefore(eng.results, eng.day)
    BY DEF EngineInv, EngineLooksAhead
  <2>2. AllNotBefore(e.results, e.day)
    BY <2>1 DEF Works, AllNotBefore
  <2>3. AllNotBefore(e.base, e.day)
    BY DEF Works, EngineInv, EngineLooksAhead
  <2> QED BY <2>2, <2>3 DEF EngineLooksAhead, AllNotBefore, NotBefore
<1> QED BY <1>3, <1>4, <1>5, <1>6, <1>7, <1>8, <1>9 DEF EngineInv

\* What a visit is recorded as.
LEMMA RecordEffect ==
  ASSUME EngineTyped, clock \in Nat, NEW s \in Sites, NEW r \in Sound
  PROVE  /\ Recorded(s, r) \in Engines(eng.logins, eng.tries)
         /\ Recorded(s, r) = [eng EXCEPT !.results = [eng.results EXCEPT ![s] = WithRetrySchedule(r, clock)],
                                       !.todo = eng.todo \ {s}]
<1> DEFINE w == WithRetrySchedule(r, clock)
           results == [eng.results EXCEPT ![s] = w]
           todo == eng.todo \ {s}
<1>1. w \in Sound
  BY ScheduleFollows DEF Follows
<1>2. eng \in Engines(eng.logins, eng.tries)
  BY DEF EngineTyped
<1>3. results \in [Sites -> Sound] /\ todo \in SUBSET Sites
  BY <1>1, <1>2 DEF Engines
<1>4. Recorded(s, r) = [eng EXCEPT !.results = results, !.todo = todo]
  BY DEF Recorded
<1> HIDE DEF results, todo
<1>5. [eng EXCEPT !.results = results, !.todo = todo] \in Engines(eng.logins, eng.tries)
  BY <1>2, <1>3 DEF Engines
<1> QED BY <1>4, <1>5 DEF results, todo

LEMMA RecordWorks ==
  ASSUME EngineInv, Running, NEW s \in Sites, NEW r \in Sound, NotBefore(r, eng.day),
         eng.resumed /\ Terminal(eng.base[s]) => Terminal(r)
  PROVE  /\ Works(Recorded(s, r))
         /\ Recorded(s, r).queue = eng.queue /\ Recorded(s, r).stage = eng.stage
<1> DEFINE w == WithRetrySchedule(r, clock)
           results == [eng.results EXCEPT ![s] = w]
           e == Recorded(s, r)
<1>0. EngineTyped /\ SomeoneWaits
  BY DEF EngineInv
<1>1. eng \in Engines(eng.logins, eng.tries) /\ e \in Engines(eng.logins, eng.tries)
  BY <1>0, RecordEffect DEF EngineTyped, Running
<1>2. e = [eng EXCEPT !.results = results, !.todo = eng.todo \ {s}]
  BY <1>0, RecordEffect DEF Running
<1>3. /\ e.on = eng.on /\ e.orphan = eng.orphan /\ e.resumed = eng.resumed
      /\ e.day = eng.day /\ e.plan = eng.plan /\ e.base = eng.base /\ e.only = eng.only
      /\ e.queue = eng.queue /\ e.stage = eng.stage /\ e.logins = eng.logins /\ e.tries = eng.tries
  BY <1>1, <1>2 DEF Engines
<1>4. e.todo = eng.todo \ {s} /\ e.results = results
  BY <1>1, <1>2 DEF Engines
<1>5. NotBefore(w, eng.day) /\ (Terminal(r) => Terminal(w))
  <2>1. Follows(w, r, clock)
    BY ScheduleFollows DEF Running
  <2>2. eng.day \in Int
    BY <1>1 DEF Engines, Days, NoTime
  <2> QED BY <2>1, <2>2, FollowsNotBefore DEF Running, Follows
<1>6. \A t \in Sites : results[t] = IF t = s THEN w ELSE eng.results[t]
  BY <1>1 DEF Engines
<1> HIDE DEF e, results, w
<1>7. \A t \in Sites : e.results[t] # eng.results[t] =>
       /\ NotBefore(e.results[t], eng.day)
       /\ eng.resumed /\ Terminal(eng.base[t]) => Terminal(e.results[t])
  BY <1>4, <1>5, <1>6
<1>8. Works(e)
  BY <1>0, <1>1, <1>3, <1>4, <1>7 DEF Works, SomeoneWaits
<1> QED BY <1>3, <1>8 DEF e

LEMMA EngineFields ==
  ASSUME EngineInv
  PROVE  /\ eng \in Engines(eng.logins, eng.tries) /\ eng.todo \subseteq Sites
         /\ eng.queue \subseteq Sites /\ eng.base \in [Sites -> Sound]
         /\ eng.results \in [Sites -> Sound] /\ eng.resumed \in BOOLEAN
  BY DEF EngineInv, EngineTyped, Engines

\* What a visit finds may be recorded of any site the run may visit.
LEMMA FoundWorks ==
  ASSUME EngineInv, Running, NEW s \in Sites, NEW r \in Outcomes[s],
         ~(eng.resumed /\ Terminal(eng.base[s]))
  PROVE  /\ Works(Recorded(s, r))
         /\ Recorded(s, r).queue = eng.queue /\ Recorded(s, r).stage = eng.stage
<1>1. r \in Sound /\ NotBefore(r, eng.day)
  BY VisitsAreSound DEF NotBefore
<1> QED BY <1>1, RecordWorks

LEMMA VisitWorks ==
  ASSUME EngineInv, Running, Visit
  PROVE  Works(eng')
<1> DEFINE s == Min(eng.todo \ Supplemental)
<1>1. s \in eng.todo /\ s \in Sites
  BY EngineFields, MinSite DEF Visit
<1>2. CASE Selects(eng.only) /\ Terminal(eng.base[s]) /\ eng' = Recorded(s, eng.base[s])
  <2> DEFINE r == eng.base[s]
  <2>1. r \in Sound
    BY <1>1, EngineFields
  <2>2. NotBefore(r, eng.day)
    BY <1>1 DEF EngineInv, EngineLooksAhead, Running, AllNotBefore
  <2> HIDE DEF s
  <2>3. Works(Recorded(s, r))
    BY <1>1, <1>2, <2>1, <2>2, RecordWorks
  <2> QED BY <1>2, <2>3
<1>3. CASE ~(Selects(eng.only) /\ Terminal(eng.base[s])) /\ \E r \in Outcomes[s] : eng' = Recorded(s, r)
  <2>1. ~(eng.resumed /\ Terminal(eng.base[s]))
    BY <1>1, <1>3 DEF EngineInv, ResumedKeepsSettled
  <2>2. PICK r \in Outcomes[s] : eng' = Recorded(s, r)
    BY <1>3
  <2> HIDE DEF s
  <2> QED BY <1>1, <2>1, <2>2, FoundWorks
<1> QED BY <1>2, <1>3 DEF Visit

LEMMA BeginRoundWorks ==
  ASSUME EngineInv, Running, BeginRound
  PROVE  Works(eng')
<1> DEFINE again == {s \in Visited \ Supplemental : RetryEligible(eng.results[s], clock)}
           tries == [s \in Sites |-> BaseTries(Group[s])]
           round == eng.round + 1
<1>0. eng \in Engines(eng.logins, eng.tries) /\ SomeoneWaits
  BY DEF EngineInv, EngineTyped
<1>1. again \in SUBSET Sites
  BY DEF Visited
<1>2. \A s \in again : eng.results[s].status \notin {"none", "done"}
  BY DEF RetryEligible
<1>3. CASE eng' = [eng EXCEPT !.stage = "supplement"]
  <2>1. eng' \in Engines(eng'.logins, eng'.tries)
    BY <1>0, <1>3 DEF Engines
  <2>2. /\ eng'.on = eng.on /\ eng'.orphan = eng.orphan /\ eng'.resumed = eng.resumed
        /\ eng'.day = eng.day /\ eng'.plan = eng.plan /\ eng'.base = eng.base /\ eng'.only = eng.only
        /\ eng'.queue = eng.queue /\ eng'.stage = "supplement"
        /\ eng'.todo = eng.todo /\ eng'.results = eng.results
    BY <1>0, <1>3 DEF Engines
  <2> QED BY <2>1, <2>2 DEF Works
<1>4. CASE again # {} /\ eng' = [eng EXCEPT !.stage = "login", !.queue = again, !.round = round,
                                 !.logins = Down.logins, !.tries = tries]
  <2> HIDE DEF again, tries
  <2>0. round \in Nat
    BY <1>0 DEF Engines
  <2> HIDE DEF round
  <2>1. eng' \in Engines(eng'.logins, eng'.tries)
    BY <1>0, <1>1, <1>4, <2>0 DEF Engines
  <2>2. /\ eng'.on = eng.on /\ eng'.orphan = eng.orphan /\ eng'.resumed = eng.resumed
        /\ eng'.day = eng.day /\ eng'.plan = eng.plan /\ eng'.base = eng.base /\ eng'.only = eng.only
        /\ eng'.queue = again /\ eng'.stage = "login"
        /\ eng'.todo = eng.todo /\ eng'.results = eng.results
    BY <1>0, <1>4 DEF Engines
  <2> QED BY <1>2, <1>4, <2>1, <2>2 DEF Works
<1> QED BY <1>3, <1>4 DEF BeginRound

LEMMA LoginHelpersWork ==
  ASSUME EngineInv, Running, LoginHelpers
  PROVE  Works(eng')
<1>0. eng \in Engines(eng.logins, eng.tries) /\ SomeoneWaits
  BY DEF EngineInv, EngineTyped
<1>1. PICK logins, tries : eng' = [eng EXCEPT !.logins = logins, !.tries = tries]
  <2>1. CASE \E o : eng' = [eng EXCEPT !.logins[Min(ToLogin)] = o]
    <3>1. PICK o : eng' = [eng EXCEPT !.logins[Min(ToLogin)] = o]
      BY <2>1
    <3> DEFINE logins == [eng.logins EXCEPT ![Min(ToLogin)] = o]
    <3>2. eng' = [eng EXCEPT !.logins = logins]
      BY <3>1
    <3> HIDE DEF logins
    <3>3. [eng EXCEPT !.logins = logins] = [eng EXCEPT !.logins = logins, !.tries = eng.tries]
      BY <1>0 DEF Engines
    <3> QED BY <3>2, <3>3
  <2>2. CASE \E o, t : eng' = [eng EXCEPT !.logins[Min(ToLogin)] = o, !.tries = t]
    BY <2>2
  <2> QED BY <2>1, <2>2 DEF LoginHelpers
<1>2. eng' \in Engines(eng'.logins, eng'.tries)
  BY <1>0, <1>1 DEF Engines
<1>3. /\ eng'.on = eng.on /\ eng'.orphan = eng.orphan /\ eng'.resumed = eng.resumed
      /\ eng'.day = eng.day /\ eng'.plan = eng.plan /\ eng'.base = eng.base /\ eng'.only = eng.only
      /\ eng'.queue = eng.queue /\ eng'.stage = eng.stage
      /\ eng'.todo = eng.todo /\ eng'.results = eng.results
  BY <1>0, <1>1 DEF Engines
<1> QED BY <1>0, <1>2, <1>3 DEF Works, SomeoneWaits

LEMMA RecheckWorks ==
  ASSUME EngineInv, Running, Recheck
  PROVE  Works(eng')
<1> DEFINE s == Min(eng.queue)
<1>1. s \in eng.queue /\ s \in Sites
  BY EngineFields, MinSite DEF EngineInv, SomeoneWaits, Recheck
<1>2. ~(eng.resumed /\ Terminal(eng.base[s]))
  BY <1>1 DEF EngineInv, ResumedKeepsSettled
<1>3. PICK r \in IF eng.logins[s] \in Settles THEN {AfterLogin(eng.logins[s])} ELSE Outcomes[s] :
        eng' = [Recorded(s, r) EXCEPT !.queue = @ \ {s},
                   !.stage = IF eng.queue = {s} THEN "visit" ELSE @]
  BY DEF Recheck
<1> HIDE DEF s
<1>4. Works(Recorded(s, r)) /\ Recorded(s, r).queue = eng.queue /\ Recorded(s, r).stage = eng.stage
  <2>1. CASE eng.logins[s] \in Settles
    <3>1. r = AfterLogin(eng.logins[s])
      BY <1>3, <2>1
    <3>2. \/ r = Outcome("done", "none", FALSE)
          \/ r = Outcome("attention", "none", FALSE)
          \/ r = Outcome("deferred", "rate", FALSE)
          \/ r = Outcome("deferred", "upstream", FALSE)
      BY <2>1, <3>1 DEF Settles, AfterLogin
    <3>3. \A o \in {"done", "attention", "deferred"}, c \in {"none", "rate", "upstream"} :
            Outcome(o, c, FALSE) \in Sound /\ Outcome(o, c, FALSE).next = NoTime
      <4>1. \A o \in {"done", "attention", "deferred"} :
              o \in {"none", "done", "retry", "login", "deferred", "attention", "weak"}
        OBVIOUS
      <4>2. {"none", "rate", "upstream"} \subseteq Causes
        BY DEF Causes
      <4> QED BY <4>1, <4>2, OutcomeIsSound
    <3>4. r \in Sound /\ r.next = NoTime
      BY <3>2, <3>3
    <3> QED BY <1>1, <1>2, <3>4, RecordWorks DEF NotBefore
  <2>2. CASE eng.logins[s] \notin Settles
    BY <1>1, <1>2, <1>3, <2>2, FoundWorks
  <2> QED BY <2>1, <2>2
<1> DEFINE e == Recorded(s, r)
           queue == eng.queue \ {s}
           stage == IF eng.queue = {s} THEN "visit" ELSE eng.stage
<1>5. eng' = [e EXCEPT !.queue = queue, !.stage = stage]
  BY <1>3, <1>4
<1>6. e \in Engines(e.logins, e.tries) /\ queue \in SUBSET Sites
  BY <1>4, EngineFields DEF Works
<1>7. stage \in {"visit", "login", "supplement"} /\ (stage = "login" => queue # {})
  BY EngineFields, <1>1 DEF Engines
<1> HIDE DEF e, stage
<1>8. eng' \in Engines(eng'.logins, eng'.tries)
  BY <1>5, <1>6, <1>7 DEF Engines
<1>9. /\ eng'.on = e.on /\ eng'.orphan = e.orphan /\ eng'.resumed = e.resumed
      /\ eng'.day = e.day /\ eng'.plan = e.plan /\ eng'.base = e.base /\ eng'.only = e.only
      /\ eng'.queue = queue /\ eng'.stage = stage
      /\ eng'.todo = e.todo /\ eng'.results = e.results
  BY <1>5, <1>6 DEF Engines
<1>10. Works(e)
  BY <1>4 DEF e
<1> QED BY <1>7, <1>8, <1>9, <1>10 DEF Works

LEMMA SupplementWorks ==
  ASSUME EngineInv, Running, Supplement
  PROVE  Works(eng')
<1> DEFINE s == Min(eng.todo)
<1>0. eng \in Engines(eng.logins, eng.tries) /\ SomeoneWaits
  BY DEF EngineInv, EngineTyped
<1>1. s \in eng.todo /\ s \in Sites
  BY EngineFields, MinSite DEF Supplement
<1> HIDE DEF s
<1>2. CASE eng' = [eng EXCEPT !.todo = @ \ {s}]
  <2> DEFINE todo == eng.todo \ {s}
  <2>1. todo \in SUBSET Sites /\ todo \subseteq eng.todo
    BY EngineFields
  <2>2. eng' = [eng EXCEPT !.todo = todo]
    BY <1>2
  <2> HIDE DEF todo
  <2>3. eng' \in Engines(eng'.logins, eng'.tries)
    BY <1>0, <2>1, <2>2 DEF Engines
  <2>4. /\ eng'.on = eng.on /\ eng'.orphan = eng.orphan /\ eng'.resumed = eng.resumed
        /\ eng'.day = eng.day /\ eng'.plan = eng.plan /\ eng'.base = eng.base /\ eng'.only = eng.only
        /\ eng'.queue = eng.queue /\ eng'.stage = eng.stage
        /\ eng'.todo = todo /\ eng'.results = eng.results
    BY <1>0, <2>2 DEF Engines
  <2> QED BY <1>0, <2>1, <2>3, <2>4 DEF Works, SomeoneWaits
<1>3. CASE ~Terminal(eng.base[s]) /\ \E r \in Outcomes[s] : eng' = Recorded(s, r)
  BY <1>1, <1>3, FoundWorks
<1> QED BY <1>2, <1>3 DEF Supplement, s, Terminal

LEMMA EngineStepWorks ==
  ASSUME EngineInv, Running, EngineStep
  PROVE  Works(eng')
  BY VisitWorks, BeginRoundWorks, LoginHelpersWork, RecheckWorks, SupplementWorks DEF EngineStep

-----------------------------------------------------------------------------
(* The engine and the report it leaves.                                    *)

LEMMA DownFields ==
  /\ Down \in Engines(Down.logins, Down.tries)
  /\ ~Down.on /\ ~Down.orphan /\ ~Down.resumed
  /\ Down.stage = "visit" /\ Down.only = NoSite /\ Down.day = NoTime
  /\ Down.results = Nothing /\ Down.base = Nothing /\ Down.queue = {} /\ Down.todo = {}
<1>1. Nothing \in [Sites -> Sound]
  BY NothingIsSound
<1> QED BY <1>1 DEF Down, Engines, Days

LEMMA DownKeeps == ASSUME eng' = Down PROVE EngineInv'
<1>1. EngineTyped'
  BY DownFields DEF EngineTyped
<1>2. EngineIsDown' /\ ResumedKeepsSettled' /\ SomeoneWaits'
  BY DownFields DEF EngineIsDown, ResumedKeepsSettled, SomeoneWaits
<1>3. OnlyIsOnly' /\ ResumedPlanIsFree' /\ EngineLooksAhead'
  BY DownFields DEF OnlyIsOnly, Selects, ResumedPlanIsFree, EngineLooksAhead
<1> QED BY <1>1, <1>2, <1>3 DEF EngineInv

LEMMA OrphanKeeps ==
  ASSUME EngineInv, eng.on, eng' = [eng EXCEPT !.orphan = TRUE], latest' = latest
  PROVE  /\ EngineInv' /\ eng'.on /\ eng'.orphan
         /\ eng'.day = eng.day /\ eng'.plan = eng.plan
<1>0. eng \in Engines(eng.logins, eng.tries)
  BY DEF EngineInv, EngineTyped
<1>1. EngineTyped'
  BY <1>0 DEF EngineTyped, Engines
<1>2. /\ eng'.on = eng.on /\ eng'.orphan = TRUE /\ eng'.resumed = eng.resumed
      /\ eng'.day = eng.day /\ eng'.plan = eng.plan /\ eng'.base = eng.base /\ eng'.only = eng.only
      /\ eng'.queue = eng.queue /\ eng'.stage = eng.stage
      /\ eng'.todo = eng.todo /\ eng'.results = eng.results
  BY <1>0 DEF Engines
<1>3. EngineIsDown' /\ ResumedKeepsSettled' /\ SomeoneWaits'
  BY <1>2 DEF EngineInv, EngineIsDown, ResumedKeepsSettled, SomeoneWaits
<1>4. OnlyIsOnly' /\ ResumedPlanIsFree' /\ EngineLooksAhead'
  BY <1>2 DEF EngineInv, OnlyIsOnly, ResumedPlanIsFree, EngineLooksAhead, AllNotBefore, NotBefore
<1> QED BY <1>1, <1>2, <1>3, <1>4 DEF EngineInv

\* An engine takes up the report of its own day, or none.
LEMMA StartEffect ==
  ASSUME WorldInv, NEW kind, NEW only \in Sites \cup {NoSite}, NEW confirm,
         confirm \in Sites \cup {NoSite}, EngineStart(kind, only, confirm),
         ResumeMatches(kind) => Day(clock) <= latest.day, latest' = latest
  PROVE  /\ EngineInv'
         /\ eng'.on /\ ~eng'.orphan /\ eng'.only = only /\ eng'.day = Day(clock) /\ eng'.plan = plan
         /\ eng'.resumed => /\ kind = "final"
                            /\ \A s \in Sites : ~latest.res[s].sub => ~eng'.base[s].sub
<1> DEFINE resumed == ResumeMatches(kind)
           confirmed == IF resumed /\ confirm # NoSite THEN {confirm} ELSE {}
           base == IF resumed THEN ApplyManual(latest.res, confirmed) ELSE Nothing
           ends == {s \in confirmed : ~Terminal(latest.res[s])}
           todo == Selected(only, resumed, base)
           day == Day(clock)
<1>1. eng' = [Down EXCEPT !.on = TRUE, !.day = day, !.plan = plan, !.resumed = resumed,
                          !.base = base, !.only = only, !.confirmed = ends, !.todo = todo]
  BY DEF EngineStart
<1>2. /\ clock \in Nat /\ plan \in Nat /\ latest.res \in [Sites -> Sound] /\ latest.day \in Int
      /\ day \in Nat
  BY DayOfTime DEF WorldInv, Reports, Days, NoTime
<1>3. resumed \in BOOLEAN /\ ends \in SUBSET Sites
  BY DEF ResumeMatches
<1>4. base \in [Sites -> Sound]
  BY <1>2, ManualIsSound, NothingIsSound
<1>5. todo \in SUBSET Sites
  BY DEF Selected, Selects
<1>6. AllNotBefore(base, day)
  <2>1. CASE ~resumed
    BY <2>1, NothingIsSound, NoResultIsSound DEF AllNotBefore, NotBefore
  <2>2. CASE resumed
    <3> SUFFICES ASSUME NEW s \in Sites, base[s].next # NoTime PROVE Day(base[s].next) >= day
      BY DEF AllNotBefore, NotBefore
    <3>1. base[s].next = latest.res[s].next
      BY <1>2, <2>2, ManualIsSound
    <3>2. Day(latest.res[s].next) >= latest.day
      BY <3>1 DEF WorldInv, ReportLooksAhead, AllNotBefore, NotBefore
    <3>3. latest.res[s].next \in Nat
      BY <1>2, <3>1 DEF Sound
    <3>4. Day(latest.res[s].next) \in Nat
      BY <3>3, DayOfTime
    <3> QED BY <1>2, <2>2, <3>1, <3>2, <3>4
  <2> QED BY <2>1, <2>2
<1>7. resumed => \A s \in Sites : /\ Terminal(latest.res[s]) => Terminal(base[s])
                                  /\ ~latest.res[s].sub => ~base[s].sub
  BY <1>2, ManualIsSound
<1>8. Selects(only) => todo \subseteq {only}
  BY DEF Selected
<1>9. resumed /\ ~Selects(only) => \A s \in todo : ~Terminal(base[s]) /\ ~base[s].sub
  <2> SUFFICES ASSUME resumed, ~Selects(only), NEW s \in todo
               PROVE  ~Terminal(base[s]) /\ ~base[s].sub
    OBVIOUS
  <2> HIDE DEF base
  <2>1. s \in Sites /\ (base[s].status = "none" \/ RetryEligible(base[s], clock))
    BY DEF Selected
  <2> QED BY <1>4, <2>1 DEF RetryEligible, Terminal, Sound
<1>10. resumed => kind = "final"
  BY DEF ResumeMatches
<1> HIDE DEF resumed, base, ends, todo, day
<1>11. Down \in Engines(Down.logins, Down.tries)
  BY DownFields
<1>12. eng' \in Engines(Down.logins, Down.tries)
  <2> DEFINE e == [Down EXCEPT !.on = TRUE, !.day = day, !.plan = plan, !.resumed = resumed]
             f == [e EXCEPT !.base = base, !.only = only]
  <2>1. day \in Days
    BY <1>2 DEF Days
  <2>2. e \in Engines(Down.logins, Down.tries)
    BY <1>2, <1>3, <1>11, <2>1 DEF Engines
  <2>3. eng' = [f EXCEPT !.confirmed = ends, !.todo = todo]
    BY <1>1
  <2> HIDE DEF e
  <2>4. f \in Engines(Down.logins, Down.tries)
    BY <1>4, <2>2 DEF Engines
  <2> HIDE DEF f
  <2> QED BY <1>3, <1>5, <2>3, <2>4 DEF Engines
<1>13. /\ eng'.on = TRUE /\ eng'.orphan = Down.orphan /\ eng'.resumed = resumed
       /\ eng'.day = day /\ eng'.plan = plan /\ eng'.base = base /\ eng'.only = only
       /\ eng'.queue = Down.queue /\ eng'.stage = Down.stage
       /\ eng'.todo = todo /\ eng'.results = Down.results
       /\ eng'.logins = Down.logins /\ eng'.tries = Down.tries
  BY <1>1, <1>11 DEF Engines
<1>14. EngineTyped' /\ EngineIsDown'
  BY <1>12, <1>13 DEF EngineTyped, EngineIsDown
<1>15. ResumedKeepsSettled'
  BY <1>7, <1>9, <1>13, DownFields, NothingIsSound, NoResultIsSound DEF ResumedKeepsSettled
<1>16. SomeoneWaits' /\ OnlyIsOnly' /\ ResumedPlanIsFree'
  BY <1>8, <1>9, <1>13, DownFields DEF SomeoneWaits, OnlyIsOnly, ResumedPlanIsFree
<1>17. EngineLooksAhead'
  BY <1>6, <1>13, DownFields, NothingIsSound, NoResultIsSound
  DEF EngineLooksAhead, AllNotBefore, NotBefore
<1>18. EngineInv'
  BY <1>14, <1>15, <1>16, <1>17 DEF EngineInv
<1> QED BY <1>7, <1>10, <1>13, <1>18, DownFields DEF day

\* The report of a run settles what the run took up settled, and plans nothing
\* for a day before its own.
LEMMA ReportEffect ==
  ASSUME WorldInv, FinishRun
  PROVE  /\ latest' \in Reports /\ latest'.day = eng.day /\ latest'.plan = eng.plan
         /\ AllNotBefore(latest'.res, latest'.day)
         /\ eng.resumed => \A s \in Sites : Terminal(latest.res[s]) => Terminal(latest'.res[s])
<1>1. EngineTyped /\ clock \in Nat /\ eng.on
  BY DEF WorldInv, EngineInv, FinishRun
<1>2. /\ eng.day \in Days /\ eng.day \in Int /\ eng.plan \in Nat
      /\ eng.base \in [Sites -> Sound] /\ eng.results \in [Sites -> Sound]
  BY <1>1 DEF EngineTyped, Engines, Days, NoTime
<1>3. latest' = [day |-> eng.day, plan |-> eng.plan, res |-> FinalResults]
  BY DEF FinishRun
<1>4. /\ Merged \in [Sites -> Sound] /\ FinalResults \in [Sites -> Sound]
      /\ \A s \in Sites : Follows(FinalResults[s], Merged[s], clock)
  BY <1>1, FinalFollows
<1>5. \A s \in Sites : Merged[s] = IF eng.results[s].status # "none" THEN eng.results[s] ELSE eng.base[s]
  BY DEF Merged, Visited
<1>6. latest' \in Reports /\ latest'.day = eng.day /\ latest'.plan = eng.plan /\ latest'.res = FinalResults
  BY <1>2, <1>3, <1>4 DEF Reports
<1> HIDE DEF FinalResults, Merged
<1>7. ASSUME NEW s \in Sites PROVE NotBefore(FinalResults[s], eng.day)
  <2>1. NotBefore(Merged[s], eng.day)
    BY <1>1, <1>5 DEF WorldInv, EngineInv, EngineLooksAhead, AllNotBefore
  <2>2. eng.day <= Day(clock)
    BY <1>1 DEF WorldInv, DaysAdvance
  <2> QED BY <1>1, <1>2, <1>4, <2>1, <2>2, FollowsNotBefore
<1>8. ASSUME eng.resumed, NEW s \in Sites, Terminal(latest.res[s])
      PROVE  Terminal(FinalResults[s])
  <2>1. Terminal(eng.base[s]) /\ eng.results[s].status \in {"none", "done"}
    BY <1>8 DEF WorldInv, EngineInv, ResumedKeepsSettled
  <2>2. Terminal(Merged[s])
    BY <1>5, <2>1 DEF Terminal
  <2> QED BY <1>4, <2>2 DEF Follows
<1> QED BY <1>6, <1>7, <1>8 DEF AllNotBefore

LEMMA SameWorld ==
  ASSUME WorldInv, UNCHANGED <<clock, plan, latest, eng>>
  PROVE  WorldInv'
<1>1. EngineTyped' /\ EngineIsDown' /\ ResumedKeepsSettled' /\ SomeoneWaits'
  BY DEF WorldInv, EngineInv, EngineTyped, EngineIsDown, ResumedKeepsSettled, SomeoneWaits
<1>2. OnlyIsOnly' /\ ResumedPlanIsFree' /\ EngineLooksAhead'
  BY DEF WorldInv, EngineInv, OnlyIsOnly, ResumedPlanIsFree, EngineLooksAhead, AllNotBefore,
         NotBefore
<1>3. ReportLooksAhead' /\ DaysAdvance'
  BY DEF WorldInv, ReportLooksAhead, DaysAdvance, AllNotBefore, NotBefore
<1> QED BY <1>1, <1>2, <1>3 DEF WorldInv, EngineInv

LEMMA SameEngine ==
  ASSUME WorldInv, UNCHANGED <<latest, eng>>
  PROVE  EngineInv'
<1>1. EngineTyped' /\ EngineIsDown' /\ ResumedKeepsSettled' /\ SomeoneWaits'
  BY DEF WorldInv, EngineInv, EngineTyped, EngineIsDown, ResumedKeepsSettled, SomeoneWaits
<1>2. OnlyIsOnly' /\ ResumedPlanIsFree' /\ EngineLooksAhead'
  BY DEF WorldInv, EngineInv, OnlyIsOnly, ResumedPlanIsFree, EngineLooksAhead, AllNotBefore,
         NotBefore
<1> QED BY <1>1, <1>2 DEF EngineInv

\* The report and the calendar stay, and the engine is the same one or none.
LEMMA SameReport ==
  ASSUME WorldInv, UNCHANGED <<clock, plan, latest>>, EngineInv',
         eng'.on => eng.on /\ eng'.day = eng.day /\ eng'.plan = eng.plan
  PROVE  WorldInv'
<1>1. ReportLooksAhead' /\ DaysAdvance'
  BY DEF WorldInv, ReportLooksAhead, DaysAdvance, AllNotBefore, NotBefore
<1> QED BY <1>1 DEF WorldInv

LEMMA NumbersTyped ==
  ASSUME WorldInv
  PROVE  /\ clock \in Nat /\ plan \in Nat /\ Day(clock) \in Nat /\ latest \in Reports
         /\ latest.day \in Days /\ latest.day \in Int /\ latest.plan \in Nat
         /\ latest.res \in [Sites -> Sound]
         /\ eng.day \in Days /\ eng.day \in Int /\ eng.plan \in Nat /\ eng.on \in BOOLEAN
         /\ eng.orphan \in BOOLEAN
  BY DayOfTime DEF WorldInv, EngineInv, EngineTyped, Engines, Reports, Days, NoTime

LEMMA StartAttemptStarts ==
  ASSUME WorldInv, WrapInv, StartAttempt, wrap'.pc = "engine"
  PROVE  /\ ~eng.on /\ EngineInv'
         /\ eng'.on /\ ~eng'.orphan /\ eng'.only = wrap.only
         /\ eng'.day = Day(clock) /\ eng'.plan = plan
         /\ eng'.resumed => /\ wrap.base = "final"
                            /\ \A s \in Sites : ~latest.res[s].sub => ~eng'.base[s].sub
<1>1. wrap.pc = "attempt" /\ wrap.only \in Sites \cup {NoSite} /\ wrap.confirm \in Sites \cup {NoSite}
  BY DEF StartAttempt, WrapInv, WrapTyped
<1>2. /\ ~eng.on /\ ~ResumeRefused(wrap.base, wrap.day, wrap.only, wrap.confirm)
      /\ EngineStart(wrap.base, wrap.only, wrap.confirm)
  <2>1. CASE eng.on \/ ResumeRefused(wrap.base, wrap.day, wrap.only, wrap.confirm)
    <3>1. wrap' = [wrap EXCEPT !.pc = "after", !.code = 1, !.fresh = "none"]
      BY <2>1 DEF StartAttempt
    <3>2. wrap'.pc = "after"
      BY <3>1 DEF WrapInv, WrapTyped
    <3> QED BY <3>2
  <2>2. CASE ~(eng.on \/ ResumeRefused(wrap.base, wrap.day, wrap.only, wrap.confirm))
    BY <2>2 DEF StartAttempt
  <2> QED BY <2>1, <2>2
<1>3. ResumeMatches(wrap.base) => Day(clock) <= latest.day
  BY <1>1, <1>2 DEF ResumeMatches, ResumeRefused, WrapInv, BaseIsNotNewer
<1>4. latest' = latest
  BY DEF StartAttempt
<1> QED BY <1>1, <1>2, <1>3, <1>4, StartEffect

LEMMA StartAttemptRefused ==
  ASSUME WorldInv, WrapInv, StartAttempt, wrap'.pc # "engine"
  PROVE  /\ UNCHANGED <<clock, plan, latest, eng>>
         /\ wrap' = [wrap EXCEPT !.pc = "after", !.code = 1, !.fresh = "none"]
<1>1. CASE eng.on \/ ResumeRefused(wrap.base, wrap.day, wrap.only, wrap.confirm)
  BY <1>1 DEF StartAttempt
<1>2. CASE ~(eng.on \/ ResumeRefused(wrap.base, wrap.day, wrap.only, wrap.confirm))
  <2>1. wrap' = [wrap EXCEPT !.pc = "engine", !.fresh = "none"]
    BY <1>2 DEF StartAttempt
  <2>2. wrap'.pc = "engine"
    BY <2>1 DEF WrapInv, WrapTyped
  <2> QED BY <2>2
<1> QED BY <1>1, <1>2

\* What becomes of the engine when its scheduler fails.
LEMMA FailureEffect ==
  ASSUME SchedulerFails
  PROVE  \/ eng' = eng
         \/ eng' = Down
         \/ eng.on /\ eng' = [eng EXCEPT !.orphan = TRUE]
  BY DEF SchedulerFails

LEMMA WorldNext ==
  ASSUME WorldInv, WrapInv, [DayNext]_dayVars
  PROVE  WorldInv'
<1>0. /\ clock \in Nat /\ plan \in Nat /\ Day(clock) \in Nat /\ latest \in Reports
      /\ latest.day \in Int /\ latest.plan \in Nat
      /\ eng.day \in Int /\ eng.plan \in Nat
  BY NumbersTyped
<1> USE <1>0
<1>1. CASE WrapperStart \/ AfterAttempt \/ Scheduler \/ OperatorRuns \/ UNCHANGED dayVars
  <2>1. UNCHANGED <<clock, plan, latest, eng>>
    BY <1>1 DEF WrapperStart, AfterAttempt, Scheduler, Look, Decide, Collect, OperatorRuns, dayVars
  <2> QED BY <2>1, SameWorld
<1>2. CASE StartAttempt
  <2>1. CASE wrap'.pc = "engine"
    <3>1. UNCHANGED <<clock, plan, latest>>
      BY <1>2 DEF StartAttempt
    <3>2. /\ ~eng.on /\ EngineInv' /\ eng'.on /\ eng'.day = Day(clock) /\ eng'.plan = plan
      BY <1>2, <2>1, StartAttemptStarts
    <3>3. DaysAdvance'
      BY <3>1, <3>2 DEF WorldInv, DaysAdvance
    <3>4. ReportLooksAhead'
      BY <3>1 DEF WorldInv, ReportLooksAhead, AllNotBefore, NotBefore
    <3> QED BY <3>1, <3>2, <3>3, <3>4 DEF WorldInv
  <2>2. CASE wrap'.pc # "engine"
    BY <1>2, <2>2, StartAttemptRefused, SameWorld
  <2> QED BY <2>1, <2>2
<1>3. CASE EngineStep
  <2>1. UNCHANGED <<clock, plan, latest>> /\ eng.on
    BY <1>3 DEF EngineStep, Visit, BeginRound, LoginHelpers, Recheck, Supplement
  <2>2. EngineInv /\ Running
    BY <2>1 DEF WorldInv, DaysAdvance, Running
  <2>3. Works(eng')
    BY <1>3, <2>2, EngineStepWorks
  <2>4. EngineInv'
    BY <2>1, <2>2, <2>3, WorksKeeps
  <2> QED BY <2>1, <2>3, <2>4, SameReport DEF Works
<1>4. CASE EngineReports
  <2>1. FinishRun /\ eng' = Down /\ eng.on /\ UNCHANGED <<clock, plan>>
    BY <1>4 DEF EngineReports, FinishRun
  <2>2. EngineInv'
    BY <2>1, DownKeeps
  <2>3. latest' \in Reports /\ latest'.day = eng.day /\ latest'.plan = eng.plan /\ ReportLooksAhead'
    BY <2>1, ReportEffect DEF ReportLooksAhead, AllNotBefore, NotBefore
  <2>4. DaysAdvance'
    BY <2>1, <2>3, DownFields DEF WorldInv, DaysAdvance
  <2> QED BY <2>1, <2>2, <2>3, <2>4 DEF WorldInv
<1>5. CASE EngineDies \/ Restart
  <2>1. UNCHANGED <<clock, plan, latest>> /\ eng' = Down
    BY <1>5 DEF EngineDies, Restart
  <2> QED BY <2>1, DownKeeps, DownFields, SameReport
<1>6. CASE EngineOutlives
  <2>1. UNCHANGED <<clock, plan, latest>> /\ eng.on /\ eng' = [eng EXCEPT !.orphan = TRUE]
    BY <1>6 DEF EngineOutlives
  <2>2. EngineInv
    BY DEF WorldInv
  <2> QED BY <2>1, <2>2, OrphanKeeps, SameReport
<1>7. CASE SchedulerFails
  <2>1. UNCHANGED <<clock, plan, latest>>
    BY <1>7 DEF SchedulerFails
  <2>2. EngineInv
    BY DEF WorldInv
  <2>3. CASE eng' = eng
    BY <2>1, <2>3, SameWorld
  <2>4. CASE eng' = Down
    BY <2>1, <2>4, DownKeeps, DownFields, SameReport
  <2>5. CASE eng.on /\ eng' = [eng EXCEPT !.orphan = TRUE]
    BY <2>1, <2>2, <2>5, OrphanKeeps, SameReport
  <2> QED BY <1>7, <2>3, <2>4, <2>5, FailureEffect
<1>8. CASE PlanChange
  <2>1. UNCHANGED <<clock, latest, eng>> /\ plan' = plan + 1
    BY <1>8 DEF PlanChange
  <2>2. EngineInv' /\ ReportLooksAhead'
    BY <2>1, SameEngine DEF WorldInv, ReportLooksAhead, AllNotBefore, NotBefore
  <2>3. DaysAdvance'
    BY <2>1 DEF WorldInv, DaysAdvance
  <2> QED BY <2>1, <2>2, <2>3 DEF WorldInv
<1>9. CASE Tick
  <2>1. UNCHANGED <<plan, latest, eng>> /\ clock' = clock + 1
    BY <1>9 DEF Tick
  <2>2. EngineInv' /\ ReportLooksAhead'
    BY <2>1, SameEngine DEF WorldInv, ReportLooksAhead, AllNotBefore, NotBefore
  <2>3. clock' \in Nat /\ Day(clock) <= Day(clock') /\ Day(clock') \in Nat
    BY <2>1, DayMonotone, DayOfTime
  <2>4. DaysAdvance'
    BY <2>1, <2>3 DEF WorldInv, DaysAdvance
  <2> QED BY <2>1, <2>2, <2>3, <2>4 DEF WorldInv
<1> QED BY <1>1, <1>2, <1>3, <1>4, <1>5, <1>6, <1>7, <1>8, <1>9
        DEF DayNext, Scheduler, Wrapper, EngineWorks, Faults

-----------------------------------------------------------------------------
(* The wrapper.                                                            *)

\* The earliest of the results that are due is one of them.
LEMMA EarliestIsDue ==
  ASSUME NEW res \in [Sites -> Sound], NEW due \in SUBSET Deferred(res), due # {}
  PROVE  Earliest(due, res) \in due
<1> DEFINE T == {res[s].next : s \in due}
           first == {s \in due : \A x \in due : res[s].next <= res[x].next}
<1>1. due \subseteq Sites /\ \A s \in due : res[s].next \in Nat
  BY DEF Deferred, Sound
<1>2. T \subseteq Nat /\ T # {}
  BY <1>1
<1>3. Min(T) \in T /\ \A y \in T : Min(T) <= y
  <2> HIDE DEF T
  <2> QED BY <1>2, MinIn
<1>4. PICK s \in due : res[s].next = Min(T)
  BY <1>3
<1>5. s \in first
  BY <1>3, <1>4
<1>6. first \subseteq Sites
  BY <1>1
<1>7. Min(first) \in first
  <2> HIDE DEF first
  <2> QED BY <1>5, <1>6, MinSite
<1>8. Earliest(due, res) = Min(first)
  BY DEF Earliest
<1> QED BY <1>7, <1>8

LEMMA EarliestIsSite ==
  ASSUME NEW res \in [Sites -> Sound], NEW due \in SUBSET Deferred(res)
  PROVE  /\ Earliest(due, res) \in Sites \cup {NoSite}
         /\ Earliest(due, res) # NoSite => Earliest(due, res) \in due
<1>1. CASE due = {}
  BY <1>1 DEF Earliest
<1>2. CASE due # {}
  BY <1>2, EarliestIsDue DEF Deferred
<1> QED BY <1>1, <1>2

LEMMA DueIsDeferred ==
  ASSUME NEW st, NEW res, NEW t
  PROVE  Due(st, res, t) \subseteq Deferred(res)
  BY DEF Due

\* A new wrapper, or none because one is there.
Started(by, only, confirm) ==
  /\ wrap.pc = "off"
  /\ wrap' = [Off EXCEPT !.pc = "start", !.by = by, !.only = only, !.confirm = confirm]

LEMMA StartedFields ==
  ASSUME NEW by \in {"scheduler", "operator"}, NEW only \in Sites \cup {NoSite},
         NEW confirm \in Sites \cup {NoSite}, Started(by, only, confirm)
  PROVE  /\ WrapTyped'
         /\ wrap'.pc = "start" /\ wrap'.by = by /\ wrap'.only = only
         /\ wrap'.base = "none" /\ wrap'.fresh = "none"
  BY DEF Started, WrapTyped, Off, Days

LEMMA StartWrapperEffect ==
  ASSUME NEW by, NEW only, NEW confirm, StartWrapper(by, only, confirm)
  PROVE  wrap' = wrap \/ Started(by, only, confirm)
  BY DEF StartWrapper, Started

\* What the scheduler makes of a report: a site it wakes is due in it.
LEMMA DecideWakes ==
  ASSUME loop.view \in Reports, Decide, wrap' # wrap
  PROVE  \E st :
           LET res == loop.view.res
               valid == Valid(loop.view, loop.now, loop.plan)
               wake == IF valid THEN Earliest(Due(st, res, loop.now), res) ELSE NoSite
           IN  Launch(st, wake, res, {})
<1> DEFINE res == loop.view.res
           valid == Valid(loop.view, loop.now, loop.plan)
           known == IF PlanChanged THEN FreshState(loop.plan) ELSE sched
           sync == valid /\ NeedsSync(known, res, PlanChanged \/ loop.unread)
           synced == IF sync THEN WriteState(known, loop.now, TRUE, res) ELSE known
           auto == Cardinality(AutomaticRetries(res))
           attentionOnly == valid /\ auto = 0 /\ Problems(res) # {}
           st == IF attentionOnly THEN [synced EXCEPT !.next = NoTime] ELSE synced
           wake == IF valid THEN Earliest(Due(st, res, loop.now), res) ELSE NoSite
<1>1. Launch(st, wake, res, {})
  BY DEF Decide
<1> HIDE DEF st
<1> QED BY <1>1

LEMMA SchedulerStarts ==
  ASSUME latest \in Reports, LoopTyped, Scheduler, wrap' # wrap
  PROVE  \E wake \in Sites \cup {NoSite} : Started("scheduler", wake, NoSite) /\ loop'.pc = "running"
<1>0. latest.res \in [Sites -> Sound] /\ loop.view \in Reports /\ loop.view.res \in [Sites -> Sound]
  BY DEF LoopTyped, Reports
<1>1. CASE Decide
  <2>1. PICK st :
           LET res == loop.view.res
               valid == Valid(loop.view, loop.now, loop.plan)
               wake == IF valid THEN Earliest(Due(st, res, loop.now), res) ELSE NoSite
           IN  Launch(st, wake, res, {})
    BY <1>0, <1>1, DecideWakes
  <2> DEFINE res == loop.view.res
             wake == IF Valid(loop.view, loop.now, loop.plan)
                       THEN Earliest(Due(st, res, loop.now), res) ELSE NoSite
  <2>2. wake \in Sites \cup {NoSite}
    BY <1>0, DueIsDeferred, EarliestIsSite
  <2>3. Launch(st, wake, res, {})
    BY <2>1
  <2> HIDE DEF wake
  <2>4. StartWrapper("scheduler", wake, NoSite)
    BY <2>3 DEF Launch
  <2>5. loop' = [loop EXCEPT !.pc = "running", !.wake = wake, !.drained = {},
                                !.fresh = FALSE, !.view = NoReport]
    BY <2>3 DEF Launch
  <2>6. loop'.pc = "running"
    BY <2>5 DEF LoopTyped
  <2> QED BY <2>2, <2>4, <2>6, StartWrapperEffect
<1>2. CASE Collect
  <2> DEFINE ok == loop.fresh /\ Valid(latest, clock, loop.plan)
             st == WriteState(sched, clock, ok, latest.res)
             drained == loop.drained \cup {loop.wake}
             due == IF ok THEN DrainWakeups(st, drained) ELSE {}
             next == Earliest(due, latest.res)
  <2>1. Launch(st, next, latest.res, drained)
    BY <1>2 DEF Collect
  <2>2. due \in SUBSET Deferred(latest.res)
    BY DueIsDeferred DEF DrainWakeups
  <2> HIDE DEF due, st, drained
  <2>3. next \in Sites \cup {NoSite}
    BY <1>0, <2>2, EarliestIsSite
  <2> HIDE DEF next
  <2>4. StartWrapper("scheduler", next, NoSite)
    BY <2>1 DEF Launch
  <2>5. loop' = [loop EXCEPT !.pc = "running", !.wake = next, !.drained = drained,
                                !.fresh = FALSE, !.view = NoReport]
    BY <2>1 DEF Launch
  <2>6. loop'.pc = "running"
    BY <2>5 DEF LoopTyped
  <2> QED BY <2>3, <2>4, <2>6, StartWrapperEffect
<1>3. CASE Look
  BY <1>3 DEF Look
<1> QED BY <1>1, <1>2, <1>3 DEF Scheduler

\* The wrapper stays, and so does what it relies on.
LEMMA SameWrap ==
  ASSUME WorldInv, WrapInv, wrap' = wrap, latest.day <= latest'.day, latest'.day \in Int,
         wrap.pc = "engine" => eng'.on /\ ~eng'.orphan /\ eng'.only = eng.only,
         wrap.pc # "engine" => ~(eng'.on /\ ~eng'.orphan)
  PROVE  WrapInv'
<1>1. wrap.day \in Int /\ latest.day \in Int
  BY NumbersTyped DEF WrapInv, WrapTyped, Days, NoTime
<1>2. WrapTyped' /\ StartHasNoBase'
  BY DEF WrapInv, WrapTyped, StartHasNoBase
<1>3. OneWrapperDrives' /\ DrivenEngine'
  BY DEF WrapInv, OneWrapperDrives, DrivenEngine
<1>4. BaseIsNotNewer'
  BY <1>1 DEF WrapInv, BaseIsNotNewer
<1> QED BY <1>2, <1>3, <1>4 DEF WrapInv

LEMMA NewWrap ==
  ASSUME WrapInv, NEW by \in {"scheduler", "operator"}, NEW only \in Sites \cup {NoSite},
         NEW confirm \in Sites \cup {NoSite}, Started(by, only, confirm), UNCHANGED eng
  PROVE  WrapInv'
<1>1. /\ WrapTyped' /\ wrap'.pc = "start" /\ wrap'.base = "none" /\ wrap'.fresh = "none"
      /\ wrap.pc = "off"
  BY StartedFields DEF Started
<1> QED BY <1>1 DEF WrapInv, OneWrapperDrives, DrivenEngine, StartHasNoBase, BaseIsNotNewer

LEMMA OffFields == Off.pc = "off" /\ (wrap' = Off => WrapTyped')
  BY DEF Off, WrapTyped, Days

\* Without a wrapper no engine is driven.
LEMMA NoWrap ==
  ASSUME wrap' = Off, ~(eng'.on /\ ~eng'.orphan)
  PROVE  WrapInv'
<1>1. WrapTyped' /\ wrap'.pc = "off"
  BY OffFields
<1> QED BY <1>1 DEF WrapInv, OneWrapperDrives, DrivenEngine, StartHasNoBase, BaseIsNotNewer

LEMMA WrapFields ==
  ASSUME WrapInv
  PROVE  /\ wrap \in [pc : {"off", "start", "attempt", "engine", "after"},
                      by : {"none", "scheduler", "operator"}, only : Sites \cup {NoSite},
                      confirm : Sites \cup {NoSite}, attempt : Nat,
                      base : {"none", "final", "progress"}, day : Days,
                      fresh : {"none", "final", "progress"}, code : {0, 1, 2}]
         /\ wrap.day \in Int
  BY DEF WrapInv, WrapTyped, Days, NoTime

LEMMA WrapperStartWrap ==
  ASSUME WorldInv, WrapInv, WrapperStart
  PROVE  /\ UNCHANGED <<latest, eng>>
         /\ \/ wrap' = Off
            \/ /\ WrapTyped' /\ wrap'.pc = "attempt" /\ wrap'.day = latest.day
               /\ wrap'.by = wrap.by /\ wrap'.only = wrap.only
<1>1. UNCHANGED <<latest, eng>>
  BY DEF WrapperStart
<1>2. CASE wrap' = Off
  BY <1>1, <1>2
<1>3. CASE wrap' # Off
  <2>1. PICK base \in {"final", "none"} :
          wrap' = [wrap EXCEPT !.pc = "attempt", !.attempt = 1, !.day = latest.day, !.base = base]
    BY <1>3 DEF WrapperStart
  <2>2. WrapTyped'
    BY <2>1, WrapFields, NumbersTyped DEF WrapTyped
  <2>3. /\ wrap'.pc = "attempt" /\ wrap'.day = latest.day
        /\ wrap'.by = wrap.by /\ wrap'.only = wrap.only
    BY <2>1, WrapFields
  <2> QED BY <1>1, <2>2, <2>3
<1> QED BY <1>2, <1>3

LEMMA StartAttemptWrap ==
  ASSUME WrapInv, StartAttempt
  PROVE  /\ WrapTyped' /\ latest' = latest /\ wrap.pc = "attempt" /\ wrap'.pc \in {"after", "engine"}
         /\ wrap'.fresh = "none" /\ wrap'.base = wrap.base /\ wrap'.day = wrap.day
         /\ wrap'.by = wrap.by /\ wrap'.only = wrap.only
<1>1. \/ wrap' = [wrap EXCEPT !.pc = "after", !.code = 1, !.fresh = "none"]
      \/ wrap' = [wrap EXCEPT !.pc = "engine", !.fresh = "none"]
  BY DEF StartAttempt
<1>2. latest' = latest /\ wrap.pc = "attempt"
  BY DEF StartAttempt
<1>3. CASE wrap' = [wrap EXCEPT !.pc = "after", !.code = 1, !.fresh = "none"]
  <2>1. WrapTyped'
    BY <1>3, WrapFields DEF WrapTyped
  <2>2. /\ wrap'.pc = "after" /\ wrap'.fresh = "none" /\ wrap'.base = wrap.base
        /\ wrap'.day = wrap.day /\ wrap'.by = wrap.by /\ wrap'.only = wrap.only
    BY <1>3, WrapFields
  <2> QED BY <1>2, <2>1, <2>2
<1>4. CASE wrap' = [wrap EXCEPT !.pc = "engine", !.fresh = "none"]
  <2>1. WrapTyped'
    BY <1>4, WrapFields DEF WrapTyped
  <2>2. /\ wrap'.pc = "engine" /\ wrap'.fresh = "none" /\ wrap'.base = wrap.base
        /\ wrap'.day = wrap.day /\ wrap'.by = wrap.by /\ wrap'.only = wrap.only
    BY <1>4, WrapFields
  <2> QED BY <1>2, <2>1, <2>2
<1> QED BY <1>1, <1>3, <1>4

\* An orphan's report leaves the wrapper where it stands, an engine's own
\* report sends its wrapper on.
LEMMA EngineReportsWrap ==
  ASSUME WorldInv, WrapInv, EngineReports
  PROVE  /\ eng.on /\ eng' = Down /\ latest'.day = eng.day
         /\ \/ wrap.pc = "off" /\ wrap' = wrap
            \/ /\ wrap.pc # "off" /\ WrapTyped' /\ wrap'.fresh = "final" /\ wrap'.day = eng.day
               /\ wrap'.base = wrap.base /\ wrap'.by = wrap.by /\ wrap'.only = wrap.only
               /\ wrap'.pc = IF eng.orphan THEN wrap.pc ELSE "after"
<1>1. eng.on /\ eng' = Down /\ latest'.day = eng.day
  BY ReportEffect DEF EngineReports, FinishRun
<1>2. CASE wrap.pc = "off"
  BY <1>1, <1>2 DEF EngineReports
<1>3. CASE wrap.pc # "off"
  <2> DEFINE after == IF eng.orphan THEN wrap.pc ELSE "after"
             code == IF eng.orphan THEN wrap.code
                                ELSE IF AllTerminal(FinalResults, eng.only) THEN 0 ELSE 2
             day == eng.day
  <2>1. wrap' = [wrap EXCEPT !.fresh = "final", !.day = day, !.pc = after, !.code = code]
    BY <1>3 DEF EngineReports
  <2>2. after \in {"off", "start", "attempt", "engine", "after"} /\ code \in {0, 1, 2} /\ day \in Days
    BY WrapFields, NumbersTyped
  <2>3. after = IF eng.orphan THEN wrap.pc ELSE "after"
    OBVIOUS
  <2> HIDE DEF after, code, day
  <2>4. WrapTyped'
    BY <2>1, <2>2, WrapFields DEF WrapTyped
  <2>5. /\ wrap'.fresh = "final" /\ wrap'.day = day /\ wrap'.pc = after
        /\ wrap'.base = wrap.base /\ wrap'.by = wrap.by /\ wrap'.only = wrap.only
    BY <2>1, WrapFields
  <2> QED BY <1>1, <1>3, <2>3, <2>4, <2>5 DEF day
<1> QED BY <1>2, <1>3

LEMMA EngineDiesWrap ==
  ASSUME WorldInv, WrapInv, EngineDies
  PROVE  /\ eng' = Down /\ latest' = latest /\ wrap.pc = "engine"
         /\ WrapTyped' /\ wrap'.pc = "after" /\ wrap'.base = wrap.base
         /\ wrap'.by = wrap.by /\ wrap'.only = wrap.only
         /\ \/ wrap'.fresh = "progress"
            \/ wrap'.fresh = "none" /\ wrap'.day = wrap.day
<1>1. eng' = Down /\ latest' = latest /\ wrap.pc = "engine"
  BY DEF EngineDies
<1>2. PICK kept \in BOOLEAN :
        wrap' = [wrap EXCEPT !.pc = "after", !.code = 1,
                    !.fresh = IF kept THEN "progress" ELSE "none",
                    !.day = IF kept THEN eng.day ELSE @]
  <2>1. CASE Visited = {}
    BY <2>1 DEF EngineDies
  <2>2. CASE Visited # {}
    BY <2>2 DEF EngineDies
  <2> QED BY <2>1, <2>2
<1> DEFINE fresh == IF kept THEN "progress" ELSE "none"
           day == IF kept THEN eng.day ELSE wrap.day
<1>3. wrap' = [wrap EXCEPT !.pc = "after", !.code = 1, !.fresh = fresh, !.day = day]
  BY <1>2
<1>4. fresh \in {"progress", "none"} /\ day \in Days /\ (fresh = "none" => day = wrap.day)
  BY WrapFields, NumbersTyped
<1> HIDE DEF fresh, day
<1>5. WrapTyped'
  BY <1>3, <1>4, WrapFields DEF WrapTyped
<1>6. /\ wrap'.fresh = fresh /\ wrap'.day = day /\ wrap'.pc = "after"
      /\ wrap'.base = wrap.base /\ wrap'.by = wrap.by /\ wrap'.only = wrap.only
  BY <1>3, WrapFields
<1> QED BY <1>1, <1>4, <1>5, <1>6

LEMMA AfterAttemptWrap ==
  ASSUME WrapInv, AfterAttempt
  PROVE  /\ UNCHANGED <<latest, eng>> /\ wrap.pc = "after"
         /\ \/ wrap' = Off
            \/ /\ WrapTyped' /\ wrap'.pc = "attempt" /\ wrap'.day = wrap.day
               /\ wrap'.by = wrap.by /\ wrap'.only = wrap.only
               /\ wrap'.base = IF wrap.fresh = "none" THEN wrap.base ELSE wrap.fresh
               /\ ImmediateRetry(wrap'.base, wrap.only)
<1> DEFINE base == IF wrap.fresh = "none" THEN wrap.base ELSE wrap.fresh
           attempt == wrap.attempt + 1
<1>1. UNCHANGED <<latest, eng>> /\ wrap.pc = "after"
  BY DEF AfterAttempt
<1>2. CASE wrap' = Off
  BY <1>1, <1>2
<1>3. CASE wrap' # Off
  <2>1. ImmediateRetry(base, wrap.only)
    BY <1>3 DEF AfterAttempt
  <2>2. wrap' = [wrap EXCEPT !.pc = "attempt", !.attempt = attempt, !.base = base]
    BY <1>3 DEF AfterAttempt
  <2>3. base \in {"none", "final", "progress"} /\ attempt \in Nat
    BY WrapFields
  <2>4. base = IF wrap.fresh = "none" THEN wrap.base ELSE wrap.fresh
    OBVIOUS
  <2> HIDE DEF base, attempt
  <2>5. WrapTyped'
    BY <2>2, <2>3, WrapFields DEF WrapTyped
  <2>6. /\ wrap'.pc = "attempt" /\ wrap'.day = wrap.day /\ wrap'.base = base
        /\ wrap'.by = wrap.by /\ wrap'.only = wrap.only
    BY <2>2, WrapFields
  <2> QED BY <1>1, <2>1, <2>4, <2>5, <2>6
<1> QED BY <1>2, <1>3

LEMMA WrapNext ==
  ASSUME WorldInv, WrapInv, LoopTyped, [DayNext]_dayVars
  PROVE  WrapInv'
<1>0. /\ latest.day \in Int /\ latest'.day \in Int /\ eng.on \in BOOLEAN /\ eng.orphan \in BOOLEAN
      /\ latest \in Reports
  <2>1. WorldInv'
    BY WorldNext
  <2>2. latest' \in Reports
    BY <2>1 DEF WorldInv
  <2> QED BY <2>2, NumbersTyped DEF Reports, Days, NoTime
<1>1. CASE WrapperStart
  <2>1. /\ UNCHANGED <<latest, eng>>
        /\ \/ wrap' = Off
           \/ /\ WrapTyped' /\ wrap'.pc = "attempt" /\ wrap'.day = latest.day
    BY <1>1, WrapperStartWrap
  <2>2. wrap.pc = "start" /\ ~(eng.on /\ ~eng.orphan)
    BY <1>1 DEF WrapperStart, WrapInv, OneWrapperDrives
  <2>3. CASE wrap' = Off
    BY <2>1, <2>2, <2>3, NoWrap
  <2>4. CASE WrapTyped' /\ wrap'.pc = "attempt" /\ wrap'.day = latest.day
    BY <1>0, <2>1, <2>2, <2>4
    DEF WrapInv, OneWrapperDrives, DrivenEngine, StartHasNoBase, BaseIsNotNewer
  <2> QED BY <2>1, <2>3, <2>4
<1>2. CASE StartAttempt
  <2>1. /\ WrapTyped' /\ latest' = latest /\ wrap.pc = "attempt" /\ wrap'.pc \in {"after", "engine"}
        /\ wrap'.fresh = "none" /\ wrap'.base = wrap.base /\ wrap'.day = wrap.day
        /\ wrap'.only = wrap.only
    BY <1>2, StartAttemptWrap
  <2>2. ~(eng.on /\ ~eng.orphan)
    BY <2>1 DEF WrapInv, OneWrapperDrives
  <2>3. /\ wrap'.pc = "engine" <=> eng'.on /\ ~eng'.orphan
        /\ wrap'.pc = "engine" => eng'.only = wrap'.only
    <3>1. CASE wrap'.pc = "engine"
      BY <1>2, <2>1, <3>1, StartAttemptStarts
    <3>2. CASE wrap'.pc # "engine"
      <4>1. eng' = eng
        BY <1>2, <3>2, StartAttemptRefused
      <4> QED BY <2>2, <3>2, <4>1
    <3> QED BY <3>1, <3>2
  <2>4. OneWrapperDrives' /\ DrivenEngine' /\ StartHasNoBase'
    BY <2>1, <2>3 DEF OneWrapperDrives, DrivenEngine, StartHasNoBase
  <2>5. BaseIsNotNewer'
    BY <2>1 DEF WrapInv, BaseIsNotNewer
  <2> QED BY <2>1, <2>4, <2>5 DEF WrapInv
<1>3. CASE EngineStep
  <2>1. wrap' = wrap /\ latest' = latest /\ EngineInv /\ Running
    BY <1>3 DEF EngineStep, Visit, BeginRound, LoginHelpers, Recheck, Supplement, WorldInv,
                DaysAdvance, Running
  <2>2. Works(eng')
    BY <1>3, <2>1, EngineStepWorks
  <2>3. wrap.pc = "engine" <=> eng.on /\ ~eng.orphan
    BY DEF WrapInv, OneWrapperDrives
  <2> QED BY <1>0, <2>1, <2>2, <2>3, SameWrap DEF Works
<1>4. CASE EngineReports
  <2>1. /\ eng.on /\ eng' = Down /\ latest'.day = eng.day
        /\ \/ wrap.pc = "off" /\ wrap' = wrap
           \/ /\ wrap.pc # "off" /\ WrapTyped' /\ wrap'.fresh = "final" /\ wrap'.day = eng.day
              /\ wrap'.base = wrap.base /\ wrap'.only = wrap.only
              /\ wrap'.pc = IF eng.orphan THEN wrap.pc ELSE "after"
    BY <1>4, EngineReportsWrap
  <2>2. ~eng'.on /\ latest.day <= latest'.day
    BY <2>1, DownFields DEF WorldInv, DaysAdvance
  <2>3. CASE wrap.pc = "off" /\ wrap' = wrap
    BY <1>0, <2>2, <2>3, SameWrap
  <2>4. CASE /\ wrap.pc # "off" /\ WrapTyped' /\ wrap'.fresh = "final" /\ wrap'.day = eng.day
             /\ wrap'.base = wrap.base /\ wrap'.only = wrap.only
             /\ wrap'.pc = IF eng.orphan THEN wrap.pc ELSE "after"
    <3>1. wrap'.pc # "engine"
      BY <2>1, <2>4 DEF WrapInv, OneWrapperDrives
    <3>2. OneWrapperDrives' /\ DrivenEngine'
      BY <2>2, <3>1 DEF OneWrapperDrives, DrivenEngine
    <3>3. StartHasNoBase'
      BY <2>4 DEF WrapInv, StartHasNoBase
    <3>4. BaseIsNotNewer'
      BY <1>0, <2>1, <2>4 DEF BaseIsNotNewer
    <3> QED BY <2>4, <3>2, <3>3, <3>4 DEF WrapInv
  <2> QED BY <2>1, <2>3, <2>4
<1>5. CASE EngineDies
  <2>1. /\ eng' = Down /\ latest' = latest /\ wrap.pc = "engine"
        /\ WrapTyped' /\ wrap'.pc = "after" /\ wrap'.base = wrap.base
        /\ \/ wrap'.fresh = "progress"
           \/ wrap'.fresh = "none" /\ wrap'.day = wrap.day
    BY <1>5, EngineDiesWrap
  <2>2. OneWrapperDrives' /\ DrivenEngine' /\ StartHasNoBase'
    BY <2>1, DownFields DEF OneWrapperDrives, DrivenEngine, StartHasNoBase
  <2>3. BaseIsNotNewer'
    BY <2>1 DEF WrapInv, BaseIsNotNewer
  <2> QED BY <2>1, <2>2, <2>3 DEF WrapInv
<1>6. CASE EngineOutlives
  <2>1. wrap' = Off /\ eng.on /\ eng' = [eng EXCEPT !.orphan = TRUE] /\ latest' = latest
    BY <1>6 DEF EngineOutlives
  <2>2. eng'.orphan
    BY <2>1, OrphanKeeps DEF WorldInv
  <2> QED BY <2>1, <2>2, NoWrap
<1>7. CASE AfterAttempt
  <2>1. /\ UNCHANGED <<latest, eng>> /\ wrap.pc = "after"
        /\ \/ wrap' = Off
           \/ /\ WrapTyped' /\ wrap'.pc = "attempt" /\ wrap'.day = wrap.day
              /\ wrap'.base = IF wrap.fresh = "none" THEN wrap.base ELSE wrap.fresh
    BY <1>7, AfterAttemptWrap
  <2>2. ~(eng.on /\ ~eng.orphan)
    BY <2>1 DEF WrapInv, OneWrapperDrives
  <2>3. CASE wrap' = Off
    BY <2>1, <2>2, <2>3, NoWrap
  <2>4. CASE /\ WrapTyped' /\ wrap'.pc = "attempt" /\ wrap'.day = wrap.day
             /\ wrap'.base = IF wrap.fresh = "none" THEN wrap.base ELSE wrap.fresh
    <3>1. OneWrapperDrives' /\ DrivenEngine' /\ StartHasNoBase'
      BY <2>1, <2>2, <2>4 DEF OneWrapperDrives, DrivenEngine, StartHasNoBase
    <3>2. BaseIsNotNewer'
      BY <2>1, <2>4 DEF WrapInv, BaseIsNotNewer
    <3> QED BY <2>4, <3>1, <3>2 DEF WrapInv
  <2> QED BY <2>1, <2>3, <2>4
<1>8. CASE Scheduler
  <2>1. UNCHANGED <<latest, eng>>
    BY <1>8 DEF Scheduler, Look, Decide, Collect
  <2>2. CASE wrap' = wrap
    BY <1>0, <2>1, <2>2, SameWrap DEF WrapInv, OneWrapperDrives
  <2>3. CASE wrap' # wrap
    <3>1. PICK wake \in Sites \cup {NoSite} : Started("scheduler", wake, NoSite)
      BY <1>0, <1>8, <2>3, SchedulerStarts
    <3> QED BY <2>1, <3>1, NewWrap
  <2> QED BY <2>2, <2>3
<1>9. CASE OperatorRuns
  <2>1. PICK only, confirm \in Sites \cup {NoSite} : StartWrapper("operator", only, confirm)
    BY <1>9 DEF OperatorRuns
  <2>2. UNCHANGED <<latest, eng>>
    BY <1>9 DEF OperatorRuns
  <2>3. CASE wrap' = wrap
    BY <1>0, <2>2, <2>3, SameWrap DEF WrapInv, OneWrapperDrives
  <2>4. CASE Started("operator", only, confirm)
    BY <2>2, <2>4, NewWrap
  <2> QED BY <2>1, <2>3, <2>4, StartWrapperEffect
<1>10. CASE SchedulerFails
  <2> DEFINE own == loop.pc = "running" /\ wrap.pc # "off" /\ wrap.by = "scheduler"
  <2>1. wrap' = IF own THEN Off ELSE wrap
    BY <1>10 DEF SchedulerFails
  <2>2. latest' = latest /\ \E tree \in BOOLEAN :
             eng' = IF ~(own /\ eng.on /\ wrap.pc = "engine") \/ eng.orphan THEN eng
                    ELSE IF tree THEN Down ELSE [eng EXCEPT !.orphan = TRUE]
    BY <1>10 DEF SchedulerFails
  <2>3. wrap.pc = "engine" <=> eng.on /\ ~eng.orphan
    BY DEF WrapInv, OneWrapperDrives
  <2>4. CASE ~own
    <3>1. eng' = eng /\ wrap' = wrap /\ latest' = latest
      BY <2>1, <2>2, <2>4
    <3> HIDE DEF own
    <3> QED BY <1>0, <2>3, <3>1, SameWrap
  <2>5. CASE own
    <3>1. wrap' = Off
      BY <2>1, <2>5
    <3>2. CASE ~(eng.on /\ wrap.pc = "engine")
      <4>1. eng' = eng
        BY <2>2, <3>2
      <4> QED BY <2>3, <3>1, <3>2, <4>1, NoWrap
    <3>3. CASE eng.on /\ wrap.pc = "engine"
      <4>1. eng' = Down \/ eng' = [eng EXCEPT !.orphan = TRUE]
        BY <2>2, <2>3, <2>5, <3>3
      <4>2. CASE eng' = Down
        BY <3>1, <4>2, DownFields, NoWrap
      <4>3. CASE eng' = [eng EXCEPT !.orphan = TRUE]
        <5>1. eng'.orphan
          BY <2>2, <3>3, <4>3, OrphanKeeps DEF WorldInv
        <5> QED BY <3>1, <5>1, NoWrap
      <4> QED BY <4>1, <4>2, <4>3
    <3> QED BY <3>2, <3>3
  <2> QED BY <2>4, <2>5
<1>11. CASE Restart
  <2>1. wrap' = Off /\ eng' = Down
    BY <1>11 DEF Restart
  <2> QED BY <2>1, DownFields, NoWrap
<1>12. CASE PlanChange \/ Tick \/ UNCHANGED dayVars
  <2>1. wrap' = wrap /\ UNCHANGED <<latest, eng>>
    BY <1>12 DEF PlanChange, Tick, dayVars
  <2> QED BY <1>0, <2>1, SameWrap DEF WrapInv, OneWrapperDrives
<1> QED BY <1>1, <1>2, <1>3, <1>4, <1>5, <1>6, <1>7, <1>8, <1>9, <1>10, <1>11, <1>12
        DEF DayNext, Wrapper, EngineWorks, Faults

-----------------------------------------------------------------------------
(* The scheduler's state.                                                  *)

\* q is st brought to time t: of the same plan, with the claims of the day.
Carries(q, st, t) ==
  /\ StateTyped(q)
  /\ q.plan = st.plan /\ q.wakeDay = Day(t) /\ TokensOn(st, t) \subseteq q.tokens

LEMMA TokensAreFinite ==
  ASSUME NEW st, StateTyped(st), NEW t
  PROVE  IsFiniteSet(TokensOn(st, t))
  BY FS_EmptySet DEF StateTyped, TokensOn

LEMMA CarriedClaims ==
  ASSUME NEW q, NEW st, NEW t \in Nat, Carries(q, st, t), StateTyped(st), KeepsClaims(st),
         LaunchedTyped, st.wakeDay <= Day(t)
  PROVE  KeepsClaims(q)
<1> SUFFICES ASSUME NEW l \in launched, l[1] = q.plan
             PROVE  /\ Day(l[2][2]) <= q.wakeDay
                    /\ Day(l[2][2]) = q.wakeDay => l[2] \in q.tokens
  BY DEF KeepsClaims
<1>1. /\ Day(l[2][2]) \in Nat /\ Day(t) \in Nat /\ st.wakeDay \in Int
      /\ q.plan = st.plan /\ q.wakeDay = Day(t)
  BY DayOfTime DEF LaunchedTyped, StateTyped, States, Days, NoTime, Carries
<1>2. /\ Day(l[2][2]) <= st.wakeDay
      /\ Day(l[2][2]) = st.wakeDay => l[2] \in st.tokens
  BY <1>1 DEF KeepsClaims
<1>3. Day(l[2][2]) <= q.wakeDay
  BY <1>1, <1>2
<1>4. ASSUME Day(l[2][2]) = q.wakeDay PROVE l[2] \in q.tokens
  <2>1. st.wakeDay = Day(t)
    BY <1>1, <1>2, <1>4
  <2>2. l[2] \in TokensOn(st, t)
    BY <1>1, <1>2, <1>4, <2>1 DEF TokensOn
  <2> QED BY <2>2 DEF Carries
<1> QED BY <1>3, <1>4

LEMMA RetriesCounted ==
  ASSUME NEW res
  PROVE  /\ Cardinality(AutomaticRetries(res)) \in Nat /\ IsFiniteSet(AutomaticRetries(res))
         /\ Cardinality(AutomaticRetries(res)) = 0 <=> AutomaticRetries(res) = {}
<1>1. AutomaticRetries(res) \subseteq Sites
  BY DEF AutomaticRetries, Problems
<1>2. IsFiniteSet(AutomaticRetries(res))
  BY <1>1, FS_Subset, RetryAssumption
<1> QED BY <1>2, FS_CardinalityType, FS_EmptySet

LEMMA NextEligibleIsTime ==
  ASSUME NEW res \in [Sites -> Sound], NEW t
  PROVE  NextEligible(res, t) \in Days
<1> DEFINE later == {res[s].next : s \in {x \in Deferred(res) : res[x].next > t}}
<1>1. later \subseteq Nat
  BY DEF Deferred, Sound
<1>2. NextEligible(res, t) = IF later = {} THEN NoTime ELSE Min(later)
  BY DEF NextEligible
<1>3. later # {} => Min(later) \in Nat
  <2> HIDE DEF later
  <2> QED BY <1>1, MinIn
<1> QED BY <1>2, <1>3 DEF Days

LEMMA FreshStateTyped ==
  ASSUME NEW p \in Nat
  PROVE  /\ StateTyped(FreshState(p)) /\ FreshState(p).plan = p /\ FreshState(p).wakeDay = NoTime
         /\ FreshState(p).tokens = {}
<1>1. IsFiniteSet({})
  BY FS_EmptySet
<1> QED BY <1>1 DEF FreshState, StateTyped, States, Days

LEMMA MaxOneIsCount == ASSUME NEW n \in Nat PROVE Max({1, n}) \in Nat /\ Max({1, n}) = IF n = 0 THEN 1 ELSE n
<1>1. \E x \in {1, n} : \A y \in {1, n} : x >= y
  OBVIOUS
<1>2. Max({1, n}) \in {1, n} /\ \A y \in {1, n} : Max({1, n}) >= y
  BY <1>1 DEF Max
<1> QED BY <1>2

\* q is st as Write-SchedulerState leaves it at time t for the results res.
Written(q, st, t, res) ==
  /\ Carries(q, st, t) /\ q.tokens = TokensOn(st, t)
  /\ q.phase = "finished" /\ q.attemptDay = Day(t)
  /\ q.attempts = IF st.attemptDay = Day(t) THEN Max({1, st.attempts}) ELSE 0
  /\ Problems(res) # {} => q.complete = FALSE

LEMMA WriteStateEffect ==
  ASSUME NEW st, StateTyped(st), NEW t \in Nat, NEW ok \in BOOLEAN, NEW res \in [Sites -> Sound]
  PROVE  Written(WriteState(st, t, ok, res), st, t, res)
<1> DEFINE q == WriteState(st, t, ok, res)
           auto == IF ok THEN Cardinality(AutomaticRetries(res)) ELSE 1
           complete == ok /\ Problems(res) = {}
           next == IF ~ok THEN t + FailureDelay
                    ELSE IF complete \/ Cardinality(AutomaticRetries(res)) = 0 THEN NoTime
                    ELSE IF NextEligible(res, t) # NoTime THEN NextEligible(res, t)
                    ELSE t + FailureDelay
           attempts == IF st.attemptDay = Day(t) THEN Max({1, st.attempts}) ELSE 0
           runDay == IF ok THEN Day(t) ELSE NoTime
           day == Day(t)
           tokens == TokensOn(st, t)
           a == [st EXCEPT !.phase = "finished", !.attemptDay = day, !.attempts = attempts]
           b == [a EXCEPT !.runDay = runDay, !.valid = ok, !.complete = complete]
           c == [b EXCEPT !.auto = auto, !.next = next]
<1>1. st \in States(st.tokens)
  BY DEF StateTyped
<1>2. auto \in Nat
  BY RetriesCounted
<1>3. next \in Days
  BY NextEligibleIsTime DEF Days, FailureDelay
<1>4. attempts \in Nat
  BY <1>1, MaxOneIsCount DEF States
<1>5. runDay \in Days /\ day \in Days
  BY DayOfTime DEF Days
<1>6. complete \in BOOLEAN
  OBVIOUS
<1>7. q = [c EXCEPT !.wakeDay = day, !.tokens = tokens]
  BY DEF WriteState
<1> HIDE DEF q, auto, next, attempts, runDay, day, tokens, complete
<1>8. a \in States(st.tokens)
  BY <1>1, <1>4, <1>5 DEF States
<1>9. /\ a.plan = st.plan /\ a.phase = "finished" /\ a.attemptDay = day /\ a.attempts = attempts
      /\ a.started = st.started
  BY <1>1 DEF States
<1> HIDE DEF a
<1>10. b \in States(st.tokens)
  BY <1>8, <1>5, <1>6 DEF States
<1>11. /\ b.plan = a.plan /\ b.phase = a.phase /\ b.attemptDay = a.attemptDay /\ b.attempts = a.attempts
  BY <1>8 DEF States
<1>12. b.complete = complete
  BY <1>8 DEF States
<1> HIDE DEF b
<1>13. c \in States(st.tokens)
  BY <1>10, <1>2, <1>3 DEF States
<1>14. /\ c.plan = b.plan /\ c.phase = b.phase /\ c.attemptDay = b.attemptDay /\ c.attempts = b.attempts
  BY <1>10 DEF States
<1>15. c.complete = b.complete
  BY <1>10 DEF States
<1> HIDE DEF c
<1>16. q \in States(tokens)
  BY <1>13, <1>5, <1>7 DEF States
<1>17. /\ q.plan = c.plan /\ q.phase = c.phase /\ q.attemptDay = c.attemptDay /\ q.attempts = c.attempts
       /\ q.wakeDay = day /\ q.tokens = tokens
  BY <1>13, <1>7 DEF States
<1>18. q.complete = c.complete
  BY <1>13, <1>7 DEF States
<1>19. Carries(q, st, t)
  BY <1>9, <1>11, <1>14, <1>16, <1>17, TokensAreFinite DEF Carries, StateTyped, day, tokens
<1>20. Problems(res) # {} => q.complete = FALSE
  <2>1. q.complete = complete
    BY <1>12, <1>15, <1>18
  <2>2. Problems(res) # {} => complete = FALSE
    BY DEF complete
  <2> QED BY <2>1, <2>2
<1>21. /\ q.tokens = TokensOn(st, t) /\ q.phase = "finished" /\ q.attemptDay = Day(t)
       /\ q.attempts = IF st.attemptDay = Day(t) THEN Max({1, st.attempts}) ELSE 0
  BY <1>9, <1>11, <1>14, <1>17 DEF day, tokens, attempts
<1> QED BY <1>19, <1>20, <1>21 DEF q, Written

LEMMA ClaimEffect ==
  ASSUME NEW st, StateTyped(st), NEW t \in Nat, NEW tokens, IsFiniteSet(tokens)
  PROVE  LET q == Claim(st, t, tokens) IN Carries(q, st, t) /\ tokens \subseteq q.tokens
<1> DEFINE q == Claim(st, t, tokens)
           attempts == IF st.attemptDay = Day(t) THEN st.attempts + 1 ELSE 1
           day == Day(t)
           all == TokensOn(st, t) \cup tokens
           a == [st EXCEPT !.phase = "running", !.attemptDay = day, !.attempts = attempts]
           b == [a EXCEPT !.started = t, !.next = NoTime]
<1>1. st \in States(st.tokens)
  BY DEF StateTyped
<1>2. attempts \in Nat /\ day \in Days /\ t \in Days /\ NoTime \in Days
  BY <1>1, DayOfTime DEF States, Days
<1>3. IsFiniteSet(all) /\ TokensOn(st, t) \subseteq all /\ tokens \subseteq all
  BY TokensAreFinite, FS_Union
<1>4. q = [b EXCEPT !.wakeDay = day, !.tokens = all]
  BY DEF Claim
<1> HIDE DEF q, attempts, day, all
<1>5. a \in States(st.tokens)
  BY <1>1, <1>2 DEF States
<1>6. a.plan = st.plan
  BY <1>1 DEF States
<1> HIDE DEF a
<1>7. b \in States(st.tokens)
  BY <1>5, <1>2 DEF States
<1>8. b.plan = a.plan
  BY <1>5 DEF States
<1> HIDE DEF b
<1>9. q \in States(all)
  BY <1>7, <1>4, <1>2 DEF States
<1>10. q.plan = b.plan /\ q.wakeDay = day /\ q.tokens = all
  BY <1>7, <1>4 DEF States
<1> QED BY <1>3, <1>6, <1>8, <1>9, <1>10 DEF Carries, StateTyped, q, day

LEMMA FailureStateEffect ==
  ASSUME NEW st, StateTyped(st), NEW t \in Nat, NEW claimed
  PROVE  Carries(FailureState(st, t, claimed), st, t)
<1> DEFINE q == FailureState(st, t, claimed)
           next == IF claimed THEN t + FailureDelay ELSE st.next
           day == Day(t)
           tokens == TokensOn(st, t)
           a == [st EXCEPT !.phase = "error", !.runDay = NoTime, !.valid = FALSE]
           b == [a EXCEPT !.complete = FALSE, !.auto = 0, !.next = next]
<1>1. st \in States(st.tokens)
  BY DEF StateTyped
<1>2. next \in Days /\ day \in Days /\ NoTime \in Days
  BY <1>1, DayOfTime DEF States, Days, FailureDelay
<1>3. a \in States(st.tokens)
  BY <1>1, <1>2 DEF States
<1>4. a.plan = st.plan /\ a.next = st.next
  BY <1>1 DEF States
<1>5. q = [b EXCEPT !.wakeDay = day, !.tokens = tokens]
  BY <1>4 DEF FailureState
<1> HIDE DEF q, next, day, tokens, a
<1>6. b \in States(st.tokens)
  BY <1>2, <1>3 DEF States
<1>7. b.plan = a.plan
  BY <1>3 DEF States
<1> HIDE DEF b
<1>8. q \in States(tokens)
  BY <1>2, <1>5, <1>6 DEF States
<1>9. q.plan = b.plan /\ q.wakeDay = day /\ q.tokens = tokens
  BY <1>5, <1>6 DEF States
<1> QED BY <1>4, <1>7, <1>8, <1>9, TokensAreFinite DEF Carries, StateTyped, q, day, tokens

LEMMA CooledState ==
  ASSUME NEW st, StateTyped(st)
  PROVE  LET q == [st EXCEPT !.next = NoTime] IN
         /\ StateTyped(q) /\ q.plan = st.plan /\ q.wakeDay = st.wakeDay /\ q.tokens = st.tokens
<1>1. st \in States(st.tokens) /\ NoTime \in Days
  BY DEF StateTyped, Days
<1>2. [st EXCEPT !.next = NoTime] \in States(st.tokens)
  BY <1>1 DEF States
<1>3. /\ [st EXCEPT !.next = NoTime].plan = st.plan /\ [st EXCEPT !.next = NoTime].wakeDay = st.wakeDay
      /\ [st EXCEPT !.next = NoTime].tokens = st.tokens
  BY <1>1 DEF States
<1> QED BY <1>2, <1>3 DEF StateTyped

-----------------------------------------------------------------------------
(* What the scheduler claims.                                              *)

SchedInv ==
  /\ SchedTyped /\ LoopTyped /\ StartsTyped /\ LaunchedTyped /\ unread \in BOOLEAN
  /\ ViewLooksAhead /\ LoopIsBehind /\ LookedIsBehind /\ StateIsBehind
  /\ LaunchedAreReported /\ ClaimsAreKept /\ WakeOnce

LEMMA LoopFields ==
  ASSUME SchedInv
  PROVE  /\ loop \in [pc : {"idle", "looked", "running"}, now : Nat, plan : Nat, view : Reports,
                      unread : BOOLEAN, wake : Sites \cup {NoSite}, drained : {loop.drained},
                      fresh : BOOLEAN]
         /\ loop.view \in Reports /\ loop.view.res \in [Sites -> Sound] /\ loop.view.plan \in Nat
         /\ loop.now \in Nat /\ loop.plan \in Nat
         /\ sched \in States(sched.tokens) /\ sched.plan \in Nat /\ sched.wakeDay \in Int
         /\ StateTyped(sched) /\ KeepsClaims(sched)
<1>1. loop.view \in Reports
  BY DEF SchedInv, LoopTyped
<1>2. sched \in States(sched.tokens)
  BY DEF SchedInv, SchedTyped, StateTyped
<1>3. sched.wakeDay \in Int /\ sched.plan \in Nat
  BY <1>2 DEF States, Days, NoTime
<1> QED BY <1>1, <1>2, <1>3 DEF SchedInv, LoopTyped, SchedTyped, ClaimsAreKept, Reports

\* A state of a plan nothing was launched under keeps every claim.
LEMMA NothingLaunched ==
  ASSUME NEW st, \A l \in launched : l[1] # st.plan
  PROVE  KeepsClaims(st)
  BY DEF KeepsClaims

\* The state of the plan that was looked at, reset when its plan is an old one.
LEMMA KnownState ==
  ASSUME SchedInv, loop.pc = "looked"
  PROVE  LET known == IF PlanChanged THEN FreshState(loop.plan) ELSE sched IN
         /\ StateTyped(known) /\ known.plan = loop.plan /\ KeepsClaims(known)
         /\ known.wakeDay <= Day(loop.now) /\ known.wakeDay \in Int
<1>1. CASE ~PlanChanged
  <2>1. sched.plan = loop.plan /\ sched.wakeDay <= Day(loop.now)
    BY <1>1 DEF PlanChanged, SchedInv, LookedIsBehind
  <2> QED BY <1>1, <2>1, LoopFields
<1>2. CASE PlanChanged
  <2> DEFINE known == FreshState(loop.plan)
  <2>1. StateTyped(known) /\ known.plan = loop.plan /\ known.wakeDay = NoTime
    BY LoopFields, FreshStateTyped
  <2>2. \A l \in launched : l[1] # loop.plan
    <3> SUFFICES ASSUME NEW l \in launched, l[1] = loop.plan PROVE FALSE
      OBVIOUS
    <3>1. /\ l[1] <= sched.plan /\ l[1] <= loop.view.plan /\ loop.view.plan <= loop.plan
          /\ sched.plan <= loop.plan
      BY DEF SchedInv, LaunchedAreReported, LookedIsBehind, LoopIsBehind
    <3>2. sched.plan = loop.plan /\ loop.view.plan = loop.plan
      BY <3>1, LoopFields
    <3> QED BY <1>2, <3>2 DEF PlanChanged
  <2>3. NoTime <= Day(loop.now) /\ NoTime \in Int
    BY LoopFields, DayOfTime DEF NoTime
  <2> HIDE DEF known
  <2>4. KeepsClaims(known)
    BY <2>1, <2>2, NothingLaunched
  <2> QED BY <1>2, <2>1, <2>3, <2>4 DEF known
<1> QED BY <1>1, <1>2

\* What Decide reads out of the state, the report and the plan.
KnownNow == IF PlanChanged THEN FreshState(loop.plan) ELSE sched
ValidNow == Valid(loop.view, loop.now, loop.plan)
SyncNow == ValidNow /\ NeedsSync(KnownNow, loop.view.res, PlanChanged \/ loop.unread)
SyncedNow == IF SyncNow THEN WriteState(KnownNow, loop.now, TRUE, loop.view.res) ELSE KnownNow
PersonOnly ==
  ValidNow /\ Cardinality(AutomaticRetries(loop.view.res)) = 0 /\ Problems(loop.view.res) # {}
StateNow == IF PersonOnly THEN [SyncedNow EXCEPT !.next = NoTime] ELSE SyncedNow
WakeNow ==
  IF ValidNow THEN Earliest(Due(StateNow, loop.view.res, loop.now), loop.view.res) ELSE NoSite

LEMMA DecideSplits ==
  ASSUME Decide
  PROVE  /\ loop.pc = "looked" /\ UNCHANGED <<clock, plan, latest, eng, events>>
         /\ unread' = IF SyncNow THEN loop.fresh ELSE unread \/ PlanChanged
         /\ IF ~PersonOnly /\ ShouldRun(StateNow, loop.now, WakeNow)
              THEN Launch(StateNow, WakeNow, loop.view.res, {})
              ELSE sched' = StateNow /\ loop' = Idle /\ UNCHANGED <<wrap, starts, launched>>
  BY DEF Decide, KnownNow, ValidNow, SyncNow, SyncedNow, PersonOnly, StateNow, WakeNow

\* What the scheduler may wake a site by: a report of the day and the plan in
\* which the site is due and unclaimed.
MayWake(st, view, t, s) ==
  view \in Reports /\ AllNotBefore(view.res, view.day) /\ view.day = Day(t)
    /\ view.plan = loop.plan /\ st.wakeDay <= Day(t) /\ t <= clock
    /\ s \in Due(st, view.res, t)

\* The state the scheduler goes on with, and what it claims in it.
Proceeds(st) ==
  /\ StateTyped(st) /\ KeepsClaims(st) /\ st.wakeDay <= Day(clock)
  /\ sched.plan <= st.plan /\ st.plan <= loop.plan
  /\ \/ sched' = st /\ loop' = Idle /\ UNCHANGED <<wrap, starts, launched>>
     \/ \E wake \in Sites \cup {NoSite} : \E drained : \E view \in Reports : \E t \in Nat :
          /\ Launch(st, wake, view.res, drained)
          /\ wake # NoSite => /\ MayWake(st, view, t, wake)
                              /\ st.plan <= latest.plan
                              /\ ~loop.fresh \/ loop.pc = "running" => view = latest

LEMMA StateNowTyped ==
  ASSUME SchedInv, loop.pc = "looked"
  PROVE  /\ StateTyped(StateNow) /\ StateNow.plan = loop.plan /\ KeepsClaims(StateNow)
         /\ StateNow.wakeDay <= Day(loop.now)
<1>1. /\ StateTyped(KnownNow) /\ KnownNow.plan = loop.plan /\ KeepsClaims(KnownNow)
      /\ KnownNow.wakeDay <= Day(loop.now) /\ KnownNow.wakeDay \in Int
  BY KnownState DEF KnownNow
<1>2. loop.now \in Nat /\ loop.view.res \in [Sites -> Sound] /\ Day(loop.now) \in Nat /\ LaunchedTyped
  BY LoopFields, DayOfTime DEF SchedInv
<1>3. /\ StateTyped(SyncedNow) /\ SyncedNow.plan = loop.plan /\ KeepsClaims(SyncedNow)
      /\ SyncedNow.wakeDay <= Day(loop.now)
  <2>1. CASE ~SyncNow
    BY <1>1, <2>1 DEF SyncedNow
  <2>2. CASE SyncNow
    <3>1. Carries(SyncedNow, KnownNow, loop.now)
      BY <1>1, <1>2, <2>2, WriteStateEffect DEF SyncedNow, Written
    <3>2. KeepsClaims(SyncedNow)
      BY <1>1, <1>2, <3>1, CarriedClaims
    <3> QED BY <1>1, <1>2, <3>1, <3>2 DEF Carries
  <2> QED BY <2>1, <2>2
<1>4. CASE ~PersonOnly
  BY <1>3, <1>4 DEF StateNow
<1>5. CASE PersonOnly
  <2>1. /\ StateTyped(StateNow) /\ StateNow.plan = SyncedNow.plan
        /\ StateNow.wakeDay = SyncedNow.wakeDay /\ StateNow.tokens = SyncedNow.tokens
    BY <1>3, <1>5, CooledState DEF StateNow
  <2> QED BY <1>3, <2>1 DEF KeepsClaims
<1> QED BY <1>4, <1>5

LEMMA DecideProceeds ==
  ASSUME WorldInv, SchedInv, ViewIsLatest, Decide
  PROVE  \E st : Proceeds(st)
<1>1. /\ loop.pc = "looked"
      /\ IF ~PersonOnly /\ ShouldRun(StateNow, loop.now, WakeNow)
           THEN Launch(StateNow, WakeNow, loop.view.res, {})
           ELSE sched' = StateNow /\ loop' = Idle /\ UNCHANGED <<wrap, starts, launched>>
  BY DecideSplits
<1>2. /\ StateTyped(StateNow) /\ StateNow.plan = loop.plan /\ KeepsClaims(StateNow)
      /\ StateNow.wakeDay <= Day(loop.now) /\ StateNow.wakeDay \in Int
  BY <1>1, StateNowTyped DEF StateTyped, States, Days, NoTime
<1>3. /\ loop.now \in Nat /\ loop.plan \in Nat /\ sched.plan \in Nat /\ clock \in Nat
      /\ loop.view \in Reports /\ loop.view.res \in [Sites -> Sound]
      /\ Day(loop.now) \in Nat /\ Day(clock) \in Nat
  BY LoopFields, NumbersTyped, DayOfTime
<1>4. loop.now <= clock /\ sched.plan <= loop.plan /\ loop.view.plan <= latest.plan
  BY <1>1 DEF SchedInv, LoopIsBehind, LookedIsBehind
<1>5. StateNow.wakeDay <= Day(clock)
  BY <1>2, <1>3, <1>4, DayMonotone
<1>6. WakeNow \in Sites \cup {NoSite}
  BY <1>3, DueIsDeferred, EarliestIsSite DEF WakeNow
<1>7. ASSUME WakeNow # NoSite
      PROVE  /\ MayWake(StateNow, loop.view, loop.now, WakeNow)
             /\ StateNow.plan <= latest.plan
             /\ ~loop.fresh \/ loop.pc = "running" => loop.view = latest
  <2>1. ValidNow /\ WakeNow \in Due(StateNow, loop.view.res, loop.now)
    BY <1>3, <1>7, DueIsDeferred, EarliestIsSite DEF WakeNow
  <2>2. loop.view.day = Day(loop.now) /\ loop.view.plan = loop.plan
    BY <2>1 DEF ValidNow, Valid
  <2>3. AllNotBefore(loop.view.res, loop.view.day)
    BY <1>1 DEF SchedInv, ViewLooksAhead
  <2>4. MayWake(StateNow, loop.view, loop.now, WakeNow)
    BY <1>2, <1>3, <1>4, <2>1, <2>2, <2>3 DEF MayWake
  <2>5. ~loop.fresh \/ loop.pc = "running" => loop.view = latest
    BY <1>1 DEF ViewIsLatest
  <2> QED BY <1>2, <1>4, <2>2, <2>4, <2>5
<1>8. \/ sched' = StateNow /\ loop' = Idle /\ UNCHANGED <<wrap, starts, launched>>
      \/ Launch(StateNow, WakeNow, loop.view.res, {})
  BY <1>1
<1>9. sched.plan <= StateNow.plan /\ StateNow.plan <= loop.plan
  BY <1>2, <1>3, <1>4
<1> QED BY <1>2, <1>3, <1>5, <1>6, <1>7, <1>8, <1>9 DEF Proceeds

\* What Collect makes of the state, and whom it wakes next.
OkNow == loop.fresh /\ Valid(latest, clock, loop.plan)
CollectedNow == WriteState(sched, clock, OkNow, latest.res)
DrainedNow == loop.drained \cup {loop.wake}
DrainNow == IF OkNow THEN DrainWakeups(CollectedNow, DrainedNow) ELSE {}
NextNow == Earliest(DrainNow, latest.res)

LEMMA CollectSplits ==
  ASSUME Collect
  PROVE  /\ loop.pc = "running" /\ UNCHANGED <<clock, plan, latest, eng, events>>
         /\ wrap.pc = "off" \/ wrap.by # "scheduler"
         /\ unread' = ~OkNow
         /\ \/ NextNow # NoSite /\ Launch(CollectedNow, NextNow, latest.res, DrainedNow)
            \/ sched' = CollectedNow /\ loop' = Idle /\ UNCHANGED <<wrap, starts, launched>>
  BY DEF Collect, OkNow, CollectedNow, DrainedNow, DrainNow, NextNow

LEMMA CollectProceeds ==
  ASSUME WorldInv, SchedInv, Collect
  PROVE  \E st : Proceeds(st)
<1>1. /\ loop.pc = "running"
      /\ \/ NextNow # NoSite /\ Launch(CollectedNow, NextNow, latest.res, DrainedNow)
         \/ sched' = CollectedNow /\ loop' = Idle /\ UNCHANGED <<wrap, starts, launched>>
  BY CollectSplits
<1>2. /\ clock \in Nat /\ Day(clock) \in Nat /\ latest \in Reports /\ latest.res \in [Sites -> Sound]
      /\ StateTyped(sched) /\ KeepsClaims(sched) /\ LaunchedTyped /\ sched.wakeDay <= Day(clock)
      /\ loop.plan \in Nat /\ sched.plan \in Nat /\ latest.plan \in Nat /\ OkNow \in BOOLEAN
  BY NumbersTyped, LoopFields DEF SchedInv, StateIsBehind, OkNow, Valid
<1>3. Carries(CollectedNow, sched, clock)
  BY <1>2, WriteStateEffect DEF CollectedNow, Written
<1>4. /\ StateTyped(CollectedNow) /\ KeepsClaims(CollectedNow)
      /\ CollectedNow.wakeDay = Day(clock) /\ CollectedNow.plan = sched.plan
  BY <1>2, <1>3, CarriedClaims DEF Carries
<1>5. sched.plan <= loop.plan
  BY <1>1 DEF SchedInv, LoopIsBehind
<1>6. ASSUME NextNow # NoSite
      PROVE  /\ NextNow \in Sites
             /\ MayWake(CollectedNow, latest, clock, NextNow)
             /\ CollectedNow.plan <= latest.plan
             /\ ~loop.fresh \/ loop.pc = "running" => latest = latest
  <2>1. DrainNow \in SUBSET Deferred(latest.res)
    BY DueIsDeferred DEF DrainNow, DrainWakeups
  <2>2. NextNow \in DrainNow /\ NextNow \in Sites
    BY <1>2, <1>6, <2>1, EarliestIsSite DEF NextNow
  <2>3. OkNow /\ NextNow \in Due(CollectedNow, latest.res, clock)
    BY <2>2 DEF DrainNow, DrainWakeups
  <2>4. latest.day = Day(clock) /\ latest.plan = loop.plan
    BY <2>3 DEF OkNow, Valid
  <2>5. AllNotBefore(latest.res, latest.day)
    BY DEF WorldInv, ReportLooksAhead
  <2>6. MayWake(CollectedNow, latest, clock, NextNow)
    BY <1>2, <1>4, <2>3, <2>4, <2>5 DEF MayWake
  <2> QED BY <1>4, <1>5, <2>2, <2>4, <2>6
<1>7. CASE NextNow # NoSite /\ Launch(CollectedNow, NextNow, latest.res, DrainedNow)
  <2>1. \E drained : \E view \in Reports : \E t \in Nat :
          /\ Launch(CollectedNow, NextNow, view.res, drained)
          /\ NextNow # NoSite => /\ MayWake(CollectedNow, view, t, NextNow)
                                 /\ CollectedNow.plan <= latest.plan
                                 /\ ~loop.fresh \/ loop.pc = "running" => view = latest
    BY <1>2, <1>6, <1>7
  <2> QED BY <1>2, <1>4, <1>5, <1>6, <1>7, <2>1 DEF Proceeds
<1>8. CASE sched' = CollectedNow /\ loop' = Idle /\ UNCHANGED <<wrap, starts, launched>>
  BY <1>2, <1>4, <1>5, <1>8 DEF Proceeds
<1> QED BY <1>1, <1>7, <1>8

\* What may wake site s at time t: a deferred result of the day that was not
\* launched for the state's plan yet.
Wakes(st, res, t, s) ==
  /\ res[s].next \in Nat /\ Day(res[s].next) = Day(t)
  /\ ~res[s].sub
  /\ <<st.plan, Token(res, s)>> \notin launched

\* A site that is due in a report of the day was not launched in that report.
LEMMA DueIsUnclaimed ==
  ASSUME WorldInv, SchedInv, NEW st, StateTyped(st), KeepsClaims(st),
         NEW view, NEW t \in Nat, NEW s \in Sites, MayWake(st, view, t, s)
  PROVE  Wakes(st, view.res, t, s)
<1>1. /\ view.res \in [Sites -> Sound] /\ view.day = Day(t) /\ AllNotBefore(view.res, view.day)
      /\ s \in Due(st, view.res, t) /\ st.wakeDay <= Day(t)
  BY DEF MayWake, Reports
<1>2. /\ view.res[s].next # NoTime /\ ~view.res[s].sub /\ view.res[s].next <= t
      /\ Token(view.res, s) \notin TokensOn(st, t)
  BY <1>1 DEF Due, Deferred
<1>3. view.res[s].next \in Nat
  BY <1>1, <1>2 DEF Sound
<1>4. Day(view.res[s].next) >= Day(t)
  BY <1>1, <1>2 DEF AllNotBefore, NotBefore
<1>5. Day(view.res[s].next) = Day(t) /\ Day(t) \in Nat
  BY <1>2, <1>3, <1>4, DayMonotone, DayOfTime
<1>6. ASSUME <<st.plan, Token(view.res, s)>> \in launched PROVE FALSE
  <2> DEFINE l == <<st.plan, Token(view.res, s)>>
  <2>1. l[1] = st.plan /\ l[2] = Token(view.res, s) /\ l[2][2] = view.res[s].next
    BY DEF Token
  <2>2. Day(l[2][2]) <= st.wakeDay /\ (Day(l[2][2]) = st.wakeDay => l[2] \in st.tokens)
    BY <1>6, <2>1 DEF KeepsClaims
  <2>3. st.wakeDay \in Int
    BY DEF StateTyped, States, Days, NoTime
  <2>4. st.wakeDay = Day(t)
    BY <1>1, <1>5, <2>1, <2>2, <2>3
  <2>5. Token(view.res, s) \in st.tokens
    BY <1>5, <2>1, <2>2, <2>4
  <2> QED BY <1>2, <2>4, <2>5 DEF TokensOn
<1> QED BY <1>2, <1>3, <1>5, <1>6 DEF Wakes

LEMMA IdleFields ==
  ASSUME loop' = Idle
  PROVE  LoopTyped' /\ loop'.pc = "idle"
<1>1. NoReport \in Reports
  BY NothingIsSound DEF NoReport, Reports, Days
<1> QED BY <1>1 DEF Idle, LoopTyped

\* A launch claims the state's plan, and the token of the site it wakes.
LEMMA LaunchEffect ==
  ASSUME WorldInv, SchedInv, NEW st, StateTyped(st), NEW wake \in Sites \cup {NoSite},
         NEW res, NEW drained, Launch(st, wake, res, drained)
  PROVE  LET tokens == IF wake = NoSite THEN {} ELSE {Token(res, wake)} IN
         /\ Carries(sched', st, clock) /\ tokens \subseteq sched'.tokens
         /\ LoopTyped' /\ loop'.pc = "running" /\ loop'.now = loop.now /\ loop'.plan = loop.plan
         /\ StartsTyped'
         /\ starts'.again = (wake # NoSite /\ <<st.plan, Token(res, wake)>> \in launched)
         /\ starts'.stale = (loop.fresh /\ loop.pc = "looked")
         /\ launched' = launched \cup {<<st.plan, t>> : t \in tokens}
         /\ StartWrapper("scheduler", wake, NoSite)
<1> DEFINE tokens == IF wake = NoSite THEN {} ELSE {Token(res, wake)}
           same == starts.day = Day(clock) /\ starts.plan = st.plan
           runs == IF same THEN starts.runs ELSE 0
           least == Min({runs + 1, MaxStarts})
           stale == loop.fresh /\ loop.pc = "looked"
           again == wake # NoSite /\ <<st.plan, Token(res, wake)>> \in launched
<1>1. sched' = Claim(st, clock, tokens) /\ clock \in Nat
  BY NumbersTyped DEF Launch
<1>2. IsFiniteSet(tokens)
  BY FS_EmptySet, FS_Singleton
<1>3. loop' = [loop EXCEPT !.pc = "running", !.wake = wake, !.drained = drained,
                           !.fresh = FALSE, !.view = NoReport]
  BY DEF Launch
<1>4. starts' = [day |-> Day(clock), plan |-> st.plan, runs |-> least, stale |-> stale, again |-> again]
  BY DEF Launch
<1>5. launched' = launched \cup {<<st.plan, t>> : t \in tokens} /\ StartWrapper("scheduler", wake, NoSite)
  BY DEF Launch
<1>6. stale \in BOOLEAN /\ again \in BOOLEAN
  BY LoopFields
<1> HIDE DEF tokens, least
<1>7. Carries(sched', st, clock) /\ tokens \subseteq sched'.tokens
  BY <1>1, <1>2, ClaimEffect
<1> DEFINE Loops(d) == [pc : {"idle", "looked", "running"}, now : Nat, plan : Nat, view : Reports,
                        unread : BOOLEAN, wake : Sites \cup {NoSite}, drained : {d}, fresh : BOOLEAN]
<1>8. NoReport \in Reports
  BY NothingIsSound DEF NoReport, Reports, Days
<1>9. loop' \in Loops(drained) /\ loop'.drained = drained /\ loop'.pc = "running"
      /\ loop'.now = loop.now /\ loop'.plan = loop.plan
  <2> DEFINE a == [loop EXCEPT !.pc = "running", !.wake = wake, !.drained = drained]
  <2>1. loop \in Loops(loop.drained)
    BY LoopFields
  <2>2. a \in Loops(drained)
    BY <2>1
  <2>3. a.pc = "running" /\ a.now = loop.now /\ a.plan = loop.plan /\ a.drained = drained
    BY <2>1
  <2>4. loop' = [a EXCEPT !.fresh = FALSE, !.view = NoReport]
    BY <1>3
  <2> HIDE DEF a
  <2>5. loop' \in Loops(drained)
    BY <1>8, <2>2, <2>4
  <2>6. loop'.pc = a.pc /\ loop'.now = a.now /\ loop'.plan = a.plan /\ loop'.drained = a.drained
    BY <2>2, <2>4
  <2> QED BY <2>3, <2>5, <2>6
<1>10. LoopTyped'
  BY <1>9 DEF LoopTyped
<1>11. StartsTyped' /\ starts'.again = again /\ starts'.stale = stale
  <2> HIDE DEF again, stale
  <2> QED BY <1>4, <1>6 DEF StartsTyped
<1> QED BY <1>5, <1>7, <1>9, <1>10, <1>11 DEF tokens

\* The tokens of a launch are new, and the state it leaves has them.
LEMMA ClaimsAfterLaunch ==
  ASSUME WorldInv, SchedInv, NEW st, Proceeds(st), loop' # Idle
  PROVE  /\ Carries(sched', st, clock)
         /\ LoopTyped' /\ loop'.pc = "running" /\ loop'.now = loop.now /\ loop'.plan = loop.plan
         /\ StartsTyped' /\ LaunchedTyped' /\ WakeOnce'
         /\ \A l \in launched' : \/ l \in launched
                                 \/ /\ l[1] = st.plan /\ l[1] <= latest.plan
                                    /\ Day(l[2][2]) <= Day(clock) /\ l[2] \in sched'.tokens
<1>1. PICK wake \in Sites \cup {NoSite} : \E drained : \E view \in Reports : \E t \in Nat :
          /\ Launch(st, wake, view.res, drained)
          /\ wake # NoSite => MayWake(st, view, t, wake) /\ st.plan <= latest.plan
  BY DEF Proceeds
<1>2. PICK drained : \E view \in Reports : \E t \in Nat :
          /\ Launch(st, wake, view.res, drained)
          /\ wake # NoSite => MayWake(st, view, t, wake) /\ st.plan <= latest.plan
  BY <1>1
<1>3. PICK view : \E t \in Nat :
          /\ view \in Reports /\ Launch(st, wake, view.res, drained)
          /\ wake # NoSite => MayWake(st, view, t, wake) /\ st.plan <= latest.plan
  BY <1>2
<1>4. PICK t \in Nat :
          /\ view \in Reports /\ Launch(st, wake, view.res, drained)
          /\ wake # NoSite => MayWake(st, view, t, wake) /\ st.plan <= latest.plan
  BY <1>3
<1>5. StateTyped(st) /\ KeepsClaims(st) /\ st.plan \in Nat
  BY DEF Proceeds, StateTyped, States
<1> DEFINE tokens == IF wake = NoSite THEN {} ELSE {Token(view.res, wake)}
           again == wake # NoSite /\ <<st.plan, Token(view.res, wake)>> \in launched
<1>6. /\ Carries(sched', st, clock) /\ tokens \subseteq sched'.tokens
      /\ LoopTyped' /\ loop'.pc = "running" /\ loop'.now = loop.now /\ loop'.plan = loop.plan
      /\ StartsTyped' /\ starts'.again = again
      /\ launched' = launched \cup {<<st.plan, x>> : x \in tokens}
  BY <1>4, <1>5, LaunchEffect
<1>7. wake # NoSite => /\ view.res[wake].next \in Nat /\ Day(view.res[wake].next) <= Day(clock)
                       /\ ~again
  <2>1. SUFFICES ASSUME wake # NoSite
                 PROVE  /\ view.res[wake].next \in Nat /\ Day(view.res[wake].next) <= Day(clock)
                        /\ ~again
    OBVIOUS
  <2>2. wake \in Sites /\ MayWake(st, view, t, wake) /\ t <= clock /\ clock \in Nat
    BY <1>4, <2>1, NumbersTyped DEF MayWake
  <2> HIDE DEF again, tokens
  <2>3. /\ view.res[wake].next \in Nat /\ Day(view.res[wake].next) = Day(t)
        /\ <<st.plan, Token(view.res, wake)>> \notin launched
    <3>1. Wakes(st, view.res, t, wake)
      BY <1>5, <2>2, DueIsUnclaimed
    <3> QED BY <3>1 DEF Wakes
  <2>4. Day(t) <= Day(clock)
    BY <2>2, DayMonotone
  <2>5. Day(view.res[wake].next) <= Day(clock)
    BY <2>3, <2>4
  <2>6. ~again
    BY <2>3 DEF again
  <2> QED BY <2>3, <2>5, <2>6
<1>8. WakeOnce'
  BY <1>6, <1>7 DEF WakeOnce
<1>9. \A l \in launched' : \/ l \in launched
                           \/ /\ wake # NoSite /\ l = <<st.plan, Token(view.res, wake)>>
                              /\ Token(view.res, wake) \in sched'.tokens
  BY <1>6
<1>10. /\ <<st.plan, Token(view.res, wake)>>[1] = st.plan
       /\ <<st.plan, Token(view.res, wake)>>[2] = Token(view.res, wake)
       /\ <<st.plan, Token(view.res, wake)>>[2][2] = view.res[wake].next
  BY DEF Token
<1>11. LaunchedTyped'
  BY <1>5, <1>7, <1>9, <1>10 DEF SchedInv, LaunchedTyped
<1>12. \A l \in launched' : \/ l \in launched
                            \/ /\ l[1] = st.plan /\ l[1] <= latest.plan
                               /\ Day(l[2][2]) <= Day(clock) /\ l[2] \in sched'.tokens
  BY <1>4, <1>7, <1>9, <1>10
<1> QED BY <1>6, <1>8, <1>11, <1>12

LEMMA ProceedsKeeps ==
  ASSUME WorldInv, SchedInv, NEW st, Proceeds(st), UNCHANGED <<clock, plan, latest>>, unread' \in BOOLEAN,
         loop.pc # "idle"
  PROVE  SchedInv'
<1>1. /\ StateTyped(st) /\ KeepsClaims(st) /\ st.wakeDay <= Day(clock)
      /\ sched.plan <= st.plan /\ st.plan <= loop.plan
  BY DEF Proceeds
<1>2. /\ clock \in Nat /\ plan \in Nat /\ Day(clock) \in Nat /\ sched.plan \in Nat /\ loop.plan \in Nat
      /\ st.plan \in Nat /\ latest.plan \in Nat /\ loop.now \in Nat
  BY <1>1, NumbersTyped, LoopFields DEF StateTyped, States
<1>3. loop.now <= clock /\ loop.plan <= plan
  BY DEF SchedInv, LoopIsBehind
<1>4. CASE loop' = Idle
  <2>1. sched' = st /\ UNCHANGED <<starts, launched>>
    <3>1. loop'.pc = "idle"
      BY <1>4, IdleFields
    <3>2. CASE sched' = st /\ loop' = Idle /\ UNCHANGED <<wrap, starts, launched>>
      BY <3>2
    <3>3. ASSUME NEW wake \in Sites \cup {NoSite}, NEW drained, NEW view,
                 Launch(st, wake, view.res, drained)
          PROVE  FALSE
      BY <1>1, <3>1, <3>3, LaunchEffect
    <3> QED BY <3>2, <3>3 DEF Proceeds
  <2>2. LoopTyped' /\ loop'.pc = "idle"
    BY <1>4, IdleFields
  <2>3. SchedTyped' /\ StartsTyped' /\ LaunchedTyped' /\ WakeOnce'
    BY <1>1, <2>1 DEF SchedInv, SchedTyped, StateTyped, StartsTyped, LaunchedTyped, WakeOnce
  <2>4. ViewLooksAhead' /\ LoopIsBehind' /\ LookedIsBehind'
    BY <2>2 DEF ViewLooksAhead, LoopIsBehind, LookedIsBehind
  <2>5. StateIsBehind'
    BY <1>1, <1>2, <1>3, <2>1 DEF StateIsBehind
  <2>6. LaunchedAreReported'
    BY <1>1, <1>2, <2>1 DEF SchedInv, LaunchedTyped, LaunchedAreReported
  <2>7. ClaimsAreKept'
    BY <1>1, <2>1 DEF ClaimsAreKept, KeepsClaims
  <2> QED BY <2>2, <2>3, <2>4, <2>5, <2>6, <2>7 DEF SchedInv
<1>5. CASE loop' # Idle
  <2>1. /\ Carries(sched', st, clock)
        /\ LoopTyped' /\ loop'.pc = "running" /\ loop'.now = loop.now /\ loop'.plan = loop.plan
        /\ StartsTyped' /\ LaunchedTyped' /\ WakeOnce'
        /\ \A l \in launched' : \/ l \in launched
                                \/ /\ l[1] = st.plan /\ l[1] <= latest.plan
                                   /\ Day(l[2][2]) <= Day(clock) /\ l[2] \in sched'.tokens
    BY <1>5, ClaimsAfterLaunch
  <2>2. SchedTyped' /\ sched'.plan = st.plan /\ sched'.wakeDay = Day(clock)
    BY <2>1 DEF Carries, SchedTyped, StateTyped
  <2>3. ViewLooksAhead' /\ LookedIsBehind'
    BY <2>1 DEF ViewLooksAhead, LookedIsBehind
  <2>4. LoopIsBehind'
    BY <1>1, <1>3, <2>1, <2>2 DEF LoopIsBehind
  <2>5. StateIsBehind'
    BY <1>1, <1>2, <1>3, <2>2 DEF StateIsBehind
  <2>6. LaunchedAreReported'
    BY <1>1, <1>2, <2>1, <2>2 DEF SchedInv, LaunchedTyped, LaunchedAreReported
  <2>7. KeepsClaims(sched')
    BY <1>1, <1>2, <2>1, CarriedClaims DEF SchedInv
  <2>8. ClaimsAreKept'
    BY <2>1, <2>2, <2>7 DEF ClaimsAreKept, KeepsClaims
  <2> QED BY <2>1, <2>2, <2>3, <2>4, <2>5, <2>6, <2>8 DEF SchedInv
<1> QED BY <1>4, <1>5

\* Time, the plan and the report only advance.
LEMMA WorldAdvances ==
  ASSUME WorldInv, WrapInv, [DayNext]_dayVars
  PROVE  /\ clock' \in Nat /\ clock <= clock' /\ plan' \in Nat /\ plan <= plan'
         /\ latest' \in Reports /\ latest'.plan \in Nat /\ latest.plan <= latest'.plan
<1>1. WorldInv'
  BY WorldNext
<1>2. /\ clock' \in Nat /\ plan' \in Nat /\ latest' \in Reports /\ latest'.plan \in Nat
      /\ clock \in Nat /\ plan \in Nat /\ latest.plan \in Nat
  BY <1>1, NumbersTyped DEF WorldInv, Reports
<1>3. (clock' = clock \/ clock' = clock + 1) /\ (plan' = plan \/ plan' = plan + 1)
  BY DEF DayNext, Scheduler, Wrapper, EngineWorks, Faults, Look, Decide, Collect, WrapperStart, StartAttempt,
         AfterAttempt, EngineStep, EngineReports, EngineDies, EngineOutlives, SchedulerFails, Restart,
         OperatorRuns, PlanChange, Tick, dayVars
<1>4. latest.plan <= latest'.plan
  <2>1. CASE EngineReports
    <3>1. FinishRun /\ eng.on
      BY <2>1 DEF EngineReports, FinishRun
    <3>2. latest'.plan = eng.plan
      BY <3>1, ReportEffect
    <3> QED BY <3>1, <3>2 DEF WorldInv, DaysAdvance
  <2>2. CASE ~EngineReports
    <3>1. latest' = latest
      BY <2>2 DEF DayNext, Scheduler, Wrapper, EngineWorks, Faults, Look, Decide, Collect, WrapperStart,
                  StartAttempt, AfterAttempt, EngineStep, EngineDies, EngineOutlives, SchedulerFails,
                  Restart, OperatorRuns, PlanChange, Tick, dayVars
    <3> QED BY <1>2, <3>1
  <2> QED BY <2>1, <2>2
<1> QED BY <1>2, <1>3, <1>4

\* The loop goes on with what it has read, or starts over.
SameReading ==
  /\ loop'.pc \in {"idle", loop.pc}
  /\ loop'.pc # "idle" => loop'.now = loop.now /\ loop'.plan = loop.plan /\ loop'.view = loop.view

LEMMA ReadingStays ==
  ASSUME WorldInv, WrapInv, SchedInv, [DayNext]_dayVars,
         sched' = sched, launched' = launched, unread' \in BOOLEAN,
         LoopTyped', SameReading, StartsTyped', starts'.again = starts.again
  PROVE  SchedInv'
<1>1. /\ clock' \in Nat /\ clock <= clock' /\ plan' \in Nat /\ plan <= plan'
      /\ latest'.plan \in Nat /\ latest.plan <= latest'.plan
  BY WorldAdvances
<1>2. /\ clock \in Nat /\ plan \in Nat /\ latest.plan \in Nat /\ loop.now \in Nat /\ loop.plan \in Nat
      /\ sched.plan \in Nat /\ sched.wakeDay \in Int /\ loop.view.plan \in Nat
      /\ Day(clock) \in Nat /\ Day(clock') \in Nat /\ Day(clock) <= Day(clock')
  BY <1>1, NumbersTyped, LoopFields, DayOfTime, DayMonotone
<1>3. SchedTyped' /\ LaunchedTyped' /\ WakeOnce'
  BY DEF SchedInv, SchedTyped, StateTyped, LaunchedTyped, WakeOnce
<1>4. ViewLooksAhead'
  BY DEF SchedInv, ViewLooksAhead, SameReading, AllNotBefore, NotBefore
<1>5. LoopIsBehind'
  BY <1>1, <1>2 DEF SchedInv, LoopIsBehind, SameReading
<1>6. LookedIsBehind'
  BY <1>1, <1>2 DEF SchedInv, LookedIsBehind, SameReading
<1>7. StateIsBehind'
  BY <1>1, <1>2 DEF SchedInv, StateIsBehind
<1>8. LaunchedAreReported'
  BY <1>1, <1>2 DEF SchedInv, LaunchedTyped, LaunchedAreReported
<1>9. ClaimsAreKept'
  BY DEF SchedInv, ClaimsAreKept, KeepsClaims
<1> QED BY <1>3, <1>4, <1>5, <1>6, <1>7, <1>8, <1>9 DEF SchedInv

LEMMA SchedNext ==
  ASSUME WorldInv, WrapInv, SchedInv, ViewIsLatest, [DayNext]_dayVars
  PROVE  SchedInv'
<1>0. /\ clock \in Nat /\ plan \in Nat /\ latest \in Reports /\ latest.plan \in Nat
      /\ Day(clock) \in Nat
  BY NumbersTyped
<1>a. LoopTyped /\ StartsTyped /\ unread \in BOOLEAN
  BY DEF SchedInv
<1>1. CASE Decide
  <2>1. loop.pc = "looked" /\ UNCHANGED <<clock, plan, latest>>
        /\ unread' = IF SyncNow THEN loop.fresh ELSE unread \/ PlanChanged
    BY <1>1, DecideSplits
  <2>2. unread' \in BOOLEAN
    BY <1>a, <2>1 DEF LoopTyped, PlanChanged
  <2>3. PICK st : Proceeds(st)
    BY <1>1, DecideProceeds
  <2> QED BY <2>1, <2>2, <2>3, ProceedsKeeps
<1>2. CASE Collect
  <2>1. loop.pc = "running" /\ UNCHANGED <<clock, plan, latest>> /\ unread' = ~OkNow
    BY <1>2, CollectSplits
  <2>2. PICK st : Proceeds(st)
    BY <1>2, CollectProceeds
  <2> QED BY <2>1, <2>2, ProceedsKeeps
<1>3. CASE Look
  <2> DEFINE view == latest
             now == clock
             p == plan
             u == unread
             a == [Idle EXCEPT !.pc = "looked", !.now = now]
  <2>1. /\ loop' = [a EXCEPT !.plan = p, !.view = view, !.unread = u]
        /\ UNCHANGED <<clock, plan, latest, sched, unread, starts, launched>>
    BY <1>3 DEF Look
  <2>2. view \in Reports /\ now \in Nat /\ p \in Nat /\ u \in BOOLEAN
    BY <1>0, <1>a
  <2>3. Idle \in [pc : {"idle", "looked", "running"}, now : Nat, plan : Nat, view : Reports,
                  unread : BOOLEAN, wake : Sites \cup {NoSite}, drained : {{}}, fresh : BOOLEAN]
    <3>1. NoReport \in Reports
      BY NothingIsSound DEF NoReport, Reports, Days
    <3> QED BY <3>1 DEF Idle
  <2> DEFINE Loops == [pc : {"idle", "looked", "running"}, now : Nat, plan : Nat, view : Reports,
                  unread : BOOLEAN, wake : Sites \cup {NoSite}, drained : {{}}, fresh : BOOLEAN]
  <2> HIDE DEF view, now, p, u
  <2>4. a \in Loops /\ a.pc = "looked" /\ a.now = now
    BY <2>2, <2>3
  <2> HIDE DEF a
  <2>5. loop' \in Loops
    BY <2>1, <2>2, <2>4
  <2>6. /\ loop'.pc = "looked" /\ loop'.now = clock /\ loop'.plan = plan /\ loop'.view = latest
    BY <2>1, <2>4 DEF view, now, p, u
  <2>7. LoopTyped' /\ SchedTyped' /\ StartsTyped' /\ LaunchedTyped' /\ WakeOnce' /\ unread' \in BOOLEAN
    BY <1>a, <2>1, <2>5 DEF SchedInv, LoopTyped, SchedTyped, StateTyped, StartsTyped, LaunchedTyped, WakeOnce
  <2>8. ViewLooksAhead'
    BY <2>6 DEF WorldInv, ReportLooksAhead, ViewLooksAhead, AllNotBefore, NotBefore
  <2>9. LoopIsBehind' /\ LookedIsBehind'
    BY <1>0, <2>1, <2>6 DEF SchedInv, StateIsBehind, LaunchedAreReported, LoopIsBehind, LookedIsBehind,
                            WorldInv, DaysAdvance
  <2>10. StateIsBehind' /\ LaunchedAreReported' /\ ClaimsAreKept'
    BY <2>1 DEF SchedInv, StateIsBehind, LaunchedAreReported, ClaimsAreKept, KeepsClaims
  <2> QED BY <2>7, <2>8, <2>9, <2>10 DEF SchedInv
<1>4. CASE EngineReports
  <2>1. /\ unread' = TRUE /\ UNCHANGED <<sched, launched>>
        /\ loop' = [loop EXCEPT !.fresh = TRUE]
        /\ \E late \in BOOLEAN : starts' = [starts EXCEPT !.stale = late]
    <3>1. starts.stale \/ eng.orphan \in BOOLEAN
      BY <1>a, NumbersTyped DEF StartsTyped
    <3> QED BY <1>4, <3>1 DEF EngineReports
  <2>2. LoopTyped' /\ SameReading
    BY <1>a, <2>1 DEF LoopTyped, SameReading
  <2>3. StartsTyped' /\ starts'.again = starts.again
    BY <1>a, <2>1 DEF StartsTyped
  <2> QED BY <2>1, <2>2, <2>3, ReadingStays
<1>5. CASE SchedulerFails
  <2>1. /\ loop' = Idle /\ UNCHANGED <<clock, plan, latest, unread, starts, launched>>
        /\ sched' = FailureState(sched, clock, loop.pc = "running")
    BY <1>5 DEF SchedulerFails
  <2>2. LoopTyped' /\ loop'.pc = "idle"
    BY <2>1, IdleFields
  <2>3. StateTyped(sched) /\ KeepsClaims(sched) /\ sched.wakeDay <= Day(clock) /\ LaunchedTyped
    BY LoopFields DEF SchedInv, StateIsBehind
  <2>4. Carries(sched', sched, clock)
    BY <1>0, <2>1, <2>3, FailureStateEffect
  <2>5. KeepsClaims(sched')
    BY <1>0, <2>3, <2>4, CarriedClaims
  <2>6. SchedTyped' /\ StartsTyped' /\ LaunchedTyped' /\ WakeOnce' /\ unread' \in BOOLEAN
    BY <1>a, <2>1, <2>4 DEF SchedInv, SchedTyped, StateTyped, StartsTyped, LaunchedTyped, WakeOnce, Carries
  <2>7. ViewLooksAhead' /\ LoopIsBehind' /\ LookedIsBehind'
    BY <2>2 DEF ViewLooksAhead, LoopIsBehind, LookedIsBehind
  <2>8. StateIsBehind' /\ LaunchedAreReported'
    BY <1>0, <2>1, <2>4 DEF SchedInv, StateIsBehind, LaunchedAreReported, Carries
  <2>9. ClaimsAreKept'
    BY <2>1, <2>5 DEF ClaimsAreKept, KeepsClaims
  <2> QED BY <2>2, <2>6, <2>7, <2>8, <2>9 DEF SchedInv
<1>6. CASE Restart
  <2>1. loop' = Idle /\ UNCHANGED <<sched, unread, starts, launched>>
    BY <1>6 DEF Restart
  <2>2. LoopTyped' /\ SameReading
    BY <2>1, IdleFields DEF SameReading
  <2>3. StartsTyped' /\ starts'.again = starts.again
    BY <1>a, <2>1 DEF StartsTyped
  <2> QED BY <1>a, <2>1, <2>2, <2>3, ReadingStays
<1>7. CASE \/ WrapperStart \/ StartAttempt \/ AfterAttempt \/ EngineStep \/ EngineDies \/ EngineOutlives
           \/ OperatorRuns \/ PlanChange \/ Tick \/ UNCHANGED dayVars
  <2>1. UNCHANGED <<sched, unread, loop, starts, launched>>
    BY <1>7 DEF WrapperStart, StartAttempt, AfterAttempt, EngineStep, EngineDies, EngineOutlives,
                OperatorRuns, PlanChange, Tick, dayVars
  <2>2. LoopTyped' /\ SameReading /\ StartsTyped'
    BY <1>a, <2>1 DEF LoopTyped, SameReading, StartsTyped
  <2> QED BY <1>a, <2>1, <2>2, ReadingStays
<1> QED BY <1>1, <1>2, <1>3, <1>4, <1>5, <1>6, <1>7
        DEF DayNext, Scheduler, Wrapper, EngineWorks, Faults

-----------------------------------------------------------------------------
(* Whom a run of the scheduler's may visit.                                *)

WakeInv == SchedulersWrapper /\ ViewIsLatest /\ WokenIsFree

LEMMA LoopStays ==
  ASSUME WakeInv, loop' = loop, wrap'.pc # "off" => wrap.pc # "off" /\ wrap'.by = wrap.by,
         latest' = latest
  PROVE  SchedulersWrapper' /\ ViewIsLatest'
  BY DEF WakeInv, SchedulersWrapper, ViewIsLatest

LEMMA WokenStays ==
  ASSUME WokenIsFree, wrap' = wrap, latest' = latest, starts'.stale = starts.stale,
         wrap.pc = "engine" => /\ eng'.resumed = eng.resumed /\ eng'.only = eng.only
                               /\ eng'.base = eng.base
  PROVE  WokenIsFree'
  BY DEF WokenIsFree, Selects

LEMMA OffIsFree ==
  ASSUME wrap' = Off
  PROVE  WokenIsFree' /\ SchedulersWrapper'
  BY OffFields DEF WokenIsFree, SchedulersWrapper

\* A wrapper's steps up to its engine's report.
LEMMA WrapperWoken ==
  ASSUME WorldInv, WrapInv, WakeInv, Wrapper
  PROVE  WakeInv'
<1>0. WokenIsFree /\ wrap.only \in Sites \cup {NoSite} /\ latest.res \in [Sites -> Sound]
  BY WrapFields, NumbersTyped DEF WakeInv
<1>1. CASE WrapperStart
  <2>1. /\ UNCHANGED <<latest, eng>>
        /\ \/ wrap' = Off
           \/ /\ wrap'.pc = "attempt" /\ wrap'.by = wrap.by /\ wrap'.only = wrap.only
    BY <1>1, WrapperStartWrap
  <2>2. loop' = loop /\ starts' = starts /\ wrap.pc = "start"
    BY <1>1 DEF WrapperStart
  <2>3. CASE wrap' = Off
    BY <2>1, <2>2, <2>3, OffFields, OffIsFree, LoopStays DEF WakeInv
  <2>4. CASE wrap'.pc = "attempt" /\ wrap'.by = wrap.by /\ wrap'.only = wrap.only
    <3>1. SchedulersWrapper' /\ ViewIsLatest'
      BY <2>1, <2>2, <2>4, LoopStays
    <3>2. WokenIsFree'
      BY <1>0, <2>1, <2>2, <2>4 DEF WokenIsFree
    <3> QED BY <3>1, <3>2 DEF WakeInv
  <2> QED BY <2>1, <2>3, <2>4
<1>2. CASE StartAttempt
  <2>1. /\ latest' = latest /\ wrap.pc = "attempt" /\ wrap'.pc \in {"after", "engine"}
        /\ wrap'.fresh = "none" /\ wrap'.base = wrap.base
        /\ wrap'.by = wrap.by /\ wrap'.only = wrap.only
    BY <1>2, StartAttemptWrap
  <2>2. loop' = loop /\ starts' = starts
    BY <1>2 DEF StartAttempt
  <2>3. SchedulersWrapper' /\ ViewIsLatest'
    BY <2>1, <2>2, LoopStays
  <2>4. CASE wrap'.pc = "engine"
    <3>1. /\ eng'.only = wrap.only
          /\ eng'.resumed => /\ wrap.base = "final"
                             /\ \A s \in Sites : ~latest.res[s].sub => ~eng'.base[s].sub
      BY <1>2, <2>4, StartAttemptStarts
    <3>2. WokenIsFree'
      BY <1>0, <2>1, <2>2, <2>4, <3>1 DEF WokenIsFree, Selects
    <3> QED BY <2>3, <3>2 DEF WakeInv
  <2>5. CASE wrap'.pc = "after"
    <3>1. WokenIsFree'
      BY <1>0, <2>1, <2>2, <2>5 DEF WokenIsFree
    <3> QED BY <2>3, <3>1 DEF WakeInv
  <2> QED BY <2>1, <2>4, <2>5
<1>3. CASE AfterAttempt
  <2>1. /\ UNCHANGED <<latest, eng>> /\ wrap.pc = "after"
        /\ \/ wrap' = Off
           \/ /\ wrap'.pc = "attempt" /\ wrap'.by = wrap.by /\ wrap'.only = wrap.only
              /\ wrap'.base = IF wrap.fresh = "none" THEN wrap.base ELSE wrap.fresh
              /\ ImmediateRetry(wrap'.base, wrap.only)
    BY <1>3, AfterAttemptWrap
  <2>2. loop' = loop /\ starts' = starts
    BY <1>3 DEF AfterAttempt
  <2>3. CASE wrap' = Off
    BY <2>1, <2>2, <2>3, OffFields, OffIsFree, LoopStays DEF WakeInv
  <2>4. CASE /\ wrap'.pc = "attempt" /\ wrap'.by = wrap.by /\ wrap'.only = wrap.only
             /\ wrap'.base = IF wrap.fresh = "none" THEN wrap.base ELSE wrap.fresh
             /\ ImmediateRetry(wrap'.base, wrap.only)
    <3>1. SchedulersWrapper' /\ ViewIsLatest'
      BY <2>1, <2>2, <2>4, LoopStays
    <3>2. ASSUME Selects(wrap.only), wrap'.base = "final", wrap.fresh # "none"
          PROVE  ~latest.res[wrap.only].sub
      <4>1. wrap.only \in Sites /\ ~Terminal(latest.res[wrap.only])
            /\ latest.res[wrap.only].status # "attention"
        BY <1>0, <2>4, <3>2 DEF ImmediateRetry, Selects
      <4> QED BY <1>0, <4>1 DEF Sound, Terminal
    <3>3. WokenIsFree'
      BY <1>0, <2>1, <2>2, <2>4, <3>2 DEF WokenIsFree, Selects
    <3> QED BY <3>1, <3>3 DEF WakeInv
  <2> QED BY <2>1, <2>3, <2>4
<1> QED BY <1>1, <1>2, <1>3 DEF Wrapper

\* A launch reads the report that is in force, or its run counts as stale.
LEMMA ProceedsWoken ==
  ASSUME WorldInv, SchedInv, WakeInv, NEW st, Proceeds(st), UNCHANGED <<latest, eng>>,
         loop.pc \in {"looked", "running"},
         loop.pc = "running" => wrap.pc = "off" \/ wrap.by # "scheduler"
  PROVE  WakeInv'
<1>1. wrap.pc = "off" \/ wrap.by # "scheduler"
  BY DEF WakeInv, SchedulersWrapper
<1>2. CASE sched' = st /\ loop' = Idle /\ UNCHANGED <<wrap, starts, launched>>
  <2>1. loop'.pc = "idle"
    BY <1>2, IdleFields
  <2>2. WokenIsFree'
    BY <1>2, WokenStays DEF WakeInv
  <2> QED BY <1>1, <1>2, <2>1, <2>2 DEF WakeInv, SchedulersWrapper, ViewIsLatest
<1>3. ASSUME NEW wake \in Sites \cup {NoSite}, NEW drained, NEW view \in Reports, NEW t \in Nat,
             Launch(st, wake, view.res, drained),
             wake # NoSite => /\ MayWake(st, view, t, wake)
                              /\ ~loop.fresh \/ loop.pc = "running" => view = latest
      PROVE  WakeInv'
  <2>1. StateTyped(st) /\ KeepsClaims(st)
    BY DEF Proceeds
  <2>2. /\ loop'.pc = "running" /\ starts'.stale = (loop.fresh /\ loop.pc = "looked")
        /\ StartWrapper("scheduler", wake, NoSite)
    BY <1>3, <2>1, LaunchEffect
  <2>3. SchedulersWrapper' /\ ViewIsLatest'
    BY <2>2 DEF SchedulersWrapper, ViewIsLatest
  <2>4. CASE wrap' = wrap
    <3>1. WokenIsFree'
      BY <1>1, <2>4 DEF WokenIsFree
    <3> QED BY <2>3, <3>1 DEF WakeInv
  <2>5. CASE Started("scheduler", wake, NoSite)
    <3>1. wrap'.pc = "start" /\ wrap'.only = wake
      BY <2>5, StartedFields
    <3>2. ASSUME wake # NoSite, ~starts'.stale PROVE ~latest.res[wake].sub
      <4>1. MayWake(st, view, t, wake) /\ view = latest /\ wake \in Sites
        BY <1>3, <2>2, <3>2
      <4> QED BY <2>1, <4>1, DueIsUnclaimed DEF Wakes
    <3>3. WokenIsFree'
      BY <3>1, <3>2 DEF WokenIsFree, Selects
    <3> QED BY <2>3, <3>3 DEF WakeInv
  <2> QED BY <2>2, <2>4, <2>5, StartWrapperEffect
<1> QED BY <1>2, <1>3 DEF Proceeds

LEMMA WakeNext ==
  ASSUME WorldInv, WrapInv, SchedInv, WakeInv, [DayNext]_dayVars
  PROVE  WakeInv'
<1>0. /\ WokenIsFree /\ SchedulersWrapper /\ ViewIsLatest
      /\ eng.on \in BOOLEAN /\ eng.orphan \in BOOLEAN
  BY NumbersTyped DEF WakeInv
<1>1. CASE Decide
  <2>1. PICK st : Proceeds(st)
    BY <1>0, <1>1, DecideProceeds
  <2>2. loop.pc = "looked" /\ UNCHANGED <<latest, eng>>
    BY <1>1, DecideSplits
  <2> QED BY <2>1, <2>2, ProceedsWoken
<1>2. CASE Collect
  <2>1. PICK st : Proceeds(st)
    BY <1>2, CollectProceeds
  <2>2. /\ loop.pc = "running" /\ UNCHANGED <<latest, eng>>
        /\ wrap.pc = "off" \/ wrap.by # "scheduler"
    BY <1>2, CollectSplits
  <2> QED BY <2>1, <2>2, ProceedsWoken
<1>3. CASE Look
  <2>1. /\ loop.pc = "idle" /\ UNCHANGED <<latest, eng, wrap, starts>>
        /\ loop' = [Idle EXCEPT !.pc = "looked", !.now = clock, !.plan = plan,
                                !.view = latest, !.unread = unread]
    BY <1>3 DEF Look
  <2>2. loop'.view = latest
    BY <2>1 DEF Idle
  <2>3. WokenIsFree'
    BY <1>0, <2>1, WokenStays
  <2> QED BY <1>0, <2>1, <2>2, <2>3 DEF WakeInv, SchedulersWrapper, ViewIsLatest
<1>4. CASE EngineReports
  <2>1. /\ eng.on
        /\ \/ wrap.pc = "off" /\ wrap' = wrap
           \/ /\ wrap.pc # "off" /\ wrap'.fresh = "final" /\ wrap'.by = wrap.by
              /\ wrap'.pc = IF eng.orphan THEN wrap.pc ELSE "after"
    BY <1>4, EngineReportsWrap
  <2>2. loop' = [loop EXCEPT !.fresh = TRUE] /\ starts' = [starts EXCEPT !.stale = @ \/ eng.orphan]
    BY <1>4 DEF EngineReports
  <2>3. loop'.pc = loop.pc /\ loop'.fresh = TRUE
    BY <2>2, LoopFields
  <2>4. SchedulersWrapper' /\ ViewIsLatest'
    BY <1>0, <2>1, <2>3 DEF SchedulersWrapper, ViewIsLatest
  <2>5. eng.orphan => starts'.stale
    BY <2>2 DEF SchedInv, StartsTyped
  <2>6. WokenIsFree'
    BY <2>1, <2>5 DEF WokenIsFree
  <2> QED BY <2>4, <2>6 DEF WakeInv
<1>5. CASE EngineStep
  <2>1. UNCHANGED <<wrap, latest, starts, loop>> /\ EngineInv /\ Running
    BY <1>5 DEF EngineStep, Visit, BeginRound, LoginHelpers, Recheck, Supplement, WorldInv,
                DaysAdvance, Running
  <2>2. Works(eng')
    BY <1>5, <2>1, EngineStepWorks
  <2>3. WokenIsFree'
    BY <1>0, <2>1, <2>2, WokenStays DEF Works
  <2> QED BY <2>1, <2>3, LoopStays DEF WakeInv
<1>6. CASE EngineDies
  <2>1. /\ latest' = latest /\ wrap.pc = "engine"
        /\ wrap'.pc = "after" /\ wrap'.base = wrap.base
        /\ wrap'.by = wrap.by /\ wrap'.only = wrap.only
    BY <1>6, EngineDiesWrap
  <2>2. loop' = loop /\ starts' = starts
    BY <1>6 DEF EngineDies
  <2>3. WokenIsFree'
    BY <1>0, <2>1, <2>2 DEF WokenIsFree
  <2> QED BY <2>1, <2>2, <2>3, LoopStays DEF WakeInv
<1>7. CASE EngineOutlives
  <2>1. wrap' = Off /\ latest' = latest /\ loop' = loop
    BY <1>7 DEF EngineOutlives
  <2> QED BY <2>1, OffFields, OffIsFree, LoopStays DEF WakeInv
<1>8. CASE Wrapper
  BY <1>8, WrapperWoken
<1>9. CASE SchedulerFails
  <2> DEFINE own == loop.pc = "running" /\ wrap.pc # "off" /\ wrap.by = "scheduler"
  <2>1. /\ wrap' = IF own THEN Off ELSE wrap
        /\ loop' = Idle /\ UNCHANGED <<latest, starts>>
        /\ ~own => eng' = eng
    BY <1>9 DEF SchedulerFails
  <2>2. loop'.pc = "idle"
    BY <2>1, IdleFields
  <2>3. ViewIsLatest'
    BY <2>2 DEF ViewIsLatest
  <2>4. CASE own
    <3>1. wrap' = Off
      BY <2>1, <2>4
    <3> QED BY <2>3, <3>1, OffIsFree DEF WakeInv
  <2>5. CASE ~own
    <3>1. wrap' = wrap /\ eng' = eng
      BY <2>1, <2>5
    <3>2. SchedulersWrapper'
      BY <1>0, <2>5, <3>1 DEF SchedulersWrapper
    <3>3. WokenIsFree'
      BY <1>0, <2>1, <3>1, WokenStays
    <3> QED BY <2>3, <3>2, <3>3 DEF WakeInv
  <2> QED BY <2>4, <2>5
<1>10. CASE Restart
  <2>1. wrap' = Off /\ loop' = Idle
    BY <1>10 DEF Restart
  <2>2. ViewIsLatest'
    BY <2>1, IdleFields DEF ViewIsLatest
  <2> QED BY <2>1, <2>2, OffIsFree DEF WakeInv
<1>11. CASE OperatorRuns
  <2>1. UNCHANGED <<latest, eng, loop, starts>>
    BY <1>11 DEF OperatorRuns
  <2>2. PICK only, confirm \in Sites \cup {NoSite} : StartWrapper("operator", only, confirm)
    BY <1>11 DEF OperatorRuns
  <2>3. CASE wrap' = wrap
    BY <1>0, <2>1, <2>3, WokenStays, LoopStays DEF WakeInv
  <2>4. CASE Started("operator", only, confirm)
    <3>1. wrap'.by = "operator"
      BY <2>4, StartedFields
    <3> QED BY <1>0, <2>1, <3>1 DEF WakeInv, SchedulersWrapper, ViewIsLatest, WokenIsFree
  <2> QED BY <2>2, <2>3, <2>4, StartWrapperEffect
<1>12. CASE PlanChange \/ Tick \/ UNCHANGED dayVars
  <2>1. UNCHANGED <<latest, eng, wrap, loop, starts>>
    BY <1>12 DEF PlanChange, Tick, dayVars
  <2> QED BY <1>0, <2>1, WokenStays, LoopStays DEF WakeInv
<1> QED BY <1>1, <1>2, <1>3, <1>4, <1>5, <1>6, <1>7, <1>8, <1>9, <1>10, <1>11, <1>12
        DEF DayNext, Scheduler, EngineWorks, Faults

-----------------------------------------------------------------------------
(* The day.                                                                *)

DayInv == WorldInv /\ WrapInv /\ SchedInv /\ WakeInv /\ events \in Nat

LEMMA NoReportIsTyped ==
  /\ NoReport \in Reports /\ NoReport.day = NoTime /\ NoReport.plan = 0
  /\ AllNotBefore(NoReport.res, NoReport.day)
  BY NothingIsSound, NoResultIsSound DEF NoReport, Reports, Days, AllNotBefore, NotBefore

LEMMA DayStarts == DayInit => DayInv
<1> SUFFICES ASSUME DayInit PROVE DayInv
  OBVIOUS
<1>1. /\ clock = 0 /\ plan = 1 /\ latest = NoReport /\ eng = Down
      /\ sched = FreshState(0) /\ unread = TRUE /\ loop = Idle /\ wrap = Off
      /\ events = 0 /\ launched = {}
      /\ starts = [day |-> 0, plan |-> 1, runs |-> 0, stale |-> FALSE, again |-> FALSE]
  BY DEF DayInit
<1>2. Day(0) \in Nat /\ NoTime <= Day(0) /\ NoTime \in Int
  BY DayOfTime DEF NoTime
<1>3. WorldInv
  <2>1. EngineTyped /\ EngineIsDown /\ ResumedKeepsSettled /\ SomeoneWaits
    BY <1>1, DownFields DEF EngineTyped, EngineIsDown, ResumedKeepsSettled, SomeoneWaits
  <2>2. OnlyIsOnly /\ ResumedPlanIsFree /\ EngineLooksAhead
    BY <1>1, DownFields DEF OnlyIsOnly, Selects, ResumedPlanIsFree, EngineLooksAhead
  <2>3. ReportLooksAhead /\ DaysAdvance
    BY <1>1, <1>2, NoReportIsTyped, DownFields DEF ReportLooksAhead, DaysAdvance
  <2> QED BY <1>1, <2>1, <2>2, <2>3, NoReportIsTyped DEF WorldInv, EngineInv
<1>4. WrapInv
  <2>1. WrapTyped /\ wrap.pc = "off"
    BY <1>1 DEF Off, WrapTyped, Days
  <2> QED BY <1>1, <2>1, DownFields
          DEF WrapInv, OneWrapperDrives, DrivenEngine, StartHasNoBase, BaseIsNotNewer
<1>5. LoopTyped /\ loop.pc = "idle"
  BY <1>1, NoReportIsTyped DEF Idle, LoopTyped
<1>6. SchedInv
  <2>1. StateTyped(sched) /\ sched.plan = 0 /\ sched.wakeDay = NoTime
    BY <1>1, FreshStateTyped
  <2>2. StartsTyped /\ WakeOnce
    BY <1>1 DEF StartsTyped, WakeOnce
  <2>3. LaunchedTyped /\ LaunchedAreReported /\ ClaimsAreKept
    BY <1>1 DEF LaunchedTyped, LaunchedAreReported, ClaimsAreKept, KeepsClaims
  <2>4. ViewLooksAhead /\ LoopIsBehind /\ LookedIsBehind
    BY <1>5 DEF ViewLooksAhead, LoopIsBehind, LookedIsBehind
  <2>5. StateIsBehind
    BY <1>1, <1>2, <2>1 DEF StateIsBehind
  <2> QED BY <1>1, <1>5, <2>1, <2>2, <2>3, <2>4, <2>5 DEF SchedInv, SchedTyped
<1>7. WakeInv
  <2>1. wrap.by = "none" /\ loop.pc = "idle"
    BY <1>1, <1>5 DEF Off
  <2> QED BY <2>1 DEF WakeInv, SchedulersWrapper, ViewIsLatest, WokenIsFree
<1> QED BY <1>1, <1>3, <1>4, <1>6, <1>7 DEF DayInv

LEMMA DayGoesOn == DayInv /\ [DayNext]_dayVars => DayInv'
<1> SUFFICES ASSUME DayInv, [DayNext]_dayVars PROVE DayInv'
  OBVIOUS
<1>1. WorldInv' /\ WrapInv'
  BY WorldNext, WrapNext DEF DayInv, SchedInv
<1>2. SchedInv' /\ WakeInv'
  BY SchedNext, WakeNext DEF DayInv, WakeInv
<1>3. events \in Nat
  BY DEF DayInv
<1>4. events' = events \/ events' = events + 1
  BY DEF DayNext, Scheduler, Wrapper, EngineWorks, Faults, Look, Decide, Collect, WrapperStart,
         StartAttempt, AfterAttempt, EngineStep, EngineReports, EngineDies, EngineOutlives,
         SchedulerFails, Restart, OperatorRuns, PlanChange, Tick, dayVars
<1> QED BY <1>1, <1>2, <1>3, <1>4 DEF DayInv

\* Every state of the day keeps the inductive invariant.
THEOREM DayInvariant == DaySpec => []DayInv
  BY DayStarts, DayGoesOn, PTL DEF DaySpec

\* Clock, plan, report, engine, wrapper, state and loop keep their types: what
\* the processes of a day hold is what the files and arguments may carry.
DayTyped ==
  /\ clock \in Nat /\ plan \in Nat /\ latest \in Reports /\ unread \in BOOLEAN /\ events \in Nat
  /\ EngineTyped /\ WrapTyped /\ SchedTyped /\ LoopTyped /\ StartsTyped /\ LaunchedTyped

THEOREM DayIsTyped == DaySpec => []DayTyped
<1>1. DayInv => DayTyped
  BY DEF DayInv, DayTyped, WorldInv, EngineInv, WrapInv, SchedInv
<1> QED BY <1>1, DayInvariant, PTL

\* A resumed run the scheduler started does not visit a site whose submission
\* had an unknown outcome (isRetryEligible, Get-UnclaimedDeferredWakeups).
THEOREM NothingIsRevisitedBlindly == DaySpec => []NoBlindRevisit
<1>1. ASSUME DayInv, Scheduled, ~starts.stale, NEW s \in eng.todo
      PROVE  ~eng.base[s].sub
  <2>1. eng.on /\ eng.resumed /\ wrap.pc = "engine" /\ wrap.by = "scheduler"
    BY <1>1 DEF Scheduled
  <2>2. CASE ~Selects(eng.only)
    BY <1>1, <2>1, <2>2 DEF DayInv, WorldInv, EngineInv, ResumedPlanIsFree
  <2>3. CASE Selects(eng.only)
    <3>1. s = eng.only
      BY <1>1, <2>3 DEF DayInv, WorldInv, EngineInv, OnlyIsOnly
    <3>2. eng.only = wrap.only
      BY <1>1, <2>1 DEF DayInv, WrapInv, DrivenEngine
    <3>3. ~eng.base[wrap.only].sub
      BY <1>1, <2>1, <2>3, <3>2 DEF DayInv, WakeInv, WokenIsFree
    <3> QED BY <3>1, <3>2, <3>3
  <2> QED BY <2>2, <2>3
<1>2. DayInv => NoBlindRevisit
  BY <1>1 DEF NoBlindRevisit
<1> QED BY <1>2, DayInvariant, PTL

\* However its scheduler crashes, a deferred result wakes its site once
\* (Write-SchedulerClaim records the token before the process starts).
THEOREM SitesAreWokenOnce == DaySpec => []WakeOnce
<1>1. DayInv => WakeOnce
  BY DEF DayInv, SchedInv
<1> QED BY <1>1, DayInvariant, PTL

LEMMA OnlyReportsChangeLatest ==
  ASSUME DayNext, latest' # latest
  PROVE  FinishRun
  BY DEF DayNext, Scheduler, Wrapper, EngineWorks, Faults, Look, Decide, Collect, WrapperStart,
         StartAttempt, AfterAttempt, EngineStep, EngineReports, EngineDies, EngineOutlives,
         SchedulerFails, Restart, OperatorRuns, PlanChange, Tick

\* A site the day's report calls settled stays settled in the reports of the
\* runs that resumed it (mergedProgressResults, reuse of terminal results).
THEOREM SettledStaysSettled == DaySpec => SettledStays
<1>1. DayInv /\ [DayNext]_dayVars =>
        [eng.resumed /\ latest' # latest =>
           \A s \in Sites : Terminal(latest.res[s]) => Terminal(latest'.res[s])]_dayVars
  BY OnlyReportsChangeLatest, ReportEffect DEF DayInv
<1> QED BY <1>1, DayInvariant, PTL DEF DaySpec, SettledStays

\* A site that is due and within its budget lets the poll run.
LEMMA DueLetsRun ==
  ASSUME DayInv, loop.pc = "looked", ValidNow, ~PlanChanged, WithinWakeups, ~Young,
         NEW s \in Due(sched, loop.view.res, loop.now)
  PROVE  ~PersonOnly /\ ShouldRun(StateNow, loop.now, WakeNow)
<1> DEFINE res == loop.view.res
           now == loop.now
<1>1. /\ SchedInv /\ res \in [Sites -> Sound] /\ now \in Nat /\ Day(now) \in Nat
      /\ sched \in States(sched.tokens) /\ StateTyped(sched) /\ sched.attempts \in Nat
      /\ sched.wakeDay \in Int
  BY LoopFields, DayOfTime DEF DayInv, States
<1>2. /\ s \in Sites /\ res[s].status = "deferred" /\ ~res[s].sub /\ ~res[s].exhausted
      /\ s \in AutomaticRetries(res) /\ s \in Problems(res)
  BY DEF Due, Deferred, AutomaticRetries, Problems, Terminal
<1>3. Cardinality(AutomaticRetries(res)) # 0
  BY <1>2, RetriesCounted
<1>4. ~PersonOnly /\ KnownNow = sched
  BY <1>3 DEF PersonOnly, KnownNow
<1>5. StateNow = SyncedNow
  BY <1>4 DEF StateNow
<1>6. MaxAttempts \in Nat \ {0} /\ MaxWakeups \in Nat
  BY DayAssumption
<1>7. Cardinality(TokensOn(sched, now)) \in Nat /\ Cardinality(TokensOn(sched, now)) < MaxWakeups
  BY <1>1, TokensAreFinite, FS_CardinalityType DEF WithinWakeups
<1> DEFINE Ready(st) == /\ TokensOn(st, now) = TokensOn(sched, now)
                        /\ st.complete = FALSE
                        /\ st.attemptDay = Day(now) => st.attempts < MaxAttempts + MaxWakeups
                        /\ ~(st.phase = "running" /\ st.started # NoTime /\ now - st.started < ClaimAge)
<1>8. ASSUME ~SyncNow PROVE Ready(StateNow)
  <2>1. StateNow = sched
    BY <1>4, <1>5, <1>8 DEF SyncedNow
  <2>2. ~NeedsSync(sched, res, PlanChanged \/ loop.unread)
    BY <1>4, <1>8 DEF SyncNow
  <2>3. sched.complete = (Problems(res) = {})
    BY <2>2 DEF NeedsSync
  <2>4. sched.complete = FALSE
    BY <1>2, <2>3
  <2>5. Ready(StateNow)
    BY <2>1, <2>4 DEF WithinWakeups, Young
  <2> QED BY <2>5
<1>9. ASSUME SyncNow PROVE Ready(StateNow)
  <2>1. StateNow = WriteState(sched, now, TRUE, res)
    BY <1>4, <1>5, <1>9 DEF SyncedNow
  <2>2. /\ Carries(StateNow, sched, now) /\ StateNow.tokens = TokensOn(sched, now)
        /\ StateNow.phase = "finished"
        /\ StateNow.attempts = IF sched.attemptDay = Day(now) THEN Max({1, sched.attempts}) ELSE 0
        /\ StateNow.complete = FALSE
    <3>1. Problems(res) # {}
      BY <1>2
    <3> HIDE DEF res, now
    <3>2. Written(WriteState(sched, now, TRUE, res), sched, now, res)
      BY <1>1, WriteStateEffect
    <3>3. Written(StateNow, sched, now, res)
      BY <2>1, <3>2
    <3> QED BY <3>1, <3>3 DEF Written
  <2>3. TokensOn(StateNow, now) = TokensOn(sched, now)
    BY <2>2 DEF Carries, TokensOn
  <2>5. StateNow.attempts < MaxAttempts + MaxWakeups
    <3>1. 1 < MaxAttempts + MaxWakeups
      BY <1>6, <1>7
    <3>2. CASE sched.attemptDay = Day(now)
      <4>1. sched.attempts < MaxAttempts + MaxWakeups
        BY <3>2 DEF WithinWakeups
      <4> QED BY <1>1, <2>2, <3>1, <3>2, <4>1, MaxOneIsCount
    <3>3. CASE sched.attemptDay # Day(now)
      BY <1>6, <2>2, <3>1, <3>3
    <3> QED BY <3>2, <3>3
  <2> QED BY <2>2, <2>3, <2>5
<1>10. Ready(StateNow)
  BY <1>8, <1>9
<1>11. WakeNow # NoSite
  <2>1. Due(StateNow, res, now) = Due(sched, res, now)
    BY <1>10 DEF Due
  <2>2. WakeNow = Earliest(Due(StateNow, res, now), res)
    BY DEF WakeNow
  <2>3. WakeNow \in Due(StateNow, res, now)
    BY <1>1, <2>1, <2>2, DueIsDeferred, EarliestIsDue
  <2> QED BY <2>3, NoSiteIsNone DEF Due, Deferred
<1>12. StateNow.attempts \in Nat
  <2>1. StateTyped(StateNow)
    BY <1>1, StateNowTyped
  <2> QED BY <2>1 DEF StateTyped, States
<1>13. ~Waiting(StateNow, now, WakeNow)
  BY <1>6, <1>7, <1>10, <1>11, <1>12 DEF Waiting
<1> QED BY <1>4, <1>11, <1>13 DEF ShouldRun

\* A poll that finds a site due, with budget left and no young claim, does not
\* end without a run (Test-SchedulerWaiting, its comment on starvation).
THEOREM DueSitesAreServed == DaySpec => DueIsServed
<1> DEFINE Ends == /\ loop.pc = "looked" /\ loop'.pc = "idle" /\ events' = events
                   /\ Valid(loop.view, loop.now, loop.plan) /\ ~PlanChanged
           Served == Due(sched, loop.view.res, loop.now) = {} \/ ~WithinWakeups \/ Young
<1>1. ASSUME DayInv, DayNext, Ends, ~Served
      PROVE  FALSE
  <2>1. Decide
    <3>1. events' # events + 1 /\ loop' # loop
      BY <1>1 DEF DayInv
    <3>2. ~(Look \/ Collect)
      BY <1>1 DEF Look, Collect
    <3>3. ~EngineReports
      <4>1. LoopTyped
        BY <1>1 DEF DayInv, SchedInv
      <4>2. EngineReports => loop'.pc = loop.pc
        BY <4>1 DEF EngineReports, LoopTyped
      <4> QED BY <1>1, <4>2
    <3>4. DayNext
      BY <1>1
    <3> QED BY <3>1, <3>2, <3>3, <3>4
            DEF DayNext, Scheduler, Wrapper, EngineWorks, Faults, WrapperStart, StartAttempt, AfterAttempt,
                EngineStep, EngineDies, EngineOutlives, SchedulerFails, Restart, OperatorRuns,
                PlanChange, Tick
  <2>2. PICK s : s \in Due(sched, loop.view.res, loop.now)
    BY <1>1
  <2>3. ~PersonOnly /\ ShouldRun(StateNow, loop.now, WakeNow)
    BY <1>1, <2>2, DueLetsRun DEF ValidNow
  <2>4. Launch(StateNow, WakeNow, loop.view.res, {})
    BY <2>1, <2>3, DecideSplits
  <2>5. StateTyped(StateNow)
    BY <1>1, StateNowTyped DEF DayInv
  <2>6. loop' = [loop EXCEPT !.pc = "running", !.wake = WakeNow, !.drained = {},
                             !.fresh = FALSE, !.view = NoReport]
    BY <2>4 DEF Launch
  <2>7. loop'.pc = "running"
    BY <1>1, <2>6 DEF DayInv, SchedInv, LoopTyped
  <2> QED BY <1>1, <2>7
<1>2. DayInv /\ [DayNext]_dayVars => [Ends => Served]_dayVars
  BY <1>1
<1> QED BY <1>2, DayInvariant, PTL DEF DaySpec, DueIsServed
=============================================================================
