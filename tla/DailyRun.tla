------------------------------ MODULE DailyRun ------------------------------
(***************************************************************************)
(* A day of check-ins: the scheduler loop (Start-UserScheduler.ps1) claims *)
(* a run and starts the wrapper, the wrapper (Run-Checkin.ps1) starts the  *)
(* engine up to RunAttempts times, a timeout kills it, and the scheduler   *)
(* reads the report and plans the next run.  An operator may start a       *)
(* wrapper too; a mutex lets one run at a time.  Processes die and the     *)
(* machine restarts; scheduler-state.json and latest.json survive.         *)
(***************************************************************************)
EXTENDS CheckinEngine

CONSTANTS MaxAttempts,     \* schedulerMaxDailyAttempts
          MaxWakeups,      \* schedulerMaxDailyWakeups
          MaxDrain,        \* identities one tick serves
          RunAttempts,     \* taskRunAttempts
          Horizon, MaxPlan, MaxEvents, MaxStarts    \* bounds of the model

VARIABLES sched,     \* data/scheduler-state.json
          unread,    \* latest.json has another run id than sched.lastRunId
          loop,      \* the scheduler process
          wrap,      \* the wrapper that holds the run mutex
          events,    \* faults, operator runs and plan changes so far
          starts,    \* what the scheduler started on a day under a plan
          launched   \* wake tokens it started a run for

dayVars == <<clock, plan, latest, eng, sched, unread, loop, wrap, events, starts, launched>>

ASSUME DayAssumption ==
    /\ MaxAttempts \in Nat \ {0}
    /\ {MaxWakeups, MaxDrain, RunAttempts, Horizon, MaxPlan, MaxEvents, MaxStarts} \subseteq Nat

FailureDelay == 1     \* schedulerFailureRetryMinutes, in slots
ClaimAge == 1         \* a claim older than this belongs to a dead process

FreshState(p) ==
    [phase |-> "idle", attemptDay |-> NoTime, attempts |-> 0, started |-> NoTime,
     runDay |-> NoTime, valid |-> FALSE, complete |-> FALSE, auto |-> 0, plan |-> p,
     next |-> NoTime, wakeDay |-> NoTime, tokens |-> {}]
Idle == [pc |-> "idle", now |-> 0, plan |-> 0, view |-> NoReport, unread |-> FALSE,
         wake |-> NoSite, drained |-> {}, fresh |-> FALSE]
Off == [pc |-> "off", by |-> "none", only |-> NoSite, confirm |-> NoSite, attempt |-> 0,
        base |-> "none", day |-> NoTime, fresh |-> "none", code |-> 0]

DayInit ==
    /\ clock = 0 /\ plan = 1 /\ latest = NoReport /\ eng = Down
    /\ sched = FreshState(0) /\ unread = TRUE /\ loop = Idle /\ wrap = Off
    /\ events = 0 /\ starts = [day |-> 0, plan |-> 1, runs |-> 0, stale |-> FALSE, again |-> FALSE] /\ launched = {}

-----------------------------------------------------------------------------
(* What the scheduler makes of a report.                                   *)

Valid(report, t, p) == report.day = Day(t) /\ report.plan = p
Problems(res) == {s \in Sites : ~Terminal(res[s])}
AutomaticRetries(res) ==
    {s \in Problems(res) : /\ res[s].status \in {"retry", "login", "deferred"} /\ ~res[s].sub
                           /\ ~(res[s].status = "deferred" /\ res[s].exhausted)}
Deferred(res) == {s \in Sites : res[s].status = "deferred" /\ res[s].next # NoTime /\ ~res[s].sub}
NextEligible(res, t) ==
    LET later == {res[s].next : s \in {x \in Deferred(res) : res[x].next > t}} IN
    IF later = {} THEN NoTime ELSE Min(later)
Token(res, s) == <<s, res[s].next, res[s].seq, res[s].cause>>
TokensOn(st, t) == IF st.wakeDay = Day(t) THEN st.tokens ELSE {}

\* Mutant: a claimed token may wake its site again.
DueUnclaimed(st, res, t) ==
    {s \in Deferred(res) : /\ res[s].next <= t /\ ~res[s].exhausted
                           /\ \/ res[s].seq < MaxAttempts
                              \/ res[s].late /\ res[s].cause = "upstream"
                              \/ res[s].cause = "harvest"}

\* Get-UnclaimedDeferredWakeups
Due(st, res, t) ==
    {s \in Deferred(res) :
        /\ res[s].next <= t /\ ~res[s].exhausted
        /\ \/ res[s].seq < MaxAttempts
           \/ res[s].late /\ res[s].cause = "upstream"
           \/ res[s].cause = "harvest"
        /\ Token(res, s) \notin TokensOn(st, t)}

\* The one that is due longest; a site keeps its place among equals.
Earliest(due, res) ==
    IF due = {} THEN NoSite
    ELSE Min({s \in due : \A x \in due : res[s].next <= res[x].next})

\* Mutant: only the ordinary budget is counted, a wake is always let through.
WaitingUncounted(st, t, wake) ==
    LET today == st.attemptDay = Day(t) IN
    \/ st.runDay = Day(t) /\ st.complete
    \/ today /\ st.attempts >= 1 /\ st.auto = 0 /\ wake = NoSite
    \/ wake = NoSite /\ today /\ st.attempts >= MaxAttempts
    \/ st.phase = "running" /\ st.started # NoTime /\ t - st.started < ClaimAge
    \/ st.next # NoTime /\ st.next > t /\ wake = NoSite

\* Mutant: the global cooldown holds back the sites that are due, too.
WaitingGlobally(st, t, wake) ==
    LET today == st.attemptDay = Day(t) IN
    \/ st.runDay = Day(t) /\ st.complete
    \/ today /\ st.attempts >= 1 /\ st.auto = 0 /\ wake = NoSite
    \/ today /\ st.attempts >= MaxAttempts + IF wake = NoSite THEN 0 ELSE MaxWakeups
    \/ st.phase = "running" /\ st.started # NoTime /\ t - st.started < ClaimAge
    \/ st.next # NoTime /\ st.next > t

\* Test-SchedulerWaiting
Waiting(st, t, wake) ==
    LET today == st.attemptDay = Day(t) IN
    \/ st.runDay = Day(t) /\ st.complete
    \/ today /\ st.attempts >= 1 /\ st.auto = 0 /\ wake = NoSite
    \/ /\ wake # NoSite
       /\ \/ Cardinality(TokensOn(st, t)) >= MaxWakeups
          \/ today /\ st.attempts >= MaxAttempts + MaxWakeups
    \/ wake = NoSite /\ today /\ st.attempts >= MaxAttempts
    \/ st.phase = "running" /\ st.started # NoTime /\ t - st.started < ClaimAge
    \/ st.next # NoTime /\ st.next > t /\ wake = NoSite

\* Test-SchedulerShouldRun looks at the cooldown once more.
ShouldRun(st, t, wake) ==
    ~Waiting(st, t, wake) /\ (wake # NoSite \/ st.next = NoTime \/ st.next <= t)

\* Write-SchedulerState: ok says that the report is valid for this reading.
WriteState(st, t, ok, res) ==
    LET auto == Cardinality(AutomaticRetries(res))
        complete == ok /\ Problems(res) = {}
    IN  [st EXCEPT !.phase = "finished", !.attemptDay = Day(t),
           !.attempts = IF st.attemptDay = Day(t) THEN Max({1, @}) ELSE 0,
           !.runDay = IF ok THEN Day(t) ELSE NoTime,
           !.valid = ok, !.complete = complete,
           !.auto = IF ok THEN auto ELSE 1,
           !.next = IF ~ok THEN t + FailureDelay
                    ELSE IF complete \/ auto = 0 THEN NoTime
                    ELSE IF NextEligible(res, t) # NoTime THEN NextEligible(res, t)
                    ELSE t + FailureDelay,
           !.wakeDay = Day(t), !.tokens = TokensOn(st, t)]

\* Mutant: the wake token is not claimed before the run.
ClaimLate(st, t, tokens) ==
    [st EXCEPT !.phase = "running", !.attemptDay = Day(t),
       !.attempts = IF st.attemptDay = Day(t) THEN @ + 1 ELSE 1,
       !.started = t, !.next = NoTime, !.wakeDay = Day(t), !.tokens = TokensOn(st, t)]

\* Write-SchedulerClaim
Claim(st, t, tokens) ==
    [st EXCEPT !.phase = "running", !.attemptDay = Day(t),
       !.attempts = IF st.attemptDay = Day(t) THEN @ + 1 ELSE 1,
       !.started = t, !.next = NoTime, !.wakeDay = Day(t), !.tokens = TokensOn(st, t) \cup tokens]

\* Write-SchedulerFailureState: automaticRetryCount is not carried over.
FailureState(st, t, claimed) ==
    [st EXCEPT !.phase = "error", !.runDay = NoTime, !.valid = FALSE, !.complete = FALSE,
       !.auto = 0, !.next = IF claimed THEN t + FailureDelay ELSE @,
       !.wakeDay = Day(t), !.tokens = TokensOn(st, t)]

-----------------------------------------------------------------------------
(* The wrapper.                                                            *)

\* A wrapper that finds the mutex taken ends at once and changes nothing.
StartWrapper(by, only, confirm) ==
    IF wrap.pc # "off" THEN UNCHANGED wrap
    ELSE wrap' = [Off EXCEPT !.pc = "start", !.by = by, !.only = only, !.confirm = confirm]

\* Get-TodayResumeReport, and the plan check before it is used.
WrapperStart ==
    LET today == latest.day = Day(clock)
        exact == Selects(wrap.only) \/ wrap.confirm # NoSite
        usable == today /\ latest.plan = plan
    IN  /\ wrap.pc = "start"
        /\ wrap' = IF exact /\ ~usable THEN Off
                   ELSE [wrap EXCEPT !.pc = "attempt", !.attempt = 1, !.day = latest.day,
                                     !.base = IF usable THEN "final" ELSE "none"]
        /\ UNCHANGED <<clock, plan, latest, eng, sched, unread, loop, events, starts, launched>>

\* An engine that cannot take the run lock, or refuses the report, exits 1.
StartAttempt ==
    /\ wrap.pc = "attempt"
    /\ IF eng.on \/ ResumeRefused(wrap.base, wrap.day, wrap.only, wrap.confirm)
         THEN /\ wrap' = [wrap EXCEPT !.pc = "after", !.code = 1, !.fresh = "none"]
              /\ UNCHANGED eng
         ELSE /\ wrap' = [wrap EXCEPT !.pc = "engine", !.fresh = "none"]
              /\ EngineStart(wrap.base, wrap.only, wrap.confirm)
    /\ UNCHANGED <<clock, plan, latest, sched, unread, loop, events, starts, launched>>

EngineStep ==
    /\ \/ Visit \/ BeginRound \/ LoginHelpers \/ Recheck \/ Supplement
    /\ UNCHANGED <<clock, plan, latest, sched, unread, loop, wrap, events, starts, launched>>

\* The report is written, the process exits and its wrapper goes on.
EngineReports ==
    /\ FinishRun
    /\ unread' = TRUE
    /\ loop' = [loop EXCEPT !.fresh = TRUE]
    /\ starts' = [starts EXCEPT !.stale = @ \/ eng.orphan]
    /\ wrap' = IF wrap.pc = "off" THEN wrap
               ELSE [wrap EXCEPT !.fresh = "final", !.day = eng.day,
                       !.pc = IF eng.orphan THEN @ ELSE "after",
                       !.code = IF eng.orphan THEN @
                                ELSE IF AllTerminal(FinalResults, eng.only) THEN 0 ELSE 2]
    /\ UNCHANGED <<clock, plan, sched, events, launched>>

\* The engine dies or is killed at its timeout; its checkpoint stays.
EngineDies ==
    /\ eng.on /\ ~eng.orphan /\ wrap.pc = "engine" /\ events < MaxEvents
    /\ eng' = Down
    /\ \E kept \in IF Visited = {} THEN BOOLEAN ELSE {TRUE} :
         wrap' = [wrap EXCEPT !.pc = "after", !.code = 1,
                    !.fresh = IF kept THEN "progress" ELSE "none",
                    !.day = IF kept THEN eng.day ELSE @]
    /\ events' = events + 1
    /\ UNCHANGED <<clock, plan, latest, sched, unread, loop, starts, launched>>

\* timeout_process_alive: the kill fails and the wrapper leaves it the lock.
EngineOutlives ==
    /\ eng.on /\ ~eng.orphan /\ wrap.pc = "engine" /\ events < MaxEvents
    /\ eng' = [eng EXCEPT !.orphan = TRUE] /\ wrap' = Off
    /\ events' = events + 1
    /\ UNCHANGED <<clock, plan, latest, sched, unread, loop, starts, launched>>

\* Test-HasImmediateRetry
ImmediateRetry(kind, only) ==
    \/ kind # "final"
    \/ \E s \in IF Selects(only) THEN {only} ELSE Sites :
         LET r == latest.res[s] IN
         /\ ~Terminal(r) /\ r.status # "attention"
         /\ r.status = "deferred" => r.next <= clock

\* The newest report of this attempt is what the next attempt resumes.
AfterAttempt ==
    LET base == IF wrap.fresh = "none" THEN wrap.base ELSE wrap.fresh IN
    /\ wrap.pc = "after"
    /\ wrap' = IF \/ wrap.code = 0 \/ wrap.attempt = RunAttempts
                  \/ ~ImmediateRetry(base, wrap.only)
                 THEN Off
                 ELSE [wrap EXCEPT !.pc = "attempt", !.attempt = @ + 1, !.base = base]
    /\ UNCHANGED <<clock, plan, latest, eng, sched, unread, loop, events, starts, launched>>

-----------------------------------------------------------------------------
(* The scheduler loop.                                                     *)

\* It reads the clock, the plan and the report, then flushes notifications.
Look ==
    /\ loop.pc = "idle"
    /\ loop' = [Idle EXCEPT !.pc = "looked", !.now = clock, !.plan = plan,
                            !.view = latest, !.unread = unread]
    /\ UNCHANGED <<clock, plan, latest, eng, sched, unread, wrap, events, starts, launched>>

\* Mutant: the state of an old plan is reset, its report is not looked at.
PlanChangedByState == sched.plan # loop.plan

\* The report's fingerprint counts even when the report is not valid.
PlanChanged ==
    \/ sched.plan # loop.plan
    \/ loop.view # NoReport /\ loop.view.plan # loop.plan

\* A valid report the state does not reflect yet is written into it.
NeedsSync(st, res, isNew) ==
    LET auto == Cardinality(AutomaticRetries(res)) IN
    \/ isNew \/ ~st.valid \/ st.auto # auto
    \/ st.complete # (Problems(res) = {})
    \/ auto = 0 /\ st.next # NoTime

\* Claim a run for wake, or for the whole plan, and start its wrapper.
Launch(st, wake, res, drained) ==
    LET tokens == IF wake = NoSite THEN {} ELSE {Token(res, wake)}
        same == starts.day = Day(clock) /\ starts.plan = st.plan
        runs == IF same THEN starts.runs ELSE 0
    IN  /\ sched' = Claim(st, clock, tokens)
        /\ StartWrapper("scheduler", wake, NoSite)
        /\ loop' = [loop EXCEPT !.pc = "running", !.wake = wake, !.drained = drained,
                                !.fresh = FALSE, !.view = NoReport]
        /\ starts' = [day |-> Day(clock), plan |-> st.plan, runs |-> Min({runs + 1, MaxStarts}),
                      stale |-> loop.fresh /\ loop.pc = "looked",
                      again |-> wake # NoSite /\ <<st.plan, Token(res, wake)>> \in launched]
        /\ launched' = launched \cup {<<st.plan, t>> : t \in tokens}

Decide ==
    LET res == loop.view.res
        valid == Valid(loop.view, loop.now, loop.plan)
        auto == Cardinality(AutomaticRetries(res))
        known == IF PlanChanged THEN FreshState(loop.plan) ELSE sched
        sync == valid /\ NeedsSync(known, res, PlanChanged \/ loop.unread)
        synced == IF sync THEN WriteState(known, loop.now, TRUE, res) ELSE known
        attentionOnly == valid /\ auto = 0 /\ Problems(res) # {}
        st == IF attentionOnly THEN [synced EXCEPT !.next = NoTime] ELSE synced
        wake == IF valid THEN Earliest(Due(st, res, loop.now), res) ELSE NoSite
    IN  /\ loop.pc = "looked"
        /\ unread' = IF sync THEN loop.fresh ELSE unread \/ PlanChanged
        /\ IF ~attentionOnly /\ ShouldRun(st, loop.now, wake)
             THEN Launch(st, wake, res, {})
             ELSE /\ sched' = st
                  /\ loop' = Idle
                  /\ UNCHANGED <<wrap, starts, launched>>
        /\ UNCHANGED <<clock, plan, latest, eng, events>>

\* What one tick may still drain: few sites, none twice, never past midnight.
DrainWakeups(st, drained) ==
    IF Cardinality(drained) < MaxDrain /\ clock = loop.now
      THEN Due(st, latest.res, clock) \ drained ELSE {}

(***************************************************************************)
(* The wrapper is gone, or found another one running: the state takes over *)
(* the report it left, and after a wake the next site that is due follows  *)
(* in the same tick.                                                       *)
(***************************************************************************)
Collect ==
    LET ok == loop.fresh /\ Valid(latest, clock, loop.plan)
        st == WriteState(sched, clock, ok, latest.res)
        drained == loop.drained \cup {loop.wake}
        next == Earliest(IF ok THEN DrainWakeups(st, drained) ELSE {}, latest.res)
    IN  /\ loop.pc = "running"
        /\ wrap.pc = "off" \/ wrap.by # "scheduler"
        /\ unread' = ~ok
        /\ IF loop.wake # NoSite /\ next # NoSite /\ ShouldRun(st, clock, next)
             THEN Launch(st, next, latest.res, drained)
             ELSE /\ sched' = st
                  /\ loop' = Idle
                  /\ UNCHANGED <<wrap, starts, launched>>
        /\ UNCHANGED <<clock, plan, latest, eng, events>>

\* An exception in the loop: its wrapper is killed, the engine perhaps too.
SchedulerFails ==
    LET own == loop.pc = "running" /\ wrap.pc # "off" /\ wrap.by = "scheduler"
    IN  /\ loop.pc \in {"looked", "running"} /\ events < MaxEvents
        /\ sched' = FailureState(sched, clock, loop.pc = "running")
        /\ loop' = Idle
        /\ wrap' = IF own THEN Off ELSE wrap
        /\ \E tree \in BOOLEAN :
             eng' = IF ~(own /\ eng.on /\ wrap.pc = "engine") \/ eng.orphan THEN eng
                    ELSE IF tree THEN Down ELSE [eng EXCEPT !.orphan = TRUE]
        /\ events' = events + 1
        /\ UNCHANGED <<clock, plan, latest, unread, starts, launched>>

Restart ==
    /\ loop.pc # "idle" \/ wrap.pc # "off" \/ eng.on
    /\ events < MaxEvents
    /\ loop' = Idle /\ wrap' = Off /\ eng' = Down
    /\ events' = events + 1
    /\ UNCHANGED <<clock, plan, latest, sched, unread, starts, launched>>

-----------------------------------------------------------------------------
(* The operator, the bookmarks and the clock.                              *)

OperatorRuns ==
    /\ wrap.pc = "off" /\ events < MaxEvents
    /\ \E only, confirm \in Sites \cup {NoSite} :
         /\ only = NoSite \/ confirm = NoSite
         /\ StartWrapper("operator", only, confirm)
    /\ events' = events + 1
    /\ UNCHANGED <<clock, plan, latest, eng, sched, unread, loop, starts, launched>>

PlanChange ==
    /\ plan < MaxPlan /\ events < MaxEvents
    /\ plan' = plan + 1 /\ events' = events + 1
    /\ UNCHANGED <<clock, latest, eng, sched, unread, loop, wrap, starts, launched>>

\* A slot is long beside a visit: a run can only last into the next one
\* before its first visit.
Tick ==
    /\ clock < Horizon
    /\ eng.on => Visited = {}
    /\ clock' = clock + 1
    /\ UNCHANGED <<plan, latest, eng, sched, unread, loop, wrap, events, starts, launched>>

Scheduler == Look \/ Decide \/ Collect
Wrapper == WrapperStart \/ StartAttempt \/ AfterAttempt
EngineWorks == EngineStep \/ EngineReports
Faults == EngineDies \/ EngineOutlives \/ SchedulerFails \/ Restart
DayNext == Scheduler \/ Wrapper \/ EngineWorks \/ Faults \/ OperatorRuns \/ PlanChange \/ Tick

\* Each process goes on while it can; time, people and faults owe nothing.
DaySpec ==
    /\ DayInit /\ [][DayNext]_dayVars
    /\ WF_dayVars(Scheduler) /\ WF_dayVars(Wrapper) /\ WF_dayVars(EngineWorks)

-----------------------------------------------------------------------------
(* What the day must keep.                                                 *)

\* Today's report of the current plan, as the scheduler would read it now.
Current == Valid(latest, clock, plan)

\* A site the day's report calls settled stays settled in the reports of the
\* runs that resumed it (mergedProgressResults, reuse of terminal results).
SettledStays ==
    [][eng.resumed /\ latest' # latest =>
        \A s \in Sites : Terminal(latest.res[s]) => Terminal(latest'.res[s])]_dayVars

\* A resumed run the scheduler started does not visit a site whose submission
\* had an unknown outcome (isRetryEligible, Get-UnclaimedDeferredWakeups), if
\* no other engine wrote a report since the scheduler had read it.
Scheduled == eng.on /\ eng.resumed /\ wrap.pc = "engine" /\ wrap.by = "scheduler"
NoBlindRevisit == Scheduled /\ ~starts.stale => \A s \in eng.todo : ~eng.base[s].sub

\* The same, whatever was written in between.
NeverBlindRevisit == Scheduled => \A s \in eng.todo : ~eng.base[s].sub

\* However its scheduler crashes, a deferred result wakes its site once
\* (Write-SchedulerClaim records the token before the process starts).
WakeOnce == ~starts.again

\* An upstream that used its tries keeps at most one late probe for the day
\* (applyUpstreamGroupCircuitBreakers).
OneLateProbe ==
    \A s, t \in Sites :
        /\ Group[s] = Group[t] /\ GroupTries(latest.res, Group[s]) >= GroupLimit
        /\ \A x \in {s, t} : latest.res[x].cause = "upstream" /\ latest.res[x].late
        => s = t

\* While the plan stays the same, a day starts no more runs than both budgets
\* allow, whatever fails in between (Test-SchedulerWaiting).
LaunchesBounded == starts.plan = 1 => starts.runs <= MaxAttempts + MaxWakeups

\* A poll that finds a site due, with budget left and no young claim, does not
\* end without a run: neither the cooldown of the whole plan nor the other
\* sites hold it back (Test-SchedulerWaiting, its comment on starvation).
Young == sched.phase = "running" /\ sched.started # NoTime /\ loop.now - sched.started < ClaimAge
WithinWakeups ==
    /\ Cardinality(TokensOn(sched, loop.now)) < MaxWakeups
    /\ sched.attemptDay = Day(loop.now) => sched.attempts < MaxAttempts + MaxWakeups
DueIsServed ==
    [][(/\ loop.pc = "looked" /\ loop'.pc = "idle" /\ events' = events
        /\ Valid(loop.view, loop.now, loop.plan) /\ ~PlanChanged)
       => Due(sched, loop.view.res, loop.now) = {} \/ ~WithinWakeups \/ Young]_dayVars

\* After a failed run its retry comes: once the delay is over and attempts are
\* left, the scheduler does not rest with the error (nextEligibleAt of
\* Write-SchedulerFailureState).
ErrorDue ==
    /\ sched.phase = "error" /\ sched.next # NoTime /\ sched.next <= clock
    /\ sched.attemptDay = Day(clock) /\ sched.attempts < MaxAttempts
    /\ ~(Current /\ AutomaticRetries(latest.res) = {})
ErrorIsRetried == ~<>[]ErrorDue

\* A day's launches stay within the daily budgets, also when the plan changes.
DailyBudget == starts.runs <= MaxAttempts + MaxWakeups

=============================================================================
