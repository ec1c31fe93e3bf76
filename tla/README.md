# TLA+ verification of the check-in fabric

The program keeps daily check-ins on a set of sites. An *execution layer* (`src/execution`) drives
browsers and site protocols; an *observation layer* (`src/observation`) decides when the execution
layer may run, collects evidence of what happened, keeps a status ledger and publishes it to a NAS,
where a dashboard shows it and accepts requests. What is hard about it is not any one check-in. It is
that several scheduled tasks share files with no database underneath, that every process may be
killed at any moment, that a submission whose answer is lost must not be repeated blindly, and that a
day ends at midnight whatever is in flight.

This directory holds TLA+ modules translated from the code, TLC configurations that check them on
small instances, and proofs, checked by TLAPS, that hold for every value of the constants.

All line references below are to files under `src/`.

## 1. Inventory

### Call chains of the production mode

- **Main task**: `execution/scripts/Start-UserScheduler.ps1` → `V2-EngineGateway.ps1` →
  `observation/scripts/run-v1-engine.mjs` → `observation/src/legacy-engine.mjs`, which takes the
  execution lease `v2-run.lock` → the same scheduler with `-Once` → `Run-Checkin.ps1` →
  `execution/src/index.mjs`, which validates the lease, takes `tmp/run.lock` and runs the targets.
  The imported report is published locally (`publishEngineReport`).
- **Sync task**: `observation/scripts/Start-NasShadowScheduler.ps1` → `Sync-NasShadow.ps1`: collect
  plan and catalog, read the Harvest database over ssh, dispatch the *PT fallback*, build a snapshot
  (`shadow-run.mjs`), append to the ledger, commit a dashboard generation to the NAS, install it
  locally. The same scheduler starts the operations worker and the evidence repair.
- **Dashboard request**: NAS API → `operation-requests.json` → `process-dashboard-operations.mjs`
  over ssh → `executeDashboardOperation` → one of the executors above.

### Components

| Component | State | Operations | What makes it hard | What makes it correct |
| --- | --- | --- | --- | --- |
| Execution lock files (`observation/src/execution-lock.mjs`) | lock file, `.reclaim` guard | acquire, judge the owner, reclaim, release | two contenders judge one dead owner; death inside the reclaim section; pid reuse | one live holder; only dead owners' files removed; abandoned leases come back |
| Run lock (`execution/src/run-lock.mjs`, `scripts/RunLock.ps1`) | lock file, `.guard` directory | acquire, release, parent's cleanup | orphaned guards are broken by age; the parent removes outside the guard | one live holder; the file is the holder's |
| Native PT gate (`execution/src/native-pt-gate.mjs`, `native-pt-api.mjs`) | intents, readbacks, passive reports, last report | readback, inspect, begin, finish | lost responses, stale clock, midnight, several evidence sources | no replay of an accepted submission; closures are true |
| Dashboard operations (`dashboard-operations.mjs`, `process-dashboard-operations.mjs`) | queue on the NAS, one file per claim on the host | enqueue, claim, execute, finish, resend | calls lost, repeated or late; worker death; expiry and deferral | nothing executed twice blindly; every claim settled |
| PT worker lifecycle (`pt-worker-lifecycle.mjs`, `pt-site-execution.mjs`, `Cleanup-PtWorker.ps1`) | marker file, worker process, private browser | begin, spawn, record pid, time out, clean up, reconcile | the controller dies, the child lives on, the browser outlives the child | a survivor is always behind the marker; the marker goes away in the end |
| PT fallback (`harvest-fallback.mjs`, `pt-verification.mjs`, `pt-reconciliation.mjs`) | per-day journal of attempts and readings, per-day results | plan, read, judge, persist, dispatch, receive, publish, close | a crash at any step, executors that live on, cancellation against answer, midnight, budgets, forgiveness of earlier attempts | a sent request is never recorded as not sent, no blind replay, budgets |
| Publication (`dashboard-generation.mjs`, `shadow-ledger.mjs`, `Sync-NasShadow.ps1`, `Sync-ShadowPublication.ps1`) | ledger, current and previous manifest on two sites, publication lease, staged transactions | local publish, evidence rebuild, sync, remote commit, install | three writers, multi-file commit, a commit sent twice, a killed sync | a complete generation is always served; evidence is not lost; both sites agree |
| Evidence repair (`pt-evidence-repair.mjs`) | dirty marker, review state, audit | choose candidates, read, rebuild | markers removed after a sync that may predate them | new evidence is published |
| Sync scheduler (`Start-NasShadowScheduler.ps1`) | fingerprints, retry state | start, time out, kill, retry | kills at any point, markers | every change is synced |
| Scheduler, wrapper and engine loop (`Start-UserScheduler.ps1`, `Run-Checkin.ps1`, `index.mjs`, `retry-policy.mjs`) | `scheduler-state.json`, run mutex, progress and latest report | look, decide, claim, launch, time out, resume, visit, recover, supplement, merge, collect | resume after a killed run, wake tokens against crashes, shared budgets, retries of several sites behind one upstream | settled sites stay settled; no blind revisit; a wake runs once; a due site is served; runs are bounded |
| Site visit and submission guard (`browser.mjs`, `pt-submission-guard.mjs`, `checkin-click.mjs`) | best result, guard flag, site | open a candidate, look, submit, read back, fail, screenshot, repeat in a fresh context, recover | an answer that never comes, failing pages after a submission, several addresses of one site | a submission in doubt ends the visit and reaches the report; a confirmed day is not submitted again |
| Site adapters (`new-api-signin.mjs`, `anyrouter-api-checkin.mjs`, `oauth-api-checkin.mjs`, `oauth-relogin-checkin.mjs`, the flows of `browser.mjs`) | none of their own | look, submit, judge the answer and the read-backs | rejected captchas and silent answers | a verdict follows from evidence |
| Second factors (`native-pt-two-factor.mjs`, `piggo-login.mjs`, `hhclub-two-factor-login.mjs`, `hddolby-two-factor.mjs`) | one journal file per site, one lock each | prove, book, send, withhold | two processes with one journal and two locks, helpers that outlive their run, midnight | at most one authentication POST a day |
| Login recovery (`index.mjs`, `login-recovery.mjs`, `oauth-login.mjs`, `native-oauth-login.mjs`, the `Recover-*.ps1` helpers) | methods left, outcomes of the round, upstream tries | try a method, be killed, end, adopt, look again | many helpers with their own verdicts, one identity provider behind several sites, forced logouts | no refused credential tried again; no logout of a rewarded account; a claim has its reward |
| Gateway and ledger import (`V2-EngineGateway.ps1`, `legacy-engine.mjs`) | lease nonce, health file | validate, launch, import | a child that outlives its parent | only the lease's own child runs |
| Quota claim and OpenCD quarantine (`quota-claim-guard.mjs`, `harvest-pt-gate.mjs`, `pt-submission-*.mjs`) | report, `site-state.json`, receipts, resolutions, claims | mark, test, settle, claim once, release | two files written one after the other at the end of a run, a reading between runs | an unknown submission is not repeated until a newer unsigned reading releases it, once |
| PT reading (`pt-supplement.mjs`, `pt-read-policy.mjs`, `pt-profile-read.mjs`, `piggo-calendar.mjs`, `hddolby-readonly.mjs`) | none of its own | choose profile and address, read, judge the page | pages of another day, account or session, pages that announce both | a verdict follows from a page of the account and the day |
| Notification outbox (`Submit-UnifiedCheckinReport.ps1`, `notification-reconciliation.mjs`, `Notification-Digest.ps1`, `Gateway-Audit.ps1`, `Invoke-CheckinNotificationOutbox.ps1`) | outbox items, kept receipts, gateway health | reconcile, list, enqueue, supersede, deliver, back off | reporters side by side, death between delivery and its record, outages of the evidence | a site is announced once a day; states are told in order; a recovery follows its outage; receipts outlast outages |
| Generation reader and server (`dashboard-generation.mjs`, `dashboard-server.mjs`) | cached generation | read, validate, serve | files replaced under the reader | no stale or mixed generation |
| Dry transport, candidate protocol | epochs, leases, receipts | claim, fence, report | fencing, replay | at most one receipt; historical, without a production schedule |
| Execution adapters (`new-api-execution-adapter.mjs` and its six siblings) | none of their own | read, submit once, verify | captchas, silent answers, clicked provider buttons | `actionMayHaveHappened` is never false about a request that left |
| Canary runner, execution journal, account handoff (`canary-runner.mjs`, `execution-journal.mjs`, `v1-account-handoff.mjs`, `migration-state.mjs` and the operator's scripts) | execution record of a day, handoff row, migration record | prepare, run, close, recover, reconcile, adopt | a crash between journal, row and migration, scripts without a lock, recovery after an unknown outcome | no submission in doubt is repeated or handed back; the account is V2's only after a sign-in |
| Release, deployment, doctor | release directories | stage, switch, roll back | a failed switch | either the old or the new release |
| Captcha solvers, bookmarks and configuration, snapshot projection, front end, desktop scripts | pages, inputs | I/O and pure data | — | outside these models (section 8) |

How they interact: all executors exclude each other through `v2-run.lock` *and* `run.lock`; the
fallback and the dashboard executor call the PT worker; the PT worker and the engine run the native
gate; the fallback's journal and the native journal are two layers of the same promise (no blind
replay); publication reads what all of them report. Inside a run of the engine, the loop
(`CheckinEngine`) calls the site visit for every selected target, hands the ones that ask for a login
to the login recovery, visits them again and writes the report from which the scheduler plans its next
run, the reporters fill the outbox and the OpenCD quarantine is kept. The canary executor is a second,
smaller engine beside this one, for single accounts that its handoff row takes away from the first. What one model passes to the next is the same small vocabulary
of results: `DailyRun` takes as input the outcomes `SiteVisit` can end with, `SiteVisit` the outcomes
`LoginRecovery` can end with.

The hazards (`hazards` in `PROJECT.json`) name the line at which each difficulty bites and the
properties that would notice.

## 2. Modules

| Module | Models | Uses |
| --- | --- | --- |
| `Lease` | the abstract promise of a lock file: grant, release, die, reclaim | |
| `ExecutionLock` | `execution-lock.mjs`, one file-system call per action | implements `Lease` |
| `RunLock` | `run-lock.mjs` with its guard directory, and `RunLock.ps1` | |
| `NativePtGate` | one account and profile of the native gate: the journal and the sessions that submit under it | |
| `DashboardOperations` | queue on the NAS, worker, files, ssh link | |
| `PtWorker` | controllers, supervised workers, engines, marker, browsers | `Lease` twice: `v2-run.lock`, `run.lock` |
| `PtReading` | the verdict of every passive PT reader on the pages a site may send | |
| `HarvestFallback` | one account of the fallback: planning to receipt, readings, results, budgets | `PtReading` |
| `Publication` | ledger and manifests on both sites, local publishers, sync, remote commit | |
| `RetryPolicy` | `retry-policy.mjs` as operators on results: when a result may be retried, how its schedule advances, the circuit breaker of an upstream | |
| `CheckinEngine` | one engine run of `index.mjs`: selection, visits, recovery rounds, supplement, merged progress and final report | `RetryPolicy` |
| `DailyRun` | scheduler, wrapper and engine over a day, with crashes, time-outs, reboots and operator runs | `CheckinEngine` |
| `NotificationOutbox` | reporters, reconciliation, digest, gateway incidents, outbox files, delivery worker | |
| `SiteAdapters` | for every adapter and page flow, the results its reads, its answer and its read-backs can give | |
| `SiteVisit` | `processTarget` of one site through candidates, attempts, fresh context and recovery | `SiteAdapters` |
| `SubmissionQuarantine` | an OpenCD submission in doubt through the later runs of its day: report, site state, receipts, the one claim | extends `SiteVisit` |
| `TwoFactor` | the five journaled authentications, their journals and locks | |
| `LoginRecovery` | the recovery rounds of a run and every login helper | extends and refines `TwoFactor` |
| `ExecutionAdapters` | the seven adapters of the canary executor: what they answer against what happened | |
| `CanaryExecution` | canary runner, execution journal, account handoff, migration record and the operator's scripts | `ExecutionAdapters` |
| `PtSubmissionProofs` | theorems about `NativePtGate` and about `SubmissionQuarantine` with `SiteVisit` | TLAPS |
| `SupervisionProofs` | theorems about `PtWorker` and about `DailyRun` with its engine and retry policy | TLAPS |
| `ExecutionLockProofs`, `HarvestFallbackProofs`, `CanaryProofs` | theorems about the module of that name | TLAPS |
| `NasProofs` | theorems about `Publication` and `DashboardOperations` | TLAPS |
| `SharedFilesProofs` | theorems about `RunLock` and `NotificationOutbox` | TLAPS |
| `LoginRecoveryProofs` | theorems about `TwoFactor` and `LoginRecovery` | TLAPS |
| `MC*` | symmetry and instance definitions; the `.cfg` files give the constants | |

### Correspondence with the code

**ExecutionLock.** `pc[p]` is the position of a process in `acquireExecutionLock` /
`releaseExecutionLock`: every `openSync`, `readFileSync`, `process.kill(pid,0)` and `unlinkSync` is
an action. `file` distinguishes a created file from one whose owner has been written, because a
reader of the first kind refuses. `Proc` are process incarnations (a nonce each); `reused` records
that a dead owner's pid answers again. `Attempts` is the code's two passes.

**RunLock.** `Guarding` is `withLockGuard`, `Acquire` and `Release` are what runs inside it, and
`ParentMatch`/`ParentRemove` are the two halves of the PowerShell clean-up. The hundred attempts
at the guard are a nondeterministic give-up (`GuardTimeout`). A guard grows old only when its
creator is dead: a live section is much shorter than ten seconds. `trespass` is a history variable:
it becomes true when a live process's guard, or a lock file that is not the one that was matched,
is removed.

**NativePtGate.** Each gate call (`readback`, `inspect`, `begin`, `finish`) is an action with a time
parameter `t` between the session's previous step and now, because the code reads its clock on entry
and takes the journal lock later. `Write` is the request with its four outcomes: accepted or not,
answer seen or lost. `observed` and `report` are the two other evidence sources the gate consults.

**DashboardOperations.** A queue operation is one locked transaction; a report is refused by the checks of
`finishOperation` (`Refuses`), an `unfit` result being one whose text it does not take. `NoAnswer` is a call that was
lost, was applied, or will be applied later (`late`). The worker's program counter follows
`process-dashboard-operations.mjs`: resend every unreported result, claim, save, execute, save the
result, report, mark. `ran` is a history variable: what the executions of a request have come to.
`Trimmed` keeps the order of the requests it keeps, by positions (`Ascending`).

**PtWorker.** `pc`/`job` are the controllers (`runPtSite`, `spawnPtSiteChild`, `runLegacyEngine`),
`life` the children, `browsers` the private browsers. `Sweep` is `Cleanup-PtWorker.ps1`: it may stop
a worker and the browser below it, never the browser of a worker that is already dead, and reports
completion only if nothing is left. Dashboard login windows take the same two locks and the same
reconciliation as `StartEngine` and are not a separate kind of child.

**PtReading.** A page is a record of the facts the readers look at: how it was reached, the day and the
session it was rendered for, what it announces, the accounts its header links to, its marks.
`Binding` is how profile and address are chosen. Each reader (the ordinary passive page, the reviewed
one, recovery, PigGo's calendar, HDDolby, the native interface) is an operator from pages to verdicts;
`Readings[s]` is the set of verdicts when the site has (`s`) or has not recorded the day. `HarvestFallback`
takes the outcome of each reading from it.

**HarvestFallback.** `attempts[d]` and `reads[d]` are the journal file of day `d`, `supplement[d]`
the account's entry of the results file, `task` what the run holds in memory, `exec` the executor
that may submit. Each write of a file is an action, so a crash may fall between any two. `kind` says
which of the code's four treatments the account gets under the current configuration. `sent`,
`sure` and `signedDays` are history and environment: what the site has seen. Journal states the code
treats alike are merged (`deferred`, `over`).

**Publication.** `ledger`, `cur`, `prev` are the files at each site. The publisher (`pub`) is the
engine or the evidence rebuild, which exclude each other by `v2-run.lock`; the sync (`sync`) and the
evidence rebuild exclude each other by `shadow-publication.lock` (`lease`). `runs[t][a]` is where
attempt `a` of transaction `t`'s commit script stands on the NAS; `AnswerLost` sends it again. A lost or
timed-out connection stops the local `ssh` only: a command runs on, beside the attempt or the sync after it, or
goes no further than it got. `past` is a history variable that names the only three events after which a
guarantee is weaker: an engine that wrote during a sync (`overlap`), a sync that ended with the NAS ahead
(`half`), a file replaced by a command whose sync was over (`late`).

**RetryPolicy, CheckinEngine, DailyRun.** Time is counted in slots of a day. A result is a record of
status, cause, retry sequence, next eligible time and the flags of the circuit breaker; the terminal
statuses are merged as `done`. `eng` is what the engine holds in memory: the report it resumed
(`base`), what is still to visit (`todo`), the results so far. `EngineStep` writes `progress.json`
after each visit; `latest` is `latest.json`. `wrap` is `Run-Checkin.ps1` with its mutex: it starts the
engine up to `RunAttempts` times, each time from today's report or from the progress file of the
attempt it timed out. `sched` is `scheduler-state.json`, and the scheduler's tick is split where the
code reads, writes and waits: `Look` (read the report), `Decide` (plan change, waiting, due sites),
`Claim` and `Launch`, `Collect`. A crash may fall between any two of them; the state file survives.
`starts` and `launched` are history variables. Time passes during an engine run only before its first
visit.

**NotificationOutbox.** `box` maps event keys to items. A reporter passes through reconciliation
(which may or may not reach the snapshot), the saved receipts, the digest mutex, the list of events
and one file per event; several reporters run side by side and may die between two. The worker scans
the directory, supersedes older items of a scope, sends one item and records it: the command may be
accepted and its answer lost, which is also what a crash of the worker at that point amounts to. A
behaviour has one producer (digest, notice per change, gateway), since they meet in the worker only,
which keeps their scopes apart. A report is of a plan (its fingerprint and targets); the kept receipts are of
one, too (`scope`), and count for nothing under another. `told` and `doubled` are history variables.

**SiteAdapters, SiteVisit.** A target is a sequence of candidates, a candidate a sequence of stages in
the order `processCandidateBody` tries them; which stages apply to a page is given by the instance. For
each stage `Look` gives the results possible before a submission, `After` those possible once the
request is out and the site has (or has not) recorded the day, `Spent` what a stage concludes when its
attempts are used up. A submission takes two steps, `Submit` and `AnswerArrives`, and the site may
record it before the answer, after it or never (`flying`, `Land`, `Drop`). `PageBreaks` is any exception
in between, with `guardPtSubmission` deciding what becomes of it. `Anew` is the one repetition in a
fresh context, `Recover` a recovery round. `doubt` and `told` are history variables: what the engine
could know.

**SubmissionQuarantine.** Around the visits of `SiteVisit`: `WriteReport` and `WriteSiteState` are the two
files a run ends with, one after the other, `Dies` a run that ends before either. `Read` is the passive
reader between two runs; `NextRun` and then one of `Unbound`, `Verified`, `Held`, `Claim`, `Open` is what
the guards decide before the next visit. `risk`, `licence` and `lost` are history variables.

**TwoFactor.** A session begins (day and journal read), prepares (forms, code), books its attempt in
the journal file, sends, and finishes or dies at any point. `mem` is the journal as the session holds
it in memory: what it writes replaces the file. `engineUp` is the engine that holds `tmp/run.lock`;
an engine may die while its helper lives on (`orphan`). `stepup` and `password` share one file, each
under its own lock. `sent` counts POSTs by what booked them; those `hhclub`'s form makes by itself are `unbooked`. `lost` and `orphaned` are history variables.

**LoginRecovery.** `left` are the methods still to be tried for the site at work, in the order of
`index.mjs`; `oa` is the position of the OAuth helper at work (`OAuthEnter` to `NativeVerify`), `account`
who is logged in at the site and `rewards` which account has its reward of the day. The tiers of
`Recover-ProtectedLogin.ps1` are actions of their own. Every helper may be killed at any step.

**ExecutionAdapters, CanaryExecution.** An adapter's `submit_once` ends in an *outcome*: its answer,
its `actionMayHaveHappened`, and, as the truth beside them, whether a request left undenied and what the
site holds. `Answers` are the classes a site's answer falls into, and an adapter is the classes it accepts
and the classes it calls unknown. `CanaryExecution` is one account and one business date: `tasks`, `journal`,
`audit`, `row` and `migration` are the files and tables per day, `run` is the runner's position (claim of the
record, handoff, submission, verification, close), the scripts that prepare, observe, recover, reconcile and
adopt take no lock and come between any two of its steps. `submitted`, `doubt`, `misjudged` and `adopted` are
history variables.

## 3. What the runs check

| Run | Instance | What it shows |
| --- | --- | --- |
| `exec_lock` | 3 processes, 2 deaths | mutual exclusion; the file protocol implements `Lease`; an abandoned lease is reclaimed unless the reclaimer died too or the pid is in use |
| `run_lock` | 3 processes, 1 death | exclusion and ownership of the file until a `trespass`; a dead owner's lock is reclaimed, orphaned guards included |
| `native_gate` | 2 sessions, 2 days | no replay of an accepted request; confirmations are true |
| `operations` | 3 requests for one target, 2 days, a queue that remembers 1 | one active request per target, no blind re-execution, claims drain unless a result is stuck |
| `pt_worker` | 3 controllers (1 death), 2 workers, 1 engine | the marker covers survivors, one driver, the barrier clears |
| `fallback` | plain, bound or native account, 2 runs, 1 crash, 2 days, all limits 1 | sent requests stay on record, budgets across runs and crashes, no blind replay |
| `publication` | 2 syncs of 2 commit commands each, 3 builds, 2 contents | served until a named event, evidence kept, the ledger grows unless overlapped |
| `daily` | 2 sites of one upstream, a day and a half, 1 disturbance | no blind revisit, a wake runs once, settled sites stay settled, a due site is served |
| `outbox` | 2 sites, 2 plans, 2 reporters, 2 changes, 1 fault, 2 incidents | one announcement per site and day, states in order, recoveries follow outages, receipts outlast the outages of their plan's day |
| `visit` | 8 kinds of targets, 2 attempts, fresh context, 1 recovery round, for OpenCD 3 runs | a submission in doubt ends the visit and needs attention, a confirmed day ends it |
| `login` | 7 installations, 2 runs of 2 rounds, 1 midnight | one booked authentication a day unless lost to an orphan, orphans alone lose entries, refusals end logins, claims are proved |
| `canary` | a fresh account of each of 7 kinds, 5 accounts with a history, 1 plan change, 1 fault | doubt is journalled and keeps the account, ownership is earned, submissions are bounded, nothing is resent blindly |

All twelve runs pass; where a property names an exception, section 5 describes the behaviour behind it.
The type invariants are not among the runs' properties: where a module has a proof module, type
correctness is part of the inductive invariant proved there.

Every property of a run has a *mutant*: a plausible bug in one definition (a dropped guard, a
swapped order, a comparison left out) under which TLC finds that property violated in the same
instance. The mutants stand in the modules directly before the definition they alter.

Further properties stand in the modules and are in no run. Fourteen are theorems: `OneOpenIntentPerDay` and
`LandedIsJournalled` of the native gate, `UnlinksOnlyDeadOwners` of the execution lock, `NoStartOverSurvivor`
of the worker, `ConfirmedIsTrue`, `ConfirmationStands` and `OverMidnight` of the fallback, `UpstreamIsSpared`
and `LogoutIsJustified` of the login recovery, `EndedIsFinal` and `ReportedIsRecorded` of the dashboard's requests,
`LoginIsClean` of the visit, `OpenIsAttended` of the V2 executor, `SyncedSitesAgree` of the
publication. The others were checked by hand on the same or smaller instances: `ServedMovesForward`,
`RetryKeepsPrevious` (Publication), `OneLateProbe`, `LaunchesBounded` (DailyRun). And some state what a
comment or a document says although the code does otherwise; section 5 names them: `ResultsDrain`,
`OneReadPerWait`, `LedgerOnlyGrows`, `NeverBlindRevisit`, `DailyBudget`, `ErrorIsRetried`,
`JournalsStayReadable`, `DoubtIsRecorded`, `NotOpenedAgain`.

### Bounds and why they are enough

- *Locks*: three processes are a dead owner, a contender that judges it and a third that takes the
  lease in between; two deaths let the reclaimer die as well.
- *Native gate*: two sessions are the earlier submission and the one that might replay it; the
  clock runs four ticks over days of three, so there is a midnight, and `Fresh` < `Window` < day as
  in the code. More sessions, longer clocks and other windows are covered by the proofs.
- *Operations*: one target, three requests, a queue with room for one active and one finished request:
  the first may be interrupted, the second remembered in its stead and the first trimmed by the third, which
  also gives duplicates and refusals; two claims per request give a requeue; the clock crosses expiry and
  midnight. Ids are used once and drawn in one order (`DrawnInOrder`: they are random, so the order makes no
  difference). Any number of each is covered by the proofs.
- *PT worker*: three controllers are one dead, one reconciling and one contending; the engine is the
  child that outlives its controller. Process incarnations are not re-used.
- *Fallback*: two runs are the smallest number at which a journal is re-read; the days are three
  ticks, limits of one where the code has 3/2/24/3 make them bite. `Fresh = 0` and one-tick cooldowns
  keep the order of the code's five, fifteen and thirty minutes. With two runs the reading budget
  cannot be exceeded by repetition alone; `BudgetsHold` is proved for any number of runs. The reviewed
  reader (`review`) and a manual request were checked with the same properties in instances of their own
  (kinds `plain`, `review`, `native`; kinds `plain`, `review` with one request): with the run's kinds they
  would take too long, and the proofs cover them.
- *Daily*: two sites behind one upstream are the least for a shared circuit; the second waits for
  Harvest or ends unknown. Days of two slots, the second late, contain a late probe and a midnight. One
  disturbance (crash, time-out, reboot, operator run, plan change) may fall anywhere; two of them were
  checked up to the second slot with one engine attempt (7.1 million states).
- *Outbox*: two slots of a day are the digest time and the time a missing run is reported; a fault is a
  death or a lost answer. `MaxIncidents` counts failures and recoveries of the gateway. Two plans are that of the
  kept receipts and another one; the day's first report does not choose between them (`FirstPlanStands`: nothing is
  kept under a plan before it). A longer horizon
  over midnight was checked by hand (`Start = 1`, `Horizon = 2`, 9.4 million states).
- *Visit*: the eight targets contain every stage, each before and after another that submits. Two
  submissions are told apart; `MaxTries` allows a captcha three tries, as the code does. Reads are
  truthful but may fail. Three runs are the one that submits, one that finds the doubt and one after a
  released claim; the other targets have one run, since nothing of a visit outlives it there.
- *Login*: the seven installations are the journaled logins one by one, the protected tiers, two sites
  behind one OAuth upstream and a forced logout; installations do not interact otherwise. Two runs with
  one midnight let a helper of the first work beside the second.
- *Canary*: the accounts are each kind without a past, one whose plan may change, and four left by
  yesterday (owned, kept in the handoff, blocked with a pending row, submission unknown on a signed or an
  unsigned site). One fault is a crash or a write that fails, at any step; the proofs cover any number.
- *Publication*: two syncs are the one whose commit command is left behind and the one it meets, and each
  may send its command twice; two contents are a state and its return. `NasNotExcused` checks a state in which
  `half` or `late` has happened and does not continue from it: no property then says anything of the NAS any
  more, and what the local directory does later it also does after behaviours without these events. Without
  `late` in the condition TLC finds `AlwaysServed` violated (section 5, 12). The proofs cover any number of syncs.
- `CHECK_DEADLOCK FALSE` is used only in the modules whose clocks and counters are bounded by
  `Horizon`, `MaxBuilds`, `MaxSyncs`, `MaxRuns`, `MaxFaults` or `LastDay`, or whose one visit ends: their
  behaviours end when these are used up.
- Symmetry is declared only in runs without liveness properties.

### Fairness and why the code justifies it

- `ExecutionLock`, `RunLock`: weak fairness of each process's own steps: the scheduled tasks run on
  their triggers and a process that is not killed runs on. Crashes, pid reuse and the parent's
  clean-up are never owed.
- `DashboardOperations`: weak fairness of the worker's local steps and of time-outs (the scheduler
  starts a worker in every round and every ssh call has a timeout); strong fairness of resending,
  answering and marking (the link works again and again, and no step is the one the worker dies in
  for ever).
- `PtWorker`: strong fairness of a controller's acquisition and of a cleanup that finds nothing
  (controllers are started repeatedly and take turns at the lease), weak fairness of controller
  steps, of the children, which all have time-outs, and of a left-behind browser closing (the
  operator closes it; the code never kills it).
- `DailyRun` states weak fairness of scheduler, wrapper and engine (a task that is not killed runs on,
  and the task scheduler starts it again); the properties of its run are safety properties and do not
  depend on it. The other modules state none.

## 4. What is proved

TLC checks the instances above; the following hold for every value of the constants. Each module's proofs
rest on the one assumption it names (`ExecutionLockAssumption` and so on: sets are disjoint, bounds are
naturals), which the module declares and the runs evaluate. Each proof has one lemma or step per action.

**ExecutionLockProofs.** From `NoProc \notin Proc`.
- `LockExcludes`, `ReclaimIsSafe`: mutual exclusion is not inductive, since it says nothing of a
  contender about to unlink. `IInv` adds that a process in acquisition owns the file it created
  (`FileHeld`), that a process in the reclaim section owns the guard (`GuardHeld`), and that the file
  it re-read is still the dead owner's (`JudgedFile`). The `Unlink` step is the heart: its owner is
  dead and the guard is ours, so nobody's claim is removed.
- `FileProtocolImplementsLease`: the refinement; every step maps to a lease step or a stutter.

**SharedFilesProofs, the run lock.** From `NoProc \notin Proc`.
- `RunLockExcludes`, `RunLeaseIsItsOwners`: `IInv` says, as long as nothing was trespassed upon, that
  whoever works inside the guard made it (`GuardHeld`), that the file is that of the process writing
  it or working under it (`FileHeld`), and that a file about to be removed has no live owner
  (`JudgedFile`); `DeadAreDead` keeps parents' clean-ups to the dead. Only `BreakGuard` and
  `ParentRemove` can end this, and both set `trespass` when they do.

**SharedFilesProofs, the outbox.** For any sites, reporters, incidents and deaths. `OutboxIsTyped` is the type
with what the worker's copies and the reporters' batches refer to; `Bounded` says that some number is above
every stamp, from which `NextStampIsLate` follows by the least-element theorem for the naturals.
- `SitesAreAnnouncedOnce`: a batch computed inside the mutex stays disjoint from what is in the outbox until
  it is written (`BatchIsFresh`), because one reporter writes at a time and every other writer of the
  outbox, the worker included, leaves the news of an item as they were (`CopiesKeepNews`).
- `RecoveriesHaveOutages`: an incident marked as announced has its notice in the outbox
  (`OutageIsQueued`); the code queues first and marks afterwards.
- `ReceiptsAreKept`: a reporter alone between its reading and its writing, with a report of the plan the receipts
  are of, holds every receipt that is kept and not denied (`LoneReaderHoldsAll`).
- `StatesAreToldInOrder`: the worker looks at an old reading and writers resurrect items it has superseded.
  What is superseded, in the outbox, in a writer's hands or in the worker's, has a newer item of its scope in
  the outbox (`SupersededIsTopped`, `ReplacesAreUnique`, `CopiesKeepStamps`), so the newest item the worker may deliver is the
  newest of its scope (`NewestIsReadable`) and newer than all that was told (`DueIsNewest`). Stamps name keys
  only until two reporters create one state's item at once, which is where the property stops, too.

**PtSubmissionProofs, the native gate.** From the naturals-and-positive-day assumption alone; nothing relates the
windows to the day length.
- `AcceptedIsNotReplayed`, `OneIntentADay`, `ConfirmationIsTrue`, `AcceptedIsJournalled`: `IInv`
  orders every event of a session against every reading. `ReadingsArePast` says readings are older
  than the live session's last step; `SignedIsTrue` that what says "signed" is so; `LandedOrder`
  puts each accepted request after every unsigned reading of its day and before every later receipt;
  `LiveIsNewer` says that a session about to write has seen its day without an accepted request. A
  replay would need an unsigned reading newer than the accepted intent on its own day, which
  `LandedOrder` excludes.

**PtSubmissionProofs, the visit.** From the bounds and from `TargetAssumption`: OpenCD is a PT tracker, and the
adapters of a New API gateway, the only ones that conclude "no check-in here", are not applied to one
(`shouldTryGenericNewApiCheckin`, `browser.mjs:142`). For any targets with any candidates and stages, any number
of attempts, recovery rounds and runs.
- `ConfirmedIsNotOpenedAgain`, `DoubtIsReported`: `SignedIsTold` says that the result is a check-in exactly if one was
  read, `DoubtStops` that a doubt of this run is in the guard's flag until the candidate ends and in the result from
  then on. The lemmas `LookIsTyped`, `AnswersAreTyped` and `FailureIsTyped` say what a candidate may end with,
  `PreferredResult` that no other result outweighs one that needs attention.
- `DoubtIsNotOpenedAgain`: a doubt of an earlier run is on record (`DoubtOnRecord`) in one of four places, and a run
  is on the site in spite of it for a reason only (`OpenedForAReason`). Around it: an unsigned receipt is newer than
  every submission (`ReceiptsHold`), yesterday's pending entry lets nobody past without a claim (`OldPending`), and
  between report and site state one of the two knows (`RecoveryHolds`, `ReportHolds`).
- `LoginResultsAreClean`: of what was submitted in a call, `Accounted` says who knows: the candidate still at work,
  or `clean` (`allCandidatesUnsubmitted`) is false, without which the result cannot deny a submission; only a candidate
  that hid its submission, or a screenshot that threw, escapes it.
- `QuarantineIsTyped`.

**SupervisionProofs, the worker.** From the disjointness of controllers, workers and engines.
- `BarrierCoversSurvivors`, `StartsAreGuarded`, `DriversExclude`: `IInv` says the lease holder is
  alive (`LeaseHeld`), the marker is that of the run in progress and absent when something is about
  to start (`MarkerHeld`), nothing of the worker is left when its marker is about to go
  (`NothingLeft`), exits and browsers agree (`ChildrenConsistent`), and who drives holds the run lock
  (`DriverHoldsRunLock`).

**SupervisionProofs, the day.** For any sites, groups, outcomes, limits and budgets, any number of crashes, reboots,
operator runs and plan changes. The assumptions: limits are positive (`RetryAssumption`, `DayAssumption`), the
doubled delay is a positive number (`BackoffAssumption`: exponentiation is unknown to the provers), and a visit
gives no retry time of its own and leaves a sent submission settled or with a person (`EngineAssumption`; the
gates' own times are a slot later, `guardPtSubmission` and `waitForAuthoritativeCheckin` end every doubt with
"needs attention"). `DayInv` has four parts, each inductive over the ones before:
- `WorldInv`, engine, report and calendar: a resumed engine keeps what its report settled, opens nothing in
  doubt unless it was selected, and no result asks for a retry before the day of its report. It rests on what
  each operator of the retry policy may do to a result (`Follows` in the lemmas `AdvanceFollows`,
  `FinalFollows` and those before them).
- `WrapInv`: one wrapper drives the engine that is not an orphan, and what it resumes is not newer than the report.
- `SchedInv`: a wake that was launched for the state's plan is of its wake day at the latest, and if of that day it is
  among its tokens (`ClaimsAreKept`). An engine that outlives its scheduler, a claim that fails and a
  state reset on a new day or plan all keep it.
- `WakeInv`: the view the scheduler decides on is the latest report unless one was written since, and a woken
  site has nothing in doubt from the claim to the engine's selection.

From it: `NothingIsRevisitedBlindly` (the exception is behaviour 8 of section 5), `SitesAreWokenOnce`,
`SettledStaysSettled`, `DueSitesAreServed`, `DayIsTyped`. The four hold on TLC's instance of two sites and a
day and a half; the theorems cover any plan of sites and any length.

**HarvestFallbackProofs.** For any candidates, budgets, windows, runs and crashes.
- `FallbackIsTyped`: `Typed`, the type together with where `task` and `exec` may point.
- `SentStaysOnRecord`: an executor may live on after its run and answer into a journal that a later run
  has rewritten. `OnRecord` says that whatever may still submit points at an attempt of its own in the
  journal (`Pointed`, `Executing`), that the attempt the run works on is that one (`AtWork`), and then
  the property itself.
- `BudgetsHold`: an attempt is booked before anything is sent and may be forgiven afterwards, so the
  property alone is not inductive. `AttemptsInBudget` counts the run's own attempt whatever its state
  (`Spent`) and keeps room while a run may still begin one; `ReadsInBudget` counts wakeup readings and
  scheduled ones apart. TLC's two runs cannot exhaust the reading budget; the theorem covers any number.
- `NeverReplaysBlindly`: a doubtful attempt on record leads to a new one only upon an unsigned reading
  newer than every request. `Sighted` orders readings and requests, `Answered` says what an answer that
  was taken proves, `Unguarded` lists the attempts that need no reading because nothing of them was sent.
- `ReadersTellTheTruth`, over `PtReading`'s operators: for a day the site has recorded or not, no page, owner or
  profile makes an admitted reader (passive, after a login, by a pair of pages, through the native helper)
  return the opposite verdict. It follows reader by reader from what a page that is the account's own can show.
- `FallbackConfirmsTheTruth`: the readings are true of the day they were made on; `Witnessed` carries that day
  to where they are booked, past every midnight a run may cross in between. An executor says "signed" only with
  evidence (section 6), and that assumption is the other half of the theorem.
- `ConfirmationsStand`: `Unconfirmed` says that from the moment a run has considered its account until it
  publishes a result, its day is unconfirmed. So whatever it begins or writes, it does not do to a confirmed day.
- `MidnightLeavesNoneCompleted`: `Dated` gives every attempt its times in order, none before its day, and says
  that a completed one, and one about to be called that, has ended on the day it is booked under.

**NasProofs, publication.** For any number of syncs, whatever commit commands run on.
- `TypeCorrect`: needs that files under temporary names belong to a stage that exists.
- `EvidenceSurvives`: the sync overwrites the ledger with a copy; the copy always has every evidence
  record because the evidence rebuild needs the lease the sync holds (`LeaseHeld`,
  `CopyKeepsEvidence`).
- `LocalLedgerGrows`: until an engine writes during a sync the copy extends the ledger
  (`CopyExtends`). Without the condition it is false; section 5 (4) has the behaviour.
- `LocalGenerationIsServed`: until then the local generation is also complete and served. `TimelyInv`
  says that nothing is recorded before it is built, `Built` that what a sync built is complete over its
  copy of the ledger, `LocalServed` that the local manifest, and the one about to be written, are complete
  over the ledger as it stands and that a sync installs no shorter one.
- `GenerationIsServed`: the same for the NAS, until `half` or `late`. Both attempts of a sync may be at work at
  once, and those of earlier syncs beside them. `Begun` says that only committed transactions have commands,
  `OwnFiles` and `Carried` that what a command of a sync that goes on puts in place is what that sync built,
  `NasServed` that the NAS is never ahead of what the next sync starts from, so that a commit that stops
  between ledger and manifest leaves the old manifest complete over the new ledger. Without `late` the
  property is false (section 5, 12).
- `SyncedSitesAreAgreed`: until `overlap` or `late`. `Mirrored` says that a command that has reached its end has
  installed the ledger and the manifest of its own sync, that a second one beside it installs the same, and that
  both still stand when the sync has installed them locally.

**NasProofs, requests of the dashboard.** For any number of requests, accounts, claims and days.
- `OneRequestIsActive`: an answer of the worker may arrive late, after its request has expired and
  another one of the same target was accepted; it must not revive the first. `Sole` is the property;
  around it `Distinct` (an id stands once in the queue), `ClaimsAreIssued` (no call carries a claim the
  queue has not issued), and the lemmas about what expiry, trimming, claiming and finishing keep.
- `NothingReexecutesBlindly`: a request that is queued, or whose late answer would queue it again, has no
  execution of unknown outcome (`QueuedIsClear`, `LateIsKnown`, `FilesAreClear`, `FreshClaim`), and a
  worker that is about to execute holds the newest claim of a running request unless its day is over
  (`LeaseStands`). The heart is that a report says "queued" only if the execution it reports was deferred.
- `EndedStaysEnded`: `Moves` is what a transaction of the queue may do to a request, and every transaction does
  only that (`QueueMoves`). An ended request keeps its status or is trimmed, and a new one takes a new id.
- `ReportsReachTheQueue`: between the accepted report and the worker's mark the claim may be lost to another one.
  `Recorded` says that already before the mark the request is settled under the claim that reported; claims only
  grow, so a later one does not contradict it.
- The lemma `AscendingOrders` (a finite set of positions has its members in order, each once) stands for
  what an induction would prove about `Trimmed`.

**LoginRecoveryProofs.** From the assumptions on the kinds of authentication and on the installations.
- `AuthenticatesOnce`, `OnlyOrphansLose`: what was sent is booked, in the journal or among the entries a
  second writer lost (`SentIsRecorded`, with the lemma `Monotone`: journal and losses together never
  shrink), and who is about to send is the first (`SendingIsFirst`). `Attended` says that while no
  helper has outlived its run, each writer's memory is the journal file and the writers of one file
  exclude each other through `tmp/run.lock`; so nothing is lost before.
- `RecoveryIsFactored`: every behaviour of `LoginRecovery` is one of `TwoFactor` (each helper's step is a
  step of its session or leaves the journals alone); `LoginsAuthenticateOnce` follows.
- `RefusalIsFinal`: `RefusalStands` keeps the refusal with the methods left over.
- `ClaimsAreProved`: what is booked as signed is a reward of the account that day, unless the run went
  over midnight; the invariant `Evidenced` carries it through outcomes handed from round to round.
- `UpstreamStaysSpared`: `Spared` says that the counter a site is refused by is the report's failures and those
  of this round's sites whose outcome is "upstream", and that whoever is still queued or at work has no outcome
  yet, so each is counted once. A configuration has finitely many sites (part of `LoginRecoveryAssumption`).
- `LogoutsAreJustified`: a helper reads the account in one step and logs out in a later one. `Founded` says that
  one about to log out was forced to by the site's rule, or is at an account that is not logged in or has no
  reward today. Until it logs out nothing else changes the account or adds a reward of the day, and a midnight
  in between leaves the new day without one.

**CanaryProofs.** For any accounts, plans and faults.
- `SubmissionsAreBounded`: every call of `submit_once` but the first of a day is paid for by a recovery
  (`Paid`: submissions so far and one that is due are at most one more than the recoveries on record),
  and the audit table admits two.
- `DoubtStaysJournalled`, `NothingIsResentBlindly`: `DoubtInv` adds that a denial in the journal is as
  fresh as the record (`DenialsAreFresh`), that nothing is sent while in doubt (`SendsUndoubted`) and what
  the runner remembers between two writes (`RunnerRemembers`).
- `DoubtKeepsItsAccount`: `KeptInv`, the handoff row of a doubtful day is there and does not expire.
- `OwnershipIsEarned`: a day on record as succeeded is one (`Truthful`), and whatever owns an account, or is
  about to write that it does, rests on such a day.
- `OpenRecordsAreAttended`: `Attended` says that a run at work knows by its prepared intent whether its record is
  reserved or prepared, so that the journal accepts whatever the run concludes or falls back to; no script touches a
  record in these two states.
- `ExecutorIsTyped`.

**Only model-checked.** Liveness (`AbandonedIsReclaimed`, `DeadOwnerIsReclaimed`, `BarrierClears`,
`DrainsUnlessStuck`): temporal reasoning under fairness and ENABLED is out of the prover's reach. Every safety
property of a run is a theorem; of those outside the runs, the four that section 3 names as checked by hand are
not. Nothing is proved about what a recursive definition computes; no module
declares one.

## 5. Where the code and its own statements disagree

No run expects a violation. The properties of the runs name the exceptions below, and the properties that
state the sentence as it was written were checked by hand.

### Behaviours behind the exceptions

1. **Run lock clean-up** (`execution/scripts/RunLock.ps1:18`). `Remove-RunLockOwnedByProcess` matches
   pid and start time, then removes the path, without the guard every other operation takes. Between
   the two, another run may reclaim the dead child's lock; its lease is then removed and a third run
   is let in. `execution/tests/run-lock.test.mjs:51` says that only the matching lock is removed, `:27`
   that a live lock refuses a second run. `trespass` names it.
2. **Results refused for ever** (`observation/src/dashboard-operations.mjs:102-115`). The worker resends
   unreported results before it claims, so a result the queue refuses keeps it from every other request, where
   `process-dashboard-operations.mjs:29` and `:31` tell the user that the request will be looked at again soon.
   There are three such results. A *deferral that lapses*: its retry time is absolute, and once that has passed
   unreported the queue refuses it (`:110`). A *request that is trimmed*: expiry ends an unreported request as
   interrupted, later requests push it out of the last ones the queue keeps (`:82`), and its report then finds
   nothing (`:106`). A *text the queue does not take* (`:103`): the dashboard's worker sends the helper's text
   as it is. The texts of this repository's own helpers are fixed or cut to 160 characters
   (`pt-site-execution.mjs:55`), so it takes another helper; the queue's check does not rely on that.
   `DrainsUnlessStuck` names the three (`Lapsed`, `Forgotten`, `Unfit`) and shows that there is no fourth;
   `ResultsDrain` is the property without exception.
3. **Harvest wait** (`observation/src/harvest-fallback.mjs:381`). A wait whose cooldown is over makes
   a reading due before limit and spacing are looked at, and it is marked as used only when an
   attempt is dispatched. An inconclusive reading therefore repeats on every pass, where the comment
   at `:376` says "permit exactly one policy-wakeup read" and
   `docs/6.1sol-evidence-lifecycle-closure-plan-20261009.md:83` the same. `Budgets` counts these readings apart;
   `OneReadPerWait` is the sentence.
4. **Ledger overwritten** (`observation/scripts/Sync-NasShadow.ps1:319`). The sync works on a copy of
   the ledger and installs it over the original. The engine appends to the original without the
   publication lease, also from the fallback that the sync itself runs: its record is lost.
   `observation/README.md:52` calls the ledger append-only. `past` contains `"overlap"`; `LedgerOnlyGrows` is
   the sentence.
5. **Half a publication** (`past` contains `"half"`). When a sync ends between the NAS commit and the
   local installation, the next local ledger need not extend the NAS one; if the next commit is
   interrupted between ledger and manifest, neither NAS manifest matches its ledger, and the NAS has
   no complete generation until the following sync.
6. **Guard theft** (`execution/src/run-lock.mjs:107`). A waiter that judged an orphaned guard may remove
   the next waiter's fresh one; it needs an orphaned guard and two waiters within one instant.
7. **A wakeup asked twice** (`harvest-fallback.mjs:371` and `:512`). `unsignedWakeupDue` is asked with the
   time the candidate was chosen at and again with the clock: a receipt that lapses in between leaves a
   reading that is counted in neither budget.
8. **Stale copy of the report** (`execution/src/index.mjs:400`). The scheduler reads `latest.json`, waits for
   its flush and then decides: a stale reading may wake a site whose submission has become unknown in
   between, and an explicit selection visits everything that is not terminal (`:400-415`). The comment at
   `Start-UserScheduler.ps1:479-480` relies on the "resume/unknown guards". `NoBlindRevisit` excepts a report
   written in between; `NeverBlindRevisit` is the sentence.
9. **Screenshot of the failing page** (`execution/src/browser.mjs:1838`). The failure screenshot
   (`failureScreenshots`, on in `execution/config/defaults.json`) is taken inside the `try`. If it throws after a
   guarded submission, the next attempt opens every candidate again although the submission is unknown, where
   `pt-submission-guard.mjs:22` says 「先只读复核，禁止自动重放」 (look first, never replay) and
   `observation/README.md:15` "an uncertain previous submission is never replayed". It may also
   replace a confirmed result. `NotOpenedAgain` is the sentence.
10. **OpenCD doubt without a record** (`execution/src/index.mjs:1128`). A submission in doubt leaves no record if its
   result is masked by another of the same priority (`browser.mjs:63-73`, a complex captcha at `:338`), if the run dies
   before report and site state, or if a run without a valid binding overwrites the report before the site state was
   written. The next run may submit again. `DoubtEndsTheVisit` excepts exactly these (`lost`);
   `DoubtIsRecorded` is the sentence.
11. **Adoption of an undecided day** (`observation/scripts/adopt-v2-checkin.mjs:18`). The script begins the handoff
   before it looks at the journal: adopting a day that is still undecided, or any other day, replaces a
   quarantined or owned row; during a run it also turns that run's success into an unknown submission.
12. **A commit command that runs on** (`observation/scripts/Sync-ShadowPublication.ps1:165`). The command is run by
   `ssh -T`, without a terminal; after a time-out or a broken connection the local `ssh` is killed (`:60-77`,
   `Sync-Transport.ps1:124-163`) and the command sent once more, but nothing ends the first on the NAS. Within its
   own sync that is harmless, both install the same files. When the sync is over (killed between the two, say) and
   the next one has committed, the command left behind may still do its last moves: its ledger, shorter than
   the new one, comes under the new manifest, the previous manifest need not match it either, and the NAS has no
   complete generation until the following sync. `past` contains `"late"` from then on; `AlwaysServed` and `SyncedSitesAgree` except it.
13. **Receipts of another plan** (`execution/src/notification-reconciliation.mjs:123`). Kept receipts count only for
   the plan (fingerprint, targets, controller) they were written under. When the day's plan changes while the
   evidence cannot be read, verified receipts are discarded and their sites are problems again, as
   `execution/tests/notification-reconciliation.test.mjs:332-333` asserts. `ReceiptsOutlastOutages` excepts a change of
   `scope`.
14. **Unbooked POSTs of `hhclub`** (`execution/src/hhclub-two-factor-login.mjs:347`). The code is filled in before the
   attempt is booked (`:357-358`); a form that submits itself on input sends a POST that no journal knows, and
   the next helper of the day may send another. `OneAuthenticationADay` speaks of booked ones.

### Further disagreements, module by module

- *Scheduler.* `Get-LatestReportState` returns the old fingerprint of an invalid report, so a change of
  plan is seen at every tick (`Start-UserScheduler.ps1:569`) and `attemptsToday` is zeroed each minute, where
  `execution/README.md:64` promises a daily limit (`DailyBudget`). `Write-SchedulerFailureState` drops
  `automaticRetryCount`, so the retry the comment at `:477-478` announces waits for the next day (`ErrorIsRetried`).
  `progress.json` has no plan fingerprint: after a time-out the second attempt runs the whole plan again, against
  `execution/README.md:61` and `:63`. Site wakeups are said to have a budget of their own; the claim charges them to
  `attemptsToday` as well.
- *Outbox.* With a notice per change, a state that goes A, B, A while the first A is pending leaves B as the newest
  (`Submit-UnifiedCheckinReport.ps1:460`, `Invoke-CheckinNotificationOutbox.ps1:183-186`), against
  `execution/README.md:140`. A gateway that dies between queueing "recovered" and resetting its health leaves the next
  outage unreported (`Gateway-Audit.ps1:99-107`, `execution/docs/gateway-health.md:18`). A notice of an outage that
  waits for its backoff may be told after its recovery. Two reconcilers side by side may lose a kept receipt
  (`notification-reconciliation.mjs:174`).
- *Adapters.* AnyRouter's branch for an unconfirmed answer names `afterResponse` outside its scope and throws, so
  the POST is made again (`anyrouter-api-checkin.mjs:265-268`). A New API POST without an answer returns nothing,
  and the page's button may submit again, against the comment at `browser.mjs:1022-1024`. A page failure after an
  API POST may be reported as a missing login with `submissionAttempted:false` (`browser.mjs:1681`).
- *Second factors.* `recoverPiggoPasswordLogin` (`native-pt-two-factor.mjs:366-477`) is not called in production. The
  comment at `:276-277` ("a crash or ambiguous response cannot cause a second authentication POST") does not hold after
  an orphaned helper: step-up and PigGo's password share a journal under different locks. A journal may be written
  with a date its own reader then rejects as a whole (`JournalsStayReadable`: `piggo-login.mjs:172`,
  `hddolby-two-factor.mjs:153-154`). `hhclub` types its code before it books the attempt (14 above), which
  the comments of the others warn against.
- *Login recovery.* `native-oauth-login.mjs:409-411` keeps other read outcomes read-only, but
  `Recover-NativeOAuthLogin.ps1` runs the plain round after any failed first one and its regular expression drops two
  failure codes. `oauth-login.mjs` with a forced logout logs out before it reads the evidence
  (comment at `oauth-relogin-checkin.mjs:11-13`). The counter of an upstream is rebuilt each round (`index.mjs:758`).
  The day of an OAuth helper's evidence is not checked (`login-recovery.mjs:66-106`), PigGo's is. A helper killed after
  its journaled POST is followed by a plain password helper that ignores the journal. `Recover-ProtectedLogin.ps1` goes on
  to the native tier after the automation tier's `two_factor_required`, though the window tier stops for it; a tier
  that submitted without establishing a session is followed by others that submit the same password.
  `Recover-NativeLogin.ps1` repeats the native login up to three times for sites without a second factor.
- *Canary executor.* `ownership-transition.mjs:1-2` says that an `already_done` observation stays legacy; the
  reconciliation of an unknown submission by such an observation, and New API's "already" answer, promote the account.
  Beginning the next day forgets yesterday's quarantine; a stale task file reopens an owned row; a record left
  `reserved` blocks its day and one left `prepared` can be moved on by no script; a recovery keeps the old plan hash;
  a captcha page that appears late denies an earlier click; `anyrouter` stops at three log pages and says "not
  signed" where its sibling says "unknown". Nothing reads `data/v2-account-handoff.json` into the engine's disabled bindings
  any more, and `docs/module-status.md:390` calls the executor historical.

## 6. Points a reader of the models should know

- The engine validates its lease (`execution/src/index.mjs:107`) before it takes `run.lock` (`:246`)
  and does not look again; `PtWorker` models exactly that, and `OneDriver` holds by the run lock.
- In the fallback the day is looked at again after a passive reading, but for a candidate without a
  reader not after the refresh (`harvest-fallback.mjs:576`). Such an attempt ends as
  `completed_cross_day`, which `OverMidnight` relies on.
- Attempts deferred in the catch block carry no `nextEligibleAt`; `AlreadyAttempted` treats them as
  the code does.
- `AlreadyAttempted`, `ReadDue`, `Permits` are pure functions of the journal and stand as operators;
  the loop over candidates is one candidate, since their journals are keyed by account.
- `Receive` lets an executor report that nothing was submitted only if nothing was: that is the
  executors' contract (`pt-supplement.mjs`), not the fallback's. `signed` is likewise only reported
  with evidence.
- In `NativePtGate` a request is accepted or lost before anybody else's step; a request still in
  flight when its session dies, which the site accepts later, is not modelled (`native-pt-gate.mjs:346`: an
  unsigned reading in between would resolve the intent).
- `DashboardOperations`: ids are random, so one the worker may still know is not drawn again; an id is not
  reused while a claim of it is in the worker's hands. Trimming cannot remove an active request.
- `PtReading`: one browser session per reading. The calendar interface gives nobody no attendance. The ordinary
  passive page does not check which account is logged in; the profile binding stands for the account, and only
  the reviewed reader, PigGo and HDDolby (when configured) compare it with the expected one. The helper's claim
  follows the page it shows. Policies that go by text accept only a text naming today; OpenCD goes by the clock.
  The explanation of DNS failures, the reward counter and wording are left out.
- `RunLock`: only a dead creator's guard grows old; the code breaks any guard older than ten seconds
  (`run-lock.mjs:106`), so a live process that stands still inside its guard for that long is outside the model.
- `DailyRun`: the immediate retry asks for results due now; the code's `now + retryDelay` is at most half an hour
  later, less than a slot. Refused credentials (`Run-Checkin.ps1:114`) are not told apart from other failures there,
  which allows more retries than the code. Left out are the reuse of logical groups, native preflight, maintenance and TLS causes, the
  re-enabling of terminal results and the confirmation of temporary outages.
- `NotificationOutbox`: a report of another plan starts without
  published evidence. The worker handles one due item per pass, and any pending newest item may be tried at any
  time; retention, quarantine of damaged items, `MaxItems` and wording are left out. An identity conflict is treated
  like a failed run, which it is for the outbox.
- `SiteVisit`: the stages of a candidate are the instance's; reads are truthful but may fail; the number of
  read-backs is abstracted. The statuses `managed_challenge_timeout` and `clicked` are never produced. Discovery
  of links, dialogs of terms, HDDolby's two-step flow and a context that cannot be opened are left out; visit
  rules and login-as-check-in sites (`browser.mjs:1504-1531`) count as truthful reads.
- `SubmissionQuarantine`: one business day, with a submission pending from yesterday, bound to the profile or
  not. An unsigned receipt is "old" once anything newer is on record or its five minutes are over. A report may be
  incomplete (`latest.json` is not replaced then). Full and resumed runs both may start, and a full run may visit a
  target the report has signed. A signed result may be replaced by a blocked one in a later run (`index.mjs:408`).
- `LoginRecovery`: reads of the reward log are truthful but may fail; the order of sites is the sequence's; the
  "unlock" mode of `piggo-login.mjs` is not told apart; an OAuth site without rules counts its own interface as the day's
  evidence. `retryableLoginRecovery === false` (`retry-policy.mjs:464-470`) is the outcome "attention". The daily result of
  the `oauth_autodetect` helper is booked as a claim, though `login-recovery.mjs:244` ignores it, and the report's upstream
  failures count one per site where `index.mjs:759-763` adds their retry sequence: the model allows more logins than the code.
- `ExecutionAdapters`: a captcha has three attempts, whose number does not change the outcomes. `CanaryExecution`
  keeps an observation only while it is newer than the record, which is all the scripts ask.

## 7. Plan

The order so far, by importance: locks (everything rests on them), the native journal (the promise
not to replay), operations, the worker barrier, the fallback, publication, the scheduler with its engine,
the outbox, the visit, logins, the canary executor, quarantine and reading. Left:

*Modules*
1. `PtEvidence`: evidence repair, its reading budgets, the dirty marker and the scheduler's retry
   state; composed with `Publication` for "every marked change reaches the NAS" (liveness).
2. `GenerationReader`: the cached reader against concurrent replacement, refining `Serves`.
3. `NasRelease`; `DryTransport` (historical).

*Runs*: an abstract `NoBlindReplay` specification that `NativePtGate` and `HarvestFallback` both implement.

## 8. What is not modelled, and why

- Captcha and image recognition, desktop accessibility scripts, selectors and page text: page and window I/O.
  What the rest of the system sees of them, an outcome with evidence, is an input of the models.
- Bookmarks, configuration, snapshot projection, effective status: pure data transformations; the
  models take their results as opaque values.
- The dashboard server's routes and views and the front end: I/O and rendering.
- Of the visit, logins and quarantine: the Vibe quota claim, rotation of profiles and recovery of an
  inactive one, a damaged state file, history over more than the day and its eve.
- Within modelled parts: log text, report layouts, hashes (a digest stands for the bytes), account
  redaction, the compatibility snapshot file, the `NoUpload` switch, `planHash`, a ledger line torn
  by a crash in the middle of an append (`shadow-ledger.mjs:202`), changes of the ledger after its preflight
  (`:92`). The clean-up command of a commit is one atomic step.
- Removal of the dirty marker after a sync (`Start-NasShadowScheduler.ps1:203`) and the reader's cache
  (`dashboard-generation.mjs:69`): planned (section 7).
- Release and deployment tools are run by an operator, one at a time; planned last.
