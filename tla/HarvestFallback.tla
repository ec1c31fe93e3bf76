-------------------------- MODULE HarvestFallback --------------------------
(***************************************************************************)
(* The PT fallback worker for one site account: it reads the account       *)
(* passively, and only on an authoritative unsigned reading, or for a      *)
(* candidate without a reviewed reader, submits once through an executor.  *)
(* Every read and attempt is written to the journal of the business day    *)
(* before it starts.  A run holds harvest-fallback.lock, so one run is     *)
(* alive at a time; it may die anywhere and its executor may outlive it.   *)
(* Times are ticks, 0 stands for no time, a business day is DayLen ticks.  *)
(***************************************************************************)
EXTENDS Naturals, FiniteSets, SequencesExt, PtReading

CONSTANTS
  Kinds,      \* kinds of candidate the account may be
  Replies,    \* outcomes an executor may report
  Request,    \* manual recovery requests of an operator
  NoRequest,  \* a scheduled run
  DayLen, Horizon,
  Fresh,      \* ticks an unsigned reading may be acted on (five minutes)
  Spacing,    \* ticks between two readings (thirty minutes)
  Backoff,    \* ticks a refused reading waits (five or fifteen minutes)
  Wait,       \* ticks a Harvest wait lasts (thirty minutes)
  SignalLife, \* ticks an unsigned receipt may wake a reading (an hour)
  MaxReads, MaxWakeups, MaxDeferred, MaxAttempts,  \* the code's 3, 2, 24 and 3
  MaxRuns, MaxCrashes     \* bounds on the runs started and on those that die

\* "plain": no reviewed reader.  "review": guarded, generic profile.
\* "native": guarded, the registered native executor.  "bound": uhddolby.
AllKinds == {"plain", "review", "native", "bound"}
Outcome  == {"none", "signed", "unknown", "failed", "mismatch", "login", "waiting"}

ASSUME HarvestFallbackAssumption ==
  /\ Kinds \subseteq AllKinds /\ Replies \subseteq Outcome \ {"none"}
  /\ NoRequest \notin Request
  /\ {DayLen, Horizon} \subseteq Nat \ {0}
  /\ \A n \in {Fresh, Spacing, Backoff, Wait, SignalLife, MaxReads, MaxWakeups,
               MaxDeferred, MaxAttempts, MaxRuns, MaxCrashes} : n \in Nat

VARIABLES
  now,        \* the clock
  kind,       \* the candidate's kind under the current configuration
  attempts,   \* state.attempts of each day's journal
  reads,      \* state.verifications of each day's journal
  supplement, \* the account's entry in each day's pt-fallback-results file
  recovered,  \* the time of the last login recovery signal
  pc, task,   \* where the run stands, and what it holds in memory
  seen,       \* the reading the run's passive worker returned
  exec,       \* the executor that may submit
  runs, crashes,
  signedDays, \* days the site has the account signed in
  sent,       \* the attempts whose executor sent the request
  sure        \* no request was sent since the last reading

vars == <<now, kind, attempts, reads, supplement, recovered, pc, task, seen, exec,
          runs, crashes, signedDays, sent, sure>>
journal == <<attempts, reads>>
world   == <<signedDays, recovered, kind>>
audit   == <<sent, sure>>
count   == <<runs, crashes>>

Time   == 0..Horizon
Later  == 0..(Horizon + Backoff + Wait)
Day(t) == t \div DayLen
Days   == {Day(t) : t \in Time}
Today  == Day(now)

\* "deferred" is deferred_preflight or deferred_busy, "over" a reading that is
\* completed or unverified: the code treats the two alike.  A reading's signal
\* is the receipt it used up; the one its run was planned with ("planned") and
\* whether it was only due for a wait ("waking") are kept for the properties.
Unsent   == {"failed", "mismatch", "login", "waiting"}  \* proven: nothing was submitted
Attempt  == [state : {"in_progress", "deferred", "completed", "outcome_unknown", "completed_cross_day"},
             run : 1..MaxRuns, start : Time, finish : Time, proof : Time, out : Outcome,
             next : Later, woken : BOOLEAN, native : BOOLEAN,
             manual : Request \cup {NoRequest}, closed : BOOLEAN]
Read     == [state : {"in_progress", "deferred", "over"},
             start : Time, next : Later, planned : Time, signal : Time, seen : Time,
             waking : BOOLEAN, manual : BOOLEAN]
\* "open" is no entry, or one that neither confirms nor denies.
Entry    == [status : {"open", "signed", "not_signed"}, at : Time]
Page     == [status : {"signed", "not_signed", "unknown"}, at : Time]
NoPage   == [status |-> "unknown", at |-> 0]
Task     == [day : Days, manual : Request \cup {NoRequest}, at : Time, signal : Time,
             proof : Time, verify : BOOLEAN, wake : BOOLEAN, aborted : BOOLEAN]
NoTask   == [day |-> 0, manual |-> NoRequest, at |-> 0, signal |-> 0, proof |-> 0,
             verify |-> FALSE, wake |-> FALSE, aborted |-> FALSE]
Steps    == {"idle", "planned", "consider", "refresh", "reading", "read", "permit",
             "intent", "dispatched", "received", "published"}
NoExec   == [day |-> 0, index |-> 0, verify |-> FALSE, sent |-> FALSE]

TypeOK ==
  /\ now \in Time /\ kind \in AllKinds /\ recovered \in Time
  /\ \A d \in Days : /\ \A i \in DOMAIN attempts[d] : attempts[d][i] \in Attempt
                     /\ \A i \in DOMAIN reads[d] : reads[d][i] \in Read
                     /\ supplement[d] \in Entry
  /\ pc \in Steps /\ task \in Task /\ seen \in Page
  /\ exec.day \in Days /\ exec.index \in 0..Len(attempts[exec.day])
  /\ runs \in 0..MaxRuns /\ crashes \in 0..MaxCrashes
  /\ signedDays \subseteq Days
  /\ \A s \in sent : s[2] \in DOMAIN attempts[s[1]]
  /\ sure \in BOOLEAN

Init ==
  /\ now = 1 /\ kind \in Kinds
  /\ attempts = [d \in Days |-> <<>>] /\ reads = [d \in Days |-> <<>>]
  /\ supplement = [d \in Days |-> [status |-> "open", at |-> 0]]
  /\ recovered = 0 /\ pc = "idle" /\ task = NoTask /\ seen = NoPage /\ exec = NoExec
  /\ runs = 0 /\ crashes = 0 /\ signedDays = {} /\ sent = {} /\ sure = TRUE

-----------------------------------------------------------------------------
(* What the journal says *)

Guarded == kind # "plain"
Counted(s) == {i \in DOMAIN s : s[i].state # "deferred"}
\* Mutant: what the receipt says is ignored.
UncertainByState(a) == a.state \in {"in_progress", "outcome_unknown", "completed_cross_day"}
Uncertain(a) == \/ a.state \in {"in_progress", "outcome_unknown", "completed_cross_day"}
                \/ a.out = "unknown"
\* A Harvest wait whose cooldown is over and that woke nothing yet.
WaitDue(a, t) == a.state = "deferred" /\ a.out = "waiting" /\ ~a.woken /\ a.next <= t
WaitsDue(d, t) == {i \in DOMAIN attempts[d] : WaitDue(attempts[d][i], t)}

\* A login failure that sent nothing, and a recovery signal since.
Retryable(a) ==
  /\ a.state = "completed" /\ a.out = "login"
  /\ a.finish < recovered /\ recovered <= now /\ now - recovered <= Spacing

AlreadyAttempted(d) ==
  \/ Cardinality(Counted(attempts[d])) >= MaxAttempts
  \/ /\ WaitsDue(d, now) = {}
     /\ \E i \in DOMAIN attempts[d] :
          LET a == attempts[d][i] IN
          IF a.state = "deferred" THEN a.next > now ELSE ~Retryable(a)

UnresolvedEarlier(d) ==
  \E e \in Days : e < d /\ \E i \in DOMAIN attempts[e] :
    ~attempts[e][i].closed /\ Uncertain(attempts[e][i])

\* A recent unsigned receipt, noted when the run was planned, wakes a reading.
WakeupDue(d, signal) ==
  LET rs == {reads[d][i] : i \in Counted(reads[d])} IN
  /\ signal # 0 /\ Day(signal) = d /\ now - signal <= SignalLife
  /\ Cardinality({i \in Counted(reads[d]) : reads[d][i].signal # 0}) < MaxWakeups
  /\ Len(reads[d]) - Cardinality(Counted(reads[d])) < MaxDeferred
  /\ \A r \in rs : r.state # "in_progress" /\ signal \notin {r.signal, r.seen}
  /\ \A i \in DOMAIN reads[d] :
       (reads[d][i].state = "deferred" /\ reads[d][i].signal = signal) => reads[d][i].next <= now

ScheduledDue(d) ==
  /\ Cardinality(Counted(reads[d])) < MaxReads
  /\ Len(reads[d]) - Cardinality(Counted(reads[d])) < MaxDeferred
  /\ \A i \in DOMAIN reads[d] :
       IF reads[d][i].state = "deferred" THEN reads[d][i].next <= now
       ELSE now - reads[d][i].start >= Spacing

ReadDue(d, signal) ==
  Guarded /\ (WakeupDue(d, signal) \/ WaitsDue(d, now) # {} \/ ScheduledDue(d))

\* An earlier attempt of the day that a new unsigned reading at p may follow.
ProfileGuardMissed(a, p) ==
  kind = "native" /\ ~a.native /\ a.state = "completed" /\ a.out = "mismatch" /\ a.proof # 0 /\ p > a.finish
Interrupted(a, p) ==
  /\ a.state \in {"in_progress", "outcome_unknown"} /\ a.out = "none" /\ a.run # runs
  /\ p > (IF a.finish = 0 THEN a.start ELSE a.finish)
  /\ a.proof # 0 \/ task.manual # NoRequest
BoundBefore(a, p) ==
  /\ kind = "bound" \/ task.manual # NoRequest
  /\ a.out \notin {"none", "mismatch"} /\ a.finish < p
\* Mutant: the daily limit is not applied to recoveries.
PermitsUnlimited(d, p) == \A i \in Counted(attempts[d]) :
  LET a == attempts[d][i] IN ProfileGuardMissed(a, p) \/ Interrupted(a, p) \/ BoundBefore(a, p)
Permits(d, p) ==
  /\ Cardinality(Counted(attempts[d])) < MaxAttempts \/ task.manual # NoRequest
  /\ \A i \in Counted(attempts[d]) :
       LET a == attempts[d][i] IN ProfileGuardMissed(a, p) \/ Interrupted(a, p) \/ BoundBefore(a, p)

-----------------------------------------------------------------------------
(* A run: plan, claim the lock, consider the candidate *)

Rest == /\ pc' = "idle" /\ task' = NoTask /\ seen' = NoPage
Unchanged == UNCHANGED <<now, supplement, exec, count, world, audit>>

\* The plan is made from the files before the lock is claimed.
Plan(m) ==
  /\ pc = "idle" /\ runs < MaxRuns
  /\ m # NoRequest => Guarded
  /\ supplement[Today].status # "signed"
  /\ LET e == supplement[Today] IN
     task' = [NoTask EXCEPT !.day = Today, !.manual = m,
                            !.signal = IF Guarded /\ e.status = "not_signed" THEN e.at ELSE 0]
  /\ pc' = "planned"
  /\ UNCHANGED <<journal, seen>> /\ Unchanged

Claim ==
  /\ pc = "planned" /\ pc' = "consider" /\ runs' = runs + 1
  /\ UNCHANGED <<now, journal, supplement, task, seen, exec, crashes, world, audit>>

\* Mutant: the run trusts the plan and does not look at the receipts again.
ConfirmedUnread == FALSE
Confirmed == supplement[task.day].status = "signed"
Consider ==
  /\ pc = "consider"
  /\ Today = task.day
  /\ ~Confirmed
  /\ task.manual = NoRequest \/ \A i \in DOMAIN attempts[task.day] : attempts[task.day][i].manual # task.manual
  /\ LET verify == task.manual # NoRequest \/ ReadDue(task.day, task.signal) IN
     /\ Guarded => verify
     /\ ~verify => ~AlreadyAttempted(task.day) /\ ~UnresolvedEarlier(task.day)
     /\ task' = [task EXCEPT !.verify = verify, !.at = now]
  /\ pc' = "refresh"
  /\ UNCHANGED <<journal, seen>> /\ Unchanged

\* Nothing is to be done, the time budget is spent, or the live Harvest state
\* no longer offers the candidate.
Skip ==
  /\ pc \in {"planned", "consider", "refresh", "permit"} /\ Rest
  /\ UNCHANGED journal /\ Unchanged

-----------------------------------------------------------------------------
(* The passive reading *)

BeginRead ==
  /\ pc = "refresh" /\ task.verify
  /\ reads' = [reads EXCEPT ![task.day] = Append(@,
       [state |-> "in_progress", start |-> now, next |-> 0, seen |-> 0, planned |-> task.signal,
        signal |-> IF WakeupDue(task.day, task.signal) THEN task.signal ELSE 0,
        waking |-> WaitsDue(task.day, task.at) # {} /\ ~ScheduledDue(task.day),
        manual |-> task.manual # NoRequest])]
  /\ pc' = "reading"
  /\ UNCHANGED <<attempts, task, seen>> /\ Unchanged

EndRead(r) == reads' = [reads EXCEPT ![task.day][Len(reads[task.day])] = r]
LastRead == Last(reads[task.day])

\* The lease is busy or the worker's preflight refuses: nothing was opened.
DeferRead ==
  /\ pc = "reading"
  /\ EndRead([LastRead EXCEPT !.state = "deferred", !.next = now + Backoff])
  /\ Rest /\ UNCHANGED attempts /\ Unchanged

\* What a reading of the account may come back with: a verdict that is not
\* one of the two tells this worker nothing.
Readable ==
  LET verdicts == Readings[(Today \in signedDays)] IN
  {[status |-> IF v \in Definite THEN v ELSE "unknown", at |-> now] : v \in verdicts}
\* Mutant: the page is read while an executor left behind still runs.
ReadPageOver ==
  /\ pc = "reading"
  /\ \E page \in Readable : seen' = page
  /\ pc' = "read" /\ sure' = TRUE
  /\ UNCHANGED <<now, journal, supplement, task, exec, count, world, sent>>
\* The worker reads the account page; no other executor is running.
ReadPage ==
  /\ pc = "reading" /\ exec = NoExec
  /\ \E page \in Readable : seen' = page
  /\ pc' = "read" /\ sure' = TRUE
  /\ UNCHANGED <<now, journal, supplement, task, exec, count, world, sent>>

\* No reading came back, or one that is not this account's or not current.
FailRead ==
  /\ pc \in {"reading", "read"}
  /\ EndRead([LastRead EXCEPT !.state = "over"])
  /\ Rest /\ UNCHANGED attempts /\ Unchanged

\* Only the time of an unsigned receipt is ever looked at.
Receipt(status, at) == [status |-> status, at |-> IF status = "not_signed" THEN at ELSE 0]
\* Mutant: the latest reading replaces whatever was recorded.
RecordedAlways(page) ==
  [supplement EXCEPT ![Day(page.at)] = Receipt(IF page.status = "unknown" THEN "open" ELSE page.status, page.at)]
\* recordPtVerification: a diagnostic does not replace a confirmation, and a
\* confirmation closes the day's uncertain attempts that started before it.
Recorded(page) ==
  LET d == Day(page.at)
      kept == supplement[d].status = "signed" /\ page.status # "signed"
      status == IF page.status = "unknown" THEN "open" ELSE page.status IN
  IF kept THEN supplement ELSE [supplement EXCEPT ![d] = Receipt(status, page.at)]
Closing(page) ==
  [d \in Days |-> [i \in DOMAIN attempts[d] |->
     LET a == attempts[d][i] IN
     IF /\ page.status = "signed" /\ d = Day(page.at) /\ Uncertain(a) /\ a.out \notin {"none", "mismatch"}
        /\ a.start <= page.at
     THEN [a EXCEPT !.closed = TRUE] ELSE a]]

\* The reading is current: it is recorded, and an unsigned one may permit an
\* attempt.
Judge ==
  /\ pc = "read" /\ Day(seen.at) = Today /\ now - seen.at <= Fresh
  /\ EndRead([LastRead EXCEPT !.state = "over", !.seen = IF seen.status = "not_signed" THEN seen.at ELSE 0])
  /\ supplement' = Recorded(seen)
  /\ attempts' = IF task.day = Today THEN Closing(seen) ELSE attempts
  /\ IF seen.status = "not_signed" /\ Today = task.day /\ Permits(task.day, seen.at)
     THEN pc' = "permit" /\ task' = [task EXCEPT !.proof = seen.at] /\ seen' = NoPage
     ELSE Rest
  /\ UNCHANGED <<now, exec, count, world, audit>>

-----------------------------------------------------------------------------
(* The attempt: persisted, then dispatched to an executor *)

\* Mutant: the reading that was due is not waited for.
ReadyUnread == pc = "refresh" \/ (pc = "permit" /\ Today = task.day)
\* After a reading the day is looked at once more; without one it is not.
Ready == \/ pc = "permit" /\ Today = task.day
         \/ pc = "refresh" /\ ~task.verify

\* The first Harvest wait that is due is used up.
MarkWake ==
  /\ Ready
  /\ \E i \in WaitsDue(task.day, task.at) :
       /\ \A j \in WaitsDue(task.day, task.at) : i <= j
       /\ attempts' = [attempts EXCEPT ![task.day][i].woken = TRUE]
  /\ task' = [task EXCEPT !.wake = TRUE]
  /\ UNCHANGED <<reads, pc, seen>> /\ Unchanged

NewAttempt ==
  [state |-> "in_progress", run |-> runs, start |-> now, finish |-> 0, proof |-> task.proof, out |-> "none",
   next |-> 0, woken |-> task.wake, native |-> kind = "native", manual |-> task.manual, closed |-> FALSE]
Persist ==
  /\ Ready
  /\ task.wake \/ WaitsDue(task.day, task.at) = {}
  /\ attempts' = [attempts EXCEPT ![task.day] = Append(@, NewAttempt)]
  /\ pc' = "intent"
  /\ UNCHANGED <<reads, task, seen>> /\ Unchanged

Current == Last(attempts[task.day])
Amend(a) == attempts' = [attempts EXCEPT ![task.day][Len(attempts[task.day])] = a]

\* Mutant: the executor is given the position after its attempt.
DispatchPast ==
  /\ pc = "intent" /\ exec = NoExec
  /\ exec' = [day |-> task.day, index |-> Len(attempts[task.day]) + 1, verify |-> task.verify, sent |-> FALSE]
  /\ pc' = "dispatched"
  /\ UNCHANGED <<now, journal, supplement, task, seen, count, world, audit>>
Dispatch ==
  /\ pc = "intent" /\ exec = NoExec
  /\ exec' = [day |-> task.day, index |-> Len(attempts[task.day]), verify |-> task.verify, sent |-> FALSE]
  /\ pc' = "dispatched"
  /\ UNCHANGED <<now, journal, supplement, task, seen, count, world, audit>>

\* The catch of a failed dispatch.  After a cancellation nothing is deferred.
Caught(a, state) ==
  [a EXCEPT !.finish = IF @ = 0 THEN now ELSE @,
            !.state = IF task.aborted THEN "outcome_unknown" ELSE state]

\* The lease is busy or the preflight refuses: no executor was started.
Refused ==
  /\ pc = "intent"
  /\ Amend(Caught(Current, "deferred"))
  /\ Rest /\ UNCHANGED reads /\ Unchanged

\* Mutant: a failed executor is taken for one that was not started.
ThrowDeferred ==
  /\ pc = "dispatched"
  /\ Amend(Caught(Current, "deferred"))
  /\ exec' \in {exec, NoExec}
  /\ Rest
  /\ UNCHANGED <<now, reads, supplement, count, world, audit>>
\* The executor failed, or was given up and may live on.
Throw ==
  /\ pc = "dispatched"
  /\ Amend(Caught(Current, "outcome_unknown"))
  /\ exec' \in {exec, NoExec}
  /\ Rest
  /\ UNCHANGED <<now, reads, supplement, count, world, audit>>

\* Uncertainty is persisted before the cooperative cleanup.
Cancel ==
  /\ pc \in {"intent", "dispatched"} /\ ~task.aborted
  /\ Amend([Current EXCEPT !.state = "outcome_unknown", !.finish = now])
  /\ task' = [task EXCEPT !.aborted = TRUE]
  /\ UNCHANGED <<reads, pc, seen>> /\ Unchanged

\* The receipt is persisted before it is validated or published.
Receive ==
  /\ pc = "dispatched"
  /\ \E out \in Replies :
       /\ out \in Unsent => ~exec.sent
       /\ out = "signed" => Today \in signedDays
       /\ out = "mismatch" => ~Current.native
       /\ Amend([Current EXCEPT !.out = out, !.finish = now,
                   !.state = IF out = "waiting" THEN "deferred" ELSE @,
                   !.next = IF out = "waiting" THEN now + Wait ELSE @])
  /\ exec' = NoExec /\ pc' = "received"
  /\ UNCHANGED <<now, reads, supplement, task, seen, count, world, audit>>

\* The profile or the timestamp of the result is not the attempt's.
Invalid ==
  /\ pc = "received"
  /\ Amend(Caught(Current, "outcome_unknown"))
  /\ Rest /\ UNCHANGED reads /\ Unchanged

CrossDay ==
  /\ pc = "received" /\ Day(Current.finish) # task.day
  /\ Amend([Current EXCEPT !.state = "completed_cross_day"])
  /\ Rest /\ UNCHANGED reads /\ Unchanged

\* Mutant: the day of the result is not compared.
PublishAnyDay ==
  /\ pc = "received"
  /\ supplement' = [supplement EXCEPT ![task.day] =
       Receipt(IF Current.out = "signed" THEN "signed" ELSE "open", Current.finish)]
  /\ pc' = "published"
  /\ UNCHANGED <<now, journal, task, seen, exec, count, world, audit>>
Publish ==
  /\ pc = "received" /\ Day(Current.finish) = task.day
  /\ supplement' = [supplement EXCEPT ![task.day] =
       Receipt(IF Current.out = "signed" THEN "signed" ELSE "open", Current.finish)]
  /\ pc' = "published"
  /\ UNCHANGED <<now, journal, task, seen, exec, count, world, audit>>

Close ==
  /\ pc = "published"
  /\ Amend([Current EXCEPT !.state = IF @ = "in_progress" THEN "completed" ELSE @])
  /\ Rest /\ UNCHANGED reads /\ Unchanged

Crash ==
  /\ pc \notin {"idle", "planned"} /\ crashes < MaxCrashes
  /\ crashes' = crashes + 1 /\ Rest
  /\ UNCHANGED <<now, journal, supplement, exec, runs, world, audit>>

-----------------------------------------------------------------------------
(* The executor, the site and the other users of the files *)

Send ==
  /\ exec # NoExec /\ ~exec.sent
  /\ exec.verify => Today \notin signedDays
  /\ exec' = [exec EXCEPT !.sent = TRUE]
  /\ sent' = sent \cup {<<exec.day, exec.index>>} /\ sure' = FALSE
  /\ UNCHANGED <<now, journal, supplement, pc, task, seen, count, world>>

\* An executor left behind by its run ends or is cleaned up.
OrphanEnds ==
  /\ exec # NoExec /\ pc # "dispatched"
  /\ exec' = NoExec
  /\ UNCHANGED <<now, journal, supplement, pc, task, seen, count, world, audit>>

\* The account is signed in: by a request that lands, by Harvest, by hand.
SiteSigns ==
  /\ signedDays' = signedDays \cup {Today}
  /\ UNCHANGED <<now, kind, journal, supplement, recovered, pc, task, seen, exec, count, audit>>

\* The signal matters to an attempt that ended in a login failure before it.
LoginRecovered ==
  /\ \E i \in DOMAIN attempts[Today] : attempts[Today][i].out = "login" /\ attempts[Today][i].finish < now
  /\ recovered' = now
  /\ UNCHANGED <<now, kind, journal, supplement, signedDays, pc, task, seen, exec, count, audit>>

\* A reader is reviewed, or the native executor takes the candidate over.
Promote ==
  /\ pc = "idle"
  /\ kind' \in Kinds
  /\ \/ kind = "plain" /\ kind' \in {"review", "bound"}
     \/ kind = "review" /\ kind' = "native"
  /\ UNCHANGED <<now, journal, supplement, recovered, signedDays, pc, task, seen, exec, count, audit>>

\* A reading asked for on the dashboard, recorded under the worker's lock.
OutsideRead ==
  /\ pc \in {"idle", "planned"} /\ exec = NoExec
  /\ \E page \in Readable : supplement' = Recorded(page) /\ attempts' = Closing(page)
  /\ UNCHANGED <<now, reads, pc, task, seen, exec, count, world, audit>>

\* The operator closes one reviewed uncertain attempt; it stays in the journal.
\* Only the days after it ask whether it is closed.
Reconcile ==
  /\ pc \in {"idle", "planned"}
  /\ \E d \in Days : d < Today /\ \E i \in DOMAIN attempts[d] :
       /\ Uncertain(attempts[d][i]) /\ ~attempts[d][i].closed
       /\ attempts' = [attempts EXCEPT ![d][i].closed = TRUE]
  /\ UNCHANGED <<now, reads, supplement, pc, task, seen, exec, count, world, audit>>

Tick ==
  /\ now < Horizon /\ now' = now + 1
  /\ UNCHANGED <<journal, supplement, pc, task, seen, exec, count, world, audit>>

Run == \/ \E m \in Request \cup {NoRequest} : Plan(m)
       \/ Claim \/ Consider \/ Skip
       \/ BeginRead \/ DeferRead \/ ReadPage \/ FailRead \/ Judge
       \/ MarkWake \/ Persist \/ Dispatch \/ Refused
       \/ Throw \/ Cancel \/ Receive \/ Invalid \/ CrossDay \/ Publish \/ Close
Around == \/ Crash \/ Send \/ OrphanEnds \/ SiteSigns \/ LoginRecovered \/ Promote
          \/ OutsideRead \/ Reconcile \/ Tick
Next == Run \/ Around
Spec == Init /\ [][Next]_vars

-----------------------------------------------------------------------------
(* Properties *)

\* An attempt whose request was sent and is not known to have signed the
\* account, and which no operator closed.
Doubtful(d, i) == <<d, i>> \in sent /\ attempts[d][i].out # "signed" /\ ~attempts[d][i].closed

\* No blind replay: with a doubtful attempt of this or an earlier day in the
\* journal, a new attempt is persisted only upon an unsigned reading made
\* after every request so far.
NoBlindReplay ==
  [][\A d \in Days :
       (/\ Len(attempts'[d]) > Len(attempts[d])
        /\ \E e \in Days : e <= d /\ \E i \in DOMAIN attempts[e] : Doubtful(e, i))
       => sure /\ attempts'[d][Len(attempts'[d])].proof # 0]_vars

\* However the run ends, killed or cancelled at any point, the journal never
\* says that a request that was sent was not.
SentIsOnRecord ==
  \A s \in sent : LET a == attempts[s[1]][s[2]] IN
    a.state # "deferred" /\ a.out \notin Unsent

\* What the receipts confirm is true of the site on that day.
ConfirmedIsTrue == \A d \in Days : supplement[d].status = "signed" => d \in signedDays

\* A confirmation is never erased by a later reading or result, and nothing is
\* attempted on a day once it is confirmed.
ConfirmationStands ==
  [][\A d \in Days : supplement[d].status = "signed" =>
       supplement'[d].status = "signed" /\ Len(attempts'[d]) = Len(attempts[d])]_vars

\* A receipt that made the reading due had lapsed when the reading began: it
\* is asked for twice, and counted by the second answer.
Lapsed(r) == r.planned # 0 /\ r.signal = 0 /\ r.start - r.planned > SignalLife

\* The day's attempts and readings keep within the budgets, across runs and
\* crashes, those of operator requests and of lapsed receipts apart; a Harvest
\* wait, once over, lifts the limit on readings.
Budgets ==
  \A d \in Days :
    /\ Cardinality({i \in Counted(attempts[d]) : attempts[d][i].manual = NoRequest}) <= MaxAttempts
    /\ (\A i \in DOMAIN attempts[d] : attempts[d][i].out # "waiting") =>
         Cardinality({i \in Counted(reads[d]) : ~reads[d][i].manual /\ ~Lapsed(reads[d][i])})
           <= MaxReads + MaxWakeups

\* A run that crosses midnight never leaves an attempt that counts as the old
\* day's completed one: the next day finds it unresolved.
OverMidnight ==
  \A d \in Days : \A i \in DOMAIN attempts[d] :
    LET a == attempts[d][i] IN
    (a.state = "completed" => Day(a.finish) = d) /\ (Day(a.start) # d => a.state # "completed")

\* A Harvest wait that is over wakes one reading beyond the scheduled ones
\* (harvest-fallback.mjs, 375-377).
OneReadPerWait ==
  \A d \in Days :
    Cardinality({i \in DOMAIN reads[d] : reads[d][i].waking /\ reads[d][i].state # "deferred"})
      <= Cardinality({i \in DOMAIN attempts[d] : attempts[d][i].out = "waiting"})
=============================================================================
