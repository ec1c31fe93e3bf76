------------------------- MODULE NotificationOutbox -------------------------
(***************************************************************************)
(* The notification outbox (data/notification-outbox) and everything that  *)
(* writes to it.  Reporters (Submit-UnifiedCheckinReport.ps1 with          *)
(* notification-reconciliation.mjs) run from the scheduler, from the run   *)
(* wrapper and from the observation sync, side by side; the gateway        *)
(* reports outages (Gateway-Audit.ps1); one delivery worker                *)
(* (Invoke-CheckinNotificationOutbox.ps1) hands items to an external       *)
(* command.  An item is one file, replaced as a whole.                     *)
(*                                                                         *)
(* A behaviour has one producer: the daily digest, the notice per change   *)
(* of state, or the gateway.  They meet in the worker only, which treats   *)
(* their items in separate scopes.                                         *)
(***************************************************************************)
EXTENDS Integers, FiniteSets, FiniteSetsExt, Functions

CONSTANTS Sites, Reporters, Producers,
          Plans,                 \* what a run can have been planned for: fingerprint and targets
          Checkers,              \* the reporters that run with -CheckRunMissing
          Served,                \* kinds of items the worker delivers here
          SlotsPerDay,           \* the last two begin at dailyDigestAt and runMissingAfter
          Start, Horizon, MaxChanges, MaxFaults, MaxIncidents    \* bounds of the model

ASSUME OutboxAssumption ==
    /\ SlotsPerDay \in Nat \ {0, 1} /\ Start \in Nat
    /\ Producers \subseteq {"daily_digest", "per_change", "gateway"}

VARIABLES clock,
          world,      \* the report and the published evidence of the day
          kept,       \* data/notification-reconciliation/<day>.json: the receipts
          scope,      \* the plan they are of
          box,        \* the outbox: a function from event keys to items
          rep,        \* the reporter processes
          worker,     \* the delivery worker
          health,     \* data/gateway-health.json
          told,       \* keys the receiver has accepted
          doubled,    \* two reporters created the same state's item at once
          producer, changes, faults

outboxVars == <<clock, world, kept, scope, box, rep, worker, health, told, doubled, producer, changes, faults>>

Day(t) == t \div SlotsPerDay
Slot(t) == t % SlotsPerDay
DigestAt == SlotsPerDay - 2
MissingAfter == SlotsPerDay - 1

Key(kind, day, about) == [kind |-> kind, day |-> day, about |-> about]
Scope(k) == IF k.kind = "state" THEN [k EXCEPT !.about = {}] ELSE k

Item(created, news) ==
    [created |-> created, news |-> news, how |-> "pending"]
Delivered(i) == i.how # "pending"

Quiet == [pc |-> "off", now |-> 0, up |-> FALSE, final |-> FALSE, problems |-> {},
          plan |-> "none", keep |-> {}, events |-> {}, alone |-> TRUE]
Asleep == [pc |-> "off", stale |-> <<>>, due |-> <<>>, ack |-> FALSE, sent |-> {}]
NewDay(p) == [plan |-> p, problems |-> {}, final |-> FALSE, failed |-> FALSE,
              signed |-> {}, denied |-> {}]

OutboxInit ==
    /\ clock = Start
    /\ \E S \in {{}, Sites}, p \in Plans : world = [NewDay(p) EXCEPT !.signed = S] /\ scope = p
    /\ kept = {} /\ box = <<>>
    /\ rep = [r \in Reporters |-> Quiet] /\ worker = Asleep
    /\ health = [id |-> 0, streak |-> 0, code |-> 0, notified |-> FALSE]
    /\ told = {} /\ doubled = FALSE /\ producer \in Producers /\ changes = 0 /\ faults = 0

-----------------------------------------------------------------------------
(* What the reporters report on.  A backoff ends with the next tick.       *)

Tick ==
    /\ clock < Horizon /\ clock' = clock + 1
    /\ IF Day(clock') = Day(clock) THEN UNCHANGED <<world, kept>>
       ELSE world' = NewDay(world.plan) /\ kept' = {}
    /\ UNCHANGED <<scope, box, rep, worker, health, told, doubled, producer, changes, faults>>

\* For another plan no evidence has been published yet.
Change ==
    /\ producer # "gateway" /\ changes < MaxChanges /\ changes' = changes + 1
    /\ \/ \E P \in SUBSET Sites : world' = [world EXCEPT !.problems = P, !.final = TRUE]
       \/ \E P \in SUBSET Sites, p \in Plans \ {world.plan} :
             world' = [world EXCEPT !.problems = P, !.final = TRUE, !.plan = p, !.signed = {}]
       \/ producer = "daily_digest" /\ world' = [world EXCEPT !.failed = TRUE]
       \/ \E s \in Sites \ world.denied :
             \/ world' = [world EXCEPT !.signed = @ \union {s}]
             \/ world' = [world EXCEPT !.signed = @ \ {s}]     \* no longer seen
             \/ world' = [world EXCEPT !.signed = @ \ {s}, !.denied = @ \union {s}]
    /\ world' # world
    /\ UNCHANGED <<clock, kept, scope, box, rep, worker, health, told, doubled, producer, faults>>

-----------------------------------------------------------------------------
(* The reporter: reconcile, then queue.                                    *)

\* Mutant: a reading replaces the receipts kept so far.
OnlyFresh(up) == IF up THEN world.signed ELSE kept

\* What was kept for another plan counts for nothing.
Retained(up) ==
    LET old == IF scope = world.plan THEN kept ELSE {} IN
    IF up THEN (old \union world.signed) \ world.denied ELSE old

Reconcile(r, up) ==
    /\ rep[r].pc = "off"
    /\ \/ producer = "daily_digest"
       \/ producer = "per_change" /\ world.final
    /\ LET keep == Retained(up)
           view == [Quiet EXCEPT !.pc = "read", !.now = clock, !.up = up, !.final = world.final,
                                 !.problems = world.problems \ keep, !.keep = keep, !.plan = world.plan,
                                 !.alone = \A o \in Reporters : rep[o].pc # "read"] IN
       rep' = [q \in Reporters |-> IF q = r THEN view ELSE [rep[q] EXCEPT !.alone = rep[q].pc # "read"]]
    /\ UNCHANGED <<clock, world, kept, scope, box, worker, health, told, doubled, producer, changes, faults>>

Persist(r) ==
    LET v == rep[r] IN
    IF Day(v.now) = Day(clock) /\ v.final /\ (v.up \/ v.keep # {})
    THEN kept' = v.keep /\ scope' = v.plan
    ELSE UNCHANGED <<kept, scope>>

\* Mutant: the digest is computed from a listing made before the mutex.
ListsFreely(r) == TRUE

HasMutex(r) == \A o \in Reporters \ {r} : rep[o].pc # "write"

Seen(day) == UNION {k.about : k \in {j \in DOMAIN box : j.kind = "action" /\ j.day = day}}

Event(kind, day, about, news) == [key |-> Key(kind, day, about), news |-> news]

DigestEvents(r) ==
    LET v == rep[r]
        day == Day(v.now)
        seen == Seen(day)
        When(cond, e) == IF cond THEN {e} ELSE {} IN
    UNION {
        When(v.final /\ ~(v.problems \subseteq seen),
             Event("action", day, seen \union v.problems, v.problems \ seen)),
        When(v.final /\ Slot(v.now) >= DigestAt /\ (v.up \/ Slot(v.now) >= MissingAfter),
             Event("digest", day, {}, {})),
        When(world.failed, Event("failed", day, {}, {})),
        When(r \in Checkers /\ Slot(v.now) >= MissingAfter /\ ~v.final, Event("missing", day, {}, {}))}

ListEvents(r) ==
    /\ producer = "daily_digest" /\ rep[r].pc = "read" /\ HasMutex(r) /\ Persist(r)
    /\ LET new == {e \in DigestEvents(r) : e.key \notin DOMAIN box} IN
       rep' = IF new = {} THEN [rep EXCEPT ![r] = Quiet]
              ELSE [rep EXCEPT ![r] = [Quiet EXCEPT !.pc = "write", !.events = new]]
    /\ UNCHANGED <<clock, world, box, worker, health, told, doubled, producer, changes, faults>>

NextStamp == 1 + Max({0} \union {box[k].created : k \in DOMAIN box}
                        \union UNION {{e.item.created : e \in rep[r].events} : r \in {q \in Reporters : rep[q].pc = "replace"}})

Put(k, item) == [j \in DOMAIN box \union {k} |-> IF j = k THEN item ELSE box[j]]

WriteEvent(r) ==
    /\ rep[r].pc = "write"
    /\ \E e \in rep[r].events :
          /\ box' = IF e.key \in DOMAIN box THEN box ELSE Put(e.key, Item(NextStamp, e.news))
          /\ rep' = IF rep[r].events = {e} THEN [rep EXCEPT ![r] = Quiet]
                    ELSE [rep EXCEPT ![r].events = @ \ {e}]
    /\ UNCHANGED <<clock, world, kept, scope, worker, health, told, doubled, producer, changes, faults>>

\* One notice per state and day; a result that cannot be reconciled waits.
ReadState(r) ==
    /\ producer = "per_change" /\ rep[r].pc = "read" /\ Persist(r)
    /\ LET k == Key("state", Day(clock), rep[r].problems) IN
       IF ~rep[r].up /\ rep[r].keep = {} THEN rep' = [rep EXCEPT ![r] = Quiet]
       ELSE rep' = [rep EXCEPT ![r] = [Quiet EXCEPT !.pc = "replace",
                !.events = {[key |-> k, item |-> IF k \in DOMAIN box THEN box[k] ELSE Item(NextStamp, {})]}]]
    /\ UNCHANGED <<clock, world, box, worker, health, told, doubled, producer, changes, faults>>

WriteState(r) ==
    /\ rep[r].pc = "replace"
    /\ \E e \in rep[r].events :
          /\ box' = Put(e.key, e.item)
          /\ doubled' = (doubled \/ (e.key \in DOMAIN box /\ box[e.key].created # e.item.created))
    /\ rep' = [rep EXCEPT ![r] = Quiet]
    /\ UNCHANGED <<clock, world, kept, scope, worker, health, told, producer, changes, faults>>

-----------------------------------------------------------------------------
(* The gateway's incidents.  The process may die behind either write.      *)

Notice(kind) == Key(kind, health.id, {})
AddNotice(kind) ==
    IF Notice(kind) \in DOMAIN box THEN box ELSE Put(Notice(kind), Item(NextStamp, {}))

Dies(d) == IF d THEN faults < MaxFaults /\ faults' = faults + 1 ELSE UNCHANGED faults

Streak(code) ==
    IF health.streak = 0 THEN [id |-> health.id + 1, streak |-> 1, code |-> code, notified |-> FALSE]
    ELSE [health EXCEPT !.code = code, !.streak = IF health.code = code THEN 2 ELSE 1]

\* Mutant: the incident is marked as announced before it is queued.
MarkFirst(code, d) ==
    LET open == Streak(code)
        tell == open.streak = 2 /\ ~open.notified IN
    /\ health' = [open EXCEPT !.notified = @ \/ tell]
    /\ box' = IF tell /\ ~d THEN AddNotice("blocked") ELSE box

CountFailure(code, d) ==
    LET open == Streak(code)
        tell == open.streak = 2 /\ ~open.notified IN
    /\ health' = IF tell /\ ~d THEN [open EXCEPT !.notified = TRUE] ELSE open
    /\ \/ box' = IF tell THEN AddNotice("blocked") ELSE box
       \/ tell /\ d /\ UNCHANGED box

ProbeFails ==
    /\ producer = "gateway"
    /\ health.streak = 0 => health.id < MaxIncidents
    /\ \E code \in {1, 2}, d \in BOOLEAN : CountFailure(code, d) /\ Dies(d)
    /\ UNCHANGED <<clock, world, kept, scope, rep, worker, told, doubled, producer, changes>>

ProbeSucceeds ==
    /\ producer = "gateway" /\ health.streak > 0
    /\ box' = IF health.notified THEN AddNotice("recovered") ELSE box
    /\ \E d \in BOOLEAN :
          /\ Dies(d)
          /\ health' = IF d THEN health ELSE [health EXCEPT !.streak = 0, !.notified = FALSE]
    /\ UNCHANGED <<clock, world, kept, scope, rep, worker, told, doubled, producer, changes>>

-----------------------------------------------------------------------------
(* The delivery worker.  It works on the items as it read them.            *)

\* Mutant: the order ignores receipts that were delivered.
NewestPending(k, read) ==
    \A j \in DOMAIN read : Scope(j) = Scope(k) /\ ~Delivered(read[j]) => read[j].created <= read[k].created

Newest(k, read) == \A j \in DOMAIN read : Scope(j) = Scope(k) => read[j].created <= read[k].created

Scan ==
    /\ worker.pc = "off"
    /\ LET read == Restrict(box, {k \in DOMAIN box : k.kind \in Served /\ box[k].how # "superseded"})
           pending == {k \in DOMAIN read : ~Delivered(read[k])}
           last == {k \in pending : Newest(k, read)} IN
       /\ pending # {}
       /\ \E due \in {{k} : k \in last} \union {{}} :
             worker' = [pc |-> "run", stale |-> Restrict(read, pending \ last),
                        due |-> Restrict(read, due), ack |-> FALSE, sent |-> {}]
       /\ worker'.stale # <<>> \/ worker'.due # <<>>
    /\ UNCHANGED <<clock, world, kept, scope, box, rep, health, told, doubled, producer, changes, faults>>

Drop(f, k) == Restrict(f, DOMAIN f \ {k})

Supersede ==
    /\ worker.pc = "run"
    /\ \E k \in DOMAIN worker.stale :
          /\ box' = Put(k, [worker.stale[k] EXCEPT !.how = "superseded"])
          /\ worker' = IF DOMAIN worker.stale = {k} /\ worker.due = <<>> THEN Asleep
                       ELSE [worker EXCEPT !.stale = Drop(@, k)]
    /\ UNCHANGED <<clock, world, kept, scope, rep, health, told, doubled, producer, changes, faults>>

\* The command: answered, accepted without an answer, or not accepted.
Send(k, answer) ==
    /\ worker.pc = "run" /\ worker.stale = <<>> /\ worker.sent = {} /\ k \in DOMAIN worker.due
    /\ told' = IF answer = "refused" THEN told ELSE told \union {k}
    /\ worker' = [worker EXCEPT !.sent = {k}, !.ack = answer = "ok"]
    /\ UNCHANGED <<clock, world, kept, scope, box, rep, health, doubled, producer, changes, faults>>

Record ==
    /\ worker.sent # {}
    /\ \E k \in worker.sent :
          /\ box' = Put(k, IF worker.ack THEN [worker.due[k] EXCEPT !.how = "told"] ELSE worker.due[k])
          /\ worker' = Asleep
    /\ UNCHANGED <<clock, world, kept, scope, rep, health, told, doubled, producer, changes, faults>>

-----------------------------------------------------------------------------

\* A reporter dies between two events of its batch.  A worker that dies
\* leaves what an unanswered command leaves.
ReporterDies ==
    /\ faults < MaxFaults /\ faults' = faults + 1
    /\ \E r \in Reporters : rep[r].pc = "write" /\ rep' = [rep EXCEPT ![r] = Quiet]
    /\ UNCHANGED <<clock, world, kept, scope, box, worker, health, told, doubled, producer, changes>>

Reporter(r) == ListEvents(r) \/ WriteEvent(r) \/ ReadState(r) \/ WriteState(r)

OutboxNext ==
    \/ Tick \/ Change \/ ReporterDies \/ ProbeFails \/ ProbeSucceeds \/ Scan \/ Supersede \/ Record
    \/ \E r \in Reporters : Reporter(r) \/ \E up \in BOOLEAN : Reconcile(r, up)
    \/ \E k \in DOMAIN worker.due, answer \in {"ok", "lost", "refused"} : Send(k, answer)

OutboxSpec == OutboxInit /\ [][OutboxNext]_outboxVars

-----------------------------------------------------------------------------

(* A site that needs action is announced once a day, however many          *)
(* reporters run and whatever they had read when they started              *)
(* (Notification-Digest.ps1:75-112).                                       *)
SiteAnnouncedOnce ==
    \A j, k \in DOMAIN box :
        /\ j # k /\ j.day = k.day /\ j.kind = "action" /\ k.kind = "action"
        => box[j].news \cap box[k].news = {}

(* The receiver never learns of an older state after a newer one of the    *)
(* same day, whatever items writers resurrect behind the worker's back,    *)
(* until two reporters created one state's item at once                    *)
(* (Invoke-CheckinNotificationOutbox.ps1:149-159, 183-199).                *)
ToldInOrder ==
    [][\A k \in told' \ told, j \in told \cap DOMAIN box :
          j # k /\ Scope(j) = Scope(k) /\ ~doubled => box[j].created < worker.due[k].created]_outboxVars

(* A recovery is only announced for an outage that was announced           *)
(* (Gateway-Audit.ps1:95-133), though the process may die behind any write. *)
RecoveryHasOutage ==
    \A k \in DOMAIN box \union told : k.kind = "recovered" =>
        [k EXCEPT !.kind = "blocked"] \in DOMAIN box \union told

(* A receipt, once kept for the day, outlasts outages of the observation   *)
(* layer, unless the site was denied later, the receipts kept from now on  *)
(* are another plan's or two reporters overlapped                          *)
(* (notification-reconciliation.mjs:119-183).                              *)
ReceiptsOutlastOutages ==
    [][\A s \in kept \ kept' :
          \/ s \in world.denied \/ Day(clock') # Day(clock) \/ scope' # scope
          \/ \E r \in Reporters : rep[r].pc = "read" /\ rep'[r].pc # "read" /\ ~rep[r].alone]_outboxVars

=============================================================================
