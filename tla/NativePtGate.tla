---------------------------- MODULE NativePtGate ----------------------------
(***************************************************************************)
(* The intent journal of native PT check-ins (native-pt-attempts.json) and *)
(* the sessions that submit under it, for one site account and one browser *)
(* profile.  A session runs under run.lock, so at most one is alive; its   *)
(* process may die anywhere, and the response to its request may be lost.  *)
(*                                                                         *)
(* Time is a tick count, a business day is DayLen ticks.  A gate call      *)
(* takes the clock on entry and the journal lock later: the time `t` of a  *)
(* call lies between the session's previous step and now.                  *)
(***************************************************************************)
EXTENDS Naturals, FiniteSets

CONSTANTS
  Session,    \* submission sessions, each with an attempt id of its own
  NoSession,  \* nobody
  DayLen,     \* ticks in a business day
  Fresh,      \* ticks an unsigned read stays usable (five minutes)
  Window,     \* ticks an attempt may continue (ten minutes)
  Horizon     \* bound on the clock

ASSUME NativePtGateAssumption ==
  /\ NoSession \notin Session
  /\ DayLen \in Nat \ {0} /\ Fresh \in Nat /\ Window \in Nat /\ Horizon \in Nat

VARIABLES
  now,        \* the clock
  attempts,   \* journal.attempts, per session: NoAttempt or a record
  readbacks,  \* journal.readbacks
  observed,   \* the controller's passive read report of each day
  report,     \* what logs/latest.json says of the site
  holder,     \* the live session, holder of run.lock
  pc,         \* where each session stands
  since,      \* when it made its last step
  proof,      \* the page reading it holds
  signedDays, \* days the site has the account signed in
  landed      \* per day, the sessions whose request the site accepted

vars == <<now, attempts, readbacks, observed, report, holder, pc, since, proof,
          signedDays, landed>>
journal == <<attempts, readbacks>>
world   == <<signedDays, landed>>

Time  == 0..Horizon
Day(t) == t \div DayLen
Days  == {Day(t) : t \in Time}

NoAttempt == [state |-> "none", at |-> 0, acts |-> {}, seen |-> 0]
Action    == {"navigation", "click"}
Attempt   == [state : {"none", "submitted", "confirmed", "resolved"},
              at : Time, acts : SUBSET Action, seen : Time]
\* A reading of the account's daily header: signed or not, and when.
Reading   == [signed : BOOLEAN, at : Time]
NoReading == [signed |-> FALSE, at |-> Horizon + 1]
Steps == {"idle", "read", "readback", "inspect", "begin", "write", "finish", "done"}
Report == [kind : {"none", "success", "unknown", "waiting"}, at : Time]

TypeOK ==
  /\ now \in Time
  /\ attempts \in [Session -> Attempt]
  /\ readbacks \in SUBSET Reading
  /\ observed \in [Days -> Reading \cup {NoReading}]
  /\ report \in Report
  /\ holder \in Session \cup {NoSession}
  /\ pc \in [Session -> Steps]
  /\ since \in [Session -> Time]
  /\ proof \in [Session -> Reading \cup {NoReading}]
  /\ signedDays \in SUBSET Days
  /\ landed \in [Days -> SUBSET Session]

Init ==
  /\ now = 0
  /\ attempts = [s \in Session |-> NoAttempt]
  /\ readbacks = {}
  /\ observed = [d \in Days |-> NoReading]
  /\ report = [kind |-> "none", at |-> 0]
  /\ holder = NoSession
  /\ pc = [s \in Session |-> "idle"]
  /\ since = [s \in Session |-> 0]
  /\ proof = [s \in Session |-> NoReading]
  /\ signedDays = {}
  /\ landed = [d \in Days |-> {}]

-----------------------------------------------------------------------------
(* What the gate reads out of the journal, the observations and the report *)

Submitted(s) == attempts[s].state = "submitted"
Reads == (readbacks \cup {observed[d] : d \in Days}) \ {NoReading}

\* Times of the signed readings of t's day, and of its confirmed attempts.
Receipts(t) ==
  {r.at : r \in {x \in Reads : x.signed /\ Day(x.at) = Day(t) /\ x.at <= t}}
  \cup {attempts[s].seen : s \in {x \in Session : /\ attempts[x].state = "confirmed"
                                                  /\ Day(attempts[x].seen) = Day(t)
                                                  /\ attempts[x].seen <= t}}

\* Mutant: any later receipt closes an intent, of whichever day.
ClosedByAnyDay(s, t) == {r \in Receipts(t) : r >= attempts[s].at}

\* A passive reading that closes an older intent: the controller's report of
\* the intent's own day, or a receipt of today for an intent of today.
ClosedBy(s, t) ==
  {r.at : r \in {x \in {observed[Day(attempts[s].at)]} \ {NoReading} :
                   /\ x.signed /\ attempts[s].at < x.at
                   /\ x.at <= t /\ attempts[s].at < t}}
  \cup {r \in Receipts(t) : Day(attempts[s].at) = Day(r) /\ r >= attempts[s].at}

\* The journal after the gate has settled what passive readings confirm.
Settled(t) ==
  [s \in Session |->
    IF Submitted(s) /\ ClosedBy(s, t) # {}
      THEN [attempts[s] EXCEPT !.state = "confirmed",
                               !.seen = CHOOSE r \in ClosedBy(s, t) : TRUE]
      ELSE attempts[s]]

Pending(s, t) == {o \in Session \ {s} : Settled(t)[o].state = "submitted"}

ReportedSuccess(t) ==
  IF report.kind = "success" /\ Day(report.at) = Day(t) /\ report.at <= t
    THEN {report.at} ELSE {}
Completed(t) == Receipts(t) \cup ReportedSuccess(t)

\* Mutant: the unsigned reading is not compared with the open intents.
AfterCompletions(s, t) ==
  Completed(t) \cup (IF report.kind = "unknown" THEN {report.at} ELSE {})

\* What an unsigned reading must be newer than to recover an older outcome.
After(s, t) ==
  {attempts[o].at : o \in Pending(s, t)} \cup Completed(t)
  \cup (IF report.kind = "unknown" THEN {report.at} ELSE {})

Unsigned(s, t) ==
  {r.at : r \in {x \in Reads : /\ ~x.signed /\ Day(x.at) = Day(t)
                               /\ x.at <= t /\ t <= x.at + Fresh
                               /\ \A a \in After(s, t) : x.at > a}}

Waiting(t) == report.kind = "waiting" /\ t <= report.at

\* nativePtDecision, then the attempt's own window and the day it began.
Refused(s, t) ==
  \/ Unsigned(s, t) = {} /\ Completed(t) # {}
  \/ Unsigned(s, t) = {} /\ (Pending(s, t) # {} \/ report.kind = "unknown")
  \/ Waiting(t)
  \/ Settled(t)[s].state = "confirmed"
  \/ attempts[s].state # "none" /\ (Day(attempts[s].at) # Day(t) \/ t > attempts[s].at + Window)
  \/ Day(now) # Day(t)

\* Mutant: nothing is resolved, the new attempt is simply added.
ResolvesNothing(s, t) == Settled(t)

\* Mutant: the intents of earlier days are resolved too.
ResolvesAllDays(s, t) ==
  [o \in Session |->
    IF Unsigned(s, t) # {} /\ o \in Pending(s, t)
      THEN [Settled(t)[o] EXCEPT !.state = "resolved"]
      ELSE Settled(t)[o]]

\* Same-day intents an unsigned reading resolves.
Resolved(s, t) ==
  [o \in Session |->
    IF Unsigned(s, t) # {} /\ o \in Pending(s, t) /\ Day(attempts[o].at) = Day(t)
      THEN [Settled(t)[o] EXCEPT !.state = "resolved"]
      ELSE Settled(t)[o]]

-----------------------------------------------------------------------------
(* A session *)

Go(s, step) == pc' = [pc EXCEPT ![s] = step] /\ since' = [since EXCEPT ![s] = now]

\* The session returns a result; the controller's report may or may not get
\* written before something else fails.
End(s, kind) ==
  /\ Go(s, "done")
  /\ holder' = NoSession
  /\ report' \in {report, [kind |-> kind, at |-> now]}

Start(s) ==
  /\ pc[s] = "idle" /\ holder = NoSession
  /\ holder' = s
  /\ Go(s, "read")
  /\ UNCHANGED <<now, journal, observed, report, proof, world>>

\* A trusted page reading; some paths go to the gate without one of their own.
ReadSite(s) ==
  /\ pc[s] = "read"
  /\ \/ /\ proof' = [proof EXCEPT ![s] = [signed |-> Day(now) \in signedDays, at |-> now]]
        /\ Go(s, "readback")
     \/ /\ Go(s, "inspect") /\ UNCHANGED proof
  /\ UNCHANGED <<now, journal, observed, report, holder, world>>

\* Phase readback: the receipt is stored if still fresh and of the same day.
Readback(s, t) ==
  /\ pc[s] = "readback"
  /\ IF /\ Day(proof[s].at) = Day(t) /\ t <= proof[s].at + Fresh
        /\ Day(now) = Day(t)
       THEN /\ readbacks' = readbacks \cup {proof[s]}
            /\ IF proof[s].signed
                 THEN /\ Go(s, "done") /\ holder' = NoSession
                      /\ report' \in {report, [kind |-> "success", at |-> proof[s].at]}
                 ELSE Go(s, "inspect") /\ UNCHANGED <<holder, report>>
       ELSE End(s, "waiting") /\ UNCHANGED readbacks
  /\ UNCHANGED <<now, attempts, observed, proof, world>>

\* Phase inspect: settle, decide, resolve.  The Harvest gate may also refuse.
Inspect(s, t) ==
  /\ pc[s] = "inspect"
  /\ \/ /\ ~Refused(s, t)
        /\ attempts' = Resolved(s, t)
        /\ Go(s, "begin")
        /\ UNCHANGED <<holder, report>>
     \/ /\ attempts' = Settled(t)
        /\ \E kind \in {"none", "waiting"} :
             End(s, IF Refused(s, t) /\ Pending(s, t) # {} THEN "unknown" ELSE kind)
  /\ UNCHANGED <<now, readbacks, observed, proof, world>>

\* Phase begin: the intent is on disk before the request leaves.
Begin(s, t, action) ==
  /\ pc[s] = "begin"
  /\ \/ /\ ~Refused(s, t)
        /\ \/ attempts[s].state = "none"
           \/ attempts[s].state = "submitted" /\ attempts[s].acts = {"navigation"} /\ action = "click"
        /\ attempts' = [Resolved(s, t) EXCEPT
             ![s] = [state |-> "submitted", seen |-> 0,
                     at |-> IF attempts[s].state = "none" THEN t ELSE attempts[s].at,
                     acts |-> attempts[s].acts \cup {action}]]
        /\ Go(s, "write")
        /\ UNCHANGED <<holder, report>>
     \/ /\ attempts' = Settled(t)
        /\ End(s, "unknown")
  /\ UNCHANGED <<now, readbacks, observed, proof, world>>

\* The request: accepted by the site, rejected by it, or lost; the page that
\* comes back proves completion, shows the account still unsigned, or is lost.
Write(s) ==
  /\ pc[s] = "write"
  /\ \/ /\ signedDays' = signedDays \cup {Day(now)}
        /\ landed' = [landed EXCEPT ![Day(now)] = @ \cup {s}]
        /\ \/ /\ proof' = [proof EXCEPT ![s] = [signed |-> TRUE, at |-> now]]
              /\ Go(s, "finish") /\ UNCHANGED <<holder, report>>
           \/ End(s, "unknown") /\ UNCHANGED proof
     \/ /\ Day(now) \notin signedDays
        /\ \/ /\ attempts[s].acts = {"navigation"}
              /\ Go(s, "begin") /\ UNCHANGED <<holder, report>>
           \/ End(s, "unknown")
        /\ UNCHANGED <<world, proof>>
  /\ UNCHANGED <<now, journal, observed>>

\* Mutant: the page status is stored where the attempt's state belongs.
FinishStatus(s, t) ==
  /\ pc[s] = "finish"
  /\ attempts' = [attempts EXCEPT ![s].state = "signed", ![s].seen = proof[s].at]
  /\ End(s, "success")
  /\ UNCHANGED <<now, readbacks, observed, proof, world>>

\* Phase finish: current-day evidence, not older than the intent, closes it.
Finish(s, t) ==
  /\ pc[s] = "finish"
  /\ IF /\ attempts[s].state \in {"submitted", "confirmed"}
        /\ Day(proof[s].at) = Day(t) /\ Day(attempts[s].at) = Day(t)
        /\ attempts[s].at <= proof[s].at
       THEN /\ attempts' = [attempts EXCEPT ![s].state = "confirmed", ![s].seen = proof[s].at]
            /\ Go(s, "done") /\ holder' = NoSession
            /\ report' \in {report, [kind |-> "success", at |-> proof[s].at]}
       ELSE End(s, "unknown") /\ UNCHANGED attempts
  /\ UNCHANGED <<now, readbacks, observed, proof, world>>

\* The process dies; its lock is reclaimed and no result is reported.
Crash(s) ==
  /\ holder = s
  /\ Go(s, "done")
  /\ holder' = NoSession
  /\ UNCHANGED <<now, journal, observed, report, proof, world>>

-----------------------------------------------------------------------------
(* The rest of the system *)

\* The controller's own passive verification, under the same locks.
Observe ==
  /\ holder = NoSession
  /\ observed' = [observed EXCEPT ![Day(now)] = [signed |-> Day(now) \in signedDays, at |-> now]]
  /\ UNCHANGED <<now, journal, report, holder, pc, since, proof, world>>

UserSigns ==
  /\ Day(now) \notin signedDays
  /\ signedDays' = signedDays \cup {Day(now)}
  /\ UNCHANGED <<now, journal, observed, report, holder, pc, since, proof, landed>>

Tick ==
  /\ now < Horizon
  /\ now' = now + 1
  /\ UNCHANGED <<journal, observed, report, holder, pc, since, proof, world>>

Next ==
  \/ \E s \in Session :
       \/ Start(s) \/ ReadSite(s) \/ Write(s) \/ Crash(s)
       \/ \E t \in since[s]..now :
            \/ Readback(s, t) \/ Inspect(s, t) \/ Finish(s, t)
            \/ \E action \in Action : Begin(s, t, action)
  \/ Observe \/ UserSigns \/ Tick

Spec == Init /\ [][Next]_vars

-----------------------------------------------------------------------------
(* Properties *)

\* On one business day at most one intent is unresolved: a second attempt is
\* only authorised together with the resolution of the first.
OneOpenIntentPerDay ==
  \A a, b \in Session :
    Submitted(a) /\ Submitted(b) /\ Day(attempts[a].at) = Day(attempts[b].at) => a = b

\* An intent is closed as confirmed only if the site has the account signed in
\* on the intent's own day, however late and by whichever reading it is closed.
ConfirmedIsTrue ==
  \A s \in Session : attempts[s].state = "confirmed" => Day(attempts[s].at) \in signedDays

\* Whatever crashed, whatever response was lost, the site never accepts the
\* requests of two sessions on the same day: an accepted submission is not
\* replayed.
NoReplay == \A d \in Days : \A a, b \in landed[d] : a = b

\* An accepted request was announced: its intent was in the journal first, and
\* the journal never forgets it.
LandedIsJournalled ==
  \A d \in Days : \A s \in landed[d] : attempts[s].state \in {"submitted", "confirmed"}
=============================================================================
