----------------------------- MODULE SiteVisit ------------------------------
(***************************************************************************)
(* How one run of the engine treats one bookmarked site: the candidate     *)
(* addresses of a target, the attempts with a fresh page, the guard around *)
(* a PT submission, the one repetition in a fresh browser context and the  *)
(* recovery rounds (browser.mjs, pt-submission-guard.mjs, index.mjs).      *)
(*                                                                         *)
(* A candidate is a sequence of stages: the adapters that apply to its     *)
(* page, in the order processCandidateBody tries them.  A submission is    *)
(* sent and answered in two steps; it may be recorded by the site before   *)
(* its answer, after a silent answer, or never.                            *)
(***************************************************************************)
EXTENDS SiteAdapters, Sequences, Integers

CONSTANTS Targets,             \* [guarded: a PT execution target?, quarantined: is it
                               \* OpenCD?, candidates]
          RetryCount, RecoveryRounds, MaxTries,
          MaxOpen              \* bound: submissions told apart

ASSUME VisitAssumption ==
    /\ RetryCount \in Nat /\ RecoveryRounds \in Nat /\ MaxTries \in Nat \ {0}
    /\ MaxOpen \in Nat \ {0}

(* OpenCD is a PT tracker.  The adapters of a New API gateway, which may   *)
(* find that a site has no check-in, are not applied to a PT tracker       *)
(* (shouldTryGenericNewApiCheckin and the configured origins).             *)
ASSUME TargetAssumption ==
    \A t \in Targets :
        /\ {t.guarded, t.quarantined} \subseteq BOOLEAN
        /\ t.quarantined => t.guarded
        /\ t.candidates \in Seq(Seq(Adapters)) /\ t.candidates # <<>>
        /\ \A c \in 1..Len(t.candidates) :
              /\ t.candidates[c] # <<>>
              /\ t.guarded => \A i \in 1..Len(t.candidates[c]) :
                                t.candidates[c][i] \notin {"newApi", "apiCaptcha"}

VARIABLES target,
          site,       \* the site has recorded today's check-in
          flying,     \* submissions the site may still record
          doubt,      \* submissions whose outcome the engine has not learned
          told,       \* the engine has read that today's check-in is recorded
          sent,       \* something was submitted in this call of processTarget
          round, fresh, attempt,
          cand, stage, tries,
          where,      \* goto, look, answer, settle, report, over; between runs idle
          attempted,  \* the guard's flag: a submission was let through
          clicked,    \* checkinClickStarted(page)
          acted,      \* a control was clicked on this candidate's page
          posted,     \* this candidate has submitted something
          hidden,     \* a candidate that submitted ended with a result that denies it
          best,       \* lastResult, then the result of processTarget
          clean,      \* allCandidatesUnsubmitted
          shotFailed  \* a failure screenshot has thrown

place == <<cand, stage, tries>>
opened == <<round, fresh, attempt, place, clicked>>
page == <<attempted, acted, posted>>
visitVars ==
    <<target, site, flying, doubt, told, sent, round, fresh, attempt, cand, stage, tries,
      where, attempted, clicked, acted, posted, hidden, best, clean, shotFailed>>

Nothing == R("none", "no")
Capped(n) == IF n > MaxOpen THEN MaxOpen ELSE n

Priority ==
    [none |-> 0, signed |-> 100, not_available |-> 95, needs_attention |-> 90,
     login_required |-> 85, challenge |-> 84, managed_challenge |-> 82, deferred |-> 80,
     unconfirmed |-> 70, visited |-> 60, error |-> 30, no_action |-> 20]

(* Of two results of equal priority the earlier one stays.                 *)
Prefer(current, next) ==
    IF Priority[next.status] > Priority[current.status] THEN next ELSE current

Terminal(r) == r.status \in {"signed", "not_available"}

\* Mutant: the candidate loop does not stop at a finished result.
StopsInDoubtOnly(r) == r.submitted = "yes" \/ r.why = "review"
Stops(r) == Terminal(r) \/ r.submitted = "yes" \/ r.why = "review"

(* Results that a recovery round of the same run may try again; a deferred *)
(* result is not due before the run has ended.                             *)
Eligible(r) ==
    /\ r.submitted # "yes"
    /\ r.status \in {"error", "login_required", "challenge", "no_action"}

NeedsRefresh(r) == r.status = "deferred" /\ r.why = "upstream"

\* Mutant: the guard reports what the page said.
Unguarded(r) == r

(* guardPtSubmission: once a submission was let through, anything but a    *)
(* check-in that is confirmed, or a captcha the site has refused, is       *)
(* unknown.                                                                *)
Guarded(r) ==
    IF ~attempted THEN r
    ELSE IF r.status = "signed" THEN [r EXCEPT !.submitted = "yes"]
    ELSE IF r.why = "captcha_rejected" THEN r ELSE Unknown

Stages == target.candidates[cand]
Stage == Stages[stage]

VisitInit ==
    /\ target \in Targets
    /\ site \in BOOLEAN /\ flying = 0 /\ doubt = 0 /\ told = FALSE /\ sent = FALSE
    /\ round = 0 /\ fresh = FALSE /\ attempt = 0 /\ cand = 1 /\ stage = 1 /\ tries = 1
    /\ where = (IF target.quarantined THEN "idle" ELSE "goto")
    /\ attempted = FALSE /\ clicked = FALSE /\ acted = FALSE
    /\ posted = FALSE /\ hidden = FALSE
    /\ best = Nothing /\ clean = TRUE /\ shotFailed = FALSE

-----------------------------------------------------------------------------
(* The candidates of one attempt.                                          *)

\* Mutant: any result that does not name a submission counts as none.
NotSaidSubmitted(r) == r.submitted # "yes"

Unsubmitted(r) == r.submitted = "no"

(* A candidate ends with r: the guard has its say, the result is weighed   *)
(* against the earlier ones, and the next candidate follows or none does.  *)
(* left is what stays in doubt unless r confirms the check-in.             *)
Close(r, left) ==
    LET g == Guarded(r) IN
    /\ best' = Prefer(best, g)
    /\ clean' = (clean /\ Unsubmitted(g))
    /\ told' = (told \/ r = Signed)
    /\ hidden' = (hidden \/ (posted /\ g.submitted = "no"))
    /\ doubt' = IF r = Signed THEN 0 ELSE left
    /\ IF Stops(g) \/ cand = Len(target.candidates)
       THEN where' = "settle" /\ UNCHANGED place
       ELSE where' = "goto" /\ cand' = cand + 1 /\ stage' = 1 /\ tries' = 1
    /\ UNCHANGED <<target, sent, round, fresh, attempt, page, clicked, shotFailed>>

(* The page goes on with its next stage, or with another answer.           *)
GoOn(to, try, left) ==
    /\ stage' = to /\ tries' = try /\ where' = "look" /\ doubt' = left
    /\ UNCHANGED <<target, hidden, told, sent, round, fresh, attempt, cand, page, clicked, best,
                   clean, shotFailed>>

(* What follows from a stage's result.                                     *)
Continue(o, left) ==
    CASE o = Skip -> IF stage < Len(Stages) THEN GoOn(stage + 1, 1, left)
                     ELSE Close(R("no_action", "unset"), left)
      [] o = Again -> IF tries < MaxTries THEN GoOn(stage, tries + 1, left)
                      ELSE Close(Spent(Stage, left < doubt), left)
      [] OTHER -> Close(o, left)

OpenCandidate ==
    /\ where = "goto" /\ where' = "look"
    /\ attempted' = FALSE /\ acted' = FALSE /\ posted' = FALSE
    /\ UNCHANGED <<target, site, flying, doubt, hidden, told, sent, opened, best, clean, shotFailed>>

(* Waiting for a page to turn green makes sense on a page that was acted   *)
(* on and on an attendance page only.                                      *)
Looks ==
    IF Stage = "wait" /\ ~acted /\ Stages[1] # "attend" THEN {Skip}
    ELSE Look(Stage, site, acted)

LookAtSite ==
    /\ where = "look" /\ \E o \in Looks \ {Send} : Continue(o, doubt)
    /\ UNCHANGED <<site, flying>>

(* checkHarvestPtBeforeWrite: before a write, and at several points before *)
(* it, Harvest's live report may say that the site is done or must wait.   *)
GateCloses ==
    /\ where = "look" /\ target.guarded
    /\ \E r \in {R("deferred", "no"), Upstream("no")} \cup Known(site) : Close(r, doubt)
    /\ UNCHANGED <<site, flying>>

Submit ==
    /\ where = "look" /\ Send \in Looks
    /\ attempted' = target.guarded
    /\ clicked' = (clicked \/ Stage = "control") /\ acted' = (acted \/ Stage = "control")
    /\ flying' = Capped(flying + 1) /\ doubt' = Capped(doubt + 1)
    /\ sent' = TRUE /\ posted' = TRUE /\ where' = "answer"
    /\ UNCHANGED <<target, hidden, site, told, round, fresh, attempt, place, best, clean,
                   shotFailed>>

AnswerArrives ==
    /\ where = "answer"
    /\ \E a \in Answers :
         /\ a \in {"accepted", "refused"} => flying > 0
         /\ a = "already" => site
         /\ site' = (site \/ a = "accepted")
         /\ flying' = IF a \in {"accepted", "refused"} THEN flying - 1 ELSE flying
         /\ \E o \in Afterwards(Stage, a, site') :
              Continue(o, IF a = "refused" THEN doubt - 1 ELSE doubt)

(* resultFromPageFailure                                                   *)
PageFailure ==
    IF clicked THEN {Unknown} ELSE
    Known(site) \cup {R(x, "unset") : x \in {"challenge", "managed_challenge", "error"}}
                \cup {Review, R("login_required", "no"), Upstream("unset")}

(* The candidate throws; behind the guard that is unknown once a           *)
(* submission was let through.                                             *)
PageBreaks ==
    /\ where \in {"look", "answer"}
    /\ \E r \in IF attempted THEN {Unknown} ELSE PageFailure : Close(r, doubt)
    /\ UNCHANGED <<site, flying>>

-----------------------------------------------------------------------------
(* The end of an attempt, processTarget's result and what the engine does  *)
(* with it.                                                                *)

LastAttempt == attempt = RetryCount
Concludes(r) == ~(r.status = "visited" /\ ~LastAttempt)
TakesShot(r) == ~Terminal(r) /\ r.status # "login_required"

(* A login result is reported as unsubmitted only if every candidate was.  *)
Concluded(r) ==
    IF r.status = "login_required" THEN [r EXCEPT !.submitted = IF clean THEN "no" ELSE "unset"]
    ELSE r

StartAttempt(n, f, r) ==
    /\ attempt' = n /\ fresh' = f /\ round' = r
    /\ cand' = 1 /\ stage' = 1 /\ tries' = 1 /\ clicked' = FALSE /\ where' = "goto"
    /\ UNCHANGED page

Settle ==
    /\ where = "settle" /\ Concludes(best)
    /\ where' = "report" /\ best' = Concluded(best)
    /\ UNCHANGED <<target, site, flying, doubt, told, hidden, sent, opened, page, clean, shotFailed>>

Reopen ==
    /\ where = "settle" /\ ~Concludes(best)
    /\ StartAttempt(attempt + 1, fresh, round)
    /\ UNCHANGED <<target, site, flying, doubt, told, hidden, sent, best, clean, shotFailed>>

(* The screenshot of a failed visit throws, on a page that hangs or has    *)
(* been closed: the catch clause weighs one more result, and the loop goes *)
(* on with its next attempt if there is one.                               *)
ShotFails ==
    /\ where = "settle" /\ Concludes(best) /\ TakesShot(best)
    /\ shotFailed' = TRUE /\ clean' = FALSE
    /\ \E r \in PageFailure :
         /\ best' = Prefer(best, r)
         /\ told' = (told \/ r = Signed)
         /\ doubt' = IF r = Signed THEN 0 ELSE doubt
    /\ IF LastAttempt THEN where' = "report" /\ UNCHANGED <<opened, page>>
       ELSE StartAttempt(attempt + 1, fresh, round)
    /\ UNCHANGED <<target, site, flying, hidden, sent>>

Anew ==
    /\ best' = Nothing /\ clean' = TRUE /\ sent' = FALSE
    /\ UNCHANGED <<target, site, flying, doubt, told, hidden, shotFailed>>

(* runGlobalTarget: once more in a fresh browser context.                  *)
Refresh ==
    /\ where = "report" /\ ~fresh /\ NeedsRefresh(best)
    /\ StartAttempt(0, TRUE, round) /\ Anew

Reported == where = "report" /\ (fresh \/ ~NeedsRefresh(best))

(* A recovery round, after an attempt to log in where that is what failed. *)
Recover ==
    /\ Reported /\ Eligible(best) /\ round < RecoveryRounds
    /\ StartAttempt(0, FALSE, round + 1) /\ Anew

(* The login recovery's own outcome stands for the round: the helper read  *)
(* that the check-in is recorded, or there is no session to visit with.    *)
LoginDecides ==
    /\ Reported /\ best.status = "login_required" /\ Eligible(best) /\ round < RecoveryRounds
    /\ \E r \in {R("needs_attention", "unset"), Upstream("unset")} \cup Known(site) :
         /\ best' = r /\ told' = (told \/ r = Signed)
         /\ doubt' = IF r = Signed THEN 0 ELSE doubt
    /\ round' = round + 1 /\ fresh' = TRUE
    /\ UNCHANGED <<target, site, flying, hidden, sent, attempt, place, where, page, clicked, clean,
                   shotFailed>>

Over ==
    /\ Reported /\ ~(Eligible(best) /\ round < RecoveryRounds)
    /\ where' = "over"
    /\ UNCHANGED <<target, site, flying, doubt, told, hidden, sent, opened, page, best, clean, shotFailed>>

-----------------------------------------------------------------------------
(* The site works on what is still on its way, or loses it.                *)

Elsewhere == <<target, doubt, told, hidden, sent, opened, where, page, best, clean,
               shotFailed>>
Land == flying > 0 /\ flying' = flying - 1 /\ site' = TRUE /\ UNCHANGED Elsewhere
Drop == flying > 0 /\ flying' = flying - 1 /\ site' = site /\ UNCHANGED Elsewhere

Visit == OpenCandidate \/ LookAtSite \/ GateCloses \/ Submit \/ AnswerArrives \/ PageBreaks
Engine == Settle \/ Reopen \/ ShotFails \/ Refresh \/ Recover \/ LoginDecides \/ Over

VisitNext == Visit \/ Engine \/ Land \/ Drop
VisitSpec == VisitInit /\ [][VisitNext]_visitVars

-----------------------------------------------------------------------------
(* As the guard's own message has it, a PT target in doubt is not opened   *)
(* again.  A failure screenshot that throws breaks this (module            *)
(* SubmissionQuarantine states what holds).                                *)
NotOpenedAgain == target.guarded /\ where = "goto" => doubt = 0

(* The record of a PT target left in doubt names the submission.          *)
DoubtIsRecorded ==
    target.guarded /\ where = "over" /\ doubt > 0 /\ ~told => best.submitted = "yes"

(* A result "login required, nothing submitted" is true of the whole call  *)
(* of processTarget, all its candidates and attempts, as far as each       *)
(* candidate told the truth about itself.                                  *)
LoginIsClean ==
    where = "report" /\ best = R("login_required", "no") /\ sent => hidden \/ shotFailed

(* Once the engine has read that today's check-in is recorded, it opens no *)
(* candidate of the target again, unless a failure screenshot has thrown.  *)
ConfirmedEndsTheVisit == told /\ where = "goto" => shotFailed
=============================================================================
