------------------------ MODULE SubmissionQuarantine ------------------------
(***************************************************************************)
(* What an OpenCD submission in doubt does to the later runs of the day:   *)
(* quota-claim-guard, pt-submission-closure, pt-observation-receipt and    *)
(* the OpenCD part of site-state, around the visits of module SiteVisit.   *)
(*                                                                         *)
(* A run writes its report (data/latest.json), then data/site-state.json;  *)
(* both block a later visit.  Between runs the passive reader leaves a     *)
(* receipt of the day.  A signed one settles the day without a visit.  An  *)
(* unsigned one, newer than everything on record and at most five minutes  *)
(* old, may be claimed: durably, before the visit, once.                   *)
(*                                                                         *)
(* Times are the orders the code compares: an unsigned receipt is "old"    *)
(* once a time on record is newer or its five minutes are over.  Every run *)
(* holds tmp/run.lock, which the reader needs as well.                     *)
(***************************************************************************)
EXTENDS SiteVisit

CONSTANT MaxRuns

ASSUME QuarantineAssumption == MaxRuns \in Nat

VARIABLES pending,    \* pendingOpenCdAt: its day and whether it names this profile
          older,      \* openCdPendingHistory has an unresolved entry of this profile
          resolved,   \* a current_day_confirmed resolution is on record
          claim,      \* today's openCdRecoveryAttempts hold one that is active
          prior,      \* the result in the last final report
          receipt,    \* the day's passive receipt
          recovered,  \* the run visits under a claim
          runs,
          risk,       \* history: this run has submitted and not yet written so
          licence,    \* history: an unsigned reading since the last submission
          lost        \* history: all records of a submission in doubt are gone

record == <<pending, older, resolved, claim>>
past == <<risk, licence, lost>>
own == <<record, prior, receipt, recovered, runs, past>>

NoPending == [day |-> "none", bound |-> FALSE]
Today == [day |-> "today", bound |-> TRUE]

QInit ==
    /\ VisitInit
    /\ pending \in IF target.quarantined
                   THEN {NoPending} \cup [day : {"yesterday"}, bound : BOOLEAN]
                   ELSE {NoPending}
    /\ older = FALSE /\ resolved = FALSE /\ claim = FALSE
    /\ prior = Nothing /\ receipt = "none"
    /\ recovered = FALSE /\ runs = 0
    /\ risk = FALSE /\ licence = FALSE /\ lost = FALSE

-----------------------------------------------------------------------------
(* The visit itself; a submission uses up a licence.                       *)
Visiting ==
    /\ VisitNext
    /\ IF where = "look" /\ where' = "answer" THEN risk' = TRUE /\ licence' = FALSE
       ELSE UNCHANGED <<risk, licence>>
    /\ UNCHANGED <<record, prior, receipt, recovered, runs, lost>>

(* The passive reader: what the page shows, or nothing new.                *)
Read ==
    /\ target.quarantined /\ where = "idle"
    /\ receipt' = (IF site THEN "signed" ELSE "unsigned")
    /\ licence' = (licence \/ ~site)
    /\ UNCHANGED <<visitVars, record, prior, recovered, runs, risk, lost>>

Outdated == IF receipt = "unsigned" THEN "old" ELSE receipt

Ages ==
    /\ receipt = "unsigned" /\ receipt' = Outdated
    /\ UNCHANGED <<visitVars, record, prior, recovered, runs, past>>

-----------------------------------------------------------------------------
(* The run's result keeps an earlier one of the same priority.             *)
Uncertain(r) == r = Unknown
Masked == risk /\ doubt > 0 /\ ~Uncertain(best)

(* The process and what it knows is gone.                                  *)
Exits ==
    /\ where' = "idle" /\ round' = 0 /\ fresh' = FALSE /\ attempt' = 0
    /\ cand' = 1 /\ stage' = 1 /\ tries' = 1
    /\ attempted' = FALSE /\ clicked' = FALSE /\ acted' = FALSE /\ posted' = FALSE
    /\ told' = FALSE /\ hidden' = FALSE /\ sent' = FALSE /\ best' = Nothing /\ clean' = TRUE
    /\ shotFailed' = FALSE /\ recovered' = FALSE /\ risk' = FALSE
    /\ UNCHANGED <<target, site, flying, doubt, runs, licence>>

(* The end of a run: its report, unless it is incomplete, and the state of *)
(* the sites.                                                              *)
WriteReport ==
    /\ target.quarantined /\ where = "over" /\ where' = "saving"
    /\ \/ prior' = best /\ receipt' = Outdated /\ risk' = FALSE
       \/ UNCHANGED <<prior, receipt, risk>>
    /\ lost' = (lost \/ Masked)
    /\ UNCHANGED <<target, site, flying, doubt, told, hidden, sent, opened, page, best, clean,
                   shotFailed, record, recovered, runs, licence>>

(* openCdAuditState: a confirmed check-in settles the submission it was    *)
(* claimed for or that this profile made today, and no other; a new doubt  *)
(* under a claim replaces the pending one, which is kept as history.       *)
UpdateSiteState(r, confirmed) ==
    LET resolves == confirmed /\ (recovered \/ pending = Today)
        replaces == recovered /\ Uncertain(r)
    IN  /\ pending' = IF resolves THEN NoPending
                      ELSE IF replaces \/ (Uncertain(r) /\ pending = NoPending) THEN Today
                      ELSE pending
        /\ older' = (older \/ (replaces /\ pending # NoPending))
        /\ resolved' = (resolved \/ (resolves /\ pending # NoPending))
        /\ claim' = IF resolves \/ (recovered /\ r.submitted = "no") THEN FALSE ELSE claim

WriteSiteState ==
    /\ where = "saving" /\ Exits
    /\ \E confirmed \in {FALSE, best.status = "signed"} : UpdateSiteState(best, confirmed)
    /\ receipt' = Outdated
    /\ UNCHANGED <<prior, lost>>

Dies ==
    /\ target.quarantined /\ where # "idle" /\ Exits
    /\ lost' = (lost \/ risk)
    /\ UNCHANGED <<record, prior, receipt>>

-----------------------------------------------------------------------------
(* The start of the next run.                                              *)

(* reconcilePendingPtObservations: a signed receipt of the pending day and *)
(* this profile settles it; that of an earlier day may be on file.         *)
Reconciled ==
    IF receipt = "signed" /\ pending = Today
    THEN pending' = NoPending /\ resolved' = TRUE /\ claim' = FALSE /\ UNCHANGED older
    ELSE \/ UNCHANGED record
         \/ /\ pending = [day |-> "yesterday", bound |-> TRUE] /\ pending' = NoPending
            /\ UNCHANGED <<older, resolved, claim>>

(* pendingOpenCdSubmission: a pending submission, an active claim, an      *)
(* unresolved entry or an uncertain report that is not resolved since, ... *)
Blocked ==
    \/ pending # NoPending
    \/ claim
    \/ (older \/ Uncertain(prior)) /\ ~resolved

(* claimPtUnsignedRecovery *)
Claimable == receipt = "unsigned"

(* ... unless the last report has this profile's check-in of the day, with *)
(* evidence that qualifies or not: it outweighs all but an old entry.      *)
Outweighed == prior.status = "signed" /\ (pending # NoPending \/ ~older)

NewRun == runs < MaxRuns /\ where = "idle" /\ runs' = runs + 1

NextRun ==
    /\ NewRun /\ where' = "guard" /\ Reconciled
    /\ UNCHANGED <<target, site, flying, doubt, told, hidden, sent, opened, page, best, clean,
                   shotFailed, prior, receipt, recovered, past>>

(* A visit from the first candidate on.                                    *)
Visits ==
    /\ where' = "goto"
    /\ UNCHANGED <<target, site, flying, doubt, told, hidden, sent, opened, page, best, clean,
                   shotFailed, risk, licence>>

(* No visit: r is the result.                                              *)
Settles(r) ==
    /\ where' = "over" /\ best' = r
    /\ told' = (r = Signed) /\ doubt' = IF r = Signed THEN 0 ELSE doubt
    /\ UNCHANGED <<target, site, flying, hidden, sent, opened, page, clean, shotFailed,
                   risk, licence>>

(* closureBindingError: the profile of the target is not known.            *)
Unbound ==
    /\ where = "guard" /\ Settles(R("needs_attention", "no"))
    /\ lost' = (lost \/ (Uncertain(prior) /\ pending = NoPending))
    /\ UNCHANGED <<record, prior, receipt, recovered, runs>>

(* verifiedPtObservation *)
Verified ==
    /\ where = "guard" /\ receipt = "signed" /\ Settles(Signed)
    /\ UNCHANGED <<record, prior, receipt, recovered, runs, lost>>

Held ==
    /\ where = "guard" /\ receipt # "signed" /\ Blocked /\ ~Claimable
    /\ Settles(Unknown)
    /\ UNCHANGED <<record, prior, receipt, recovered, runs, lost>>

\* Mutant: the claim is kept in memory only.
ClaimUnrecorded ==
    /\ where = "guard" /\ receipt # "signed" /\ Blocked /\ Claimable
    /\ recovered' = TRUE /\ Visits
    /\ UNCHANGED <<record, receipt, prior, runs, lost>>

(* claimPtUnsignedRecovery: the claim is on disk before the visit, and its *)
(* time and its proof's make the receipt an old one.                       *)
Claim ==
    /\ where = "guard" /\ receipt # "signed" /\ Blocked /\ Claimable
    /\ claim' = TRUE /\ receipt' = Outdated /\ recovered' = TRUE /\ Visits
    /\ UNCHANGED <<pending, older, resolved, prior, runs, lost>>

Open ==
    /\ where = "guard" /\ receipt # "signed" /\ (~Blocked \/ Outweighed) /\ Visits
    /\ UNCHANGED <<record, prior, receipt, recovered, runs, lost>>

-----------------------------------------------------------------------------
Saves == WriteReport \/ WriteSiteState \/ Dies
Guard == Unbound \/ Verified \/ Held \/ Claim \/ Open

QNext == Visiting \/ Read \/ Ages \/ Saves \/ NextRun \/ Guard
QSpec == QInit /\ [][QNext]_<<visitVars, own>>

-----------------------------------------------------------------------------
(* A PT submission whose outcome is unknown ends the visit, and at OpenCD  *)
(* the later visits of the day: no candidate, attempt, fresh context,      *)
(* recovery round or run opens a page for this target again, unless the    *)
(* site was read as unsigned since, which licenses one more submission, or *)
(* the day's check-in is on record.  Two things may break this: a failure  *)
(* screenshot that throws, and the loss of every record of the submission. *)
DoubtEndsTheVisit ==
    target.guarded /\ where = "goto" /\ doubt > 0 =>
        licence \/ resolved \/ prior.status = "signed" \/ shotFailed \/ lost

(* A PT target left in doubt by this run is recorded as needing attention, *)
(* a result that no recovery round or later resumption picks up by itself, *)
(* whatever other candidates, attempts and pages showed.                   *)
DoubtNeedsAttention ==
    target.guarded /\ where = "over" /\ risk /\ doubt > 0 /\ ~told =>
        best.status = "needs_attention"

(* Every variable is of its type.                                          *)
QTypeOK ==
    /\ pending \in [day : {"none", "yesterday", "today"}, bound : BOOLEAN]
    /\ {older, resolved, claim, recovered, risk, licence, lost} \subseteq BOOLEAN
    /\ receipt \in {"none", "signed", "unsigned", "old"}
    /\ runs \in 0..MaxRuns

=============================================================================
