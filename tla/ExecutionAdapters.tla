-------------------------- MODULE ExecutionAdapters -------------------------
(***************************************************************************)
(* What the seven execution adapters of observation/src tell the task      *)
(* coordinator about one sign-in, against what really happened at the      *)
(* site: pure operators, one family per adapter.  A site is "unsigned",    *)
(* "pending" (a request has reached it and is not visible everywhere yet)  *)
(* or "signed".  An outcome of submit_once is                              *)
(*   answer   accepted, rejected or unknown                                *)
(*   maybe    the adapter's actionMayHaveHappened                          *)
(*   open     the truth: a request left and no refusal of it was seen      *)
(*   site     the truth: the state of the site afterwards                  *)
(* Bodies, dates, amounts, selectors and texts are abstracted to the       *)
(* class of the answer they are recognised as.                             *)
(***************************************************************************)
EXTENDS Naturals

Sites == {"unsigned", "pending", "signed"}
Outcome(answer, maybe, open, s) ==
    [answer |-> answer, maybe |-> maybe, open |-> open, site |-> s]

(* Where a request that left may have taken the site. *)
After(s) == {s} \cup (IF s = "unsigned" THEN Sites ELSE {})

(* The answers to a signing POST: six definite refusals, the answers that  *)
(* leave it open (no answer, a 5xx, a 2xx without success), success, and   *)
(* the two ways a site says that the account has signed before.            *)
Answers(s) ==
    [is : {"foreign", "unauthorized", "forbidden", "limited", "refused", "wrongCaptcha"},
     site : {s}]
    \cup [is : {"silence", "fault", "vague"}, site : After(s)]
    \cup [is : {"success"}, site : After(s) \ {"unsigned"}]
    \cup [is : IF s = "unsigned" THEN {} ELSE {"already", "alreadyRefused"}, site : {s}]

(* An adapter is the classes of answers it accepts and those it calls      *)
(* unknown with actionMayHaveHappened; every other answer is rejected.     *)
Classify(s, accepted, unknown) ==
    {Outcome(IF a.is \in accepted THEN "accepted"
             ELSE IF a.is \in unknown THEN "unknown" ELSE "rejected",
             a.is \in unknown,
             a.is \in {"silence", "fault", "vague", "success"},
             a.site) : a \in Answers(s)}

(* The adapter gave up before anything left. *)
NotSent(s, answers) == {Outcome(x, FALSE, FALSE, s) : x \in answers}

(* A refresh of the token that fails looks like a POST without an answer. *)
NewApiSubmit(s) ==
    Classify(s, {"success", "alreadyRefused"}, {"silence", "fault", "vague", "already"})
    \cup {Outcome("unknown", TRUE, FALSE, s)}

AnyRouterSubmit(s) ==
    Classify(s, {"success", "already"}, {"silence", "fault", "vague"})
    \cup NotSent(s, {"rejected"})

OAuthApiSubmit(s) ==
    Classify(s, {"success", "already"}, {"silence", "fault", "vague"})
    \cup NotSent(s, {"rejected"})

(* A refused code only leads to the next image; a 2xx without success that *)
(* does not mention the captcha is called a rejection.                     *)
CaptchaSubmit(s) ==
    Classify(s, {"success", "already", "alreadyRefused"}, {"silence", "fault"})
    \cup NotSent(s, {"rejected", "unknown"})

(* Mutant: clicked is set once the click has returned. *)
LateOAuthFlow(s) ==
    NotSent(s, {"unknown"})
    \cup [answer : {"unknown"}, maybe : BOOLEAN, open : {TRUE}, site : After(s)]
    \cup [answer : {"accepted"}, maybe : {TRUE}, open : {TRUE}, site : After(s)]

(* Signing is logging in again: nothing has left until the provider's      *)
(* button is about to be clicked, and everything after that may have.      *)
OAuthFlow(s) ==
    NotSent(s, {"unknown"})
    \cup [answer : {"accepted", "unknown"}, maybe : {TRUE}, open : {TRUE}, site : After(s)]

(* The forced logout and the login page come first. *)
OAuthRewardSubmit(s) == OAuthFlow(s) \cup NotSent(s, {"unknown"})

(* The image captcha of a tracker page: a page that still shows the        *)
(* question when it is read leads to another of three attempts although    *)
(* the click before it may have been accepted.  An attempt is clicked and  *)
(* judged, or ends in an early return that denies any action, whatever was *)
(* clicked before.                                                         *)
ImageCaptcha(s) ==
    LET Shown == [clicked : {FALSE}, site : {s}]
                 \cup [clicked : {TRUE}, site : After(s) \ {"signed"}]
        Ends(answers, maybe) ==
            UNION {[answer : answers, maybe : {maybe}, open : {p.clicked}, site : {p.site}] : p \in Shown}
    IN  [answer : {"accepted", "unknown"}, maybe : {TRUE}, open : {TRUE}, site : After(s)]
        \cup Ends({"rejected"}, TRUE) \cup Ends({"rejected", "unknown"}, FALSE)

PtSubmit(s) ==
    NotSent(s, {"rejected"})
    \cup [answer : {"accepted", "unknown"}, maybe : {TRUE}, open : {TRUE}, site : After(s)]
    \cup ImageCaptcha(s)

(* The first click only opens the form of the claim. *)
VibeSubmit(s) ==
    NotSent(s, {"rejected", "unknown"})
    \cup {Outcome("unknown", TRUE, FALSE, s)}
    \cup [answer : {"accepted", "unknown"}, maybe : {TRUE}, open : {TRUE}, site : After(s)]

AllKinds == {"newApi", "anyrouter", "oauthApi", "captcha", "oauthReward", "pt", "vibe"}

Submissions(kind, s) ==
    CASE kind = "newApi" -> NewApiSubmit(s)
      [] kind = "anyrouter" -> AnyRouterSubmit(s)
      [] kind = "oauthApi" -> OAuthApiSubmit(s)
      [] kind = "captcha" -> CaptchaSubmit(s)
      [] kind = "oauthReward" -> OAuthRewardSubmit(s)
      [] kind = "pt" -> PtSubmit(s)
      [] kind = "vibe" -> VibeSubmit(s)

-----------------------------------------------------------------------------
(* What a reader may be shown: the flag "signed today", a record of the    *)
(* day and the line of the reward log.  Of a pending sign-in any part.     *)
Views(s) ==
    {v \in [checked : BOOLEAN, row : BOOLEAN, log : BOOLEAN] :
        /\ s = "unsigned" => ~(v.checked \/ v.row \/ v.log)
        /\ s = "signed" => v.checked /\ v.row /\ v.log}

CalendarReading(v) ==
    IF v.checked # v.row THEN {"unknown"}
    ELSE {IF v.row THEN "already_done" ELSE "not_signed"}
LogReading(v) == {IF v.log THEN "already_done" ELSE "not_signed"}
AnyRouterReading(v) ==
    IF v.checked /\ v.row THEN {"already_done"} ELSE LogReading(v)
(* A spent spin without a date counts where the rule allows it. *)
OAuthApiReading(v) ==
    IF ~v.checked THEN {"not_signed"}
    ELSE IF v.row THEN {"already_done"} ELSE {"already_done", "unknown"}
PtReading(v) == {IF v.checked THEN "already_done" ELSE "not_signed"}
VibeReading(v) == IF v.checked \/ v.row THEN {"already_done"} ELSE {"not_signed"}

Reading(kind, v) ==
    CASE kind \in {"newApi", "captcha"} -> CalendarReading(v)
      [] kind = "anyrouter" -> AnyRouterReading(v)
      [] kind = "oauthApi" -> OAuthApiReading(v)
      [] kind = "oauthReward" -> LogReading(v)
      [] kind = "pt" -> PtReading(v)
      [] kind = "vibe" -> VibeReading(v)

(* read_status: any read may fail, and five kinds of site can say that     *)
(* there is nothing to sign today.                                         *)
StatusAnswers(kind, s) ==
    {"unknown"}
    \cup (IF kind \in {"oauthApi", "oauthReward"} THEN {} ELSE {"not_available"})
    \cup UNION {Reading(kind, v) : v \in Views(s)}

(* verify reads again and again, and a pending sign-in may settle between. *)
Verifies(kind, s) ==
    \/ "already_done" \in StatusAnswers(kind, s)
    \/ s = "pending"

(* Mutant: an accepted answer needs no verification. *)
TrustsTheAnswer(o) ==
    CASE o.answer = "accepted" -> "succeeded"
      [] o.answer # "accepted" /\ ~o.maybe -> "submit_rejected"
      [] o.answer # "accepted" /\ o.maybe -> "submission_unknown"

(* How the coordinator concludes from the answer of submit_once. *)
Conclude(o) ==
    CASE o.answer = "accepted" -> "verify"
      [] o.answer # "accepted" /\ ~o.maybe -> "submit_rejected"
      [] o.answer # "accepted" /\ o.maybe -> "submission_unknown"

=============================================================================
