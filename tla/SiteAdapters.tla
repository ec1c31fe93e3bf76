---------------------------- MODULE SiteAdapters ----------------------------
(***************************************************************************)
(* What the adapters of browser.mjs and its neighbours make of a site.     *)
(* XLook(s) is the set of results the reads before a submission can give   *)
(* when the site has (s) or has not recorded today's check-in; XAfter(a,   *)
(* s) the set of results once the submission's answer a is in and the      *)
(* adapter has read back.  A read may always fail; it never shows a        *)
(* check-in the site has not recorded.                                     *)
(***************************************************************************)
EXTENDS Naturals

R(status, submitted) == [status |-> status, submitted |-> submitted, why |-> ""]

(* What an adapter tells its caller besides a result: submit now, go on    *)
(* with the next adapter of the page, or try another answer.               *)
Send == R("go", "no")
Skip == R("skip", "no")
Again == R("again", "no")

Signed == R("signed", "unset")
NotAvailable == R("not_available", "unset")
Unknown == [R("needs_attention", "yes") EXCEPT !.why = "unknown"]
CaptchaRejected == [R("needs_attention", "yes") EXCEPT !.why = "captcha_rejected"]
Upstream(submitted) == [R("deferred", submitted) EXCEPT !.why = "upstream"]
Review == [R("needs_attention", "no") EXCEPT !.why = "review"]

Answers == {"accepted", "already", "refused", "denied", "limited", "challenged", "lost"}
Explicit == {"accepted", "already"}

Known(s) == IF s THEN {Signed} ELSE {}
ElseGo(s) == IF s THEN {} ELSE {Send}

(* Opening a candidate's address; an attendance page may sign on load.     *)
OpenLook(s) == {Skip, Review, R("challenge", "unset")}
AttendLook(s) == {Send}
AttendAfter(a, s) ==
    CASE a = "lost" -> {Skip, Upstream("unset")}
      [] a = "denied" -> {R("login_required", "unset")}
      [] a = "challenged" -> {R("challenge", "unset"), R("deferred", "unset")}
      [] OTHER -> Known(s) \cup {Skip, Review}

(* The reviewed home page is read, never acted on.                         *)
PassiveLook(s) == Known(s) \cup {R("visited", "no")}

(* The page as it stands: signed, asking for a login, a challenge, a rule. *)
PageLook(s) ==
    Known(s) \cup {R(x, "unset") : x \in {"login_required", "challenge", "deferred", "needs_attention"}}
             \cup {Skip}

NewApiLook(s) ==
    Known(s) \cup ElseGo(s) \cup {Skip, NotAvailable, Upstream("no"), R("deferred", "unset")}
             \cup {R(x, "no") : x \in {"login_required", "challenge"}}
NewApiAfter(a, s) ==
    CASE a \in Explicit -> {Signed}
      [] a = "refused" -> {NotAvailable, R("challenge", "unset"), Skip}
      [] a = "denied" -> {R("login_required", "unset")}
      [] a = "challenged" -> {Unknown}
      [] OTHER -> {Skip}

SignInLook(s) ==
    Known(s) \cup ElseGo(s) \cup {R("login_required", "unset"), R("unconfirmed", "unset")}
SignInAfter(a, s) ==
    CASE a \in Explicit -> {Signed, R("unconfirmed", "unset"), R("login_required", "unset")}
      [] a = "denied" -> {R("login_required", "unset")}
      [] a = "refused" -> {R("challenge", "unset"), R("unconfirmed", "unset")}
      [] a = "limited" -> {Upstream("unset"), R("unconfirmed", "unset")}
      [] OTHER -> {R("unconfirmed", "unset"), R("login_required", "unset")}

ApiCaptchaLook(s) ==
    Known(s) \cup ElseGo(s)
             \cup {NotAvailable, Again, R("login_required", "unset"), R("unconfirmed", "unset")}
ApiCaptchaAfter(a, s) ==
    CASE a = "accepted" -> {Signed, R("unconfirmed", "unset"), R("login_required", "unset")}
      [] a = "already" -> {Signed}
      [] a = "refused" -> {Again}
      [] a = "denied" -> {R("login_required", "unset")}
      [] OTHER -> {R("unconfirmed", "unset")}
ApiCaptchaSpent == R("challenge", "unset")

(* When neither the answer nor the log settles it, the code throws: the    *)
(* evidence it builds names variables of the loop that has ended.          *)
AnyRouterLook(s) ==
    Known(s) \cup ElseGo(s)
             \cup {Upstream("unset"), R("needs_attention", "unset"), R("login_required", "unset")}
AnyRouterAfter(a, s) ==
    CASE a \in Explicit -> {Signed}
      [] a = "denied" -> {R("login_required", "unset")}
      [] OTHER -> Known(s) \cup {R("error", "unset")}

OAuthApiLook(s) ==
    Known(s) \cup ElseGo(s)
             \cup {R("login_required", "unset"), R("deferred", "unset"), Upstream("no"),
                   R("needs_attention", "no"), Skip}
OAuthApiAfter(a, s) ==
    CASE a = "denied" -> {R("login_required", "unset")}
      [] a = "limited" -> {R("deferred", "unset")}
      [] OTHER -> Known(s) \cup {Unknown, R("login_required", "unset"), R("deferred", "unset")}

(* A login is the check-in here: this adapter only reads the usage log.    *)
ReloginLook(s) ==
    IF s THEN {Signed} ELSE
    {R(x, "unset") : x \in {"login_required", "deferred", "unconfirmed"}} \cup {Upstream("unset")}

QaLook(s) == {Send, Skip, R("challenge", "unset")}
QaAfter(a, s) == Known(s) \cup {R("challenge", "unset")}

NexusLook(s) == {Send, Again, Skip, R("needs_attention", "unset")}
NexusAfter(a, s) == IF a = "refused" THEN {Again} ELSE Known(s) \cup {Unknown}
NexusSpent(refusals) == IF refusals THEN CaptchaRejected ELSE R("needs_attention", "unset")

U2Look(s) == {Send, Skip, R("challenge", "no")}
U2After(a, s) == Known(s) \cup {Unknown}

(* OpenCD's first control only opens its dialog.                           *)
OpenerLook(s) == {Skip, R("no_action", "no")}
OpenCdLook(s) == {Send, Skip, R("challenge", "unset")}
OpenCdAfter(a, s) == Known(s) \cup {Unknown}

ControlLook(s) == {Send, Skip, R("no_action", "no")}
ControlAfter(a, s) ==
    CASE a = "lost" -> {Unknown, Skip}
      [] a = "denied" -> {R("login_required", "unset")}
      [] a = "challenged" -> {R("challenge", "unset"), R("deferred", "unset")}
      [] a = "limited" -> {Upstream("unset"), R("needs_attention", "unset")}
      [] OTHER -> Known(s) \cup {Skip}

QuotaLook(s) == Known(s) \cup {Send, Skip, R("needs_attention", "unset")}
QuotaAfter(a, s) ==
    IF a = "refused" THEN {R("needs_attention", "yes")} ELSE Known(s) \cup {Unknown}

(* Waiting for the page to show today's check-in, after an action (sent)   *)
(* or after nothing but the visit of an attendance page.                   *)
WaitLook(s, sent) ==
    Known(s) \cup {R(x, "unset") : x \in {"login_required", "challenge", "deferred"}}
             \cup {IF sent THEN Unknown ELSE R("needs_attention", "no")}

-----------------------------------------------------------------------------
(* An adapter's part of a page, by name.                                   *)

(* The stages of a page, named for their adapters.                         *)
Adapters ==
    {"open", "attend", "passive", "page", "newApi", "signIn", "apiCaptcha", "anyRouter",
     "oauthApi", "relogin", "qa", "nexus", "u2", "opener", "openCd", "control", "quota", "wait"}

Look(stage, s, sent) ==
    CASE stage = "open" -> OpenLook(s)
      [] stage = "attend" -> AttendLook(s)
      [] stage = "passive" -> PassiveLook(s)
      [] stage = "page" -> PageLook(s)
      [] stage = "newApi" -> NewApiLook(s)
      [] stage = "signIn" -> SignInLook(s)
      [] stage = "apiCaptcha" -> ApiCaptchaLook(s)
      [] stage = "anyRouter" -> AnyRouterLook(s)
      [] stage = "oauthApi" -> OAuthApiLook(s)
      [] stage = "relogin" -> ReloginLook(s)
      [] stage = "qa" -> QaLook(s)
      [] stage = "nexus" -> NexusLook(s)
      [] stage = "u2" -> U2Look(s)
      [] stage = "opener" -> OpenerLook(s)
      [] stage = "openCd" -> OpenCdLook(s)
      [] stage = "control" -> ControlLook(s)
      [] stage = "quota" -> QuotaLook(s)
      [] stage = "wait" -> WaitLook(s, sent)

Afterwards(stage, a, s) ==
    CASE stage = "attend" -> AttendAfter(a, s)
      [] stage = "newApi" -> NewApiAfter(a, s)
      [] stage = "signIn" -> SignInAfter(a, s)
      [] stage = "apiCaptcha" -> ApiCaptchaAfter(a, s)
      [] stage = "anyRouter" -> AnyRouterAfter(a, s)
      [] stage = "oauthApi" -> OAuthApiAfter(a, s)
      [] stage = "qa" -> QaAfter(a, s)
      [] stage = "nexus" -> NexusAfter(a, s)
      [] stage = "u2" -> U2After(a, s)
      [] stage = "openCd" -> OpenCdAfter(a, s)
      [] stage = "control" -> ControlAfter(a, s)
      [] stage = "quota" -> QuotaAfter(a, s)

Spent(stage, refusals) == IF stage = "nexus" THEN NexusSpent(refusals) ELSE ApiCaptchaSpent
=============================================================================
