--------------------------- MODULE LoginRecovery ----------------------------
(***************************************************************************)
(* How an engine run repairs the logins of its sites (execution/src/       *)
(* index.mjs, the recovery rounds): for every site that asks for a login   *)
(* the methods configured for it are tried in a fixed order, each in a     *)
(* helper process of its own, until one succeeds or the failure is final;  *)
(* then every site is looked at again.  The journaled authentications of   *)
(* TwoFactor run inside these helpers, and the OAuth helpers are modelled  *)
(* here: oauth-login.mjs, and Recover-NativeOAuthLogin.ps1 around          *)
(* native-oauth-login.mjs.                                                 *)
(*                                                                         *)
(* Pages, controls and challenges are abstracted to what a step may find.  *)
(* The new_api mode of the native helper, which reads a balance instead of *)
(* a reward log, and AnyRouter's own check-in are left out.                *)
(***************************************************************************)
EXTENDS TwoFactor, Sequences

CONSTANTS Configurations,  \* sequences of sites' login settings, see MethodsOf
          GroupLimit,   \* upstreamFailureGroupMaxDailyAttempts
          Rounds,       \* recoveryRounds
          MaxRuns       \* bound: engine runs

ASSUME LoginRecoveryAssumption ==
    /\ \A c \in Configurations : DOMAIN c \subseteq Nat \ {0} /\ IsFiniteSet(DOMAIN c)
    /\ {GroupLimit, Rounds, MaxRuns} \subseteq Nat \ {0}

VARIABLES sites,      \* the configuration the installation has
          runs, runDay, round,
          standing,   \* of each site: fresh, login, settled or upstream
          queue,      \* sites of this round still to be logged in
          site,       \* the site at work (0: none), its methods still to try
          left, helper,
          outcome,    \* loginOutcomes of this round
          base,       \* upstream failures the resumed report records
          tries,      \* base and those of this round, for the shared upstream
          refused,    \* sites whose credentials or factor were refused in this run
          oa,         \* the helper at work: where it is, and what it has used up
          account,    \* who is logged in at an OAuth site: right, wrong, none
          rewards,    \* <<site, day>>: the right account has its daily reward
          claims,     \* <<site, day>>: booked as signed from a helper's word
          overran     \* days whose run went on past midnight

engineVars == <<sites, runs, runDay, round, standing, queue, site, left, helper, outcome, base,
                tries, refused, oa, account, rewards, claims, overran>>
vars == <<factorVars, engineVars>>

NoSite == 0
SiteIds == DOMAIN sites
Ruled == {s \in SiteIds : sites[s].ruled}   \* with an account-bound reward log
OAuthSites == {s \in SiteIds : sites[s].oauth \in {"oauth", "native_oauth"}}
NoFlow == [at |-> "none", turn |-> 1, forced |-> FALSE, clicks |-> 0,
           upstream |-> FALSE, resume |-> FALSE, github |-> FALSE, google |-> FALSE]

----------------------------------------------------------------------------
(* The methods of a site, in the order they are tried.  piggo: the site    *)
(* has its reviewed password login; oauth: none, oauth or native_oauth;    *)
(* waf: it lives in the native browser; bound: only its own account's      *)
(* methods may touch it.                                                   *)
MethodsOf(c) ==
    LET all == (IF c.piggo THEN <<"native_saved_password">> ELSE <<>>)
               \o (IF c.protected THEN <<"protected_credential">> ELSE <<>>)
               \o (IF c.oauth # "none" THEN <<c.oauth>> ELSE <<>>)
               \o (IF ~c.waf THEN <<"saved_password", "native_saved_password">> ELSE <<>>)
               \o <<"plain_saved_password_accessibility">>
    IN  IF c.piggo THEN <<"native_saved_password">>
        ELSE IF c.bound THEN SelectSeq(all, LAMBDA m : m \in {"oauth", "native_oauth"})
        ELSE all

Method == Head(left)
Journaled(s, m) ==
    /\ sites[s].factor \in {"password", "hhclub", "uhd"}
    /\ m \in {"saved_password", "native_saved_password"}
IsOAuth(m) == m \in {"oauth", "native_oauth", "oauth_autodetect"}

(* The failures that end the methods of a site.                            *)
Final == {"invalid", "two_factor", "rate", "upstream", "rejected"}

(* Mutant: a refused credential or factor leaves the other methods to try. *)
EndsForgiving(o) == o \in {"success", "daily", "rate", "upstream", "rejected"} \/ Len(left) = 1

Ends(o) == o \in {"success", "daily"} \cup Final \/ Len(left) = 1

(* Mutant: what a login did to the upstream is not counted.                *)
ChargedNever(o) == tries

Charged(o) == IF o = "upstream" /\ site \in OAuthSites THEN tries + 1 ELSE tries

(* What a helper's exit means to the loop.                                 *)
MethodOver(o) ==
    /\ helper' = "none"
    /\ IF Ends(o)
         THEN /\ outcome' = [outcome EXCEPT ![site] = IF o = "other" THEN "failed" ELSE o]
              /\ site' = NoSite /\ left' = <<>>
         ELSE left' = Tail(left) /\ UNCHANGED <<outcome, site>>
    /\ tries' = Charged(o)
    /\ refused' = IF o \in {"invalid", "two_factor"} THEN refused \cup {site} ELSE refused

Loop == <<sites, runs, runDay, round, standing, queue, base, overran>>
World == <<account, rewards, claims>>
Trial == <<helper, outcome, site, left, tries, refused>>

----------------------------------------------------------------------------
(* A run takes up the day's report.  The upstream failures it records      *)
(* count against the shared upstream.                                      *)
MayAsk == {s \in SiteIds : standing[s] # "settled"}

RunBegins ==
    /\ runs < MaxRuns /\ EngineUp
    /\ LET may == IF today = runDay THEN MayAsk ELSE SiteIds
           past == [s \in SiteIds |-> IF today = runDay THEN standing[s] ELSE "fresh"]
       IN  \E ask \in SUBSET may \ {{}} :
             /\ standing' = [s \in SiteIds |-> IF s \in ask THEN "login" ELSE past[s]]
             /\ queue' = ask
             /\ base' = Cardinality({s \in OAuthSites : past[s] = "upstream"})
             /\ tries' = base'
    /\ runs' = runs + 1 /\ runDay' = today /\ round' = 1
    /\ outcome' = [s \in SiteIds |-> "none"] /\ refused' = {}
    /\ UNCHANGED <<sites, site, left, helper, oa, World, overran>>

(* A site behind an upstream that has used its tries is not tried.         *)
First(s) == s \in queue /\ \A r \in queue : s <= r

TakeSite ==
    /\ engineUp /\ site = NoSite
    /\ \E s \in queue :
         /\ First(s)
         /\ queue' = queue \ {s}
         /\ IF s \in OAuthSites /\ tries >= GroupLimit
              THEN outcome' = [outcome EXCEPT ![s] = "circuit"] /\ UNCHANGED <<site, left>>
              ELSE site' = s /\ left' = MethodsOf(sites[s]) /\ UNCHANGED outcome
    /\ UNCHANGED <<factorVars, sites, runs, runDay, round, standing, helper, base, tries, refused, oa,
                   World, overran>>

Ready == engineUp /\ site # NoSite /\ helper = "none"
At(at) == engineUp /\ helper # "none" /\ oa.at = at
Flow(at) == oa' = [oa EXCEPT !.at = at]
Done(o) == MethodOver(o) /\ oa' = NoFlow

(* saved-password-login.mjs and native-login.mjs of a site with a second   *)
(* factor: the journaled login, if it may begin.                           *)
StartJournaled ==
    /\ Ready /\ Journaled(site, Method)
    /\ \/ sites[site].factor = "password" /\ PasswordBegin
       \/ NexusBegin(sites[site].factor)
    /\ helper' = Method
    /\ UNCHANGED <<Loop, site, left, outcome, tries, refused, oa, World>>

(* Its lock is busy, its journal refuses it, or the page never gets there. *)
JournaledCannotBegin ==
    /\ Ready /\ Journaled(site, Method)
    /\ \/ /\ Live(sites[site].factor) \/ ~Free(sites[site].factor, today)
          /\ MethodOver("two_factor")
       \/ MethodOver("other")
    /\ UNCHANGED <<factorVars, Loop, oa, World>>

Reported(k) ==
    IF sess[k].out = "logged_in" THEN "success"
    ELSE IF sess[k].out = "two_factor" THEN "two_factor" ELSE "other"

JournaledEnds ==
    LET k == sites[site].factor IN
    /\ engineUp /\ site # NoSite /\ helper # "none" /\ Journaled(site, helper) /\ ~Live(k)
    /\ MethodOver(Reported(k))
    /\ UNCHANGED <<factorVars, Loop, oa, World>>

(* The browser's own saved password, in the automation browser, in a       *)
(* native one, and left to an ordinary window: the page is read afterwards. *)
TrySavedPassword ==
    /\ Ready /\ Method = "saved_password" /\ ~Journaled(site, Method)
    /\ \E o \in {"success", "two_factor", "other"} : MethodOver(o)
    /\ UNCHANGED <<factorVars, Loop, oa, World>>

TryNativePassword ==
    /\ Ready /\ Method = "native_saved_password" /\ ~Journaled(site, Method)
    /\ \E o \in {"success", "two_factor", "other"} : MethodOver(o)
    /\ UNCHANGED <<factorVars, Loop, oa, World>>

TryPlainWindow ==
    /\ Ready /\ Method = "plain_saved_password_accessibility"
    /\ \E o \in {"success", "two_factor", "other"} : MethodOver(o)
    /\ UNCHANGED <<factorVars, Loop, oa, World>>

----------------------------------------------------------------------------
(* Recover-ProtectedLogin.ps1 submits a stored credential, tier after      *)
(* tier: over the site's interface, in an ordinary window, in the          *)
(* automation browser and in a native one.                                 *)
StartProtected ==
    /\ Ready /\ Method = "protected_credential"
    /\ \/ /\ helper' = Method
          /\ oa' = [NoFlow EXCEPT !.at = IF sites[site].api THEN "api" ELSE "window"]
          /\ UNCHANGED <<outcome, site, left, tries, refused>>
       \/ MethodOver("other") /\ UNCHANGED oa
    /\ UNCHANGED <<factorVars, Loop, World>>

(* The page verified after a login may show the day as signed.             *)
LoggedIn ==
    \/ Done("success") /\ UNCHANGED rewards
    \/ Done("daily") /\ rewards' = rewards \cup {<<site, today>>}

EndsAs(outcomes) == (\E o \in outcomes : Done(o)) /\ UNCHANGED rewards
NextTier(at) == Flow(at) /\ UNCHANGED <<Trial, rewards>>

ProtectedApi ==
    /\ At("api")
    /\ LoggedIn \/ EndsAs({"invalid", "two_factor", "other"}) \/ NextTier("window")
    /\ UNCHANGED <<factorVars, Loop, account, claims>>

(* In a profile of its own this is the last tier.                          *)
ProtectedWindow ==
    /\ At("window")
    /\ \/ LoggedIn \/ EndsAs({"invalid", "two_factor"})
       \/ sites[site].waf /\ EndsAs({"other"})
       \/ ~sites[site].waf /\ NextTier("automation")
    /\ UNCHANGED <<factorVars, Loop, account, claims>>

(* A factor asked for here does not end the helper.                        *)
ProtectedAutomation ==
    /\ At("automation")
    /\ LoggedIn \/ EndsAs({"invalid"}) \/ NextTier("native")
    /\ UNCHANGED <<factorVars, Loop, account, claims>>

ProtectedNative ==
    /\ At("native")
    /\ LoggedIn \/ EndsAs({"invalid", "two_factor", "other"})
    /\ UNCHANGED <<factorVars, Loop, account, claims>>

----------------------------------------------------------------------------
(* The OAuth helpers.  A reading asks the site who is logged in and looks  *)
(* for today's reward in the account's log; it may fail.                   *)
Rewarded(s) == <<s, today>> \in rewards
Truth(s) ==
    CASE account[s] = "none"  -> "expired"
      [] account[s] = "wrong" -> "mismatch"
      [] account[s] = "right" -> IF Rewarded(s) THEN "confirmed" ELSE "missing"
Readings(s) == {Truth(s), "limited", "unavailable", "unclear"}

(* Mutant: any reading of an account without a confirmation is a reason.   *)
JustifiesAnyway(r) == r # "confirmed" /\ r # "mismatch"

(* shouldForceOAuthRelogin: an expired session, or the bound account's     *)
(* missing reward.                                                         *)
Justifies(r) == r \in {"expired", "missing"}

Failure(r) == IF r = "limited" THEN "rate"
              ELSE IF r \in {"unavailable", "unclear"} THEN "upstream" ELSE "other"

(* Mutant: a login is as good as its reward.                               *)
VerdictOfLogin(r) == IF r \in {"confirmed", "missing"} THEN "daily"
                     ELSE IF r = "limited" THEN "rate"
                     ELSE IF r = "unavailable" THEN "upstream" ELSE "other"

(* The reading after a login: no excuse is left for a silent log.          *)
Verdict(r) == IF r = "confirmed" THEN "daily"
              ELSE IF r = "limited" THEN "rate"
              ELSE IF r = "unavailable" THEN "upstream" ELSE "other"

Native == helper = "native_oauth"

StartOAuth ==
    /\ Ready /\ IsOAuth(Method)
    /\ helper' = Method
    /\ oa' = IF Method = "native_oauth" THEN [NoFlow EXCEPT !.at = "read"]
             ELSE IF sites[site].forceLogout THEN [NoFlow EXCEPT !.at = "logout", !.forced = TRUE]
             ELSE [NoFlow EXCEPT !.at = "enter"]
    /\ UNCHANGED <<factorVars, Loop, site, left, outcome, tries, refused, World>>

(* A native round that fails is followed, for Linux DO, by one in an       *)
(* ordinary window.                                                        *)
OAuthFails(o) ==
    IF Native /\ sites[site].linuxdo /\ oa.turn = 1
      THEN Flow("plain") /\ UNCHANGED Trial
      ELSE Done(o)

(* oauth-login.mjs opens the login address, which may lead straight to the *)
(* provider; a site with a rule is read, one without is asked through its  *)
(* own sign-in interfaces, whose answer counts as the day's evidence.      *)
OAuthEnter ==
    /\ At("enter")
    /\ \/ site \in Ruled /\ Flow("read") /\ UNCHANGED <<Trial, rewards>>
       \/ Flow("provider") /\ UNCHANGED <<Trial, rewards>>
       \/ /\ site \notin Ruled /\ account[site] # "none"
          /\ Done("daily") /\ rewards' = rewards \cup {<<site, today>>}
    /\ UNCHANGED <<factorVars, Loop, account, claims>>

OAuthRead ==
    /\ At("read")
    /\ \E r \in Readings(site) :
         \/ r = "confirmed" /\ Done("daily")
         \/ Justifies(r) /\ Flow("logout") /\ UNCHANGED Trial
         \/ r # "confirmed" /\ ~Justifies(r) /\ OAuthFails(Failure(r))
    /\ UNCHANGED <<factorVars, Loop, World>>

(* forceConfiguredOAuthLogout: with forceLogout, oauth-login.mjs comes     *)
(* here before it has read anything.                                       *)
OAuthLogout ==
    /\ At("logout")
    /\ \/ /\ account' = [account EXCEPT ![site] = "none"]
          /\ oa' = [oa EXCEPT !.at = IF oa.forced THEN "enter" ELSE "provider", !.forced = FALSE]
          /\ UNCHANGED Trial
       \/ OAuthFails("other") /\ UNCHANGED account
    /\ UNCHANGED <<factorVars, Loop, rewards, claims>>

(* An exchange completed: the upstream's account is logged in, and the     *)
(* right one has its reward, at once or later.                             *)
Exchange ==
    \E who \in {"right", "wrong"}, granted \in BOOLEAN :
        /\ account' = [account EXCEPT ![site] = who]
        /\ rewards' = IF who = "right" /\ granted THEN rewards \cup {<<site, today>>} ELSE rewards

----------------------------------------------------------------------------
(* oauth-login.mjs: the provider's button or address, the saved upstream   *)
(* login once, the authorization clicked once.                             *)
GenericProvider ==
    /\ At("provider") /\ ~Native
    /\ \/ Flow("upstream") /\ UNCHANGED Trial
       \/ Done("other")
    /\ UNCHANGED <<factorVars, Loop, World>>

GenericUpstream ==
    /\ At("upstream") /\ ~Native
    /\ Flow("authorize") /\ UNCHANGED Trial
    /\ UNCHANGED <<factorVars, Loop, World>>

GenericAuthorize ==
    /\ At("authorize")
    /\ \/ Exchange /\ Flow("verify")
       \/ Flow("verify") /\ UNCHANGED <<account, rewards>>
    /\ UNCHANGED <<factorVars, Loop, Trial, claims>>

(* mayClaimOAuthLogin, then the evidence of the account: for a ruled site  *)
(* its reward log, else what the site's own interfaces say.                *)
GenericVerify ==
    /\ At("verify") /\ ~Native
    /\ \/ EndsAs({"rate", "upstream", "rejected", "two_factor", "other"})
       \/ site \notin Ruled /\ account[site] # "none" /\ LoggedIn
       \/ site \in Ruled /\ EndsAs({Verdict(r) : r \in Readings(site)})
    /\ UNCHANGED <<factorVars, Loop, account, claims>>

----------------------------------------------------------------------------
(* native-oauth-login.mjs: from page to page, with bounded interaction on  *)
(* each, until the site is reached again.                                  *)
Places == {"connect", "upstream", "home", "github", "google", "back"}

NativeProvider ==
    /\ At("provider") /\ Native
    /\ \/ \E p \in Places : Flow(p) /\ UNCHANGED Trial
       \/ OAuthFails("other")
    /\ UNCHANGED <<factorVars, Loop, World>>

Onward(next) == \E p \in Places : oa' = [next EXCEPT !.at = p]

(* The consent page: its one control at most MaxClicks times.              *)
MaxClicks == 3
NativeConsent ==
    /\ At("connect")
    /\ \/ oa.clicks < MaxClicks /\ Onward([oa EXCEPT !.clicks = @ + 1]) /\ UNCHANGED Trial
       \/ OAuthFails("other")
    /\ UNCHANGED <<factorVars, Loop, World>>

NativeUpstream ==
    /\ At("upstream") /\ Native
    /\ \/ /\ ~oa.upstream
          /\ Onward([oa EXCEPT !.upstream = TRUE, !.resume = TRUE]) /\ UNCHANGED Trial
       \/ OAuthFails("other")
    /\ UNCHANGED <<factorVars, Loop, World>>

(* After its upstream login the flow is begun again, once.                 *)
NativeHome ==
    /\ At("home")
    /\ \/ oa.resume /\ oa' = [oa EXCEPT !.at = "provider", !.resume = FALSE] /\ UNCHANGED Trial
       \/ ~oa.resume /\ OAuthFails("other")
    /\ UNCHANGED <<factorVars, Loop, World>>

NativeGitHub ==
    /\ At("github")
    /\ \/ ~oa.github /\ Onward([oa EXCEPT !.github = TRUE]) /\ UNCHANGED Trial
       \/ \E o \in {"two_factor", "other"} : OAuthFails(o)
    /\ UNCHANGED <<factorVars, Loop, World>>

NativeGoogle ==
    /\ At("google")
    /\ \/ ~oa.google /\ Onward([oa EXCEPT !.google = TRUE]) /\ UNCHANGED Trial
       \/ OAuthFails("other")
    /\ UNCHANGED <<factorVars, Loop, World>>

NativeBack ==
    /\ At("back")
    /\ Exchange /\ Flow("verify")
    /\ UNCHANGED <<factorVars, Loop, Trial, claims>>

(* The account must be the configured one before its log is read.          *)
NativeVerify ==
    /\ At("verify") /\ Native
    /\ \/ account[site] # "right" /\ OAuthFails("other")
       \/ /\ account[site] = "right"
          /\ \E r \in Readings(site) :
               IF r = "confirmed" THEN Done("daily") ELSE OAuthFails(Verdict(r))
    /\ UNCHANGED <<factorVars, Loop, World>>

(* The ordinary window: it reports a callback, a factor, or a failure that *)
(* names no upstream condition, whatever the native round had found.       *)
PlainOAuth ==
    /\ At("plain")
    /\ \/ Exchange /\ oa' = [NoFlow EXCEPT !.at = "read", !.turn = 2] /\ UNCHANGED Trial
       \/ /\ \E o \in {"two_factor", "other"} : Done(o)
          /\ UNCHANGED <<account, rewards>>
    /\ UNCHANGED <<factorVars, Loop, claims>>

(* The time limit of a helper, which ends its whole tree.                  *)
HelperKilled ==
    /\ engineUp /\ helper # "none" /\ oa.at # "none"
    /\ Done("other")
    /\ UNCHANGED <<factorVars, Loop, World>>

----------------------------------------------------------------------------
(* The round is over: a helper's authoritative evidence is booked, final   *)
(* failures are recorded, the other sites are visited again.               *)
Booked == {s \in SiteIds : outcome[s] = "daily"}
Settles == {"daily", "invalid", "two_factor", "rejected"}
LooksAgain(s) ==
    \/ outcome[s] = "failed"
    \/ outcome[s] = "success" /\ ~sites[s].piggo /\ ~sites[s].waf

AfterRound(again) ==
    [s \in SiteIds |->
        IF s \in again THEN "login"
        ELSE IF outcome[s] = "none" THEN standing[s]
        ELSE IF outcome[s] \in Settles THEN "settled"
        ELSE IF outcome[s] \in {"upstream", "circuit"} THEN "upstream" ELSE "fresh"]

RoundOver ==
    /\ engineUp /\ runs > 0 /\ site = NoSite /\ queue = {}
    /\ claims' = claims \cup {<<s, runDay>> : s \in Booked}
    /\ \E again \in SUBSET {s \in SiteIds : LooksAgain(s)} :
         /\ standing' = AfterRound(again)
         /\ IF again # {} /\ round < Rounds
              THEN queue' = again /\ round' = round + 1 /\ UNCHANGED factorVars
              ELSE queue' = {} /\ round' = 0 /\ EngineExit
    /\ outcome' = [s \in SiteIds |-> "none"] /\ tries' = base
    /\ refused' = IF round' = 0 THEN {} ELSE refused
    /\ UNCHANGED <<sites, runs, runDay, base, site, left, helper, oa, account, rewards, overran>>

EngineDies ==
    /\ EngineCrash
    /\ round' = 0 /\ queue' = {} /\ site' = NoSite /\ left' = <<>> /\ helper' = "none"
    /\ outcome' = [s \in SiteIds |-> "none"] /\ refused' = {} /\ oa' = NoFlow
    /\ UNCHANGED <<sites, runs, runDay, standing, base, tries, World, overran>>

DayPasses ==
    /\ Midnight
    /\ overran' = IF engineUp THEN overran \cup {runDay} ELSE overran
    /\ UNCHANGED <<sites, runs, runDay, round, standing, queue, site, left, helper, outcome, base,
                   tries, refused, oa, World>>

(* The engine's own visits meet HDDolby's second step.                     *)
VisitHddolby ==
    /\ \E s \in SiteIds : sites[s].factor = "hddolby"
    /\ HddolbyBegin /\ helper = "none" /\ UNCHANGED engineVars

(* The native preflight, and every session at work, orphans included.      *)
Preflight ==
    /\ \E s \in SiteIds : sites[s].factor = "password"
    /\ StepUpBegin /\ UNCHANGED engineVars
Factors == (Booking \/ \E k \in Kinds : FactorStep(k)) /\ UNCHANGED engineVars

Init ==
    /\ FactorInit
    /\ sites \in Configurations
    /\ runs = 0 /\ runDay = 0 /\ round = 0
    /\ standing = [s \in SiteIds |-> "fresh"] /\ queue = {}
    /\ site = NoSite /\ left = <<>> /\ helper = "none"
    /\ outcome = [s \in SiteIds |-> "none"] /\ base = 0 /\ tries = 0 /\ refused = {}
    /\ oa = NoFlow /\ account \in [SiteIds -> {"none", "right", "wrong"}]
    /\ \A s \in SiteIds \ OAuthSites : account[s] = "none"
    /\ rewards = {} /\ claims = {} /\ overran = {}

Next ==
    \/ RunBegins \/ TakeSite \/ StartJournaled \/ JournaledCannotBegin \/ JournaledEnds
    \/ StartProtected \/ ProtectedApi \/ ProtectedWindow \/ ProtectedAutomation
    \/ ProtectedNative \/ TrySavedPassword \/ TryNativePassword \/ TryPlainWindow
    \/ StartOAuth \/ OAuthEnter \/ OAuthRead \/ OAuthLogout
    \/ GenericProvider \/ GenericUpstream \/ GenericAuthorize \/ GenericVerify
    \/ NativeProvider \/ NativeConsent \/ NativeUpstream \/ NativeHome \/ NativeGitHub
    \/ NativeGoogle \/ NativeBack \/ NativeVerify \/ PlainOAuth \/ HelperKilled
    \/ RoundOver \/ EngineDies \/ DayPasses \/ VisitHddolby \/ Preflight \/ Factors

Spec == Init /\ [][Next]_vars

----------------------------------------------------------------------------
(* A site that has refused a credential or asked for a factor is given no  *)
(* further helper by this run: neither the next method nor a later round   *)
(* tries another password on it.                                           *)
RefusalEndsLogins == site \notin refused

(* "Only an account-bound missing reward or an explicit session-expired    *)
(* response justifies ending the current account session": the right       *)
(* account is never logged out on a day whose reward it has - except where *)
(* the rule forces the logout.                                             *)
LogoutIsJustified ==
    [][\A s \in Ruled :
          account[s] = "right" /\ account'[s] = "none"
              => ~Rewarded(s) \/ sites[s].forceLogout]_vars

(* What the engine books as signed on a helper's word is the reward of the *)
(* configured account, of the day of the run - unless the run went on past *)
(* midnight, for the evidence is not asked for its day.                    *)
ClaimIsProved == \A c \in claims : c \in rewards \/ c[2] \in overran

(* The failing logins a round may charge to the shared upstream stay under *)
(* its daily limit, whatever the report it resumed had used.               *)
UpstreamIsSpared ==
    Cardinality({s \in OAuthSites : outcome[s] = "upstream"}) + base
        <= (IF base > GroupLimit THEN base ELSE GroupLimit)

=============================================================================
