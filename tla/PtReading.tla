----------------------------- MODULE PtReading ------------------------------
(***************************************************************************)
(* What the passive readers of a PT account make of the pages a site       *)
(* sends: pt-read-policy, native-pt-read, native-pt-api, piggo-calendar,   *)
(* pt-profile-read, hddolby-readonly, detector and the reading half of     *)
(* pt-supplement.  Readings[s] is the set of verdicts a reading may end    *)
(* with when the site has (s) or has not recorded the day's check-in.      *)
(*                                                                         *)
(* A page stands for the facts the readers look at: how it was reached,    *)
(* the day and the session it was rendered for, what its text announces,   *)
(* the accounts its header links to and the controls of the day it has.    *)
(* Only a header of the account's own session on the day tells the truth.  *)
(***************************************************************************)
EXTENDS Naturals, FiniteSets

Accounts == {"own", "other"}
Mark(s) == IF s THEN "signed" ELSE "unsigned"
Definite == {"signed", "not_signed"}

\* "away": a redirect to anything but the site's login page.
SitePage == [code : {"ok", "to_login", "away", "failed"}, today : BOOLEAN,
         notice : {"none", "second_factor", "forbidden", "login", "limited", "maintenance",
                   "challenge", "locked"},
         session : Accounts \cup {"nobody"}, panel : BOOLEAN,
         ids : SUBSET Accounts, marks : SUBSET {"signed", "unsigned"}]
NoAnswer == [code |-> "failed", today |-> TRUE, notice |-> "none", session |-> "nobody",
           panel |-> FALSE, ids |-> {}, marks |-> {}]

(* The pages a profile may be sent that is logged in as one of who, or not.*)
Pages(s, who) ==
    {p \in SitePage :
        /\ p.session \in who \cup {"nobody"}
        /\ p.session = "nobody" => ~p.panel /\ p.ids = {} /\ "signed" \notin p.marks
        /\ p.session # "nobody" /\ p.ids # {} => p.session \in p.ids
        /\ p.session = "own" /\ p.today => p.marks \subseteq {Mark(s)}}

-----------------------------------------------------------------------------
(* Which profile is read, and which address.                               *)

\* pins: routes configured for the origin; accounts: identities of the key;
\* agree: both name one profile; profiles: those of the native entries.
Binding == [pins : 0..3, accounts : 0..2, default : BOOLEAN, agree : BOOLEAN,
            inside : BOOLEAN, profiles : 0..2]

(* ptExecutionBinding: one route at most, and exactly one account unless   *)
(* the site has a single one, in a profile of the program's own.           *)
ExecutionBound(b) ==
    /\ b.pins <= 1 /\ b.inside
    /\ b.accounts = IF b.default THEN 0 ELSE 1
    /\ b.accounts = 1 /\ b.pins = 1 => b.agree
(* nativePtReadRoute: the one profile that the site's native entries name. *)
ReadRoute(b) == b.profiles = 1
(* nativePtReadBinding *)
NativeBound(b) == b.default /\ ReadRoute(b) /\ b.inside

(* Who may be logged in there.                                             *)
ExecutionSessions ==
    {IF b.accounts + b.pins > 1 /\ ~b.agree THEN "other" ELSE "own" : b \in {b \in Binding : ExecutionBound(b)}}
NativeSessions ==
    {IF b.default /\ b.profiles = 1 THEN "own" ELSE "other" : b \in {b \in Binding : NativeBound(b)}}

\* acts: opening the address signs in, signs out or confirms something.
Policy == [reviewed : BOOLEAN, passive : BOOLEAN, same : BOOLEAN, acts : BOOLEAN,
           proxy : {"none", "local", "private", "public"},
           reader : {"daily", "text", "clock", "profile", "hddolby", "api", "calendar", "native"}]

(* ptReadProxy: a local one without credentials; one in a private network  *)
(* for the native derivation only (privateNativeHeaderProxy).              *)
ProxyAdmitted(p) == p.proxy \in {"none", "local"} \/ (p.proxy = "private" /\ p.reader = "api")

(* ptReadPolicy: the capability is reviewed, and opening it is no action.  *)
Admitted(p) ==
    /\ p.reviewed /\ p.passive /\ p.same /\ ~p.acts /\ ProxyAdmitted(p)
    /\ p.reader \in {"api", "calendar"} => p.proxy # "none"

(* installPtReadFirewall: one document and its redirect to the login page. *)
Document(p) ==
    CASE p.code = "ok" -> p
      [] p.code = "to_login" -> [NoAnswer EXCEPT !.code = "ok", !.notice = "login"]
      [] OTHER -> NoAnswer

-----------------------------------------------------------------------------
(* The ordinary passive page.                                              *)

(* classifyPageText: the first announcement in the order of its tests.     *)
Classified(p) ==
    CASE p.notice = "second_factor" -> "attention"
      [] p.notice = "login" -> "login_required"
      [] p.notice \in {"forbidden", "maintenance"} -> "upstream"
      [] p.notice = "limited" -> "deferred"
      [] p.notice = "challenge" -> "challenge"
      [] OTHER -> "ready"

(* Both controls of the day, or none, say nothing.                         *)
Judged(marks) ==
    CASE marks = {"signed"} -> "signed" [] marks = {"unsigned"} -> "not_signed" [] OTHER -> "unknown"

(* readPtPassivePage: the links that only a logged-in page has, and the    *)
(* controls of the reviewed header.                                        *)
HeaderVerdict(p) == IF p.panel THEN Judged(p.marks) ELSE "unknown"

(* ptPageEvidence: text that names today; at OpenCD the control beside the *)
(* site's clock, which must be right.                                      *)
TextVerdict(p, clock) ==
    IF clock THEN IF p.today THEN HeaderVerdict(p) ELSE "unknown"
    ELSE IF p.today /\ "signed" \in p.marks THEN "signed" ELSE "unknown"

(* classifyPtPassivePage *)
PassiveVerdict(p, reader) ==
    IF p.code # "ok" THEN "unknown"
    ELSE CASE Classified(p) = "login_required" -> "login_required"
           [] Classified(p) = "upstream" -> "deferred"
           [] OTHER -> IF reader = "daily" THEN HeaderVerdict(p) ELSE TextVerdict(p, reader = "clock")

(* readPtPublicAvailability: explains a page that says nothing about the   *)
(* account, and never replaces what one says.                              *)
Availability(v) == IF v \in Definite \cup {"login_required"} THEN {v} ELSE {v, "attention"}

(* runPtSupplement refuses a reading that ends on another day than it      *)
(* began; publicSupplementResult takes none that is not dated today.       *)
Supplement(v, p) == IF v \in Definite /\ ~p.today THEN "unknown" ELSE v

PassiveReadings(s, reader) ==
    UNION {Availability(Supplement(PassiveVerdict(Document(p), reader), p)) : p \in Pages(s, ExecutionSessions)}

(* recoverAndRead: after a login the header must name the bound account.   *)
RecoveredVerdict(p) ==
    LET v == Supplement(PassiveVerdict(Document(p), "daily"), p) IN
    IF v \in Definite /\ p.ids # {"own"} THEN "mismatch" ELSE v
RecoveredReadings(s) == {RecoveredVerdict(p) : p \in Pages(s, Accounts)}

-----------------------------------------------------------------------------
(* Readers that fetch pages themselves.                                    *)

(* fetchPage: an answer of today at the address asked for, or the login.   *)
Fetch(p) ==
    CASE p.code = "ok" /\ p.today -> p
      [] p.code = "to_login" -> [NoAnswer EXCEPT !.code = "to_login", !.today = p.today]
      [] OTHER -> NoAnswer
Answers(s, who) == {Fetch(p) : p \in Pages(s, who)}
ToLogin(p) == p.code = "to_login"

(* nativeApiHeaderAuthenticated and the header readers: one account.       *)
OneAccount(p) == p.code = "ok" /\ p.panel /\ Cardinality(p.ids) = 1
(* authenticatedSnapshot: and the page asks for nothing.                   *)
Authenticated(p) == OneAccount(p) /\ p.notice \notin {"second_factor", "login", "challenge"}

(* readInContext for Audiences: the page of the account itself must be the *)
(* same account's and not contradict the index.                            *)
ProfileAgrees(i, q) ==
    /\ Authenticated(q) /\ q.ids = i.ids
    /\ Cardinality(i.marks \cup q.marks) <= 1
ApiVerdict(i, q) ==
    CASE ToLogin(i) /\ i.today -> "login_required"
      [] Authenticated(i) /\ ProfileAgrees(i, q) /\ Classified(i) # "upstream" -> Judged(i.marks)
      [] OTHER -> "unknown"

(* readOurbitsProfile: the profile shows the reward of the day, or nothing *)
(* counts.                                                                 *)
ProfileVerdict(i, q) ==
    IF OneAccount(i) /\ OneAccount(q) /\ q.ids = i.ids /\ "signed" \in q.marks THEN "signed" ELSE "unknown"

(* hddolbyHeaderSigned and hddolbyHeaderUnsigned                           *)
HddolbyJudged(i, q) ==
    IF q.marks = {"signed"} THEN "signed"
    ELSE IF i.marks = {"unsigned"} /\ q.marks = {"unsigned"} THEN "not_signed" ELSE "unknown"
(* readHddolbyHeader: the headers of two pages, both of the expected one.  *)
HddolbyVerdict(i, q) ==
    IF ToLogin(i) \/ (OneAccount(i) /\ ToLogin(q)) THEN "login_required"
    ELSE IF ~(OneAccount(i) /\ OneAccount(q)) THEN "unknown"
    ELSE IF q.ids # i.ids \/ q.ids # {"own"} THEN "mismatch"
    ELSE HddolbyJudged(i, q)

(* piggoCalendarStatus: the field of today, which nobody's calendar lacks.  *)
Attendance(p) == IF p.session = "nobody" THEN "unknown" ELSE Judged(p.marks)
(* idleLocked, then readPiggoCalendarInContext: who is logged in, and what *)
(* that account's calendar has.                                            *)
CalendarVerdict(me, calendar) ==
    IF "locked" \in {me.notice, calendar.notice} THEN "idle_locked"
    ELSE IF ToLogin(me) \/ ToLogin(calendar) THEN "login_required"
    ELSE IF me.code # "ok" \/ calendar.code # "ok" THEN "unknown"
    ELSE IF me.ids # {"own"} THEN "mismatch"
    ELSE Attendance(calendar)

(* readNativePtApiHeader: both pages are fetched in one session, that of   *)
(* the profile, or of whoever it is where the reader asks who is logged in.*)
PairVerdict(reader, i, q) ==
    CASE reader = "api" -> ApiVerdict(i, q)
      [] reader = "profile" -> ProfileVerdict(i, q)
      [] reader = "hddolby" -> HddolbyVerdict(i, q)
      [] reader = "calendar" -> CalendarVerdict(i, q)
PairReadings(s, reader) ==
    UNION {{PairVerdict(reader, i, q) : i, q \in Answers(s, {a})} :
           a \in IF reader \in {"hddolby", "calendar"} THEN Accounts ELSE NativeSessions}

-----------------------------------------------------------------------------
(* The helper that looks at a native window and hands back a receipt.      *)

(* What it claims, whether it says it clicked, and whose profile it names. *)
Claims(p) == {IF p.panel THEN Judged(p.marks) ELSE "unknown", "login_required", "unknown"}
NativeReceipt == [claim : Definite \cup {"login_required", "unknown"}, clicked : {"no", "yes", "silent"},
            bound : BOOLEAN, page : SitePage]

(* receiptEvidence: the reviewed page, of today, with nothing in its way.  *)
ReceiptEvidence(r) ==
    r.page.code = "ok" /\ r.page.today /\ r.page.notice \notin {"login", "second_factor", "challenge"}

(* inspectNativePtHeader; nativePtReadFailure when it may have submitted.  *)
NativeVerdict(r) ==
    CASE r.clicked = "yes" -> "submitted"
      [] r.clicked = "no" /\ r.claim \in Definite ->
             IF r.bound /\ ReceiptEvidence(r) THEN r.claim ELSE "unknown"
      [] r.clicked = "no" /\ r.claim = "login_required" -> "login_required"
      [] OTHER -> "unknown"

NativeReadings(s) ==
    {"unknown"} \cup
    UNION {{NativeVerdict([claim |-> c, clicked |-> k, bound |-> b, page |-> p]) :
              c \in Claims(p), k \in {"no", "yes", "silent"}, b \in {b \in BOOLEAN : b => p.session # "other"}} :
           p \in Pages(s, Accounts)}

-----------------------------------------------------------------------------
ReaderVerdicts(s, reader) ==
    CASE reader \in {"daily", "text", "clock"} -> PassiveReadings(s, reader) \cup RecoveredReadings(s)
      [] reader = "native" -> NativeReadings(s)
      [] OTHER -> PairReadings(s, reader)

Readings == [s \in BOOLEAN |-> UNION {ReaderVerdicts(s, p.reader) : p \in {p \in Policy : Admitted(p)}}]

=============================================================================
