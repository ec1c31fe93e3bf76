----------------------------- MODULE TwoFactor ------------------------------
(***************************************************************************)
(* The journaled second-factor authentications of the execution side: each *)
(* may send one authentication POST per site, account, profile and day,    *)
(* whatever crashes, times out or runs beside it.                          *)
(*                                                                         *)
(*   stepup    native-pt-two-factor.mjs, recoverNativePtTwoFactor: run by  *)
(*             the native preflight, holds tmp/run.lock itself             *)
(*   password  piggo-login.mjs, recoverPiggoSpaLogin: run in a login       *)
(*             helper of the engine; shares the journal of stepup          *)
(*   hhclub, uhd   hhclub-two-factor-login.mjs, in a login helper          *)
(*   hddolby   hddolby-two-factor.mjs, in the engine's own browser         *)
(*                                                                         *)
(* Every kind has a lock of its own, so it runs at most once at a time; a  *)
(* process that dies leaves a lock the next one reclaims (ExecutionLock).  *)
(* Proofs, forms and codes are abstracted to a session that may be refused *)
(* at each of its checks.                                                  *)
(***************************************************************************)
EXTENDS Naturals, FiniteSets

CONSTANTS Kinds,         \* the authentications configured
          AutoSubmits,   \* kinds whose login form submits itself on input
          LastDay        \* bound: business days told apart

ASSUME TwoFactorAssumption ==
    /\ Kinds \subseteq {"stepup", "password", "hhclub", "uhd", "hddolby"}
    /\ AutoSubmits \subseteq Kinds /\ LastDay \in Nat \ {0}

VARIABLES today,      \* the business day
          journal,    \* the attempts recorded in each journal file
          sess,       \* the process at work on each kind
          engineUp,   \* an engine process lives and holds tmp/run.lock
          sent,       \* authentication POSTs, by their booking (a kind's or none) and its day
          lost,       \* attempts a writer dropped from a journal
          orphaned    \* an engine has died while a session of its own went on

factorVars == <<today, journal, sess, engineUp, sent, lost, orphaned>>

Days == 1 .. LastDay
File(k) == IF k \in {"stepup", "password"} THEN "recovery" ELSE k
Files == {File(k) : k \in Kinds}
Bookings == Kinds \cup {"unbooked"}
Attempt(k, day, at) == [kind |-> k, date |-> day, at |-> at]
Attempts == {Attempt(k, d, a) : k \in Kinds, d \in Days, a \in Days}

Idle == [pc |-> "idle", day |-> 0, mem |-> {}, orphan |-> FALSE, out |-> "none"]
Live(k) == sess[k].pc # "idle"

(* Bound: POSTs beyond the second are not told apart.                      *)
OneMore(n) == IF n = 2 THEN 2 ELSE n + 1

(* A journal one of whose entries is dated on another day than it was made *)
(* is rejected as a whole.                                                 *)
Readable(f) == \A e \in journal[f] : e.date = e.at
Attempted(k, day, entries) == \E e \in entries : e.kind = k /\ e.date = day
Free(k, day) == Readable(File(k)) /\ ~Attempted(k, day, journal[File(k)])

Go(k, pc) == sess' = [sess EXCEPT ![k].pc = pc]
(* Only a helper has somebody to report to: the engine that started it.    *)
Over(k, out) ==
    sess' = [sess EXCEPT ![k] =
        IF sess[k].orphan \/ k \in {"stepup", "hddolby"} THEN Idle ELSE [Idle EXCEPT !.out = out]]
Open(k) == sess' = [sess EXCEPT ![k] = [Idle EXCEPT !.pc = "open", !.day = today]]

(* What a session writes replaces the file.                                *)
Replace(k, entries) ==
    /\ journal' = [journal EXCEPT ![File(k)] = entries]
    /\ lost' = lost \cup (journal[File(k)] \ entries)

(* Mutant: the attempt is recorded with its verdict, after the POST.       *)
BookLate(k, entries, at) ==
    LET all == entries \cup {Attempt(k, sess[k].day, at)} IN
    /\ Replace(k, entries)
    /\ sess' = [sess EXCEPT ![k].mem = all, ![k].pc = "sending"]
    /\ UNCHANGED <<today, engineUp, sent, orphaned>>

Book(k, entries, at) ==
    LET all == entries \cup {Attempt(k, sess[k].day, at)} IN
    /\ Replace(k, all)
    /\ sess' = [sess EXCEPT ![k].mem = all, ![k].pc = "sending"]
    /\ UNCHANGED <<today, engineUp, sent, orphaned>>

FactorInit ==
    /\ today = 1 /\ journal = [f \in Files |-> {}]
    /\ sess = [k \in Kinds |-> Idle] /\ engineUp = FALSE
    /\ sent = [b \in Bookings |-> [d \in Days |-> 0]]
    /\ lost = {} /\ orphaned = FALSE

----------------------------------------------------------------------------
(* Beginnings: the lock, the scope and a first look at the journal.  A     *)
(* session that may not begin only reports why.                            *)

StepUpBegin ==
    /\ "stepup" \in Kinds /\ ~Live("stepup") /\ ~engineUp
    /\ Free("stepup", today)
    /\ Open("stepup")
    /\ UNCHANGED <<today, journal, engineUp, sent, lost, orphaned>>

PasswordBegin ==
    /\ "password" \in Kinds /\ ~Live("password") /\ engineUp
    /\ Free("password", today)
    /\ Open("password")
    /\ UNCHANGED <<today, journal, engineUp, sent, lost, orphaned>>

NexusBegin(k) ==
    /\ k \in Kinds \cap {"hhclub", "uhd"} /\ ~Live(k) /\ engineUp
    /\ Free(k, today)
    /\ Open(k)
    /\ UNCHANGED <<today, journal, engineUp, sent, lost, orphaned>>

HddolbyBegin ==
    /\ "hddolby" \in Kinds /\ ~Live("hddolby") /\ engineUp
    /\ Free("hddolby", today)
    /\ Open("hddolby")
    /\ UNCHANGED <<today, journal, engineUp, sent, lost, orphaned>>

(* The vault is synchronised, the proofs are renewed and a code is read:   *)
(* minutes may pass.                                                       *)
Prepare(k) ==
    /\ sess[k].pc = "open"
    /\ Go(k, "code")
    /\ UNCHANGED <<today, journal, engineUp, sent, lost, orphaned>>

(* The vault is locked, busy or gives no code of this site.                *)
NoCode(k) ==
    /\ sess[k].pc = "open"
    /\ Over(k, "two_factor")
    /\ UNCHANGED <<today, journal, engineUp, sent, lost, orphaned>>

(* The site shows, before or after the vault was asked, that the account   *)
(* is logged in already.                                                   *)
AlreadyIn(k) ==
    /\ sess[k].pc \in {"open", "code"}
    /\ Over(k, "logged_in")
    /\ UNCHANGED <<today, journal, engineUp, sent, lost, orphaned>>

(* Any check may fail before the attempt is booked.                        *)
Refuse(k) ==
    /\ sess[k].pc \in {"open", "code", "checked"}
    /\ Over(k, "two_factor")
    /\ UNCHANGED <<today, journal, engineUp, sent, lost, orphaned>>

----------------------------------------------------------------------------
(* With the code in hand: the last checks, then the attempt is booked.     *)

(* No wait from the re-reading of the journal to the write.                *)
StepUpBook ==
    /\ "stepup" \in Kinds /\ sess["stepup"].pc = "code"
    /\ today = sess["stepup"].day /\ Free("stepup", today)
    /\ Book("stepup", journal["recovery"], today)

(* The form, the binding and the day are looked at again, then the lease   *)
(* and the holder of tmp/run.lock, whoever that is by now; only then is    *)
(* the journal read and the entry dated and written.                       *)
PasswordCheck ==
    /\ "password" \in Kinds /\ sess["password"].pc = "code"
    /\ today = sess["password"].day
    /\ Go("password", "checked")
    /\ UNCHANGED <<today, journal, engineUp, sent, lost, orphaned>>

RunLockIsHeld == engineUp \/ ("stepup" \in Kinds /\ Live("stepup"))

PasswordBook ==
    /\ "password" \in Kinds /\ sess["password"].pc = "checked" /\ RunLockIsHeld
    /\ Free("password", sess["password"].day)
    /\ Book("password", journal["recovery"], today)

(* The scope demands the engine that started the helper.                   *)
NexusCheck(k) ==
    /\ k \in Kinds \cap {"hhclub", "uhd"} /\ sess[k].pc = "code"
    /\ today = sess[k].day /\ ~sess[k].orphan
    /\ Go(k, "checked")
    /\ UNCHANGED <<today, journal, engineUp, sent, lost, orphaned>>

(* hhclub fills the code in before anything is booked, and the form may    *)
(* submit itself then.                                                     *)
HhclubFill ==
    /\ "hhclub" \in AutoSubmits /\ sess["hhclub"].pc = "checked"
    /\ sent' = [sent EXCEPT !["unbooked"][sess["hhclub"].day] = OneMore(@)]
    /\ Over("hhclub", "two_factor")
    /\ UNCHANGED <<today, journal, engineUp, lost, orphaned>>

HhclubBook ==
    /\ "hhclub" \in Kinds /\ sess["hhclub"].pc = "checked"
    /\ today = sess["hhclub"].day /\ Free("hhclub", today)
    /\ Book("hhclub", journal["hhclub"], today)

UhdBook ==
    /\ "uhd" \in Kinds /\ sess["uhd"].pc = "checked"
    /\ Free("uhd", sess["uhd"].day)
    /\ Book("uhd", journal["uhd"], sess["uhd"].day)

(* The day is checked before the scope, the entry is dated after it.       *)
HddolbyCheck ==
    /\ "hddolby" \in Kinds /\ sess["hddolby"].pc = "code"
    /\ today = sess["hddolby"].day /\ ~sess["hddolby"].orphan
    /\ Go("hddolby", "checked")
    /\ UNCHANGED <<today, journal, engineUp, sent, lost, orphaned>>

HddolbyBook ==
    /\ "hddolby" \in Kinds /\ sess["hddolby"].pc = "checked"
    /\ Free("hddolby", sess["hddolby"].day)
    /\ Book("hddolby", journal["hddolby"], today)

----------------------------------------------------------------------------
(* The stages of a password login rewrite the journal as they are reached. *)
Stage(k) ==
    IF k = "password" THEN Replace(k, sess[k].mem) ELSE UNCHANGED <<journal, lost>>

(* The firewall lets one POST through, whether the form submits itself or  *)
(* the button is clicked.                                                  *)
Post(k) ==
    /\ sess[k].pc = "sending"
    /\ sent' = [sent EXCEPT ![k][sess[k].day] = OneMore(@)]
    /\ Stage(k)
    /\ Go(k, "waiting")
    /\ UNCHANGED <<today, engineUp, orphaned>>

(* A booked attempt whose form or code has gone stale is not sent.         *)
Withhold(k) ==
    /\ sess[k].pc = "sending" /\ k # "stepup"
    /\ Stage(k)
    /\ Go(k, "waiting")
    /\ UNCHANGED <<today, engineUp, sent, orphaned>>

(* The verdict is written into what the session holds in memory; when the  *)
(* write fails the pending entry stays.                                    *)
Finish(k) ==
    /\ sess[k].pc = "waiting"
    /\ \E out \in {"logged_in", "two_factor"} : Over(k, out)
    /\ \/ Replace(k, sess[k].mem)
       \/ UNCHANGED <<journal, lost>>
    /\ UNCHANGED <<today, engineUp, sent, orphaned>>

(* A crash, or the helper's time limit, which kills its whole tree.        *)
Die(k) ==
    /\ Live(k)
    /\ Over(k, "killed")
    /\ UNCHANGED <<today, journal, engineUp, sent, lost, orphaned>>

FactorStep(k) ==
    \/ Prepare(k) \/ NoCode(k) \/ AlreadyIn(k) \/ Refuse(k) \/ Post(k) \/ Withhold(k) \/ Finish(k) \/ Die(k)

Booking ==
    \/ StepUpBook \/ PasswordCheck \/ PasswordBook
    \/ \E k \in {"hhclub", "uhd"} : NexusCheck(k)
    \/ HhclubFill \/ HhclubBook \/ UhdBook \/ HddolbyCheck \/ HddolbyBook

Midnight ==
    /\ today < LastDay
    /\ today' = today + 1
    /\ UNCHANGED <<journal, sess, engineUp, sent, lost, orphaned>>

----------------------------------------------------------------------------
(* Mutant: the step-up recovery works without tmp/run.lock.                *)
EngineUpAnyway ==
    /\ ~engineUp /\ engineUp' = TRUE
    /\ UNCHANGED <<today, journal, sess, sent, lost, orphaned>>

(* tmp/run.lock: the engine and the step-up recovery exclude each other    *)
(* while they live.                                                        *)
EngineUp ==
    /\ ~engineUp /\ ("stepup" \in Kinds => ~Live("stepup"))
    /\ engineUp' = TRUE
    /\ UNCHANGED <<today, journal, sess, sent, lost, orphaned>>

Own == {k \in Kinds \ {"stepup"} : Live(k) /\ ~sess[k].orphan}

EngineExit ==
    /\ engineUp /\ Own = {}
    /\ engineUp' = FALSE
    /\ UNCHANGED <<today, journal, sess, sent, lost, orphaned>>

(* Helpers outlive the engine; hddolby runs inside it.                     *)
EngineCrash ==
    /\ engineUp
    /\ engineUp' = FALSE
    /\ orphaned' = (orphaned \/ Own \ {"hddolby"} # {})
    /\ sess' = [k \in Kinds |->
         IF k \notin Own THEN sess[k]
         ELSE IF k = "hddolby" THEN Idle ELSE [sess[k] EXCEPT !.orphan = TRUE]]
    /\ UNCHANGED <<today, journal, sent, lost>>

FactorNext ==
    \/ StepUpBegin \/ PasswordBegin \/ HddolbyBegin
    \/ \E k \in {"hhclub", "uhd"} : NexusBegin(k)
    \/ Booking \/ \E k \in Kinds : FactorStep(k)
    \/ Midnight \/ EngineUp \/ EngineExit \/ EngineCrash

FactorSpec == FactorInit /\ [][FactorNext]_factorVars

----------------------------------------------------------------------------
(* "A crash or ambiguous response cannot cause a second authentication     *)
(* POST from another task or another process today": of each kind, at most *)
(* one booked POST leaves on a day, unless its entry was dropped from the  *)
(* journal.  What hhclub's form submits by itself is not booked and has no *)
(* bound.                                                                  *)
OneAuthenticationADay ==
    \A k \in Kinds, d \in Days :
        sent[k][d] > 1 => \E e \in lost : e.kind = k /\ e.date = d

(* An entry is dropped only by a login helper, or by a step-up beside it,  *)
(* that worked on after its engine had died: the two share a file but not  *)
(* a lock.                                                                 *)
LostToOrphansOnly == lost # {} => orphaned

(* No journal is ever written that its own reader rejects.  It does not    *)
(* hold: PasswordBook and HddolbyBook date the entry after the day check.  *)
JournalsStayReadable == \A f \in Files : Readable(f)

=============================================================================
