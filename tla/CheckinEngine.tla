--------------------------- MODULE CheckinEngine ---------------------------
(***************************************************************************)
(* One engine process, execution/src/index.mjs: it takes up a report,      *)
(* selects targets, visits them one by one with a checkpoint after each,   *)
(* repairs logins and looks again in recovery rounds, takes the            *)
(* supplemental accounts, and writes the final report.  What a browser     *)
(* visit finds is chosen from Outcomes, what a login helper reports from   *)
(* LoginOutcomes.  The run lock (RunLock) keeps it to one process.         *)
(***************************************************************************)
EXTENDS RetryPolicy

CONSTANTS Supplemental,      \* supplemental OAuth accounts: visited last, no recovery
          OAuthSites,        \* sites whose login runs through their group's upstream
          Outcomes,          \* what a visit of a site may find: sets of results
          LoginOutcomes,     \* what a login helper may report
          RecoveryRounds

VARIABLES clock,    \* absolute slot
          plan,     \* fingerprint of the current bookmark plan
          latest,   \* logs/latest.json: the last complete final report
          eng       \* the engine process and what it holds in memory

\* A visit names no time for the next try: those the PT gates set (harvest-pt-gate.mjs,
\* native-pt-gate.mjs) are a slot later, like the ones the schedule gives.  A
\* submission that was sent leaves a settled result or one for a person
\* (guardPtSubmission, nativeUnconfirmedSubmission, waitForAuthoritativeCheckin).
ASSUME EngineAssumption ==
    /\ Supplemental \subseteq Sites /\ OAuthSites \subseteq Sites \ Supplemental
    /\ \A s \in Sites : \A r \in Outcomes[s] :
         r \in Results /\ r.next = NoTime /\ (r.sub => r.status \in {"done", "attention"})
    /\ 0 \notin Sites /\ RecoveryRounds \in Nat

NoSite == 0
Nothing == [s \in Sites |-> NoResult]
NoReport == [day |-> NoTime, plan |-> 0, res |-> Nothing]
Down == [on |-> FALSE, orphan |-> FALSE, day |-> NoTime, plan |-> 0, resumed |-> FALSE,
         base |-> Nothing, only |-> NoSite, confirmed |-> {}, results |-> Nothing, todo |-> {},
         stage |-> "visit", queue |-> {}, round |-> 0,
         logins |-> [s \in Sites |-> "none"], tries |-> [s \in Sites |-> 0]]

Visited == {s \in Sites : eng.results[s].status # "none"}
Selects(only) == only # NoSite

\* applyManualConfirmations: the operator's word ends what was not terminal.
ApplyManual(res, confirmed) ==
    [s \in Sites |-> IF s \in confirmed /\ ~Terminal(res[s])
                       THEN Outcome("done", "none", FALSE) ELSE res[s]]

\* Mutant: a resumed run visits the whole plan again.
SelectedAll(only, resumed, base) == IF Selects(only) THEN {only} ELSE Sites

\* What a resumed run visits: what has no result, or may be retried now.
Selected(only, resumed, base) ==
    IF Selects(only) THEN {only}
    ELSE IF resumed THEN {s \in Sites : base[s].status = "none" \/ RetryEligible(base[s], clock)}
    ELSE Sites

(***************************************************************************)
(* The report named on the command line is used when it is today's and its *)
(* plan fingerprint is the current one.  kind is "final" for latest.json   *)
(* and "progress" for a checkpoint, which records no fingerprint; day is   *)
(* the day of its run id.                                                  *)
(***************************************************************************)
ResumeMatches(kind) == kind = "final" /\ latest.plan = plan
ResumeRefused(kind, day, only, confirm) ==
    /\ kind # "none"
    /\ \/ day # Day(clock)
       \/ ~ResumeMatches(kind) /\ (Selects(only) \/ confirm # NoSite)

EngineStart(kind, only, confirm) ==
    LET resumed == ResumeMatches(kind)
        confirmed == IF resumed /\ confirm # NoSite THEN {confirm} ELSE {}
        base == IF resumed THEN ApplyManual(latest.res, confirmed) ELSE Nothing
    IN  eng' = [Down EXCEPT !.on = TRUE, !.day = Day(clock), !.plan = plan,
                            !.resumed = resumed, !.base = base, !.only = only,
                            !.confirmed = {s \in confirmed : ~Terminal(latest.res[s])},
                            !.todo = Selected(only, resumed, base)]

\* resultForPlanTarget and the schedule a deferred visit brings with it.
Recorded(s, r) == [eng EXCEPT !.results[s] = WithRetrySchedule(r, clock), !.todo = @ \ {s}]

\* An explicit selection still reuses a terminal result.
Visit ==
    LET todo == eng.todo \ Supplemental
        s == Min(todo)
    IN  /\ eng.on /\ eng.stage = "visit" /\ todo # {}
        /\ \/ /\ Selects(eng.only) /\ Terminal(eng.base[s])
              /\ eng' = Recorded(s, eng.base[s])
           \/ /\ ~(Selects(eng.only) /\ Terminal(eng.base[s]))
              /\ \E r \in Outcomes[s] : eng' = Recorded(s, r)

\* The tries an upstream has used, as the resumed report counts them.
BaseTries(g) == GroupTries(eng.base, g)

BeginRound ==
    LET again == {s \in Visited \ Supplemental : RetryEligible(eng.results[s], clock)} IN
    /\ eng.on /\ eng.stage = "visit" /\ eng.todo \subseteq Supplemental
    /\ IF again = {} \/ eng.round = RecoveryRounds
         THEN eng' = [eng EXCEPT !.stage = "supplement"]
         ELSE eng' = [eng EXCEPT !.stage = "login", !.queue = again, !.round = @ + 1,
                                 !.logins = Down.logins,
                                 !.tries = [s \in Sites |-> BaseTries(Group[s])]]

ToLogin == {s \in eng.queue : eng.results[s].status = "login" /\ eng.logins[s] = "none"}

\* Mutant: the breaker is not asked before a login helper is started.
LoginUnbroken ==
    LET s == Min(ToLogin) IN
    /\ eng.on /\ eng.stage = "login" /\ ToLogin # {}
    /\ \E o \in LoginOutcomes :
         eng' = [eng EXCEPT !.logins[s] = o,
                   !.tries = IF o # "upstream" THEN @ ELSE
                     [t \in Sites |-> @[t] + IF Group[t] = Group[s] THEN 1 ELSE 0]]

(***************************************************************************)
(* The methods configured for the site are tried in order and come to one  *)
(* outcome.  A site behind an upstream that has used its tries is not      *)
(* tried at all.                                                           *)
(***************************************************************************)
LoginHelpers ==
    LET s == Min(ToLogin)
        through == s \in OAuthSites
    IN  /\ eng.on /\ eng.stage = "login" /\ ToLogin # {}
        /\ IF through /\ eng.tries[s] >= GroupLimit
             THEN eng' = [eng EXCEPT !.logins[s] = "circuit"]
             ELSE \E o \in LoginOutcomes :
                    /\ o = "upstream" => through
                    /\ eng' = [eng EXCEPT !.logins[s] = o,
                         !.tries = [t \in Sites |->
                            @[t] + IF o = "upstream" /\ Group[t] = Group[s] THEN 1 ELSE 0]]

\* What a login outcome makes of the site, where it settles it by itself.
Settles == {"checked", "attention", "rate", "upstream", "circuit"}
AfterLogin(o) ==
    CASE o = "checked" -> Outcome("done", "none", FALSE)
      [] o = "attention" -> Outcome("attention", "none", FALSE)
      [] o = "rate" -> Outcome("deferred", "rate", FALSE)
      [] o \in {"upstream", "circuit"} -> Outcome("deferred", "upstream", FALSE)

\* Once every helper has run, each site of the round is settled or visited.
Recheck ==
    LET s == Min(eng.queue) IN
    /\ eng.on /\ eng.stage = "login" /\ ToLogin = {}
    /\ \E r \in IF eng.logins[s] \in Settles THEN {AfterLogin(eng.logins[s])} ELSE Outcomes[s] :
         eng' = [Recorded(s, r) EXCEPT !.queue = @ \ {s},
                   !.stage = IF eng.queue = {s} THEN "visit" ELSE @]

Supplement ==
    LET s == Min(eng.todo)
        prior == eng.base[s]
        reuse == /\ prior.status # "none"
                 /\ \/ Terminal(prior)
                    \/ ~Selects(eng.only) /\ ~RetryEligible(prior, clock)
    IN  /\ eng.on /\ eng.stage = "supplement" /\ eng.todo # {}
        /\ IF reuse THEN eng' = [eng EXCEPT !.todo = @ \ {s}]
                    ELSE \E r \in Outcomes[s] : eng' = Recorded(s, r)

\* Mutant: the final report is assembled from this run's results alone.
MergedAlone == [s \in Sites |-> eng.results[s]]

\* mergedProgressResults: what this run found, else what it resumed.
Merged == [s \in Sites |-> IF s \in Visited THEN eng.results[s] ELSE eng.base[s]]

FinalResults == AdvanceAttempted(Merged, Visited \cup eng.confirmed, eng.base, clock)
AllTerminal(res, only) ==
    \A s \in IF Selects(only) THEN {only} ELSE Sites : Terminal(res[s])

FinishRun ==
    /\ eng.on /\ eng.stage = "supplement" /\ eng.todo = {}
    /\ latest' = [day |-> eng.day, plan |-> eng.plan, res |-> FinalResults]
    /\ eng' = Down

=============================================================================
