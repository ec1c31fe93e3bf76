--------------------------- MODULE CanaryExecution --------------------------
(***************************************************************************)
(* The standalone V2 executor, for one account: observation/src            *)
(* canary-runner, execution-journal, v1-account-handoff, task-coordinator, *)
(* isolated-browser-worker, daily-runner and migration-state, with the     *)
(* operator's scripts that prepare, observe, recover, reconcile and adopt. *)
(*                                                                         *)
(* A runner holds data/v2-run.lock (module ExecutionLock), so there is one *)
(* at a time; the scripts and a read-only observation take no lock and may *)
(* come between any two of its steps.  The journal keeps one record per    *)
(* account and day, data/v2-account-handoff.json one row per account: the  *)
(* row is what withdraws the account from the V1 engine.                   *)
(*                                                                         *)
(* A behaviour is one business date.  The runner executes today's task and *)
(* never looks at the clock again; another date shows in what it left: its *)
(* own record, which the scripts may still work on, the row and the        *)
(* migration.  Accounts gives those, MaxFaults bounds crashes and failed   *)
(* writes together, LastPlan the plans.  An observation is kept only while *)
(* it is newer than the record of its day, which is all the scripts ask.   *)
(***************************************************************************)
EXTENDS ExecutionAdapters

CONSTANTS Accounts, LastPlan, MaxFaults

Days == {"yesterday", "today"}
Plans == 1..LastPlan
Modes == {"candidate", "active"}
Terminal == {"succeeded", "already_done", "not_available"}
Failed == {"blocked", "submit_rejected"}
Undecided == {"prepared", "submission_unknown"}
Phases == {"none", "reserved"} \cup Terminal \cup Failed \cup Undecided
Proofs == {"none", "rejected", "other"}

Rows == [state : {"none", "pending_v2", "v2_owned"}, expires : BOOLEAN]

ASSUME CanaryAssumption ==
    /\ LastPlan \in Nat \ {0}
    /\ MaxFaults \in Nat
    /\ Accounts \subseteq
          [kind : AllKinds, plan : Plans, phase : {"none", "blocked", "submission_unknown",
           "succeeded"}, site : Sites, row : Rows, migration : Modes]
    /\ \A a \in Accounts :      \* what an earlier day leaves has been earned
          /\ a.phase = "succeeded" => a.site # "unsigned"
          /\ a.row.state = "v2_owned" \/ a.migration = "active" => a.phase = "succeeded"

NoTask == [state |-> "none", plan |-> 0]
NoRecord == [phase |-> "none", proof |-> "none", plan |-> 0]
NoRow == [state |-> "none", expires |-> FALSE]
NoResult == [stage |-> "none", mutation |-> FALSE]
Idle == [pc |-> "idle", mode |-> "candidate", plan |-> 1, bypass |-> FALSE,
         prepared |-> FALSE, result |-> NoResult]
NoTool == [pc |-> "idle", day |-> "today"]

VARIABLES
    kind,       \* the account's execution adapter
    plan,       \* the fingerprint of the current execution plan
    site,       \* per day: what really holds at the site
    tasks,      \* per day: outputs/canary-<account>-<day>.json
    journal,    \* per day: execution_intents
    audit,      \* per day: the attempt of execution_recovery_audit
    row,        \* the account's row of v2-account-handoff.json
    migration,  \* outputs/migration-<account>.json, its state
    run,        \* the runner
    tool,       \* a script of several steps
    observed,   \* per day: an observation newer than the record
    faults,
    submitted,  \* history: calls of submit_once per day
    doubt,      \* history: a request of the day left, nothing has denied it since
    misjudged,  \* history: ... and the adapter said that nothing happened
    adopted     \* history: a script for adopted check-ins touched the row

site_vars == <<kind, plan, site>>
store == <<tasks, journal, audit, row, migration, observed>>
history == <<submitted, doubt, misjudged, adopted>>
vars == <<site_vars, store, run, tool, faults, history>>

(* What yesterday may have left; a decided day has been submitted once.    *)
Init == \E a \in Accounts :
    LET decided == a.phase \in {"submission_unknown", "succeeded"}
        Left(past, now) == [d \in Days |-> IF d = "today" THEN now ELSE past]
    IN  /\ kind = a.kind /\ plan = a.plan
        /\ site = Left(a.site, "unsigned")
        /\ tasks = Left(IF a.phase = "none" THEN NoTask
                        ELSE [state |-> "candidate", plan |-> a.plan], NoTask)
        /\ journal = Left([NoRecord EXCEPT !.phase = a.phase, !.plan = a.plan], NoRecord)
        /\ audit = Left(0, 0)
        /\ row = a.row /\ migration = a.migration
        /\ run = Idle /\ tool = NoTool
        /\ observed = Left("none", "none")
        /\ faults = 0
        /\ submitted = Left(IF decided THEN 1 ELSE 0, 0)
        /\ doubt = Left(decided, FALSE)
        /\ misjudged = Left(FALSE, FALSE)
        /\ adopted = FALSE

D == "today"
Fault == faults < MaxFaults /\ faults' = faults + 1
Well == UNCHANGED faults

-----------------------------------------------------------------------------
(* The world.                                                              *)
PlanChange ==
    /\ plan < LastPlan /\ plan' = plan + 1
    /\ UNCHANGED <<kind, site, store, run, tool, faults, history>>

(* V1 or the user signs, or what was on its way arrives. *)
SiteMoves ==
    /\ \E d \in Days, s \in {"pending", "signed"} :
          /\ \/ site[d] = "unsigned" /\ d = "today"
             \/ site[d] = "pending" /\ s = "signed"
          /\ site' = [site EXCEPT ![d] = s]
    /\ UNCHANGED <<kind, plan, store, run, tool, faults, history>>

-----------------------------------------------------------------------------
(* The records.                                                            *)

(* A write of a day's record outdates its observation. *)
Journal(d, phase) ==
    /\ journal' = [journal EXCEPT ![d].phase = phase, ![d].proof = "none"]
    /\ observed' = [observed EXCEPT ![d] = "none"]

(* Mutant: what is prepared can no longer be called a failure. *)
PreparedIsSent(from, to, mutation) ==
    \/ from = to
    \/ /\ \/ from = "reserved" /\ to \in {"blocked", "already_done", "not_available"}
          \/ from = "prepared" /\ to \in {"submission_unknown", "succeeded"}
       /\ mutation <=> to \in {"submission_unknown", "succeeded"}

(* recordOutcome: the transitions it allows, and no mutation in a failure. *)
Recordable(from, to, mutation) ==
    \/ from = to
    \/ /\ \/ from = "reserved" /\ to \in {"blocked", "already_done", "not_available"}
          \/ from = "prepared" /\ to \in Failed \cup {"submission_unknown", "succeeded"}
       /\ mutation <=> to \in {"submission_unknown", "succeeded"}

RecordIn(d, to) ==
    IF journal[d].phase = to THEN UNCHANGED <<journal, observed>> ELSE Journal(d, to)

Pending == [state |-> "pending_v2", expires |-> TRUE]
Owned == [state |-> "v2_owned", expires |-> FALSE]
(* Mutant: the row is marked and still runs out. *)
MarkedOnly == row

Quarantined ==
    IF row.state = "pending_v2" THEN [row EXCEPT !.expires = FALSE] ELSE row

(* Quarantining and completing throw when the account has no row; where    *)
(* the caller swallows the error the row stays as it is.                   *)
Quarantine == row.state # "none" /\ row' = Quarantined
Complete == row.state # "none" /\ row' = Owned
TryQuarantine ==
    \/ Well /\ row' = Quarantined
    \/ Fault /\ UNCHANGED row

-----------------------------------------------------------------------------
(* The operator's scripts.                                                 *)

PrepareTask ==
    /\ tasks' = [tasks EXCEPT ![D] = [state |-> migration, plan |-> plan]]
    /\ UNCHANGED <<site_vars, journal, audit, row, migration, observed, run, tool,
                   faults, history>>

(* A read-only canary; Chrome refuses a profile that is in use. *)
BrowserOpen == run.pc \in {"prepare", "fence", "submit", "verify", "close"}
ReadOnly(d) ==
    /\ tasks[d] # NoTask /\ ~BrowserOpen
    /\ \E says \in StatusAnswers(kind, site[d]) :
          /\ observed' = [observed EXCEPT ![d] =
                IF says \in {"already_done", "not_signed"} THEN says ELSE "none"]
          /\ doubt' = [doubt EXCEPT ![d] = @ /\ says # "not_signed"]
          /\ misjudged' = [misjudged EXCEPT ![d] = @ /\ says # "not_signed"]
    /\ UNCHANGED <<site_vars, tasks, journal, audit, row, migration, run, tool, faults,
                   submitted, adopted>>

(* Mutant: the limit counts the recoveries before this one. *)
LooseRecoveryLimit == 3

RecoveryLimit == 2

(* recover-v2-execution: a failure on the operator's word that the journal *)
(* proves it, an unknown submission on an observation.                     *)
Recover(d) ==
    /\ tool.pc = "idle" /\ tasks[d] # NoTask
    /\ \/ journal[d].phase \in Failed
       \/ journal[d].phase = "submission_unknown" /\ observed[d] = "not_signed"
    /\ audit[d] < RecoveryLimit
    /\ audit' = [audit EXCEPT ![d] = @ + 1]
    /\ journal' = [journal EXCEPT ![d].phase = "reserved",
          ![d].proof = IF journal[d].phase = "submit_rejected" THEN "rejected" ELSE "other"]
    /\ observed' = [observed EXCEPT ![d] = "none"]
    /\ UNCHANGED <<site_vars, tasks, row, migration, run, tool, faults, history>>

(* reconcile-v2-execution: the record, then the row, then the migration. *)
Reconcile(d) ==
    /\ tool.pc = "idle" /\ tasks[d] # NoTask
    /\ journal[d].phase = "submission_unknown" /\ observed[d] = "already_done"
    /\ Journal(d, "succeeded")
    /\ tool' = [pc |-> "complete", day |-> d]
    /\ UNCHANGED <<site_vars, tasks, audit, row, migration, run, faults, history>>

ReconcileRow ==
    /\ tool.pc = "complete"
    /\ \/ Well /\ Complete /\ tool' = [tool EXCEPT !.pc = "promote"]
       \/ Well /\ row.state = "none" /\ UNCHANGED row /\ tool' = NoTool
       \/ Fault /\ UNCHANGED row /\ tool' = NoTool
    /\ UNCHANGED <<site_vars, tasks, journal, audit, migration, observed, run, history>>

(* adopt-v2-checkin takes the account first and then looks at the record. *)
Adopt(d) ==
    /\ tool.pc = "idle" /\ tasks[d] # NoTask /\ observed[d] = "already_done"
    /\ row' = Pending /\ adopted' = TRUE
    /\ tool' = [pc |-> "adopt", day |-> d]
    /\ UNCHANGED <<site_vars, tasks, journal, audit, migration, observed, run, faults,
                   submitted, doubt, misjudged>>

AdoptRecord ==
    /\ tool.pc = "adopt"
    /\ LET d == tool.day IN
       IF journal[d].phase = "already_done" /\ observed[d] = "already_done"
       THEN Journal(d, "succeeded") /\ tool' = [tool EXCEPT !.pc = "adoptRow"]
       ELSE UNCHANGED <<journal, observed>> /\ tool' = [tool EXCEPT !.pc = "giveBack"]
    /\ UNCHANGED <<site_vars, tasks, audit, row, migration, run, faults, history>>

AdoptRow ==
    /\ tool.pc = "adoptRow"
    /\ \/ Well /\ Complete /\ tool' = [tool EXCEPT !.pc = "promote"]
       \/ Well /\ row.state = "none" /\ UNCHANGED row /\ tool' = [tool EXCEPT !.pc = "giveBack"]
       \/ Fault /\ UNCHANGED row /\ tool' = [tool EXCEPT !.pc = "giveBack"]
    /\ UNCHANGED <<site_vars, tasks, journal, audit, migration, observed, run, history>>

AdoptGivesBack ==
    /\ tool.pc = "giveBack" /\ tool' = NoTool
    /\ (Well /\ row' = NoRow) \/ (Fault /\ UNCHANGED row)
    /\ UNCHANGED <<site_vars, tasks, journal, audit, migration, observed, run, history>>

(* promoteMigrationAfterVerifiedSubmission, for both scripts. *)
ToolPromotes ==
    /\ tool.pc = "promote" /\ tool' = NoTool
    /\ (Well /\ migration' = "active") \/ (Fault /\ UNCHANGED migration)
    /\ UNCHANGED <<site_vars, tasks, journal, audit, row, observed, run, history>>

ToolDies ==
    /\ tool.pc # "idle" /\ Fault /\ tool' = NoTool
    /\ UNCHANGED <<site_vars, store, run, history>>

-----------------------------------------------------------------------------
(* The runner.                                                             *)
Here(pc) == run.pc = pc
Goto(pc) == run' = [run EXCEPT !.pc = pc]

(* A new record, a recovered one or a duplicate; a record made under       *)
(* another plan throws.  The task is a prepared file or a fresh one.       *)
Reserve ==
    /\ Here("idle")
    /\ LET old == journal[D]
           approved == old.phase = "reserved" /\ old.proof # "none"
       IN  /\ \E mode \in Modes :
                 /\ tasks[D] = [state |-> mode, plan |-> plan] \/ mode = migration
                 /\ run' = [Idle EXCEPT !.mode = mode, !.plan = plan,
                       !.pc = IF old.phase = "none" \/ approved THEN "handoff" ELSE "duplicate",
                       !.bypass = kind = "oauthReward" /\ old.proof = "rejected"]
           /\ IF old.phase = "none"
              THEN /\ journal' = [journal EXCEPT ![D] =
                         [phase |-> "reserved", proof |-> "none", plan |-> plan]]
                   /\ observed' = [observed EXCEPT ![D] = "none"]
              ELSE old.plan = plan /\ UNCHANGED <<journal, observed>>
    /\ UNCHANGED <<site_vars, tasks, audit, row, migration, tool, faults, history>>

(* A decided or an open record: nothing is executed, the row is brought in *)
(* line with it, and a completed success promotes.                         *)
Duplicate ==
    /\ Here("duplicate")
    /\ LET phase == journal[D].phase
           quarantine == phase \in Undecided /\ run.mode = "candidate"
       IN  \/ quarantine /\ TryQuarantine /\ run' = Idle
           \/ /\ phase = "succeeded"
              /\ \/ Well /\ Complete /\ Goto("promote")
                 \/ Well /\ row.state = "none" /\ UNCHANGED row /\ run' = Idle
                 \/ Fault /\ UNCHANGED row /\ run' = Idle
           \/ phase # "succeeded" /\ ~quarantine /\ Well /\ UNCHANGED row /\ run' = Idle
    /\ UNCHANGED <<site_vars, tasks, journal, audit, migration, observed, tool, history>>

(* A candidate withdraws the account from V1, whatever row there was; an   *)
(* active account must be owned already.                                   *)
Handoff ==
    /\ Here("handoff") /\ Goto("observe")
    /\ IF run.mode = "candidate" THEN row' = Pending ELSE row = Owned /\ UNCHANGED row
    /\ UNCHANGED <<site_vars, tasks, journal, audit, migration, observed, tool, faults,
                   history>>

(* V1 is running, the file is busy, or the row is not V2's: cancelReservation. *)
HandoffFails ==
    /\ Here("handoff") /\ (run.mode = "candidate" \/ row # Owned)
    /\ run' = Idle
    /\ \/ /\ Well
          /\ journal' = [journal EXCEPT ![D] = NoRecord]
          /\ observed' = [observed EXCEPT ![D] = "none"]
       \/ Fault /\ UNCHANGED <<journal, observed>>
    /\ UNCHANGED <<site_vars, tasks, audit, row, migration, tool, history>>

Concluded(stage) ==
    run' = [run EXCEPT !.pc = "close", !.result =
        [stage |-> stage, mutation |-> stage \in {"succeeded", "submission_unknown"}]]

(* The worker opens the profile and the coordinator reads identity and     *)
(* status; a recovered OAuth rejection does without the identity.          *)
Observe ==
    /\ Here("observe")
    /\ \/ /\ \/ Goto("catch")
             \/ ~run.bypass /\ Concluded("blocked")
             \/ run.bypass /\ Goto("prepare")
          /\ UNCHANGED <<doubt, misjudged>>
       \/ \E says \in StatusAnswers(kind, site[D]) :
          /\ CASE says = "not_signed" -> Goto("prepare")
               [] says = "unknown" -> Concluded("blocked")
               [] OTHER -> Concluded(says)
          /\ doubt' = [doubt EXCEPT ![D] = @ /\ says # "not_signed"]
          /\ misjudged' = [misjudged EXCEPT ![D] = @ /\ says # "not_signed"]
    /\ UNCHANGED <<site_vars, store, tool, faults, submitted, adopted>>

(* persistIntent: the intent first, then the row loses its expiry, and     *)
(* only then may anything leave.                                           *)
Prepare ==
    /\ Here("prepare")
    /\ \/ /\ Well /\ journal[D].phase = "reserved"
          /\ Journal(D, "prepared")
          /\ run' = [run EXCEPT !.pc = "fence", !.prepared = TRUE]
       \/ /\ Fault \/ (Well /\ journal[D].phase # "reserved")
          /\ Goto("catch") /\ UNCHANGED <<journal, observed>>
    /\ UNCHANGED <<site_vars, tasks, audit, row, migration, tool, history>>

Fence ==
    /\ Here("fence")
    /\ \/ Well /\ Quarantine /\ Goto("submit")
       \/ /\ Fault \/ (Well /\ row.state = "none")
          /\ UNCHANGED row /\ Goto("catch")
    /\ UNCHANGED <<site_vars, tasks, journal, audit, migration, observed, tool, history>>

(* submit_once and what the coordinator makes of its answer. *)
Submit ==
    /\ Here("submit")
    /\ \E o \in Submissions(kind, site[D]) :
          /\ site' = [site EXCEPT ![D] = o.site]
          /\ doubt' = [doubt EXCEPT ![D] = @ \/ o.open]
          /\ misjudged' = [misjudged EXCEPT ![D] =
                @ \/ (o.open /\ Conclude(o) = "submit_rejected")]
          /\ IF Conclude(o) = "verify" THEN Goto("verify") ELSE Concluded(Conclude(o))
    /\ submitted' = [submitted EXCEPT ![D] = @ + 1]
    /\ UNCHANGED <<kind, plan, store, tool, faults, adopted>>

Verify ==
    /\ Here("verify")
    /\ \/ Verifies(kind, site[D]) /\ Concluded("succeeded")
       \/ Concluded("submission_unknown")
    /\ UNCHANGED <<site_vars, store, tool, faults, history>>

(* The context is closed; when that fails the worker throws and whatever   *)
(* the coordinator concluded is lost.                                      *)
Close ==
    /\ Here("close")
    /\ Goto("record") \/ run' = [run EXCEPT !.pc = "catch", !.result = NoResult]
    /\ UNCHANGED <<site_vars, store, tool, faults, history>>

(* The outcome goes to the journal; an active account whose row is gone    *)
(* reports a blocked execution, which the journal refuses to call a        *)
(* failure once a mutation may have happened.                              *)
Record ==
    /\ Here("record")
    /\ LET r == run.result
           lost == run.mode = "active" /\ r.stage \in Terminal /\ row # Owned
           phase == IF lost THEN "blocked" ELSE r.stage
           ok == Recordable(journal[D].phase, phase, r.mutation)
       IN  \/ /\ Well /\ ok /\ RecordIn(D, phase)
              /\ run' = [run EXCEPT !.pc = "finish", !.result.stage = phase]
           \/ /\ Fault \/ (Well /\ ~ok)
              /\ Goto(IF r.mutation THEN "again" ELSE "catch")
              /\ UNCHANGED <<journal, observed>>
    /\ UNCHANGED <<site_vars, tasks, audit, row, migration, tool, history>>

(* What could not be recorded may at least be recorded as unknown. *)
RecordAgain ==
    /\ Here("again")
    /\ LET ok == Recordable(journal[D].phase, "submission_unknown", TRUE)
       IN  \/ Well /\ ok /\ RecordIn(D, "submission_unknown")
           \/ (Fault \/ (Well /\ ~ok)) /\ UNCHANGED <<journal, observed>>
    /\ run' = [run EXCEPT !.pc = "finish", !.result.stage = "submission_unknown"]
    /\ UNCHANGED <<site_vars, tasks, audit, row, migration, tool, history>>

(* The row follows: kept without expiry, owned, or given back. *)
Finish ==
    /\ Here("finish")
    /\ LET stage == run.result.stage  candidate == run.mode = "candidate" IN
       \/ candidate /\ stage = "submission_unknown" /\ TryQuarantine /\ run' = Idle
       \/ /\ candidate /\ stage = "succeeded"
          /\ \/ Well /\ Complete /\ Goto("promote")
             \/ Well /\ row.state = "none" /\ UNCHANGED row /\ run' = Idle
             \/ Fault /\ UNCHANGED row /\ run' = Idle
       \/ /\ candidate /\ ~run.result.mutation
          /\ \/ Well /\ row' = NoRow /\ run' = Idle
             \/ Fault /\ UNCHANGED row /\ Goto("catch")
       \/ /\ ~candidate /\ Well /\ UNCHANGED row
          /\ IF stage = "succeeded" THEN Goto("promote") ELSE run' = Idle
    /\ UNCHANGED <<site_vars, tasks, journal, audit, migration, observed, tool, history>>

(* Mutant: an error without a result is not a possible mutation. *)
ForgetsTheIntent == run.result.mutation

MutationPossible ==
    \/ run.result.mutation
    \/ run.result = NoResult /\ run.prepared

(* The error path: the journal first, then the row; both swallow errors. *)
Catch ==
    /\ Here("catch")
    /\ LET phase == IF MutationPossible THEN "submission_unknown" ELSE "blocked"
           ok == Recordable(journal[D].phase, phase, MutationPossible)
       IN  \/ Well /\ ok /\ RecordIn(D, phase)
           \/ (Fault \/ (Well /\ ~ok)) /\ UNCHANGED <<journal, observed>>
    /\ Goto("release")
    /\ UNCHANGED <<site_vars, tasks, audit, row, migration, tool, history>>

Release ==
    /\ Here("release") /\ run' = Idle
    /\ \/ run.mode = "candidate" /\ MutationPossible /\ TryQuarantine
       \/ /\ run.mode = "candidate" /\ ~MutationPossible
          /\ (Well /\ row' = NoRow) \/ (Fault /\ UNCHANGED row)
       \/ run.mode = "active" /\ Well /\ UNCHANGED row
    /\ UNCHANGED <<site_vars, tasks, journal, audit, migration, observed, tool, history>>

Promote ==
    /\ Here("promote") /\ run' = Idle
    /\ (Well /\ migration' = "active") \/ (Fault /\ UNCHANGED migration)
    /\ UNCHANGED <<site_vars, tasks, journal, audit, row, observed, tool, history>>

Crash ==
    /\ ~Here("idle") /\ Fault /\ run' = Idle
    /\ UNCHANGED <<site_vars, store, tool, history>>

-----------------------------------------------------------------------------
World == PlanChange \/ SiteMoves
Runner ==
    \/ Reserve \/ Duplicate \/ Handoff \/ HandoffFails \/ Observe \/ Prepare
    \/ Fence \/ Submit \/ Verify \/ Close \/ Record \/ RecordAgain
    \/ Finish \/ Catch \/ Release
    \/ Promote \/ Crash
Scripts ==
    \/ PrepareTask
    \/ \E d \in Days : ReadOnly(d) \/ Recover(d) \/ Reconcile(d) \/ Adopt(d)
    \/ ReconcileRow \/ AdoptRecord \/ AdoptRow \/ AdoptGivesBack \/ ToolPromotes
    \/ ToolDies
Next == World \/ Runner \/ Scripts

Spec == Init /\ [][Next]_vars

-----------------------------------------------------------------------------
Runs ==
    [pc : {"idle", "duplicate", "handoff", "observe", "prepare", "fence", "submit",
           "verify", "close", "record", "again", "finish", "catch", "release", "promote"},
     mode : Modes, plan : Plans, bypass : BOOLEAN, prepared : BOOLEAN,
     result : [stage : Phases, mutation : BOOLEAN]]

(* Every variable is of its type. *)
TypeOK ==
    /\ kind \in AllKinds /\ plan \in Plans
    /\ site \in [Days -> Sites]
    /\ tasks \in [Days -> [state : Modes \cup {"none"}, plan : Plans \cup {0}]]
    /\ journal \in [Days -> [phase : Phases, proof : Proofs, plan : Plans \cup {0}]]
    /\ audit \in [Days -> 0..RecoveryLimit]
    /\ row \in Rows
    /\ migration \in Modes
    /\ run \in Runs
    /\ tool \in [pc : {"idle", "complete", "adopt", "adoptRow", "giveBack", "promote"},
                 day : Days]
    /\ observed \in [Days -> {"none", "already_done", "not_signed"}]
    /\ faults \in 0..MaxFaults
    /\ submitted \in [Days -> Nat]
    /\ doubt \in [Days -> BOOLEAN] /\ misjudged \in [Days -> BOOLEAN]
    /\ adopted \in BOOLEAN

(* While a request of the day may have reached the site and nothing has    *)
(* said otherwise since, submit_once is not called again for that day:     *)
(* neither by a later run nor after a recovery that skips the status read  *)
(* (recoveredOAuthIdentity of task-coordinator.mjs).                       *)
NoBlindResubmission ==
    [][\A d \in Days : submitted'[d] > submitted[d] => ~doubt[d]]_vars

(* Such a day is never journalled as a failure that may simply be retried, *)
(* whatever crashed, failed to close or could not be written, unless the   *)
(* adapter itself denied what it had sent.                                 *)
DoubtIsJournalled ==
    \A d \in Days : doubt[d] =>
        misjudged[d] \/ journal[d].phase \in Undecided \cup {"succeeded"}

(* While today's submission is in doubt the account stays withdrawn from   *)
(* V1: its row is there and does not run out.  Adoption may break this.    *)
DoubtKeepsTheAccount ==
    doubt[D] => \/ misjudged[D] \/ adopted
                \/ row.state # "none" /\ ~row.expires

(* The account belongs to V2, in the handoff file or in its migration      *)
(* record, only when a day is journalled as succeeded on which the site    *)
(* really has the sign-in or is about to.                                  *)
OwnedIsEarned ==
    row.state = "v2_owned" \/ migration = "active" =>
        \E d \in Days : journal[d].phase = "succeeded" /\ site[d] # "unsigned"

(* A day is submitted at most three times, with whatever crashes,          *)
(* deletions of reservations and recoveries in between.                    *)
SendsAreBounded == \A d \in Days : submitted[d] <= 3

(* Without a crash or a failed write no record stays open behind the run   *)
(* that opened it, where no script can move it on.                         *)
OpenIsAttended ==
    faults = 0 =>
        \A d \in Days :
            \/ journal[d].phase = "reserved" /\ journal[d].proof = "none"
            \/ journal[d].phase = "prepared"
            => d = D /\ ~Here("idle")

=============================================================================
