---------------------------- MODULE CanaryProofs ----------------------------
(***************************************************************************)
(* The safety of the V2 executor, for every instance of CanaryExecution,   *)
(* in six parts: submissions are bounded; the variables are of their       *)
(* types; a submission in doubt is journalled and not followed by another; *)
(* it keeps the account from V1; what V2 owns has been earned; and without *)
(* a fault no record is left open.                                         *)
(*                                                                         *)
(* The audit table pays for submissions: a day has one to begin with, a    *)
(* recovery of its record buys the next, and a record spends what it has   *)
(* when submit_once is called.  A day is due while its record may still    *)
(* lead to that call without a recovery: before it is prepared, or         *)
(* prepared by a run that is about to submit.                              *)
(***************************************************************************)
EXTENDS CanaryExecution, TLAPS

Fenced == run.pc \in {"fence", "submit"}

Due(d) ==
    IF \/ journal[d].phase \in {"none", "reserved"}
       \/ d = D /\ journal[d].phase = "prepared" /\ Fenced
    THEN 1 ELSE 0

(* The shapes an EXCEPT needs; the stage of a result may be anything. *)
RunShape ==
    /\ run = [pc |-> run.pc, mode |-> run.mode, plan |-> run.plan, bypass |-> run.bypass,
              prepared |-> run.prepared, result |-> run.result]
    /\ run.result = [stage |-> run.result.stage, mutation |-> run.result.mutation]
    /\ run.result.mutation \in BOOLEAN

Shapes ==
    /\ journal \in [Days -> [phase : Phases, proof : Proofs, plan : Plans \cup {0}]]
    /\ audit \in [Days -> 0..2]
    /\ submitted \in [Days -> Nat]
    /\ plan \in Plans
    /\ RunShape

(* A runner that has not submitted yet stands on the record it made. *)
RunnerIsJournalled ==
    /\ run.pc \in {"handoff", "observe", "prepare"} => journal[D].phase = "reserved"
    /\ Fenced => journal[D].phase = "prepared"

Paid == \A d \in Days : submitted[d] + Due(d) <= 1 + audit[d]

Inv == Shapes /\ RunnerIsJournalled /\ Paid

(* The first states of every account have the invariant. *)
LEMMA InitInv == Init => Inv
  <1> SUFFICES ASSUME Init PROVE Inv
      OBVIOUS
  <1>1. PICK a \in Accounts :
            /\ journal = [d \in Days |-> IF d = "today" THEN NoRecord
                             ELSE [NoRecord EXCEPT !.phase = a.phase, !.plan = a.plan]]
            /\ audit = [d \in Days |-> IF d = "today" THEN 0 ELSE 0]
            /\ plan = a.plan /\ run = Idle
            /\ submitted = [d \in Days |-> IF d = "today" THEN 0
                  ELSE IF a.phase \in {"submission_unknown", "succeeded"} THEN 1 ELSE 0]
      BY Zenon DEF Init
  <1>2. /\ a.phase \in {"none", "blocked", "submission_unknown", "succeeded"}
        /\ a.plan \in Plans
      BY CanaryAssumption
  <1>3. Shapes
    <2>1. journal \in [Days -> [phase : Phases, proof : Proofs, plan : Plans \cup {0}]]
        BY <1>1, <1>2 DEF NoRecord, Phases, Proofs, Failed, Undecided, Terminal
    <2>2. audit \in [Days -> 0..2] /\ submitted \in [Days -> Nat]
        BY <1>1
    <2> QED BY <1>1, <1>2, <2>1, <2>2 DEF Shapes, RunShape, Idle, NoResult
  <1>4. RunnerIsJournalled
      BY <1>1 DEF RunnerIsJournalled, Fenced, Idle
  <1>5. Paid
      BY <1>1, <1>2 DEF Paid, Due, Days, NoRecord, Fenced, Idle, D
  <1> QED BY <1>3, <1>4, <1>5 DEF Inv

(* The three ways a step moves the runner. *)
LEMMA GotoShape ==
    ASSUME RunShape, NEW pc, Goto(pc) PROVE RunShape' /\ run'.pc = pc
  BY DEF RunShape, Goto

LEMMA IdleShape == run' = Idle => RunShape' /\ run'.pc = "idle"
  <1> SUFFICES ASSUME run' = Idle PROVE RunShape' /\ run'.pc = "idle"
      OBVIOUS
  <1>1. run'.result = [stage |-> "none", mutation |-> FALSE] /\ run'.pc = "idle"
      BY DEF Idle, NoResult
  <1>2. run' = [pc |-> run'.pc, mode |-> run'.mode, plan |-> run'.plan,
                bypass |-> run'.bypass, prepared |-> run'.prepared, result |-> run'.result]
      BY DEF Idle
  <1> QED BY <1>1, <1>2 DEF RunShape

LEMMA ConcludedShape ==
    ASSUME RunShape, NEW stage, Concluded(stage) PROVE RunShape' /\ run'.pc = "close"
  <1> DEFINE mutated == stage \in {"succeeded", "submission_unknown"}
  <1>1. mutated \in BOOLEAN
      OBVIOUS
  <1>2. run' = [run EXCEPT !.pc = "close", !.result = [stage |-> stage, mutation |-> mutated]]
      BY DEF Concluded
  <1> HIDE DEF mutated
  <1> QED BY <1>1, <1>2 DEF RunShape

(* What leaves the records, the budget and the place of the runner alone   *)
(* keeps the invariant.                                                    *)
LEMMA FrameInv ==
    ASSUME Inv, UNCHANGED <<journal, audit, submitted, run, plan>>
    PROVE  Inv'
  BY DEF Inv, Shapes, RunShape, RunnerIsJournalled, Paid, Due, Fenced

(* So does a step of the runner that touches no record and does not go     *)
(* where one is needed.                                                    *)
LEMMA StepInv ==
    ASSUME Inv, UNCHANGED <<journal, audit, submitted>>, Shapes',
           run'.pc \notin {"handoff", "observe", "prepare", "fence", "submit"}
    PROVE  Inv'
  <1>1. RunnerIsJournalled'
      BY DEF RunnerIsJournalled, Fenced
  <1>2. Paid'
    <2> SUFFICES ASSUME NEW d \in Days PROVE (submitted[d] + Due(d) <= 1 + audit[d])'
        BY DEF Paid
    <2>1. Due(d)' <= Due(d) /\ Due(d)' \in {0, 1} /\ Due(d) \in {0, 1}
        BY DEF Due, Fenced
    <2>2. submitted[d] + Due(d) <= 1 + audit[d]
        BY DEF Inv, Paid
    <2>3. submitted[d] \in Nat /\ audit[d] \in 0..2
        BY DEF Inv, Shapes
    <2> QED BY <2>1, <2>2, <2>3
  <1> QED BY <1>1, <1>2 DEF Inv

(* And a write of today's record by the runner, which spends what is due.  *)
LEMMA RecordInv ==
    ASSUME Inv, NEW to,
           Recordable(journal[D].phase, to, TRUE) \/ Recordable(journal[D].phase, to, FALSE),
           RecordIn(D, to), UNCHANGED <<audit, submitted, plan>>,
           run'.pc \notin {"handoff", "observe", "prepare", "fence", "submit"},
           RunShape'
    PROVE  Inv'
  <1>1. CASE journal[D].phase = to
    <2>1. journal' = journal
        BY <1>1 DEF RecordIn
    <2> QED BY <2>1, StepInv DEF Inv, Shapes
  <1>2. CASE journal[D].phase # to
    <2>1. to \in Terminal \cup Failed \cup {"submission_unknown"}
        BY <1>2 DEF Recordable, Terminal, Failed
    <2>2. journal' = [journal EXCEPT ![D].phase = to, ![D].proof = "none"]
        BY <1>2 DEF RecordIn, Journal
    <2>3. Shapes'
      <3>1. to \in Phases /\ "none" \in Proofs
          BY <2>1 DEF Phases, Proofs, Terminal, Failed, Undecided
      <3>2. journal' \in [Days -> [phase : Phases, proof : Proofs, plan : Plans \cup {0}]]
          BY <2>2, <3>1 DEF Inv, Shapes
      <3> QED BY <3>2 DEF Inv, Shapes
    <2>4. RunnerIsJournalled'
        BY DEF RunnerIsJournalled, Fenced
    <2>5. \A d \in Days : Due(d)' <= Due(d) /\ Due(d)' \in {0, 1} /\ Due(d) \in {0, 1}
        BY <2>1, <2>2 DEF Due, Fenced, Terminal, Failed, Days, D, Inv, Shapes
    <2>6. Paid'
        BY <2>5 DEF Inv, Paid, Shapes
    <2> QED BY <2>3, <2>4, <2>6 DEF Inv
  <1> QED BY <1>1, <1>2

LEMMA NextInv == Inv /\ [Next]_vars => Inv'
  <1> SUFFICES ASSUME Inv, [Next]_vars PROVE Inv'
      OBVIOUS
  <1> USE DEF store, site_vars
  <1>0. ASSUME PlanChange PROVE Inv'
    <2>1. UNCHANGED <<journal, audit, submitted, run>>
        BY <1>0 DEF PlanChange, history
    <2>2. plan' \in Plans
        BY <1>0, CanaryAssumption DEF PlanChange, Inv, Shapes, Plans
    <2> QED BY <2>1, <2>2 DEF Inv, Shapes, RunShape, RunnerIsJournalled, Paid, Due, Fenced
  <1>1. ASSUME SiteMoves \/ PrepareTask \/ ReconcileRow \/ AdoptRow
               \/ AdoptGivesBack \/ ToolPromotes \/ ToolDies
        PROVE  Inv'
      BY <1>1, FrameInv DEF SiteMoves, PrepareTask, ReconcileRow, AdoptRow,
                            AdoptGivesBack, ToolPromotes, ToolDies, history
  <1>2. ASSUME NEW d \in Days, ReadOnly(d) \/ Adopt(d) PROVE Inv'
      BY <1>2, FrameInv DEF ReadOnly, Adopt
  <1>3. ASSUME NEW d \in Days, Recover(d) PROVE Inv'
    <2> DEFINE proof == IF journal[d].phase = "submit_rejected" THEN "rejected" ELSE "other"
    <2>1. /\ journal' = [journal EXCEPT ![d].phase = "reserved", ![d].proof = proof]
          /\ audit[d] < 2 /\ audit' = [audit EXCEPT ![d] = @ + 1]
          /\ submitted' = submitted /\ run' = run /\ plan' = plan
          /\ journal[d].phase \in Failed \cup {"submission_unknown"}
        BY <1>3 DEF Recover, RecoveryLimit, history
    <2>2. proof \in Proofs
        BY DEF Proofs
    <2> HIDE DEF proof
    <2>3. Shapes'
      <3>1. journal' \in [Days -> [phase : Phases, proof : Proofs, plan : Plans \cup {0}]]
          BY <2>1, <2>2 DEF Inv, Shapes, Phases
      <3>2. audit' \in [Days -> 0..2]
          BY <2>1 DEF Inv, Shapes
      <3> QED BY <2>1, <3>1, <3>2 DEF Inv, Shapes, RunShape
    <2>4. RunnerIsJournalled'
        BY <2>1 DEF Inv, Shapes, RunnerIsJournalled, Fenced, Failed, Days, D
    <2>5. \A e \in Days : /\ Due(e) \in {0, 1} /\ Due(e)' \in {0, 1}
                          /\ e = d => Due(e) = 0
                          /\ e # d => Due(e)' = Due(e)
        BY <2>1 DEF Inv, Shapes, Due, Fenced, Failed
    <2>6. Paid'
        BY <2>1, <2>5 DEF Inv, Shapes, Paid
    <2> QED BY <2>3, <2>4, <2>6 DEF Inv
  <1>4. ASSUME NEW d \in Days, NEW phase \in Phases \ {"none", "reserved", "prepared"},
               journal[d].phase \in Phases \ {"none", "reserved", "prepared"},
               Journal(d, phase), UNCHANGED <<audit, submitted, run, plan>>
        PROVE  Inv'
    <2>1. journal' = [journal EXCEPT ![d].phase = phase, ![d].proof = "none"]
        BY <1>4 DEF Journal
    <2>2. Shapes'
      <3>1. "none" \in Proofs
          BY DEF Proofs
      <3>2. journal' \in [Days -> [phase : Phases, proof : Proofs, plan : Plans \cup {0}]]
          BY <2>1, <3>1 DEF Inv, Shapes
      <3> QED BY <1>4, <3>2 DEF Inv, Shapes, RunShape
    <2>3. RunnerIsJournalled'
        BY <1>4, <2>1 DEF Inv, Shapes, RunnerIsJournalled, Fenced, Days, D
    <2>4. \A e \in Days : Due(e)' = Due(e)
        BY <1>4, <2>1 DEF Inv, Shapes, Due, Fenced
    <2>5. Paid'
        BY <1>4, <2>4 DEF Inv, Paid
    <2> QED BY <2>2, <2>3, <2>5 DEF Inv
  <1>5. ASSUME NEW d \in Days, Reconcile(d) PROVE Inv'
      BY <1>4, <1>5 DEF Reconcile, Phases, Terminal, Undecided, history
  <1>6. ASSUME AdoptRecord PROVE Inv'
    <2>1. CASE journal' = journal
        BY <1>6, <2>1, FrameInv DEF AdoptRecord, history
    <2>2. CASE journal' # journal
      <3>1. journal[tool.day].phase = "already_done" /\ Journal(tool.day, "succeeded")
          BY <1>6, <2>2 DEF AdoptRecord
      <3>2. CASE tool.day \in Days
          BY <1>4, <1>6, <3>1, <3>2 DEF AdoptRecord, Phases, Terminal, history
      <3>3. CASE tool.day \notin Days
          BY <2>2, <3>1, <3>3 DEF Journal, Inv, Shapes
      <3> QED BY <3>2, <3>3
    <2> QED BY <2>1, <2>2
  <1>7. ASSUME Reserve PROVE Inv'
    <2>1. /\ run'.pc \in {"handoff", "duplicate"}
          /\ RunShape'
          /\ run'.pc = "handoff" => journal[D].phase \in {"none", "reserved"}
      <3>1. PICK mode \in Modes, pc \in {"handoff", "duplicate"}, bypass \in BOOLEAN :
                /\ run' = [Idle EXCEPT !.mode = mode, !.plan = plan, !.pc = pc,
                                       !.bypass = bypass]
                /\ pc = "handoff" => journal[D].phase \in {"none", "reserved"}
          BY <1>7 DEF Reserve
      <3>2. run'.pc = pc /\ run'.result = [stage |-> "none", mutation |-> FALSE]
          BY <3>1 DEF Idle, NoResult
      <3>3. run' = [pc |-> run'.pc, mode |-> run'.mode, plan |-> run'.plan,
                    bypass |-> run'.bypass, prepared |-> run'.prepared,
                    result |-> run'.result]
          BY <3>1 DEF Idle
      <3>4. RunShape'
          BY <3>2, <3>3 DEF RunShape
      <3> QED BY <3>1, <3>2, <3>4
    <2>2. \/ /\ journal[D].phase = "none"
             /\ journal' = [journal EXCEPT ![D] =
                   [phase |-> "reserved", proof |-> "none", plan |-> plan]]
          \/ journal[D].phase # "none" /\ journal' = journal
        BY <1>7 DEF Reserve
    <2>3. UNCHANGED <<audit, submitted, plan>> /\ run.pc = "idle"
        BY <1>7 DEF Reserve, Here, history
    <2>4. Shapes'
      <3>1. journal' \in [Days -> [phase : Phases, proof : Proofs, plan : Plans \cup {0}]]
          BY <2>2 DEF Inv, Shapes, Phases, Proofs
      <3> QED BY <2>1, <2>3, <3>1 DEF Inv, Shapes
    <2>5. RunnerIsJournalled'
        BY <2>1, <2>2 DEF RunnerIsJournalled, Fenced, Inv, Shapes, D, Days
    <2>6. \A d \in Days : Due(d)' = Due(d)
        BY <2>1, <2>2, <2>3 DEF Due, Fenced, Inv, Shapes
    <2>7. Paid'
        BY <2>3, <2>6 DEF Inv, Paid
    <2> QED BY <2>4, <2>5, <2>7 DEF Inv
  <1>8. ASSUME Duplicate \/ Verify \/ Close \/ Finish \/ Release \/ Promote \/ Crash
        PROVE  Inv'
    <2>1. UNCHANGED <<journal, audit, submitted, plan>>
        BY <1>8 DEF Duplicate, Verify, Close, Finish, Release, Promote, Crash, history
    <2>2. /\ run'.pc \in {"promote", "idle", "close", "catch", "record", "release"}
          /\ RunShape'
      <3>1. CASE Duplicate \/ Promote \/ Crash \/ Release \/ Finish
          BY <3>1, GotoShape, IdleShape
             DEF Duplicate, Promote, Crash, Release, Finish, Inv, Shapes
      <3>2. CASE Verify
          BY <3>2, ConcludedShape DEF Verify, Inv, Shapes
      <3>3. CASE Close
        <4>1. CASE Goto("record")
            BY <4>1, GotoShape DEF Inv, Shapes
        <4>2. CASE run' = [run EXCEPT !.pc = "catch", !.result = NoResult]
            BY <4>2 DEF NoResult, Inv, Shapes, RunShape
        <4> QED BY <3>3, <4>1, <4>2 DEF Close
      <3> QED BY <1>8, <3>1, <3>2, <3>3
    <2> QED BY <2>1, <2>2, StepInv DEF Inv, Shapes
  <1>9. ASSUME Handoff PROVE Inv'
    <2>1. UNCHANGED <<journal, audit, submitted, plan>>
        BY <1>9 DEF Handoff, history
    <2>2. RunShape' /\ run'.pc = "observe" /\ run.pc = "handoff"
        BY <1>9, GotoShape DEF Handoff, Here, Inv, Shapes
    <2> QED BY <2>1, <2>2 DEF Inv, Shapes, RunnerIsJournalled, Paid, Due, Fenced
  <1>10. ASSUME HandoffFails PROVE Inv'
    <2>1. run.pc = "handoff" /\ UNCHANGED <<audit, submitted, plan>> /\ run' = Idle
        BY <1>10 DEF HandoffFails, Here, history
    <2>2. CASE journal' = journal
        BY <2>1, <2>2, IdleShape, StepInv DEF Inv, Shapes
    <2>3. CASE journal' = [journal EXCEPT ![D] = NoRecord]
      <3>1. journal' \in [Days -> [phase : Phases, proof : Proofs, plan : Plans \cup {0}]]
          BY <2>3 DEF Inv, Shapes, NoRecord, Phases, Proofs
      <3>2. Shapes' /\ run'.pc = "idle"
          BY <2>1, <3>1, IdleShape DEF Inv, Shapes
      <3>3. \A d \in Days : Due(d)' = Due(d)
          BY <2>1, <2>3, <3>2 DEF Due, Fenced, NoRecord, RunnerIsJournalled, Inv, Shapes, D
      <3> QED BY <2>1, <3>2, <3>3 DEF Inv, Paid, RunnerIsJournalled, Fenced
    <2> QED BY <1>10, <2>2, <2>3 DEF HandoffFails
  <1>11. ASSUME Observe PROVE Inv'
    <2>1. UNCHANGED <<journal, audit, submitted, plan>> /\ run.pc = "observe"
        BY <1>11 DEF Observe, Here
    <2>2. PICK stage : \/ Goto("catch") \/ Goto("prepare") \/ Concluded(stage)
        BY <1>11 DEF Observe
    <2>3. RunShape' /\ run'.pc \in {"catch", "prepare", "close"}
        BY <2>2, GotoShape, ConcludedShape DEF Inv, Shapes
    <2> QED BY <2>1, <2>3 DEF Inv, Shapes, RunnerIsJournalled, Paid, Due, Fenced
  <1>12. ASSUME Prepare PROVE Inv'
    <2>1. UNCHANGED <<audit, submitted, plan>> /\ run.pc = "prepare"
        BY <1>12 DEF Prepare, Here, history
    <2>2. CASE journal' = journal /\ Goto("catch")
        BY <2>1, <2>2, GotoShape, StepInv DEF Inv, Shapes
    <2>3. CASE /\ journal[D].phase = "reserved" /\ Journal(D, "prepared")
               /\ run' = [run EXCEPT !.pc = "fence", !.prepared = TRUE]
      <3>1. journal' = [journal EXCEPT ![D].phase = "prepared", ![D].proof = "none"]
          BY <2>3 DEF Journal
      <3>2. journal' \in [Days -> [phase : Phases, proof : Proofs, plan : Plans \cup {0}]]
          BY <3>1 DEF Inv, Shapes, Phases, Undecided, Proofs
      <3>3. RunShape' /\ run'.pc = "fence"
          BY <2>3 DEF Inv, Shapes, RunShape
      <3>4. Shapes'
          BY <2>1, <3>2, <3>3 DEF Inv, Shapes
      <3>5. journal'[D].phase = "prepared" /\ \A d \in Days : Due(d)' = Due(d)
          BY <2>1, <2>3, <3>1, <3>3 DEF Due, Fenced, Inv, Shapes, D, Days
      <3> QED BY <2>1, <3>3, <3>4, <3>5 DEF Inv, Paid, RunnerIsJournalled
    <2> QED BY <1>12, <2>2, <2>3 DEF Prepare
  <1>13. ASSUME Fence PROVE Inv'
    <2>1. UNCHANGED <<journal, audit, submitted, plan>> /\ run.pc = "fence"
        BY <1>13 DEF Fence, Here, history
    <2>2. RunShape' /\ run'.pc \in {"submit", "catch"}
        BY <1>13, GotoShape DEF Fence, Inv, Shapes
    <2> QED BY <2>1, <2>2 DEF Inv, Shapes, RunnerIsJournalled, Paid, Due, Fenced
  <1>14. ASSUME Submit PROVE Inv'
    <2>1. /\ UNCHANGED <<journal, audit, plan>> /\ run.pc = "submit"
          /\ submitted' = [submitted EXCEPT ![D] = @ + 1]
        BY <1>14 DEF Submit, Here
    <2>2. PICK stage : Goto("verify") \/ Concluded(stage)
        BY <1>14 DEF Submit
    <2>3. RunShape' /\ run'.pc \in {"verify", "close"}
        BY <2>2, GotoShape, ConcludedShape DEF Inv, Shapes
    <2>4. Shapes' /\ RunnerIsJournalled'
      <3>1. submitted \in [Days -> Nat] /\ D \in Days
          BY DEF Inv, Shapes, D, Days
      <3>2. submitted[D] + 1 \in Nat
          BY <3>1
      <3>3. submitted' \in [Days -> Nat]
          BY <2>1, <3>1, <3>2
      <3> QED BY <2>1, <2>3, <3>3 DEF Inv, Shapes, RunnerIsJournalled, Fenced
    <2>5. \A d \in Days : /\ d = D => Due(d) = 1 /\ Due(d)' = 0
                          /\ d # D => Due(d)' = Due(d)
                          /\ Due(d) \in {0, 1}
        BY <2>1, <2>3 DEF Due, Fenced, Inv, RunnerIsJournalled
    <2>6. Paid'
        BY <2>1, <2>5 DEF Inv, Paid, Shapes
    <2> QED BY <2>4, <2>6 DEF Inv
  <1>15. ASSUME Record PROVE Inv'
    <2>1. UNCHANGED <<audit, submitted, plan>> /\ run.pc = "record"
        BY <1>15 DEF Record, Here, history
    <2>2. run.result.mutation \in BOOLEAN
        BY DEF Inv, Shapes, RunShape
    <2> DEFINE
          lost == run.mode = "active" /\ run.result.stage \in Terminal /\ row # Owned
          phase == IF lost THEN "blocked" ELSE run.result.stage
          pc == IF run.result.mutation THEN "again" ELSE "catch"
    <2>3. \/ /\ Recordable(journal[D].phase, phase, run.result.mutation)
             /\ RecordIn(D, phase)
             /\ run' = [run EXCEPT !.pc = "finish", !.result.stage = phase]
          \/ Goto(pc) /\ journal' = journal
        BY <1>15 DEF Record
    <2>0. pc \in {"again", "catch"}
        OBVIOUS
    <2> HIDE DEF phase, pc
    <2>4. CASE Goto(pc) /\ journal' = journal
        BY <2>0, <2>1, <2>4, GotoShape, StepInv DEF Inv, Shapes
    <2>5. CASE /\ Recordable(journal[D].phase, phase, run.result.mutation)
               /\ RecordIn(D, phase)
               /\ run' = [run EXCEPT !.pc = "finish", !.result.stage = phase]
      <3>1. RunShape' /\ run'.pc = "finish"
          BY <2>5 DEF Inv, Shapes, RunShape
      <3>2. \/ Recordable(journal[D].phase, phase, TRUE)
            \/ Recordable(journal[D].phase, phase, FALSE)
          BY <2>2, <2>5
      <3> QED BY <2>1, <2>5, <3>1, <3>2, RecordInv
    <2> QED BY <2>3, <2>4, <2>5
  <1>16. ASSUME RecordAgain PROVE Inv'
    <2>1. UNCHANGED <<audit, submitted, plan>>
        BY <1>16 DEF RecordAgain, history
    <2>2. RunShape' /\ run'.pc = "finish"
        BY <1>16 DEF RecordAgain, Inv, Shapes, RunShape
    <2>3. CASE journal' = journal
        BY <2>1, <2>2, <2>3, StepInv DEF Inv, Shapes
    <2>4. CASE /\ Recordable(journal[D].phase, "submission_unknown", TRUE)
               /\ RecordIn(D, "submission_unknown")
        BY <2>1, <2>2, <2>4, RecordInv
    <2> QED BY <1>16, <2>3, <2>4 DEF RecordAgain
  <1>17. ASSUME Catch PROVE Inv'
    <2>1. UNCHANGED <<audit, submitted, plan>>
        BY <1>17 DEF Catch, history
    <2>2. RunShape' /\ run'.pc = "release"
        BY <1>17, GotoShape DEF Catch, Inv, Shapes
    <2>3. CASE journal' = journal
        BY <2>1, <2>2, <2>3, StepInv DEF Inv, Shapes
    <2>4. CASE MutationPossible /\ journal' # journal
      <3>1. /\ Recordable(journal[D].phase, "submission_unknown", MutationPossible)
            /\ RecordIn(D, "submission_unknown")
          BY <1>17, <2>4 DEF Catch
      <3>2. \/ Recordable(journal[D].phase, "submission_unknown", TRUE)
            \/ Recordable(journal[D].phase, "submission_unknown", FALSE)
          BY <3>1 DEF Recordable
      <3> QED BY <2>1, <2>2, <3>1, <3>2, RecordInv
    <2>5. CASE ~MutationPossible /\ journal' # journal
      <3>1. Recordable(journal[D].phase, "blocked", MutationPossible) /\ RecordIn(D, "blocked")
          BY <1>17, <2>5 DEF Catch
      <3>2. \/ Recordable(journal[D].phase, "blocked", TRUE)
            \/ Recordable(journal[D].phase, "blocked", FALSE)
          BY <3>1 DEF Recordable
      <3> QED BY <2>1, <2>2, <3>1, <3>2, RecordInv
    <2> QED BY <2>3, <2>4, <2>5
  <1>18. CASE UNCHANGED vars
      BY <1>18, FrameInv DEF vars, history
  <1> QED
      BY <1>0, <1>1, <1>2, <1>3, <1>5, <1>6, <1>7, <1>8, <1>9, <1>10, <1>11, <1>12, <1>13,
         <1>14, <1>15, <1>16, <1>17, <1>18 DEF Next, World, Runner, Scripts

(* For any accounts, plans and faults submit_once is called at most three  *)
(* times for a day, whatever crashes and whatever the scripts recover: the *)
(* first call is free, every other one is a row of                         *)
(* execution_recovery_audit.                                               *)
THEOREM SubmissionsAreBounded == Spec => []SendsAreBounded
  <1>1. Inv => SendsAreBounded
    <2> SUFFICES ASSUME Inv, NEW d \in Days PROVE submitted[d] <= 3
        BY DEF SendsAreBounded
    <2>1. submitted[d] \in Nat /\ audit[d] \in 0..2 /\ Due(d) \in {0, 1}
        BY DEF Inv, Shapes, Due
    <2>2. submitted[d] + Due(d) <= 1 + audit[d]
        BY DEF Inv, Paid
    <2> QED BY <2>1, <2>2
  <1> QED BY InitInv, NextInv, <1>1, PTL DEF Spec

-----------------------------------------------------------------------------
(* What the proofs below use of the adapters: an answer is of its shape, a *)
(* site is never unsigned again, the readers do not see a sign-in that is  *)
(* not there, and the forced login of oauthReward rejects only what has    *)
(* not left.                                                               *)
OfAnswer(o, s) ==
    /\ o.answer \in {"accepted", "rejected", "unknown"}
    /\ o.maybe \in BOOLEAN /\ o.open \in BOOLEAN /\ o.site \in Sites
    /\ s # "unsigned" => o.site # "unsigned"

LEMMA AfterKeeps ==
    ASSUME NEW s \in Sites, NEW t \in After(s)
    PROVE  t \in Sites /\ (s # "unsigned" => t # "unsigned")
  BY DEF After, Sites

LEMMA ClassifiedAnswers ==
    ASSUME NEW s \in Sites, NEW accepted, NEW unknown, NEW o \in Classify(s, accepted, unknown)
    PROVE  OfAnswer(o, s)
  <1>1. PICK a \in Answers(s) :
            o = Outcome(IF a.is \in accepted THEN "accepted"
                        ELSE IF a.is \in unknown THEN "unknown" ELSE "rejected",
                        a.is \in unknown,
                        a.is \in {"silence", "fault", "vague", "success"}, a.site)
      BY DEF Classify
  <1>2. a.site \in Sites /\ (s # "unsigned" => a.site # "unsigned")
      BY AfterKeeps DEF Answers
  <1>3. (a.is \in unknown) \in BOOLEAN /\ (a.is \in {"silence", "fault", "vague", "success"}) \in BOOLEAN
      OBVIOUS
  <1> QED BY <1>1, <1>2, <1>3 DEF Outcome, OfAnswer

LEMMA UnsentAnswers ==
    ASSUME NEW s \in Sites, NEW o \in NotSent(s, {"rejected", "unknown"}) PROVE OfAnswer(o, s)
  <1>1. PICK x \in {"rejected", "unknown"} :
            o = [answer |-> x, maybe |-> FALSE, open |-> FALSE, site |-> s]
      BY DEF NotSent, Outcome
  <1>2. o.answer = x /\ o.maybe = FALSE /\ o.open = FALSE /\ o.site = s
      BY <1>1
  <1> QED BY <1>2 DEF OfAnswer

LEMMA SentAnswers ==
    ASSUME NEW s \in Sites,
           NEW o \in [answer : {"accepted", "unknown"}, maybe : {TRUE}, open : {TRUE}, site : After(s)]
    PROVE  OfAnswer(o, s)
  BY AfterKeeps DEF OfAnswer

LEMMA CaptchaAnswers ==
    ASSUME NEW s \in Sites, NEW o \in ImageCaptcha(s) PROVE OfAnswer(o, s)
  <1> DEFINE Shown == [clicked : {FALSE}, site : {s}]
                      \cup [clicked : {TRUE}, site : After(s) \ {"signed"}]
  <1>1. CASE o \in [answer : {"accepted", "unknown"}, maybe : {TRUE}, open : {TRUE}, site : After(s)]
      BY <1>1, SentAnswers
  <1>2. ASSUME NEW p \in Shown, NEW m \in BOOLEAN,
               o \in [answer : {"rejected", "unknown"}, maybe : {m}, open : {p.clicked}, site : {p.site}]
        PROVE  OfAnswer(o, s)
    <2>1. PICK c \in BOOLEAN, t \in Sites :
              p.clicked = c /\ p.site = t /\ (s # "unsigned" => t # "unsigned")
        BY AfterKeeps
    <2>2. o.answer \in {"rejected", "unknown"} /\ o.maybe = m /\ o.open = c /\ o.site = t
        BY <1>2, <2>1
    <2> QED BY <2>1, <2>2, Zenon DEF OfAnswer
  <1> DEFINE Ends(answers, maybe) ==
        UNION {[answer : answers, maybe : {maybe}, open : {p.clicked}, site : {p.site}] : p \in Shown}
  <1>3. \/ o \in [answer : {"accepted", "unknown"}, maybe : {TRUE}, open : {TRUE}, site : After(s)]
        \/ o \in Ends({"rejected"}, TRUE) \/ o \in Ends({"rejected", "unknown"}, FALSE)
      BY DEF ImageCaptcha
  <1>4. ASSUME NEW answers \in SUBSET {"rejected", "unknown"}, NEW m \in BOOLEAN, o \in Ends(answers, m)
        PROVE  OfAnswer(o, s)
    <2>1. PICK p \in Shown :
              o \in [answer : answers, maybe : {m}, open : {p.clicked}, site : {p.site}]
        BY <1>4
    <2>2. o \in [answer : {"rejected", "unknown"}, maybe : {m}, open : {p.clicked}, site : {p.site}]
        BY <2>1
    <2> QED BY <1>2, <2>2
  <1> HIDE DEF Ends
  <1>5. {"rejected"} \in SUBSET {"rejected", "unknown"}
      OBVIOUS
  <1> QED BY <1>1, <1>3, <1>4, <1>5

LEMMA AnswersAreShaped ==
    ASSUME NEW k \in AllKinds, NEW s \in Sites, NEW o \in Submissions(k, s)
    PROVE  OfAnswer(o, s)
  <1>1. \A x \in SUBSET {"rejected", "unknown"} : \A n \in NotSent(s, x) : OfAnswer(n, s)
      BY UnsentAnswers DEF NotSent
  <1>2. OfAnswer(Outcome("unknown", TRUE, FALSE, s), s)
      BY DEF OfAnswer, Outcome
  <1>3. CASE k \in {"newApi", "anyrouter", "oauthApi", "captcha"}
      BY <1>1, <1>2, <1>3, ClassifiedAnswers
         DEF Submissions, NewApiSubmit, AnyRouterSubmit, OAuthApiSubmit, CaptchaSubmit
  <1>4. CASE k = "oauthReward"
      BY <1>1, <1>4, SentAnswers DEF Submissions, OAuthRewardSubmit, OAuthFlow
  <1>5. CASE k = "pt"
      BY <1>1, <1>5, SentAnswers, CaptchaAnswers DEF Submissions, PtSubmit
  <1>6. CASE k = "vibe"
      BY <1>1, <1>2, <1>6, SentAnswers DEF Submissions, VibeSubmit
  <1> QED BY <1>3, <1>4, <1>5, <1>6 DEF AllKinds

LEMMA RewardRejectsUnsent ==
    ASSUME NEW s \in Sites, NEW o \in Submissions("oauthReward", s), o.open
    PROVE  Conclude(o) # "submit_rejected"
  <1>1. \/ o \in [answer : {"accepted", "unknown"}, maybe : {TRUE}, open : {TRUE}, site : After(s)]
        \/ o = Outcome("unknown", FALSE, FALSE, s)
      BY DEF Submissions, OAuthRewardSubmit, OAuthFlow, NotSent
  <1>2. Outcome("unknown", FALSE, FALSE, s).open = FALSE
      BY DEF Outcome
  <1>3. o.maybe = TRUE /\ o.answer \in {"accepted", "unknown"}
      BY <1>1, <1>2
  <1> QED BY <1>3 DEF Conclude

LEMMA ReadersAreTrue ==
    ASSUME NEW k \in AllKinds, NEW s \in Sites
    PROVE  /\ StatusAnswers(k, s) \subseteq {"unknown", "not_available", "already_done", "not_signed"}
           /\ "already_done" \in StatusAnswers(k, s) => s # "unsigned"
  <1>1. \A v \in Views(s) :
            /\ Reading(k, v) \subseteq {"unknown", "already_done", "not_signed"}
            /\ "already_done" \in Reading(k, v) => s # "unsigned"
    <2> SUFFICES ASSUME NEW v \in Views(s)
                 PROVE  /\ Reading(k, v) \subseteq {"unknown", "already_done", "not_signed"}
                        /\ "already_done" \in Reading(k, v) => s # "unsigned"
        OBVIOUS
    <2>1. s = "unsigned" => ~v.checked /\ ~v.row /\ ~v.log
        BY DEF Views
    <2> QED BY <2>1 DEF Reading, AllKinds, CalendarReading, LogReading, AnyRouterReading,
               OAuthApiReading, PtReading, VibeReading
  <1> QED BY <1>1 DEF StatusAnswers

-----------------------------------------------------------------------------
(* The types of the executor.                                              *)
Pcs == {"idle", "duplicate", "handoff", "observe", "prepare", "fence", "submit", "verify",
        "close", "record", "again", "finish", "catch", "release", "promote"}

(* What each of the three moves of the runner leaves alone. *)
LEMMA GotoFrame ==
    ASSUME run \in Runs, NEW pc \in Pcs, Goto(pc)
    PROVE  /\ run' \in Runs /\ run'.pc = pc
           /\ UNCHANGED <<run.mode, run.plan, run.bypass, run.prepared, run.result>>
  BY DEF Runs, Goto, Pcs

LEMMA IdleFrame ==
    ASSUME run' = Idle
    PROVE  /\ run' \in Runs
           /\ run'.pc = "idle" /\ run'.bypass = FALSE /\ run'.prepared = FALSE
           /\ run'.result = NoResult
  BY CanaryAssumption DEF Runs, Idle, NoResult, Modes, Plans, Phases

LEMMA ConcludedFrame ==
    ASSUME run \in Runs, NEW stage \in Phases, Concluded(stage)
    PROVE  /\ run' \in Runs /\ run'.pc = "close"
           /\ UNCHANGED <<run.mode, run.plan, run.bypass, run.prepared>>
           /\ run'.result.stage = stage
           /\ run'.result.mutation <=> stage \in {"succeeded", "submission_unknown"}
  <1> DEFINE mutated == stage \in {"succeeded", "submission_unknown"}
  <1>1. mutated \in BOOLEAN
      OBVIOUS
  <1>2. run' = [run EXCEPT !.pc = "close", !.result = [stage |-> stage, mutation |-> mutated]]
      BY DEF Concluded
  <1>3. PICK m \in BOOLEAN : m = mutated
      BY <1>1
  <1>4. /\ run' \in Runs /\ run'.pc = "close"
        /\ UNCHANGED <<run.mode, run.plan, run.bypass, run.prepared>>
        /\ run'.result.stage = stage
        /\ run'.result.mutation = m
    <2>1. run' = [run EXCEPT !.pc = "close", !.result = [stage |-> stage, mutation |-> m]]
        BY <1>2, <1>3, Zenon
    <2> QED BY <2>1 DEF Runs
  <1> QED BY <1>3, <1>4, Zenon

LEMMA FinishFrame ==
    ASSUME run \in Runs, NEW phase \in Phases,
           run' = [run EXCEPT !.pc = "finish", !.result.stage = phase]
    PROVE  /\ run' \in Runs /\ run'.pc = "finish"
           /\ UNCHANGED <<run.mode, run.plan, run.bypass, run.prepared, run.result.mutation>>
           /\ run'.result.stage = phase
  BY DEF Runs

(* What the coordinator concludes is a state of the journal. *)
LEMMA ConclusionsAreShaped ==
    ASSUME NEW k \in AllKinds, NEW s \in Sites, NEW o \in Submissions(k, s)
    PROVE  Conclude(o) \in {"verify", "submit_rejected", "submission_unknown"}
  BY AnswersAreShaped DEF OfAnswer, Conclude

LEMMA InitTypes == Init => TypeOK
  <1> SUFFICES ASSUME Init PROVE TypeOK
      OBVIOUS
  <1>1. PICK a \in Accounts :
          LET decided == a.phase \in {"submission_unknown", "succeeded"}
              Left(past, now) == [d \in Days |-> IF d = "today" THEN now ELSE past]
          IN  /\ kind = a.kind /\ plan = a.plan
              /\ site = Left(a.site, "unsigned")
              /\ tasks = Left(IF a.phase = "none" THEN NoTask
                              ELSE [state |-> "candidate", plan |-> a.plan], NoTask)
              /\ journal = Left([NoRecord EXCEPT !.phase = a.phase, !.plan = a.plan], NoRecord)
              /\ row = a.row /\ migration = a.migration
              /\ doubt = Left(decided, FALSE)
              /\ submitted = Left(IF decided THEN 1 ELSE 0, 0)
      BY Zenon DEF Init
  <1>2. /\ audit = [d \in Days |-> IF d = "today" THEN 0 ELSE 0]
        /\ observed = [d \in Days |-> IF d = "today" THEN "none" ELSE "none"]
        /\ misjudged = [d \in Days |-> IF d = "today" THEN FALSE ELSE FALSE]
        /\ run = Idle /\ tool = NoTool /\ faults = 0 /\ adopted = FALSE
      BY Zenon DEF Init
  <1>3. /\ a.kind \in AllKinds /\ a.plan \in Plans /\ a.site \in Sites /\ a.row \in Rows
        /\ a.phase \in {"none", "blocked", "submission_unknown", "succeeded"}
        /\ a.migration \in Modes /\ MaxFaults \in Nat
      BY CanaryAssumption
  <1>4. kind \in AllKinds /\ plan \in Plans /\ row \in Rows /\ migration \in Modes
      BY <1>1, <1>3
  <1>5. site \in [Days -> Sites]
      BY <1>1, <1>3 DEF Sites
  <1>6. tasks \in [Days -> [state : Modes \cup {"none"}, plan : Plans \cup {0}]]
      BY <1>1, <1>3 DEF NoTask, Modes
  <1>7. journal \in [Days -> [phase : Phases, proof : Proofs, plan : Plans \cup {0}]]
      BY <1>1, <1>3 DEF NoRecord, Phases, Proofs, Failed, Undecided, Terminal
  <1>8. doubt \in [Days -> BOOLEAN] /\ submitted \in [Days -> Nat]
    <2>1. CASE a.phase \in {"submission_unknown", "succeeded"}
      <3>1. doubt = [d \in Days |-> IF d = "today" THEN FALSE ELSE TRUE]
          BY <1>1, <2>1, Zenon
      <3> QED BY <1>1, <3>1
    <2>2. CASE ~(a.phase \in {"submission_unknown", "succeeded"})
      <3>1. (a.phase \in {"submission_unknown", "succeeded"}) = FALSE
          BY <2>2
      <3>2. doubt = [d \in Days |-> IF d = "today" THEN FALSE ELSE FALSE]
          BY <1>1, <3>1, Zenon
      <3> QED BY <1>1, <3>2
    <2> QED BY <2>1, <2>2
  <1>9. audit \in [Days -> 0..RecoveryLimit] /\ observed \in [Days -> {"none", "already_done", "not_signed"}]
      BY <1>2 DEF RecoveryLimit
  <1>10. misjudged \in [Days -> BOOLEAN] /\ adopted \in BOOLEAN /\ faults \in 0..MaxFaults
    <2>1. misjudged \in [Days -> BOOLEAN] /\ adopted \in BOOLEAN
        BY <1>2, Zenon
    <2> QED BY <1>2, <1>3, <2>1
  <1>11. run \in Runs /\ tool \in [pc : {"idle", "complete", "adopt", "adoptRow", "giveBack", "promote"},
                                     day : Days]
      BY <1>2, CanaryAssumption DEF Runs, Idle, NoResult, NoTool, Modes, Plans, Phases, Days
  <1> QED BY <1>4, <1>5, <1>6, <1>7, <1>8, <1>9, <1>10, <1>11, Zenon DEF TypeOK

(* Where a reservation leads, and what it tells of the record it found. *)
LEMMA ReserveFrame ==
    ASSUME TypeOK, Reserve
    PROVE  /\ run' \in Runs /\ run'.pc \in {"handoff", "duplicate"}
           /\ run'.prepared = FALSE /\ run'.result = NoResult
           /\ run'.bypass <=> kind = "oauthReward" /\ journal[D].proof = "rejected"
           /\ run'.pc = "handoff" => journal[D].phase \in {"none", "reserved"}
           /\ run'.pc = "duplicate" => journal[D].phase # "none"
  <1> DEFINE old == journal[D]
             approved == old.phase = "reserved" /\ old.proof # "none"
             skip == kind = "oauthReward" /\ old.proof = "rejected"
  <1>1. PICK mode \in Modes, pc \in {"handoff", "duplicate"}, bypass \in BOOLEAN :
            /\ run' = [Idle EXCEPT !.mode = mode, !.plan = plan, !.pc = pc, !.bypass = bypass]
            /\ bypass <=> skip
            /\ pc = "handoff" <=> old.phase = "none" \/ approved
    <2>1. PICK mode \in Modes :
              run' = [Idle EXCEPT !.mode = mode, !.plan = plan,
                       !.pc = IF old.phase = "none" \/ approved THEN "handoff" ELSE "duplicate",
                       !.bypass = skip]
        BY Zenon DEF Reserve
    <2> DEFINE pc == IF old.phase = "none" \/ approved THEN "handoff" ELSE "duplicate"
    <2>2. skip \in BOOLEAN /\ pc \in {"handoff", "duplicate"}
        OBVIOUS
    <2>3. pc = "handoff" <=> old.phase = "none" \/ approved
        OBVIOUS
    <2> QED BY <2>1, <2>2, <2>3, Zenon
  <1> QED BY <1>1 DEF TypeOK, Runs, Idle, NoResult, Phases

(* A write of a record by anybody, and the counter of faults. *)
LEMMA JournalTypes ==
    ASSUME TypeOK, NEW d \in Days, NEW phase \in Phases,
           Journal(d, phase) \/ RecordIn(d, phase)
    PROVE  /\ journal' \in [Days -> [phase : Phases, proof : Proofs, plan : Plans \cup {0}]]
           /\ observed' \in [Days -> {"none", "already_done", "not_signed"}]
           /\ journal'[d].phase = phase
           /\ \A e \in Days \ {d} : journal'[e] = journal[e] /\ observed'[e] = observed[e]
           /\ observed'[d] \in {observed[d], "none"}
  <1>1. /\ journal \in [Days -> [phase : Phases, proof : Proofs, plan : Plans \cup {0}]]
        /\ observed \in [Days -> {"none", "already_done", "not_signed"}]
      BY DEF TypeOK
  <1>2. CASE journal[d].phase = phase /\ UNCHANGED <<journal, observed>>
      BY <1>1, <1>2
  <1>3. CASE Journal(d, phase)
    <2>1. /\ journal' = [journal EXCEPT ![d].phase = phase, ![d].proof = "none"]
          /\ observed' = [observed EXCEPT ![d] = "none"]
        BY <1>3 DEF Journal
    <2>2. journal' \in [Days -> [phase : Phases, proof : Proofs, plan : Plans \cup {0}]]
        BY <1>1, <2>1 DEF Proofs
    <2> QED BY <1>1, <2>1, <2>2
  <1> QED BY <1>2, <1>3 DEF RecordIn

LEMMA FaultTypes == TypeOK /\ (Well \/ Fault) => faults' \in 0..MaxFaults
  BY CanaryAssumption DEF TypeOK, Well, Fault

LEMMA RowTypes ==
    ASSUME TypeOK,
           \/ row' \in {Pending, Owned, Quarantined, NoRow}
           \/ Complete \/ Quarantine \/ TryQuarantine \/ UNCHANGED row
    PROVE  row' \in Rows
  <1>1. row \in Rows
      BY DEF TypeOK
  <1>2. {Pending, Owned, NoRow} \subseteq Rows
    <2>1. TRUE \in BOOLEAN /\ FALSE \in BOOLEAN
        OBVIOUS
    <2> QED BY <2>1 DEF Rows, Pending, Owned, NoRow
  <1>3. Quarantined \in Rows
      BY <1>1 DEF Quarantined, Rows
  <1> QED BY <1>1, <1>2, <1>3, Zenon DEF Complete, Quarantine, TryQuarantine

(* What the step that records an outcome does. *)
LEMMA RecordSteps ==
    ASSUME TypeOK, Record
    PROVE  \E phase \in Phases :
             LET r == run.result
                 lost == run.mode = "active" /\ r.stage \in Terminal /\ row # Owned
             IN  /\ phase = r.stage \/ (phase = "blocked" /\ lost)
                 /\ \/ /\ Recordable(journal[D].phase, phase, r.mutation) /\ RecordIn(D, phase)
                       /\ run' = [run EXCEPT !.pc = "finish", !.result.stage = phase]
                    \/ /\ (r.mutation /\ Goto("again")) \/ (~r.mutation /\ Goto("catch"))
                       /\ UNCHANGED <<journal, observed>>
  <1> DEFINE lost == run.mode = "active" /\ run.result.stage \in Terminal /\ row # Owned
             phase == IF lost THEN "blocked" ELSE run.result.stage
  <1>1. phase \in Phases /\ (phase = run.result.stage \/ (phase = "blocked" /\ lost))
      BY DEF TypeOK, Runs, Phases, Failed
  <1>2. \/ /\ Recordable(journal[D].phase, phase, run.result.mutation) /\ RecordIn(D, phase)
           /\ run' = [run EXCEPT !.pc = "finish", !.result.stage = phase]
        \/ /\ Goto(IF run.result.mutation THEN "again" ELSE "catch")
           /\ UNCHANGED <<journal, observed>>
      BY DEF Record
  <1>3. Goto(IF run.result.mutation THEN "again" ELSE "catch") =>
            (run.result.mutation /\ Goto("again")) \/ (~run.result.mutation /\ Goto("catch"))
      BY Zenon DEF Goto
  <1> HIDE DEF phase
  <1> QED BY <1>1, <1>2, <1>3, Zenon

LEMMA NextTypes == TypeOK /\ [Next]_vars => TypeOK'
  <1> SUFFICES ASSUME TypeOK, [Next]_vars PROVE TypeOK'
      OBVIOUS
  <1> USE DEF store, site_vars, history
  <1>1. ASSUME PlanChange PROVE TypeOK'
      BY <1>1, CanaryAssumption DEF PlanChange, TypeOK, Plans
  <1>2. ASSUME SiteMoves PROVE TypeOK'
      BY <1>2 DEF SiteMoves, TypeOK, Sites
  <1>3. ASSUME PrepareTask PROVE TypeOK'
      BY <1>3 DEF PrepareTask, TypeOK
  <1>4. ASSUME NEW d \in Days, ReadOnly(d) PROVE TypeOK'
      BY <1>4 DEF ReadOnly, TypeOK
  <1>5. ASSUME NEW d \in Days, Recover(d) PROVE TypeOK'
    <2>0. /\ journal \in [Days -> [phase : Phases, proof : Proofs, plan : Plans \cup {0}]]
          /\ observed \in [Days -> {"none", "already_done", "not_signed"}]
          /\ audit \in [Days -> 0..RecoveryLimit]
        BY DEF TypeOK
    <2> DEFINE proof == IF journal[d].phase = "submit_rejected" THEN "rejected" ELSE "other"
    <2>1. /\ journal' = [journal EXCEPT ![d].phase = "reserved", ![d].proof = proof]
          /\ audit[d] < RecoveryLimit /\ audit' = [audit EXCEPT ![d] = @ + 1]
          /\ observed' = [observed EXCEPT ![d] = "none"]
          /\ UNCHANGED <<site_vars, tasks, row, migration, run, tool, faults, history>>
        BY <1>5 DEF Recover
    <2>2. proof \in Proofs /\ "reserved" \in Phases
        BY DEF Proofs, Phases
    <2> HIDE DEF proof
    <2>3. journal' \in [Days -> [phase : Phases, proof : Proofs, plan : Plans \cup {0}]]
        BY <2>0, <2>1, <2>2
    <2>4. audit' \in [Days -> 0..RecoveryLimit]
        BY <2>0, <2>1 DEF RecoveryLimit
    <2>5. observed' \in [Days -> {"none", "already_done", "not_signed"}]
        BY <2>0, <2>1
    <2> QED BY <2>1, <2>3, <2>4, <2>5 DEF TypeOK
  <1>6. ASSUME NEW d \in Days, Reconcile(d) PROVE TypeOK'
      BY <1>6, JournalTypes DEF Reconcile, TypeOK, Phases, Terminal
  <1>7. ASSUME NEW d \in Days, Adopt(d) PROVE TypeOK'
      BY <1>7, RowTypes DEF Adopt, TypeOK
  <1>8. ASSUME ReconcileRow \/ AdoptRow \/ AdoptGivesBack \/ ToolPromotes \/ ToolDies PROVE TypeOK'
      BY <1>8, RowTypes, FaultTypes
         DEF ReconcileRow, AdoptRow, AdoptGivesBack, ToolPromotes, ToolDies, TypeOK, NoTool, Days, Modes
  <1>9. ASSUME AdoptRecord PROVE TypeOK'
      BY <1>9, JournalTypes DEF AdoptRecord, TypeOK, Phases, Terminal
  <1>10. ASSUME Reserve PROVE TypeOK'
    <2>0. /\ journal \in [Days -> [phase : Phases, proof : Proofs, plan : Plans \cup {0}]]
          /\ observed \in [Days -> {"none", "already_done", "not_signed"}]
          /\ audit \in [Days -> 0..RecoveryLimit]
        BY DEF TypeOK
    <2>1. run' \in Runs
        BY <1>10, ReserveFrame DEF TypeOK
    <2>2. /\ journal' \in [Days -> [phase : Phases, proof : Proofs, plan : Plans \cup {0}]]
          /\ observed' \in [Days -> {"none", "already_done", "not_signed"}]
      <3>1. [phase |-> "reserved", proof |-> "none", plan |-> plan]
                \in [phase : Phases, proof : Proofs, plan : Plans \cup {0}]
          BY DEF Phases, Proofs, TypeOK
      <3> QED BY <1>10, <2>0, <3>1 DEF Reserve
    <2>3. UNCHANGED <<site_vars, tasks, audit, row, migration, tool, faults, history>>
        BY <1>10 DEF Reserve
    <2> QED BY <2>1, <2>2, <2>3 DEF TypeOK
  <1>11. ASSUME Duplicate \/ Finish \/ Release PROVE TypeOK'
    <2>1. row' \in Rows
        BY <1>11, RowTypes DEF Duplicate, Finish, Release
    <2>2. faults' \in 0..MaxFaults
        BY <1>11, FaultTypes DEF Duplicate, Finish, Release, TryQuarantine
    <2>3. run' \in Runs
        BY <1>11, GotoFrame, IdleFrame DEF Duplicate, Finish, Release, TypeOK, Pcs
    <2>4. UNCHANGED <<site_vars, tasks, journal, audit, migration, observed, tool, history>>
        BY <1>11 DEF Duplicate, Finish, Release
    <2> QED BY <2>1, <2>2, <2>3, <2>4 DEF TypeOK
  <1>12. ASSUME Handoff \/ Fence PROVE TypeOK'
      BY <1>12, RowTypes, FaultTypes, GotoFrame DEF Handoff, Fence, TypeOK, Pcs
  <1>13. ASSUME HandoffFails PROVE TypeOK'
    <2>0. /\ journal \in [Days -> [phase : Phases, proof : Proofs, plan : Plans \cup {0}]]
          /\ observed \in [Days -> {"none", "already_done", "not_signed"}]
          /\ audit \in [Days -> 0..RecoveryLimit]
        BY DEF TypeOK
    <2>1. faults' \in 0..MaxFaults /\ run' \in Runs
        BY <1>13, FaultTypes, IdleFrame DEF HandoffFails
    <2>2. /\ journal' \in [Days -> [phase : Phases, proof : Proofs, plan : Plans \cup {0}]]
          /\ observed' \in [Days -> {"none", "already_done", "not_signed"}]
      <3>1. NoRecord \in [phase : Phases, proof : Proofs, plan : Plans \cup {0}]
          BY DEF NoRecord, Phases, Proofs
      <3> QED BY <1>13, <2>0, <3>1 DEF HandoffFails
    <2>3. UNCHANGED <<site_vars, tasks, audit, row, migration, tool, history>>
        BY <1>13 DEF HandoffFails
    <2> QED BY <2>1, <2>2, <2>3 DEF TypeOK
  <1>14. ASSUME Observe PROVE TypeOK'
    <2>1. PICK stage \in Phases : Goto("catch") \/ Goto("prepare") \/ Concluded(stage)
        BY <1>14, ReadersAreTrue DEF Observe, TypeOK, Phases, Terminal, Failed, Days, D
    <2>2. run' \in Runs
        BY <2>1, GotoFrame, ConcludedFrame DEF TypeOK, Pcs
    <2>3. doubt' \in [Days -> BOOLEAN] /\ misjudged' \in [Days -> BOOLEAN]
      <3>1. CASE UNCHANGED <<doubt, misjudged>>
          BY <3>1 DEF TypeOK
      <3>2. ASSUME NEW says,
                   doubt' = [doubt EXCEPT ![D] = @ /\ says # "not_signed"],
                   misjudged' = [misjudged EXCEPT ![D] = @ /\ says # "not_signed"]
            PROVE  doubt' \in [Days -> BOOLEAN] /\ misjudged' \in [Days -> BOOLEAN]
          BY <3>2 DEF TypeOK
      <3> QED BY <1>14, <3>1, <3>2 DEF Observe
    <2>4. UNCHANGED <<site_vars, store, tool, faults, submitted, adopted>>
        BY <1>14 DEF Observe
    <2> QED BY <2>2, <2>3, <2>4 DEF TypeOK
  <1>15. ASSUME Prepare PROVE TypeOK'
    <2>1. faults' \in 0..MaxFaults
        BY <1>15, FaultTypes DEF Prepare
    <2>2. /\ journal' \in [Days -> [phase : Phases, proof : Proofs, plan : Plans \cup {0}]]
          /\ observed' \in [Days -> {"none", "already_done", "not_signed"}]
      <3>1. D \in Days /\ "prepared" \in Phases
          BY DEF D, Days, Phases, Undecided
      <3>2. Journal(D, "prepared") \/ UNCHANGED <<journal, observed>>
          BY <1>15 DEF Prepare
      <3> QED BY <3>1, <3>2, JournalTypes DEF TypeOK
    <2>3. run' \in Runs
      <3>1. run' = [run EXCEPT !.pc = "fence", !.prepared = TRUE] \/ Goto("catch")
          BY <1>15 DEF Prepare
      <3>2. run \in Runs /\ "catch" \in Pcs /\ "fence" \in Pcs
          BY DEF TypeOK, Pcs
      <3>3. [run EXCEPT !.pc = "fence", !.prepared = TRUE] \in Runs
          BY <3>2 DEF Runs
      <3> QED BY <3>1, <3>2, <3>3, GotoFrame
    <2>4. UNCHANGED <<site_vars, tasks, audit, row, migration, tool, history>>
        BY <1>15 DEF Prepare
    <2> QED BY <2>1, <2>2, <2>3, <2>4 DEF TypeOK
  <1>16. ASSUME Submit PROVE TypeOK'
      BY <1>16, GotoFrame, ConcludedFrame, ConclusionsAreShaped, AnswersAreShaped
         DEF Submit, TypeOK, OfAnswer, Pcs, Phases, Undecided, Failed, Days, D
  <1>17. ASSUME Verify \/ Promote \/ Crash PROVE TypeOK'
      BY <1>17, FaultTypes, IdleFrame, ConcludedFrame
         DEF Verify, Promote, Crash, TypeOK, Phases, Undecided, Terminal, Modes
  <1>18. ASSUME Close PROVE TypeOK'
    <2>1. UNCHANGED <<site_vars, store, tool, faults, history>>
        BY <1>18 DEF Close
    <2>2. CASE run' = [run EXCEPT !.pc = "catch", !.result = NoResult]
      <3>1. NoResult \in [stage : Phases, mutation : BOOLEAN]
          BY DEF NoResult, Phases
      <3>2. run' \in Runs
          BY <2>2, <3>1 DEF TypeOK, Runs
      <3> QED BY <2>1, <3>2 DEF TypeOK
    <2> QED BY <1>18, <2>1, <2>2, GotoFrame DEF Close, TypeOK, Pcs
  <1>19. ASSUME Record PROVE TypeOK'
    <2>1. faults' \in 0..MaxFaults
        BY <1>19, FaultTypes DEF Record
    <2>2. PICK phase \in Phases :
              \/ /\ RecordIn(D, phase)
                 /\ run' = [run EXCEPT !.pc = "finish", !.result.stage = phase]
              \/ /\ Goto("again") \/ Goto("catch")
                 /\ UNCHANGED <<journal, observed>>
        BY <1>19, RecordSteps
    <2>3. /\ journal' \in [Days -> [phase : Phases, proof : Proofs, plan : Plans \cup {0}]]
          /\ observed' \in [Days -> {"none", "already_done", "not_signed"}]
        BY <2>2, JournalTypes DEF TypeOK, Days, D
    <2>4. run' \in Runs
        BY <2>2, GotoFrame, FinishFrame DEF TypeOK, Pcs
    <2>5. UNCHANGED <<site_vars, tasks, audit, row, migration, tool, history>>
        BY <1>19 DEF Record
    <2> QED BY <2>1, <2>3, <2>4, <2>5 DEF TypeOK
  <1>20. ASSUME RecordAgain \/ Catch PROVE TypeOK'
    <2>1. faults' \in 0..MaxFaults
        BY <1>20, FaultTypes DEF RecordAgain, Catch
    <2>2. \E phase \in {"submission_unknown", "blocked"} :
              RecordIn(D, phase) \/ UNCHANGED <<journal, observed>>
        BY <1>20 DEF RecordAgain, Catch
    <2>3. /\ journal' \in [Days -> [phase : Phases, proof : Proofs, plan : Plans \cup {0}]]
          /\ observed' \in [Days -> {"none", "already_done", "not_signed"}]
        BY <2>2, JournalTypes DEF TypeOK, Phases, Failed, Undecided, Days, D
    <2>4. run' \in Runs
      <3>1. "submission_unknown" \in Phases /\ "release" \in Pcs /\ run \in Runs
          BY DEF Phases, Undecided, Pcs, TypeOK
      <3> QED BY <1>20, <3>1, GotoFrame, FinishFrame DEF RecordAgain, Catch
    <2>5. UNCHANGED <<site_vars, tasks, audit, row, migration, tool, history>>
        BY <1>20 DEF RecordAgain, Catch
    <2> QED BY <2>1, <2>3, <2>4, <2>5 DEF TypeOK
  <1>21. CASE UNCHANGED vars
      BY <1>21 DEF vars, TypeOK
  <1> QED
      BY <1>1, <1>2, <1>3, <1>4, <1>5, <1>6, <1>7, <1>8, <1>9, <1>10, <1>11, <1>12, <1>13,
         <1>14, <1>15, <1>16, <1>17, <1>18, <1>19, <1>20, <1>21 DEF Next, World, Runner, Scripts

(* Every variable of the executor keeps its type, its adapters included.   *)
THEOREM ExecutorIsTyped == Spec => []TypeOK
  BY InitTypes, NextTypes, PTL DEF Spec

-----------------------------------------------------------------------------
(* A submission in doubt stays journalled.  What is in doubt was sent by a *)
(* run that stood on a prepared record: until that run has recorded its    *)
(* outcome it knows, by its result or by its prepared intent, that a       *)
(* mutation may have happened; and a run that goes on to submit has either *)
(* read that the day is not signed or rests on a rejection of an adapter   *)
(* that denies nothing it has sent.                                        *)
InDoubt == doubt[D] /\ ~misjudged[D]

DenialsAreFresh ==
    /\ \A d \in Days : observed[d] = "not_signed" => ~doubt[d]
    /\ Fenced => observed[D] = "none"

SendsUndoubted ==
    /\ run.pc \in {"prepare", "fence", "submit"} => ~doubt[D]
    /\ run.bypass => kind = "oauthReward"
    /\ kind = "oauthReward" => \A d \in Days : ~misjudged[d]

RunnerRemembers ==
    /\ run.pc \in {"fence", "submit", "verify"} => run.prepared
    /\ InDoubt =>
          /\ run.pc = "close" => run.prepared
          /\ run.pc \in {"close", "record", "again", "finish"} => run.result.mutation
          /\ run.pc \in {"catch", "release"} => MutationPossible

DoubtInv == DoubtIsJournalled /\ DenialsAreFresh /\ SendsUndoubted /\ RunnerRemembers

LEMMA InitDoubt == Init => DoubtInv
  <1> SUFFICES ASSUME Init PROVE DoubtInv
      OBVIOUS
  <1>1. PICK a \in Accounts :
            /\ journal = [d \in Days |-> IF d = "today" THEN NoRecord
                             ELSE [NoRecord EXCEPT !.phase = a.phase, !.plan = a.plan]]
            /\ doubt = [d \in Days |-> IF d = "today" THEN FALSE
                           ELSE a.phase \in {"submission_unknown", "succeeded"}]
      BY Zenon DEF Init
  <1>2. /\ observed = [d \in Days |-> IF d = "today" THEN "none" ELSE "none"]
        /\ misjudged = [d \in Days |-> IF d = "today" THEN FALSE ELSE FALSE]
        /\ run = Idle
      BY Zenon DEF Init
  <1>3. \A d \in Days : /\ observed[d] = "none" /\ ~misjudged[d]
                        /\ doubt[d] => d # D /\ a.phase \in {"submission_unknown", "succeeded"}
      BY <1>1, <1>2, Zenon DEF D
  <1>4. \A d \in Days : d # D => journal[d].phase = a.phase
      BY <1>1 DEF D, NoRecord
  <1>5. run.pc = "idle" /\ run.bypass = FALSE
      BY <1>2 DEF Idle
  <1>6. D \in Days
      BY DEF D, Days
  <1>7. DoubtIsJournalled
      BY <1>3, <1>4 DEF DoubtIsJournalled, Undecided
  <1>8. DenialsAreFresh /\ SendsUndoubted
      BY <1>3, <1>5, <1>6 DEF DenialsAreFresh, SendsUndoubted, Fenced
  <1>9. RunnerRemembers
      BY <1>3, <1>5, <1>6 DEF RunnerRemembers, InDoubt
  <1> QED BY <1>7, <1>8, <1>9 DEF DoubtInv

LEMMA DoubtFrame ==
    ASSUME DoubtInv, UNCHANGED <<kind, journal, observed, run, doubt, misjudged>>
    PROVE  DoubtInv'
  BY DEF DoubtInv, DoubtIsJournalled, DenialsAreFresh, SendsUndoubted, RunnerRemembers,
         InDoubt, Fenced, MutationPossible

(* A record that is in doubt is moved to one that says so, if at all.      *)
LEMMA RecordDoubt ==
    ASSUME TypeOK, DoubtInv, NEW d \in Days, NEW phase \in Phases,
           Journal(d, phase) \/ RecordIn(d, phase) \/ UNCHANGED <<journal, observed>>,
           UNCHANGED <<doubt, misjudged>>,
           doubt[d] => misjudged[d] \/ phase \in Undecided \cup {"succeeded"}
    PROVE  DoubtIsJournalled' /\ \A e \in Days : observed'[e] = "not_signed" => ~doubt'[e]
  <1>1. \/ /\ journal'[d].phase = phase
           /\ \A e \in Days \ {d} : journal'[e] = journal[e] /\ observed'[e] = observed[e]
           /\ observed'[d] \in {observed[d], "none"}
        \/ UNCHANGED <<journal, observed>>
      BY JournalTypes
  <1> QED BY <1>1 DEF DoubtInv, DoubtIsJournalled, DenialsAreFresh

(* A runner outside these states has nothing to remember. *)
LEMMA ElsewhereRemembers ==
    ASSUME run'.pc \in {"idle", "handoff", "duplicate", "observe", "promote"}
    PROVE  RunnerRemembers' /\ ~Fenced' /\ (run'.pc \notin {"prepare", "fence", "submit"})
  BY DEF RunnerRemembers, Fenced

LEMMA NextDoubt == Inv /\ TypeOK /\ DoubtInv /\ [Next]_vars => DoubtInv'
  <1> SUFFICES ASSUME Inv, TypeOK, DoubtInv, [Next]_vars PROVE DoubtInv'
      OBVIOUS
  <1> USE DEF store, site_vars, history
  <1>0. /\ run \in Runs /\ D \in Days
        /\ DoubtIsJournalled /\ DenialsAreFresh /\ SendsUndoubted /\ RunnerRemembers
        /\ InDoubt => journal[D].phase \in Undecided \cup {"succeeded"}
      BY DEF TypeOK, D, Days, DoubtInv, DoubtIsJournalled, InDoubt
  <1>1. ASSUME PlanChange \/ SiteMoves \/ PrepareTask \/ ReconcileRow \/ AdoptRow
               \/ AdoptGivesBack \/ ToolPromotes \/ ToolDies \/ UNCHANGED vars
        PROVE  DoubtInv'
      BY <1>1, DoubtFrame DEF PlanChange, SiteMoves, PrepareTask, ReconcileRow, AdoptRow,
                              AdoptGivesBack, ToolPromotes, ToolDies, vars
  <1>2. ASSUME NEW d \in Days, Adopt(d) PROVE DoubtInv'
      BY <1>2, DoubtFrame DEF Adopt
  <1>3. ASSUME NEW d \in Days, ReadOnly(d) PROVE DoubtInv'
    <2>1. PICK says \in {"unknown", "not_available", "already_done", "not_signed"} :
            /\ observed' = [observed EXCEPT ![d] =
                  IF says \in {"already_done", "not_signed"} THEN says ELSE "none"]
            /\ doubt' = [doubt EXCEPT ![d] = @ /\ says # "not_signed"]
            /\ misjudged' = [misjudged EXCEPT ![d] = @ /\ says # "not_signed"]
        BY <1>3, ReadersAreTrue DEF ReadOnly, TypeOK
    <2>2. UNCHANGED <<kind, journal, run>>
          /\ run.pc \notin {"prepare", "fence", "submit", "verify", "close"}
        BY <1>3 DEF ReadOnly, BrowserOpen
    <2>3. \A e \in Days : /\ doubt'[e] => doubt[e] /\ (e = d => says # "not_signed")
                          /\ misjudged'[e] => misjudged[e]
                          /\ misjudged[e] => misjudged'[e] \/ ~doubt'[e]
                          /\ e # d => observed'[e] = observed[e]
                          /\ e = d /\ says # "not_signed" => observed'[e] # "not_signed"
        BY <2>1 DEF TypeOK
    <2>4. DoubtIsJournalled' /\ DenialsAreFresh' /\ SendsUndoubted'
        BY <1>0, <2>2, <2>3 DEF DoubtIsJournalled, DenialsAreFresh, SendsUndoubted, Fenced
    <2>5. RunnerRemembers'
        BY <1>0, <2>2, <2>3 DEF RunnerRemembers, InDoubt, MutationPossible
    <2> QED BY <2>4, <2>5 DEF DoubtInv
  <1>4. ASSUME NEW d \in Days, Recover(d) PROVE DoubtInv'
    <2>1. /\ journal' = [journal EXCEPT ![d].phase = "reserved", ![d].proof =
                 IF journal[d].phase = "submit_rejected" THEN "rejected" ELSE "other"]
          /\ observed' = [observed EXCEPT ![d] = "none"]
          /\ UNCHANGED <<kind, run, doubt, misjudged>>
          /\ \/ journal[d].phase \in Failed
             \/ journal[d].phase = "submission_unknown" /\ observed[d] = "not_signed"
        BY <1>4 DEF Recover
    <2>2. doubt[d] => misjudged[d]
        BY <1>0, <2>1 DEF DoubtIsJournalled, DenialsAreFresh, Failed, Undecided
    <2>3. \A e \in Days : /\ e # d => journal'[e] = journal[e]
                          /\ observed'[e] \in {observed[e], "none"}
        BY <2>1 DEF TypeOK
    <2>4. DoubtIsJournalled' /\ DenialsAreFresh'
        BY <1>0, <2>1, <2>2, <2>3 DEF DoubtIsJournalled, DenialsAreFresh, Fenced
    <2>5. SendsUndoubted' /\ RunnerRemembers'
        BY <1>0, <2>1 DEF SendsUndoubted, RunnerRemembers, InDoubt, MutationPossible
    <2> QED BY <2>4, <2>5 DEF DoubtInv
  <1>5. ASSUME NEW d \in Days, NEW phase \in Phases, UNCHANGED <<kind, run, doubt, misjudged>>,
               phase = "succeeded", Journal(d, phase)
        PROVE  DoubtInv'
    <2>1. DoubtIsJournalled' /\ \A e \in Days : observed'[e] = "not_signed" => ~doubt'[e]
        BY <1>5, RecordDoubt
    <2>2. Fenced' => observed'[D] = "none"
        BY <1>0, <1>5, JournalTypes DEF DenialsAreFresh, Fenced
    <2>3. SendsUndoubted' /\ RunnerRemembers'
        BY <1>0, <1>5 DEF SendsUndoubted, RunnerRemembers, InDoubt, MutationPossible
    <2> QED BY <2>1, <2>2, <2>3 DEF DoubtInv, DenialsAreFresh
  <1>6. ASSUME NEW d \in Days, Reconcile(d) PROVE DoubtInv'
      BY <1>5, <1>6 DEF Reconcile, Phases, Terminal
  <1>7. ASSUME AdoptRecord PROVE DoubtInv'
    <2>1. tool.day \in Days
        BY DEF TypeOK
    <2>2. CASE UNCHANGED <<journal, observed>>
        BY <1>7, <2>2, DoubtFrame DEF AdoptRecord
    <2>3. CASE Journal(tool.day, "succeeded")
        BY <1>5, <1>7, <2>1, <2>3 DEF AdoptRecord, Phases, Terminal
    <2> QED BY <1>7, <2>2, <2>3 DEF AdoptRecord
  <1>8. ASSUME UNCHANGED <<kind, journal, observed, doubt, misjudged>>,
               run'.bypass => run.bypass,
               run'.pc \in {"idle", "handoff", "duplicate", "observe", "promote"}
        PROVE  DoubtInv'
    <2>1. DoubtIsJournalled' /\ DenialsAreFresh' /\ SendsUndoubted' /\ RunnerRemembers'
        BY <1>0, <1>8, ElsewhereRemembers DEF DoubtIsJournalled, DenialsAreFresh, SendsUndoubted
    <2> QED BY <2>1 DEF DoubtInv
  <1>9. ASSUME Duplicate \/ Handoff \/ Promote \/ Crash PROVE DoubtInv'
    <2>1. CASE run' = Idle
        BY <1>8, <1>9, <2>1, IdleFrame DEF Duplicate, Handoff, Promote, Crash
    <2>2. CASE Goto("promote") \/ Goto("observe")
        BY <1>0, <1>8, <1>9, <2>2, GotoFrame DEF Duplicate, Handoff, Promote, Crash, Pcs
    <2> QED BY <1>9, <2>1, <2>2 DEF Duplicate, Handoff, Promote, Crash
  <1>10. ASSUME Reserve PROVE DoubtInv'
    <2>1. /\ run'.pc \in {"handoff", "duplicate"}
          /\ run'.bypass => kind = "oauthReward"
        BY <1>10, ReserveFrame
    <2>2. /\ UNCHANGED <<kind, doubt, misjudged>>
          /\ \/ UNCHANGED <<journal, observed>>
             \/ /\ journal[D].phase = "none"
                /\ journal' = [journal EXCEPT ![D] =
                       [phase |-> "reserved", proof |-> "none", plan |-> plan]]
                /\ observed' = [observed EXCEPT ![D] = "none"]
        BY <1>10 DEF Reserve
    <2>3. doubt[D] => misjudged[D] \/ journal[D].phase # "none"
        BY <1>0 DEF DoubtIsJournalled, Undecided
    <2>4. \A e \in Days : /\ e # D => journal'[e] = journal[e]
                          /\ observed'[e] \in {observed[e], "none"}
        BY <2>2 DEF TypeOK
    <2>5. DoubtIsJournalled' /\ DenialsAreFresh'
        BY <1>0, <2>1, <2>2, <2>3, <2>4 DEF DoubtIsJournalled, DenialsAreFresh, Fenced
    <2>6. SendsUndoubted' /\ RunnerRemembers'
        BY <1>0, <2>1, <2>2, ElsewhereRemembers DEF SendsUndoubted
    <2> QED BY <2>5, <2>6 DEF DoubtInv
  <1>11. run.pc \in {"handoff", "observe", "prepare"} => (doubt[D] => misjudged[D])
      BY <1>0 DEF Inv, RunnerIsJournalled, DoubtIsJournalled, Undecided
  <1>12. ASSUME HandoffFails PROVE DoubtInv'
    <2>1. /\ UNCHANGED <<kind, doubt, misjudged>> /\ run.pc = "handoff" /\ run' = Idle
          /\ \/ UNCHANGED <<journal, observed>>
             \/ /\ journal' = [journal EXCEPT ![D] = NoRecord]
                /\ observed' = [observed EXCEPT ![D] = "none"]
        BY <1>12 DEF HandoffFails, Here
    <2>2. \A e \in Days : /\ e # D => journal'[e] = journal[e]
                          /\ observed'[e] \in {observed[e], "none"}
        BY <2>1 DEF TypeOK
    <2>3. run'.pc = "idle" /\ ~run'.bypass
        BY <2>1, IdleFrame
    <2>4. DoubtIsJournalled' /\ DenialsAreFresh'
        BY <1>0, <1>11, <2>1, <2>2, <2>3 DEF DoubtIsJournalled, DenialsAreFresh, Fenced
    <2>5. SendsUndoubted' /\ RunnerRemembers'
        BY <1>0, <2>1, <2>3, ElsewhereRemembers DEF SendsUndoubted
    <2> QED BY <2>4, <2>5 DEF DoubtInv
  <1>13. ASSUME Observe PROVE DoubtInv'
    <2>1. UNCHANGED <<kind, journal, observed>> /\ run.pc = "observe"
        BY <1>13 DEF Observe, Here
    <2>2. ~run.bypass \/ ~doubt[D]
        BY <1>0, <1>11, <2>1 DEF SendsUndoubted
    <2>3. /\ run'.bypass = run.bypass /\ run'.pc \in {"catch", "close", "prepare"}
          /\ \A e \in Days : /\ doubt'[e] => doubt[e]
                             /\ misjudged'[e] => misjudged[e]
                             /\ misjudged[e] => misjudged'[e] \/ ~doubt'[e]
          /\ run'.pc = "prepare" => ~doubt'[D]
      <3>1. CASE UNCHANGED <<doubt, misjudged>> /\ (Goto("catch") \/ Concluded("blocked"))
          BY <1>0, <3>1, GotoFrame, ConcludedFrame DEF Pcs, Phases, Failed
      <3>2. CASE UNCHANGED <<doubt, misjudged>> /\ run.bypass /\ Goto("prepare")
          BY <1>0, <2>2, <3>2, GotoFrame DEF Pcs
      <3>3. ASSUME NEW says \in StatusAnswers(kind, site[D]),
                   /\ CASE says = "not_signed" -> Goto("prepare")
                        [] says = "unknown" -> Concluded("blocked")
                        [] OTHER -> Concluded(says)
                   /\ doubt' = [doubt EXCEPT ![D] = @ /\ says # "not_signed"]
                   /\ misjudged' = [misjudged EXCEPT ![D] = @ /\ says # "not_signed"]
            PROVE  /\ run'.bypass = run.bypass /\ run'.pc \in {"catch", "close", "prepare"}
                   /\ \A e \in Days : /\ doubt'[e] => doubt[e]
                                      /\ misjudged'[e] => misjudged[e]
                                      /\ misjudged[e] => misjudged'[e] \/ ~doubt'[e]
                   /\ run'.pc = "prepare" => ~doubt'[D]
        <4>1. says \in {"unknown", "not_available", "already_done", "not_signed"}
            BY <1>0, ReadersAreTrue DEF TypeOK
        <4>2. \A e \in Days : /\ doubt'[e] => doubt[e]
                              /\ misjudged'[e] => misjudged[e]
                              /\ misjudged[e] => misjudged'[e] \/ ~doubt'[e]
                              /\ e = D /\ says = "not_signed" => ~doubt'[e]
            BY <3>3 DEF TypeOK
        <4>3. \/ says = "not_signed" /\ Goto("prepare")
              \/ \E stage \in Phases : Concluded(stage)
            BY <3>3, <4>1 DEF Phases, Terminal, Failed
        <4>4. run'.bypass = run.bypass /\ run'.pc \in {"close", "prepare"}
              /\ (run'.pc = "prepare" => says = "not_signed")
            BY <1>0, <4>3, GotoFrame, ConcludedFrame DEF Pcs
        <4> QED BY <1>0, <4>2, <4>4
      <3> QED BY <1>13, <3>1, <3>2, <3>3 DEF Observe
    <2>4. DoubtIsJournalled' /\ DenialsAreFresh' /\ SendsUndoubted'
        BY <1>0, <2>1, <2>3 DEF DoubtIsJournalled, DenialsAreFresh, SendsUndoubted, Fenced
    <2>5. RunnerRemembers'
        BY <1>0, <1>11, <2>1, <2>3 DEF RunnerRemembers, InDoubt
    <2> QED BY <2>4, <2>5 DEF DoubtInv
  <1>14. ASSUME Prepare PROVE DoubtInv'
    <2>1. /\ UNCHANGED <<kind, doubt, misjudged>> /\ run.pc = "prepare" /\ ~doubt[D]
        BY <1>0, <1>14 DEF Prepare, Here, SendsUndoubted
    <2>2. CASE Goto("catch") /\ UNCHANGED <<journal, observed>>
      <3>1. run'.pc = "catch" /\ run'.bypass = run.bypass
          BY <1>0, <2>2, GotoFrame DEF Pcs
      <3> QED BY <1>0, <2>1, <2>2, <3>1
              DEF DoubtInv, DoubtIsJournalled, DenialsAreFresh, SendsUndoubted, RunnerRemembers,
                  InDoubt, Fenced
    <2>3. CASE Journal(D, "prepared") /\ run' = [run EXCEPT !.pc = "fence", !.prepared = TRUE]
      <3>1. /\ run'.pc = "fence" /\ run'.prepared = TRUE
            /\ UNCHANGED <<run.bypass, run.result>>
          BY <1>0, <2>3 DEF Runs
      <3>2. observed'[D] = "none"
          BY <1>0, <2>3 DEF Journal, TypeOK
      <3>3. DoubtIsJournalled' /\ \A e \in Days : observed'[e] = "not_signed" => ~doubt'[e]
          BY <1>0, <2>1, <2>3, RecordDoubt DEF Phases, Undecided
      <3> QED BY <1>0, <2>1, <3>1, <3>2, <3>3
              DEF DoubtInv, DenialsAreFresh, SendsUndoubted, RunnerRemembers, InDoubt
    <2> QED BY <1>14, <2>2, <2>3 DEF Prepare
  <1>15. ASSUME Fence PROVE DoubtInv'
    <2>1. /\ UNCHANGED <<kind, doubt, misjudged, journal, observed>> /\ run.pc = "fence"
          /\ Goto("submit") \/ Goto("catch")
        BY <1>15 DEF Fence, Here
    <2>2. /\ run'.pc \in {"submit", "catch"} /\ UNCHANGED <<run.bypass, run.prepared, run.result>>
        BY <1>0, <2>1, GotoFrame DEF Pcs
    <2> QED BY <1>0, <2>1, <2>2
            DEF DoubtInv, DoubtIsJournalled, DenialsAreFresh, SendsUndoubted, RunnerRemembers,
                InDoubt, Fenced
  <1>16. ASSUME Submit PROVE DoubtInv'
    <2>1. PICK o \in Submissions(kind, site[D]) :
            /\ doubt' = [doubt EXCEPT ![D] = @ \/ o.open]
            /\ misjudged' = [misjudged EXCEPT ![D] =
                  @ \/ (o.open /\ Conclude(o) = "submit_rejected")]
            /\ IF Conclude(o) = "verify" THEN Goto("verify") ELSE Concluded(Conclude(o))
        BY <1>16, Zenon DEF Submit
    <2>2. /\ UNCHANGED <<kind, journal, observed>> /\ run.pc = "submit" /\ ~doubt[D]
          /\ observed[D] = "none" /\ journal[D].phase = "prepared"
          /\ run.prepared
        BY <1>0, <1>16 DEF Submit, Here, SendsUndoubted, DenialsAreFresh, RunnerRemembers, Fenced,
                           Inv, RunnerIsJournalled
    <2>3. Conclude(o) \in {"verify", "submit_rejected", "submission_unknown"}
        BY ConclusionsAreShaped DEF TypeOK, D, Days
    <2>4. /\ \A e \in Days : e # D => doubt'[e] = doubt[e] /\ misjudged'[e] = misjudged[e]
          /\ doubt'[D] /\ Conclude(o) = "submit_rejected" => misjudged'[D]
          /\ misjudged'[D] => misjudged[D] \/ (o.open /\ Conclude(o) = "submit_rejected")
        BY <2>1, <2>2, <1>0 DEF TypeOK
    <2>5. /\ UNCHANGED <<run.bypass, run.prepared>>
          /\ \/ /\ run'.pc = "verify" /\ run'.result = run.result
                /\ Conclude(o) = "verify"
             \/ /\ run'.pc = "close" /\ Conclude(o) # "verify"
                /\ run'.result.mutation <=> Conclude(o) = "submission_unknown"
      <3>1. CASE Conclude(o) = "verify"
          BY <1>0, <2>1, <3>1, GotoFrame DEF Pcs
      <3>2. CASE Conclude(o) # "verify"
        <4>1. Conclude(o) \in Phases /\ Concluded(Conclude(o))
            BY <2>1, <2>3, <3>2 DEF Phases, Undecided, Failed
        <4>2. PICK stage \in {"submit_rejected", "submission_unknown"} :
                  stage \in Phases /\ Concluded(stage) /\ Conclude(o) = stage
            BY <2>3, <3>2, <4>1
        <4> QED BY <1>0, <4>2, ConcludedFrame
      <3> QED BY <3>1, <3>2
    <2>6. DoubtIsJournalled' /\ DenialsAreFresh'
        BY <1>0, <2>2, <2>4, <2>5 DEF DoubtIsJournalled, DenialsAreFresh, Fenced, Undecided
    <2>7. SendsUndoubted'
      <3>1. kind = "oauthReward" => ~(o.open /\ Conclude(o) = "submit_rejected")
          BY RewardRejectsUnsent DEF TypeOK, D, Days
      <3> QED BY <1>0, <2>2, <2>4, <2>5, <3>1 DEF SendsUndoubted
    <2>8. RunnerRemembers'
      <3>1. run'.prepared /\ run'.pc \in {"verify", "close"}
          BY <2>2, <2>5
      <3>2. InDoubt' /\ run'.pc = "close" => run'.result.mutation
        <4>1. InDoubt' => Conclude(o) # "submit_rejected"
            BY <2>4 DEF InDoubt
        <4>2. run'.pc = "close" => Conclude(o) # "verify"
            BY <2>5
        <4> QED BY <2>3, <2>5, <4>1, <4>2
      <3> QED BY <3>1, <3>2 DEF RunnerRemembers
    <2> QED BY <2>6, <2>7, <2>8 DEF DoubtInv
  <1>17. ASSUME UNCHANGED <<kind, doubt, misjudged>>, run'.bypass => run.bypass,
                run'.pc \notin {"prepare", "fence", "submit", "verify"},
                NEW phase \in Phases,
                RecordIn(D, phase) \/ UNCHANGED <<journal, observed>>,
                InDoubt => /\ phase \in Undecided \cup {"succeeded"}
                           /\ run'.pc = "close" => run'.prepared
                           /\ run'.pc \in {"close", "record", "again", "finish"}
                                 => run'.result.mutation
                           /\ run'.pc \in {"catch", "release"} => MutationPossible'
         PROVE  DoubtInv'
    <2>1. DoubtIsJournalled' /\ \A e \in Days : observed'[e] = "not_signed" => ~doubt'[e]
        BY <1>0, <1>17, RecordDoubt DEF InDoubt
    <2>2. ~Fenced'
        BY <1>17 DEF Fenced
    <2>3. SendsUndoubted' /\ RunnerRemembers'
        BY <1>0, <1>17 DEF SendsUndoubted, RunnerRemembers, InDoubt
    <2> QED BY <2>1, <2>2, <2>3 DEF DoubtInv, DenialsAreFresh
  <1>18. "succeeded" \in Phases /\ "submission_unknown" \in Phases /\ "blocked" \in Phases
      BY DEF Phases, Terminal, Undecided, Failed
  <1>19. ASSUME Verify PROVE DoubtInv'
    <2>1. PICK stage \in {"succeeded", "submission_unknown"} : Concluded(stage)
        BY <1>19 DEF Verify
    <2>2. /\ run'.pc = "close" /\ run'.result.mutation
          /\ UNCHANGED <<run.bypass, run.prepared>>
        BY <1>0, <1>18, <2>1, ConcludedFrame
    <2>3. run.prepared /\ UNCHANGED <<kind, doubt, misjudged, journal, observed>>
        BY <1>0, <1>19 DEF Verify, Here, RunnerRemembers
    <2> QED BY <1>17, <1>18, <2>2, <2>3
  <1>20. ASSUME Close PROVE DoubtInv'
    <2>1. /\ UNCHANGED <<kind, doubt, misjudged, journal, observed>>
          /\ InDoubt => run.prepared /\ run.result.mutation
        BY <1>0, <1>20 DEF Close, Here, RunnerRemembers
    <2>2. CASE Goto("record")
      <3>1. run'.pc = "record" /\ UNCHANGED <<run.bypass, run.result>>
          BY <1>0, <2>2, GotoFrame DEF Pcs
      <3> QED BY <1>17, <1>18, <2>1, <3>1
    <2>3. CASE run' = [run EXCEPT !.pc = "catch", !.result = NoResult]
      <3>1. /\ run'.pc = "catch" /\ run'.result = NoResult
            /\ UNCHANGED <<run.bypass, run.prepared>>
          BY <1>0, <2>3 DEF Runs
      <3> QED BY <1>17, <1>18, <2>1, <3>1 DEF MutationPossible
    <2> QED BY <1>20, <2>2, <2>3 DEF Close
  <1>21. ASSUME Record PROVE DoubtInv'
    <2>1. PICK phase \in Phases :
            /\ phase = run.result.stage \/ phase = "blocked"
            /\ \/ /\ Recordable(journal[D].phase, phase, run.result.mutation) /\ RecordIn(D, phase)
                  /\ run' = [run EXCEPT !.pc = "finish", !.result.stage = phase]
               \/ /\ (run.result.mutation /\ Goto("again")) \/ (~run.result.mutation /\ Goto("catch"))
                  /\ UNCHANGED <<journal, observed>>
        BY <1>21, RecordSteps
    <2>2. /\ UNCHANGED <<kind, doubt, misjudged>>
          /\ InDoubt => run.result.mutation
        BY <1>0, <1>21 DEF Record, Here, RunnerRemembers
    <2>3. CASE /\ Recordable(journal[D].phase, phase, run.result.mutation) /\ RecordIn(D, phase)
               /\ run' = [run EXCEPT !.pc = "finish", !.result.stage = phase]
      <3>1. run'.pc = "finish" /\ UNCHANGED <<run.bypass, run.result.mutation>>
          BY <1>0, <2>3, FinishFrame
      <3>2. InDoubt => phase \in Undecided \cup {"succeeded"}
          BY <1>0, <2>2, <2>3 DEF Recordable, Undecided
      <3> QED BY <1>17, <2>2, <2>3, <3>1, <3>2
    <2>4. CASE /\ (run.result.mutation /\ Goto("again")) \/ (~run.result.mutation /\ Goto("catch"))
               /\ UNCHANGED <<journal, observed>>
      <3>1. /\ run'.pc \in {"again", "catch"} /\ UNCHANGED <<run.bypass, run.result>>
            /\ run'.pc = "catch" => ~run.result.mutation
          BY <1>0, <2>4, GotoFrame DEF Pcs
      <3> QED BY <1>17, <1>18, <2>2, <2>4, <3>1
    <2> QED BY <2>1, <2>3, <2>4
  <1>22. ASSUME RecordAgain PROVE DoubtInv'
    <2>1. /\ UNCHANGED <<kind, doubt, misjudged>>
          /\ InDoubt => run.result.mutation
          /\ RecordIn(D, "submission_unknown") \/ UNCHANGED <<journal, observed>>
        BY <1>0, <1>22 DEF RecordAgain, Here, RunnerRemembers
    <2>2. run'.pc = "finish" /\ UNCHANGED <<run.bypass, run.result.mutation>>
        BY <1>0, <1>18, <1>22, FinishFrame DEF RecordAgain
    <2>3. "submission_unknown" \in Undecided
        BY DEF Undecided
    <2> QED BY <1>17, <1>18, <2>1, <2>2, <2>3
  <1>23. ASSUME Finish PROVE DoubtInv'
    <2>1. /\ UNCHANGED <<kind, doubt, misjudged, journal, observed>>
          /\ InDoubt => run.result.mutation
        BY <1>0, <1>23 DEF Finish, Here, RunnerRemembers
    <2>2. CASE run' = Idle
        BY <1>8, <2>1, <2>2, IdleFrame
    <2>3. CASE Goto("promote")
        BY <1>0, <1>8, <2>1, <2>3, GotoFrame DEF Pcs
    <2>4. CASE Goto("catch") /\ ~run.result.mutation
      <3>1. run'.pc = "catch" /\ run'.bypass = run.bypass
          BY <1>0, <2>4, GotoFrame DEF Pcs
      <3> QED BY <1>17, <1>18, <2>1, <2>4, <3>1
    <2> QED BY <1>23, <2>2, <2>3, <2>4 DEF Finish
  <1>24. ASSUME Catch PROVE DoubtInv'
    <2>1. /\ UNCHANGED <<kind, doubt, misjudged>>
          /\ InDoubt => MutationPossible
          /\ Goto("release")
        BY <1>0, <1>24 DEF Catch, Here, RunnerRemembers
    <2>2. /\ run'.pc = "release" /\ UNCHANGED <<run.bypass, run.result, run.prepared>>
        BY <1>0, <2>1, GotoFrame DEF Pcs
    <2>3. MutationPossible' = MutationPossible
        BY <2>2 DEF MutationPossible
    <2>4. CASE UNCHANGED <<journal, observed>>
        BY <1>17, <1>18, <2>1, <2>2, <2>3, <2>4 DEF Undecided
    <2>5. CASE MutationPossible /\ RecordIn(D, "submission_unknown")
        BY <1>17, <1>18, <2>1, <2>2, <2>3, <2>5 DEF Undecided
    <2>6. CASE ~MutationPossible /\ RecordIn(D, "blocked")
        BY <1>17, <1>18, <2>1, <2>2, <2>6
    <2> QED BY <1>24, <2>4, <2>5, <2>6 DEF Catch
  <1>25. ASSUME Release PROVE DoubtInv'
      BY <1>8, <1>25, IdleFrame DEF Release
  <1> QED
      BY <1>1, <1>2, <1>3, <1>4, <1>6, <1>7, <1>9, <1>10, <1>12, <1>13, <1>14, <1>15, <1>16,
         <1>19, <1>20, <1>21, <1>22, <1>23, <1>24, <1>25 DEF Next, World, Runner, Scripts

(* No submission in doubt is journalled as a failure, whatever crashes and *)
(* whatever the scripts do with the record.                                *)
THEOREM DoubtStaysJournalled == Spec => []DoubtIsJournalled
  <1>1. DoubtInv => DoubtIsJournalled
      BY DEF DoubtInv
  <1> QED BY InitInv, InitTypes, InitDoubt, NextInv, NextTypes, NextDoubt, <1>1, PTL DEF Spec

(* A step that submits starts from a day that is not in doubt.             *)
LEMMA SendsAreUndoubted ==
    Inv /\ TypeOK /\ DoubtInv /\ [Next]_vars =>
        \A d \in Days : submitted'[d] > submitted[d] => ~doubt[d]
  <1> SUFFICES ASSUME Inv, TypeOK, DoubtInv, [Next]_vars, NEW d \in Days,
                      submitted'[d] > submitted[d]
               PROVE  ~doubt[d]
      OBVIOUS
  <1>1. submitted[d] \in Nat
      BY DEF TypeOK
  <1>2. submitted' # submitted
      BY <1>1
  <1>3. Submit
      BY <1>2 DEF Next, World, Runner, Scripts, vars, history, PlanChange, SiteMoves, PrepareTask,
                  ReadOnly, Recover, Reconcile, Adopt, ReconcileRow, AdoptRecord, AdoptRow,
                  AdoptGivesBack, ToolPromotes, ToolDies, Reserve, Duplicate, Handoff,
                  HandoffFails, Observe, Prepare, Fence, Verify, Close, Record, RecordAgain,
                  Finish, Catch, Release, Promote, Crash
  <1>4. /\ submitted' = [submitted EXCEPT ![D] = @ + 1] /\ run.pc = "submit"
        /\ submitted \in [Days -> Nat]
      BY <1>3 DEF Submit, Here, TypeOK
  <1>5. d = D
      BY <1>1, <1>4
  <1> QED BY <1>4, <1>5 DEF DoubtInv, SendsUndoubted

(* Whatever a run does, a day in doubt is not submitted again.             *)
THEOREM NothingIsResentBlindly == Spec => NoBlindResubmission
  <1> DEFINE Undoubted == \A d \in Days : submitted'[d] > submitted[d] => ~doubt[d]
  <1>1. Inv /\ TypeOK /\ DoubtInv /\ [Next]_vars => [Undoubted]_vars
      BY SendsAreUndoubted
  <1> HIDE DEF Undoubted
  <1>2. Spec => [][Undoubted]_vars
      BY InitInv, InitTypes, InitDoubt, NextInv, NextTypes, NextDoubt, <1>1, PTL DEF Spec
  <1> QED BY <1>2 DEF NoBlindResubmission, Undoubted

-----------------------------------------------------------------------------
(* The account stays withdrawn while a submission is in doubt: the handoff *)
(* gave it a row before anything could leave, the fence took the expiry    *)
(* away, and only a run that knows of no mutation gives it back.           *)
Stands == row.state # "none" /\ ~row.expires
Withdrawn == row.state = "pending_v2" \/ row = Owned

KeptInv ==
    /\ tool.pc \in {"adopt", "adoptRow", "giveBack"} => adopted
    /\ run.pc \in {"observe", "prepare", "fence"} => adopted \/ Withdrawn
    /\ run.pc = "submit" => adopted \/ Stands
    /\ InDoubt => adopted \/ Stands

LEMMA InitKept == Init => KeptInv
  <1> SUFFICES ASSUME Init PROVE KeptInv
      OBVIOUS
  <1>1. run = Idle /\ tool = NoTool
      BY Zenon DEF Init
  <1>2. ~doubt[D]
    <2>1. PICK b : doubt = [d \in Days |-> IF d = "today" THEN FALSE ELSE b]
        BY Zenon DEF Init
    <2> QED BY <2>1, Zenon DEF D, Days
  <1> QED BY <1>1, <1>2 DEF KeptInv, Idle, NoTool, InDoubt

(* Rows that stand stay so when they are quarantined or completed. *)
LEMMA RowsStand ==
    ASSUME row \in Rows, Complete \/ Quarantine \/ TryQuarantine \/ UNCHANGED row
    PROVE  (Withdrawn => Withdrawn') /\ (Stands => Stands')
  <1>1. CASE UNCHANGED row
      BY <1>1 DEF Stands, Withdrawn
  <1>2. CASE row' = Owned
    <2>1. row'.state = "v2_owned" /\ row'.expires = FALSE
        BY <1>2 DEF Owned
    <2> QED BY <1>2, <2>1 DEF Withdrawn, Stands
  <1>3. CASE row' = Quarantined /\ row' # row
    <2>1. row.state = "pending_v2" /\ row' = [row EXCEPT !.expires = FALSE]
        BY <1>3 DEF Quarantined
    <2>2. row'.state = "pending_v2" /\ row'.expires = FALSE
        BY <2>1 DEF Rows
    <2> QED BY <2>2 DEF Withdrawn, Stands
  <1> QED BY <1>1, <1>2, <1>3 DEF Complete, Quarantine, TryQuarantine

LEMMA NextKept == Inv /\ TypeOK /\ DoubtInv /\ KeptInv /\ [Next]_vars => KeptInv'
  <1> SUFFICES ASSUME Inv, TypeOK, DoubtInv, KeptInv, [Next]_vars PROVE KeptInv'
      OBVIOUS
  <1> USE DEF store, site_vars, history
  <1>0. /\ run \in Runs /\ D \in Days /\ row \in Rows /\ adopted \in BOOLEAN
        /\ RunnerRemembers /\ SendsUndoubted
        /\ run.pc \in {"handoff", "observe", "prepare"} => ~InDoubt
      BY DEF TypeOK, D, Days, DoubtInv, Inv, RunnerIsJournalled, DoubtIsJournalled, Undecided, InDoubt
  (* Steps that leave the row and the adoption alone. *)
  <1>1. ASSUME UNCHANGED <<row, adopted>>, InDoubt' => InDoubt,
               tool'.pc \in {"adopt", "adoptRow", "giveBack"} => tool.pc \in {"adopt", "adoptRow", "giveBack"},
               run'.pc \in {"observe", "prepare", "fence"} => run.pc \in {"observe", "prepare", "fence"},
               run'.pc = "submit" => run.pc = "submit"
        PROVE  KeptInv'
      BY <1>1 DEF KeptInv, Stands, Withdrawn
  <1>2. ASSUME UNCHANGED <<doubt, misjudged>> PROVE InDoubt' = InDoubt
      BY <1>2 DEF InDoubt
  <1>3. ASSUME PlanChange \/ SiteMoves \/ PrepareTask \/ UNCHANGED vars PROVE KeptInv'
      BY <1>1, <1>2, <1>3 DEF PlanChange, SiteMoves, PrepareTask, vars
  <1>4. ASSUME ToolPromotes \/ ToolDies PROVE KeptInv'
    <2>1. tool'.pc = "idle"
        BY <1>4 DEF ToolPromotes, ToolDies, NoTool
    <2> QED BY <1>1, <1>2, <1>4, <2>1 DEF ToolPromotes, ToolDies
  <1>5. ASSUME NEW d \in Days, ReadOnly(d) PROVE KeptInv'
    <2>1. UNCHANGED <<row, adopted, tool, run>>
        BY <1>5 DEF ReadOnly
    <2>2. PICK says : /\ doubt' = [doubt EXCEPT ![d] = @ /\ says # "not_signed"]
                      /\ misjudged' = [misjudged EXCEPT ![d] = @ /\ says # "not_signed"]
        BY <1>5 DEF ReadOnly
    <2>3. InDoubt' => InDoubt
        BY <1>0, <2>2 DEF InDoubt, TypeOK
    <2> QED BY <1>1, <2>1, <2>3
  <1>6. ASSUME NEW d \in Days, Recover(d) \/ Reconcile(d) PROVE KeptInv'
    <2>1. UNCHANGED <<row, adopted, run, doubt, misjudged>> /\ tool'.pc \in {tool.pc, "complete"}
        BY <1>6 DEF Recover, Reconcile
    <2> QED BY <1>1, <1>2, <2>1
  <1>7. ASSUME adopted' PROVE KeptInv'
      BY <1>7 DEF KeptInv
  <1>8. ASSUME NEW d \in Days, Adopt(d) PROVE KeptInv'
      BY <1>7, <1>8 DEF Adopt
  <1>9. ASSUME AdoptRecord \/ AdoptRow \/ AdoptGivesBack PROVE KeptInv'
      BY <1>7, <1>9 DEF AdoptRecord, AdoptRow, AdoptGivesBack, KeptInv
  (* Steps that only strengthen the row. *)
  <1>10. ASSUME Complete \/ Quarantine \/ TryQuarantine \/ UNCHANGED row,
                UNCHANGED <<adopted, doubt, misjudged>>,
                tool'.pc \notin {"adopt", "adoptRow", "giveBack"} \/ tool' = tool,
                run'.pc \notin {"observe", "prepare", "fence", "submit"} \/ run' = run
         PROVE  KeptInv'
      BY <1>0, <1>2, <1>10, RowsStand DEF KeptInv
  <1>11. ASSUME ReconcileRow PROVE KeptInv'
    <2>1. /\ Complete \/ UNCHANGED row
          /\ tool'.pc \in {"promote", "idle"}
          /\ UNCHANGED <<adopted, doubt, misjudged, run>>
        BY <1>11 DEF ReconcileRow, NoTool, TypeOK
    <2> QED BY <1>10, <2>1
  <1>12. ASSUME Reserve PROVE KeptInv'
    <2>1. run'.pc \in {"handoff", "duplicate"}
        BY <1>12, ReserveFrame
    <2> QED BY <1>10, <1>12, <2>1 DEF Reserve
  <1>13. ASSUME Duplicate \/ Promote \/ Crash \/ HandoffFails PROVE KeptInv'
    <2>1. run'.pc \in {"idle", "promote"}
        BY <1>0, <1>13, GotoFrame, IdleFrame DEF Duplicate, Promote, Crash, HandoffFails, Pcs
    <2> QED BY <1>10, <1>13, <2>1 DEF Duplicate, Promote, Crash, HandoffFails
  <1>14. ASSUME Handoff PROVE KeptInv'
    <2>1. /\ UNCHANGED <<tool, adopted, doubt, misjudged>> /\ run'.pc = "observe" /\ run.pc = "handoff"
          /\ row' = Pending \/ row' = Owned
        BY <1>0, <1>14, GotoFrame DEF Handoff, Here, Pcs
    <2>2. Withdrawn'
        BY <2>1 DEF Withdrawn, Pending
    <2>3. ~InDoubt'
        BY <1>0, <1>2, <2>1
    <2> QED BY <2>1, <2>2, <2>3 DEF KeptInv
  <1>15. ASSUME Observe PROVE KeptInv'
    <2>1. UNCHANGED <<row, adopted, tool>> /\ run.pc = "observe" /\ ~InDoubt
        BY <1>0, <1>15 DEF Observe, Here
    <2>2. run'.pc \in {"catch", "prepare", "close"}
      <3>1. PICK stage \in Phases : Goto("catch") \/ Goto("prepare") \/ Concluded(stage)
          BY <1>15, ReadersAreTrue DEF Observe, TypeOK, Phases, Terminal, Failed, Days, D
      <3> QED BY <1>0, <3>1, GotoFrame, ConcludedFrame DEF Pcs
    <2>3. InDoubt' => InDoubt
      <3>1. CASE UNCHANGED <<doubt, misjudged>>
          BY <1>2, <3>1
      <3>2. ASSUME NEW says,
                   doubt' = [doubt EXCEPT ![D] = @ /\ says # "not_signed"],
                   misjudged' = [misjudged EXCEPT ![D] = @ /\ says # "not_signed"]
            PROVE  InDoubt' => InDoubt
          BY <1>0, <3>2 DEF InDoubt, TypeOK
      <3> QED BY <1>15, <3>1, <3>2 DEF Observe
    <2> QED BY <1>1, <2>1, <2>2, <2>3
  <1>16. ASSUME Prepare PROVE KeptInv'
    <2>1. UNCHANGED <<row, adopted, tool, doubt, misjudged>> /\ run.pc = "prepare"
        BY <1>16 DEF Prepare, Here
    <2>2. run'.pc \in {"fence", "catch"}
        BY <1>0, <1>16, GotoFrame DEF Prepare, Runs, Pcs
    <2> QED BY <1>1, <1>2, <2>1, <2>2
  <1>17. ASSUME Fence PROVE KeptInv'
    <2>1. UNCHANGED <<adopted, tool, doubt, misjudged>> /\ run.pc = "fence"
        BY <1>17 DEF Fence, Here
    <2>2. CASE Goto("catch") /\ UNCHANGED row
      <3>1. run'.pc = "catch"
          BY <1>0, <2>2, GotoFrame DEF Pcs
      <3> QED BY <1>10, <2>1, <2>2, <3>1
    <2>3. CASE Goto("submit") /\ Quarantine
      <3>1. run'.pc = "submit" /\ ~InDoubt'
          BY <1>0, <1>2, <2>1, <2>3, GotoFrame DEF Pcs, SendsUndoubted, InDoubt
      <3>2. Withdrawn => Stands'
          BY <1>0, <2>3 DEF Quarantine, Quarantined, Withdrawn, Stands, Owned, Rows
      <3> QED BY <2>1, <3>1, <3>2 DEF KeptInv
    <2> QED BY <1>17, <2>2, <2>3 DEF Fence
  <1>18. ASSUME Submit PROVE KeptInv'
    <2>1. UNCHANGED <<row, adopted, tool>> /\ run.pc = "submit"
        BY <1>18 DEF Submit, Here
    <2>2. run'.pc \in {"verify", "close"}
      <3>1. PICK o \in Submissions(kind, site[D]) :
                IF Conclude(o) = "verify" THEN Goto("verify") ELSE Concluded(Conclude(o))
          BY <1>18 DEF Submit
      <3>2. Conclude(o) \in {"verify", "submit_rejected", "submission_unknown"}
          BY ConclusionsAreShaped DEF TypeOK, D, Days
      <3> QED BY <1>0, <3>1, <3>2, GotoFrame, ConcludedFrame DEF Pcs, Phases, Failed, Undecided
    <2> QED BY <2>1, <2>2 DEF KeptInv, Stands
  <1>19. ASSUME Verify \/ Close PROVE KeptInv'
    <2>1. run'.pc \in {"close", "record", "catch"}
      <3>1. "succeeded" \in Phases /\ "submission_unknown" \in Phases
          BY DEF Phases, Terminal, Undecided
      <3> QED BY <1>0, <1>19, <3>1, GotoFrame, ConcludedFrame DEF Verify, Close, Runs, Pcs
    <2> QED BY <1>1, <1>2, <1>19, <2>1 DEF Verify, Close
  <1>20. ASSUME Record \/ RecordAgain \/ Catch PROVE KeptInv'
    <2>1. run'.pc \in {"finish", "again", "catch", "release"}
      <3>1. CASE Record
          BY <1>0, <3>1, RecordSteps, GotoFrame, FinishFrame DEF Pcs
      <3>2. CASE RecordAgain
          BY <1>0, <3>2, FinishFrame DEF RecordAgain, Phases, Undecided
      <3>3. CASE Catch
          BY <1>0, <3>3, GotoFrame DEF Catch, Pcs
      <3> QED BY <1>20, <3>1, <3>2, <3>3
    <2> QED BY <1>1, <1>2, <1>20, <2>1 DEF Record, RecordAgain, Catch
  (* A row is given back only by a run that knows of no mutation. *)
  <1>21. ASSUME Finish \/ Release PROVE KeptInv'
    <2>1. /\ UNCHANGED <<adopted, tool, doubt, misjudged>>
          /\ run.pc \in {"finish", "release"}
          /\ run'.pc \in {"idle", "catch", "promote"}
        BY <1>0, <1>21, GotoFrame, IdleFrame DEF Finish, Release, Here, Pcs
    <2>2. \/ Complete \/ Quarantine \/ TryQuarantine \/ UNCHANGED row
          \/ ~InDoubt
        BY <1>0, <1>21 DEF Finish, Release, Here, RunnerRemembers
    <2>3. CASE Complete \/ Quarantine \/ TryQuarantine \/ UNCHANGED row
        BY <1>10, <2>1, <2>3
    <2>4. CASE ~InDoubt
        BY <1>2, <2>1, <2>4 DEF KeptInv
    <2> QED BY <2>2, <2>3, <2>4
  <1> QED
      BY <1>3, <1>4, <1>5, <1>6, <1>8, <1>9, <1>11, <1>12, <1>13, <1>14, <1>15, <1>16, <1>17,
         <1>18, <1>19, <1>20, <1>21 DEF Next, World, Runner, Scripts

(* V1 does not get an account back while a submission of V2 is in doubt.   *)
THEOREM DoubtKeepsItsAccount == Spec => []DoubtKeepsTheAccount
  <1>1. KeptInv => DoubtKeepsTheAccount
      BY DEF KeptInv, InDoubt, Stands, DoubtKeepsTheAccount
  <1> QED
      BY InitInv, InitTypes, InitDoubt, InitKept, NextInv, NextTypes, NextDoubt, NextKept, <1>1,
         PTL DEF Spec

-----------------------------------------------------------------------------
(* What V2 owns is earned: readers and verification do not see a sign-in   *)
(* that is not there, a day that succeeded keeps its record, and every     *)
(* step on the way to owning the account has such a day behind it.         *)
Truthful ==
    /\ \A d \in Days : /\ observed[d] = "already_done" => site[d] # "unsigned"
                       /\ journal[d].phase = "succeeded" => site[d] # "unsigned"
    /\ run.pc \in {"close", "record"} /\ run.result.stage = "succeeded" => site[D] # "unsigned"

Earned == \E d \in Days : journal[d].phase = "succeeded"

Owning ==
    \/ row.state = "v2_owned" \/ migration = "active"
    \/ tool.pc \in {"complete", "promote", "adoptRow"}
    \/ run.pc = "promote"
    \/ run.pc = "finish" /\ run.result.stage = "succeeded"

EarnedInv == Truthful /\ (Owning => Earned)

LEMMA InitEarned == Init => EarnedInv
  <1> SUFFICES ASSUME Init PROVE EarnedInv
      OBVIOUS
  <1>1. PICK a \in Accounts :
            /\ site = [d \in Days |-> IF d = "today" THEN "unsigned" ELSE a.site]
            /\ journal = [d \in Days |-> IF d = "today" THEN NoRecord
                             ELSE [NoRecord EXCEPT !.phase = a.phase, !.plan = a.plan]]
            /\ row = a.row /\ migration = a.migration
      BY Zenon DEF Init
  <1>2. /\ observed = [d \in Days |-> IF d = "today" THEN "none" ELSE "none"]
        /\ run = Idle /\ tool = NoTool
      BY Zenon DEF Init
  <1>3. /\ a.phase = "succeeded" => a.site # "unsigned"
        /\ a.row.state = "v2_owned" \/ a.migration = "active" => a.phase = "succeeded"
      BY CanaryAssumption
  <1>4. /\ \A d \in Days : observed[d] = "none"
        /\ run.pc = "idle" /\ tool.pc = "idle"
      BY <1>2 DEF Idle, NoTool
  <1>5. /\ journal["today"].phase = "none"
        /\ journal["yesterday"].phase = a.phase /\ site["yesterday"] = a.site
      BY <1>1 DEF Days, NoRecord
  <1>6. Truthful
      BY <1>3, <1>4, <1>5 DEF Truthful, Days
  <1>7. Owning => Earned
      BY <1>1, <1>3, <1>4, <1>5 DEF Owning, Earned, Days
  <1> QED BY <1>6, <1>7 DEF EarnedInv

(* A site that has a sign-in, or is about to, never loses it. *)
Keeps == \A d \in Days : site[d] # "unsigned" => site'[d] # "unsigned"

(* Steps that touch neither the records nor what is observed. *)
LEMMA TruthfulStep ==
    ASSUME Truthful, Keeps, UNCHANGED <<journal, observed>>,
           run'.pc \in {"close", "record"} /\ run'.result.stage = "succeeded" =>
               \/ run.pc \in {"close", "record"} /\ run.result.stage = "succeeded"
               \/ site'[D] # "unsigned"
    PROVE  Truthful'
  <1>1. D \in Days
      BY DEF D, Days
  <1> QED BY <1>1 DEF Truthful, Keeps

(* A record that is written as a success is one, and stays one. *)
LEMMA RecordEarned ==
    ASSUME TypeOK, Truthful, NEW d \in Days, NEW phase \in Phases,
           Journal(d, phase) \/ RecordIn(d, phase), UNCHANGED site,
           journal[d].phase = "succeeded" => phase = "succeeded",
           phase = "succeeded" => site[d] # "unsigned",
           run'.pc \notin {"close", "record"} \/ UNCHANGED run
    PROVE  /\ Truthful' /\ (Earned => Earned')
           /\ phase = "succeeded" => Earned'
  <1>1. /\ journal'[d].phase = phase
        /\ \A e \in Days \ {d} : journal'[e] = journal[e] /\ observed'[e] = observed[e]
        /\ observed'[d] \in {observed[d], "none"}
      BY JournalTypes
  <1>2. Truthful'
      BY <1>1 DEF Truthful
  <1>3. Earned => Earned'
      BY <1>1 DEF Earned
  <1> QED BY <1>1, <1>2, <1>3 DEF Earned

LEMMA NextEarned == Inv /\ TypeOK /\ EarnedInv /\ [Next]_vars => EarnedInv'
  <1> SUFFICES ASSUME Inv, TypeOK, EarnedInv, [Next]_vars PROVE EarnedInv'
      OBVIOUS
  <1> USE DEF store, site_vars, history
  <1>0. /\ run \in Runs /\ D \in Days /\ tool.day \in Days /\ row \in Rows
        /\ kind \in AllKinds /\ \A d \in Days : site[d] \in Sites
        /\ Truthful /\ (Owning => Earned)
      BY DEF TypeOK, D, Days, EarnedInv
  <1>1. ASSUME UNCHANGED <<site, journal, observed>>, Owning' => Owning \/ Earned,
               run'.pc \in {"close", "record"} /\ run'.result.stage = "succeeded" =>
                  \/ run.pc \in {"close", "record"} /\ run.result.stage = "succeeded"
                  \/ site[D] # "unsigned"
        PROVE  EarnedInv'
    <2>1. Truthful'
        BY <1>0, <1>1, TruthfulStep DEF Keeps
    <2>2. Earned' = Earned
        BY <1>1 DEF Earned
    <2> QED BY <1>0, <1>1, <2>1, <2>2 DEF EarnedInv
  <1>2. ASSUME PlanChange \/ PrepareTask \/ UNCHANGED vars PROVE EarnedInv'
      BY <1>1, <1>2 DEF PlanChange, PrepareTask, vars, Owning
  <1>3. ASSUME SiteMoves PROVE EarnedInv'
    <2>1. UNCHANGED <<journal, observed, run, row, migration, tool>> /\ Keeps
        BY <1>3 DEF SiteMoves, Keeps, TypeOK
    <2>2. Truthful'
        BY <1>0, <2>1, TruthfulStep
    <2> QED BY <1>0, <2>1, <2>2 DEF EarnedInv, Earned, Owning
  <1>4. ASSUME NEW d \in Days, ReadOnly(d) PROVE EarnedInv'
    <2>1. PICK says \in StatusAnswers(kind, site[d]) :
              observed' = [observed EXCEPT ![d] =
                  IF says \in {"already_done", "not_signed"} THEN says ELSE "none"]
        BY <1>4 DEF ReadOnly
    <2>2. says = "already_done" => site[d] # "unsigned"
        BY <1>0, ReadersAreTrue
    <2>3. \A e \in Days : /\ e # d => observed'[e] = observed[e]
                          /\ observed'[d] = "already_done" => says = "already_done"
        BY <2>1 DEF TypeOK
    <2>4. UNCHANGED <<site, journal, run, row, migration, tool>>
        BY <1>4 DEF ReadOnly
    <2> QED BY <1>0, <2>2, <2>3, <2>4 DEF EarnedInv, Truthful, Earned, Owning
  <1>5. ASSUME NEW d \in Days, Recover(d) PROVE EarnedInv'
    <2>1. /\ journal' = [journal EXCEPT ![d].phase = "reserved", ![d].proof =
                 IF journal[d].phase = "submit_rejected" THEN "rejected" ELSE "other"]
          /\ observed' = [observed EXCEPT ![d] = "none"]
          /\ journal[d].phase # "succeeded"
          /\ UNCHANGED <<site, run, row, migration, tool>>
        BY <1>5 DEF Recover, Failed
    <2>2. /\ journal \in [Days -> [phase : Phases, proof : Proofs, plan : Plans \cup {0}]]
          /\ observed \in [Days -> {"none", "already_done", "not_signed"}]
        BY DEF TypeOK
    <2>3. journal'[d].phase = "reserved" /\ \A e \in Days \ {d} : journal'[e] = journal[e]
        BY <2>1, <2>2
    <2>4. \A e \in Days : (journal'[e].phase = "succeeded") <=> (journal[e].phase = "succeeded")
        BY <2>1, <2>3
    <2>5. \A e \in Days : observed'[e] \in {observed[e], "none"}
        BY <2>1, <2>2
    <2>6. UNCHANGED <<site, run, row, migration, tool>>
        BY <2>1
    <2> QED BY <1>0, <2>4, <2>5, <2>6 DEF EarnedInv, Truthful, Earned, Owning
  <1>6. ASSUME NEW d \in Days, Journal(d, "succeeded"), site[d] # "unsigned", UNCHANGED <<site, run>>
        PROVE  EarnedInv'
      BY <1>0, <1>6, RecordEarned DEF EarnedInv, Phases, Terminal
  <1>7. ASSUME NEW d \in Days, Reconcile(d) PROVE EarnedInv'
      BY <1>0, <1>6, <1>7 DEF Reconcile, Truthful
  <1>8. ASSUME AdoptRecord PROVE EarnedInv'
    <2>1. CASE Journal(tool.day, "succeeded") /\ observed[tool.day] = "already_done"
        BY <1>0, <1>6, <1>8, <2>1 DEF AdoptRecord, Truthful
    <2>2. CASE UNCHANGED <<journal, observed>> /\ tool' = [tool EXCEPT !.pc = "giveBack"]
      <3>1. tool'.pc = "giveBack"
          BY <2>2 DEF TypeOK
      <3> QED BY <1>1, <1>8, <2>2, <3>1 DEF AdoptRecord, Owning
    <2> QED BY <1>8, <2>1, <2>2 DEF AdoptRecord
  <1>9. /\ Quarantined.state = row.state
        /\ Pending.state # "v2_owned" /\ NoRow.state # "v2_owned"
      BY <1>0 DEF Quarantined, Rows, Pending, NoRow
  <1>10. ASSUME Adopt("today") \/ Adopt("yesterday") \/ ReconcileRow \/ AdoptRow
                \/ AdoptGivesBack \/ ToolPromotes \/ ToolDies
         PROVE  EarnedInv'
    <2>1. UNCHANGED <<site, journal, observed, run>>
        BY <1>10 DEF Adopt, ReconcileRow, AdoptRow, AdoptGivesBack, ToolPromotes, ToolDies
    <2>2. tool'.pc \in {"complete", "promote", "adoptRow"} =>
              tool.pc \in {"complete", "adoptRow"}
        BY <1>10 DEF Adopt, ReconcileRow, AdoptRow, AdoptGivesBack, ToolPromotes, ToolDies, NoTool, TypeOK
    <2>3. migration' = "active" => migration = "active" \/ tool.pc = "promote"
        BY <1>10 DEF Adopt, ReconcileRow, AdoptRow, AdoptGivesBack, ToolPromotes, ToolDies
    <2>4. row'.state = "v2_owned" => row.state = "v2_owned" \/ tool.pc \in {"complete", "adoptRow"}
        BY <1>9, <1>10 DEF Adopt, ReconcileRow, AdoptRow, AdoptGivesBack, ToolPromotes, ToolDies
    <2> QED BY <1>1, <2>1, <2>2, <2>3, <2>4 DEF Owning
  (* A step of the runner that leaves the records alone. *)
  <1>11. ASSUME UNCHANGED <<site, journal, observed, tool, migration>>,
                run'.pc = "promote" => Earned,
                run'.pc = "finish" => run' = run,
                row'.state = "v2_owned" => row.state = "v2_owned" \/ Earned,
                run'.pc \in {"close", "record"} /\ run'.result.stage = "succeeded" =>
                  \/ run.pc \in {"close", "record"} /\ run.result.stage = "succeeded"
                  \/ site[D] # "unsigned"
         PROVE  EarnedInv'
      BY <1>1, <1>11 DEF Owning
  <1>12. ASSUME Reserve PROVE EarnedInv'
    <2>1. run'.pc \in {"handoff", "duplicate"}
        BY <1>12, ReserveFrame
    <2>2. CASE UNCHANGED <<journal, observed>>
        BY <1>11, <1>12, <2>1, <2>2 DEF Reserve
    <2>3. CASE /\ journal[D].phase = "none"
               /\ journal' = [journal EXCEPT ![D] =
                     [phase |-> "reserved", proof |-> "none", plan |-> plan]]
               /\ observed' = [observed EXCEPT ![D] = "none"]
      <3>1. \A e \in Days : /\ journal'[e].phase = "succeeded" <=> journal[e].phase = "succeeded"
                            /\ observed'[e] \in {observed[e], "none"}
          BY <2>3 DEF TypeOK
      <3>2. UNCHANGED <<site, row, migration, tool>>
          BY <1>12 DEF Reserve
      <3> QED BY <1>0, <2>1, <3>1, <3>2 DEF EarnedInv, Truthful, Earned, Owning
    <2> QED BY <1>12, <2>2, <2>3 DEF Reserve
  <1>13. ASSUME Duplicate PROVE EarnedInv'
    <2>1. /\ UNCHANGED <<site, journal, observed, tool, migration>>
          /\ \/ run' = Idle \/ (Goto("promote") /\ journal[D].phase = "succeeded")
          /\ \/ row' = Quarantined \/ UNCHANGED row
             \/ Complete /\ journal[D].phase = "succeeded"
        BY <1>13 DEF Duplicate, TryQuarantine
    <2>2. \/ run'.pc = "idle" \/ (run'.pc = "promote" /\ Earned)
        BY <1>0, <2>1, GotoFrame, IdleFrame DEF Earned, Pcs
    <2>3. row'.state = "v2_owned" => row.state = "v2_owned" \/ Earned
        BY <1>0, <1>9, <2>1 DEF Earned
    <2> QED BY <1>11, <2>1, <2>2, <2>3
  <1>14. ASSUME Handoff \/ Fence PROVE EarnedInv'
    <2>1. /\ UNCHANGED <<site, journal, observed, tool, migration>>
          /\ Goto("observe") \/ Goto("submit") \/ Goto("catch")
          /\ row' = Pending \/ row' = Quarantined \/ UNCHANGED row
        BY <1>14 DEF Handoff, Fence, Quarantine
    <2>2. run'.pc \in {"observe", "submit", "catch"}
        BY <1>0, <2>1, GotoFrame DEF Pcs
    <2>3. row'.state = "v2_owned" => row.state = "v2_owned"
      <3>1. Quarantined.state = row.state /\ Pending.state # "v2_owned"
          BY <1>0 DEF Quarantined, Rows, Pending
      <3> QED BY <2>1, <3>1
    <2> QED BY <1>11, <2>1, <2>2, <2>3
  <1>15. ASSUME HandoffFails PROVE EarnedInv'
    <2>1. run'.pc = "idle" /\ UNCHANGED <<site, row, migration, tool>> /\ run.pc = "handoff"
        BY <1>15, IdleFrame DEF HandoffFails, Here
    <2>2. CASE UNCHANGED <<journal, observed>>
        BY <1>11, <2>1, <2>2
    <2>3. CASE /\ journal' = [journal EXCEPT ![D] = NoRecord]
               /\ observed' = [observed EXCEPT ![D] = "none"]
      <3>1. \A e \in Days : /\ journal'[e].phase = "succeeded" <=> journal[e].phase = "succeeded"
                            /\ observed'[e] \in {observed[e], "none"}
          BY <2>1, <2>3 DEF TypeOK, Inv, RunnerIsJournalled, NoRecord
      <3> QED BY <1>0, <2>1, <3>1 DEF EarnedInv, Truthful, Earned, Owning
    <2> QED BY <1>15, <2>2, <2>3 DEF HandoffFails
  <1>16. ASSUME Observe PROVE EarnedInv'
    <2>1. UNCHANGED <<site, journal, observed, tool, migration, row>>
        BY <1>16 DEF Observe
    <2>2. PICK stage \in Phases \ {"succeeded"} : Goto("catch") \/ Goto("prepare") \/ Concluded(stage)
        BY <1>16, ReadersAreTrue DEF Observe, TypeOK, Phases, Terminal, Failed, Days, D
    <2>3. /\ run'.pc \in {"catch", "prepare", "close"}
          /\ run'.pc = "close" => run'.result.stage # "succeeded"
        BY <1>0, <2>2, GotoFrame, ConcludedFrame DEF Pcs
    <2> QED BY <1>11, <2>1, <2>3
  <1>17. ASSUME Prepare PROVE EarnedInv'
    <2>1. UNCHANGED <<site, row, migration, tool>>
        BY <1>17 DEF Prepare
    <2>2. run'.pc \in {"fence", "catch"}
        BY <1>0, <1>17, GotoFrame DEF Prepare, Runs, Pcs
    <2>3. CASE UNCHANGED <<journal, observed>>
        BY <1>11, <2>1, <2>2, <2>3
    <2>4. CASE journal[D].phase = "reserved" /\ Journal(D, "prepared")
      <3>1. Truthful' /\ (Earned => Earned')
          BY <1>0, <2>1, <2>2, <2>4, RecordEarned DEF Phases, Undecided
      <3> QED BY <1>0, <2>1, <2>2, <3>1 DEF EarnedInv, Owning
    <2> QED BY <1>17, <2>3, <2>4 DEF Prepare
  <1>18. ASSUME Submit PROVE EarnedInv'
    <2>1. PICK o \in Submissions(kind, site[D]) :
              /\ site' = [site EXCEPT ![D] = o.site]
              /\ IF Conclude(o) = "verify" THEN Goto("verify") ELSE Concluded(Conclude(o))
        BY <1>18 DEF Submit
    <2>2. UNCHANGED <<journal, observed, row, migration, tool>>
        BY <1>18 DEF Submit
    <2>3. Keeps
        BY <1>0, <2>1, AnswersAreShaped DEF Keeps, OfAnswer, TypeOK
    <2>4. /\ run'.pc \in {"verify", "close"}
          /\ run'.pc = "close" => run'.result.stage # "succeeded"
      <3>1. Conclude(o) \in {"verify", "submit_rejected", "submission_unknown"}
          BY <1>0, ConclusionsAreShaped
      <3> QED BY <1>0, <2>1, <3>1, GotoFrame, ConcludedFrame DEF Pcs, Phases, Failed, Undecided
    <2>5. Truthful'
        BY <1>0, <2>2, <2>3, <2>4, TruthfulStep
    <2> QED BY <1>0, <2>2, <2>4, <2>5 DEF EarnedInv, Earned, Owning
  <1>19. ASSUME Verify PROVE EarnedInv'
    <2>1. UNCHANGED <<site, journal, observed, tool, migration, row>>
        BY <1>19 DEF Verify
    <2>2. PICK stage \in {"succeeded", "submission_unknown"} :
              /\ Concluded(stage) /\ stage \in Phases
              /\ stage = "succeeded" => Verifies(kind, site[D])
        BY <1>19 DEF Verify, Phases, Terminal, Undecided
    <2>3. Verifies(kind, site[D]) => site[D] # "unsigned"
        BY <1>0, ReadersAreTrue DEF Verifies
    <2>4. run'.pc = "close" /\ run'.result.stage = stage
        BY <1>0, <2>2, ConcludedFrame
    <2> QED BY <1>11, <2>1, <2>2, <2>3, <2>4
  <1>20. ASSUME Close PROVE EarnedInv'
    <2>1. UNCHANGED <<site, journal, observed, tool, migration, row>> /\ run.pc = "close"
        BY <1>20 DEF Close, Here
    <2>2. \/ run'.pc = "catch" \/ (run'.pc = "record" /\ run'.result = run.result)
        BY <1>0, <1>20, GotoFrame DEF Close, Runs, Pcs
    <2> QED BY <1>11, <2>1, <2>2
  <1>21. ASSUME Record PROVE EarnedInv'
    <2>1. PICK phase \in Phases :
            /\ phase = run.result.stage \/ phase = "blocked"
            /\ \/ /\ Recordable(journal[D].phase, phase, run.result.mutation) /\ RecordIn(D, phase)
                  /\ run' = [run EXCEPT !.pc = "finish", !.result.stage = phase]
               \/ /\ Goto("again") \/ Goto("catch")
                  /\ UNCHANGED <<journal, observed>>
        BY <1>21, RecordSteps
    <2>2. UNCHANGED <<site, tool, migration, row>> /\ run.pc = "record"
        BY <1>21 DEF Record, Here
    <2>3. CASE /\ Recordable(journal[D].phase, phase, run.result.mutation) /\ RecordIn(D, phase)
               /\ run' = [run EXCEPT !.pc = "finish", !.result.stage = phase]
      <3>1. run'.pc = "finish" /\ run'.result.stage = phase
          BY <1>0, <2>3, FinishFrame
      <3>2. journal[D].phase = "succeeded" => phase = "succeeded"
          BY <2>3 DEF Recordable
      <3>3. phase = "succeeded" => site[D] # "unsigned"
          BY <1>0, <2>1, <2>2 DEF Truthful
      <3>4. Truthful' /\ (Earned => Earned') /\ (phase = "succeeded" => Earned')
          BY <1>0, <2>2, <2>3, <3>1, <3>2, <3>3, RecordEarned
      <3> QED BY <1>0, <2>2, <3>1, <3>4 DEF EarnedInv, Owning
    <2>4. CASE (Goto("again") \/ Goto("catch")) /\ UNCHANGED <<journal, observed>>
      <3>1. run'.pc \in {"again", "catch"}
          BY <1>0, <2>4, GotoFrame DEF Pcs
      <3> QED BY <1>11, <2>2, <2>4, <3>1
    <2> QED BY <2>1, <2>3, <2>4
  <1>22. ASSUME RecordAgain PROVE EarnedInv'
    <2>1. UNCHANGED <<site, tool, migration, row>>
        BY <1>22 DEF RecordAgain
    <2>2. run'.pc = "finish" /\ run'.result.stage = "submission_unknown"
        BY <1>0, <1>22, FinishFrame DEF RecordAgain, Phases, Undecided
    <2>3. CASE UNCHANGED <<journal, observed>>
        BY <1>1, <2>1, <2>2, <2>3 DEF Owning
    <2>4. CASE RecordIn(D, "submission_unknown") /\ journal[D].phase # "succeeded"
      <3>1. Truthful' /\ (Earned => Earned')
          BY <1>0, <2>1, <2>2, <2>4, RecordEarned DEF Phases, Undecided
      <3> QED BY <1>0, <2>1, <2>2, <3>1 DEF EarnedInv, Owning
    <2> QED BY <1>22, <2>3, <2>4 DEF RecordAgain, Recordable
  <1>23. ASSUME Catch PROVE EarnedInv'
    <2>1. UNCHANGED <<site, tool, migration, row>>
        BY <1>23 DEF Catch
    <2>2. run'.pc = "release"
        BY <1>0, <1>23, GotoFrame DEF Catch, Pcs
    <2>3. CASE UNCHANGED <<journal, observed>>
        BY <1>11, <2>1, <2>2, <2>3
    <2>4. ASSUME NEW phase \in {"submission_unknown", "blocked"}, RecordIn(D, phase),
                 journal[D].phase # "succeeded"
          PROVE  EarnedInv'
      <3>1. Truthful' /\ (Earned => Earned')
          BY <1>0, <2>1, <2>2, <2>4, RecordEarned DEF Phases, Undecided, Failed
      <3> QED BY <1>0, <2>1, <2>2, <3>1 DEF EarnedInv, Owning
    <2> QED BY <1>23, <2>3, <2>4 DEF Catch, Recordable
  <1>24. ASSUME Finish \/ Release PROVE EarnedInv'
    <2>1. UNCHANGED <<site, journal, observed, tool, migration>>
        BY <1>24 DEF Finish, Release
    <2>2. \/ run' = Idle \/ Goto("catch")
          \/ Goto("promote") /\ run.pc = "finish" /\ run.result.stage = "succeeded"
        BY <1>24 DEF Finish, Release, Here
    <2>3. \/ run'.pc \in {"idle", "catch"} \/ (run'.pc = "promote" /\ Earned)
        BY <1>0, <2>2, GotoFrame, IdleFrame DEF Owning, Pcs
    <2>4. \/ row' \in {Quarantined, NoRow} \/ UNCHANGED row
          \/ Complete /\ run.pc = "finish" /\ run.result.stage = "succeeded"
        BY <1>24 DEF Finish, Release, Here, TryQuarantine
    <2>5. row'.state = "v2_owned" => row.state = "v2_owned" \/ Earned
        BY <1>0, <1>9, <2>4 DEF Owning
    <2> QED BY <1>11, <2>1, <2>3, <2>5
  <1>25. ASSUME Promote \/ Crash PROVE EarnedInv'
    <2>1. /\ UNCHANGED <<site, journal, observed, tool, row>> /\ run'.pc = "idle"
          /\ UNCHANGED migration \/ run.pc = "promote"
        BY <1>25, IdleFrame DEF Promote, Crash, Here
    <2> QED BY <1>1, <2>1 DEF Owning
  <1> QED
      BY <1>2, <1>3, <1>4, <1>5, <1>7, <1>8, <1>10, <1>12, <1>13, <1>14, <1>15, <1>16, <1>17,
         <1>18, <1>19, <1>20, <1>21, <1>22, <1>23, <1>24, <1>25
      DEF Next, World, Runner, Scripts, Days

(* The account passes to V2 only with a day that really succeeded.         *)
THEOREM OwnershipIsEarned == Spec => []OwnedIsEarned
  <1>1. EarnedInv => OwnedIsEarned
      BY DEF EarnedInv, Truthful, Earned, Owning, OwnedIsEarned
  <1> QED
      BY InitInv, InitTypes, InitEarned, NextInv, NextTypes, NextEarned, <1>1, PTL DEF Spec

-----------------------------------------------------------------------------
(* An open record is attended: until something fails, a run that works on  *)
(* today's record knows by its prepared intent where the record stands, so *)
(* that the journal accepts whatever it concludes, and a run that has      *)
(* settled its record has closed it.                                       *)
IsOpen(d) ==
    \/ journal[d].phase = "reserved" /\ journal[d].proof = "none"
    \/ journal[d].phase = "prepared"

Settling == {"idle", "duplicate", "finish", "release", "promote"}
Decided == Terminal \cup Failed \cup {"submission_unknown"}

Attended ==
    /\ ~IsOpen("yesterday")
    /\ run.pc \in Settling => ~IsOpen(D)
    /\ run.pc \notin Settling =>
          /\ journal[D].phase = IF run.prepared THEN "prepared" ELSE "reserved"
          /\ run.result.mutation => run.prepared
    /\ run.pc = "again" => run.prepared
    /\ run.pc \in {"close", "record"} => run.result.stage \in Decided

AttendedInv == faults = 0 => Attended

LEMMA InitAttended == Init => AttendedInv
  <1> SUFFICES ASSUME Init PROVE Attended
      BY DEF AttendedInv
  <1>1. PICK a \in Accounts :
            /\ journal = [d \in Days |-> IF d = "today" THEN NoRecord
                             ELSE [NoRecord EXCEPT !.phase = a.phase, !.plan = a.plan]]
            /\ run = Idle
      BY Zenon DEF Init
  <1>2. a.phase \in {"none", "blocked", "submission_unknown", "succeeded"}
      BY CanaryAssumption
  <1>3. journal["yesterday"].phase = a.phase /\ journal["today"].phase = "none"
      BY <1>1 DEF Days, NoRecord
  <1>4. run.pc = "idle"
      BY <1>1 DEF Idle
  <1> QED BY <1>2, <1>3, <1>4 DEF Attended, IsOpen, D, Settling

(* A step without a fault. *)
LEMMA NoFaultStep ==
    ASSUME TypeOK, faults' = 0, [Next]_vars
    PROVE  faults = 0 /\ ~Fault
  <1>1. faults \in Nat
      BY CanaryAssumption DEF TypeOK
  <1>2. Well \/ Fault
      BY DEF Next, World, Runner, Scripts, vars, Well, PlanChange, SiteMoves, PrepareTask,
             ReadOnly, Recover, Reconcile, Adopt, ReconcileRow, AdoptRecord, AdoptRow,
             AdoptGivesBack, ToolPromotes, ToolDies, Reserve, Duplicate, Handoff,
             HandoffFails, Observe, Prepare, Fence, Submit, Verify, Close, Record, RecordAgain,
             Finish, Catch, Release, Promote, Crash, TryQuarantine
  <1> QED BY <1>1, <1>2 DEF Well, Fault

(* The scripts leave a record that waits for its run to the run. *)
LEMMA ScriptsAttended ==
    ASSUME Attended, UNCHANGED run,
           \A d \in Days :
              \/ journal'[d] = journal[d]
              \/ journal[d].phase \notin {"reserved", "prepared"} /\ ~IsOpen(d)'
    PROVE  Attended'
  <1>1. D \in Days /\ "yesterday" \in Days
      BY DEF D, Days
  <1>2. ~IsOpen("yesterday")' /\ (~IsOpen(D) => ~IsOpen(D)')
      BY <1>1 DEF Attended, IsOpen
  <1>3. run.pc \notin Settling => journal'[D] = journal[D]
      BY <1>1 DEF Attended
  <1> QED BY <1>2, <1>3 DEF Attended

(* The run leaves yesterday's record alone. *)
LEMMA RunnerLeavesYesterday ==
    ASSUME TypeOK, Attended,
           \/ UNCHANGED journal
           \/ \E phase \in Phases : RecordIn(D, phase) \/ Journal(D, phase)
           \/ \E r : journal' = [journal EXCEPT ![D] = r]
    PROVE  ~IsOpen("yesterday")'
  <1>1. journal \in [Days -> [phase : Phases, proof : Proofs, plan : Plans \cup {0}]]
        /\ D \in Days /\ "yesterday" \in Days \ {D}
      BY DEF TypeOK, D, Days
  <1>2. journal'["yesterday"] = journal["yesterday"]
    <2>1. CASE \E phase \in Phases : RecordIn(D, phase) \/ Journal(D, phase)
        BY <1>1, <2>1, JournalTypes
    <2>2. CASE \E r : journal' = [journal EXCEPT ![D] = r]
        BY <1>1, <2>2
    <2> QED BY <2>1, <2>2
  <1> QED BY <1>2 DEF Attended, IsOpen

(* What has settled its record stands on one that is not open. *)
LEMMA SettledAttended ==
    ASSUME ~IsOpen("yesterday")', run'.pc \in Settling, ~IsOpen(D)'
    PROVE  Attended'
  BY DEF Attended, Settling

(* A run at work knows where its record stands and what it may have done.  *)
LEMMA WorkingAttended ==
    ASSUME ~IsOpen("yesterday")', run'.pc \notin Settling,
           journal'[D].phase = IF run'.prepared THEN "prepared" ELSE "reserved",
           run'.result.mutation => run'.prepared,
           run'.pc = "again" => run'.prepared,
           run'.pc \in {"close", "record"} => run'.result.stage \in Decided
    PROVE  Attended'
  BY DEF Attended

(* A run that goes on under the same record.  *)
LEMMA GoesOnAttended ==
    ASSUME TypeOK, Attended, UNCHANGED journal, run.pc \notin Settling,
           NEW pc \in Pcs \ Settling, Goto(pc),
           pc = "again" => run.prepared,
           pc # "close" /\ (pc = "record" => run.result.stage \in Decided)
    PROVE  Attended'
  <1>1. /\ run'.pc = pc /\ UNCHANGED <<run.prepared, run.result>>
      BY GotoFrame DEF TypeOK
  <1>2. ~IsOpen("yesterday")'
      BY RunnerLeavesYesterday
  <1> QED BY <1>1, <1>2, WorkingAttended DEF Attended

(* And one that concludes. *)
LEMMA ConcludesAttended ==
    ASSUME TypeOK, Attended, UNCHANGED journal, run.pc \notin Settling,
           NEW stage \in Decided, Concluded(stage),
           stage \in {"succeeded", "submission_unknown"} => run.prepared
    PROVE  Attended'
  <1>1. stage \in Phases
      BY DEF Decided, Phases, Undecided
  <1>2. /\ run'.pc = "close" /\ UNCHANGED run.prepared
        /\ run'.result.stage = stage
        /\ run'.result.mutation <=> stage \in {"succeeded", "submission_unknown"}
      BY <1>1, ConcludedFrame DEF TypeOK
  <1>3. ~IsOpen("yesterday")'
      BY RunnerLeavesYesterday
  <1> QED BY <1>2, <1>3, WorkingAttended DEF Attended, Settling

(* A step that writes what it concluded closes the record. *)
LEMMA ClosesAttended ==
    ASSUME TypeOK, Attended, NEW phase \in Decided, RecordIn(D, phase),
           run'.pc \in Settling
    PROVE  Attended'
  <1>1. phase \in Phases /\ phase \notin {"reserved", "prepared"} /\ D \in Days
      BY DEF Decided, Phases, Undecided, Terminal, Failed, D, Days
  <1>2. journal'[D].phase = phase
      BY <1>1, JournalTypes
  <1>3. ~IsOpen("yesterday")'
      BY <1>1, RunnerLeavesYesterday
  <1> QED BY <1>1, <1>2, <1>3, SettledAttended DEF IsOpen

(* A step between states that have settled the record. *)
LEMMA StaysSettled ==
    ASSUME TypeOK, Attended, UNCHANGED journal, run.pc \in Settling, run'.pc \in Settling
    PROVE  Attended'
  <1>1. ~IsOpen("yesterday")' /\ ~IsOpen(D)'
      BY DEF Attended, IsOpen
  <1> QED BY <1>1, SettledAttended

LEMMA RunnerAttended ==
    ASSUME Inv, TypeOK, DoubtInv, Attended, ~Fault, Runner
    PROVE  Attended'
  <1>0. /\ run \in Runs /\ D \in Days
        /\ {"catch", "again", "prepare", "fence", "submit", "verify", "record", "observe"}
              \subseteq Pcs \ Settling
      BY DEF TypeOK, D, Days, Pcs, Settling
  <1>a. /\ run.pc \in {"fence", "submit", "verify"} => run.prepared
        /\ run.pc \in {"observe", "prepare"} => ~run.prepared
        /\ Fenced => journal[D].phase = "prepared"
    <2>1. run.pc \in {"observe", "prepare"} => run.pc \notin Settling /\ journal[D].phase = "reserved"
        BY DEF Inv, RunnerIsJournalled, Settling
    <2> QED BY <2>1 DEF Attended, DoubtInv, RunnerRemembers, Inv, RunnerIsJournalled
  <1>1. CASE Reserve
    <2>1. /\ run'.pc \in {"handoff", "duplicate"}
          /\ run'.prepared = FALSE /\ run'.result = NoResult
          /\ run'.pc = "handoff" => journal[D].phase \in {"none", "reserved"}
          /\ run'.pc = "duplicate" => journal[D].phase # "none"
        BY <1>1, ReserveFrame
    <2>2. \/ UNCHANGED journal /\ journal[D].phase # "none"
          \/ /\ journal[D].phase = "none"
             /\ journal' = [journal EXCEPT ![D] =
                    [phase |-> "reserved", proof |-> "none", plan |-> plan]]
        BY <1>1 DEF Reserve
    <2>3. ~IsOpen("yesterday")'
        BY <2>2, RunnerLeavesYesterday
    <2>4. CASE run'.pc = "handoff"
      <3>1. journal'[D].phase = "reserved"
          BY <1>0, <2>1, <2>2, <2>4 DEF TypeOK
      <3> QED BY <2>1, <2>3, <2>4, <3>1, WorkingAttended DEF NoResult, Settling
    <2>5. CASE run'.pc = "duplicate"
      <3>1. run.pc = "idle" /\ UNCHANGED journal
          BY <1>1, <2>1, <2>2, <2>5 DEF Reserve, Here
      <3> QED BY <2>5, <3>1, StaysSettled DEF Settling
    <2> QED BY <2>1, <2>4, <2>5
  <1>2. CASE Duplicate \/ Release \/ Promote
    <2>1. /\ UNCHANGED journal /\ run.pc \in Settling
          /\ run' = Idle \/ Goto("promote")
        BY <1>2 DEF Duplicate, Release, Promote, Here, Settling
    <2>2. run'.pc \in Settling
        BY <1>0, <2>1, GotoFrame, IdleFrame DEF Settling, Pcs
    <2> QED BY <2>1, <2>2, StaysSettled
  <1>3. CASE Finish
    <2>1. /\ UNCHANGED journal /\ run.pc \in Settling
          /\ run' = Idle \/ Goto("promote")
        BY <1>3 DEF Finish, Here, Settling
    <2>2. run'.pc \in Settling
        BY <1>0, <2>1, GotoFrame, IdleFrame DEF Settling, Pcs
    <2> QED BY <2>1, <2>2, StaysSettled
  <1>4. CASE Handoff
    <2>1. /\ UNCHANGED journal /\ run.pc = "handoff" /\ Goto("observe")
        BY <1>4 DEF Handoff, Here
    <2> QED BY <1>0, <2>1, GoesOnAttended DEF Settling
  <1>5. CASE HandoffFails
    <2>1. run' = Idle /\ journal' = [journal EXCEPT ![D] = NoRecord]
        BY <1>5 DEF HandoffFails
    <2>2. journal'[D] = NoRecord
        BY <1>0, <2>1 DEF TypeOK
    <2>3. ~IsOpen("yesterday")'
        BY <2>1, RunnerLeavesYesterday
    <2> QED BY <2>1, <2>2, <2>3, IdleFrame, SettledAttended DEF IsOpen, NoRecord, Settling
  <1>6. CASE Observe
    <2>0. run.pc = "observe" /\ UNCHANGED journal
        BY <1>6 DEF Observe, Here, store
    <2>1. \/ Goto("catch") \/ Goto("prepare")
          \/ \E stage \in {"blocked", "not_available", "already_done"} : Concluded(stage)
      <3>1. ASSUME NEW says \in StatusAnswers(kind, site[D]),
                   CASE says = "not_signed" -> Goto("prepare")
                     [] says = "unknown" -> Concluded("blocked")
                     [] OTHER -> Concluded(says)
            PROVE  Goto("prepare")
                   \/ \E stage \in {"blocked", "not_available", "already_done"} : Concluded(stage)
        <4>1. says \in {"unknown", "not_available", "already_done", "not_signed"}
            BY <1>0, ReadersAreTrue DEF TypeOK
        <4> QED BY <3>1, <4>1
      <3> QED BY <1>6, <3>1 DEF Observe
    <2>2. {"blocked", "not_available", "already_done"} \subseteq Decided \ {"succeeded", "submission_unknown"}
        BY DEF Decided, Failed, Terminal
    <2> QED BY <1>0, <2>0, <2>1, <2>2, GoesOnAttended, ConcludesAttended DEF Settling
  <1>7. CASE Prepare
    <2>0. run.pc = "prepare"
        BY <1>7 DEF Prepare, Here
    <2>1. CASE Goto("catch") /\ UNCHANGED journal
        BY <1>0, <2>0, <2>1, GoesOnAttended DEF Settling
    <2>2. CASE Journal(D, "prepared") /\ run' = [run EXCEPT !.pc = "fence", !.prepared = TRUE]
      <3>1. "prepared" \in Phases
          BY DEF Phases, Undecided
      <3>2. journal'[D].phase = "prepared" /\ ~IsOpen("yesterday")'
          BY <1>0, <2>2, <3>1, JournalTypes, RunnerLeavesYesterday
      <3>3. run'.pc = "fence" /\ run'.prepared
          BY <1>0, <2>2 DEF Runs
      <3> QED BY <3>2, <3>3, WorkingAttended DEF Settling
    <2> QED BY <1>7, <2>1, <2>2 DEF Prepare
  <1>8. CASE Fence
    <2>0. run.pc = "fence" /\ UNCHANGED journal /\ (Goto("submit") \/ Goto("catch"))
        BY <1>8 DEF Fence, Here
    <2> QED BY <1>0, <2>0, GoesOnAttended DEF Settling
  <1>9. CASE Submit
    <2>1. PICK o \in Submissions(kind, site[D]) :
              IF Conclude(o) = "verify" THEN Goto("verify") ELSE Concluded(Conclude(o))
        BY <1>9 DEF Submit
    <2>2. run.pc = "submit" /\ UNCHANGED journal
        BY <1>9 DEF Submit, Here, store
    <2>3. Conclude(o) \in {"verify", "submit_rejected", "submission_unknown"}
        BY <1>0, ConclusionsAreShaped DEF TypeOK
    <2>4. {"submit_rejected", "submission_unknown"} \subseteq Decided
        BY DEF Decided, Failed
    <2> QED BY <1>0, <1>a, <2>1, <2>2, <2>3, <2>4, GoesOnAttended, ConcludesAttended DEF Settling
  <1>10. CASE Verify
    <2>1. run.pc = "verify" /\ UNCHANGED journal
          /\ (Concluded("succeeded") \/ Concluded("submission_unknown"))
        BY <1>10 DEF Verify, Here, store
    <2>2. {"succeeded", "submission_unknown"} \subseteq Decided
        BY DEF Decided, Terminal
    <2> QED BY <1>a, <2>1, <2>2, ConcludesAttended DEF Settling
  <1>11. CASE Close
    <2>0. run.pc = "close" /\ UNCHANGED journal
        BY <1>11 DEF Close, Here, store
    <2>1. CASE Goto("record")
        BY <1>0, <2>0, <2>1, GoesOnAttended DEF Settling, Attended
    <2>2. CASE run' = [run EXCEPT !.pc = "catch", !.result = NoResult]
      <3>1. run'.pc = "catch" /\ run'.result = NoResult /\ UNCHANGED run.prepared
          BY <1>0, <2>2 DEF Runs
      <3>2. ~IsOpen("yesterday")'
          BY <2>0, RunnerLeavesYesterday
      <3> QED BY <2>0, <3>1, <3>2, WorkingAttended DEF Attended, Settling, NoResult
    <2> QED BY <1>11, <2>1, <2>2 DEF Close
  <1>12. CASE Record
    <2>0. run.pc = "record" /\ run.result.stage \in Decided /\ (run.result.mutation => run.prepared)
        BY <1>12 DEF Record, Here, Attended, Settling
    <2>1. PICK phase \in Phases :
             /\ phase = run.result.stage \/ phase = "blocked"
             /\ \/ /\ RecordIn(D, phase)
                   /\ run' = [run EXCEPT !.pc = "finish", !.result.stage = phase]
                \/ /\ (run.result.mutation /\ Goto("again")) \/ (~run.result.mutation /\ Goto("catch"))
                   /\ UNCHANGED <<journal, observed>>
        BY <1>12, RecordSteps
    <2>2. phase \in Decided
        BY <2>0, <2>1 DEF Decided, Failed
    <2>3. CASE RecordIn(D, phase) /\ run' = [run EXCEPT !.pc = "finish", !.result.stage = phase]
        BY <1>0, <2>2, <2>3, FinishFrame, ClosesAttended DEF Settling
    <2> QED BY <1>0, <2>0, <2>1, <2>3, GoesOnAttended DEF Settling
  <1>13. CASE RecordAgain
    <2>1. run.pc = "again" /\ journal[D].phase = "prepared"
        BY <1>13 DEF RecordAgain, Here, Attended, Settling
    <2>2. Recordable(journal[D].phase, "submission_unknown", TRUE)
        BY <2>1 DEF Recordable
    <2>3. RecordIn(D, "submission_unknown")
          /\ run' = [run EXCEPT !.pc = "finish", !.result.stage = "submission_unknown"]
        BY <1>13, <2>2 DEF RecordAgain
    <2>4. "submission_unknown" \in Decided /\ "submission_unknown" \in Phases
        BY DEF Decided, Phases, Undecided
    <2> QED BY <1>0, <2>3, <2>4, FinishFrame, ClosesAttended DEF Settling
  <1>14. CASE Catch
    <2>1. /\ run.pc = "catch"
          /\ journal[D].phase = IF run.prepared THEN "prepared" ELSE "reserved"
          /\ MutationPossible => run.prepared
        BY <1>14 DEF Catch, Here, Attended, Settling, MutationPossible
    <2>2. CASE MutationPossible
      <3>1. Recordable(journal[D].phase, "submission_unknown", MutationPossible)
          BY <2>1, <2>2 DEF Recordable
      <3>2. RecordIn(D, "submission_unknown") /\ Goto("release")
          BY <1>14, <2>2, <3>1 DEF Catch
      <3> QED BY <1>0, <3>2, GotoFrame, ClosesAttended DEF Decided, Settling, Pcs
    <2>3. CASE ~MutationPossible
      <3>1. Recordable(journal[D].phase, "blocked", MutationPossible)
          BY <2>1, <2>3 DEF Recordable, Failed
      <3>2. RecordIn(D, "blocked") /\ Goto("release")
          BY <1>14, <2>3, <3>1 DEF Catch
      <3> QED BY <1>0, <3>2, GotoFrame, ClosesAttended DEF Decided, Failed, Settling, Pcs
    <2> QED BY <2>2, <2>3
  <1>15. ~Crash
      BY DEF Crash
  <1> QED BY <1>1, <1>2, <1>3, <1>4, <1>5, <1>6, <1>7, <1>8, <1>9, <1>10, <1>11, <1>12, <1>13,
             <1>14, <1>15 DEF Runner

LEMMA NextAttended ==
    Inv /\ TypeOK /\ DoubtInv /\ AttendedInv /\ [Next]_vars => AttendedInv'
  <1> SUFFICES ASSUME Inv, TypeOK, DoubtInv, AttendedInv, [Next]_vars, faults' = 0
               PROVE  Attended'
      BY DEF AttendedInv
  <1>1. Attended /\ ~Fault
      BY NoFaultStep DEF AttendedInv
  <1>2. CASE Runner
      BY <1>1, <1>2, RunnerAttended
  <1>3. CASE World \/ PrepareTask \/ ReconcileRow \/ AdoptRow \/ AdoptGivesBack \/ ToolPromotes
             \/ ToolDies \/ (\E d \in Days : ReadOnly(d) \/ Adopt(d)) \/ UNCHANGED vars
    <2>1. UNCHANGED <<run, journal>>
        BY <1>3 DEF World, PlanChange, SiteMoves, PrepareTask, ReconcileRow, AdoptRow,
             AdoptGivesBack, ToolPromotes, ToolDies, ReadOnly, Adopt, vars, store
    <2> QED BY <1>1, <2>1, ScriptsAttended
  <1>4. ASSUME NEW d \in Days, Journal(d, "succeeded"), UNCHANGED run,
               journal[d].phase \notin {"reserved", "prepared"}
        PROVE  Attended'
    <2>1. "succeeded" \in Phases
        BY DEF Phases, Terminal
    <2>2. /\ journal'[d].phase = "succeeded"
          /\ \A e \in Days \ {d} : journal'[e] = journal[e]
        BY <1>4, <2>1, JournalTypes
    <2> QED BY <1>1, <1>4, <2>2, ScriptsAttended DEF IsOpen
  <1>5. CASE \E d \in Days : Reconcile(d)
      BY <1>4, <1>5 DEF Reconcile
  <1>6. CASE AdoptRecord
    <2>1. tool.day \in Days
        BY DEF TypeOK
    <2>2. CASE UNCHANGED journal
        BY <1>1, <1>6, <2>2, ScriptsAttended DEF AdoptRecord
    <2>3. CASE journal[tool.day].phase = "already_done" /\ Journal(tool.day, "succeeded")
        BY <1>4, <1>6, <2>1, <2>3 DEF AdoptRecord
    <2> QED BY <1>6, <2>2, <2>3 DEF AdoptRecord
  <1>7. ASSUME NEW d \in Days, Recover(d) PROVE Attended'
    <2>1. /\ journal' = [journal EXCEPT ![d].phase = "reserved", ![d].proof =
                 IF journal[d].phase = "submit_rejected" THEN "rejected" ELSE "other"]
          /\ UNCHANGED run /\ journal[d].phase \in Failed \cup {"submission_unknown"}
        BY <1>7 DEF Recover
    <2>2. PICK proof \in {"rejected", "other"} :
              journal' = [journal EXCEPT ![d].phase = "reserved", ![d].proof = proof]
        BY <2>1, Zenon
    <2>3. /\ journal'[d].phase = "reserved" /\ journal'[d].proof # "none"
          /\ \A e \in Days \ {d} : journal'[e] = journal[e]
        BY <2>2 DEF TypeOK
    <2> QED BY <1>1, <2>1, <2>3, ScriptsAttended DEF IsOpen, Failed
  <1> QED BY <1>2, <1>3, <1>4, <1>5, <1>6, <1>7 DEF Next, Scripts

(* A record is left open only by a crash or a failed write: whatever the   *)
(* run concluded, and wherever it was broken off by an error, it settles   *)
(* what it has reserved or prepared before it ends, and no script reopens  *)
(* a record without the proof a later run needs.                           *)
THEOREM OpenRecordsAreAttended == Spec => []OpenIsAttended
  <1>1. AttendedInv => OpenIsAttended
    <2>1. Days = {"yesterday", D} /\ "idle" \in Settling
        BY DEF Days, D, Settling
    <2> QED BY <2>1 DEF AttendedInv, Attended, OpenIsAttended, IsOpen, Here
  <1> QED
      BY InitInv, InitTypes, InitDoubt, InitAttended, NextInv, NextTypes, NextDoubt,
         NextAttended, <1>1, PTL DEF Spec

=============================================================================
