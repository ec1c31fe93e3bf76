------------------------ MODULE DashboardOperations ------------------------
(***************************************************************************)
(* Operation requests of the dashboard.  The dashboard server on the NAS    *)
(* appends requests to operation-requests.json; one worker process on the  *)
(* Windows host claims them over ssh, executes them and reports the        *)
(* result.  The worker keeps a file per request, so a result it could not  *)
(* report is reported by a later worker.                                   *)
(*                                                                         *)
(* An ssh call may be lost, may be applied with its answer lost, or may be  *)
(* applied after the worker has given it up.  The worker may die anywhere. *)
(***************************************************************************)
EXTENDS Naturals, Sequences, FiniteSets

CONSTANTS
  Id,        \* request ids (random in the code)
  Target,    \* a site account and action, what duplicates are told by
  DayLen,    \* ticks in a business day
  TTL,       \* ticks a request stays valid (two hours)
  Wait,      \* ticks a deferred request waits (five minutes)
  MaxWait,   \* longest wait the queue accepts (thirty minutes)
  MaxActive, \* active requests the queue holds (20)
  Keep,      \* finished requests it remembers (199)
  MaxClaims, \* bound on the claims of one request
  Horizon    \* bound on the clock

ASSUME DashboardOperationsAssumption ==
  /\ DayLen \in Nat \ {0} /\ TTL \in Nat \ {0} /\ Wait \in Nat \ {0} /\ MaxWait \in Nat
  /\ Wait <= MaxWait
  /\ MaxActive \in Nat \ {0} /\ Keep \in Nat /\ MaxClaims \in Nat /\ Horizon \in Nat

VARIABLES
  now,    \* the clock
  queue,  \* operation-requests.json, a sequence of requests
  late,   \* calls given up by the worker that may still be applied
  file,   \* the worker's file of each request
  pc,     \* where the worker is
  held,    \* the claim it works on
  result, \* the result it holds
  ran     \* what executions of each request have come to

opVars == <<now, queue, late, file, pc, held, result, ran>>

Active == {"queued", "running"}
Status == Active \cup {"done", "interrupted", "expired"}
\* An "unfit" result is a finished one whose text the queue will not take.
Result == [status : {"none", "done", "unfit", "interrupted", "queued"}, at : 0..Horizon + Wait]
NoResult == [status |-> "none", at |-> 0]
Claim  == [id : Id, token : 0..MaxClaims]
NoCall == [mode |-> "none"]
Calls  == {[mode |-> "claim"]}
          \cup [mode : {"finish"}, claim : Claim, result : Result]
NoFile == [token |-> 0, result |-> NoResult, published |-> TRUE]
Steps  == {"off", "resend", "republish", "remark", "claim", "claimed", "execute",
           "executing", "executed", "finish", "mark"}

Request == [id : Id, target : Target, status : Status, token : 0..MaxClaims,
            created : 0..Horizon, eligible : 0..Horizon + Wait]

Day(t) == t \div DayLen
Ids(q) == {q[i].id : i \in DOMAIN q}
Unpublished == {i \in Id : ~file[i].published}

OpTypeOK ==
  /\ now \in 0..Horizon
  /\ queue \in Seq(Request)
  /\ late \subseteq Calls
  /\ file \in [Id -> [token : 0..MaxClaims, result : Result, published : BOOLEAN]]
  /\ pc \in Steps
  /\ held \in [id : Id, token : 0..MaxClaims, created : 0..Horizon]
  /\ result \in Result
  /\ ran \in [Id -> {"never", "unknown", "deferred", "done"}]

OpInit ==
  /\ now = 0 /\ queue = <<>> /\ late = {}
  /\ file = [i \in Id |-> NoFile]
  /\ pc = "off" /\ held \in [id : Id, token : {0}, created : {0}] /\ result = NoResult
  /\ ran = [i \in Id |-> "never"]

-----------------------------------------------------------------------------
(* The queue on the NAS, one locked transaction per operation *)

Over(r) == now >= r.created + TTL \/ Day(r.created) # Day(now)
IsActive(r) == r.status \in Active

\* Mutant: the age of a request ends up in its status.
ExpiredStale(q) ==
  [i \in DOMAIN q |-> IF IsActive(q[i]) /\ Over(q[i]) THEN [q[i] EXCEPT !.status = "stale"] ELSE q[i]]

\* Expiry as every transaction but finish applies it.
Expired(q) ==
  [i \in DOMAIN q |->
    IF IsActive(q[i]) /\ Over(q[i])
      THEN [q[i] EXCEPT !.status = IF @ = "running" THEN "interrupted" ELSE "expired"]
      ELSE q[i]]

\* The members of a set of positions, in order.
Ascending(S) ==
  CHOOSE s \in [1..Cardinality(S) -> S] : \A m, n \in DOMAIN s : m < n => s[m] < s[n]

\* The active requests, then the last Keep of the others.
Trimmed(q) ==
  LET live   == {j \in DOMAIN q : IsActive(q[j])}
      over   == DOMAIN q \ live
      recent == {j \in over : Cardinality({k \in over : k > j}) < Keep}
      order  == Ascending(live) \o Ascending(recent)
  IN [n \in DOMAIN order |-> q[order[n]]]

\* A click on the dashboard: a duplicate of an active or just created request
\* (younger than a tick) is that request; a full queue refuses.  Ids are random:
\* one the worker may still know is not drawn again.
Enqueue(i, target) ==
  LET q == Expired(queue)
      duplicates == {j \in DOMAIN q : q[j].target = target
                                      /\ (IsActive(q[j]) \/ q[j].created = now)}
      kept == Trimmed(q)
      room == Cardinality({j \in DOMAIN kept : IsActive(kept[j])}) < MaxActive
  IN /\ i \notin Ids(queue) /\ file[i] = NoFile /\ ran[i] = "never"
     /\ pc = "claimed" => i # held.id
     /\ queue' = IF duplicates # {} THEN q
                 ELSE IF room
                   THEN Append(kept, [id |-> i, target |-> target, status |-> "queued",
                                      token |-> 0, created |-> now, eligible |-> 0])
                   ELSE queue
     /\ UNCHANGED <<now, late, file, pc, held, result, ran>>

Claimable(q) == {j \in DOMAIN q : q[j].status = "queued" /\ q[j].eligible <= now}
First(js) == CHOOSE j \in js : \A k \in js : j <= k

\* Bound: the next claim stays within MaxClaims.
ClaimBounded ==
  LET q == Expired(queue)
  IN Claimable(q) # {} => q[First(Claimable(q))].token < MaxClaims

ClaimedQueue ==
  LET q == Expired(queue) IN
  IF Claimable(q) = {} THEN q
  ELSE [q EXCEPT ![First(Claimable(q))].status = "running",
                 ![First(Claimable(q))].token = @ + 1]

\* Mutant: a finished request is overwritten like a running one.
FinishesAny(c, rs) == {j \in DOMAIN queue : queue[j].id = c.id /\ queue[j].token = c.token}

\* The request a finish call changes, if it does.
Finishes(c, rs) ==
  {j \in DOMAIN queue : /\ queue[j].id = c.id /\ queue[j].token = c.token
                        /\ IsActive(queue[j])}

\* Mutant: a repeated report is refused instead of acknowledged.
RefusesRepeated(c, rs) == rs.status = "unfit" \/ Finishes(c, rs) = {}

\* A finish call fails when its result, the lease or the proposed retry time is
\* not valid.
Refuses(c, rs) ==
  \/ rs.status = "unfit"
  \/ ~\E j \in DOMAIN queue : queue[j].id = c.id /\ queue[j].token = c.token
  \/ Finishes(c, rs) # {} /\ rs.status = "queued" /\ (rs.at <= now \/ rs.at > now + MaxWait)

FinishedQueue(c, rs) ==
  IF Refuses(c, rs) THEN queue
  ELSE [j \in DOMAIN queue |->
         IF j \in Finishes(c, rs)
           THEN [queue[j] EXCEPT !.status = rs.status,
                                 !.eligible = IF rs.status = "queued" THEN rs.at ELSE @]
           ELSE queue[j]]

Applied(call) ==
  IF call.mode = "claim" THEN ClaimedQueue ELSE FinishedQueue(call.claim, call.result)

-----------------------------------------------------------------------------
(* The worker *)

Call ==
  CASE pc = "claim" -> [mode |-> "claim"]
    [] pc \in {"republish", "finish"} ->
         [mode |-> "finish", claim |-> [id |-> held.id, token |-> held.token], result |-> result]
    [] OTHER -> NoCall

\* The worker takes its lock and first turns to the results not yet reported.
Start ==
  /\ pc = "off"
  /\ pc' = "resend"
  /\ UNCHANGED <<now, queue, late, file, held, result, ran>>

\* Mutant: an interrupted execution is put back into the queue.
ResendQueued(i) ==
  /\ pc = "resend" /\ i \in Unpublished
  /\ held' = [id |-> i, token |-> file[i].token, created |-> 0]
  /\ result' = IF file[i].result = NoResult THEN [status |-> "queued", at |-> now + Wait]
               ELSE file[i].result
  /\ pc' = "republish"
  /\ UNCHANGED <<now, queue, late, file, ran>>

\* An execution without a result was interrupted.
Resend(i) ==
  /\ pc = "resend" /\ i \in Unpublished
  /\ held' = [id |-> i, token |-> file[i].token, created |-> 0]
  /\ result' = IF file[i].result = NoResult THEN [status |-> "interrupted", at |-> 0]
               ELSE file[i].result
  /\ pc' = "republish"
  /\ UNCHANGED <<now, queue, late, file, ran>>

AllSent ==
  /\ pc = "resend" /\ Unpublished = {}
  /\ pc' = "claim"
  /\ UNCHANGED <<now, queue, late, file, held, result, ran>>

\* The claim is applied and its answer arrives.
AnswerClaim ==
  LET q == Expired(queue)
      j == First(Claimable(q))
  IN /\ pc = "claim" /\ ClaimBounded
     /\ queue' = ClaimedQueue
     /\ IF Claimable(q) = {}
          THEN pc' = "off" /\ UNCHANGED held
          ELSE /\ held' = [id |-> q[j].id, token |-> q[j].token + 1,
                            created |-> q[j].created]
               /\ pc' = "claimed"
     /\ UNCHANGED <<now, late, file, result, ran>>

\* The finish call is applied and its answer arrives; a refusal ends the turn.
AnswerFinish ==
  /\ pc \in {"republish", "finish"}
  /\ queue' = FinishedQueue(held, result)
  /\ pc' = IF Refuses(held, result) THEN "off"
           ELSE IF pc = "finish" THEN "mark" ELSE "remark"
  /\ UNCHANGED <<now, late, file, held, result, ran>>

\* No answer: the call was lost, was applied, or may yet be.
NoAnswer ==
  /\ Call # NoCall
  /\ pc = "claim" => ClaimBounded
  /\ \/ queue' = Applied(Call) /\ UNCHANGED late
     \/ UNCHANGED <<queue, late>>
     \/ late' = late \cup {Call} /\ UNCHANGED queue
  /\ pc' = "off"
  /\ UNCHANGED <<now, file, held, result, ran>>

LateCall(call) ==
  /\ call \in late
  /\ call.mode = "claim" => ClaimBounded
  /\ late' = late \ {call}
  /\ queue' = Applied(call)
  /\ UNCHANGED <<now, file, pc, held, result, ran>>

SaveRunning ==
  /\ pc = "claimed"
  /\ file' = [file EXCEPT ![held.id] = [token |-> held.token, result |-> NoResult,
                                       published |-> FALSE]]
  /\ pc' = "execute"
  /\ UNCHANGED <<now, queue, late, held, result, ran>>

\* executeDashboardOperation refuses a request that is no longer valid, then
\* takes the executor's locks, or is deferred, before anything can happen.
Execute ==
  /\ pc = "execute"
  /\ \/ /\ ~Over(held)
        /\ ran' = [ran EXCEPT ![held.id] = "unknown"]
        /\ pc' = "executing" /\ UNCHANGED result
     \/ /\ result' = [status |-> "done", at |-> 0]
        /\ pc' = "executed" /\ UNCHANGED ran
     \/ /\ result' = [status |-> "queued", at |-> now + Wait]
        /\ pc' = "executed" /\ UNCHANGED ran
  /\ UNCHANGED <<now, queue, late, file, held>>

\* The execution returns: completed, blocked or waiting for a login, or
\* deferred after it has verified that nothing was submitted.  What a completed
\* verification says is the helper's own text, whatever it is.
Return ==
  /\ pc = "executing"
  /\ \/ /\ result' \in [status : {"done", "unfit"}, at : {0}]
        /\ ran' = [ran EXCEPT ![held.id] = "done"]
     \/ /\ result' = [status |-> "queued", at |-> now + Wait]
        /\ ran' = [ran EXCEPT ![held.id] = "deferred"]
  /\ pc' = "executed"
  /\ UNCHANGED <<now, queue, late, file, held>>

\* Mutant: the result is marked as reported when it is saved.
SaveResultEarly ==
  /\ pc = "executed"
  /\ file' = [file EXCEPT ![held.id].result = result, ![held.id].published = TRUE]
  /\ pc' = "finish"
  /\ UNCHANGED <<now, queue, late, held, result, ran>>

SaveResult ==
  /\ pc = "executed"
  /\ file' = [file EXCEPT ![held.id].result = result]
  /\ pc' = "finish"
  /\ UNCHANGED <<now, queue, late, held, result, ran>>

MarkPublished ==
  /\ pc \in {"mark", "remark"}
  /\ file' = [file EXCEPT ![held.id].result = result, ![held.id].published = TRUE]
  /\ pc' = IF pc = "mark" THEN "off" ELSE "resend"
  /\ UNCHANGED <<now, queue, late, held, result, ran>>

Crash ==
  /\ pc # "off"
  /\ pc' = "off"
  /\ UNCHANGED <<now, queue, late, file, held, result, ran>>

Tick ==
  /\ now < Horizon
  /\ now' = now + 1
  /\ UNCHANGED <<queue, late, file, pc, held, result, ran>>

OpNext ==
  \/ \E i \in Id : Resend(i) \/ \E target \in Target : Enqueue(i, target)
  \/ Start \/ AllSent \/ AnswerClaim \/ AnswerFinish \/ NoAnswer
  \/ \E call \in late : LateCall(call)
  \/ SaveRunning \/ Execute \/ Return \/ SaveResult \/ MarkPublished
  \/ Crash \/ Tick

OpSpec == OpInit /\ [][OpNext]_opVars

-----------------------------------------------------------------------------
(* Properties *)

\* An operation whose execution began and left no known outcome is never
\* executed again, whatever is lost, resent or applied late.
NoBlindReexecution == [][\A i \in Id : pc = "execute" /\ pc' = "executing" /\ held.id = i
                                        => ran[i] \in {"never", "deferred"}]_opVars

\* A site account and action has at most one request that may still be
\* executed: a late report never revives one that was replaced.
OneActivePerTarget ==
  \A i, j \in DOMAIN queue :
    IsActive(queue[i]) /\ IsActive(queue[j]) /\ queue[i].target = queue[j].target => i = j

\* What the dashboard shows as ended stays as it was shown.
EndedIsFinal ==
  [][\A i \in DOMAIN queue : \A j \in DOMAIN queue' :
       queue[i].id = queue'[j].id /\ ~IsActive(queue[i]) => queue'[j].status = queue[i].status]_opVars

\* A result the worker takes for reported has reached the queue: under that
\* claim the request is no longer running, and not waiting unless deferred.
ReportedIsRecorded ==
  \A i \in Id : \A j \in DOMAIN queue :
    /\ queue[j].id = i /\ file[i].token > 0 /\ queue[j].token = file[i].token
    /\ file[i].published
    => /\ queue[j].status # "running"
       /\ queue[j].status = "queued" => file[i].result.status = "queued"

\* Every saved claim is settled with the queue in the end, so the worker gets
\* to new requests again.
ResultsDrain == \A i \in Id : i \in Unpublished ~> i \notin Unpublished

\* A deferral that is still unreported when its own retry time comes.
Lapsed(i) == file[i].result.status = "queued" /\ file[i].result.at <= now

\* The queue has trimmed the request before its result was reported.
Forgotten(i) == i \notin Ids(queue)

\* The text of the result is none the queue takes.
Unfit(i) == file[i].result.status = "unfit"

\* The three ways an unreported result is refused for ever, and with it every
\* later turn of the worker.
Stuck(i) == i \in Unpublished /\ (Lapsed(i) \/ Forgotten(i) \/ Unfit(i))

\* Again and again the queue and the worker agree on every saved claim, so the
\* worker gets to new requests, unless a result is stuck: its deferral lapsed,
\* its request was trimmed, or its text is refused.  No other order of lost,
\* late and repeated calls, deaths, expiry and requeueing stops it.
DrainsUnlessStuck == []<>(Unpublished = {} \/ \E i \in Id : Stuck(i))

\* The scheduler starts a worker again and again, every call times out and an
\* execution ends; the link answers again and again, and no step of the worker
\* is the one it dies in for ever.
FairSpec ==
  /\ OpSpec
  /\ WF_opVars(Start \/ NoAnswer \/ SaveRunning \/ Execute \/ Return \/ SaveResult)
  /\ SF_opVars(\E i \in Id : Resend(i)) /\ SF_opVars(AnswerFinish) /\ SF_opVars(MarkPublished)
=============================================================================
