---------------------------- MODULE RetryPolicy ----------------------------
(***************************************************************************)
(* When an unresolved check-in may be tried again: execution/src/          *)
(* retry-policy.mjs.  A day has SlotsPerDay slots and a time is a number   *)
(* of slots, so that Day and Slot are what the Shanghai calendar tells of  *)
(* it; the first slot of a day is the configured schedule and LateSlot the *)
(* configured late time.  Sites stands for result identities, in the order *)
(* localeCompare gives them.                                               *)
(***************************************************************************)
EXTENDS Integers, FiniteSets, FiniteSetsExt

CONSTANTS Sites,          \* result identities, as numbers
          Group,          \* retry group of a site: sites share an upstream
          SlotsPerDay, LateSlot,
          SiteLimit,      \* upstreamUnavailableMaxDailyAttempts
          GroupLimit,     \* upstreamFailureGroupMaxDailyAttempts
          LoginLimit,     \* loginRetryMaxDailyAttempts, and the challenge one
          RateLimit,      \* rateLimitMaxDailyAttempts
          MaxDelay        \* rateLimitMaxDelayMs, in slots

ASSUME RetryAssumption ==
    /\ Sites \subseteq Nat /\ IsFiniteSet(Sites)
    /\ SlotsPerDay \in Nat \ {0} /\ LateSlot \in 0 .. SlotsPerDay - 1
    /\ {SiteLimit, GroupLimit, LoginLimit, RateLimit, MaxDelay} \subseteq Nat \ {0}

\* What the doubling of the delay gives; the provers know no powers.
ASSUME BackoffAssumption == \A k \in 0 .. RateLimit : 2 ^ k \in Nat \ {0}

NoTime == -1
Day(t) == t \div SlotsPerDay
Slot(t) == t % SlotsPerDay

(***************************************************************************)
(* A result keeps what later decisions read.  "done" is a terminal result  *)
(* (signed, already signed, or confirmed not available), "retry" an error, *)
(* a challenge or no action, "weak" a visit nothing confirmed; sub says a  *)
(* submission was sent whose outcome the engine may not repeat.            *)
(***************************************************************************)
Causes == {"none", "upstream", "login", "challenge", "rate", "harvest"}
Results == [status : {"none", "done", "retry", "login", "deferred", "attention", "weak"},
            cause : Causes, next : Int, seq : Nat, seqDay : Int,
            late : BOOLEAN, exhausted : BOOLEAN, sub : BOOLEAN]

Outcome(status, cause, sub) ==
    [status |-> status, cause |-> cause, next |-> NoTime, seq |-> 0, seqDay |-> NoTime,
     late |-> FALSE, exhausted |-> FALSE, sub |-> sub]
NoResult == Outcome("none", "none", FALSE)

Terminal(r) == r.status = "done"

\* Today's late time while it is still to come, and tomorrow's schedule.
LateToday(now) == IF Slot(now) < LateSlot THEN Day(now) * SlotsPerDay + LateSlot ELSE NoTime
NextDay(now) == (Day(now) + 1) * SlotsPerDay

\* A deferred result without a time gets one: a slot later.
WithRetrySchedule(r, now) ==
    IF r.status = "deferred" /\ r.next = NoTime THEN [r EXCEPT !.next = now + 1] ELSE r

\* A login nothing could repair is put off instead of reported at once.
DeferUnresolvedLogin(r, now) ==
    IF r.status = "login"
      THEN WithRetrySchedule([r EXCEPT !.status = "deferred",
                                       !.cause = IF @ \in {"upstream", "rate"} THEN @ ELSE "login"], now)
      ELSE r

\* Mutant: a submission whose outcome is unknown may be tried again.
RetryEligibleBlind(r, now) ==
    \/ r.status \in {"retry", "login"}
    \/ r.status = "deferred" /\ r.next <= now

RetryEligible(r, now) ==
    /\ ~r.sub
    /\ \/ r.status \in {"retry", "login"}
       \/ r.status = "deferred" /\ r.next <= now

-----------------------------------------------------------------------------
(* One more try of the same cause on the same day: count it, and settle    *)
(* when the next one is.                                                   *)

PutOff(r, now) == [r EXCEPT !.exhausted = TRUE, !.late = FALSE, !.next = NextDay(now)]

NextSequence(r, previous, now) ==
    IF /\ previous.status = "deferred" /\ previous.cause = r.cause
       /\ previous.seqDay = Day(now)
      THEN previous.seq + 1
      ELSE 1

AdvanceUpstream(r, previous, now) ==
    IF r.seq < SiteLimit THEN r
    ELSE IF ~previous.late /\ LateToday(now) # NoTime
      THEN [r EXCEPT !.late = TRUE, !.next = LateToday(now)]
      ELSE PutOff(r, now)

\* Logins and safety challenges stop for good: a person has to look.
AdvanceLogin(r) ==
    IF r.seq < LoginLimit THEN r
    ELSE [r EXCEPT !.status = "attention", !.exhausted = TRUE, !.next = NoTime]

AdvanceRate(r, now) ==
    IF r.seq >= RateLimit THEN PutOff(r, now)
    ELSE [r EXCEPT !.next = now + Min({MaxDelay, 2 ^ (r.seq - 1)})]

AdvanceDeferredRetry(r, previous, now) ==
    IF r.status # "deferred" THEN r
    ELSE IF r.cause = "harvest" /\ ~r.sub
      THEN [r EXCEPT !.seq = 0, !.seqDay = Day(now)]
    ELSE LET n == [r EXCEPT !.seq = NextSequence(r, previous, now), !.seqDay = Day(now)]
         IN  CASE r.cause = "upstream" -> AdvanceUpstream(n, previous, now)
               [] r.cause \in {"login", "challenge"} -> AdvanceLogin(n)
               [] r.cause = "rate" -> AdvanceRate(n, now)
               [] OTHER -> n

-----------------------------------------------------------------------------
(* The circuit breaker of an upstream: once its sites have used its tries, *)
(* one of them keeps a late probe and the others wait for tomorrow.        *)

Members(results, g) == {s \in Sites : results[s].cause = "upstream" /\ Group[s] = g}
Tries(results, s) == Max({1, results[s].seq})
GroupTries(results, g) == MapThenSumSet(LAMBDA s : Tries(results, s), Members(results, g))

Reserved(results, g, now) ==
    {s \in Members(results, g) :
        /\ results[s].late /\ ~results[s].exhausted /\ results[s].seqDay = Day(now)
        /\ results[s].next # NoTime /\ Day(results[s].next) = Day(now)}

\* Mutant: the breaker reserves a late probe for every site of the group.
CircuitOfEach(results, s, now) ==
    LET g == Group[s] IN
    IF \/ results[s].cause # "upstream" \/ GroupTries(results, g) < GroupLimit
       \/ s \in Reserved(results, g, now)
      THEN results[s]
    ELSE IF ~results[s].exhausted /\ LateToday(now) # NoTime
      THEN [results[s] EXCEPT !.late = TRUE, !.next = LateToday(now), !.seqDay = Day(now)]
      ELSE PutOff(results[s], now)

CircuitOf(results, s, now) ==
    LET g == Group[s]
        kept == Reserved(results, g, now)
    IN  IF results[s].cause # "upstream" \/ GroupTries(results, g) < GroupLimit
          THEN results[s]
        ELSE IF kept # {} /\ s = Min(kept) THEN results[s]
        ELSE IF /\ kept = {} /\ ~results[s].exhausted
                /\ LateToday(now) # NoTime /\ s = Min(Members(results, g))
          THEN [results[s] EXCEPT !.late = TRUE, !.next = LateToday(now),
                                  !.seqDay = IF @ = NoTime THEN Day(now) ELSE @]
          ELSE PutOff(results[s], now)

CircuitBreakers(results, now) == [s \in Sites |-> CircuitOf(results, s, now)]

\* The results of a run as it reports them: previous are those it resumed.
AdvanceAttempted(results, attempted, previous, now) ==
    CircuitBreakers([s \in Sites |->
        IF s \in attempted
          THEN AdvanceDeferredRetry(DeferUnresolvedLogin(results[s], now), previous[s], now)
          ELSE results[s]], now)

=============================================================================
