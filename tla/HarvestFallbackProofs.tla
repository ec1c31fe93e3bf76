------------------------ MODULE HarvestFallbackProofs ------------------------
(***************************************************************************)
(* For any candidate, budgets, clock and number of runs and crashes: what  *)
(* the fallback worker's journal says was not sent was not sent, the day's *)
(* budgets hold, no attempt follows a doubtful one without a reading, and  *)
(* a confirmation it records is true and is not taken back.                *)
(***************************************************************************)
EXTENDS HarvestFallback, FiniteSetTheorems, SequenceTheorems, TLAPS

\* A journal one of whose days has its last entry replaced.
LEMMA LastReplaced ==
  ASSUME NEW S, NEW f \in [Days -> Seq(S)], NEW d \in Days, f[d] # <<>>, NEW a \in S,
         NEW g, g = [f EXCEPT ![d][Len(f[d])] = a]
  PROVE  /\ g \in [Days -> Seq(S)]
         /\ Len(f[d]) \in DOMAIN f[d] /\ Len(f[d]) # 0
         /\ \A e \in Days : Len(g[e]) = Len(f[e]) /\ DOMAIN g[e] = DOMAIN f[e]
         /\ g[d][Len(f[d])] = a
         /\ \A e \in Days : \A i \in DOMAIN f[e] : ~(e = d /\ i = Len(f[d])) => g[e][i] = f[e][i]
<1>1. /\ f[d] \in Seq(S) /\ Len(f[d]) \in Nat /\ Len(f[d]) # 0
      /\ \A e \in Days : DOMAIN f[e] = 1..Len(f[e]) /\ Len(f[e]) \in Nat /\ f[e] \in Seq(S)
  BY LenProperties, EmptySeq
<1> DEFINE s == [f[d] EXCEPT ![Len(f[d])] = a]
<1>2. s \in Seq(S) /\ Len(s) = Len(f[d]) /\ DOMAIN s = DOMAIN f[d] /\ s[Len(f[d])] = a
      /\ \A i \in DOMAIN f[d] : i # Len(f[d]) => s[i] = f[d][i]
  BY <1>1, ExceptSeq
<1>3. g = [f EXCEPT ![d] = s]
  OBVIOUS
<1> HIDE DEF s
<1> QED
  BY <1>1, <1>2, <1>3

\* A journal one of whose days has an entry more.
LEMMA OneAppended ==
  ASSUME NEW S, NEW f \in [Days -> Seq(S)], NEW d \in Days, NEW a \in S,
         NEW g, g = [f EXCEPT ![d] = Append(@, a)]
  PROVE  /\ g \in [Days -> Seq(S)]
         /\ Len(f[d]) \in Nat /\ Len(g[d]) = Len(f[d]) + 1 /\ g[d] # <<>>
         /\ g[d][Len(g[d])] = a
         /\ \A e \in Days : e # d => g[e] = f[e]
         /\ \A e \in Days : \A i \in DOMAIN f[e] : i \in DOMAIN g[e] /\ g[e][i] = f[e][i]
         /\ DOMAIN g[d] = DOMAIN f[d] \cup {Len(f[d]) + 1}
<1>1. \A e \in Days : DOMAIN f[e] = 1..Len(f[e]) /\ Len(f[e]) \in Nat /\ f[e] \in Seq(S)
  BY LenProperties
<1> DEFINE s == Append(f[d], a)
<1>2. /\ s \in Seq(S) /\ Len(s) = Len(f[d]) + 1 /\ s # <<>> /\ s[Len(f[d]) + 1] = a
      /\ \A i \in 1..Len(f[d]) : s[i] = f[d][i]
  BY <1>1, AppendProperties
<1>3. DOMAIN s = 1..(Len(f[d]) + 1)
  BY <1>2, LenProperties
<1>4. g = [f EXCEPT ![d] = s]
  OBVIOUS
<1> HIDE DEF s
<1> QED
  BY <1>1, <1>2, <1>3, <1>4

-----------------------------------------------------------------------------
(* Types *)

Executor == [day : Days, index : Nat, verify : BOOLEAN, sent : BOOLEAN]

\* A run that has persisted its attempt and goes on with it.
Busy == pc \in {"intent", "dispatched", "received", "published"}

Journals ==
  /\ attempts \in [Days -> Seq(Attempt)] /\ reads \in [Days -> Seq(Read)]
  /\ supplement \in [Days -> Entry]

Typed ==
  /\ now \in Time /\ now # 0 /\ kind \in AllKinds /\ recovered \in Time
  /\ Journals
  /\ pc \in Steps /\ task \in Task /\ seen \in Page
  /\ exec \in Executor
  /\ runs \in 0..MaxRuns /\ crashes \in 0..MaxCrashes
  /\ pc = "planned" => runs < MaxRuns
  /\ pc \notin {"idle", "planned"} => runs # 0
  /\ signedDays \subseteq Days /\ sent \subseteq Days \X Nat /\ sure \in BOOLEAN
  /\ pc \in {"reading", "read"} => reads[task.day] # <<>>
  /\ Busy => attempts[task.day] # <<>>

\* Where the executor and the requests point there is an attempt.
Pointed ==
  /\ exec # NoExec => exec.index \in DOMAIN attempts[exec.day]
  /\ \A s \in sent : s[2] \in DOMAIN attempts[s[1]]

LEMMA Times ==
  /\ 0 \in Time /\ 1 \in Time /\ 0 \in Days /\ 0 \in Later
  /\ \A t \in Time : t \in Nat /\ t \in Later /\ Day(t) \in Days
  /\ \A t \in Time, n \in {Backoff, Wait} : t + n \in Later
<1>1. 0 \div DayLen = 0
  BY HarvestFallbackAssumption
<1> QED
  BY <1>1, HarvestFallbackAssumption DEF Time, Days, Day, Later

LEMMA Limits == MaxRuns \in Nat /\ MaxCrashes \in Nat
BY HarvestFallbackAssumption

LEMMA Blank ==
  /\ NoTask \in Task /\ NoPage \in Page /\ NoExec \in Executor
  /\ NoTask.manual = NoRequest /\ NoExec.index = 0
BY Times DEF NoTask, Task, NoPage, Page, NoExec, Executor

LEMMA TypeInit == Init => Typed /\ Pointed
<1> SUFFICES ASSUME Init PROVE Typed /\ Pointed
  OBVIOUS
<1>1. Journals
  BY EmptySeq, Times DEF Init, Journals, Entry
<1> QED
  BY <1>1, Times, Blank, HarvestFallbackAssumption
     DEF Init, Typed, Pointed, Steps, Busy

\* Steps of the world, and of the run where it only looks.
LEMMA TypeLooks ==
  ASSUME Typed, UNCHANGED <<attempts, reads, supplement>>,
         \/ \E m \in Request \cup {NoRequest} : Plan(m)
         \/ Claim \/ Consider \/ Skip \/ ReadPage \/ Dispatch
         \/ Crash \/ Send \/ OrphanEnds \/ SiteSigns \/ LoginRecovered \/ Promote \/ Tick
  PROVE  Typed'
<1> USE DEF Typed, Unchanged, Rest, world, audit, count
<1>j. Journals'
  BY DEF Journals
<1>1. ASSUME NEW m \in Request \cup {NoRequest}, Plan(m) PROVE Typed'
  <2> DEFINE signal == IF Guarded /\ supplement[Today].status = "not_signed" THEN supplement[Today].at ELSE 0
  <2>1. signal \in Time /\ Today \in Days
    BY Times DEF Journals, Entry, Today
  <2>2. task' = [NoTask EXCEPT !.day = Today, !.manual = m, !.signal = signal] /\ pc' = "planned"
    BY <1>1 DEF Plan
  <2> HIDE DEF signal
  <2>3. task' \in Task
    BY <2>1, <2>2, Blank DEF Task
  <2> QED
    BY <1>1, <1>j, <2>2, <2>3 DEF Plan, Steps, Busy
<1>2. CASE Claim
  <2>1. runs < MaxRuns
    BY <1>2, Limits DEF Claim
  <2> QED
    BY <1>2, <1>j, <2>1, Limits DEF Claim, Steps, Busy
<1>3. CASE Consider
  <2>1. PICK verify \in BOOLEAN : task' = [task EXCEPT !.verify = verify, !.at = now]
    BY <1>3 DEF Consider, ReadDue
  <2>2. task' \in Task
    BY <2>1 DEF Task
  <2> QED
    BY <1>3, <1>j, <2>2 DEF Consider, Steps, Busy
<1>4. CASE Skip
  BY <1>4, <1>j, Blank DEF Skip, Steps, Busy
<1>11. CASE Crash
  BY <1>11, <1>j, Blank, Limits DEF Crash, Steps, Busy
<1>5. CASE ReadPage
  <2>1. seen' \in Page
    <3>1. PICK page \in Readable : seen' = page
      BY <1>5 DEF ReadPage
    <3>2. page.status \in {"signed", "not_signed", "unknown"} /\ page \in Page
      BY <3>1 DEF Readable, Page, Definite
    <3> QED
      BY <3>1, <3>2
  <2> QED
    BY <1>5, <1>j, <2>1 DEF ReadPage, Steps, Busy
<1>6. CASE Dispatch
  <2>1. Len(attempts[task.day]) \in Nat /\ task.day \in Days /\ task.verify \in BOOLEAN
    BY LenProperties DEF Journals, Task
  <2>2. exec' \in Executor
    BY <1>6, <2>1 DEF Dispatch, Executor
  <2> QED
    BY <1>6, <1>j, <2>2 DEF Dispatch, Steps, Busy
<1>7. CASE Send
  <2>1. exec' = [exec EXCEPT !.sent = TRUE] /\ sent' = sent \cup {<<exec.day, exec.index>>}
    BY <1>7 DEF Send
  <2>2. exec' \in Executor
    BY <2>1 DEF Executor
  <2>3. <<exec.day, exec.index>> \in Days \X Nat
    BY DEF Executor
  <2>4. sent' \subseteq Days \X Nat
    BY <2>1, <2>3
  <2> QED
    BY <1>7, <1>j, <2>2, <2>4 DEF Send, Busy
<1>8. CASE OrphanEnds
  BY <1>8, <1>j, Blank DEF OrphanEnds, Busy
<1>9. CASE SiteSigns \/ LoginRecovered \/ Tick
  <2>1. Today \in Days
    BY Times DEF Today
  <2>2. now' \in Time /\ now' # 0
    BY <1>9, HarvestFallbackAssumption DEF SiteSigns, LoginRecovered, Tick, Time
  <2> QED
    BY <1>9, <1>j, <2>1, <2>2 DEF SiteSigns, LoginRecovered, Tick, Busy
<1>10. CASE Promote
  BY <1>10, <1>j, HarvestFallbackAssumption DEF Promote, Busy
<1> QED
  BY <1>1, <1>2, <1>3, <1>4, <1>5, <1>6, <1>7, <1>8, <1>9, <1>10, <1>11

-----------------------------------------------------------------------------
(* How the journal is written *)

LEMMA CurrentIsTyped ==
  ASSUME Typed, Busy
  PROVE  /\ Current \in Attempt /\ task.day \in Days
         /\ Current = attempts[task.day][Len(attempts[task.day])]
         /\ Len(attempts[task.day]) \in DOMAIN attempts[task.day]
         /\ Len(attempts[task.day]) \in Nat \ {0}
<1>1. task.day \in Days /\ attempts[task.day] \in Seq(Attempt) /\ attempts[task.day] # <<>>
  BY DEF Typed, Journals, Task
<1>2. /\ Len(attempts[task.day]) \in Nat \ {0} /\ Len(attempts[task.day]) \in DOMAIN attempts[task.day]
      /\ attempts[task.day][Len(attempts[task.day])] \in Attempt
  BY <1>1, LenProperties, EmptySeq, ElementOfSeq
<1> QED
  BY <1>1, <1>2 DEF Current, Last

\* What an amended attempt keeps: everything but its state, its outcome and
\* the times of its end.
Kept(a, b) ==
  /\ b.run = a.run /\ b.start = a.start /\ b.proof = a.proof /\ b.woken = a.woken
  /\ b.native = a.native /\ b.manual = a.manual /\ b.closed = a.closed

LEMMA Amending ==
  ASSUME Typed, Busy, NEW a \in Attempt, Amend(a)
  PROVE  /\ attempts' \in [Days -> Seq(Attempt)] /\ attempts'[task.day] # <<>>
         /\ \A e \in Days : /\ Len(attempts'[e]) = Len(attempts[e])
                            /\ DOMAIN attempts'[e] = DOMAIN attempts[e]
         /\ attempts'[task.day][Len(attempts[task.day])] = a
         /\ \A e \in Days : \A i \in DOMAIN attempts[e] :
              ~(e = task.day /\ i = Len(attempts[task.day])) => attempts'[e][i] = attempts[e][i]
<1>1. attempts \in [Days -> Seq(Attempt)] /\ task.day \in Days /\ attempts[task.day] # <<>>
  BY CurrentIsTyped DEF Typed, Journals
<1>2. attempts' = [attempts EXCEPT ![task.day][Len(attempts[task.day])] = a]
  BY DEF Amend
<1>3. /\ attempts' \in [Days -> Seq(Attempt)]
      /\ \A e \in Days : /\ Len(attempts'[e]) = Len(attempts[e])
                         /\ DOMAIN attempts'[e] = DOMAIN attempts[e]
      /\ attempts'[task.day][Len(attempts[task.day])] = a
      /\ \A e \in Days : \A i \in DOMAIN attempts[e] :
           ~(e = task.day /\ i = Len(attempts[task.day])) => attempts'[e][i] = attempts[e][i]
  BY <1>1, <1>2, LastReplaced
<1>4. attempts'[task.day] # <<>>
  BY <1>1, <1>3, EmptySeq, LenProperties
<1> QED
  BY <1>3, <1>4

\* The attempt the run is at, after each step that amends it.
LEMMA Amended ==
  ASSUME Typed, Refused \/ Throw \/ Cancel \/ Receive \/ Invalid \/ CrossDay \/ Close
  PROVE  Busy /\ \E a \in Attempt :
           /\ Amend(a) /\ Kept(Current, a)
           /\ ~Receive => a.out = Current.out
           /\ a.state = "deferred" => Current.state = "deferred" \/ Refused \/ (Receive /\ a.out = "waiting")
           /\ a.state = "completed" => Close \/ (Receive /\ Current.state = "completed")
           /\ Close => Current.state = "in_progress" \/ a.state = Current.state
           /\ Receive => a.out # "none"
<1>b. Busy /\ now \in Time
  BY DEF Busy, Typed, Refused, Throw, Cancel, Receive, Invalid, CrossDay, Close
<1>c. Current \in Attempt
  BY <1>b, CurrentIsTyped
<1> DEFINE c == Current
<1>d. c \in Attempt
  BY <1>c
<1> HIDE DEF c
<1>1. ASSUME NEW state \in {"deferred", "outcome_unknown"}
      PROVE  LET a == Caught(c, state) IN
             /\ a \in Attempt /\ Kept(c, a) /\ a.out = c.out
             /\ a.state \in {state, "outcome_unknown"}
  BY <1>b, <1>d DEF Caught, Kept, Attempt
<1>e. Refused \/ Throw \/ Cancel \/ Invalid \/ CrossDay \/ Close => ~Receive
  <2>1. Refused \/ Throw \/ Cancel \/ Invalid \/ CrossDay \/ Close => pc' # "received" \/ pc = "received"
    BY DEF Refused, Throw, Cancel, Invalid, CrossDay, Close, Rest
  <2> QED
    BY <2>1 DEF Receive
<1>2. CASE Refused
  <2>1. Amend(Caught(c, "deferred"))
    BY <1>2 DEF Refused, c
  <2>2. LET a == Caught(c, "deferred") IN
        /\ a \in Attempt /\ Kept(c, a) /\ a.out = c.out
        /\ a.state \in {"deferred", "outcome_unknown"}
    BY <1>1
  <2>3. ~Close
    BY <1>2 DEF Refused, Close
  <2> QED
    BY <1>b, <1>e, <1>2, <2>1, <2>2, <2>3 DEF c
<1>3. CASE Throw \/ Invalid
  <2>1. Amend(Caught(c, "outcome_unknown"))
    BY <1>3 DEF Throw, Invalid, c
  <2>2. LET a == Caught(c, "outcome_unknown") IN
        /\ a \in Attempt /\ Kept(c, a) /\ a.out = c.out
        /\ a.state = "outcome_unknown"
    BY <1>1
  <2>3. ~Close
    BY <1>3 DEF Throw, Invalid, Close
  <2> QED
    BY <1>b, <1>e, <1>3, <2>1, <2>2, <2>3 DEF c
<1>4. CASE Cancel
  <2> DEFINE a == [c EXCEPT !.state = "outcome_unknown", !.finish = now]
  <2>1. a \in Attempt /\ Kept(c, a) /\ a.out = c.out /\ a.state = "outcome_unknown"
    BY <1>b, <1>d DEF Kept, Attempt
  <2>2. Amend(a) /\ ~Close
    BY <1>4 DEF Cancel, c, Close
  <2> QED
    BY <1>b, <1>e, <1>4, <2>1, <2>2 DEF c
<1>5. CASE Receive
  <2>1. PICK out \in Replies :
          Amend([Current EXCEPT !.out = out, !.finish = now,
                   !.state = IF out = "waiting" THEN "deferred" ELSE @,
                   !.next = IF out = "waiting" THEN now + Wait ELSE @])
    BY <1>5 DEF Receive
  <2> DEFINE a == [c EXCEPT !.out = out, !.finish = now,
                   !.state = IF out = "waiting" THEN "deferred" ELSE @,
                   !.next = IF out = "waiting" THEN now + Wait ELSE @]
  <2>2. out \in Outcome /\ out # "none" /\ now + Wait \in Later
    BY <1>b, Times, HarvestFallbackAssumption
  <2>3. /\ a \in Attempt /\ Kept(c, a) /\ a.out = out
        /\ a.out # "none"
        /\ a.state = IF out = "waiting" THEN "deferred" ELSE c.state
    BY <1>b, <1>d, <2>2 DEF Kept, Attempt
  <2>4. Amend(a) /\ ~Close
    BY <1>5, <2>1 DEF c, Receive, Close
  <2> HIDE DEF a
  <2> QED
    BY <1>b, <1>5, <2>3, <2>4 DEF c
<1>6. CASE CrossDay
  <2> DEFINE a == [c EXCEPT !.state = "completed_cross_day"]
  <2>1. a \in Attempt /\ Kept(c, a) /\ a.out = c.out /\ a.state = "completed_cross_day"
    BY <1>d DEF Kept, Attempt
  <2>2. Amend(a) /\ ~Close
    BY <1>6 DEF CrossDay, c, Close
  <2> QED
    BY <1>b, <1>e, <1>6, <2>1, <2>2 DEF c
<1>7. CASE Close
  <2> DEFINE a == [c EXCEPT !.state = IF @ = "in_progress" THEN "completed" ELSE @]
  <2>1. /\ a \in Attempt /\ Kept(c, a) /\ a.out = c.out
        /\ a.state = IF c.state = "in_progress" THEN "completed" ELSE c.state
    BY <1>d DEF Kept, Attempt
  <2>2. Amend(a) /\ ~Receive
    BY <1>7 DEF Close, c, Receive
  <2> HIDE DEF a
  <2> QED
    BY <1>b, <1>7, <2>1, <2>2 DEF c
<1> QED
  BY <1>2, <1>3, <1>4, <1>5, <1>6, <1>7

\* An attempt that is only closed or has its wait used up.
Touched(a, b) ==
  /\ b \in Attempt
  /\ b.state = a.state /\ b.run = a.run /\ b.start = a.start /\ b.finish = a.finish
  /\ b.proof = a.proof /\ b.out = a.out /\ b.next = a.next
  /\ b.native = a.native /\ b.manual = a.manual
  /\ a.closed => b.closed
  /\ b.woken # a.woken => a.out = "waiting" /\ b.woken

LEMMA TouchedItself == \A a \in Attempt : Touched(a, a)
BY DEF Touched

\* The journal after a reading of the day has confirmed or denied it.
LEMMA Closes ==
  ASSUME Typed, NEW page
  PROVE  /\ Closing(page) \in [Days -> Seq(Attempt)]
         /\ \A d \in Days : /\ Len(Closing(page)[d]) = Len(attempts[d])
                            /\ DOMAIN Closing(page)[d] = DOMAIN attempts[d]
                            /\ \A i \in DOMAIN attempts[d] : Touched(attempts[d][i], Closing(page)[d][i])
<1> DEFINE new(d, a) == IF /\ page.status = "signed" /\ d = Day(page.at) /\ Uncertain(a)
                           /\ a.out \notin {"none", "mismatch"} /\ a.start <= page.at
                        THEN [a EXCEPT !.closed = TRUE] ELSE a
<1>1. \A a \in Attempt, d \in Days : new(d, a) \in Attempt /\ Touched(a, new(d, a))
  <2>1. ASSUME NEW a \in Attempt PROVE LET b == [a EXCEPT !.closed = TRUE] IN b \in Attempt /\ Touched(a, b)
    BY DEF Attempt, Touched
  <2>2. \A a \in Attempt, d \in Days : new(d, a) \in {a, [a EXCEPT !.closed = TRUE]}
    OBVIOUS
  <2> HIDE DEF new
  <2> QED
    BY <2>1, <2>2, TouchedItself
<1>2. Closing(page) = [d \in Days |-> [i \in DOMAIN attempts[d] |-> new(d, attempts[d][i])]]
  BY DEF Closing
<1> HIDE DEF new
<1>3. ASSUME NEW d \in Days
      PROVE  LET s == [i \in DOMAIN attempts[d] |-> new(d, attempts[d][i])] IN
             /\ s \in Seq(Attempt) /\ Len(s) = Len(attempts[d]) /\ DOMAIN s = DOMAIN attempts[d]
             /\ \A i \in DOMAIN attempts[d] : Touched(attempts[d][i], s[i])
  <2> DEFINE s == [i \in DOMAIN attempts[d] |-> new(d, attempts[d][i])]
  <2>1. /\ attempts[d] \in Seq(Attempt) /\ Len(attempts[d]) \in Nat
        /\ DOMAIN attempts[d] = 1..Len(attempts[d])
        /\ \A i \in DOMAIN attempts[d] : attempts[d][i] \in Attempt
    BY LenProperties, ElementOfSeq DEF Typed, Journals
  <2>2. s \in [1..Len(attempts[d]) -> Attempt]
    BY <1>1, <2>1
  <2>3. s \in Seq(Attempt)
    BY <2>1, <2>2, SeqDef
  <2>4. DOMAIN s = 1..Len(attempts[d]) /\ Len(s) = Len(attempts[d])
    BY <2>1, <2>2, <2>3, LenProperties
  <2>5. \A i \in DOMAIN attempts[d] : Touched(attempts[d][i], s[i])
    BY <1>1, <2>1
  <2> QED
    BY <2>1, <2>3, <2>4, <2>5
<1> QED
  BY <1>2, <1>3

\* The journal after the closing or the waking of one of its attempts.
LEMMA Retouched ==
  ASSUME Typed, MarkWake \/ Judge \/ OutsideRead \/ Reconcile
  PROVE  /\ attempts' \in [Days -> Seq(Attempt)]
         /\ \A d \in Days : /\ Len(attempts'[d]) = Len(attempts[d])
                            /\ DOMAIN attempts'[d] = DOMAIN attempts[d]
                            /\ \A i \in DOMAIN attempts[d] : Touched(attempts[d][i], attempts'[d][i])
<1>0. /\ attempts \in [Days -> Seq(Attempt)]
      /\ \A d \in Days : /\ attempts[d] \in Seq(Attempt) /\ Len(attempts[d]) \in Nat
                         /\ DOMAIN attempts[d] = 1..Len(attempts[d])
                         /\ \A i \in DOMAIN attempts[d] : attempts[d][i] \in Attempt
  BY LenProperties, ElementOfSeq DEF Typed, Journals
<1>1. CASE Judge \/ OutsideRead
  <2>1. attempts' = attempts \/ \E page : attempts' = Closing(page)
    BY <1>1 DEF Judge, OutsideRead
  <2> QED
    BY <1>0, <2>1, Closes, TouchedItself
<1>2. ASSUME NEW d \in Days, NEW i \in DOMAIN attempts[d], NEW a \in Attempt,
             Touched(attempts[d][i], a), attempts' = [attempts EXCEPT ![d][i] = a]
      PROVE  /\ attempts' \in [Days -> Seq(Attempt)]
             /\ \A e \in Days : /\ Len(attempts'[e]) = Len(attempts[e])
                                /\ DOMAIN attempts'[e] = DOMAIN attempts[e]
                                /\ \A j \in DOMAIN attempts[e] : Touched(attempts[e][j], attempts'[e][j])
  <2> DEFINE s == [attempts[d] EXCEPT ![i] = a]
  <2>1. s \in Seq(Attempt) /\ Len(s) = Len(attempts[d]) /\ DOMAIN s = DOMAIN attempts[d]
    BY <1>0, ExceptSeq
  <2>2. \A j \in DOMAIN attempts[d] : Touched(attempts[d][j], s[j])
    BY <1>0, <1>2, TouchedItself
  <2>3. attempts' = [attempts EXCEPT ![d] = s]
    BY <1>0, <1>2
  <2> HIDE DEF s
  <2>4. /\ attempts' \in [Days -> Seq(Attempt)] /\ attempts'[d] = s
        /\ \A e \in Days : e # d => attempts'[e] = attempts[e]
    BY <1>0, <2>1, <2>3
  <2>5. \A e \in Days : \A j \in DOMAIN attempts[e] : Touched(attempts[e][j], attempts[e][j])
    BY <1>0, TouchedItself
  <2> QED
    BY <2>1, <2>2, <2>4, <2>5
<1>3. CASE Reconcile
  <2>0. PICK d \in Days : \E i \in DOMAIN attempts[d] :
          attempts' = [attempts EXCEPT ![d][i].closed = TRUE]
    BY <1>3 DEF Reconcile
  <2>1. PICK i \in DOMAIN attempts[d] : attempts' = [attempts EXCEPT ![d][i].closed = TRUE]
    BY <2>0
  <2> DEFINE a == [attempts[d][i] EXCEPT !.closed = TRUE]
  <2>2. a \in Attempt /\ Touched(attempts[d][i], a)
    <3> DEFINE b == attempts[d][i]
    <3>1. b \in Attempt /\ a = [b EXCEPT !.closed = TRUE]
      BY <1>0
    <3> HIDE DEF a, b
    <3>2. a \in Attempt /\ a.closed = TRUE
      BY <3>1 DEF Attempt
    <3>3. /\ a.state = b.state /\ a.run = b.run /\ a.start = b.start /\ a.finish = b.finish
          /\ a.proof = b.proof /\ a.out = b.out /\ a.next = b.next
          /\ a.native = b.native /\ a.manual = b.manual /\ a.woken = b.woken
      BY <3>1 DEF Attempt
    <3>4. Touched(b, a)
      BY <3>2, <3>3 DEF Touched
    <3> QED BY <3>2, <3>4 DEF b
  <2>3. attempts' = [attempts EXCEPT ![d][i] = a]
    BY <2>1
  <2> HIDE DEF a
  <2> QED
    BY <1>2, <2>2, <2>3
<1>4. CASE MarkWake
  <2> DEFINE d == task.day
             W == WaitsDue(d, task.at)
  <2>1. d \in Days /\ W \subseteq DOMAIN attempts[d]
    BY <1>4 DEF WaitsDue, Typed, Task
  <2>2. PICK i \in W : attempts' = [attempts EXCEPT ![d][i].woken = TRUE]
    BY <1>4 DEF MarkWake
  <2>3. attempts[d][i].out = "waiting" /\ attempts[d][i] \in Attempt
    BY <1>0, <2>1, <2>2 DEF WaitsDue, WaitDue
  <2> DEFINE a == [attempts[d][i] EXCEPT !.woken = TRUE]
  <2>4. a \in Attempt /\ Touched(attempts[d][i], a)
    BY <2>3 DEF Touched, Attempt
  <2>5. attempts' = [attempts EXCEPT ![d][i] = a]
    BY <2>2
  <2>6. i \in DOMAIN attempts[d]
    BY <2>1, <2>2
  <2> HIDE DEF a, W
  <2> QED
    BY <1>2, <2>1, <2>4, <2>5, <2>6
<1> QED
  BY <1>1, <1>3, <1>4

LEMMA Persisting ==
  ASSUME Typed, Persist
  PROVE  /\ NewAttempt \in Attempt /\ attempts' \in [Days -> Seq(Attempt)] /\ task.day \in Days
         /\ Len(attempts[task.day]) \in Nat /\ Len(attempts'[task.day]) = Len(attempts[task.day]) + 1
         /\ attempts'[task.day] # <<>>
         /\ attempts'[task.day][Len(attempts'[task.day])] = NewAttempt
         /\ \A d \in Days : d # task.day => attempts'[d] = attempts[d]
         /\ \A d \in Days : \A i \in DOMAIN attempts[d] :
              i \in DOMAIN attempts'[d] /\ attempts'[d][i] = attempts[d][i]
         /\ DOMAIN attempts'[task.day] = DOMAIN attempts[task.day] \cup {Len(attempts[task.day]) + 1}
<1>1. NewAttempt \in Attempt
  <2>1. runs \in 1..MaxRuns
    BY Limits DEF Persist, Ready, Typed
  <2>2. "none" \in Outcome /\ task.proof \in Time /\ task.wake \in BOOLEAN
        /\ task.manual \in Request \cup {NoRequest} /\ now \in Time
    BY DEF Outcome, Typed, Task
  <2>3. (kind = "native") \in BOOLEAN
    OBVIOUS
  <2> QED
    BY <2>1, <2>2, <2>3, Times DEF NewAttempt, Attempt
<1>2. attempts \in [Days -> Seq(Attempt)] /\ task.day \in Days
  BY DEF Typed, Journals, Task
<1>3. attempts' = [attempts EXCEPT ![task.day] = Append(@, NewAttempt)]
  BY DEF Persist
<1> HIDE DEF NewAttempt
<1> QED
  BY <1>1, <1>2, <1>3, OneAppended

\* A reading that ends keeps what it was begun with.
LEMMA Reading ==
  ASSUME Typed, DeferRead \/ FailRead \/ Judge
  PROVE  /\ reads' \in [Days -> Seq(Read)] /\ task.day \in Days
         /\ \A d \in Days : Len(reads'[d]) = Len(reads[d]) /\ DOMAIN reads'[d] = DOMAIN reads[d]
         /\ \A d \in Days : \A i \in DOMAIN reads[d] :
              /\ reads'[d][i].start = reads[d][i].start /\ reads'[d][i].planned = reads[d][i].planned
              /\ reads'[d][i].signal = reads[d][i].signal /\ reads'[d][i].manual = reads[d][i].manual
              /\ reads[d][i].state = "deferred" =>
                   reads'[d][i].state = "deferred" \/ (d = task.day /\ i = Len(reads[d]))
<1>1. /\ reads \in [Days -> Seq(Read)] /\ task.day \in Days /\ reads[task.day] # <<>>
      /\ pc \in {"reading", "read"} /\ now \in Time
  BY DEF Typed, Journals, Task, DeferRead, FailRead, Judge
<1>2. /\ reads[task.day] \in Seq(Read) /\ Len(reads[task.day]) \in DOMAIN reads[task.day]
      /\ LastRead = reads[task.day][Len(reads[task.day])] /\ LastRead \in Read
  BY <1>1, LenProperties, EmptySeq, ElementOfSeq DEF LastRead, Last
<1> DEFINE r == LastRead
<1>3. PICK s \in Read : EndRead(s) /\ s.start = r.start /\ s.planned = r.planned
                        /\ s.signal = r.signal /\ s.manual = r.manual
  <2>0. r \in Read
    BY <1>2
  <2> HIDE DEF r
  <2>1. CASE DeferRead
    <3>1. EndRead([r EXCEPT !.state = "deferred", !.next = now + Backoff])
      BY <2>1 DEF DeferRead, r
    <3>2. now + Backoff \in Later
      BY <1>1, Times
    <3>3. LET s == [r EXCEPT !.state = "deferred", !.next = now + Backoff] IN
          s \in Read /\ s.start = r.start /\ s.planned = r.planned /\ s.signal = r.signal /\ s.manual = r.manual
      BY <2>0, <3>2 DEF Read
    <3> QED
      BY <3>1, <3>3
  <2>2. CASE FailRead
    <3>1. EndRead([r EXCEPT !.state = "over"])
      BY <2>2 DEF FailRead, r
    <3> QED
      BY <2>0, <3>1 DEF Read
  <2>3. CASE Judge
    <3>1. EndRead([r EXCEPT !.state = "over", !.seen = IF seen.status = "not_signed" THEN seen.at ELSE 0])
      BY <2>3 DEF Judge, r
    <3>2. (IF seen.status = "not_signed" THEN seen.at ELSE 0) \in Time
      BY Times DEF Typed, Page
    <3> DEFINE t == IF seen.status = "not_signed" THEN seen.at ELSE 0
    <3>3. t \in Time /\ EndRead([r EXCEPT !.state = "over", !.seen = t])
      BY <3>1, <3>2
    <3> HIDE DEF t
    <3>4. LET s == [r EXCEPT !.state = "over", !.seen = t] IN
          s \in Read /\ s.start = r.start /\ s.planned = r.planned /\ s.signal = r.signal /\ s.manual = r.manual
      BY <2>0, <3>3 DEF Read
    <3> QED
      BY <3>3, <3>4
  <2> QED
    BY <2>1, <2>2, <2>3
<1>4. reads' = [reads EXCEPT ![task.day][Len(reads[task.day])] = s]
  BY <1>3 DEF EndRead
<1>5. /\ reads' \in [Days -> Seq(Read)]
      /\ \A d \in Days : Len(reads'[d]) = Len(reads[d]) /\ DOMAIN reads'[d] = DOMAIN reads[d]
      /\ reads'[task.day][Len(reads[task.day])] = s
      /\ \A d \in Days : \A i \in DOMAIN reads[d] :
           ~(d = task.day /\ i = Len(reads[task.day])) => reads'[d][i] = reads[d][i]
  BY <1>1, <1>4, LastReplaced
<1> QED
  BY <1>1, <1>2, <1>3, <1>5

LEMMA Beginning ==
  ASSUME Typed, BeginRead
  PROVE  \E r \in Read :
           /\ reads' = [reads EXCEPT ![task.day] = Append(@, r)]
           /\ r.state = "in_progress" /\ r.start = now /\ r.planned = task.signal
           /\ r.signal = IF WakeupDue(task.day, task.signal) THEN task.signal ELSE 0
           /\ r.manual = (task.manual # NoRequest)
<1> DEFINE r == [state |-> "in_progress", start |-> now, next |-> 0, seen |-> 0, planned |-> task.signal,
        signal |-> IF WakeupDue(task.day, task.signal) THEN task.signal ELSE 0,
        waking |-> WaitsDue(task.day, task.at) # {} /\ ~ScheduledDue(task.day),
        manual |-> task.manual # NoRequest]
<1>1. task.signal \in Time /\ now \in Time
  BY DEF Typed, Task
<1>2. (IF WakeupDue(task.day, task.signal) THEN task.signal ELSE 0) \in Time
  BY <1>1, Times
<1>3. r \in Read
  BY <1>1, <1>2, Times DEF Read
<1>4. reads' = [reads EXCEPT ![task.day] = Append(@, r)]
  BY DEF BeginRead
<1> QED
  BY <1>3, <1>4

\* The entry a reading or a result leaves of its day.
LEMMA Receipts ==
  ASSUME Typed
  PROVE  /\ \A page \in Page : Recorded(page) \in [Days -> Entry]
         /\ Judge \/ OutsideRead \/ Publish => supplement' \in [Days -> Entry]
<1>1. \A page \in Page : Recorded(page) \in [Days -> Entry]
  <2> SUFFICES ASSUME NEW page \in Page PROVE Recorded(page) \in [Days -> Entry]
    OBVIOUS
  <2> DEFINE status == IF page.status = "unknown" THEN "open" ELSE page.status
  <2>1. status \in {"open", "signed", "not_signed"} /\ page.at \in Time /\ Day(page.at) \in Days
    BY Times DEF Page
  <2> HIDE DEF status
  <2>2. Receipt(status, page.at) \in Entry
    BY <2>1, Times DEF Receipt, Entry
  <2>3. Recorded(page) \in {supplement, [supplement EXCEPT ![Day(page.at)] = Receipt(status, page.at)]}
    BY DEF Recorded, status
  <2> QED
    BY <2>1, <2>2, <2>3 DEF Typed, Journals
<1>2. Readable \subseteq Page
  BY DEF Readable, Page, Definite, Typed
<1>3. CASE Judge
  BY <1>1, <1>3 DEF Judge, Typed
<1>4. CASE OutsideRead
  BY <1>1, <1>2, <1>4 DEF OutsideRead
<1>5. CASE Publish
  <2> DEFINE status == IF Current.out = "signed" THEN "signed" ELSE "open"
  <2>1. Current.finish \in Time /\ task.day \in Days
    BY <1>5, CurrentIsTyped DEF Publish, Busy, Attempt
  <2>2. Receipt(status, Current.finish) \in Entry
    BY <2>1, Times DEF Receipt, Entry
  <2>3. supplement' = [supplement EXCEPT ![task.day] = Receipt(status, Current.finish)]
    BY <1>5 DEF Publish
  <2> HIDE DEF status
  <2>4. supplement \in [Days -> Entry]
    BY DEF Typed, Journals
  <2>5. supplement' \in [Days -> Entry]
    BY <2>1, <2>2, <2>3, <2>4
  <2> QED
    BY <1>1, <2>5
<1> QED
  BY <1>1, <1>3, <1>4, <1>5

\* Steps that write the journals or the receipts.
LEMMA TypeWrites ==
  ASSUME Typed, \/ BeginRead \/ DeferRead \/ FailRead \/ Judge \/ MarkWake \/ Persist
                \/ Refused \/ Throw \/ Cancel \/ Receive \/ Invalid \/ CrossDay \/ Publish \/ Close
                \/ OutsideRead \/ Reconcile
  PROVE  Typed'
<1>1. CASE BeginRead
  <2>1. PICK r \in Read : reads' = [reads EXCEPT ![task.day] = Append(@, r)]
    BY <1>1, Beginning
  <2>2. reads \in [Days -> Seq(Read)] /\ task.day \in Days
    BY DEF Typed, Journals, Task
  <2>3. reads' \in [Days -> Seq(Read)] /\ reads'[task.day] # <<>>
    BY <2>1, <2>2, OneAppended
  <2> QED
    BY <1>1, <2>3 DEF BeginRead, Typed, Journals, Unchanged, world, audit, count, Steps, Busy
<1>2. CASE DeferRead \/ FailRead
  BY <1>2, Reading, Blank
     DEF DeferRead, FailRead, Typed, Journals, Unchanged, world, audit, count, Steps, Busy, Rest
<1>3. CASE Judge
  <2>1. task' \in Task /\ pc' \in {"idle", "permit"} /\ seen' = NoPage
    BY <1>3, Blank DEF Judge, Rest, Typed, Task, Page
  <2> QED
    BY <1>3, <2>1, Reading, Retouched, Receipts, Blank
       DEF Judge, Typed, Journals, world, audit, count, Steps, Busy
<1>4. CASE MarkWake
  <2>1. task' \in Task /\ pc' = pc /\ pc \in {"permit", "refresh"} /\ task'.day = task.day
    BY <1>4 DEF MarkWake, Typed, Task, Ready
  <2> QED
    BY <1>4, <2>1, Retouched
       DEF MarkWake, Typed, Journals, Unchanged, world, audit, count, Steps, Busy
<1>5. CASE Persist
  BY <1>5, Persisting
     DEF Persist, Ready, Typed, Journals, Unchanged, world, audit, count, Steps, Busy
<1>6. CASE Refused \/ Throw \/ Cancel \/ Receive \/ Invalid \/ CrossDay \/ Close
  <2>1. PICK a \in Attempt : Amend(a)
    BY <1>6, Amended
  <2>2. attempts' \in [Days -> Seq(Attempt)] /\ attempts'[task.day] # <<>>
    BY <1>6, <2>1, Amended, Amending
  <2>3. /\ task' \in Task /\ exec' \in Executor /\ seen' \in Page
        /\ pc' = "idle" \/ (pc' \in {"intent", "dispatched", "received"} /\ task'.day = task.day /\ pc \notin {"idle", "planned"})
    BY <1>6, Blank
       DEF Refused, Throw, Cancel, Receive, Invalid, CrossDay, Close, Rest, Unchanged, Typed, Task
  <2>4. UNCHANGED <<now, reads, supplement, count, world, audit>>
    BY <1>6 DEF Refused, Throw, Cancel, Receive, Invalid, CrossDay, Close, Unchanged
  <2> QED
    BY <2>2, <2>3, <2>4 DEF Typed, Journals, world, audit, count, Steps, Busy
<1>7. CASE Publish
  BY <1>7, Receipts DEF Publish, Typed, Journals, journal, world, audit, count, Steps, Busy
<1>8. CASE OutsideRead
  BY <1>8, Retouched, Receipts
     DEF OutsideRead, Typed, Journals, world, audit, count, Steps, Busy
<1>9. CASE Reconcile
  BY <1>9, Retouched DEF Reconcile, Typed, Journals, world, audit, count, Steps, Busy
<1> QED
  BY <1>1, <1>2, <1>3, <1>4, <1>5, <1>6, <1>7, <1>8, <1>9

-----------------------------------------------------------------------------
(* What was sent is on record *)

Pair == <<task.day, Len(attempts[task.day])>>
Pending == <<exec.day, exec.index>>

\* An attempt with an executor has no result and is not deferred, and is the
\* run's own while the run waits for it.
Executing ==
  exec # NoExec =>
    /\ exec.index \in DOMAIN attempts[exec.day]
    /\ attempts[exec.day][exec.index].state # "deferred"
    /\ attempts[exec.day][exec.index].out = "none"
    /\ ~exec.sent => Pending \notin sent
AtWork ==
  /\ pc = "dispatched" => exec # NoExec /\ Pending = Pair
  /\ pc = "intent" => /\ Current.state # "deferred" /\ Current.out = "none"
                      /\ Pair \notin sent /\ (exec # NoExec => Pending # Pair)
OnRecord == Pointed /\ Executing /\ AtWork /\ SentIsOnRecord

-----------------------------------------------------------------------------
(* The budgets *)

\* An attempt counts while the run is at it, whatever its state.
Spent(d) == {i \in DOMAIN attempts[d] :
               /\ attempts[d][i].manual = NoRequest
               /\ attempts[d][i].state # "deferred" \/ (Busy /\ d = task.day /\ i = Len(attempts[d]))}
Wakes(d) == {i \in Counted(reads[d]) : reads[d][i].signal # 0}
Plain(d) == {i \in Counted(reads[d]) : reads[d][i].signal = 0 /\ ~reads[d][i].manual /\ ~Lapsed(reads[d][i])}
NoWaits(d) == \A i \in DOMAIN attempts[d] : attempts[d][i].out # "waiting"

AttemptsInBudget ==
  /\ \A d \in Days : Cardinality(Spent(d)) <= MaxAttempts
  /\ (pc = "permit" \/ (pc = "refresh" /\ ~task.verify)) /\ task.manual = NoRequest =>
       Cardinality(Counted(attempts[task.day])) < MaxAttempts
\* Where a reading is due for anything but a wait, the budget has room for it.
Allowed ==
  \/ Cardinality(Counted(reads[task.day])) < MaxReads
  \/ WakeupDue(task.day, task.signal)
  \/ task.signal # 0 /\ now - task.signal > SignalLife
Planning == pc = "refresh" /\ task.verify /\ task.manual = NoRequest /\ NoWaits(task.day)
ReadsInBudget ==
  /\ pc \in {"reading", "read"} => LastRead.state = "in_progress"
  /\ \A d \in Days : Cardinality(Wakes(d)) <= MaxWakeups
  /\ \A d \in Days : NoWaits(d) => Cardinality(Plain(d)) <= MaxReads
  /\ Planning => Allowed

-----------------------------------------------------------------------------
(* No blind replay *)

\* An attempt that nothing can come of any more.
Spare(a) == \/ a.state = "deferred" /\ (a.out = "waiting" => a.woken)
            \/ a.state = "completed" /\ a.out = "login"
Sighted ==
  /\ pc \in {"read", "permit"} => exec = NoExec /\ sure
  /\ pc = "read" => seen.at # 0
  /\ pc = "permit" => task.proof # 0
Answered ==
  /\ \A d \in Days : \A i \in DOMAIN attempts[d] :
       attempts[d][i].state = "completed" => attempts[d][i].out # "none"
  /\ pc \in {"received", "published"} => Current.out # "none"
Unguarded ==
  /\ pc # "idle" /\ task.manual # NoRequest => kind # "plain"
  /\ pc \in {"planned", "consider"} => ~task.wake
  /\ pc = "refresh" => (kind = "plain" <=> ~task.verify)
  /\ pc \in {"reading", "read", "permit"} => kind # "plain"
  /\ kind = "plain" => \A d \in Days : \A i \in DOMAIN attempts[d] :
       i < Len(attempts[d]) => Spare(attempts[d][i])
  /\ pc = "refresh" /\ ~task.verify =>
       /\ ~UnresolvedEarlier(task.day)
       /\ \A i \in DOMAIN attempts[task.day] :
            \/ Spare(attempts[task.day][i])
            \/ ~task.wake /\ i \in WaitsDue(task.day, task.at) /\ i = Len(attempts[task.day])
-----------------------------------------------------------------------------
(* Theorems: types *)

LEMMA TypeStep == Typed /\ [Next]_vars => Typed'
<1> SUFFICES ASSUME Typed, [Next]_vars PROVE Typed'
  OBVIOUS
<1>1. CASE \/ \E m \in Request \cup {NoRequest} : Plan(m)
           \/ Claim \/ Consider \/ Skip \/ ReadPage \/ Dispatch
           \/ Crash \/ Send \/ OrphanEnds \/ SiteSigns \/ LoginRecovered \/ Promote \/ Tick
  <2>1. UNCHANGED <<attempts, reads, supplement>>
    BY <1>1 DEF Plan, Claim, Consider, Skip, ReadPage, Dispatch, Crash, Send, OrphanEnds, SiteSigns,
       LoginRecovered, Promote, Tick, Unchanged, journal
  <2> QED
    BY <1>1, <2>1, TypeLooks
<1>2. CASE \/ BeginRead \/ DeferRead \/ FailRead \/ Judge \/ MarkWake \/ Persist
           \/ Refused \/ Throw \/ Cancel \/ Receive \/ Invalid \/ CrossDay \/ Publish \/ Close
           \/ OutsideRead \/ Reconcile
  BY <1>2, TypeWrites
<1>3. CASE UNCHANGED vars
  BY <1>3 DEF vars, Typed, Journals, Busy
<1> QED
  BY <1>1, <1>2, <1>3 DEF Next, Run, Around

-----------------------------------------------------------------------------
(* Theorems: the record *)

\* While the journal is not written: a request is sent, an executor is started
\* or ends, or a run moves on.
LEMMA RecordLooks ==
  ASSUME Typed, OnRecord, UNCHANGED attempts,
         \/ \E m \in Request \cup {NoRequest} : Plan(m)
         \/ Claim \/ Consider \/ Skip \/ ReadPage \/ Dispatch
         \/ Crash \/ Send \/ OrphanEnds \/ SiteSigns \/ LoginRecovered \/ Promote \/ Tick
         \/ BeginRead \/ DeferRead \/ FailRead \/ Publish
  PROVE  OnRecord'
<1> USE DEF OnRecord, Pointed, Executing, AtWork, SentIsOnRecord, Pair, Pending
<1>1. CASE Dispatch
  <2>1. Busy
    BY <1>1 DEF Dispatch, Busy
  <2>2. /\ Len(attempts[task.day]) \in DOMAIN attempts[task.day]
        /\ Len(attempts[task.day]) \in Nat \ {0}
        /\ Current = attempts[task.day][Len(attempts[task.day])]
    BY <2>1, CurrentIsTyped
  <2>3. /\ exec' = [day |-> task.day, index |-> Len(attempts[task.day]), verify |-> task.verify, sent |-> FALSE]
        /\ pc = "intent" /\ pc' = "dispatched" /\ UNCHANGED <<task, sent>>
    BY <1>1 DEF Dispatch, audit
  <2>4. exec' # NoExec
    BY <2>2, <2>3 DEF NoExec
  <2> QED
    BY <2>2, <2>3, <2>4
<1>2. CASE Send
  <2>1. /\ exec # NoExec /\ exec' = [exec EXCEPT !.sent = TRUE] /\ exec \in Executor
        /\ sent' = sent \cup {<<exec.day, exec.index>>} /\ UNCHANGED <<pc, task>>
    BY <1>2 DEF Send, Typed
  <2>2. exec'.day = exec.day /\ exec'.index = exec.index /\ exec'.sent /\ exec' # NoExec
    BY <2>1 DEF Executor, NoExec
  <2>3. Current' = Current
    BY <2>1 DEF Current
  <2>4. Pointed' /\ Executing'
    BY <2>1, <2>2
  <2>5. SentIsOnRecord'
    BY <2>1, <2>2 DEF Unsent
  <2>6. AtWork'
    BY <2>1, <2>2, <2>3
  <2> QED
    BY <2>4, <2>5, <2>6
<1>3. CASE OrphanEnds
  BY <1>3 DEF OrphanEnds, audit, Current
<1>4. CASE \/ SiteSigns \/ LoginRecovered \/ Promote \/ Tick
  <2>1. UNCHANGED <<attempts, exec, sent, pc, task>>
    BY <1>4 DEF SiteSigns, LoginRecovered, Promote, Tick, audit, journal
  <2> QED
    BY <2>1 DEF Current
<1>5. CASE \/ \E m \in Request \cup {NoRequest} : Plan(m)
           \/ Claim \/ Consider \/ Skip \/ ReadPage \/ Crash \/ BeginRead \/ DeferRead \/ FailRead \/ Publish
  <2>1. UNCHANGED <<attempts, exec, sent>> /\ pc' \notin {"dispatched", "intent"}
    BY <1>5 DEF Plan, Claim, Consider, Skip, ReadPage, Crash, BeginRead, DeferRead, FailRead, Publish,
       Rest, Unchanged, audit, journal
  <2> QED
    BY <2>1
<1> QED
  BY <1>1, <1>2, <1>3, <1>4, <1>5

LEMMA RecordRetouched ==
  ASSUME Typed, OnRecord, MarkWake \/ Judge \/ OutsideRead \/ Reconcile
  PROVE  OnRecord'
<1>1. \A d \in Days : /\ DOMAIN attempts'[d] = DOMAIN attempts[d]
                      /\ \A i \in DOMAIN attempts[d] : Touched(attempts[d][i], attempts'[d][i])
  BY Retouched
<1>2. UNCHANGED <<exec, sent>> /\ pc' \notin {"dispatched", "intent"}
  BY DEF MarkWake, Judge, OutsideRead, Reconcile, Rest, Unchanged, audit, Ready
<1>3. /\ exec.day \in Days /\ \A s \in sent : s[1] \in Days
  BY DEF Typed, Executor
<1> QED
  BY <1>1, <1>2, <1>3
     DEF OnRecord, Pointed, Executing, AtWork, SentIsOnRecord, Touched, Pending

LEMMA RecordPersisted ==
  ASSUME Typed, OnRecord, Persist
  PROVE  OnRecord'
<1> DEFINE n == Len(attempts'[task.day])
<1>1. /\ \A d \in Days : \A i \in DOMAIN attempts[d] :
           i \in DOMAIN attempts'[d] /\ attempts'[d][i] = attempts[d][i]
      /\ attempts'[task.day][n] = NewAttempt /\ n \notin DOMAIN attempts[task.day] /\ task.day \in Days
  <2>1. attempts[task.day] \in Seq(Attempt)
    BY Persisting DEF Typed, Journals
  <2>2. DOMAIN attempts[task.day] = 1..Len(attempts[task.day])
    BY <2>1, LenProperties
  <2> QED
    BY <2>2, Persisting
<1>2. UNCHANGED <<exec, sent, task>> /\ pc' = "intent"
  BY DEF Persist, Unchanged, audit
<1>3. /\ exec.day \in Days /\ \A s \in sent : s[1] \in Days
  BY DEF Typed, Executor
<1>4. NewAttempt.state # "deferred" /\ NewAttempt.out = "none"
  BY DEF NewAttempt
<1>5. Current' = NewAttempt /\ Pair' = <<task.day, n>>
  BY <1>1, <1>2 DEF Current, Last, Pair
<1> HIDE DEF n
<1>6. Pair' \notin sent /\ (exec # NoExec => Pending # Pair')
  BY <1>1, <1>5 DEF OnRecord, Pointed, Executing, Pending
<1>7. Pointed' /\ Executing' /\ SentIsOnRecord'
  BY <1>1, <1>2, <1>3 DEF OnRecord, Pointed, Executing, SentIsOnRecord, Pending
<1>8. AtWork'
  BY <1>2, <1>4, <1>5, <1>6 DEF AtWork, Pending
<1> QED
  BY <1>7, <1>8 DEF OnRecord

\* A result that says nothing was submitted comes from an executor that sent
\* nothing; nothing else takes back that an attempt was begun.
LEMMA RecordAmended ==
  ASSUME Typed, OnRecord, Refused \/ Throw \/ Cancel \/ Receive \/ Invalid \/ CrossDay \/ Close
  PROVE  OnRecord'
<1> DEFINE n == Len(attempts[task.day])
<1>1. PICK a \in Attempt :
           /\ Busy /\ Amend(a) /\ Kept(Current, a)
           /\ ~Receive => a.out = Current.out
           /\ a.state = "deferred" => Current.state = "deferred" \/ Refused \/ (Receive /\ a.out = "waiting")
  BY Amended
<1>2. /\ \A d \in Days : DOMAIN attempts'[d] = DOMAIN attempts[d] /\ Len(attempts'[d]) = Len(attempts[d])
      /\ attempts'[task.day][n] = a
      /\ \A d \in Days : \A i \in DOMAIN attempts[d] : ~(d = task.day /\ i = n) => attempts'[d][i] = attempts[d][i]
      /\ Current = attempts[task.day][n] /\ n \in DOMAIN attempts[task.day] /\ task.day \in Days
  BY <1>1, Amending, CurrentIsTyped
<1>s. sent' = sent
  BY DEF Refused, Throw, Cancel, Receive, Invalid, CrossDay, Close, Unchanged, audit
<1>3. sent' = sent /\ exec.day \in Days /\ \A s \in sent : s[1] \in Days /\ s = <<s[1], s[2]>>
  BY <1>s DEF Typed, Executor
<1>p. Pointed'
  BY <1>2, <1>3 DEF OnRecord, Pointed, Refused, Throw, Cancel, Receive, Invalid, CrossDay, Close, Unchanged
<1>4. CASE Refused
  <2>1. UNCHANGED <<exec, sent>> /\ pc' = "idle" /\ pc = "intent"
    BY <1>4 DEF Refused, Rest, Unchanged, audit
  <2>2. <<task.day, n>> \notin sent /\ (exec # NoExec => ~(exec.day = task.day /\ exec.index = n))
    BY <2>1 DEF OnRecord, AtWork, Pair, Pending
  <2>3. Executing'
    BY <1>2, <1>3, <2>1, <2>2 DEF OnRecord, Executing, Pending
  <2>4. AtWork'
    BY <2>1 DEF AtWork
  <2>5. SentIsOnRecord'
    BY <1>2, <1>3, <2>2 DEF OnRecord, Pointed, SentIsOnRecord
  <2> QED
    BY <1>p, <2>3, <2>4, <2>5 DEF OnRecord
<1>5. CASE Receive
  <2>1. /\ pc = "dispatched" /\ pc' = "received" /\ exec' = NoExec
        /\ a.out \in Unsent => ~exec.sent
    <3>1. PICK out \in Replies : /\ out \in Unsent => ~exec.sent
            /\ Amend([Current EXCEPT !.out = out, !.finish = now,
                        !.state = IF out = "waiting" THEN "deferred" ELSE @,
                        !.next = IF out = "waiting" THEN now + Wait ELSE @])
      BY <1>5 DEF Receive
    <3> DEFINE b == [Current EXCEPT !.out = out, !.finish = now,
                        !.state = IF out = "waiting" THEN "deferred" ELSE @,
                        !.next = IF out = "waiting" THEN now + Wait ELSE @]
    <3>2. Current \in Attempt
      BY <1>1, CurrentIsTyped
    <3>3. b.out = out
      BY <3>2 DEF Attempt
    <3>4. b = a
      BY <1>2, <3>1 DEF Amend, Typed, Journals
    <3> QED
      BY <1>5, <3>1, <3>3, <3>4 DEF Receive
  <2>2. exec # NoExec /\ exec.day = task.day /\ exec.index = n
    BY <2>1 DEF OnRecord, AtWork, Pair, Pending
  <2>3. a.out \in Unsent => <<task.day, n>> \notin sent
    BY <2>1, <2>2 DEF OnRecord, Executing, Pending
  <2>4. Current.state # "deferred"
    BY <1>2, <2>2 DEF OnRecord, Executing
  <2>5. a.state = "deferred" => a.out \in Unsent
    BY <1>1, <1>5, <2>1, <2>4 DEF Unsent, Refused
  <2>6. SentIsOnRecord'
    BY <1>2, <1>3, <2>3, <2>5 DEF OnRecord, Pointed, SentIsOnRecord
  <2> QED
    BY <1>p, <2>1, <2>6 DEF OnRecord, Executing, AtWork
<1>6. CASE Throw \/ Cancel \/ Invalid \/ CrossDay \/ Close
  <2>1. ~Refused /\ ~Receive
    <3>1. pc' = "idle" => pc # "intent"
      BY <1>6 DEF Throw, Cancel, Invalid, CrossDay, Close
    <3>2. pc' # "received"
      BY <1>6 DEF Throw, Cancel, Invalid, CrossDay, Close, Rest
    <3> QED
      BY <3>1, <3>2 DEF Refused, Receive, Rest
  <2>2. a.out = Current.out /\ (a.state = "deferred" => Current.state = "deferred")
    BY <1>1, <2>1
  <2>3. SentIsOnRecord'
    BY <1>2, <1>3, <2>2 DEF OnRecord, Pointed, SentIsOnRecord
  <2>4. /\ exec' \in {exec, NoExec}
        /\ \/ pc' = "idle"
           \/ pc' = pc /\ task'.day = task.day /\ exec' = exec
    BY <1>6 DEF Throw, Cancel, Invalid, CrossDay, Close, Rest, Unchanged, Typed, Task
  <2>5. Executing'
    BY <1>2, <1>3, <2>2, <2>4 DEF OnRecord, Executing, Pending
  <2>6. AtWork'
    <3>1. CASE pc' = "idle"
      BY <3>1 DEF AtWork
    <3>2. CASE pc' = pc /\ task'.day = task.day /\ exec' = exec
      <4>1. Current' = a /\ Pair' = Pair
        BY <1>2, <3>2 DEF Current, Last, Pair
      <4> QED
        BY <1>3, <2>2, <3>2, <4>1 DEF OnRecord, AtWork, Pending
    <3> QED
      BY <2>4, <3>1, <3>2
  <2> QED
    BY <1>p, <2>3, <2>5, <2>6 DEF OnRecord
<1> QED
  BY <1>4, <1>5, <1>6

LEMMA RecordStep == Typed /\ OnRecord /\ [Next]_vars => OnRecord'
<1> SUFFICES ASSUME Typed, OnRecord, [Next]_vars PROVE OnRecord'
  OBVIOUS
<1>1. CASE \/ \E m \in Request \cup {NoRequest} : Plan(m)
           \/ Claim \/ Consider \/ Skip \/ ReadPage \/ Dispatch
           \/ Crash \/ Send \/ OrphanEnds \/ SiteSigns \/ LoginRecovered \/ Promote \/ Tick
           \/ BeginRead \/ DeferRead \/ FailRead \/ Publish
  <2>1. UNCHANGED attempts
    BY <1>1 DEF Plan, Claim, Consider, Skip, ReadPage, Dispatch, Crash, Send, OrphanEnds, SiteSigns,
       LoginRecovered, Promote, Tick, BeginRead, DeferRead, FailRead, Publish, Unchanged, journal
  <2> QED
    BY <1>1, <2>1, RecordLooks
<1>2. CASE MarkWake \/ Judge \/ OutsideRead \/ Reconcile
  BY <1>2, RecordRetouched
<1>3. CASE Persist
  BY <1>3, RecordPersisted
<1>4. CASE Refused \/ Throw \/ Cancel \/ Receive \/ Invalid \/ CrossDay \/ Close
  BY <1>4, RecordAmended
<1>5. CASE UNCHANGED vars
  BY <1>5 DEF vars, OnRecord, Pointed, Executing, AtWork, SentIsOnRecord, Pair, Pending, Current
<1> QED
  BY <1>1, <1>2, <1>3, <1>4, <1>5 DEF Next, Run, Around

LEMMA RecordInit == Init => OnRecord
BY DEF Init, OnRecord, Pointed, Executing, AtWork, SentIsOnRecord

LEMMA RecordKept == Spec => [](Typed /\ OnRecord)
<1>1. Init => Typed /\ OnRecord
  BY TypeInit, RecordInit
<1>2. Typed /\ OnRecord /\ [Next]_vars => (Typed /\ OnRecord)'
  BY TypeStep, RecordStep
<1> QED
  BY <1>1, <1>2, PTL DEF Spec

\* Every variable keeps its type, and the executor and the requests always
\* refer to attempts of the journal.
THEOREM FallbackIsTyped == Spec => []TypeOK
<1>1. Typed /\ OnRecord => TypeOK
  <2> SUFFICES ASSUME Typed, OnRecord PROVE TypeOK
    OBVIOUS
  <2>1. \A d \in Days : /\ \A i \in DOMAIN attempts[d] : attempts[d][i] \in Attempt
                        /\ \A i \in DOMAIN reads[d] : reads[d][i] \in Read
                        /\ supplement[d] \in Entry
    BY ElementOfSeq, LenProperties DEF Typed, Journals
  <2>2. exec.day \in Days /\ exec.index \in 0..Len(attempts[exec.day])
    <3>1. exec.day \in Days /\ Len(attempts[exec.day]) \in Nat
          /\ DOMAIN attempts[exec.day] = 1..Len(attempts[exec.day])
      BY LenProperties DEF Typed, Executor, Journals
    <3>2. CASE exec = NoExec
      BY <3>1, <3>2 DEF NoExec
    <3>3. CASE exec # NoExec
      BY <3>1, <3>3 DEF OnRecord, Pointed
    <3> QED
      BY <3>2, <3>3
  <2>3. \A s \in sent : s[2] \in DOMAIN attempts[s[1]]
    BY DEF OnRecord, Pointed
  <2> QED
    BY <2>1, <2>2, <2>3 DEF TypeOK, Typed
<1> QED
  BY <1>1, RecordKept, PTL

\* Whatever dies and whoever gives up, no attempt whose request was sent is
\* on record as one that was deferred or proven not submitted.
THEOREM SentStaysOnRecord == Spec => []SentIsOnRecord
<1>1. OnRecord => SentIsOnRecord
  BY DEF OnRecord
<1> QED
  BY <1>1, RecordKept, PTL

\* The steps that leave the attempts alone.
Looking == \/ \E m \in Request \cup {NoRequest} : Plan(m)
           \/ Claim \/ Consider \/ Skip \/ ReadPage \/ Dispatch
           \/ Crash \/ Send \/ OrphanEnds \/ SiteSigns \/ LoginRecovered \/ Promote \/ Tick
           \/ BeginRead \/ DeferRead \/ FailRead \/ Publish \/ UNCHANGED vars
LEMMA LooksOnly ==
  /\ Looking => UNCHANGED attempts
  /\ [Next]_vars => \/ Looking \/ MarkWake \/ Judge \/ OutsideRead \/ Reconcile \/ Persist
                    \/ Refused \/ Throw \/ Cancel \/ Receive \/ Invalid \/ CrossDay \/ Close
<1>1. Looking => UNCHANGED attempts
  BY DEF Looking, vars, Plan, Claim, Consider, Skip, ReadPage, Dispatch, Crash, Send, OrphanEnds,
     SiteSigns, LoginRecovered, Promote, Tick, BeginRead, DeferRead, FailRead, Publish, Unchanged, journal
<1>2. [Next]_vars => \/ Looking \/ MarkWake \/ Judge \/ OutsideRead \/ Reconcile \/ Persist
                     \/ Refused \/ Throw \/ Cancel \/ Receive \/ Invalid \/ CrossDay \/ Close
  BY DEF Next, Run, Around, Looking
<1> QED
  BY <1>1, <1>2

\* A result that came in is never replaced.
LEMMA ResultsStand ==
  ASSUME Typed, OnRecord, [Next]_vars
  PROVE  \A d \in Days : \A i \in DOMAIN attempts[d] :
           /\ i \in DOMAIN attempts'[d]
           /\ attempts[d][i].out # "none" => attempts'[d][i].out = attempts[d][i].out
<1>1. CASE UNCHANGED attempts
  BY <1>1
<1>2. CASE MarkWake \/ Judge \/ OutsideRead \/ Reconcile
  BY <1>2, Retouched DEF Touched
<1>3. CASE Persist
  BY <1>3, Persisting
<1>4. CASE Refused \/ Throw \/ Cancel \/ Receive \/ Invalid \/ CrossDay \/ Close
  <2>1. PICK a \in Attempt : Busy /\ Amend(a) /\ (~Receive => a.out = Current.out)
    BY <1>4, Amended
  <2>2. Receive => Current.out = "none"
    <3>1. Receive => exec # NoExec /\ exec.day = task.day /\ exec.index = Len(attempts[task.day])
      BY DEF Receive, OnRecord, AtWork, Pair, Pending
    <3> QED
      BY <2>1, <3>1, CurrentIsTyped DEF OnRecord, Executing
  <2> QED
    BY <2>1, <2>2, Amending, CurrentIsTyped
<1> QED
  BY <1>1, <1>2, <1>3, <1>4, LooksOnly

-----------------------------------------------------------------------------
(* Theorems: the budgets *)

LEMMA AttemptSets ==
  ASSUME Typed
  PROVE  \A d \in Days : /\ DOMAIN attempts[d] = 1..Len(attempts[d]) /\ Len(attempts[d]) \in Nat
                         /\ IsFiniteSet(DOMAIN attempts[d])
                         /\ \A S \in SUBSET DOMAIN attempts[d] : IsFiniteSet(S) /\ Cardinality(S) \in Nat
<1> SUFFICES ASSUME NEW d \in Days
             PROVE  /\ DOMAIN attempts[d] = 1..Len(attempts[d]) /\ Len(attempts[d]) \in Nat
                    /\ IsFiniteSet(DOMAIN attempts[d])
                    /\ \A S \in SUBSET DOMAIN attempts[d] : IsFiniteSet(S) /\ Cardinality(S) \in Nat
  OBVIOUS
<1>1. DOMAIN attempts[d] = 1..Len(attempts[d]) /\ Len(attempts[d]) \in Nat
  BY LenProperties DEF Typed, Journals
<1>2. IsFiniteSet(DOMAIN attempts[d])
  BY <1>1, FS_Interval
<1> QED
  BY <1>1, <1>2, FS_Subset, FS_CardinalityType

LEMMA ReadSets ==
  ASSUME Typed
  PROVE  \A d \in Days : /\ DOMAIN reads[d] = 1..Len(reads[d]) /\ Len(reads[d]) \in Nat
                         /\ IsFiniteSet(DOMAIN reads[d])
                         /\ \A S \in SUBSET DOMAIN reads[d] : IsFiniteSet(S) /\ Cardinality(S) \in Nat
<1> SUFFICES ASSUME NEW d \in Days
             PROVE  /\ DOMAIN reads[d] = 1..Len(reads[d]) /\ Len(reads[d]) \in Nat
                    /\ IsFiniteSet(DOMAIN reads[d])
                    /\ \A S \in SUBSET DOMAIN reads[d] : IsFiniteSet(S) /\ Cardinality(S) \in Nat
  OBVIOUS
<1>1. DOMAIN reads[d] = 1..Len(reads[d]) /\ Len(reads[d]) \in Nat
  BY LenProperties DEF Typed, Journals
<1>2. IsFiniteSet(DOMAIN reads[d])
  BY <1>1, FS_Interval
<1> QED
  BY <1>1, <1>2, FS_Subset, FS_CardinalityType

\* A set that grows by one element at most.
LEMMA OneMore ==
  ASSUME NEW S, IsFiniteSet(S), NEW x, NEW T, T \subseteq S \cup {x}
  PROVE  Cardinality(T) <= Cardinality(S) + 1 /\ Cardinality(T) \in Nat /\ Cardinality(S) \in Nat
<1>1. /\ IsFiniteSet(S \cup {x}) /\ Cardinality(S) \in Nat
      /\ Cardinality(S \cup {x}) = IF x \in S THEN Cardinality(S) ELSE Cardinality(S) + 1
  BY FS_AddElement, FS_CardinalityType
<1>2. IsFiniteSet(T) /\ Cardinality(T) <= Cardinality(S \cup {x})
  BY <1>1, FS_Subset
<1> QED
  BY <1>1, <1>2, FS_CardinalityType

LEMMA NoMore ==
  ASSUME NEW S, IsFiniteSet(S), NEW T, T \subseteq S
  PROVE  Cardinality(T) <= Cardinality(S) /\ Cardinality(T) \in Nat /\ Cardinality(S) \in Nat
BY FS_Subset, FS_CardinalityType

\* An attempt is begun only while the day has one left, unless an operator
\* asked for it; the others only end what was begun.
LEMMA AttemptsStep ==
  ASSUME Typed, AttemptsInBudget, [Next]_vars
  PROVE  AttemptsInBudget'
<1> DEFINE Free == (pc = "permit" \/ (pc = "refresh" /\ ~task.verify)) /\ task.manual = NoRequest
           Room == Cardinality(Counted(attempts[task.day])) < MaxAttempts
<1>0. /\ Typed' /\ MaxAttempts \in Nat /\ task.day \in Days
      /\ \A d \in Days : /\ IsFiniteSet(Spent(d)) /\ IsFiniteSet(Counted(attempts[d]))
                         /\ Cardinality(Spent(d)) \in Nat /\ Cardinality(Counted(attempts[d])) \in Nat
  <2>1. \A d \in Days : /\ Spent(d) \in SUBSET DOMAIN attempts[d]
                        /\ Counted(attempts[d]) \in SUBSET DOMAIN attempts[d]
    BY DEF Spent, Counted
  <2> QED
    BY <2>1, TypeStep, AttemptSets, HarvestFallbackAssumption DEF Typed, Task
<1>1. SUFFICES /\ \A d \in Days : Cardinality(Spent(d)') <= MaxAttempts
               /\ Free' => Room'
  BY DEF AttemptsInBudget
<1>2. ASSUME \A d \in Days : Spent(d)' \subseteq Spent(d)
      PROVE  \A d \in Days : Cardinality(Spent(d)') <= MaxAttempts
  <2> SUFFICES ASSUME NEW d \in Days PROVE Cardinality(Spent(d)') <= MaxAttempts
    OBVIOUS
  <2>1. Cardinality(Spent(d)') <= Cardinality(Spent(d)) /\ Cardinality(Spent(d)') \in Nat
    BY <1>0, <1>2, NoMore
  <2> QED
    BY <1>0, <2>1 DEF AttemptsInBudget
<1>3. CASE Looking
  <2>1. Busy' => Busy /\ task'.day = task.day
    BY <1>3 DEF Looking, vars, Plan, Claim, Consider, Skip, ReadPage, Dispatch, Crash, Send, OrphanEnds,
       SiteSigns, LoginRecovered, Promote, Tick, BeginRead, DeferRead, FailRead, Publish, Rest, Unchanged, Busy
  <2>2. UNCHANGED attempts
    BY <1>3, LooksOnly
  <2>3. \A d \in Days : Spent(d)' \subseteq Spent(d)
    BY <2>1, <2>2 DEF Spent
  <2>4. Free' => (pc' = pc /\ task' = task) \/ Consider
    BY <1>3 DEF Looking, vars, Plan, Claim, Skip, ReadPage, Dispatch, Crash, Send, OrphanEnds,
       SiteSigns, LoginRecovered, Promote, Tick, BeginRead, DeferRead, FailRead, Publish, Rest, Unchanged
  <2>5. ASSUME Consider, Free' PROVE Room'
    <3>1. task'.day = task.day /\ ~AlreadyAttempted(task.day)
      <4>1. PICK verify \in BOOLEAN : /\ task' = [task EXCEPT !.verify = verify, !.at = now]
                                      /\ ~verify => ~AlreadyAttempted(task.day)
        BY <2>5 DEF Consider, ReadDue
      <4>2. task'.day = task.day /\ task'.verify = verify
        BY <4>1 DEF Typed, Task
      <4>3. ~task'.verify
        BY <2>5 DEF Consider
      <4> QED
        BY <4>1, <4>2, <4>3
    <3>2. ~(Cardinality(Counted(attempts[task.day])) >= MaxAttempts)
      BY <3>1 DEF AlreadyAttempted
    <3> QED
      BY <1>0, <2>2, <3>1, <3>2 DEF Counted
  <2>6. pc' = pc /\ task' = task /\ Free' => Room'
    BY <2>2 DEF AttemptsInBudget, Counted
  <2> QED
    BY <1>2, <2>3, <2>4, <2>5, <2>6
<1>4. CASE MarkWake \/ Judge \/ OutsideRead \/ Reconcile
  <2>1. \A d \in Days : /\ DOMAIN attempts'[d] = DOMAIN attempts[d]
                        /\ \A i \in DOMAIN attempts[d] : Touched(attempts[d][i], attempts'[d][i])
    BY <1>4, Retouched
  <2>2. ~Busy'
    BY <1>4 DEF MarkWake, Judge, OutsideRead, Reconcile, Rest, Busy, Ready
  <2>3. \A d \in Days : Spent(d)' \subseteq Spent(d) /\ Counted(attempts[d])' = Counted(attempts[d])
    BY <2>1, <2>2 DEF Spent, Counted, Touched
  <2>4. ASSUME MarkWake, Free' PROVE Room'
    <3>1. task' = [task EXCEPT !.wake = TRUE] /\ pc' = pc
      BY <2>4 DEF MarkWake
    <3>2. task'.day = task.day /\ task'.verify = task.verify /\ task'.manual = task.manual
      BY <3>1 DEF Typed, Task
    <3> QED
      BY <1>0, <2>3, <2>4, <3>1, <3>2 DEF AttemptsInBudget
  <2>5. ASSUME Judge, Free' PROVE Room'
    <3>1. Permits(task.day, seen.at) /\ task' = [task EXCEPT !.proof = seen.at]
      BY <2>5 DEF Judge, Rest
    <3>2. task'.day = task.day /\ task'.manual = task.manual
      BY <3>1 DEF Typed, Task
    <3> QED
      BY <1>0, <2>3, <2>5, <3>1, <3>2 DEF Permits
  <2>6. OutsideRead \/ Reconcile => ~Free'
    BY DEF OutsideRead, Reconcile
  <2> QED
    BY <1>2, <1>4, <2>3, <2>4, <2>5, <2>6
<1>5. CASE Persist
  <2> DEFINE n == Len(attempts[task.day]) + 1
  <2>1. /\ \A d \in Days : d # task.day => attempts'[d] = attempts[d]
        /\ \A i \in DOMAIN attempts[task.day] : attempts'[task.day][i] = attempts[task.day][i]
        /\ DOMAIN attempts'[task.day] = DOMAIN attempts[task.day] \cup {n}
        /\ attempts'[task.day][n] = NewAttempt
        /\ NewAttempt.manual = task.manual
        /\ Len(attempts'[task.day]) = n /\ n \notin DOMAIN attempts[task.day]
    BY <1>5, Persisting, AttemptSets DEF NewAttempt
  <2>2. pc' = "intent" /\ task' = task /\ ~Busy
        /\ (pc = "permit" \/ (pc = "refresh" /\ ~task.verify))
    BY <1>5 DEF Persist, Ready, Busy
  <2> HIDE DEF n
  <2>3. ASSUME NEW d \in Days, d # task.day \/ task.manual # NoRequest PROVE Spent(d)' \subseteq Spent(d)
    BY <2>1, <2>2, <2>3 DEF Spent
  <2>4. ASSUME NEW d \in Days, d = task.day, task.manual = NoRequest PROVE Cardinality(Spent(d)') <= MaxAttempts
    <3>1. Spent(d)' \subseteq Counted(attempts[task.day]) \cup {n}
      BY <2>1, <2>2, <2>4 DEF Spent, Counted
    <3>2. Room
      BY <2>2, <2>4 DEF AttemptsInBudget
    <3>3. Cardinality(Spent(d)') <= Cardinality(Counted(attempts[task.day])) + 1
          /\ Cardinality(Spent(d)') \in Nat
      BY <1>0, <3>1, OneMore
    <3> QED
      BY <1>0, <3>2, <3>3
  <2>5. ASSUME NEW d \in Days PROVE Cardinality(Spent(d)') <= MaxAttempts
    <3>1. CASE d # task.day \/ task.manual # NoRequest
      <4>1. Cardinality(Spent(d)') <= Cardinality(Spent(d)) /\ Cardinality(Spent(d)') \in Nat
        BY <1>0, <2>3, <3>1, NoMore
      <4> QED
        BY <1>0, <4>1 DEF AttemptsInBudget
    <3> QED
      BY <2>4, <3>1
  <2> QED
    BY <2>2, <2>5
<1>6. CASE Refused \/ Throw \/ Cancel \/ Receive \/ Invalid \/ CrossDay \/ Close
  <2>1. PICK a \in Attempt : Busy /\ Amend(a) /\ Kept(Current, a)
    BY <1>6, Amended
  <2>2. pc' = "idle" \/ (pc' \in {"intent", "dispatched", "received"} /\ task'.day = task.day)
    BY <1>6 DEF Refused, Throw, Cancel, Receive, Invalid, CrossDay, Close, Rest, Typed, Task
  <2>3. ASSUME NEW d \in Days PROVE Spent(d)' \subseteq Spent(d)
    BY <2>1, <2>2, Amending, CurrentIsTyped DEF Spent, Busy, Kept
  <2> QED
    BY <1>2, <2>2, <2>3
<1> QED
  BY <1>3, <1>4, <1>5, <1>6, LooksOnly

\* A day once without a Harvest wait that is not any more stays so.
LEMMA WaitsStand ==
  ASSUME Typed, OnRecord, [Next]_vars, NEW d \in Days, NoWaits(d)'
  PROVE  NoWaits(d)
BY ResultsStand DEF NoWaits

LEMMA AllowedStands ==
  ASSUME Typed, Allowed, UNCHANGED reads, task'.day = task.day, task'.signal = task.signal, now' \in {now, now + 1}
  PROVE  Allowed'
<1>0. /\ now \in Nat /\ task.signal \in Nat /\ SignalLife \in Nat /\ task.day \in Days
      /\ \A i \in DOMAIN reads[task.day] : reads[task.day][i].next \in Nat
  <2>1. \A i \in DOMAIN reads[task.day] : reads[task.day][i] \in Read
    BY ElementOfSeq, LenProperties DEF Typed, Journals, Task
  <2>2. Later \subseteq Nat /\ Time \subseteq Nat
    BY DEF Later, Time
  <2> QED
    BY <2>1, <2>2, HarvestFallbackAssumption DEF Read, Typed, Task
<1>1. CASE Cardinality(Counted(reads[task.day])) < MaxReads
  BY <1>1 DEF Allowed, Counted
<1>2. CASE WakeupDue(task.day, task.signal)
  <2>1. CASE now' - task.signal > SignalLife
    BY <1>2, <2>1 DEF Allowed, WakeupDue
  <2>2. CASE ~(now' - task.signal > SignalLife)
    <3>1. now' - task.signal <= SignalLife /\ now' >= now /\ now' \in Nat
      BY <1>0, <2>2
    <3>2. WakeupDue(task.day, task.signal)'
      BY <1>0, <1>2, <3>1 DEF WakeupDue, Counted, Day
    <3> QED
      BY <3>2 DEF Allowed
  <2> QED
    BY <2>1, <2>2
<1>3. CASE task.signal # 0 /\ now - task.signal > SignalLife
  BY <1>0, <1>3 DEF Allowed
<1> QED
  BY <1>1, <1>2, <1>3 DEF Allowed

LEMMA ReadsStep ==
  ASSUME Typed, OnRecord, ReadsInBudget, [Next]_vars
  PROVE  ReadsInBudget'
<1>0. /\ Typed' /\ MaxReads \in Nat /\ MaxWakeups \in Nat /\ task.day \in Days
      /\ \A d \in Days : IsFiniteSet(Wakes(d)) /\ IsFiniteSet(Plain(d)) /\ IsFiniteSet(Counted(reads[d]))
  <2>1. \A d \in Days : /\ Wakes(d) \in SUBSET DOMAIN reads[d] /\ Plain(d) \in SUBSET DOMAIN reads[d]
                        /\ Counted(reads[d]) \in SUBSET DOMAIN reads[d]
    BY DEF Wakes, Plain, Counted
  <2> QED
    BY <2>1, TypeStep, ReadSets, HarvestFallbackAssumption DEF Typed, Task
<1>1. ASSUME \A d \in Days : Wakes(d)' \subseteq Wakes(d) /\ Plain(d)' \subseteq Plain(d)
      PROVE  /\ \A d \in Days : Cardinality(Wakes(d)') <= MaxWakeups
             /\ \A d \in Days : NoWaits(d)' => Cardinality(Plain(d)') <= MaxReads
  <2> SUFFICES ASSUME NEW d \in Days
               PROVE  /\ Cardinality(Wakes(d)') <= MaxWakeups
                      /\ NoWaits(d)' => Cardinality(Plain(d)') <= MaxReads
    OBVIOUS
  <2>1. /\ Cardinality(Wakes(d)') <= Cardinality(Wakes(d)) /\ Cardinality(Plain(d)') <= Cardinality(Plain(d))
        /\ Cardinality(Wakes(d)') \in Nat /\ Cardinality(Plain(d)') \in Nat
        /\ Cardinality(Wakes(d)) \in Nat /\ Cardinality(Plain(d)) \in Nat
    BY <1>0, <1>1, NoMore
  <2> QED
    BY <1>0, <2>1, WaitsStand DEF ReadsInBudget
<1>2. CASE \/ \E m \in Request \cup {NoRequest} : Plan(m)
           \/ Claim \/ Consider \/ Skip \/ ReadPage \/ Dispatch
           \/ Crash \/ Send \/ OrphanEnds \/ SiteSigns \/ LoginRecovered \/ Promote \/ Tick
           \/ MarkWake \/ Persist \/ Refused \/ Throw \/ Cancel \/ Receive \/ Invalid \/ CrossDay
           \/ Publish \/ Close \/ OutsideRead \/ Reconcile \/ UNCHANGED vars
  <2>1. UNCHANGED reads
    BY <1>2 DEF vars, Plan, Claim, Consider, Skip, ReadPage, Dispatch, Crash, Send, OrphanEnds, SiteSigns,
       LoginRecovered, Promote, Tick, MarkWake, Persist, Refused, Throw, Cancel, Receive, Invalid, CrossDay,
       Publish, Close, OutsideRead, Reconcile, Unchanged, journal
  <2>2. \A d \in Days : Wakes(d)' \subseteq Wakes(d) /\ Plain(d)' \subseteq Plain(d)
    BY <2>1 DEF Wakes, Plain, Counted, Lapsed
  <2>3. pc' \in {"reading", "read"} => pc \in {"reading", "read"} /\ task' = task
    BY <1>2 DEF vars, Plan, Claim, Consider, Skip, ReadPage, Dispatch, Crash, Send, OrphanEnds, SiteSigns,
       LoginRecovered, Promote, Tick, MarkWake, Persist, Refused, Throw, Cancel, Receive, Invalid, CrossDay,
       Publish, Close, OutsideRead, Reconcile, Unchanged, Rest, Ready
  <2>4. pc' \in {"reading", "read"} => LastRead'.state = "in_progress"
    BY <2>1, <2>3 DEF ReadsInBudget, LastRead
  <2>5. pc' = "refresh" => Consider \/ MarkWake \/ (pc = "refresh" /\ task' = task /\ now' \in {now, now + 1})
    BY <1>2 DEF vars, Plan, Claim, Skip, ReadPage, Dispatch, Crash, Send, OrphanEnds, SiteSigns,
       LoginRecovered, Promote, Tick, Persist, Refused, Throw, Cancel, Receive, Invalid, CrossDay,
       Publish, Close, OutsideRead, Reconcile, Unchanged, Rest, Ready
  <2>6. ASSUME Planning' PROVE Allowed'
    <3>1. CASE Consider
      <4>1. PICK verify \in BOOLEAN : /\ task' = [task EXCEPT !.verify = verify, !.at = now]
                                      /\ verify => task.manual # NoRequest \/ ReadDue(task.day, task.signal)
        BY <3>1 DEF Consider, ReadDue
      <4>2. /\ task'.day = task.day /\ task'.verify = verify /\ task'.manual = task.manual
            /\ task'.signal = task.signal
        BY <4>1 DEF Typed, Task
      <4>3. UNCHANGED <<now, attempts>>
        BY <3>1 DEF Consider, Unchanged, journal
      <4>4. WaitsDue(task.day, now) = {}
        BY <2>6, <4>2, <4>3 DEF Planning, NoWaits, WaitsDue, WaitDue
      <4>5. WakeupDue(task.day, task.signal) \/ ScheduledDue(task.day)
        BY <2>6, <4>1, <4>2, <4>4 DEF Planning, ReadDue
      <4>6. Allowed
        BY <4>5 DEF Allowed, ScheduledDue
      <4> QED
        BY <2>1, <4>2, <4>3, <4>6, AllowedStands
    <3>2. CASE MarkWake
      <4>1. task' = [task EXCEPT !.wake = TRUE] /\ pc' = pc /\ (pc = "refresh" => ~task.verify)
        BY <3>2 DEF MarkWake, Ready
      <4>2. task'.verify = task.verify
        BY <4>1 DEF Typed, Task
      <4> QED
        BY <2>6, <4>1, <4>2 DEF Planning
    <3>3. CASE pc = "refresh" /\ task' = task /\ now' \in {now, now + 1}
      <4>1. NoWaits(task.day)
        BY <1>0, <2>6, <3>3, WaitsStand DEF Planning
      <4>2. Planning
        BY <2>6, <3>3, <4>1 DEF Planning
      <4> QED
        BY <2>1, <3>3, <4>2, AllowedStands DEF ReadsInBudget
    <3> QED
      BY <2>5, <2>6, <3>1, <3>2, <3>3 DEF Planning
  <2> QED
    BY <1>1, <2>2, <2>4, <2>6 DEF ReadsInBudget
<1>3. CASE BeginRead
  <2> DEFINE n == Len(reads[task.day]) + 1
  <2>1. PICK r \in Read :
           /\ reads' = [reads EXCEPT ![task.day] = Append(@, r)]
           /\ r.state = "in_progress" /\ r.start = now /\ r.planned = task.signal
           /\ r.signal = IF WakeupDue(task.day, task.signal) THEN task.signal ELSE 0
           /\ r.manual = (task.manual # NoRequest)
    BY <1>3, Beginning
  <2>2. /\ \A d \in Days : d # task.day => reads'[d] = reads[d]
        /\ \A i \in DOMAIN reads[task.day] : reads'[task.day][i] = reads[task.day][i]
        /\ DOMAIN reads'[task.day] = DOMAIN reads[task.day] \cup {n} /\ n \notin DOMAIN reads[task.day]
        /\ reads'[task.day][n] = r /\ Len(reads'[task.day]) = n
    <3>1. reads \in [Days -> Seq(Read)]
      BY DEF Typed, Journals
    <3> QED
      BY <1>0, <2>1, <3>1, OneAppended, ReadSets
  <2>3. pc' = "reading" /\ task' = task /\ attempts' = attempts /\ pc = "refresh" /\ task.verify
    BY <1>3 DEF BeginRead
  <2> HIDE DEF n
  <2>4. LastRead'.state = "in_progress"
    BY <2>1, <2>2, <2>3 DEF LastRead, Last
  <2>5. ASSUME NEW d \in Days, d # task.day
        PROVE  Wakes(d)' = Wakes(d) /\ Plain(d)' = Plain(d)
    BY <2>2, <2>5 DEF Wakes, Plain, Counted
  <2>6. ASSUME NEW d \in Days, d = task.day, r.signal = 0 PROVE Wakes(d)' \subseteq Wakes(d)
    BY <2>2, <2>6 DEF Wakes, Counted
  <2>7. ASSUME NEW d \in Days, d = task.day, r.signal # 0
        PROVE  /\ Cardinality(Wakes(d)) < MaxWakeups /\ Wakes(d)' \subseteq Wakes(d) \cup {n}
               /\ Plain(d)' \subseteq Plain(d)
    <3>1. WakeupDue(d, task.signal)
      BY <2>1, <2>7
    <3> QED
      BY <2>2, <2>7, <3>1 DEF Wakes, Plain, Counted, WakeupDue
  <2>8. ASSUME NEW d \in Days, d = task.day, r.manual \/ Lapsed(r) PROVE Plain(d)' \subseteq Plain(d)
    BY <2>2, <2>8 DEF Plain, Counted
  <2>9. ASSUME NEW d \in Days, d = task.day, r.signal = 0, ~r.manual, ~Lapsed(r), NoWaits(d)'
        PROVE  /\ Cardinality(Counted(reads[d])) < MaxReads
               /\ Plain(d)' \subseteq Counted(reads[d]) \cup {n}
    <3>1. NoWaits(d)
      BY <2>3, <2>9 DEF NoWaits
    <3>2. Allowed
      BY <2>1, <2>3, <2>9, <3>1 DEF Planning, ReadsInBudget
    <3>3. ~WakeupDue(task.day, task.signal)
      BY <2>1, <2>9 DEF WakeupDue
    <3>4. ~(task.signal # 0 /\ now - task.signal > SignalLife)
      BY <2>1, <2>9 DEF Lapsed
    <3> QED
      BY <2>2, <2>9, <3>2, <3>3, <3>4 DEF Allowed, Plain, Counted
  <2>10. ASSUME NEW d \in Days PROVE Cardinality(Wakes(d)') <= MaxWakeups
    <3>1. CASE Wakes(d)' \subseteq Wakes(d)
      BY <1>0, <3>1, NoMore DEF ReadsInBudget
    <3>2. CASE Cardinality(Wakes(d)) < MaxWakeups /\ Wakes(d)' \subseteq Wakes(d) \cup {n}
      <4>1. /\ Cardinality(Wakes(d)') <= Cardinality(Wakes(d)) + 1
            /\ Cardinality(Wakes(d)') \in Nat /\ Cardinality(Wakes(d)) \in Nat
        BY <1>0, <3>2, OneMore
      <4> QED
        BY <1>0, <3>2, <4>1
    <3> QED
      BY <2>5, <2>6, <2>7, <3>1, <3>2
  <2>11. ASSUME NEW d \in Days, NoWaits(d)' PROVE Cardinality(Plain(d)') <= MaxReads
    <3>1. CASE Plain(d)' \subseteq Plain(d)
      <4>1. Cardinality(Plain(d)) <= MaxReads
        BY <2>11, WaitsStand DEF ReadsInBudget
      <4>2. /\ Cardinality(Plain(d)') <= Cardinality(Plain(d))
            /\ Cardinality(Plain(d)') \in Nat /\ Cardinality(Plain(d)) \in Nat
        BY <1>0, <3>1, NoMore
      <4> QED
        BY <1>0, <4>1, <4>2
    <3>2. CASE /\ Cardinality(Counted(reads[d])) < MaxReads
               /\ Plain(d)' \subseteq Counted(reads[d]) \cup {n}
      <4>1. /\ Cardinality(Plain(d)') <= Cardinality(Counted(reads[d])) + 1
            /\ Cardinality(Plain(d)') \in Nat /\ Cardinality(Counted(reads[d])) \in Nat
        BY <1>0, <3>2, OneMore
      <4> QED
        BY <1>0, <3>2, <4>1
    <3> QED
      BY <2>5, <2>7, <2>8, <2>9, <2>11, <3>1, <3>2
  <2> QED
    BY <2>3, <2>4, <2>10, <2>11 DEF ReadsInBudget, Planning
<1>4. CASE DeferRead \/ FailRead \/ Judge
  <2>1. pc \in {"reading", "read"} /\ pc' \notin {"reading", "read", "refresh"}
    BY <1>4 DEF DeferRead, FailRead, Judge, Rest
  <2>2. \A d \in Days : /\ DOMAIN reads'[d] = DOMAIN reads[d]
          /\ \A i \in DOMAIN reads[d] :
              /\ reads'[d][i].start = reads[d][i].start /\ reads'[d][i].planned = reads[d][i].planned
              /\ reads'[d][i].signal = reads[d][i].signal /\ reads'[d][i].manual = reads[d][i].manual
              /\ reads[d][i].state = "deferred" =>
                   reads'[d][i].state = "deferred" \/ (d = task.day /\ i = Len(reads[d]))
    BY <1>4, Reading
  <2>3. reads[task.day][Len(reads[task.day])].state # "deferred"
    BY <2>1 DEF ReadsInBudget, LastRead, Last
  <2>4. \A d \in Days : Wakes(d)' \subseteq Wakes(d) /\ Plain(d)' \subseteq Plain(d)
    BY <2>2, <2>3 DEF Wakes, Plain, Counted, Lapsed
  <2> QED
    BY <1>1, <2>1, <2>4 DEF ReadsInBudget, Planning
<1> QED
  BY <1>2, <1>3, <1>4 DEF Next, Run, Around

LEMMA BudgetsInit == Init => AttemptsInBudget /\ ReadsInBudget
<1> SUFFICES ASSUME Init PROVE AttemptsInBudget /\ ReadsInBudget
  OBVIOUS
<1>1. \A d \in Days : Spent(d) = {} /\ Wakes(d) = {} /\ Plain(d) = {}
  BY EmptySeq DEF Init, Spent, Wakes, Plain, Counted
<1>2. Cardinality({}) = 0 /\ MaxAttempts \in Nat /\ MaxReads \in Nat /\ MaxWakeups \in Nat
  BY FS_EmptySet, HarvestFallbackAssumption
<1>3. \A d \in Days : /\ Cardinality(Spent(d)) <= MaxAttempts /\ Cardinality(Wakes(d)) <= MaxWakeups
                      /\ Cardinality(Plain(d)) <= MaxReads
  BY <1>1, <1>2
<1>4. pc = "idle"
  BY DEF Init
<1> QED
  BY <1>3, <1>4 DEF AttemptsInBudget, ReadsInBudget, Planning

LEMMA BudgetsBound == Typed /\ AttemptsInBudget /\ ReadsInBudget => Budgets
<1> SUFFICES ASSUME Typed, AttemptsInBudget, ReadsInBudget, NEW d \in Days
    PROVE /\ Cardinality({i \in Counted(attempts[d]) : attempts[d][i].manual = NoRequest}) <= MaxAttempts
          /\ NoWaits(d) =>
             Cardinality({i \in Counted(reads[d]) : ~reads[d][i].manual /\ ~Lapsed(reads[d][i])})
               <= MaxReads + MaxWakeups
  BY DEF Budgets, NoWaits
<1>0. MaxAttempts \in Nat /\ MaxReads \in Nat /\ MaxWakeups \in Nat
  BY HarvestFallbackAssumption
<1>1. Spent(d) \subseteq DOMAIN attempts[d] /\ Wakes(d) \subseteq DOMAIN reads[d] /\ Plain(d) \subseteq DOMAIN reads[d]
  BY DEF Spent, Wakes, Plain, Counted
<1>2. IsFiniteSet(Spent(d)) /\ IsFiniteSet(Wakes(d)) /\ IsFiniteSet(Plain(d))
  BY <1>1, AttemptSets, ReadSets
<1>3. Cardinality({i \in Counted(attempts[d]) : attempts[d][i].manual = NoRequest}) <= MaxAttempts
  <2>1. {i \in Counted(attempts[d]) : attempts[d][i].manual = NoRequest} \subseteq Spent(d)
    BY DEF Spent, Counted
  <2> QED
    BY <1>0, <1>2, <2>1, NoMore DEF AttemptsInBudget
<1>4. ASSUME NoWaits(d)
      PROVE Cardinality({i \in Counted(reads[d]) : ~reads[d][i].manual /\ ~Lapsed(reads[d][i])})
              <= MaxReads + MaxWakeups
  <2> DEFINE S == {i \in Counted(reads[d]) : ~reads[d][i].manual /\ ~Lapsed(reads[d][i])}
  <2>1. S \subseteq Wakes(d) \cup Plain(d)
    BY DEF Wakes, Plain
  <2>2. /\ IsFiniteSet(Wakes(d) \cup Plain(d))
        /\ Cardinality(Wakes(d) \cup Plain(d)) =
             Cardinality(Wakes(d)) + Cardinality(Plain(d)) - Cardinality(Wakes(d) \cap Plain(d))
    BY <1>2, FS_Union
  <2>3. /\ Cardinality(Wakes(d)) \in Nat /\ Cardinality(Plain(d)) \in Nat
        /\ Cardinality(Wakes(d) \cap Plain(d)) \in Nat
    BY <1>2, FS_CardinalityType, FS_Intersection
  <2> HIDE DEF S
  <2>4. Cardinality(S) <= Cardinality(Wakes(d) \cup Plain(d)) /\ Cardinality(S) \in Nat
    BY <2>1, <2>2, NoMore
  <2>5. Cardinality(Wakes(d)) <= MaxWakeups /\ Cardinality(Plain(d)) <= MaxReads
    BY <1>4 DEF ReadsInBudget
  <2>6. Cardinality(S) <= MaxReads + MaxWakeups
    BY <1>0, <2>2, <2>3, <2>4, <2>5
  <2> QED
    BY <2>6 DEF S
<1> QED
  BY <1>3, <1>4

\* Across any number of runs, crashes and midnights a day has no more attempts
\* and readings than its budgets allow, those of operator requests, of Harvest
\* waits and of receipts that lapsed before their reading began apart.
THEOREM BudgetsHold == Spec => []Budgets
<1> DEFINE Inv == Typed /\ OnRecord /\ AttemptsInBudget /\ ReadsInBudget
<1>1. Init => Inv
  BY TypeInit, RecordInit, BudgetsInit
<1>2. Inv /\ [Next]_vars => Inv'
  BY TypeStep, RecordStep, AttemptsStep, ReadsStep
<1>3. Inv => Budgets
  BY BudgetsBound
<1> QED
  BY <1>1, <1>2, <1>3, PTL DEF Spec

-----------------------------------------------------------------------------
(* Theorems: no blind replay *)

\* A reading that permits an attempt is newer than every request.
LEMMA SightedStep ==
  ASSUME Typed, OnRecord, Sighted, [Next]_vars
  PROVE  Sighted'
<1>1. CASE ReadPage
  <2>1. PICK page \in Readable : seen' = page
    BY <1>1 DEF ReadPage
  <2>2. page.at = now
    BY DEF Readable
  <2> QED
    BY <1>1, <2>1, <2>2 DEF ReadPage, Sighted, Typed
<1>2. CASE Judge
  <2>1. pc' = "permit" => task' = [task EXCEPT !.proof = seen.at]
    BY <1>2 DEF Judge, Rest
  <2>2. pc' = "permit" => task'.proof = seen.at
    BY <2>1 DEF Typed, Task
  <2> QED
    BY <1>2, <2>2 DEF Judge, Sighted, Rest, audit
<1>3. CASE MarkWake
  <2>1. task' = [task EXCEPT !.wake = TRUE] /\ pc' = pc /\ UNCHANGED <<exec, sure, seen>>
    BY <1>3 DEF MarkWake, Unchanged, audit
  <2>2. task'.proof = task.proof
    BY <2>1 DEF Typed, Task
  <2> QED
    BY <2>1, <2>2 DEF Sighted
<1>4. CASE \/ Claim \/ Consider \/ Skip \/ Dispatch \/ \E m \in Request \cup {NoRequest} : Plan(m)
           \/ Crash \/ BeginRead \/ DeferRead \/ FailRead \/ Publish
           \/ Persist \/ Refused \/ Throw \/ Cancel \/ Receive \/ Invalid \/ CrossDay \/ Close
  <2>1. pc' \notin {"read", "permit"}
    BY <1>4 DEF Plan, Claim, Consider, Skip, Dispatch, Crash, BeginRead, DeferRead, FailRead, Publish,
       Persist, Refused, Throw, Cancel, Receive, Invalid, CrossDay, Close, Rest, Unchanged
  <2> QED
    BY <2>1 DEF Sighted
<1>5. CASE Send \/ OrphanEnds
  BY <1>5 DEF Send, OrphanEnds, Sighted, audit
<1>6. CASE SiteSigns \/ LoginRecovered \/ Promote \/ Tick \/ OutsideRead \/ Reconcile \/ UNCHANGED vars
  BY <1>6 DEF SiteSigns, LoginRecovered, Promote, Tick, OutsideRead, Reconcile, vars, Sighted, audit
<1> QED
  BY <1>1, <1>2, <1>3, <1>4, <1>5, <1>6 DEF Next, Run, Around

\* An attempt is completed by a result.
LEMMA AnsweredStep ==
  ASSUME Typed, OnRecord, Answered, [Next]_vars
  PROVE  Answered'
<1> DEFINE Done(f) == \A d \in Days : \A i \in DOMAIN f[d] : f[d][i].state = "completed" => f[d][i].out # "none"
<1>1. CASE Looking
  <2>1. UNCHANGED attempts
    BY <1>1, LooksOnly
  <2>2. pc' \in {"received", "published"} => pc \in {"received", "published"} /\ task' = task
    BY <1>1 DEF Looking, vars, Plan, Claim, Consider, Skip, ReadPage, Dispatch, Crash, Send, OrphanEnds,
       SiteSigns, LoginRecovered, Promote, Tick, BeginRead, DeferRead, FailRead, Publish, Rest, Unchanged
  <2> QED
    BY <2>1, <2>2 DEF Answered, Current
<1>2. CASE MarkWake \/ Judge \/ OutsideRead \/ Reconcile
  <2>1. pc' \notin {"received", "published"}
    BY <1>2 DEF MarkWake, Judge, OutsideRead, Reconcile, Rest, Ready
  <2> QED
    BY <1>2, <2>1, Retouched DEF Answered, Touched
<1>3. CASE Persist
  <2>1. pc' = "intent" /\ NewAttempt.state # "completed"
    BY <1>3 DEF Persist, NewAttempt
  <2>2. \A d \in Days : \A i \in DOMAIN attempts'[d] :
          i \in DOMAIN attempts[d] \/ attempts'[d][i] = NewAttempt
    BY <1>3, Persisting
  <2> QED
    BY <1>3, <2>1, <2>2, Persisting DEF Answered
<1>4. CASE Refused \/ Throw \/ Cancel \/ Receive \/ Invalid \/ CrossDay \/ Close
  <2>1. PICK a \in Attempt :
           /\ Busy /\ Amend(a)
           /\ ~Receive => a.out = Current.out
           /\ a.state = "completed" => Close \/ (Receive /\ Current.state = "completed")
           /\ Receive => a.out # "none"
    BY <1>4, Amended
  <2>2. Close => pc = "published" /\ a.out = Current.out
    BY <2>1 DEF Close, Receive
  <2>3. a.state = "completed" => a.out # "none"
    BY <2>1, <2>2 DEF Answered
  <2>4. pc' \in {"received", "published"} => Receive
    BY <1>4 DEF Refused, Throw, Cancel, Invalid, CrossDay, Close, Rest
  <2>5. Receive => Current' = a
    BY <2>1, Amending, CurrentIsTyped DEF Receive, Current, Last
  <2> QED
    BY <2>1, <2>3, <2>4, <2>5, Amending, CurrentIsTyped DEF Answered
<1> QED
  BY <1>1, <1>2, <1>3, <1>4, LooksOnly

LEMMA SpareStays ==
  ASSUME NEW a \in Attempt, NEW b \in Attempt, Touched(a, b), Spare(a)
  PROVE  Spare(b)
<1>1. a.woken \in BOOLEAN /\ b.woken \in BOOLEAN
  BY DEF Attempt
<1> QED
  BY <1>1 DEF Touched, Spare

\* A candidate without a reviewed reader is attempted anew only when nothing
\* can come of the day's earlier attempts, and no earlier day's is unresolved.
LEMMA UnguardedConsider ==
  ASSUME Typed, Unguarded, Consider
  PROVE  Unguarded'
<1>1. PICK verify \in BOOLEAN :
        /\ task' = [task EXCEPT !.verify = verify, !.at = now]
        /\ Guarded => verify
        /\ verify => task.manual # NoRequest \/ ReadDue(task.day, task.signal)
        /\ ~verify => ~AlreadyAttempted(task.day) /\ ~UnresolvedEarlier(task.day)
  BY DEF Consider, ReadDue
<1>2. /\ task'.day = task.day /\ task'.manual = task.manual /\ task'.wake = task.wake
      /\ task'.verify = verify /\ task'.at = now
  BY <1>1 DEF Typed, Task
<1>3. UNCHANGED <<kind, attempts, now>> /\ pc = "consider" /\ pc' = "refresh"
  BY DEF Consider, Unchanged, journal, world
<1>4. kind = "plain" <=> ~verify
  BY <1>1, <1>3 DEF Unguarded, Guarded, ReadDue
<1>5. ASSUME ~verify, NEW i \in DOMAIN attempts[task.day]
      PROVE  \/ Spare(attempts[task.day][i])
             \/ i \in WaitsDue(task.day, now) /\ i = Len(attempts[task.day])
  <2>1. /\ task.day \in Days /\ DOMAIN attempts[task.day] = 1..Len(attempts[task.day])
        /\ Len(attempts[task.day]) \in Nat
        /\ \A j \in DOMAIN attempts[task.day] : attempts[task.day][j] \in Attempt
    BY AttemptSets, ElementOfSeq DEF Typed, Task, Journals
  <2>2. CASE WaitsDue(task.day, now) = {}
    <3> DEFINE a == attempts[task.day][i]
    <3>1. IF a.state = "deferred" THEN ~(a.next > now) ELSE Retryable(a)
      BY <1>1, <1>5, <2>2 DEF AlreadyAttempted
    <3>2. ~WaitDue(a, now) /\ a.next \in Nat /\ now \in Nat
      BY <2>1, <2>2 DEF WaitsDue, Attempt, Later, Typed, Time
    <3> QED
      BY <3>1, <3>2 DEF Spare, WaitDue, Retryable
  <2>3. CASE WaitsDue(task.day, now) # {}
    <3>1. PICK w \in WaitsDue(task.day, now) : TRUE
      BY <2>3
    <3>2. w \in DOMAIN attempts[task.day] /\ ~Spare(attempts[task.day][w])
      BY <3>1 DEF WaitsDue, WaitDue, Spare
    <3>3. \A j \in DOMAIN attempts[task.day] : j < Len(attempts[task.day]) => Spare(attempts[task.day][j])
      BY <1>4, <1>5, <2>1 DEF Unguarded
    <3>4. w = Len(attempts[task.day])
      BY <2>1, <3>2, <3>3
    <3>5. i < Len(attempts[task.day]) \/ i = Len(attempts[task.day])
      BY <2>1
    <3> QED
      BY <3>1, <3>3, <3>4, <3>5
  <2> QED
    BY <2>2, <2>3
<1>6. UnresolvedEarlier(task.day)' = UnresolvedEarlier(task.day)
  BY <1>2, <1>3 DEF UnresolvedEarlier
<1>7. WaitsDue(task.day, task.at)' = WaitsDue(task.day, now)
  BY <1>2, <1>3 DEF WaitsDue
<1> QED
  BY <1>1, <1>2, <1>3, <1>4, <1>5, <1>6, <1>7 DEF Unguarded

LEMMA UnguardedWake ==
  ASSUME Typed, Unguarded, MarkWake
  PROVE  Unguarded'
<1>0. /\ task.day \in Days /\ attempts \in [Days -> Seq(Attempt)]
      /\ \A d \in Days : \A i \in DOMAIN attempts[d] : attempts[d][i] \in Attempt
  BY AttemptSets, ElementOfSeq DEF Typed, Task, Journals
<1>1. /\ \A d \in Days : /\ Len(attempts'[d]) = Len(attempts[d]) /\ DOMAIN attempts'[d] = DOMAIN attempts[d]
                         /\ \A i \in DOMAIN attempts[d] : Touched(attempts[d][i], attempts'[d][i])
  BY Retouched
<1>2. \A d \in Days : \A i \in DOMAIN attempts[d] : Spare(attempts[d][i]) => Spare(attempts'[d][i])
  BY <1>0, <1>1, SpareStays DEF Touched
<1>3. /\ UNCHANGED <<kind, pc>> /\ pc \in {"permit", "refresh"} /\ task' = [task EXCEPT !.wake = TRUE]
      /\ pc = "refresh" => ~task.verify
  BY DEF MarkWake, Unchanged, world, Ready
<1>4. /\ task'.day = task.day /\ task'.manual = task.manual /\ task'.verify = task.verify /\ task'.at = task.at
  BY <1>3 DEF Typed, Task
<1>5. ASSUME pc = "refresh", NEW i \in DOMAIN attempts[task.day] PROVE Spare(attempts'[task.day][i])
  <2>1. PICK w \in WaitsDue(task.day, task.at) : attempts' = [attempts EXCEPT ![task.day][w].woken = TRUE]
    BY DEF MarkWake
  <2>2. w \in DOMAIN attempts[task.day] /\ attempts[task.day][w].state = "deferred"
        /\ ~Spare(attempts[task.day][w])
    BY DEF WaitsDue, WaitDue, Spare
  <2>3. w = Len(attempts[task.day])
    BY <1>3, <1>5, <2>2 DEF Unguarded
  <2>4. attempts'[task.day][w] = [attempts[task.day][w] EXCEPT !.woken = TRUE]
    BY <1>0, <2>1, <2>2
  <2>5. Spare(attempts'[task.day][w])
    <3>1. attempts[task.day][w] \in Attempt
      BY <1>0, <2>2
    <3>2. attempts'[task.day][w].state = "deferred" /\ attempts'[task.day][w].woken
      BY <2>2, <2>4, <3>1 DEF Attempt
    <3> QED
      BY <3>2 DEF Spare
  <2>6. Spare(attempts[task.day][i]) \/ i = Len(attempts[task.day])
    BY <1>3, <1>5 DEF Unguarded
  <2> QED
    BY <1>0, <1>2, <2>3, <2>5, <2>6
<1>6. UnresolvedEarlier(task.day)' => UnresolvedEarlier(task.day)
  BY <1>1, <1>4 DEF UnresolvedEarlier, Touched, Uncertain
<1> QED
  BY <1>0, <1>1, <1>2, <1>3, <1>4, <1>5, <1>6 DEF Unguarded

LEMMA UnguardedStep ==
  ASSUME Typed, OnRecord, Unguarded, [Next]_vars
  PROVE  Unguarded'
<1> DEFINE Past == kind = "plain" => \A d \in Days : \A i \in DOMAIN attempts[d] :
                     i < Len(attempts[d]) => Spare(attempts[d][i])
<1>1. CASE Looking /\ ~Consider
  <2>1. UNCHANGED attempts
    BY <1>1, LooksOnly
  <2>2. CASE \E m \in Request \cup {NoRequest} : Plan(m)
    <3>1. PICK m \in Request \cup {NoRequest} : Plan(m)
      BY <2>2
    <3> DEFINE signal == IF Guarded /\ supplement[Today].status = "not_signed" THEN supplement[Today].at ELSE 0
    <3>2. /\ task' = [NoTask EXCEPT !.day = Today, !.manual = m, !.signal = signal]
          /\ pc' = "planned" /\ (m # NoRequest => kind # "plain") /\ kind' = kind
      BY <3>1 DEF Plan, Guarded, Unchanged, world
    <3> HIDE DEF signal
    <3>3. task'.manual = m /\ task'.wake = FALSE
      BY <3>2 DEF NoTask
    <3> QED
      BY <2>1, <3>2, <3>3 DEF Unguarded
  <2>3. CASE Promote
    <3>1. kind' # "plain" /\ pc' = "idle"
      BY <2>3 DEF Promote
    <3> QED
      BY <3>1 DEF Unguarded
  <2>4. CASE \/ Claim \/ Skip \/ ReadPage \/ Dispatch \/ Crash \/ BeginRead \/ DeferRead \/ FailRead \/ Publish
    <3>1. /\ kind' = kind /\ pc' # "refresh" /\ pc # "idle"
          /\ pc' # "idle" => task' = task
          /\ pc' \in {"planned", "consider"} => pc = "planned"
          /\ pc' \in {"reading", "read", "permit"} => pc = "reading" \/ (pc = "refresh" /\ task.verify)
      BY <2>4 DEF Claim, Skip, ReadPage, Dispatch, Crash, BeginRead, DeferRead, FailRead, Publish,
         Rest, Unchanged, world
    <3> QED
      BY <2>1, <3>1 DEF Unguarded
  <2>5. CASE Send \/ OrphanEnds \/ SiteSigns \/ LoginRecovered \/ Tick \/ UNCHANGED vars
    <3>1. UNCHANGED <<kind, pc, task>>
      BY <2>5 DEF Send, OrphanEnds, SiteSigns, LoginRecovered, Tick, vars, world
    <3> QED
      BY <2>1, <3>1 DEF Unguarded, UnresolvedEarlier, WaitsDue
  <2> QED
    BY <1>1, <2>2, <2>3, <2>4, <2>5 DEF Looking
<1>2. CASE Consider
  BY <1>2, UnguardedConsider
<1>3. CASE MarkWake
  BY <1>3, UnguardedWake
<1>4. CASE Judge \/ OutsideRead \/ Reconcile
  <2>1. \A d \in Days : /\ Len(attempts'[d]) = Len(attempts[d]) /\ DOMAIN attempts'[d] = DOMAIN attempts[d]
                        /\ \A i \in DOMAIN attempts[d] : Touched(attempts[d][i], attempts'[d][i])
    BY <1>4, Retouched
  <2>2. \A d \in Days : \A i \in DOMAIN attempts[d] : attempts[d][i] \in Attempt
    BY AttemptSets, ElementOfSeq DEF Typed, Journals
  <2>3. \A d \in Days : \A i \in DOMAIN attempts[d] : Spare(attempts[d][i]) => Spare(attempts'[d][i])
    BY <2>1, <2>2, SpareStays DEF Touched
  <2>4. Past'
    BY <1>4, <2>1, <2>3 DEF Unguarded, Judge, OutsideRead, Reconcile, world
  <2>5. /\ pc' \in {"idle", "planned", "permit"} /\ (pc' = "planned" => pc = "planned" /\ task' = task)
        /\ pc' = "permit" => pc = "read" /\ task' = [task EXCEPT !.proof = seen.at]
        /\ kind' = kind
    BY <1>4 DEF Judge, OutsideRead, Reconcile, Rest, world
  <2>6. pc' = "permit" => task'.manual = task.manual
    BY <2>5 DEF Typed, Task
  <2> QED
    BY <2>4, <2>5, <2>6 DEF Unguarded
<1>5. CASE Persist
  <2>1. UNCHANGED <<kind, task>> /\ pc' = "intent" /\ (task.wake \/ WaitsDue(task.day, task.at) = {})
        /\ (pc = "permit" \/ (pc = "refresh" /\ ~task.verify))
    BY <1>5 DEF Persist, Ready, Unchanged, world
  <2>2. kind = "plain" => \A i \in DOMAIN attempts[task.day] : Spare(attempts[task.day][i])
    BY <2>1 DEF Unguarded
  <2>3. Past'
    <3> SUFFICES ASSUME kind = "plain", NEW d \in Days, NEW i \in DOMAIN attempts'[d], i < Len(attempts'[d])
                 PROVE Spare(attempts'[d][i])
      BY <2>1
    <3>1. CASE d = task.day
      <4>1. i \in DOMAIN attempts[d]
        BY <1>5, <3>1, Persisting
      <4> QED
        BY <1>5, <2>2, <3>1, <4>1, Persisting
    <3>2. CASE d # task.day
      BY <1>5, <3>2, Persisting DEF Unguarded
    <3> QED
      BY <3>1, <3>2
  <2> QED
    BY <2>1, <2>3 DEF Unguarded
<1>6. CASE Refused \/ Throw \/ Cancel \/ Receive \/ Invalid \/ CrossDay \/ Close
  <2>1. PICK a \in Attempt : Busy /\ Amend(a)
    BY <1>6, Amended
  <2>2. /\ kind' = kind /\ pc # "idle"
        /\ \/ pc' = "idle"
           \/ pc' \in {"intent", "dispatched", "received"} /\ task'.manual = task.manual
    BY <1>6 DEF Refused, Throw, Cancel, Receive, Invalid, CrossDay, Close, Rest, Unchanged, world, Typed, Task
  <2>3. Past'
    BY <2>1, <2>2, Amending DEF Unguarded
  <2> QED
    BY <2>2, <2>3 DEF Unguarded
<1> QED
  BY <1>1, <1>2, <1>3, <1>4, <1>5, <1>6, LooksOnly

LEMMA DaysAreNumbers == Days \subseteq Nat
<1>1. \A t \in Time : t \in Nat /\ DayLen \in Nat \ {0}
  BY HarvestFallbackAssumption DEF Time
<1>2. \A t \in Nat, n \in Nat \ {0} : t \div n \in Nat
  OBVIOUS
<1> QED
  BY <1>1, <1>2 DEF Days, Day

\* A step that begins an attempt knows of no doubtful one, or has seen the
\* account unsigned since.
LEMMA NoBlindStep ==
  ASSUME Typed, OnRecord, Sighted, Answered, Unguarded, [Next]_vars,
         NEW d \in Days, Len(attempts'[d]) > Len(attempts[d]),
         NEW e \in Days, e <= d, NEW i \in DOMAIN attempts[e], Doubtful(e, i)
  PROVE  sure /\ attempts'[d][Len(attempts'[d])].proof # 0
<1>0. \A x \in Days : Len(attempts[x]) \in Nat
  BY AttemptSets
<1>1. Persist
  <2>1. Looking => attempts' = attempts
    BY LooksOnly
  <2>2. MarkWake \/ Judge \/ OutsideRead \/ Reconcile => Len(attempts'[d]) = Len(attempts[d])
    BY Retouched
  <2>3. Refused \/ Throw \/ Cancel \/ Receive \/ Invalid \/ CrossDay \/ Close => Len(attempts'[d]) = Len(attempts[d])
    BY Amended, Amending
  <2> QED
    BY <1>0, <2>1, <2>2, <2>3, LooksOnly
<1>2. d = task.day
  BY <1>0, <1>1, Persisting
<1>3. attempts'[d][Len(attempts'[d])] = NewAttempt /\ NewAttempt.proof = task.proof
  BY <1>1, <1>2, Persisting DEF NewAttempt
<1>4. CASE pc = "permit"
  BY <1>3, <1>4 DEF Sighted
<1>5. CASE pc = "refresh" /\ ~task.verify
  <2> DEFINE a == attempts[e][i]
  <2>1. /\ ~UnresolvedEarlier(d)
        /\ \A j \in DOMAIN attempts[d] : Spare(attempts[d][j]) \/ j \in WaitsDue(d, task.at)
    BY <1>2, <1>5 DEF Unguarded
  <2>2. a \in Attempt /\ a.state # "deferred" /\ a.out \notin Unsent /\ a.out # "signed" /\ ~a.closed
    <3>1. <<e, i>> \in sent
      BY DEF Doubtful
    <3>2. LET b == attempts[<<e, i>>[1]][<<e, i>>[2]] IN b.state # "deferred" /\ b.out \notin Unsent
      BY <3>1 DEF OnRecord, SentIsOnRecord
    <3>3. a \in Attempt
      BY ElementOfSeq, AttemptSets DEF Typed, Journals
    <3> QED
      BY <3>2, <3>3 DEF Doubtful
  <2>3. a.state = "completed" => a.out # "none"
    BY DEF Answered
  <2>4. Uncertain(a)
    BY <2>2, <2>3 DEF Uncertain, Attempt, Outcome, Unsent
  <2>5. ~Spare(a) /\ ~(e = d /\ i \in WaitsDue(d, task.at))
    BY <2>2 DEF Spare, Unsent, WaitsDue, WaitDue
  <2>6. e < d \/ e = d
    BY DaysAreNumbers
  <2> QED
    BY <2>1, <2>2, <2>4, <2>5, <2>6 DEF UnresolvedEarlier
<1> QED
  BY <1>1, <1>4, <1>5 DEF Persist, Ready

\* With a doubtful attempt of the day or an earlier one in the journal, the
\* worker begins another only upon an unsigned reading of the account that is
\* newer than every request any executor sent.
THEOREM NeverReplaysBlindly == Spec => NoBlindReplay
<1> DEFINE Inv == Typed /\ OnRecord /\ Sighted /\ Answered /\ Unguarded
<1>1. Init => Inv
  <2>1. Init => Sighted /\ Answered /\ Unguarded
    BY EmptySeq DEF Init, Sighted, Answered, Unguarded
  <2> QED
    BY <2>1, TypeInit, RecordInit
<1>2. Inv /\ [Next]_vars => Inv'
  BY TypeStep, RecordStep, SightedStep, AnsweredStep, UnguardedStep
<1>3. Inv /\ [Next]_vars =>
        [\A d \in Days :
           (/\ Len(attempts'[d]) > Len(attempts[d])
            /\ \E e \in Days : e <= d /\ \E i \in DOMAIN attempts[e] : Doubtful(e, i))
           => sure /\ attempts'[d][Len(attempts'[d])].proof # 0]_vars
  BY NoBlindStep
<1> QED
  BY <1>1, <1>2, <1>3, PTL DEF Spec, NoBlindReplay

-----------------------------------------------------------------------------
(* Theorems: what a reading is worth *)

\* The verdict that is true of a day the site has recorded or not.
TrueOf(s) == IF s THEN "signed" ELSE "not_signed"
Truthful(v, s) == v \in Definite => v = TrueOf(s)

\* A page of the account's own session, if it is of today, or of nobody's.
OwnPage(p, s) ==
  /\ p.session \in {"own", "nobody"}
  /\ p.session = "nobody" => ~p.panel /\ p.ids = {} /\ "signed" \notin p.marks
  /\ p.session = "own" /\ p.today => p.marks \subseteq {Mark(s)}

LEMMA MarksTell ==
  ASSUME NEW s \in BOOLEAN, NEW marks, marks \subseteq {Mark(s)}
  PROVE  Truthful(Judged(marks), s) /\ ("signed" \in marks => TrueOf(s) = "signed")
<1>1. CASE s
  BY <1>1 DEF Truthful, TrueOf, Mark, Judged, Definite
<1>2. CASE ~s
  BY <1>2 DEF Truthful, TrueOf, Mark, Judged, Definite
<1> QED
  BY <1>1, <1>2

LEMMA OwnPages ==
  ASSUME NEW s \in BOOLEAN, NEW who, NEW p \in Pages(s, who)
  PROVE  /\ p \in SitePage /\ p.session \in who \cup {"nobody"}
         /\ who \subseteq {"own"} => OwnPage(p, s)
         /\ p.ids = {"own"} => OwnPage(p, s) /\ p.session = "own"
         /\ p.session # "other" => OwnPage(p, s)
<1>1. /\ p.session \in who \cup {"nobody"} /\ p \in SitePage
      /\ p.session = "nobody" => ~p.panel /\ p.ids = {} /\ "signed" \notin p.marks
      /\ p.session # "nobody" /\ p.ids # {} => p.session \in p.ids
      /\ p.session = "own" /\ p.today => p.marks \subseteq {Mark(s)}
  BY DEF Pages
<1>2. p.session \in {"own", "other", "nobody"}
  BY <1>1 DEF SitePage, Accounts
<1>3. p.session \in {"own", "nobody"} => OwnPage(p, s)
  BY <1>1 DEF OwnPage
<1>4. p.ids = {"own"} => p.session = "own"
  BY <1>1
<1> QED
  BY <1>1, <1>2, <1>3, <1>4

\* The bindings leave a profile to the account alone.
LEMMA BoundSessions == ExecutionSessions \subseteq {"own"} /\ NativeSessions \subseteq {"own"}
<1>1. \A b \in Binding : ExecutionBound(b) => ~(b.accounts + b.pins > 1 /\ ~b.agree)
  BY DEF Binding, ExecutionBound
<1>2. \A b \in Binding : NativeBound(b) => b.default /\ b.profiles = 1
  BY DEF NativeBound, ReadRoute
<1> QED
  BY <1>1, <1>2 DEF ExecutionSessions, NativeSessions

\* What is made of a page of the account's own.
LEMMA VerdictTells ==
  ASSUME NEW s \in BOOLEAN, NEW p, OwnPage(p, s), NEW reader
  PROVE  Truthful(Supplement(PassiveVerdict(Document(p), reader), p), s)
<1>1. CASE ~p.today
  BY <1>1 DEF Supplement, Truthful, Definite
<1>2. CASE p.today /\ p.code = "ok"
  <2>1. p.panel \/ "signed" \in p.marks => p.marks \subseteq {Mark(s)}
    BY <1>2 DEF OwnPage
  <2>2. Truthful(HeaderVerdict(p), s)
    BY <2>1, MarksTell DEF HeaderVerdict, Truthful, Definite
  <2>3. \A clock \in BOOLEAN : Truthful(TextVerdict(p, clock), s)
    BY <2>1, <2>2, MarksTell DEF TextVerdict, Truthful, Definite
  <2>4. Truthful(PassiveVerdict(p, reader), s)
    BY <2>2, <2>3 DEF PassiveVerdict, Truthful, Definite
  <2>5. Document(p) = p /\ \A v : Supplement(v, p) = v
    BY <1>2 DEF Document, Supplement
  <2> QED
    BY <2>4, <2>5
<1>3. CASE p.today /\ p.code # "ok"
  <2>1. PassiveVerdict(NoAnswer, reader) = "unknown"
    BY DEF PassiveVerdict, NoAnswer
  <2>2. PassiveVerdict([NoAnswer EXCEPT !.code = "ok", !.notice = "login"], reader) = "login_required"
    BY DEF PassiveVerdict, NoAnswer, Classified
  <2> QED
    BY <1>3, <2>1, <2>2 DEF Document, Supplement, Truthful, Definite
<1> QED
  BY <1>1, <1>2, <1>3

LEMMA PassiveTells ==
  ASSUME NEW s \in BOOLEAN, NEW reader
  PROVE  \A v \in PassiveReadings(s, reader) \cup RecoveredReadings(s) : Truthful(v, s)
<1>1. ASSUME NEW v \in PassiveReadings(s, reader) PROVE Truthful(v, s)
  <2>1. PICK p \in Pages(s, ExecutionSessions) : v \in Availability(Supplement(PassiveVerdict(Document(p), reader), p))
    BY <1>1 DEF PassiveReadings
  <2> DEFINE w == Supplement(PassiveVerdict(Document(p), reader), p)
  <2>2. Truthful(w, s)
    BY OwnPages, BoundSessions, VerdictTells
  <2>3. v \in Availability(w)
    BY <2>1
  <2> HIDE DEF w
  <2>4. v = w \/ v \notin Definite
    BY <2>3 DEF Availability, Definite
  <2> QED
    BY <2>2, <2>4 DEF Truthful
<1>2. ASSUME NEW v \in RecoveredReadings(s) PROVE Truthful(v, s)
  <2>1. PICK p \in Pages(s, Accounts) : v = RecoveredVerdict(p)
    BY <1>2 DEF RecoveredReadings
  <2>2. CASE p.ids = {"own"}
    <3>1. Truthful(Supplement(PassiveVerdict(Document(p), "daily"), p), s)
      BY <2>2, OwnPages, VerdictTells
    <3> QED
      BY <2>1, <2>2, <3>1 DEF RecoveredVerdict
  <2>3. CASE p.ids # {"own"}
    BY <2>1, <2>3 DEF RecoveredVerdict, Truthful, Definite
  <2> QED
    BY <2>2, <2>3
<1> QED
  BY <1>1, <1>2

\* What is fetched is a page of today or the answer of nobody.
LEMMA FetchedPages ==
  ASSUME NEW s \in BOOLEAN, NEW who, NEW q \in Answers(s, who)
  PROVE  /\ who \subseteq {"own"} => OwnPage(q, s)
         /\ q.code = "ok" => q \in Pages(s, who) /\ q.today
<1>1. PICK p \in Pages(s, who) : q = Fetch(p)
  BY DEF Answers
<1>2. \/ p.code = "ok" /\ p.today /\ q = p
      \/ q = [NoAnswer EXCEPT !.code = "to_login", !.today = p.today]
      \/ q = NoAnswer
  BY <1>1 DEF Fetch
<1>3. CASE p.code = "ok" /\ p.today /\ q = p
  BY <1>1, <1>3, OwnPages
<1>4. CASE q = [NoAnswer EXCEPT !.code = "to_login", !.today = p.today] \/ q = NoAnswer
  <2>1. \A t : LET n == [NoAnswer EXCEPT !.code = "to_login", !.today = t] IN
                n.session = "nobody" /\ n.code # "ok" /\ ~n.panel /\ n.ids = {} /\ n.marks = {}
    BY Zenon DEF NoAnswer
  <2>2. LET n == NoAnswer IN
        n.session = "nobody" /\ n.code # "ok" /\ ~n.panel /\ n.ids = {} /\ n.marks = {}
    BY DEF NoAnswer
  <2>3. q.session = "nobody" /\ q.code # "ok" /\ ~q.panel /\ q.ids = {} /\ q.marks = {}
    BY <1>4, <2>1, <2>2
  <2> QED
    BY <2>3 DEF OwnPage
<1> QED
  BY <1>2, <1>3, <1>4

\* What the pages of one session add up to.
PairsOf(s, reader, a) == {PairVerdict(reader, i, q) : i, q \in Answers(s, {a})}
LEMMA Paired ==
  ASSUME NEW s, NEW reader
  PROVE  PairReadings(s, reader) =
           UNION {PairsOf(s, reader, a) : a \in IF reader \in {"hddolby", "calendar"} THEN Accounts ELSE NativeSessions}
BY DEF PairReadings, PairsOf

LEMMA PairTells ==
  ASSUME NEW s \in BOOLEAN, NEW reader \in {"api", "profile", "hddolby", "calendar"}
  PROVE  \A v \in PairReadings(s, reader) : Truthful(v, s)
<1> SUFFICES ASSUME NEW v \in PairReadings(s, reader) PROVE Truthful(v, s)
  OBVIOUS
<1> DEFINE A == IF reader \in {"hddolby", "calendar"} THEN Accounts ELSE NativeSessions
<1>1. PICK a \in A : v \in PairsOf(s, reader, a)
  BY Paired
<1>2. PICK i \in Answers(s, {a}), q \in Answers(s, {a}) : v = PairVerdict(reader, i, q)
  BY <1>1 DEF PairsOf
<1>3. \A p \in Answers(s, {a}) : p.code = "ok" /\ p.ids = {"own"} => a = "own"
  <2> SUFFICES ASSUME NEW p \in Answers(s, {a}), p.code = "ok", p.ids = {"own"} PROVE a = "own"
    OBVIOUS
  <2>1. p \in Pages(s, {a})
    BY FetchedPages
  <2> QED
    BY <2>1, OwnPages
<1>4. a = "own" => \A p \in Answers(s, {a}) : OwnPage(p, s)
  BY FetchedPages
<1>5. \A p \in Answers(s, {a}) : p.code = "ok" => p.today
  BY FetchedPages
<1>6. a = "own" => /\ \A p \in {i, q} : p.code = "ok" /\ p.session = "own" => p.marks \subseteq {Mark(s)}
                   /\ \A p \in {i, q} : p.session # "own" => ~p.panel /\ "signed" \notin p.marks /\ p.session = "nobody"
  BY <1>2, <1>4, <1>5 DEF OwnPage
<1>7. CASE reader = "api"
  <2>1. a = "own"
    BY <1>7, <1>1, BoundSessions
  <2>2. v = ApiVerdict(i, q)
    BY <1>2, <1>7 DEF PairVerdict
  <2>3. Authenticated(i) => i.marks \subseteq {Mark(s)}
    BY <1>6, <2>1 DEF Authenticated, OneAccount
  <2> QED
    BY <2>2, <2>3, MarksTell DEF ApiVerdict, Truthful, Definite
<1>8. CASE reader = "profile"
  <2>1. a = "own"
    BY <1>8, <1>1, BoundSessions
  <2>2. v = ProfileVerdict(i, q)
    BY <1>2, <1>8 DEF PairVerdict
  <2>3. OneAccount(q) => q.marks \subseteq {Mark(s)}
    BY <1>6, <2>1 DEF OneAccount
  <2> QED
    BY <2>2, <2>3, MarksTell DEF ProfileVerdict, Truthful, Definite
<1>9. CASE reader = "hddolby"
  <2>1. v = HddolbyVerdict(i, q)
    BY <1>2, <1>9 DEF PairVerdict
  <2>2. v \in Definite => OneAccount(i) /\ OneAccount(q) /\ q.ids = {"own"} /\ v = HddolbyJudged(i, q)
    BY <2>1 DEF HddolbyVerdict, Definite
  <2>3. v \in Definite => q.marks \subseteq {Mark(s)}
    BY <2>2, <1>3, <1>6 DEF OneAccount
  <2>4. v \in Definite => v = Judged(q.marks)
    BY <2>2 DEF HddolbyJudged, Definite, Judged
  <2> QED
    BY <2>3, <2>4, MarksTell DEF Truthful
<1>10. CASE reader = "calendar"
  <2>1. v = CalendarVerdict(i, q)
    BY <1>2, <1>10 DEF PairVerdict
  <2>2. v \in Definite => i.code = "ok" /\ q.code = "ok" /\ i.ids = {"own"} /\ v = Attendance(q)
    BY <2>1 DEF CalendarVerdict, Definite
  <2>3. v \in Definite => q.session = "own" /\ v = Judged(q.marks)
    BY <2>2, <1>3, <1>6 DEF Attendance, Definite
  <2>4. v \in Definite => q.marks \subseteq {Mark(s)}
    BY <2>2, <2>3, <1>3, <1>6
  <2> QED
    BY <2>3, <2>4, MarksTell DEF Truthful
<1> QED
  BY <1>7, <1>8, <1>9, <1>10

LEMMA NativeTells ==
  ASSUME NEW s \in BOOLEAN
  PROVE  \A v \in NativeReadings(s) : Truthful(v, s)
<1> SUFFICES ASSUME NEW v \in NativeReadings(s), v \in Definite PROVE v = TrueOf(s)
  BY DEF Truthful
<1> DEFINE R(p) == {NativeVerdict([claim |-> c, clicked |-> k, bound |-> b, page |-> p]) :
                      c \in Claims(p), k \in {"no", "yes", "silent"},
                      b \in {b \in BOOLEAN : b => p.session # "other"}}
<1>0. v = "unknown" \/ v \in UNION {R(p) : p \in Pages(s, Accounts)}
  BY DEF NativeReadings
<1> HIDE DEF R
<1>1. PICK p \in Pages(s, Accounts) : v \in R(p)
  BY <1>0 DEF Definite
<1>2. PICK c \in Claims(p), k \in {"no", "yes", "silent"}, b \in {b \in BOOLEAN : b => p.session # "other"} :
          v = NativeVerdict([claim |-> c, clicked |-> k, bound |-> b, page |-> p])
  BY <1>1 DEF R
<1> DEFINE r == [claim |-> c, clicked |-> k, bound |-> b, page |-> p]
<1>3. r.claim = c /\ r.bound = b /\ r.page = p /\ v = NativeVerdict(r)
  BY <1>2
<1> HIDE DEF r
<1>4. r.claim \in Definite /\ r.bound /\ ReceiptEvidence(r) /\ v = r.claim
  BY <1>3 DEF NativeVerdict, Definite
<1>5. p.today /\ p.session # "other"
  BY <1>2, <1>3, <1>4 DEF ReceiptEvidence
<1>6. p.panel /\ c = Judged(p.marks)
  BY <1>2, <1>3, <1>4 DEF Claims, Definite
<1>7. OwnPage(p, s)
  BY <1>5, OwnPages
<1>8. p.marks \subseteq {Mark(s)}
  BY <1>5, <1>6, <1>7 DEF OwnPage
<1> QED
  BY <1>3, <1>4, <1>6, <1>8, MarksTell DEF Truthful

\* No admitted reader of a PT account, passive, after a login, by a pair of
\* pages or through the native helper, calls a day the site has recorded
\* unsigned or one it has not recorded signed: whichever page the site sends
\* and whoever is logged in where the reader asks who it is.
THEOREM ReadersTellTheTruth ==
  \A s \in BOOLEAN : Readings[s] \cap Definite \subseteq {TrueOf(s)}
<1> SUFFICES ASSUME NEW s \in BOOLEAN, NEW v \in Readings[s], v \in Definite PROVE v = TrueOf(s)
  OBVIOUS
<1>1. PICK p \in Policy : v \in ReaderVerdicts(s, p.reader)
  BY DEF Readings
<1>2. p.reader \in {"daily", "text", "clock", "profile", "hddolby", "api", "calendar", "native"}
  BY DEF Policy
<1>3. Truthful(v, s)
  BY <1>1, <1>2, PassiveTells, PairTells, NativeTells DEF ReaderVerdicts
<1> QED
  BY <1>3 DEF Truthful

-----------------------------------------------------------------------------
(* Theorems: confirmations and midnights *)

\* What says "signed" of a day, a receipt, a reading or an answer, is so.
Witnessed ==
  /\ \A d \in Days : supplement[d].status = "signed" => d \in signedDays
  /\ seen.status = "signed" => Day(seen.at) \in signedDays
  /\ \A d \in Days : \A i \in DOMAIN attempts[d] :
       attempts[d][i].out = "signed" => Day(attempts[d][i].finish) \in signedDays

\* The times of an attempt: none begins before its day, or ends before it
\* began; a completed one ended on its day.
DatedAttempt(a, d) ==
  /\ d <= Day(a.start)
  /\ a.out # "none" => a.finish # 0 /\ a.start <= a.finish
  /\ a.state = "completed" => a.out # "none" /\ Day(a.finish) = d
Dated ==
  /\ pc # "idle" => task.day <= Today
  /\ \A d \in Days : \A i \in DOMAIN attempts[d] :
       DatedAttempt(attempts[d][i], d) /\ attempts[d][i].start <= now
  /\ pc \in {"received", "published"} => Current.out # "none"
  /\ pc = "published" => Day(Current.finish) = task.day

\* A run that has considered the account finds its day unconfirmed until it
\* publishes its own result.
Unconfirmed ==
  pc \in {"refresh", "reading", "read", "permit", "intent", "dispatched", "received"} =>
    supplement[task.day].status # "signed"

\* What a reading comes back with is true of the site.
LEMMA ReadingsAreTrue ==
  ASSUME Typed, NEW page \in Readable
  PROVE  /\ page \in Page /\ page.at = now
         /\ page.status = "signed" => Today \in signedDays
<1> DEFINE s == (Today \in signedDays)
<1>1. PICK v \in Readings[s] : page = [status |-> IF v \in Definite THEN v ELSE "unknown", at |-> now]
  BY DEF Readable
<1>2. s \in BOOLEAN
  OBVIOUS
<1>3. v \in Definite => v = TrueOf(s)
  BY <1>2, ReadersTellTheTruth
<1> HIDE DEF s
<1>4. page.status = "signed" => s
  BY <1>1, <1>3 DEF TrueOf, Definite
<1>5. page \in Page
  BY <1>1 DEF Page, Definite, Typed
<1> QED
  BY <1>1, <1>4, <1>5 DEF s

LEMMA DaysPass ==
  ASSUME NEW t \in Time, NEW u \in Time, t <= u
  PROVE  Day(t) <= Day(u) /\ Day(t) \in Nat
<1>1. DayLen \in Nat \ {0} /\ t \in Nat /\ u \in Nat
  BY HarvestFallbackAssumption DEF Time
<1>2. \A x, y \in Nat, n \in Nat \ {0} : x <= y => x \div n <= y \div n
  OBVIOUS
<1> QED
  BY <1>1, <1>2 DEF Day

\* The attempt in progress, when a step amends it.
LEMMA Finishing ==
  ASSUME Typed, OnRecord, Dated, Witnessed,
         Refused \/ Throw \/ Cancel \/ Receive \/ Invalid \/ CrossDay \/ Close
  PROVE  Busy /\ \E a \in Attempt :
           /\ Amend(a) /\ a.start = Current.start
           /\ DatedAttempt(a, task.day)
           /\ a.out = "signed" => Day(a.finish) \in signedDays
           /\ Receive => a.out # "none"
<1>b. /\ Busy /\ now \in Time /\ now # 0
      /\ Refused => pc = "intent"
      /\ Throw \/ Receive => pc = "dispatched"
      /\ Cancel => pc \in {"intent", "dispatched"}
      /\ Invalid \/ CrossDay => pc = "received"
      /\ Close => pc = "published"
  BY DEF Busy, Typed, Refused, Throw, Cancel, Receive, Invalid, CrossDay, Close
<1>c. /\ Current \in Attempt /\ task.day \in Days
      /\ DatedAttempt(Current, task.day) /\ Current.start <= now
      /\ Current.out = "signed" => Day(Current.finish) \in signedDays
  BY <1>b, CurrentIsTyped DEF Dated, Witnessed
<1>n. pc \in {"intent", "dispatched"} => Current.out = "none" /\ Current.state # "completed"
  <2>1. pc = "dispatched" => exec # NoExec /\ exec.day = task.day /\ exec.index = Len(attempts[task.day])
    BY DEF OnRecord, AtWork, Pair, Pending
  <2>2. pc \in {"intent", "dispatched"} => Current.out = "none"
    BY <1>b, <2>1, CurrentIsTyped DEF OnRecord, Executing, AtWork
  <2> QED
    BY <1>c, <2>2 DEF DatedAttempt
<1> DEFINE c == Current
           Fit(a) == /\ a \in Attempt /\ Amend(a) /\ a.start = c.start /\ DatedAttempt(a, task.day)
                     /\ a.out = "signed" => Day(a.finish) \in signedDays
                     /\ Receive => a.out # "none"
<1>d. /\ c \in Attempt /\ DatedAttempt(c, task.day) /\ c.start <= now
      /\ c.out = "signed" => Day(c.finish) \in signedDays
      /\ pc \in {"intent", "dispatched"} => c.out = "none" /\ c.state # "completed"
      /\ pc \in {"received", "published"} => c.out # "none"
      /\ pc = "published" => Day(c.finish) = task.day
  BY <1>c, <1>n DEF Dated
<1>e. ~Receive \/ \E out \in Replies :
        /\ out = "signed" => Today \in signedDays
        /\ Amend([c EXCEPT !.out = out, !.finish = now,
                   !.state = IF out = "waiting" THEN "deferred" ELSE @,
                   !.next = IF out = "waiting" THEN now + Wait ELSE @])
  BY DEF Receive
<1>f. /\ Refused => Amend(Caught(c, "deferred"))
      /\ Throw \/ Invalid => Amend(Caught(c, "outcome_unknown"))
      /\ Cancel => Amend([c EXCEPT !.state = "outcome_unknown", !.finish = now])
      /\ CrossDay => Amend([c EXCEPT !.state = "completed_cross_day"])
      /\ Close => Amend([c EXCEPT !.state = IF @ = "in_progress" THEN "completed" ELSE @])
  BY DEF Refused, Throw, Invalid, Cancel, CrossDay, Close
<1>g. Refused \/ Throw \/ Cancel \/ Invalid \/ CrossDay \/ Close => ~Receive
  <2>1. Refused \/ Throw \/ Cancel \/ Invalid \/ CrossDay \/ Close => pc' # "received" \/ pc = "received"
    BY DEF Refused, Throw, Cancel, Invalid, CrossDay, Close, Rest
  <2> QED
    BY <2>1 DEF Receive
<1> HIDE DEF c
<1>1. CASE Refused \/ Throw \/ Invalid
  <2>1. PICK state \in {"deferred", "outcome_unknown"} : Amend(Caught(c, state))
    BY <1>f, <1>1
  <2> DEFINE a == Caught(c, state)
  <2>2. /\ a \in Attempt /\ a.start = c.start /\ a.out = c.out /\ a.state # "completed"
        /\ c.finish # 0 => a.finish = c.finish
    BY <1>b, <1>d DEF Caught, Attempt
  <2>3. Amend(a)
    BY <2>1
  <2> HIDE DEF a
  <2>4. a.out # "none" => c.finish # 0
    BY <1>d, <2>2 DEF DatedAttempt
  <2>5. DatedAttempt(a, task.day)
    BY <1>d, <2>2, <2>4 DEF DatedAttempt
  <2>6. Fit(a)
    BY <1>1, <1>d, <1>g, <2>2, <2>3, <2>4, <2>5
  <2> QED
    BY <1>b, <2>6 DEF c
<1>2. CASE Cancel
  <2> DEFINE a == [c EXCEPT !.state = "outcome_unknown", !.finish = now]
  <2>1. a \in Attempt /\ a.start = c.start /\ a.out = c.out /\ a.state # "completed" /\ c.out = "none"
    BY <1>2, <1>b, <1>d DEF Attempt
  <2>2. Amend(a)
    BY <1>2, <1>f
  <2> HIDE DEF a
  <2>3. DatedAttempt(a, task.day)
    BY <1>d, <2>1 DEF DatedAttempt
  <2>4. Fit(a)
    BY <1>2, <1>g, <2>1, <2>2, <2>3
  <2> QED
    BY <1>b, <2>4 DEF c
<1>3. CASE Receive
  <2>1. PICK out \in Replies :
          /\ out = "signed" => Today \in signedDays
          /\ Amend([c EXCEPT !.out = out, !.finish = now,
                   !.state = IF out = "waiting" THEN "deferred" ELSE @,
                   !.next = IF out = "waiting" THEN now + Wait ELSE @])
    BY <1>e, <1>3
  <2> DEFINE a == [c EXCEPT !.out = out, !.finish = now,
                   !.state = IF out = "waiting" THEN "deferred" ELSE @,
                   !.next = IF out = "waiting" THEN now + Wait ELSE @]
  <2>2. out \in Outcome /\ out # "none" /\ now + Wait \in Later
    BY <1>b, Times, HarvestFallbackAssumption
  <2>3. /\ a \in Attempt /\ a.start = c.start /\ a.out = out /\ a.finish = now
        /\ a.state \in {"deferred", c.state}
    BY <1>b, <1>d, <2>2 DEF Attempt
  <2>4. Amend(a)
    BY <2>1
  <2> HIDE DEF a
  <2>5. a.state # "completed"
    BY <1>3, <1>b, <1>d, <2>3
  <2>6. DatedAttempt(a, task.day)
    BY <1>b, <1>d, <2>3, <2>5 DEF DatedAttempt
  <2>7. a.out = "signed" => Day(a.finish) \in signedDays
    BY <2>1, <2>3 DEF Today
  <2>8. Fit(a)
    BY <2>2, <2>3, <2>4, <2>6, <2>7
  <2> QED
    BY <1>b, <2>8 DEF c
<1>4. CASE CrossDay \/ Close
  <2>1. PICK state \in {"completed_cross_day", "completed", c.state} :
          /\ Amend([c EXCEPT !.state = state])
          /\ state = "completed" => pc = "published" \/ c.state = "completed"
    BY <1>4, <1>b, <1>f
  <2> DEFINE a == [c EXCEPT !.state = state]
  <2>2. /\ a \in Attempt /\ a.start = c.start /\ a.out = c.out /\ a.finish = c.finish
        /\ a.state = state
    BY <1>d, <2>1 DEF Attempt
  <2>3. Amend(a)
    BY <2>1
  <2> HIDE DEF a
  <2>4. DatedAttempt(a, task.day)
    BY <1>d, <2>1, <2>2 DEF DatedAttempt
  <2>5. Fit(a)
    BY <1>4, <1>d, <1>g, <2>2, <2>3, <2>4
  <2> QED
    BY <1>b, <2>5 DEF c
<1> QED
  BY <1>1, <1>2, <1>3, <1>4

\* The world goes on, and a run keeps its day.
LEMMA Passing ==
  ASSUME Typed, [Next]_vars
  PROVE  /\ signedDays \subseteq signedDays' /\ now' \in Time /\ now <= now'
         /\ pc' # "idle" => task'.day = Today \/ (pc # "idle" /\ task'.day = task.day)
         /\ pc' # "idle" /\ pc # "idle" => task'.day = task.day
<1>0. now \in Time /\ \A t \in Time : t <= t
  BY HarvestFallbackAssumption DEF Typed, Time
<1>1. ASSUME NEW m \in Request \cup {NoRequest}, Plan(m)
      PROVE  pc = "idle" /\ task'.day = Today /\ UNCHANGED <<signedDays, now>>
  <2>1. PICK signal : task' = [NoTask EXCEPT !.day = Today, !.manual = m, !.signal = signal]
    BY <1>1 DEF Plan
  <2> QED
    BY <1>1, <2>1 DEF Plan, NoTask, Unchanged, world
<1>2. CASE Consider
  <2>1. PICK verify : task' = [task EXCEPT !.verify = verify, !.at = now]
    BY <1>2 DEF Consider
  <2>2. task'.day = task.day /\ pc # "idle"
    BY <1>2, <2>1 DEF Typed, Task, Consider
  <2> QED
    BY <1>0, <1>2, <2>2 DEF Consider, Unchanged, world
<1>3. CASE Judge
  <2>1. pc' = "idle" \/ task' = [task EXCEPT !.proof = seen.at]
    BY <1>3 DEF Judge, Rest
  <2>2. pc' = "idle" \/ task'.day = task.day
    BY <2>1 DEF Typed, Task
  <2> QED
    BY <1>0, <1>3, <2>2 DEF Judge, world
<1>4. CASE MarkWake
  <2>1. task' = [task EXCEPT !.wake = TRUE] /\ pc # "idle"
    BY <1>4 DEF MarkWake, Ready
  <2>2. task'.day = task.day
    BY <2>1 DEF Typed, Task
  <2> QED
    BY <1>0, <1>4, <2>1, <2>2 DEF MarkWake, Unchanged, world
<1>5. CASE Cancel
  <2>1. task' = [task EXCEPT !.aborted = TRUE] /\ pc # "idle"
    BY <1>5 DEF Cancel
  <2>2. task'.day = task.day
    BY <2>1 DEF Typed, Task
  <2> QED
    BY <1>0, <1>5, <2>1, <2>2 DEF Cancel, Unchanged, world
<1>6. CASE \/ Claim \/ Skip \/ Crash \/ BeginRead \/ DeferRead \/ ReadPage \/ FailRead \/ Persist \/ Dispatch
           \/ Refused \/ Throw \/ Receive \/ Invalid \/ CrossDay \/ Publish \/ Close
  <2>1. UNCHANGED <<signedDays, now>>
    BY <1>6 DEF Claim, Skip, Crash, BeginRead, DeferRead, ReadPage, FailRead, Persist, Dispatch,
       Refused, Throw, Receive, Invalid, CrossDay, Publish, Close, Unchanged, world
  <2>2. pc' = "idle" \/ (task' = task /\ pc # "idle")
    BY <1>6 DEF Claim, Skip, Crash, BeginRead, DeferRead, ReadPage, FailRead, Persist, Ready, Dispatch,
       Refused, Throw, Receive, Invalid, CrossDay, Publish, Close, Rest
  <2> QED
    BY <1>0, <2>1, <2>2
<1>7. CASE \/ Send \/ OrphanEnds \/ SiteSigns \/ LoginRecovered \/ Promote \/ OutsideRead \/ Reconcile \/ UNCHANGED vars
  BY <1>0, <1>7 DEF Send, OrphanEnds, SiteSigns, LoginRecovered, Promote, OutsideRead, Reconcile, vars, world, count
<1>8. CASE Tick
  <2>1. now' \in Time /\ now <= now'
    BY <1>8, HarvestFallbackAssumption DEF Typed, Time, Tick
  <2> QED
    BY <1>8, <2>1 DEF Tick, world
<1> QED
  BY <1>0, <1>1, <1>2, <1>3, <1>4, <1>5, <1>6, <1>7, <1>8 DEF Next, Run, Around

\* A reading that tells the truth leaves true receipts.
LEMMA RecordsTruth ==
  ASSUME Typed, Witnessed, NEW page \in Page, page.status = "signed" => Day(page.at) \in signedDays
  PROVE  /\ \A d \in Days : Recorded(page)[d].status = "signed" => d \in signedDays
         /\ \A d \in Days : supplement[d].status = "signed" => Recorded(page)[d].status = "signed"
         /\ page.status # "signed" => \A d \in Days : supplement[d].status # "signed" => Recorded(page)[d].status # "signed"
<1> DEFINE status == IF page.status = "unknown" THEN "open" ELSE page.status
           e == Receipt(status, page.at)
<1>1. supplement \in [Days -> Entry] /\ Day(page.at) \in Days
  BY Times DEF Typed, Journals, Page
<1>2. e.status = status /\ (status = "signed" <=> page.status = "signed")
  BY DEF Receipt, Page
<1>3. \/ Recorded(page) = supplement
      \/ /\ supplement[Day(page.at)].status # "signed" \/ page.status = "signed"
         /\ Recorded(page) = [supplement EXCEPT ![Day(page.at)] = e]
  BY DEF Recorded
<1> HIDE DEF e, status
<1>4. CASE Recorded(page) = supplement
  BY <1>4 DEF Witnessed
<1>5. CASE /\ supplement[Day(page.at)].status # "signed" \/ page.status = "signed"
           /\ Recorded(page) = [supplement EXCEPT ![Day(page.at)] = e]
  <2>1. \A d \in Days : Recorded(page)[d] = IF d = Day(page.at) THEN e ELSE supplement[d]
    BY <1>1, <1>5
  <2> QED
    BY <1>2, <1>5, <2>1 DEF Witnessed
<1> QED
  BY <1>3, <1>4, <1>5

\* The attempts after any step: touched, begun by it, or fit.
LEMMA AttemptsAfter ==
  ASSUME Typed, OnRecord, Dated, Witnessed, [Next]_vars,
         NEW d \in Days, NEW i \in DOMAIN attempts'[d]
  PROVE  LET b == attempts'[d][i] IN
         /\ b \in Attempt
         /\ \/ i \in DOMAIN attempts[d] /\ Touched(attempts[d][i], b)
            \/ Persist /\ b = NewAttempt /\ d = task.day
            \/ /\ DatedAttempt(b, d) /\ b.start <= now
               /\ b.out = "signed" => Day(b.finish) \in signedDays
<1>0. \A e \in Days : \A j \in DOMAIN attempts[e] : attempts[e][j] \in Attempt
  BY ElementOfSeq, LenProperties DEF Typed, Journals
<1>1. CASE Looking
  <2>1. attempts' = attempts
    BY <1>1, LooksOnly
  <2> QED
    BY <1>0, <2>1, TouchedItself
<1>2. CASE MarkWake \/ Judge \/ OutsideRead \/ Reconcile
  BY <1>2, Retouched DEF Touched
<1>3. CASE Persist
  <2>1. i \in DOMAIN attempts[d] \/ (d = task.day /\ i = Len(attempts'[task.day]))
    BY <1>3, Persisting
  <2> QED
    BY <1>0, <1>3, <2>1, Persisting, TouchedItself
<1>4. CASE Refused \/ Throw \/ Cancel \/ Receive \/ Invalid \/ CrossDay \/ Close
  <2>1. PICK a \in Attempt :
          /\ Busy /\ Amend(a) /\ DatedAttempt(a, task.day) /\ a.start <= now
          /\ a.out = "signed" => Day(a.finish) \in signedDays
    BY <1>4, Finishing, CurrentIsTyped DEF Dated
  <2>2. i \in DOMAIN attempts[d]
    BY <2>1, Amending
  <2>3. attempts'[d][i] = IF d = task.day /\ i = Len(attempts[task.day]) THEN a ELSE attempts[d][i]
    BY <2>1, <2>2, Amending
  <2> QED
    BY <1>0, <2>1, <2>2, <2>3, TouchedItself
<1> QED
  BY <1>1, <1>2, <1>3, <1>4, LooksOnly

\* The steps that write receipts, and those that read pages.
LEMMA ReceiptSteps ==
  ASSUME [Next]_vars
  PROVE  /\ Judge \/ OutsideRead \/ Publish \/ supplement' = supplement
         /\ ReadPage \/ seen' = NoPage \/ seen' = seen
BY DEF Next, Run, Around, vars, Plan, Claim, Consider, Skip, BeginRead, DeferRead, ReadPage, FailRead,
   MarkWake, Persist, Dispatch, Refused, Throw, Cancel, Receive, Invalid, CrossDay, Close, Judge, Publish,
   Crash, Send, OrphanEnds, SiteSigns, LoginRecovered, Promote, OutsideRead, Reconcile, Tick, Unchanged, Rest

\* A result is published only by its own run, and as it came in.
LEMMA Publishing ==
  ASSUME Typed, Publish
  PROVE  /\ pc = "received" /\ task.day \in Days /\ Day(Current.finish) = task.day
         /\ \A d \in Days : d # task.day => supplement'[d] = supplement[d]
         /\ supplement'[task.day].status = "signed" => Current.out = "signed"
<1> DEFINE e == Receipt(IF Current.out = "signed" THEN "signed" ELSE "open", Current.finish)
<1>1. /\ pc = "received" /\ task.day \in Days /\ Day(Current.finish) = task.day
      /\ supplement' = [supplement EXCEPT ![task.day] = e] /\ supplement \in [Days -> Entry]
  BY DEF Publish, Typed, Task, Journals
<1>2. e.status = "signed" => Current.out = "signed"
  BY DEF Receipt
<1> HIDE DEF e
<1> QED
  BY <1>1, <1>2

LEMMA WitnessedStep ==
  ASSUME Typed, OnRecord, Dated, Witnessed, [Next]_vars
  PROVE  Witnessed'
<1>0. signedDays \subseteq signedDays'
  BY Passing
<1>1. \A d \in Days : supplement'[d].status = "signed" => d \in signedDays'
  <2>1. CASE Judge
    <3>1. supplement' = Recorded(seen) /\ seen \in Page /\ (seen.status = "signed" => Day(seen.at) \in signedDays)
      BY <2>1 DEF Judge, Typed, Witnessed
    <3> QED
      BY <1>0, <3>1, RecordsTruth
  <2>2. CASE OutsideRead
    <3>1. PICK page \in Readable : supplement' = Recorded(page)
      BY <2>2 DEF OutsideRead
    <3>2. page \in Page /\ (page.status = "signed" => Day(page.at) \in signedDays)
      BY ReadingsAreTrue DEF Today
    <3> QED
      BY <1>0, <3>1, <3>2, RecordsTruth
  <2>3. CASE Publish
    <3>1. Current.out = "signed" => Day(Current.finish) \in signedDays
      BY <2>3, Publishing, CurrentIsTyped DEF Witnessed, Busy
    <3> QED
      BY <1>0, <2>3, <3>1, Publishing DEF Witnessed
  <2>4. CASE supplement' = supplement
    BY <1>0, <2>4 DEF Witnessed
  <2> QED
    BY <2>1, <2>2, <2>3, <2>4, ReceiptSteps
<1>2. seen'.status = "signed" => Day(seen'.at) \in signedDays'
  <2>1. CASE ReadPage
    <3>1. PICK page \in Readable : seen' = page
      BY <2>1 DEF ReadPage
    <3> QED
      BY <1>0, <3>1, ReadingsAreTrue DEF Today
  <2>2. CASE seen' = NoPage
    BY <2>2 DEF NoPage
  <2>3. CASE seen' = seen
    BY <1>0, <2>3 DEF Witnessed
  <2> QED
    BY <2>1, <2>2, <2>3, ReceiptSteps
<1>3. ASSUME NEW d \in Days, NEW i \in DOMAIN attempts'[d], attempts'[d][i].out = "signed"
      PROVE  Day(attempts'[d][i].finish) \in signedDays'
  <2>1. CASE i \in DOMAIN attempts[d] /\ Touched(attempts[d][i], attempts'[d][i])
    BY <1>0, <1>3, <2>1 DEF Touched, Witnessed
  <2>2. NewAttempt.out # "signed"
    BY DEF NewAttempt
  <2> QED
    BY <1>0, <1>3, <2>1, <2>2, AttemptsAfter
<1> QED
  BY <1>1, <1>2, <1>3 DEF Witnessed

LEMMA DatedStep ==
  ASSUME Typed, OnRecord, Dated, Witnessed, [Next]_vars
  PROVE  Dated'
<1>0. now \in Time /\ now' \in Time /\ now <= now' /\ now \in Nat /\ now' \in Nat
      /\ Today \in Nat /\ Today <= Day(now') /\ Day(now') = Today'
  BY Passing, DaysPass, Times DEF Typed, Today
<1>1. pc' # "idle" => task'.day <= Today'
  <2>1. task.day \in Nat
    BY DaysAreNumbers DEF Typed, Task
  <2>2. pc' # "idle" => task'.day = Today \/ (task'.day = task.day /\ task.day <= Today)
    BY Passing DEF Dated
  <2>3. Today' \in Nat
    BY <1>0, DaysPass
  <2> QED
    BY <1>0, <2>1, <2>2, <2>3
<1>2. ASSUME NEW d \in Days, NEW i \in DOMAIN attempts'[d]
      PROVE  DatedAttempt(attempts'[d][i], d) /\ attempts'[d][i].start <= now'
  <2> DEFINE b == attempts'[d][i]
  <2>0. b \in Attempt
    BY AttemptsAfter
  <2>00. b.start \in Nat
    BY <2>0, Times DEF Attempt
  <2>1. CASE i \in DOMAIN attempts[d] /\ Touched(attempts[d][i], b)
    <3>1. DatedAttempt(attempts[d][i], d) /\ attempts[d][i].start <= now
      BY <2>1 DEF Dated
    <3>2. DatedAttempt(b, d) /\ b.start <= now
      BY <2>1, <3>1 DEF DatedAttempt, Touched
    <3> QED
      BY <1>0, <2>00, <3>2
  <2>2. CASE Persist /\ b = NewAttempt /\ d = task.day
    <3>1. b.start = now /\ b.out = "none" /\ b.state = "in_progress"
      BY <2>2 DEF NewAttempt
    <3>2. task.day <= Today
      BY <2>2 DEF Persist, Ready, Dated
    <3> QED
      BY <1>0, <2>2, <3>1, <3>2 DEF DatedAttempt, Today
  <2>3. CASE DatedAttempt(b, d) /\ b.start <= now
    BY <1>0, <2>00, <2>3
  <2> HIDE DEF b
  <2>4. DatedAttempt(b, d) /\ b.start <= now'
    BY <2>1, <2>2, <2>3, AttemptsAfter DEF b
  <2> QED
    BY <2>4 DEF b
<1>3. pc' \in {"received", "published"} => Current'.out # "none"
  <2>1. CASE Receive
    <3>1. PICK a \in Attempt : Busy /\ Amend(a) /\ a.out # "none"
      BY <2>1, Finishing
    <3>2. Current' = a
      BY <2>1, <3>1, Amending, CurrentIsTyped DEF Receive, Current, Last
    <3> QED
      BY <3>1, <3>2
  <2>2. ~Receive /\ pc' \in {"received", "published"} =>
          pc \in {"received", "published"} /\ task' = task /\ attempts' = attempts
    BY DEF Next, Run, Around, vars, Plan, Claim, Consider, Skip, BeginRead, DeferRead, ReadPage, FailRead,
       MarkWake, Ready, Persist, Dispatch, Refused, Throw, Cancel, Invalid, CrossDay, Close, Judge, Publish,
       Crash, Send, OrphanEnds, SiteSigns, LoginRecovered, Promote, OutsideRead, Reconcile, Tick, Unchanged,
       Rest, journal
  <2> QED
    BY <2>1, <2>2 DEF Dated, Current
<1>4. pc' = "published" => Day(Current'.finish) = task'.day
  <2>1. CASE Publish
    BY <2>1, Publishing DEF Publish, journal, Current
  <2>2. ~Publish /\ pc' = "published" => pc = "published" /\ task' = task /\ attempts' = attempts
    BY DEF Next, Run, Around, vars, Plan, Claim, Consider, Skip, BeginRead, DeferRead, ReadPage, FailRead,
       MarkWake, Ready, Persist, Dispatch, Refused, Throw, Cancel, Receive, Invalid, CrossDay, Close, Judge,
       Crash, Send, OrphanEnds, SiteSigns, LoginRecovered, Promote, OutsideRead, Reconcile, Tick, Unchanged,
       Rest, journal
  <2> QED
    BY <2>1, <2>2 DEF Dated, Current
<1> QED
  BY <1>1, <1>2, <1>3, <1>4 DEF Dated

LEMMA UnconfirmedStep ==
  ASSUME Typed, Witnessed, Unconfirmed, [Next]_vars
  PROVE  Unconfirmed'
<1> DEFINE Before == {"refresh", "reading", "read", "permit", "intent", "dispatched", "received"}
<1>1. CASE Consider
  <2>1. supplement[task.day].status # "signed" /\ supplement' = supplement
    BY <1>1 DEF Consider, Confirmed, Unchanged
  <2>2. task'.day = task.day
    BY <1>1, Passing DEF Consider
  <2> QED
    BY <2>1, <2>2 DEF Unconfirmed
<1>2. CASE Judge
  <2>1. pc' \in {"idle", "permit"} /\ (pc' = "permit" => seen.status # "signed" /\ task'.day = task.day)
    BY <1>2, Passing DEF Judge, Rest
  <2>2. supplement' = Recorded(seen) /\ seen \in Page /\ pc = "read" /\ task.day \in Days
    BY <1>2 DEF Judge, Typed, Task
  <2>3. pc' = "permit" => supplement'[task.day].status # "signed"
    BY <2>1, <2>2, RecordsTruth DEF Unconfirmed, Witnessed
  <2> QED
    BY <2>1, <2>3 DEF Unconfirmed
<1>3. CASE Publish \/ OutsideRead
  BY <1>3 DEF Publish, OutsideRead, Unconfirmed
<1>4. CASE ~Consider /\ supplement' = supplement
  <2>1. pc' \in Before => pc \in Before
    BY <1>4 DEF Next, Run, Around, vars, Plan, Claim, Skip, BeginRead, DeferRead, ReadPage, FailRead,
       MarkWake, Ready, Persist, Dispatch, Refused, Throw, Cancel, Receive, Invalid, CrossDay, Close, Judge,
       Publish, Crash, Send, OrphanEnds, SiteSigns, LoginRecovered, Promote, OutsideRead, Reconcile, Tick,
       Unchanged, Rest
  <2> QED
    BY <1>4, <2>1, Passing DEF Unconfirmed
<1> QED
  BY <1>1, <1>2, <1>3, <1>4, ReceiptSteps

LEMMA TruthKept ==
  Spec => [](Typed /\ OnRecord /\ Dated /\ Witnessed /\ Unconfirmed)
<1> DEFINE Inv == Typed /\ OnRecord /\ Dated /\ Witnessed /\ Unconfirmed
<1>1. Init => Inv
  <2>1. Init => Dated /\ Witnessed /\ Unconfirmed
    BY EmptySeq DEF Init, Dated, Witnessed, Unconfirmed, NoPage
  <2> QED
    BY <2>1, TypeInit, RecordInit
<1>2. Inv /\ [Next]_vars => Inv'
  BY TypeStep, RecordStep, DatedStep, WitnessedStep, UnconfirmedStep
<1> QED
  BY <1>1, <1>2, PTL DEF Spec

\* What the day's receipts confirm is true: whether a passive reading, the
\* answer of an executor or a reading asked for on the dashboard said so, the
\* site has the account signed in on that day.
THEOREM FallbackConfirmsTheTruth == Spec => []ConfirmedIsTrue
<1>1. Witnessed => ConfirmedIsTrue
  BY DEF Witnessed, ConfirmedIsTrue
<1> QED
  BY <1>1, TruthKept, PTL

\* Once the day is confirmed nothing takes that back and nothing is attempted
\* on it: not a later reading that says less, not the result of an attempt
\* that was under way, in this run or any other.
THEOREM ConfirmationsStand == Spec => ConfirmationStands
<1> DEFINE Inv == Typed /\ OnRecord /\ Dated /\ Witnessed /\ Unconfirmed
<1>1. ASSUME Inv, [Next]_vars, NEW d \in Days, supplement[d].status = "signed"
      PROVE  supplement'[d].status = "signed" /\ Len(attempts'[d]) = Len(attempts[d])
  <2>1. supplement'[d].status = "signed"
    <3>1. CASE Judge
      BY <1>1, <3>1, RecordsTruth DEF Judge, Typed, Witnessed
    <3>2. CASE OutsideRead
      <4>1. PICK page \in Readable : supplement' = Recorded(page)
        BY <3>2 DEF OutsideRead
      <4>2. page \in Page /\ (page.status = "signed" => Day(page.at) \in signedDays)
        BY <1>1, ReadingsAreTrue DEF Today
      <4> QED
        BY <1>1, <4>1, <4>2, RecordsTruth
    <3>3. CASE Publish
      BY <1>1, <3>3, Publishing DEF Unconfirmed
    <3> QED
      BY <1>1, <3>1, <3>2, <3>3, ReceiptSteps
  <2>2. Len(attempts'[d]) = Len(attempts[d])
    <3>1. CASE Persist
      <4>1. d # task.day
        BY <1>1, <3>1 DEF Persist, Ready, Unconfirmed
      <4> QED
        BY <1>1, <3>1, <4>1, Persisting
    <3>2. Looking => attempts' = attempts
      BY LooksOnly
    <3>3. MarkWake \/ Judge \/ OutsideRead \/ Reconcile => Len(attempts'[d]) = Len(attempts[d])
      BY <1>1, Retouched
    <3>4. Refused \/ Throw \/ Cancel \/ Receive \/ Invalid \/ CrossDay \/ Close => Len(attempts'[d]) = Len(attempts[d])
      BY <1>1, Amended, Amending
    <3> QED
      BY <1>1, <3>1, <3>2, <3>3, <3>4, LooksOnly
  <2> QED
    BY <2>1, <2>2
<1>2. Inv /\ [Next]_vars =>
        [\A d \in Days : supplement[d].status = "signed" =>
           supplement'[d].status = "signed" /\ Len(attempts'[d]) = Len(attempts[d])]_vars
  BY <1>1
<1> HIDE DEF Inv
<1>3. Spec => []Inv
  BY TruthKept DEF Inv
<1> QED
  BY <1>2, <1>3, PTL DEF Spec, ConfirmationStands

\* A run that crosses midnight leaves no attempt that counts as the old day's
\* completed one, wherever between the reading and the result the day ended.
THEOREM MidnightLeavesNoneCompleted == Spec => []OverMidnight
<1>1. Typed /\ Dated => OverMidnight
  <2> SUFFICES ASSUME Typed, Dated, NEW d \in Days, NEW i \in DOMAIN attempts[d]
               PROVE  LET a == attempts[d][i] IN
                      (a.state = "completed" => Day(a.finish) = d) /\ (Day(a.start) # d => a.state # "completed")
    BY DEF OverMidnight
  <2> DEFINE a == attempts[d][i]
  <2>1. a \in Attempt /\ DatedAttempt(a, d) /\ d \in Nat
    BY ElementOfSeq, LenProperties, DaysAreNumbers DEF Typed, Journals, Dated
  <2> HIDE DEF a
  <2>2. a.start \in Time /\ a.finish \in Time
    BY <2>1 DEF Attempt
  <2>3. a.start <= a.finish => Day(a.start) <= Day(a.finish)
    BY <2>2, DaysPass
  <2>4. Day(a.start) \in Nat
    <3>1. a.start <= a.start
      BY <2>2, Times
    <3> QED
      BY <2>2, <3>1, DaysPass
  <2> QED
    BY <2>1, <2>3, <2>4 DEF a, DatedAttempt
<1> QED
  BY <1>1, TruthKept, PTL

=============================================================================
