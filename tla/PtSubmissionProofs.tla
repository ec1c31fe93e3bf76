------------------------- MODULE PtSubmissionProofs -------------------------
(***************************************************************************)
(* What becomes of a submission to a PT tracker.  First the native gate,   *)
(* for any number of sessions, any clock and any window lengths: it never  *)
(* replays an accepted submission, keeps at most one open intent a day and *)
(* only confirms what is true.  Then the page-driven visit and the OpenCD  *)
(* quarantine, for any targets, candidates, attempts, recovery rounds and  *)
(* runs: a submission in doubt and a confirmed day end the visit, and a    *)
(* result that denies a submission tells the truth.                        *)
(***************************************************************************)
EXTENDS NativePtGate, SubmissionQuarantine, TLAPS

-----------------------------------------------------------------------------
(* The native gate.                                                        *)
Live == {"read", "readback", "inspect", "begin", "write", "finish"}

\* m is the time of a signed reading on record or of a confirmation.
IsReceipt(m) ==
  \/ \E r \in Reads : r.signed /\ r.at = m
  \/ \E o \in Session : attempts[o].state = "confirmed" /\ attempts[o].seen = m

SomeLanded(d) == landed[d] # {}

\* run.lock, and the order of a session's own steps.
SessionOrder ==
  \A s \in Session :
    /\ pc[s] \in Live => holder = s
    /\ since[s] <= now
    /\ attempts[s].at <= now
    /\ pc[s] \in {"idle", "read", "readback", "inspect"} => attempts[s].state = "none"
    /\ pc[s] \in {"write", "finish"} => attempts[s].state = "submitted"
    /\ pc[s] = "begin" => attempts[s].state \in {"none", "submitted"}
    /\ pc[s] \in {"readback", "finish"} => proof[s] \in Reading /\ proof[s].at <= since[s]
    /\ pc[s] = "finish" => proof[s].signed

\* Readings are of the past, older than the live session's last step, and older
\* than its intent once it has one.
ReadingsArePast ==
  /\ \A r \in Reads : r.at <= now
  /\ \A m \in Time : IsReceipt(m) => m <= now
  /\ \A s \in Session : pc[s] \in Live =>
       /\ \A r \in Reads : r.at <= since[s]
       /\ \A m \in Time : IsReceipt(m) => m <= since[s]
       /\ attempts[s].state # "none" =>
            /\ \A r \in Reads : r.at <= attempts[s].at
            /\ \A m \in Time : IsReceipt(m) => m < attempts[s].at

\* What says "signed" is true.
SignedIsTrue ==
  /\ \A r \in Reads : r.signed => Day(r.at) \in signedDays
  /\ \A s \in Session :
       /\ pc[s] \in {"readback", "finish"} /\ proof[s].signed => Day(proof[s].at) \in signedDays
       /\ attempts[s].state = "confirmed" =>
            /\ Day(attempts[s].at) \in signedDays
            /\ Day(attempts[s].seen) = Day(attempts[s].at)
            /\ attempts[s].at <= attempts[s].seen
  /\ \A d \in Days : observed[d] # NoReading => Day(observed[d].at) = d

\* Where an accepted request stands against the journal and every reading.
LandedOrder ==
  \A d \in Days : \A s \in landed[d] :
    /\ d \in signedDays /\ d <= Day(now) /\ Day(attempts[s].at) <= d
    /\ pc[s] \in {"finish", "done"}
    /\ pc[s] = "finish" => Day(proof[s].at) = d
    /\ attempts[s].state \in {"submitted", "confirmed"}
    /\ attempts[s].state = "confirmed" => Day(attempts[s].at) = d
    /\ \A m \in Time : IsReceipt(m) => m < attempts[s].at \/ d <= Day(m)
    /\ \A r \in Reads : r.signed \/ r.at <= attempts[s].at \/ d < Day(r.at)

\* What the live session holds is newer than every accepted request, and a
\* session about to write has seen that its day has none.
LiveIsNewer ==
  \A s \in Session : \A d \in Days : SomeLanded(d) =>
    /\ pc[s] \in {"readback", "finish"} => d <= Day(proof[s].at)
    /\ pc[s] = "readback" /\ ~proof[s].signed => d < Day(proof[s].at)
    /\ pc[s] = "write" => d < Day(attempts[s].at)

IInv ==
  /\ TypeOK /\ SessionOrder /\ ReadingsArePast /\ SignedIsTrue
  /\ LandedOrder /\ LiveIsNewer /\ NoReplay /\ OneOpenIntentPerDay

-----------------------------------------------------------------------------
(* Days, readings and receipts *)

LEMMA DayMonotone == \A a, b \in Nat : Day(a) \in Nat /\ (a <= b => Day(a) <= Day(b))
  BY NativePtGateAssumption DEF Day

LEMMA TimeInNat == Time \subseteq Nat /\ \A t \in Time : Day(t) \in Days
  BY NativePtGateAssumption DEF Time, Days

LEMMA ReadsAreReadings == TypeOK => Reads \subseteq Reading
  BY DEF TypeOK, Reads

LEMMA ReceiptsAreReceipts ==
  ASSUME TypeOK, NEW t \in Time
  PROVE  \A m : m \in Receipts(t) <=> m \in Time /\ IsReceipt(m) /\ Day(m) = Day(t) /\ m <= t
  BY ReadsAreReadings DEF TypeOK, Receipts, IsReceipt, Reading, Attempt

\* Whatever closes an intent is a receipt of the intent's own day.
LEMMA ClosedByReceipt ==
  ASSUME TypeOK, SignedIsTrue, NEW t \in Time, NEW s \in Session, NEW m \in ClosedBy(s, t)
  PROVE  /\ m \in Time /\ IsReceipt(m) /\ m <= t
         /\ Day(m) = Day(attempts[s].at) /\ attempts[s].at <= m
<1>0. attempts[s].at \in Time /\ Day(attempts[s].at) \in Days
  BY TimeInNat DEF TypeOK, Attempt
<1>1. CASE m \in Receipts(t)  /\ Day(attempts[s].at) = Day(m) /\ m >= attempts[s].at
  BY <1>0, <1>1, ReceiptsAreReceipts, TimeInNat
<1>2. CASE \E x \in {observed[Day(attempts[s].at)]} \ {NoReading} :
              x.signed /\ attempts[s].at < x.at /\ x.at <= t /\ m = x.at
  <2>1. PICK x \in {observed[Day(attempts[s].at)]} \ {NoReading} :
              x.signed /\ attempts[s].at < x.at /\ x.at <= t /\ m = x.at
    BY <1>2
  <2>2. x \in Reads /\ x \in Reading /\ Day(x.at) = Day(attempts[s].at)
    BY <1>0, <2>1, ReadsAreReadings DEF Reads, SignedIsTrue
  <2>3. m \in Time
    BY <2>1, <2>2 DEF Reading
  <2>4. IsReceipt(m)
    BY <2>1, <2>2 DEF IsReceipt
  <2> QED BY <1>0, <2>1, <2>2, <2>3, <2>4, TimeInNat
<1> QED BY <1>1, <1>2 DEF ClosedBy

\* What settling and resolving may do to the intent of session s.
Kept(s, a) ==
  \/ a = attempts[s]
  \/ /\ attempts[s].state = "submitted" /\ a \in Attempt
     /\ a.at = attempts[s].at /\ a.acts = attempts[s].acts
     /\ \/ /\ a.state = "confirmed" /\ IsReceipt(a.seen)
           /\ Day(a.seen) = Day(a.at) /\ a.at <= a.seen
        \/ a.state = "resolved" /\ \A d \in Days : s \notin landed[d]

LEMMA SettledKept ==
  ASSUME TypeOK, SignedIsTrue, NEW t \in Time, NEW s \in Session
  PROVE  /\ Kept(s, Settled(t)[s])
         /\ Settled(t)[s].state # "resolved" \/ Settled(t)[s] = attempts[s]
<1>1. CASE Submitted(s) /\ ClosedBy(s, t) # {}
  <2> DEFINE r == CHOOSE x \in ClosedBy(s, t) : TRUE
  <2>1. r \in ClosedBy(s, t)
    BY <1>1
  <2>2. Settled(t)[s] = [attempts[s] EXCEPT !.state = "confirmed", !.seen = r]
    BY <1>1 DEF Settled
  <2> HIDE DEF r
  <2>3. r \in Time /\ IsReceipt(r) /\ Day(r) = Day(attempts[s].at) /\ attempts[s].at <= r
    BY <2>1, ClosedByReceipt
  <2>4. attempts[s] \in Attempt
    BY DEF TypeOK
  <2> QED BY <1>1, <2>2, <2>3, <2>4 DEF Kept, Attempt, Submitted
<1>2. CASE ~(Submitted(s) /\ ClosedBy(s, t) # {})
  BY <1>2 DEF Settled, Kept
<1> QED BY <1>1, <1>2

-----------------------------------------------------------------------------
(* Deciding under the gate *)

\* The session that may go on at t sees no accepted request of that day: its
\* unsigned reading would have to be newer than one that says "signed".
LEMMA NothingLandedToday ==
  ASSUME IInv, NEW b \in Session, NEW t \in since[b]..now, pc[b] \in {"inspect", "begin"},
         ~Refused(b, t)
  PROVE  t \in Time /\ Day(t) = Day(now) /\ landed[Day(t)] = {}
<1>0. \A m \in Time : IsReceipt(m) => m <= since[b]
  BY DEF IInv, ReadingsArePast, Live
<1>1. t \in Time /\ t \in Nat /\ since[b] \in Nat /\ now \in Nat /\ since[b] <= t /\ t <= now
  BY NativePtGateAssumption DEF IInv, TypeOK, Time
<1>2. Day(t) = Day(now) /\ Day(t) \in Days
  BY <1>1, TimeInNat DEF Refused
<1> SUFFICES ASSUME NEW s \in landed[Day(t)] PROVE FALSE
  BY <1>1, <1>2
<1>3. /\ s \in Session /\ s # b
      /\ attempts[s].state \in {"submitted", "confirmed"}
      /\ Day(attempts[s].at) <= Day(t)
      /\ attempts[s].state = "confirmed" => Day(attempts[s].at) = Day(t)
      /\ \A m \in Time : IsReceipt(m) => m < attempts[s].at \/ Day(t) <= Day(m)
      /\ \A r \in Reads : r.signed \/ r.at <= attempts[s].at \/ Day(t) < Day(r.at)
  BY <1>2 DEF IInv, TypeOK, LandedOrder
<1>4. attempts[s] \in Attempt /\ attempts[s].at \in Nat /\ attempts[s].seen \in Time
  BY <1>3, TimeInNat DEF IInv, TypeOK, Attempt
\* A receipt at least as new as the intent, unless the intent is still pending.
<1>5. \/ s \in Pending(b, t)
      \/ \E m \in Receipts(t) : attempts[s].at <= m
  <2>1. CASE attempts[s].state = "confirmed"
    <3>0. IsReceipt(attempts[s].seen)
      BY <1>3, <2>1 DEF IsReceipt
    <3>1. /\ IsReceipt(attempts[s].seen) /\ attempts[s].at <= attempts[s].seen
          /\ Day(attempts[s].seen) = Day(t)
      BY <1>3, <2>1, <3>0 DEF IInv, SignedIsTrue
    <3>2. attempts[s].seen <= since[b]
      BY <1>0, <1>4, <3>1
    <3>3. attempts[s].seen <= t
      <4>1. attempts[s].seen \in Nat
        BY <1>4, TimeInNat
      <4> QED BY <1>1, <3>2, <4>1
    <3>4. attempts[s].seen \in Receipts(t)
      BY <1>1, <1>4, <3>1, <3>3, ReceiptsAreReceipts DEF IInv
    <3> QED BY <3>1, <3>4
  <2>2. CASE attempts[s].state = "submitted" /\ ClosedBy(s, t) = {}
    BY <1>3, <2>2 DEF Pending, Settled, Submitted
  <2>3. ASSUME NEW m \in ClosedBy(s, t) PROVE \E n \in Receipts(t) : attempts[s].at <= n
    <3>1. /\ m \in Time /\ IsReceipt(m) /\ m <= t
          /\ Day(m) = Day(attempts[s].at) /\ attempts[s].at <= m
      BY <1>1, <1>3, ClosedByReceipt DEF IInv
    <3>2. Day(m) = Day(t)
      BY <1>1, <1>3, <1>4, <3>1, TimeInNat, DayMonotone
    <3> QED BY <1>1, <3>1, <3>2, ReceiptsAreReceipts DEF IInv
  <2> QED BY <1>3, <2>1, <2>2, <2>3
<1>6. Unsigned(b, t) # {}
  BY <1>5 DEF Refused, Completed
<1>7. PICK x \in Reads : /\ ~x.signed /\ Day(x.at) = Day(t)
                         /\ \A a \in After(b, t) : x.at > a
  BY <1>6 DEF Unsigned
<1>8. x.at \in Nat /\ x.at <= attempts[s].at
  <2>1. x \in Reading
    BY ReadsAreReadings DEF IInv
  <2>2. x.at \in Nat /\ Day(x.at) \in Nat
    BY <2>1, TimeInNat, DayMonotone DEF Reading
  <2> QED BY <1>3, <1>7, <2>2
<1>9. CASE s \in Pending(b, t)
  BY <1>4, <1>7, <1>8, <1>9 DEF After
<1>10. CASE \E m \in Receipts(t) : attempts[s].at <= m
  <2>1. PICK m \in Receipts(t) : attempts[s].at <= m
    BY <1>10
  <2>2. m \in Nat
    BY <1>1, ReceiptsAreReceipts, TimeInNat DEF IInv
  <2> QED BY <1>4, <1>7, <1>8, <2>1, <2>2 DEF After, Completed
<1> QED BY <1>5, <1>9, <1>10

LEMMA ResolvedKept ==
  ASSUME IInv, NEW b \in Session, NEW t \in since[b]..now, pc[b] \in {"inspect", "begin"},
         ~Refused(b, t), NEW s \in Session
  PROVE  Kept(s, Resolved(b, t)[s])
<1>1. t \in Time /\ Day(t) = Day(now) /\ landed[Day(t)] = {}
  BY NothingLandedToday
<1>2. Kept(s, Settled(t)[s]) /\ (Settled(t)[s].state # "resolved" \/ Settled(t)[s] = attempts[s])
  BY <1>1, SettledKept DEF IInv
<1>3. CASE Unsigned(b, t) # {} /\ s \in Pending(b, t) /\ Day(attempts[s].at) = Day(t)
  <2>1. Resolved(b, t)[s] = [Settled(t)[s] EXCEPT !.state = "resolved"]
    BY <1>3 DEF Resolved
  <2>2. Settled(t)[s] = attempts[s] /\ attempts[s].state = "submitted" /\ attempts[s] \in Attempt
    BY <1>2, <1>3 DEF Pending, Kept, IInv, TypeOK
  <2>3. ASSUME NEW d \in Days PROVE s \notin landed[d]
    <3>1. CASE s \in landed[d]
      <4>1. Day(t) <= d /\ d <= Day(t)
        BY <1>1, <1>3, <3>1 DEF IInv, LandedOrder
      <4>2. d \in Nat /\ Day(t) \in Nat
        BY <1>1, TimeInNat, DayMonotone DEF Days
      <4> QED BY <1>1, <3>1, <4>1, <4>2
    <3> QED BY <3>1
  <2> QED BY <2>1, <2>2, <2>3 DEF Kept, Attempt
<1>4. CASE ~(Unsigned(b, t) # {} /\ s \in Pending(b, t) /\ Day(attempts[s].at) = Day(t))
  BY <1>2, <1>4 DEF Resolved
<1> QED BY <1>3, <1>4

-----------------------------------------------------------------------------
(* The invariant *)

LEMMA NativeInit == Init => IInv
<1> SUFFICES ASSUME Init PROVE IInv
  OBVIOUS
<1>1. TypeOK
  BY NativePtGateAssumption DEF Init, TypeOK, Attempt, NoAttempt, Reading, NoReading, Report, Steps, Time, Day
<1>2. Reads = {} /\ \A m : ~IsReceipt(m)
  BY DEF Init, Reads, IsReceipt, NoAttempt
<1>3. SessionOrder /\ ReadingsArePast
  BY <1>2, NativePtGateAssumption DEF Init, SessionOrder, ReadingsArePast, Live, NoAttempt
<1>4. SignedIsTrue /\ LandedOrder /\ LiveIsNewer /\ NoReplay /\ OneOpenIntentPerDay
  BY <1>2 DEF Init, SignedIsTrue, LandedOrder, LiveIsNewer, SomeLanded, NoReplay,
     OneOpenIntentPerDay, Submitted, NoAttempt
<1> QED BY <1>1, <1>3, <1>4 DEF IInv

LEMMA NumbersOfState ==
  ASSUME TypeOK
  PROVE  /\ now \in Nat /\ Day(now) \in Days /\ Days \subseteq Nat
         /\ \A s \in Session : /\ since[s] \in Nat /\ attempts[s].at \in Nat /\ attempts[s].seen \in Nat
                               /\ attempts[s] \in Attempt /\ attempts[s].at \in Time
                               /\ Day(attempts[s].at) \in Days
                               /\ proof[s] \in Reading => proof[s].at \in Nat /\ Day(proof[s].at) \in Days
         /\ \A r \in Reads : r \in Reading /\ r.at \in Nat /\ r.at \in Time /\ Day(r.at) \in Days
<1>1. Days \subseteq Nat
  BY TimeInNat, DayMonotone DEF Days
<1> QED BY <1>1, TimeInNat, ReadsAreReadings DEF TypeOK, Attempt, Reading

LEMMA ReceiptsAreTrue == IInv => \A m : IsReceipt(m) => Day(m) \in signedDays
  BY DEF IInv, SignedIsTrue, IsReceipt

LEMMA KeptConfirmed ==
  ASSUME IInv, NEW s \in Session, NEW a, Kept(s, a), a.state = "confirmed"
  PROVE  Day(a.at) \in signedDays /\ Day(a.seen) = Day(a.at) /\ a.at <= a.seen
<1>1. CASE a = attempts[s]
  BY <1>1 DEF IInv, SignedIsTrue
<1>2. CASE a # attempts[s]
  <2>1. IsReceipt(a.seen) /\ a.at <= a.seen /\ Day(a.seen) = Day(a.at)
    BY <1>2 DEF Kept
  <2> QED BY <2>1, ReceiptsAreTrue
<1> QED BY <1>1, <1>2

\* The intent of an accepted request can only be confirmed, by its own day.
LEMMA KeptLanded ==
  ASSUME IInv, NEW d \in Days, NEW s \in landed[d], NEW a, Kept(s, a)
  PROVE  /\ a.state \in {"submitted", "confirmed"}
         /\ a.state = "confirmed" => Day(a.at) = d
<1>1. s \in Session
  BY DEF IInv, TypeOK
<1>2. /\ Day(attempts[s].at) <= d
      /\ attempts[s].state \in {"submitted", "confirmed"}
      /\ attempts[s].state = "confirmed" => Day(attempts[s].at) = d
      /\ \A m \in Time : IsReceipt(m) => m < attempts[s].at \/ d <= Day(m)
  BY DEF IInv, LandedOrder
<1>3. CASE a = attempts[s]
  BY <1>2, <1>3
<1>4. CASE a # attempts[s]
  <2>1. /\ a.state = "confirmed" /\ IsReceipt(a.seen) /\ a.seen \in Time /\ a.at = attempts[s].at
        /\ Day(a.seen) = Day(attempts[s].at) /\ attempts[s].at <= a.seen
    BY <1>1, <1>4 DEF Kept, Attempt
  <2>2. d \in Nat /\ attempts[s].at \in Nat /\ a.seen \in Nat /\ Day(attempts[s].at) \in Nat
    BY <1>1, <2>1, NumbersOfState, TimeInNat DEF IInv
  <2>3. a.seen < attempts[s].at \/ d <= Day(a.seen)
    BY <1>2, <2>1
  <2>4. Day(attempts[s].at) = d
    BY <1>2, <2>1, <2>2, <2>3
  <2> QED BY <2>1, <2>4
<1> QED BY <1>3, <1>4

\* The journal after settling or resolving, in a session that goes on to
\* `begin` or ends.
LEMMA JournalKept ==
  ASSUME IInv, UNCHANGED <<now, readbacks, observed, proof, world>>,
         attempts' \in [Session -> Attempt],
         \A s \in Session : Kept(s, attempts'[s]),
         report' \in Report,
         NEW b \in Session, pc[b] \in {"inspect", "begin"},
         \/ pc[b] = "inspect" /\ Go(b, "begin") /\ holder' = holder
         \/ Go(b, "done") /\ holder' = NoSession
  PROVE  IInv'
<1> USE DEF world
<1>1. TypeOK'
  BY DEF IInv, TypeOK, Go, Steps
<1>2. Reads' = Reads
  BY DEF Reads
<1>3. \A m : IsReceipt(m)' => IsReceipt(m)
  BY <1>2 DEF IsReceipt, Kept
<1>4. \A s \in Session : /\ attempts'[s].at = attempts[s].at
                         /\ attempts[s].state # "submitted" => attempts'[s] = attempts[s]
                         /\ attempts'[s].state = "submitted" => attempts[s].state = "submitted"
  BY DEF Kept
<1>5. SessionOrder'
  BY <1>4, NumbersOfState DEF IInv, TypeOK, SessionOrder, Live, Go
<1>6. ReadingsArePast'
  BY <1>2, <1>3, <1>4, NumbersOfState DEF IInv, TypeOK, SessionOrder, ReadingsArePast, Live, Go
<1>7. SignedIsTrue'
  BY <1>2, KeptConfirmed DEF IInv, TypeOK, SignedIsTrue, Go
<1>8. LandedOrder'
  <2>1. \A d \in Days : \A s \in landed[d] : s \in Session /\ s # b /\ pc'[s] = pc[s]
    BY DEF IInv, TypeOK, LandedOrder, Go
  <2> QED BY <1>2, <1>3, <1>4, <2>1, KeptLanded DEF IInv, TypeOK, LandedOrder
<1>9. LiveIsNewer' /\ NoReplay' /\ OneOpenIntentPerDay'
  BY <1>4 DEF IInv, TypeOK, LiveIsNewer, SomeLanded, NoReplay, OneOpenIntentPerDay, Submitted, Go
<1> QED BY <1>1, <1>5, <1>6, <1>7, <1>8, <1>9 DEF IInv

\* Two live sessions are one: each holds run.lock.
LEMMA OneLive ==
  ASSUME IInv, NEW s \in Session, NEW o \in Session, pc[s] \in Live, pc[o] \in Live
  PROVE  s = o
  BY DEF IInv, SessionOrder

\* Steps that touch neither the journal nor a reading on record.
LEMMA QuietReceipts ==
  ASSUME UNCHANGED journal, UNCHANGED observed
  PROVE  Reads' = Reads /\ \A m : IsReceipt(m)' <=> IsReceipt(m)
  BY DEF journal, Reads, IsReceipt

LEMMA StartKeeps == ASSUME IInv, NEW s \in Session, Start(s) PROVE IInv'
<1> USE NumbersOfState DEF Start, Go, world, journal
<1>1. Reads' = Reads /\ \A m : IsReceipt(m)' <=> IsReceipt(m)
  BY QuietReceipts
<1>2. \A o \in Session : pc[o] \notin Live
  BY NativePtGateAssumption DEF IInv, SessionOrder
<1>3. TypeOK' /\ SessionOrder'
  BY <1>2 DEF IInv, TypeOK, SessionOrder, Live, Steps
<1>4. ReadingsArePast'
  BY <1>1, <1>2 DEF IInv, TypeOK, SessionOrder, ReadingsArePast, Live
<1>5. SignedIsTrue'
  BY <1>1 DEF IInv, TypeOK, SignedIsTrue
<1>6. LandedOrder'
  BY <1>1 DEF IInv, TypeOK, LandedOrder
<1>7. LiveIsNewer' /\ NoReplay' /\ OneOpenIntentPerDay'
  BY DEF IInv, TypeOK, LiveIsNewer, SomeLanded, NoReplay, OneOpenIntentPerDay, Submitted
<1> QED BY <1>3, <1>4, <1>5, <1>6, <1>7 DEF IInv

LEMMA CrashKeeps == ASSUME IInv, NEW s \in Session, Crash(s) PROVE IInv'
<1> USE NumbersOfState DEF Crash, Go, world, journal
<1>1. Reads' = Reads /\ \A m : IsReceipt(m)' <=> IsReceipt(m)
  BY QuietReceipts
<1>2. \A o \in Session : o # s => pc[o] \notin Live
  BY DEF IInv, SessionOrder
<1>3. TypeOK' /\ SessionOrder'
  BY <1>2 DEF IInv, TypeOK, SessionOrder, Live, Steps
<1>4. ReadingsArePast'
  BY <1>1, <1>2 DEF IInv, TypeOK, SessionOrder, ReadingsArePast, Live
<1>5. SignedIsTrue'
  BY <1>1 DEF IInv, TypeOK, SignedIsTrue
<1>6. LandedOrder'
  BY <1>1 DEF IInv, TypeOK, LandedOrder
<1>7. LiveIsNewer' /\ NoReplay' /\ OneOpenIntentPerDay'
  BY DEF IInv, TypeOK, LiveIsNewer, SomeLanded, NoReplay, OneOpenIntentPerDay, Submitted
<1> QED BY <1>3, <1>4, <1>5, <1>6, <1>7 DEF IInv

\* The reading taken at this moment.
NowReading == [signed |-> Day(now) \in signedDays, at |-> now]

LEMMA NowReadingIsTrue ==
  ASSUME TypeOK
  PROVE  /\ NowReading \in Reading /\ NowReading.at = now
         /\ NowReading.signed <=> Day(now) \in signedDays
<1>1. (Day(now) \in signedDays) \in BOOLEAN
  OBVIOUS
<1> QED BY <1>1 DEF NowReading, Reading, TypeOK

LEMMA ReadSiteKeeps == ASSUME IInv, NEW s \in Session, ReadSite(s) PROVE IInv'
<1> USE NumbersOfState, NowReadingIsTrue DEF Go, world, journal
<1>1. Reads' = Reads /\ \A m : IsReceipt(m)' <=> IsReceipt(m)
  BY QuietReceipts DEF ReadSite
<1>2. \A o \in Session : o # s => pc[o] \notin Live
  BY OneLive DEF Live, ReadSite
<1>3. attempts[s].state = "none" /\ pc[s] = "read" /\ holder = s
  BY DEF IInv, TypeOK, SessionOrder, ReadSite, Live
<1>4. /\ UNCHANGED <<now, attempts, readbacks, observed, report, holder, signedDays, landed>>
      /\ since' = [since EXCEPT ![s] = now]
      /\ \/ pc' = [pc EXCEPT ![s] = "readback"] /\ proof' = [proof EXCEPT ![s] = NowReading]
         \/ pc' = [pc EXCEPT ![s] = "inspect"] /\ proof' = proof
  BY DEF ReadSite, NowReading
<1>5. TypeOK'
  BY <1>4 DEF IInv, TypeOK, Steps
<1>6. SessionOrder'
  BY <1>2, <1>3, <1>4 DEF IInv, TypeOK, SessionOrder, Live
<1>7. ReadingsArePast'
  BY <1>1, <1>2, <1>3, <1>4 DEF IInv, TypeOK, ReadingsArePast, Live
<1>8. SignedIsTrue'
  BY <1>1, <1>4 DEF IInv, TypeOK, SignedIsTrue
<1>9. LandedOrder'
  BY <1>1, <1>3, <1>4 DEF IInv, TypeOK, LandedOrder
<1>10. LiveIsNewer'
  <2>1. \A d \in Days : SomeLanded(d) => d <= Day(now) /\ d \in signedDays
    BY DEF IInv, LandedOrder, SomeLanded, TypeOK
  <2>2. \A d \in Days : SomeLanded(d) /\ Day(now) \notin signedDays => d < Day(now)
    <3>1. Day(now) \in Nat /\ Days \subseteq Nat
      BY DEF IInv
    <3> QED BY <2>1, <3>1
  <2> QED BY <1>4, <2>1, <2>2 DEF IInv, TypeOK, LiveIsNewer, SomeLanded
<1>11. NoReplay' /\ OneOpenIntentPerDay'
  BY <1>4 DEF IInv, TypeOK, NoReplay, OneOpenIntentPerDay, Submitted
<1> QED BY <1>5, <1>6, <1>7, <1>8, <1>9, <1>10, <1>11 DEF IInv

LEMMA ReadbackKeeps ==
  ASSUME IInv, NEW s \in Session, NEW t \in since[s]..now, Readback(s, t) PROVE IInv'
<1> USE NumbersOfState DEF Go, world
<1>1. pc[s] = "readback" /\ holder = s /\ attempts[s].state = "none" /\ proof[s] \in Reading
      /\ proof[s].at <= since[s] /\ since[s] <= now
  BY DEF Readback, IInv, SessionOrder, Live
<1>2. \A o \in Session : o # s => pc[o] \notin Live
  BY <1>1, OneLive DEF Live
<1>3. /\ UNCHANGED <<now, attempts, observed, proof, signedDays, landed>>
      /\ since' = [since EXCEPT ![s] = now]
      /\ \/ pc' = [pc EXCEPT ![s] = "inspect"] /\ holder' = holder
         \/ pc' = [pc EXCEPT ![s] = "done"] /\ holder' = NoSession
      /\ readbacks' \in {readbacks, readbacks \cup {proof[s]}}
      /\ report' \in {report, [kind |-> "success", at |-> proof[s].at], [kind |-> "waiting", at |-> now]}
  BY DEF Readback, End
<1>4. /\ Reads \subseteq Reads' /\ Reads' \subseteq Reads \cup {proof[s]}
      /\ \A m : IsReceipt(m)' => IsReceipt(m) \/ (proof[s].signed /\ m = proof[s].at)
  <2>1. Reads' \subseteq Reads \cup {proof[s]} /\ Reads \subseteq Reads'
    BY <1>3 DEF Reads
  <2> QED BY <1>3, <2>1 DEF IsReceipt
<1>5. TypeOK'
  <2>1. proof[s].at \in Time /\ now \in Time
    BY <1>1 DEF IInv, TypeOK, Reading
  <2>2. report' \in Report
    BY <1>3, <2>1 DEF IInv, TypeOK, Report
  <2> QED BY <1>1, <1>3, <2>2 DEF IInv, TypeOK, Steps
<1>6. SessionOrder'
  BY <1>1, <1>2, <1>3 DEF IInv, TypeOK, SessionOrder, Live
<1>7. ReadingsArePast'
  <2>1. proof[s].at \in Nat /\ proof[s].at <= now
    BY <1>1 DEF IInv
  <2>2. (\A r \in Reads' : r.at <= now) /\ (\A m \in Time : IsReceipt(m)' => m <= now)
    BY <1>4, <2>1 DEF IInv, ReadingsArePast
  <2> QED BY <1>1, <1>2, <1>3, <2>2 DEF IInv, TypeOK, ReadingsArePast, Live
<1>8. SignedIsTrue'
  BY <1>1, <1>3, <1>4 DEF IInv, TypeOK, SignedIsTrue
<1>9. LandedOrder'
  <2>1. \A d \in Days : \A o \in landed[d] :
          /\ d <= Day(proof[s].at)
          /\ proof[s].signed \/ d < Day(proof[s].at)
    BY <1>1 DEF IInv, LiveIsNewer, SomeLanded
  <2>2. \A d \in Days : \A o \in landed[d] :
          /\ \A m \in Time : IsReceipt(m)' => m < attempts[o].at \/ d <= Day(m)
          /\ \A r \in Reads' : r.signed \/ r.at <= attempts[o].at \/ d < Day(r.at)
    BY <1>4, <2>1 DEF IInv, LandedOrder
  <2>3. \A d \in Days : \A o \in landed[d] : o \in Session /\ o # s
    BY <1>1 DEF IInv, TypeOK, LandedOrder
  <2> QED BY <1>3, <2>2, <2>3 DEF IInv, TypeOK, LandedOrder
<1>10. LiveIsNewer'
  BY <1>1, <1>2, <1>3 DEF IInv, TypeOK, LiveIsNewer, SomeLanded
<1>11. NoReplay' /\ OneOpenIntentPerDay'
  BY <1>3 DEF IInv, TypeOK, NoReplay, OneOpenIntentPerDay, Submitted
<1> QED BY <1>5, <1>6, <1>7, <1>8, <1>9, <1>10, <1>11 DEF IInv

LEMMA SettledType ==
  ASSUME TypeOK, SignedIsTrue, NEW t \in Time
  PROVE  /\ Settled(t) \in [Session -> Attempt]
         /\ \A s \in Session : Kept(s, Settled(t)[s])
<1>1. \A s \in Session : Kept(s, Settled(t)[s])
  BY SettledKept
<1>2. \A s \in Session : Settled(t)[s] \in Attempt
  BY <1>1, NumbersOfState DEF Kept
<1>3. Settled(t) = [s \in Session |-> Settled(t)[s]]
  BY DEF Settled
<1> QED BY <1>1, <1>2, <1>3

LEMMA ResolvedType ==
  ASSUME IInv, NEW b \in Session, NEW t \in since[b]..now, pc[b] \in {"inspect", "begin"},
         ~Refused(b, t)
  PROVE  /\ Resolved(b, t) \in [Session -> Attempt]
         /\ \A s \in Session : Kept(s, Resolved(b, t)[s])
<1>1. \A s \in Session : Kept(s, Resolved(b, t)[s])
  BY ResolvedKept
<1>2. \A s \in Session : Resolved(b, t)[s] \in Attempt
  BY <1>1, NumbersOfState DEF Kept, IInv
<1>3. Resolved(b, t) = [s \in Session |-> Resolved(b, t)[s]]
  BY DEF Resolved
<1> QED BY <1>1, <1>2, <1>3

LEMMA TimeOfCall ==
  ASSUME TypeOK, NEW b \in Session, NEW t \in since[b]..now
  PROVE  t \in Time /\ t \in Nat /\ since[b] <= t /\ t <= now
  BY NativePtGateAssumption DEF TypeOK, Time

LEMMA InspectKeeps ==
  ASSUME IInv, NEW b \in Session, NEW t \in since[b]..now, Inspect(b, t) PROVE IInv'
<1>1. pc[b] = "inspect" /\ UNCHANGED <<now, readbacks, observed, proof, world>>
  BY DEF Inspect
<1>2. CASE /\ ~Refused(b, t)
           /\ attempts' = Resolved(b, t)
           /\ Go(b, "begin")
           /\ UNCHANGED <<holder, report>>
  <2>1. report' \in Report
    BY <1>2 DEF IInv, TypeOK
  <2> QED BY <1>1, <1>2, <2>1, ResolvedType, JournalKept
<1>3. CASE /\ attempts' = Settled(t)
           /\ \E kind \in {"none", "waiting"} :
                End(b, IF Refused(b, t) /\ Pending(b, t) # {} THEN "unknown" ELSE kind)
  <2>1. report' \in Report /\ Go(b, "done") /\ holder' = NoSession
    BY <1>3 DEF End, Report, IInv, TypeOK
  <2> QED BY <1>1, <1>3, <2>1, TimeOfCall, SettledType, JournalKept DEF IInv
<1> QED BY <1>2, <1>3 DEF Inspect

\* A new intent: nothing of its day is unresolved, accepted or confirmed.
LEMMA AuthorisedBeginKeeps ==
  ASSUME IInv, NEW b \in Session, NEW t \in since[b]..now, pc[b] = "begin",
         ~Refused(b, t), NEW action \in Action,
         \/ attempts[b].state = "none"
         \/ attempts[b].state = "submitted" /\ attempts[b].acts = {"navigation"} /\ action = "click",
         attempts' = [Resolved(b, t) EXCEPT
             ![b] = [state |-> "submitted", seen |-> 0,
                     at |-> IF attempts[b].state = "none" THEN t ELSE attempts[b].at,
                     acts |-> attempts[b].acts \cup {action}]],
         Go(b, "write"),
         UNCHANGED <<holder, report, now, readbacks, observed, proof, world>>
  PROVE  IInv'
<1> USE NumbersOfState DEF Go, world
<1>1. t \in Time /\ t \in Nat /\ since[b] <= t /\ t <= now /\ Day(t) = Day(now) /\ landed[Day(t)] = {}
      /\ Day(t) \in Days
  BY TimeOfCall, NothingLandedToday, TimeInNat DEF IInv
<1>2. holder = b /\ \A o \in Session : o # b => pc[o] \notin Live
  BY OneLive DEF Live, IInv, SessionOrder
<1> DEFINE at == IF attempts[b].state = "none" THEN t ELSE attempts[b].at
<1>3. /\ at \in Time /\ at \in Nat /\ at <= now /\ Day(at) = Day(t)
      /\ \A r \in Reads : r.at <= at
      /\ \A m \in Time : IsReceipt(m) => m < at
  <2>1. CASE attempts[b].state = "none"
    <3>1. /\ \A r \in Reads : r.at <= since[b]
          /\ \A m \in Time : IsReceipt(m) => m <= since[b]
      BY DEF IInv, ReadingsArePast, Live
    <3>2. \A r \in Reads : r.at <= t
      BY <1>1, <3>1 DEF IInv
    <3>3. ASSUME NEW m \in Time, IsReceipt(m) PROVE m < t
      <4>1. m <= t /\ m \in Nat
        BY <1>1, <3>1, <3>3, TimeInNat DEF IInv
      <4>2. ASSUME m = t PROVE FALSE
        <5>1. m \in Receipts(t)
          BY <1>1, <3>3, <4>2, ReceiptsAreReceipts DEF IInv
        <5>2. PICK x \in Reads : \A a \in After(b, t) : x.at > a
          BY <5>1 DEF Refused, Completed, Unsigned
        <5>3. x.at > m /\ x.at <= t /\ x.at \in Nat
          BY <3>2, <5>1, <5>2 DEF After, Completed, IInv
        <5> QED BY <4>1, <4>2, <5>3
      <4> QED BY <1>1, <4>1, <4>2
    <3> QED BY <1>1, <2>1, <3>2, <3>3
  <2>2. CASE attempts[b].state = "submitted"
    <3>1. /\ \A r \in Reads : r.at <= attempts[b].at
          /\ \A m \in Time : IsReceipt(m) => m < attempts[b].at
      BY <2>2 DEF IInv, ReadingsArePast, Live
    <3>2. Day(attempts[b].at) = Day(t) /\ attempts[b].at <= now
      BY <2>2 DEF Refused, IInv, SessionOrder
    <3> QED BY <2>2, <3>1, <3>2 DEF IInv
  <2> QED BY <2>1, <2>2
<1>4. /\ attempts'[b] \in Attempt /\ attempts'[b].at = at /\ attempts'[b].state = "submitted"
      /\ \A o \in Session \ {b} : attempts'[o] \in Attempt /\ Kept(o, attempts'[o])
      /\ attempts' \in [Session -> Attempt]
  <2>1. Resolved(b, t) \in [Session -> Attempt] /\ \A o \in Session : Kept(o, Resolved(b, t)[o])
    BY ResolvedType
  <2>2. [state |-> "submitted", seen |-> 0, at |-> at, acts |-> attempts[b].acts \cup {action}]
          \in Attempt
    <3>1. attempts[b].acts \subseteq Action /\ 0 \in Time
      BY NativePtGateAssumption DEF IInv, Attempt, Time
    <3> QED BY <1>3, <3>1 DEF Attempt
  <2> QED BY <2>1, <2>2
<1> HIDE DEF at
<1>5. Reads' = Reads /\ \A m : IsReceipt(m)' => IsReceipt(m)
  <2>1. Reads' = Reads
    BY DEF Reads
  <2> QED BY <1>4, <2>1 DEF IsReceipt, Kept
<1>6. TypeOK'
  BY <1>4 DEF IInv, TypeOK, Steps
<1>7. SessionOrder'
  BY <1>2, <1>3, <1>4 DEF IInv, TypeOK, SessionOrder, Live, Kept
<1>8. ReadingsArePast'
  BY <1>2, <1>3, <1>4, <1>5 DEF IInv, TypeOK, ReadingsArePast, Live
<1>9. SignedIsTrue'
  <2>1. \A o \in Session : attempts'[o].state = "confirmed" => o # b /\ Kept(o, attempts'[o])
    BY <1>4
  <2> QED BY <1>5, <2>1, KeptConfirmed DEF IInv, TypeOK, SignedIsTrue
<1>10. LandedOrder'
  <2>1. \A d \in Days : \A o \in landed[d] :
          /\ o \in Session /\ o # b /\ pc'[o] = pc[o]
          /\ Kept(o, attempts'[o]) /\ attempts'[o].at = attempts[o].at
    BY <1>4 DEF IInv, TypeOK, LandedOrder, Kept
  <2> QED BY <1>5, <2>1, KeptLanded DEF IInv, TypeOK, LandedOrder
<1>11. LiveIsNewer'
  <2>1. ASSUME NEW d \in Days, SomeLanded(d) PROVE d < Day(at)
    <3>1. d <= Day(t) /\ d # Day(t) /\ d \in Nat /\ Day(t) \in Nat
      BY <1>1, <2>1 DEF IInv, LandedOrder, SomeLanded, TypeOK
    <3> QED BY <1>3, <3>1
  <2>2. \A o \in Session : o # b => pc'[o] = pc[o] /\ pc[o] \notin {"readback", "finish", "write"}
    BY <1>2 DEF Live, IInv, TypeOK
  <2>3. pc'[b] = "write" /\ attempts'[b].at = at
    BY <1>4 DEF IInv, TypeOK
  <2> QED BY <2>1, <2>2, <2>3 DEF LiveIsNewer, SomeLanded
<1>12. NoReplay'
  BY DEF IInv, NoReplay
<1>13. OneOpenIntentPerDay'
  <2>1. ASSUME NEW o \in Session \ {b}, attempts'[o].state = "submitted"
        PROVE  Day(attempts'[o].at) # Day(at) /\ attempts'[o] = attempts[o]
    <3>0. Resolved(b, t) \in [Session -> Attempt]
      BY ResolvedType
    <3>1. attempts'[o] = Resolved(b, t)[o] /\ attempts'[o] = attempts[o]
      <4>1. attempts'[o] = Resolved(b, t)[o]
        BY <3>0
      <4>2. Kept(o, attempts'[o])
        BY <1>4
      <4> QED BY <2>1, <4>1, <4>2 DEF Kept
    <3>2. CASE o \in Pending(b, t)
      <4>1. Unsigned(b, t) # {}
        BY <3>2 DEF Refused
      <4>2. Settled(t)[o] \in Attempt
        BY <1>1, SettledType DEF IInv
      <4>3. ASSUME Day(attempts[o].at) = Day(t) PROVE FALSE
        <5>1. Resolved(b, t)[o].state = "resolved"
          BY <3>2, <4>1, <4>2, <4>3 DEF Resolved, Attempt
        <5> QED BY <2>1, <3>1, <5>1
      <4> QED BY <1>3, <3>1, <4>3
    <3>3. CASE o \notin Pending(b, t)
      BY <2>1, <3>1, <3>3 DEF Resolved, Pending
    <3> QED BY <3>2, <3>3
  <2> QED BY <1>4, <2>1 DEF IInv, OneOpenIntentPerDay, Submitted
<1> QED BY <1>6, <1>7, <1>8, <1>9, <1>10, <1>11, <1>12, <1>13 DEF IInv

LEMMA BeginKeeps ==
  ASSUME IInv, NEW b \in Session, NEW t \in since[b]..now, NEW action \in Action, Begin(b, t, action)
  PROVE  IInv'
<1>1. pc[b] = "begin" /\ UNCHANGED <<now, readbacks, observed, proof, world>>
  BY DEF Begin
<1>2. CASE attempts' = Settled(t) /\ End(b, "unknown")
  <2>1. report' \in Report /\ Go(b, "done") /\ holder' = NoSession
    BY <1>2 DEF End, Report, IInv, TypeOK
  <2> QED BY <1>1, <1>2, <2>1, TimeOfCall, SettledType, JournalKept DEF IInv
<1>3. CASE ~(attempts' = Settled(t) /\ End(b, "unknown"))
  BY <1>1, <1>3, AuthorisedBeginKeeps DEF Begin
<1> QED BY <1>2, <1>3

\* The request: today had none before, and every reading is older than its intent.
LEMMA WriteKeeps == ASSUME IInv, NEW s \in Session, Write(s) PROVE IInv'
<1> USE NumbersOfState DEF Go, world, journal
<1>1. Reads' = Reads /\ \A m : IsReceipt(m)' <=> IsReceipt(m)
  BY QuietReceipts DEF Write
<1>2. /\ pc[s] = "write" /\ holder = s /\ attempts[s].state = "submitted"
      /\ attempts[s].at <= now /\ since[s] <= now
  BY DEF Write, IInv, SessionOrder, Live
<1>3. \A o \in Session : o # s => pc[o] \notin Live
  BY <1>2, OneLive DEF Live
<1>4. /\ UNCHANGED <<now, attempts, readbacks, observed>>
      /\ since' = [since EXCEPT ![s] = now]
      /\ \/ pc' = [pc EXCEPT ![s] = "finish"] /\ UNCHANGED <<holder, report>>
            /\ proof' = [proof EXCEPT ![s] = [signed |-> TRUE, at |-> now]]
            /\ Day(now) \in signedDays'
         \/ pc' = [pc EXCEPT ![s] = "begin"] /\ UNCHANGED <<holder, report, proof, world>>
         \/ pc' = [pc EXCEPT ![s] = "done"] /\ holder' = NoSession /\ UNCHANGED proof
            /\ report' \in {report, [kind |-> "unknown", at |-> now]}
      /\ \/ UNCHANGED world
         \/ /\ signedDays' = signedDays \cup {Day(now)}
            /\ landed' = [landed EXCEPT ![Day(now)] = @ \cup {s}]
            /\ pc'[s] \in {"finish", "done"}
            /\ pc'[s] = "finish" => proof'[s].at = now
  BY <1>2 DEF Write, End, IInv, TypeOK
<1>5. TypeOK'
  <2>1. now \in Time /\ [signed |-> TRUE, at |-> now] \in Reading
    BY DEF IInv, TypeOK, Reading
  <2>2. report' \in Report
    BY <1>4, <2>1 DEF IInv, TypeOK, Report
  <2>3. landed' \in [Days -> SUBSET Session] /\ signedDays' \in SUBSET Days
    BY <1>4 DEF IInv, TypeOK
  <2>4. proof' \in [Session -> Reading \cup {NoReading}]
    BY <1>4, <2>1 DEF IInv, TypeOK
  <2>5. pc' \in [Session -> Steps] /\ holder' \in Session \cup {NoSession}
    BY <1>4 DEF IInv, TypeOK, Steps
  <2> QED BY <1>4, <2>2, <2>3, <2>4, <2>5 DEF IInv, TypeOK
<1>6. SessionOrder'
  <2>1. [signed |-> TRUE, at |-> now] \in Reading
    BY DEF IInv, TypeOK, Reading
  <2>2. pc'[s] = "finish" => proof'[s] \in Reading /\ proof'[s].at = now /\ proof'[s].signed
    <3>1. pc'[s] = "finish" => proof'[s] = [signed |-> TRUE, at |-> now]
      BY <1>4 DEF IInv, TypeOK
    <3>2. [signed |-> TRUE, at |-> now].signed /\ [signed |-> TRUE, at |-> now].at = now
      OBVIOUS
    <3> QED BY <2>1, <3>1, <3>2
  <2>3. /\ pc'[s] \in {"finish", "begin", "done"}
        /\ pc'[s] \in Live => holder' = s
        /\ since'[s] = now /\ now <= now
    BY <1>2, <1>4 DEF IInv, TypeOK, Live
  <2>4. \A o \in Session : o # s => /\ pc'[o] = pc[o] /\ pc[o] \notin Live
                                   /\ since'[o] = since[o]
    BY <1>3, <1>4 DEF IInv, TypeOK
  <2> SUFFICES ASSUME NEW o \in Session
               PROVE  /\ pc'[o] \in Live => holder' = o
                      /\ since'[o] <= now
                      /\ attempts[o].at <= now
                      /\ pc'[o] \in {"idle", "read", "readback", "inspect"} => attempts[o].state = "none"
                      /\ pc'[o] \in {"write", "finish"} => attempts[o].state = "submitted"
                      /\ pc'[o] = "begin" => attempts[o].state \in {"none", "submitted"}
                      /\ pc'[o] \in {"readback", "finish"} => proof'[o] \in Reading /\ proof'[o].at <= since'[o]
                      /\ pc'[o] = "finish" => proof'[o].signed
    BY <1>4 DEF SessionOrder
  <2>5. CASE o = s
    <3>1. pc'[s] = "finish" => proof'[s].signed
      BY <2>2
    <3>2. pc'[s] \in {"readback", "finish"} => proof'[s] \in Reading /\ proof'[s].at <= since'[s]
      BY <2>2, <2>3
    <3>3. /\ pc'[s] \notin {"idle", "read", "readback", "inspect", "write"}
          /\ since'[s] <= now
      BY <2>3
    <3> QED BY <1>2, <2>3, <2>5, <3>1, <3>2, <3>3, Zenon
  <2>6. CASE o # s
    BY <2>4, <2>6 DEF IInv, SessionOrder, Live
  <2> QED BY <2>5, <2>6
<1>7. ReadingsArePast'
  BY <1>1, <1>2, <1>3, <1>4 DEF IInv, TypeOK, ReadingsArePast, Live
<1>8. SignedIsTrue'
  <2>1. signedDays \subseteq signedDays'
    BY <1>4
  <2> QED BY <1>1, <1>4, <2>1 DEF IInv, TypeOK, SignedIsTrue
<1>9. Day(attempts[s].at) <= Day(now) /\ \A d \in Days : SomeLanded(d) => d < Day(attempts[s].at)
  BY <1>2, DayMonotone DEF IInv, LiveIsNewer
<1>10. \A d \in Days : \A o \in landed'[d] :
          \/ o \in landed[d] /\ o # s /\ o \in Session /\ pc'[o] = pc[o] /\ proof'[o] = proof[o]
          \/ /\ o = s /\ d = Day(now) /\ d \in signedDays' /\ pc'[s] \in {"finish", "done"}
             /\ pc'[s] = "finish" => Day(proof'[s].at) = d
  BY <1>2, <1>4 DEF IInv, TypeOK, LandedOrder
<1>11. LandedOrder'
  <2>1. signedDays \subseteq signedDays'
    BY <1>4
  <2>2. /\ \A r \in Reads : r.at <= attempts[s].at
        /\ \A m \in Time : IsReceipt(m) => m < attempts[s].at
    BY <1>2 DEF IInv, ReadingsArePast, Live
  <2>3. Day(now) <= Day(now)
    BY DEF IInv
  <2> QED BY <1>1, <1>2, <1>4, <1>9, <1>10, <2>1, <2>2, <2>3 DEF IInv, LandedOrder
<1>12. LiveIsNewer'
  <2>1. \A d \in Days : SomeLanded(d)' => d <= Day(now)
    <3>1. \A d \in Days : SomeLanded(d) => d <= Day(now)
      BY DEF IInv, LandedOrder, SomeLanded, TypeOK
    <3>2. Day(now) <= Day(now)
      BY DEF IInv
    <3> QED BY <1>10, <3>1, <3>2 DEF SomeLanded, IInv, TypeOK
  <2>2. pc'[s] # "write" /\ pc'[s] # "readback" /\ (pc'[s] = "finish" => proof'[s].at = now)
    BY <1>2, <1>4 DEF IInv, TypeOK
  <2>3. \A o \in Session : o # s => pc'[o] = pc[o] /\ pc[o] \notin {"readback", "finish", "write"}
    BY <1>3, <1>4 DEF Live, IInv, TypeOK
  <2> QED BY <1>4, <2>1, <2>2, <2>3 DEF LiveIsNewer
<1>13. NoReplay'
  <2>1. ASSUME NEW d \in Days, NEW a \in landed'[d], NEW o \in landed'[d] PROVE a = o
    <3>1. landed[Day(now)] = {}
      <4>1. Day(attempts[s].at) \in Nat /\ Day(now) \in Nat
        BY DEF IInv
      <4> QED BY <1>9, <4>1 DEF SomeLanded, IInv
    <3> QED BY <1>10, <2>1, <3>1 DEF IInv, NoReplay
  <2> QED BY <2>1 DEF NoReplay
<1>14. OneOpenIntentPerDay'
  BY <1>4 DEF IInv, OneOpenIntentPerDay, Submitted
<1> QED BY <1>5, <1>6, <1>7, <1>8, <1>11, <1>12, <1>13, <1>14 DEF IInv

LEMMA FinishKeeps ==
  ASSUME IInv, NEW s \in Session, NEW t \in since[s]..now, Finish(s, t) PROVE IInv'
<1> USE NumbersOfState DEF Go, world
<1>1. /\ pc[s] = "finish" /\ holder = s /\ attempts[s].state = "submitted" /\ since[s] <= now
      /\ proof[s] \in Reading /\ proof[s].at <= since[s]
      /\ Day(proof[s].at) \in signedDays /\ proof[s].at \in Time
  BY DEF Finish, IInv, SessionOrder, SignedIsTrue, Live, Reading
<1>2. \A o \in Session : o # s => pc[o] \notin Live
  BY <1>1, OneLive DEF Live
<1>3. /\ UNCHANGED <<now, readbacks, observed, proof, signedDays, landed>>
      /\ since' = [since EXCEPT ![s] = now] /\ pc' = [pc EXCEPT ![s] = "done"] /\ holder' = NoSession
      /\ report' \in {report, [kind |-> "success", at |-> proof[s].at], [kind |-> "unknown", at |-> now]}
      /\ \/ attempts' = attempts
         \/ /\ attempts' = [attempts EXCEPT ![s].state = "confirmed", ![s].seen = proof[s].at]
            /\ Day(proof[s].at) = Day(attempts[s].at) /\ attempts[s].at <= proof[s].at
  BY <1>1 DEF Finish, End
<1>4. /\ attempts' \in [Session -> Attempt]
      /\ \A o \in Session : o # s => attempts'[o] = attempts[o]
      /\ attempts'[s].at = attempts[s].at
      /\ \/ attempts'[s] = attempts[s]
         \/ /\ attempts'[s].state = "confirmed" /\ attempts'[s].seen = proof[s].at
            /\ Day(proof[s].at) = Day(attempts[s].at) /\ attempts[s].at <= proof[s].at
  <2>1. attempts[s] \in Attempt /\ attempts \in [Session -> Attempt]
    BY DEF IInv, TypeOK
  <2>2. [attempts[s] EXCEPT !.state = "confirmed", !.seen = proof[s].at] \in Attempt
    BY <1>1, <2>1 DEF Attempt
  <2>3. CASE attempts' = attempts
    BY <2>1, <2>3
  <2>4. CASE attempts' # attempts
    <3>1. attempts' = [attempts EXCEPT ![s] = [attempts[s] EXCEPT !.state = "confirmed", !.seen = proof[s].at]]
          /\ Day(proof[s].at) = Day(attempts[s].at) /\ attempts[s].at <= proof[s].at
      BY <1>3, <2>1, <2>4
    <3>2. attempts'[s] = [attempts[s] EXCEPT !.state = "confirmed", !.seen = proof[s].at]
      BY <2>1, <3>1
    <3> QED BY <2>1, <2>2, <3>1, <3>2 DEF Attempt
  <2> QED BY <2>3, <2>4
<1>5. /\ Reads' = Reads
      /\ \A m : IsReceipt(m)' => IsReceipt(m) \/ m = proof[s].at
  <2>1. Reads' = Reads
    BY <1>3 DEF Reads
  <2>2. \A o \in Session : attempts'[o].state = "confirmed" =>
          attempts'[o] = attempts[o] \/ attempts'[o].seen = proof[s].at
    BY <1>4
  <2> QED BY <2>1, <2>2 DEF IsReceipt
<1>6. TypeOK'
  <2>1. now \in Time
    BY DEF IInv, TypeOK
  <2>2. report' \in Report
    BY <1>1, <1>3, <2>1 DEF IInv, TypeOK, Report
  <2> QED BY <1>3, <1>4, <2>2 DEF IInv, TypeOK, Steps
<1>7. SessionOrder'
  BY <1>1, <1>2, <1>3, <1>4 DEF IInv, TypeOK, SessionOrder, Live
<1>8. ReadingsArePast'
  <2>1. proof[s].at <= now
    BY <1>1 DEF IInv
  <2> QED BY <1>2, <1>3, <1>4, <1>5, <2>1 DEF IInv, TypeOK, ReadingsArePast, Live
<1>9. SignedIsTrue'
  BY <1>1, <1>3, <1>4, <1>5 DEF IInv, TypeOK, SignedIsTrue
<1>10. LandedOrder'
  <2>1. \A d \in Days : \A o \in landed[d] : d <= Day(proof[s].at)
    BY <1>1 DEF IInv, LiveIsNewer, SomeLanded
  <2>2. \A d \in Days : \A o \in landed[d] : o \in Session
    BY DEF IInv, TypeOK
  <2>3. \A d \in Days : s \in landed[d] => Day(proof[s].at) = d
    BY <1>1 DEF IInv, LandedOrder
  <2> QED BY <1>1, <1>3, <1>4, <1>5, <2>1, <2>2, <2>3 DEF IInv, TypeOK, LandedOrder
<1>11. LiveIsNewer'
  BY <1>2, <1>3 DEF IInv, TypeOK, LiveIsNewer, SomeLanded, Live
<1>12. NoReplay' /\ OneOpenIntentPerDay'
  BY <1>3, <1>4 DEF IInv, NoReplay, OneOpenIntentPerDay, Submitted
<1> QED BY <1>6, <1>7, <1>8, <1>9, <1>10, <1>11, <1>12 DEF IInv

LEMMA ObserveKeeps == ASSUME IInv, Observe PROVE IInv'
<1> USE NumbersOfState, NowReadingIsTrue DEF world
<1>1. /\ UNCHANGED <<now, attempts, readbacks, report, holder, pc, since, proof, signedDays, landed>>
      /\ observed' = [observed EXCEPT ![Day(now)] = NowReading]
  BY DEF Observe, journal, NowReading
<1>2. \A o \in Session : pc[o] \notin Live
  BY NativePtGateAssumption DEF Observe, IInv, SessionOrder
<1>3. TypeOK'
  BY <1>1 DEF IInv, TypeOK
<1>4. \A d \in Days : observed'[d] \in {observed[d], NowReading}
                      /\ (d # Day(now) => observed'[d] = observed[d])
  BY <1>1 DEF IInv, TypeOK
<1>5. /\ \A r \in Reads' : r \in Reads \/ r = NowReading
      /\ \A m : IsReceipt(m)' => IsReceipt(m) \/ (NowReading.signed /\ m = now)
  <2>1. \A r \in Reads' : r \in Reads \/ r = NowReading
    BY <1>1, <1>4 DEF Reads
  <2>2. NowReading.at = now
    BY DEF IInv
  <2> QED BY <1>1, <2>1, <2>2 DEF IsReceipt
<1>6. SessionOrder'
  BY <1>1 DEF IInv, SessionOrder
<1>7. ReadingsArePast'
  <2>1. now <= now
    BY DEF IInv
  <2> QED BY <1>1, <1>2, <1>5, <2>1 DEF IInv, ReadingsArePast
<1>8. SignedIsTrue'
  <2>1. observed'[Day(now)] = NowReading
    BY <1>1 DEF IInv, TypeOK
  <2>2. \A d \in Days : observed'[d] # NoReading => Day(observed'[d].at) = d
    BY <1>4, <2>1 DEF IInv, SignedIsTrue
  <2> QED BY <1>1, <1>2, <1>5, <2>2 DEF IInv, SignedIsTrue, Live
<1>9. LandedOrder'
  <2>1. \A d \in Days : \A o \in landed[d] :
          /\ d <= Day(now)
          /\ NowReading.signed \/ d < Day(now)
    BY DEF IInv, LandedOrder
  <2> QED BY <1>1, <1>5, <2>1 DEF IInv, LandedOrder
<1>10. LiveIsNewer' /\ NoReplay' /\ OneOpenIntentPerDay'
  BY <1>1 DEF IInv, LiveIsNewer, SomeLanded, NoReplay, OneOpenIntentPerDay, Submitted
<1> QED BY <1>3, <1>6, <1>7, <1>8, <1>9, <1>10 DEF IInv

LEMMA UserSignsKeeps == ASSUME IInv, UserSigns PROVE IInv'
<1>1. Reads' = Reads /\ \A m : IsReceipt(m)' <=> IsReceipt(m)
  BY QuietReceipts DEF UserSigns
<1>2. signedDays \subseteq signedDays' /\ signedDays' \in SUBSET Days
  BY NumbersOfState DEF UserSigns, IInv, TypeOK
<1>3. UNCHANGED <<now, attempts, readbacks, observed, report, holder, pc, since, proof, landed>>
  BY DEF UserSigns, journal
<1> QED
  BY <1>1, <1>2, <1>3 DEF IInv, TypeOK, SessionOrder, ReadingsArePast, SignedIsTrue, LandedOrder,
     LiveIsNewer, SomeLanded, NoReplay, OneOpenIntentPerDay, Submitted

LEMMA TickKeeps == ASSUME IInv, Tick PROVE IInv'
<1>1. Reads' = Reads /\ \A m : IsReceipt(m)' <=> IsReceipt(m)
  BY QuietReceipts DEF Tick
<1>2. UNCHANGED <<attempts, readbacks, observed, report, holder, pc, since, proof, signedDays, landed>>
  BY DEF Tick, journal, world
<1>3. now' \in Time /\ now' \in Nat /\ now <= now' /\ Day(now) <= Day(now') /\ Day(now') \in Nat
  <2>1. now' \in Time /\ now \in Nat /\ now' = now + 1
    BY NativePtGateAssumption DEF Tick, IInv, TypeOK, Time
  <2> QED BY <2>1, DayMonotone
<1>4. TypeOK' /\ SignedIsTrue' /\ LiveIsNewer' /\ NoReplay' /\ OneOpenIntentPerDay'
  BY <1>1, <1>2, <1>3 DEF IInv, TypeOK, SignedIsTrue, LiveIsNewer, SomeLanded, NoReplay,
     OneOpenIntentPerDay, Submitted
<1>5. SessionOrder' /\ ReadingsArePast'
  BY <1>1, <1>2, <1>3, NumbersOfState, TimeInNat DEF IInv, SessionOrder, ReadingsArePast
<1>6. LandedOrder'
  BY <1>1, <1>2, <1>3, NumbersOfState DEF IInv, LandedOrder
<1> QED BY <1>4, <1>5, <1>6 DEF IInv

LEMMA NativeStep == IInv /\ [Next]_vars => IInv'
<1> SUFFICES ASSUME IInv, [Next]_vars PROVE IInv'
  OBVIOUS
<1>1. CASE UNCHANGED vars
  <2>1. Reads' = Reads /\ \A m : IsReceipt(m)' <=> IsReceipt(m)
    BY <1>1, QuietReceipts DEF vars, journal
  <2> QED
    BY <1>1, <2>1 DEF vars, IInv, TypeOK, SessionOrder, ReadingsArePast, SignedIsTrue, LandedOrder,
       LiveIsNewer, SomeLanded, NoReplay, OneOpenIntentPerDay, Submitted
<1>2. ASSUME NEW s \in Session, Start(s) \/ ReadSite(s) \/ Write(s) \/ Crash(s) PROVE IInv'
  BY <1>2, StartKeeps, ReadSiteKeeps, WriteKeeps, CrashKeeps
<1>3. ASSUME NEW s \in Session, NEW t \in since[s]..now,
             Readback(s, t) \/ Inspect(s, t) \/ Finish(s, t) \/ \E action \in Action : Begin(s, t, action)
      PROVE  IInv'
  BY <1>3, ReadbackKeeps, InspectKeeps, FinishKeeps, BeginKeeps
<1>4. CASE Observe \/ UserSigns \/ Tick
  BY <1>4, ObserveKeeps, UserSignsKeeps, TickKeeps
<1> QED BY <1>1, <1>2, <1>3, <1>4 DEF Next

LEMMA NativeInvariant == Spec => []IInv
  BY NativeInit, NativeStep, PTL DEF Spec

-----------------------------------------------------------------------------

\* "Uncertain submissions are never blindly replayed": whatever crashed or got
\* lost, the site accepts the requests of one session a day at most.
THEOREM AcceptedIsNotReplayed == Spec => []NoReplay
<1>1. IInv => NoReplay
  BY DEF IInv
<1> QED BY <1>1, NativeInvariant, PTL

\* A second intent is only written together with the resolution of the first.
THEOREM OneIntentADay == Spec => []OneOpenIntentPerDay
<1>1. IInv => OneOpenIntentPerDay
  BY DEF IInv
<1> QED BY <1>1, NativeInvariant, PTL

\* No intent is closed by a reading of another day, or by one that is not true.
THEOREM ConfirmationIsTrue == Spec => []ConfirmedIsTrue
<1>1. IInv => ConfirmedIsTrue
  BY DEF IInv, SignedIsTrue, ConfirmedIsTrue
<1> QED BY <1>1, NativeInvariant, PTL

\* The journal knows every request the site accepted.
THEOREM AcceptedIsJournalled == Spec => []LandedIsJournalled
<1>1. IInv => LandedIsJournalled
  BY DEF IInv, LandedOrder, LandedIsJournalled
<1> QED BY <1>1, NativeInvariant, PTL

-----------------------------------------------------------------------------
(* The visit and the quarantine: the results a candidate may end with.     *)
Statuses ==
  {"none", "signed", "not_available", "needs_attention", "login_required", "challenge",
   "managed_challenge", "deferred", "unconfirmed", "visited", "error", "no_action"}

\* The results processTarget and its candidates may have.
Result ==
  {r \in [status : Statuses, submitted : {"unset", "no", "yes"},
          why : {"", "unknown", "captcha_rejected", "upstream", "review"}] :
     /\ r.status = "signed" => r.submitted # "no" /\ r.why = ""
     /\ r.why \in {"unknown", "captcha_rejected"} =>
          r.status = "needs_attention" /\ r.submitted = "yes"}

\* What a candidate may end with on a target with (g) or without a guard.
MayEndWith(g, r) ==
  /\ r \in Result
  /\ r.status = "signed" => r = Signed
  /\ g => r.status # "not_available"

Told == {Send, Skip, Again}
Gateway == {"newApi", "apiCaptcha"}
Senders ==
  {"attend", "newApi", "signIn", "apiCaptcha", "anyRouter", "oauthApi", "qa", "nexus", "u2",
   "openCd", "control", "quota"}

LEMMA NamedResults ==
  /\ Signed \in Result /\ Signed.status = "signed" /\ Signed.submitted = "unset" /\ Signed.why = ""
  /\ Unknown \in Result /\ Unknown.status = "needs_attention" /\ Unknown.submitted = "yes"
  /\ Unknown.why = "unknown"
  /\ CaptchaRejected \in Result /\ CaptchaRejected.status = "needs_attention"
  /\ CaptchaRejected.submitted = "yes" /\ CaptchaRejected.why = "captcha_rejected"
  /\ Nothing \in Result /\ Nothing.status = "none"
  /\ Send.status = "go" /\ Skip.status = "skip" /\ Again.status = "again"
BY DEF Signed, Unknown, CaptchaRejected, Nothing, Send, Skip, Again, R, Result, Statuses

\* R(x, y), with or without an upstream, may end a candidate unless x says that
\* the day is signed or that there is no check-in.
LEMMA PlainResults ==
  ASSUME NEW x \in Statuses \ {"signed"}, NEW y \in {"unset", "no", "yes"}, NEW g \in BOOLEAN,
         g => x # "not_available"
  PROVE  /\ MayEndWith(g, R(x, y)) /\ R(x, y) \notin Told
         /\ MayEndWith(g, Upstream(y)) /\ Upstream(y) \notin Told
         /\ MayEndWith(g, Review) /\ Review \notin Told
         /\ MayEndWith(g, Signed) /\ Signed \notin Told
         /\ MayEndWith(g, Unknown) /\ Unknown \notin Told
         /\ MayEndWith(g, CaptchaRejected) /\ CaptchaRejected \notin Told
BY DEF R, Upstream, Review, Signed, Unknown, CaptchaRejected, MayEndWith, Result, Statuses,
       Told, Send, Skip, Again

LEMMA LookIsTyped ==
  ASSUME NEW st \in Adapters, NEW s \in BOOLEAN, NEW a \in BOOLEAN, NEW g \in BOOLEAN,
         g => st \notin Gateway, NEW o \in Look(st, s, a)
  PROVE  /\ o \in Told \/ MayEndWith(g, o)
         /\ o = Signed => s
         /\ o = Send => st \in Senders
<1> DEFINE Fits(r) == (r \in Told \/ MayEndWith(g, r)) /\ (r = Signed => s) /\ (r = Send => st \in Senders)
<1> SUFFICES Fits(o)
  OBVIOUS
<1>1. \A x \in Statuses \ {"signed"}, y \in {"unset", "no", "yes"} :
         (g => x # "not_available") => MayEndWith(g, R(x, y)) /\ R(x, y) # Signed /\ R(x, y) # Send
  BY PlainResults DEF R, Signed, Send, Statuses
<1>2. \A y \in {"unset", "no", "yes"} :
         MayEndWith(g, Upstream(y)) /\ Upstream(y) # Signed /\ Upstream(y) # Send
  <2> TAKE y \in {"unset", "no", "yes"}
  <2>1. "error" \in Statuses \ {"signed"}
    BY DEF Statuses
  <2>2. MayEndWith(g, Upstream(y))
    BY <2>1, PlainResults
  <2>3. Upstream(y) # Signed /\ Upstream(y) # Send
    BY DEF R, Signed, Send, Upstream
  <2> QED
    BY <2>2, <2>3
<1>3. /\ MayEndWith(g, Review) /\ Review # Signed /\ Review # Send
      /\ MayEndWith(g, Unknown) /\ Unknown # Signed /\ Unknown # Send
      /\ MayEndWith(g, Signed) /\ Signed # Send
  <2>1. "error" \in Statuses \ {"signed"}
    BY DEF Statuses
  <2>2. MayEndWith(g, Review) /\ MayEndWith(g, Unknown) /\ MayEndWith(g, Signed)
    BY <2>1, PlainResults
  <2>3. Review # Signed /\ Review # Send /\ Unknown # Signed /\ Unknown # Send /\ Signed # Send
    BY DEF R, Signed, Send, Review, Unknown
  <2> QED
    BY <2>2, <2>3
<1>4. Skip \in Told /\ Again \in Told /\ Send \in Told /\ Skip # Signed /\ Skip # Send
      /\ Again # Signed /\ Again # Send
  BY DEF Told, R, Signed, Send, Skip, Again
<1>5. NotAvailable = R("not_available", "unset")
  BY DEF NotAvailable
<1> DEFINE Plain == {R(x, y) : x \in Statuses \ {"signed", "not_available"}, y \in {"unset", "no", "yes"}}
                    \cup {Upstream(y) : y \in {"unset", "no", "yes"}} \cup {Review, Unknown, Skip, Again}
<1>6. \A r \in Plain : Fits(r)
  BY <1>1, <1>2, <1>3, <1>4
<1>7. \A r \in Known(s) : Fits(r)
  BY <1>3, <1>4 DEF Known
<1>8. st \in Senders => Fits(Send)
  BY <1>3, <1>4
<1>9. ~g => Fits(NotAvailable)
  BY <1>1, <1>5 DEF Statuses
<1>10. st \in Gateway => Look(st, s, a) \subseteq Plain \cup Known(s) \cup {Send, NotAvailable}
  BY DEF Gateway, Look, NewApiLook, ApiCaptchaLook, ElseGo, Statuses
<1>11. st \notin Gateway /\ st \in Senders => Look(st, s, a) \subseteq Plain \cup Known(s) \cup {Send}
  BY DEF Senders, Gateway, Look, AttendLook, SignInLook, AnyRouterLook, OAuthApiLook, QaLook,
         NexusLook, U2Look, OpenCdLook, ControlLook, QuotaLook, ElseGo, Statuses
<1>12. st \notin Senders => Look(st, s, a) \subseteq Plain \cup Known(s)
  BY DEF Adapters, Senders, Gateway, Look, OpenLook, PassiveLook, PageLook, ReloginLook, OpenerLook,
         WaitLook, Known, Statuses
<1>13. st \in Gateway => st \in Senders
  BY DEF Gateway, Senders
<1> QED
  BY <1>6, <1>7, <1>8, <1>9, <1>10, <1>11, <1>12, <1>13

LEMMA AnswersAreTyped ==
  ASSUME NEW st \in Senders, NEW a \in Answers, NEW s \in BOOLEAN, NEW g \in BOOLEAN,
         g => st \notin Gateway, a \in Explicit => s, NEW o \in Afterwards(st, a, s)
  PROVE  /\ o \in {Skip, Again} \/ MayEndWith(g, o)
         /\ o = Signed => s
<1> DEFINE Fits(r) == (r \in {Skip, Again} \/ MayEndWith(g, r)) /\ (r = Signed => s)
<1> SUFFICES Fits(o)
  OBVIOUS
<1> DEFINE Plain == {R(x, y) : x \in Statuses \ {"signed", "not_available"}, y \in {"unset", "no", "yes"}}
                    \cup {Upstream(y) : y \in {"unset", "no", "yes"}} \cup {Review, Unknown, Skip, Again}
<1>1. \A x \in Statuses \ {"signed"}, y \in {"unset", "no", "yes"} :
         (g => x # "not_available") => MayEndWith(g, R(x, y)) /\ R(x, y) # Signed
  BY PlainResults DEF R, Signed, Statuses
<1>2. /\ \A y \in {"unset", "no", "yes"} : MayEndWith(g, Upstream(y)) /\ Upstream(y) # Signed
      /\ MayEndWith(g, Review) /\ MayEndWith(g, Unknown) /\ MayEndWith(g, Signed)
      /\ Review # Signed /\ Unknown # Signed /\ Skip # Signed /\ Again # Signed
  <2>1. "error" \in Statuses \ {"signed"}
    BY DEF Statuses
  <2>2. /\ \A y \in {"unset", "no", "yes"} : MayEndWith(g, Upstream(y))
        /\ MayEndWith(g, Review) /\ MayEndWith(g, Unknown) /\ MayEndWith(g, Signed)
    BY <2>1, PlainResults
  <2>3. /\ \A y \in {"unset", "no", "yes"} : Upstream(y) # Signed
        /\ Review # Signed /\ Unknown # Signed /\ Skip # Signed /\ Again # Signed
    BY DEF R, Signed, Review, Unknown, Upstream, Skip, Again
  <2> QED
    BY <2>2, <2>3
<1>3. \A r \in Plain : Fits(r)
  BY <1>1, <1>2
<1>4. \A r \in Known(s) : Fits(r)
  BY <1>2 DEF Known
<1>5. NotAvailable = R("not_available", "unset")
  BY DEF NotAvailable
<1>6. ~g => Fits(NotAvailable)
  BY <1>1, <1>5 DEF Statuses
<1>7. s => Fits(Signed)
  BY <1>2
<1>8. st = "newApi" => Afterwards(st, a, s) \subseteq Plain \cup (IF s THEN {Signed} ELSE {}) \cup {NotAvailable}
  BY DEF Afterwards, NewApiAfter, Answers, Explicit, Statuses
<1>9. st # "newApi" => Afterwards(st, a, s) \subseteq Plain \cup (IF s THEN {Signed} ELSE {})
  <2>1. CASE st \in {"attend", "signIn", "apiCaptcha", "anyRouter", "oauthApi"}
    BY <2>1 DEF Afterwards, AttendAfter, SignInAfter, ApiCaptchaAfter, AnyRouterAfter, OAuthApiAfter,
       Answers, Explicit, Statuses, Known
  <2>2. CASE st \in {"qa", "nexus", "u2", "openCd", "control", "quota"}
    BY <2>2 DEF Afterwards, QaAfter, NexusAfter, U2After, OpenCdAfter, ControlAfter, QuotaAfter,
       Answers, Explicit, Statuses, Known
  <2> QED
    BY <2>1, <2>2 DEF Senders
<1> QED
  BY <1>3, <1>6, <1>7, <1>8, <1>9 DEF Gateway

LEMMA SpentIsTyped ==
  ASSUME NEW st \in Adapters, NEW b \in BOOLEAN, NEW g \in BOOLEAN
  PROVE  MayEndWith(g, Spent(st, b)) /\ Spent(st, b) # Signed
<1>1. "error" \in Statuses \ {"signed"} /\ "needs_attention" \in Statuses \ {"signed"}
      /\ "challenge" \in Statuses \ {"signed"}
  BY DEF Statuses
<1>2. MayEndWith(g, CaptchaRejected) /\ MayEndWith(g, R("needs_attention", "unset"))
      /\ MayEndWith(g, R("challenge", "unset"))
  BY <1>1, PlainResults
<1>3. CaptchaRejected # Signed /\ R("needs_attention", "unset") # Signed /\ R("challenge", "unset") # Signed
  BY DEF CaptchaRejected, Signed, R
<1> QED
  BY <1>2, <1>3 DEF Spent, NexusSpent, ApiCaptchaSpent

LEMMA FailureIsTyped ==
  ASSUME site \in BOOLEAN, clicked \in BOOLEAN, NEW g \in BOOLEAN, NEW r \in PageFailure
  PROVE  MayEndWith(g, r) /\ (r = Signed => site)
<1>1. {"error", "challenge", "managed_challenge", "login_required"} \subseteq Statuses \ {"signed"}
  BY DEF Statuses
<1>2. /\ MayEndWith(g, Unknown) /\ MayEndWith(g, Review) /\ MayEndWith(g, Signed)
      /\ MayEndWith(g, Upstream("unset")) /\ MayEndWith(g, R("login_required", "no"))
      /\ \A x \in {"challenge", "managed_challenge", "error"} : MayEndWith(g, R(x, "unset"))
  BY <1>1, PlainResults
<1>3. /\ Unknown # Signed /\ Review # Signed /\ Upstream("unset") # Signed
      /\ R("login_required", "no") # Signed
      /\ \A x \in {"challenge", "managed_challenge", "error"} : R(x, "unset") # Signed
  BY DEF Unknown, Review, Upstream, R, Signed
<1> QED
  BY <1>2, <1>3 DEF PageFailure, Known

\* Of two results, the better one; a signed day is the best there is, and what
\* needs attention outweighs all but a finished result.
LEMMA PreferredResult ==
  ASSUME NEW c \in Result, NEW n \in Result
  PROVE  /\ Prefer(c, n) \in {c, n}
         /\ n.status = "signed" => Prefer(c, n).status = "signed"
         /\ c.status = "signed" => Prefer(c, n) = c
         /\ c.status = "needs_attention" /\ n.status \notin {"signed", "not_available"} =>
              Prefer(c, n) = c
         /\ n.status = "needs_attention" /\ c.status \notin {"signed", "not_available"} =>
              Prefer(c, n).status = "needs_attention"
<1>1. /\ Priority["signed"] = 100 /\ Priority["needs_attention"] = 90
      /\ \A x \in Statuses : Priority[x] \in Nat
      /\ \A x \in Statuses \ {"signed"} : Priority[x] < 100
      /\ \A x \in Statuses \ {"signed", "not_available", "needs_attention"} : Priority[x] < 90
  BY DEF Priority, Statuses
<1>2. c.status \in Statuses /\ n.status \in Statuses
  BY DEF Result
<1> QED
  BY <1>1, <1>2 DEF Prefer

-----------------------------------------------------------------------------
(* The inductive invariant of the visit and the quarantine.                *)
OnSite == {"goto", "look", "answer", "settle", "report"}
Done == {"settle", "report", "over", "saving"}

\* Types; an answer is awaited from an adapter that submits, on behalf of the guard.
VisitTyped ==
  /\ target \in Targets
  /\ site \in BOOLEAN /\ told \in BOOLEAN /\ shotFailed \in BOOLEAN
  /\ attempted \in BOOLEAN /\ acted \in BOOLEAN /\ clicked \in BOOLEAN
  /\ flying \in Nat /\ doubt \in Nat
  /\ where \in OnSite \cup Done \cup {"idle", "guard"}
  /\ cand \in 1..Len(target.candidates)
  /\ stage \in 1..Len(target.candidates[cand])
  /\ best \in Result /\ prior \in Result
  /\ pending \in [day : {"none", "yesterday", "today"}, bound : BOOLEAN]
  /\ pending.day = "none" => pending = NoPending
  /\ receipt \in {"none", "signed", "unsigned", "old"} /\ runs \in 0..MaxRuns
  /\ older \in BOOLEAN /\ resolved \in BOOLEAN /\ claim \in BOOLEAN /\ recovered \in BOOLEAN
  /\ risk \in BOOLEAN /\ licence \in BOOLEAN /\ lost \in BOOLEAN
  /\ where = "answer" => /\ doubt > 0
                         /\ target.guarded => attempted
                         /\ target.candidates[cand][stage] \in Senders

\* Only OpenCD waits between runs, and a run comes to its guard with nothing known.
Outset ==
  /\ where \in {"idle", "guard", "saving"} => target.quarantined
  /\ where \in {"idle", "guard"} => ~told /\ ~shotFailed /\ ~risk /\ ~recovered

\* The result is a check-in if and only if the engine has read one; nothing of
\* this run's is in doubt then.
SignedIsTold ==
  /\ told => site /\ best.status = "signed" /\ (shotFailed \/ where \in Done)
  /\ ~told /\ target.guarded => best.status \notin {"signed", "not_available"}
  /\ told /\ doubt > 0 => risk \/ lost

\* What this run left in doubt is in the guard's flag until the candidate ends,
\* and in the result from then on.
DoubtStops ==
  target.guarded /\ risk /\ doubt > 0 /\ ~told =>
    \/ where \in {"look", "answer"} /\ attempted
    \/ best.status = "needs_attention" /\ (shotFailed \/ where \in Done)

\* What a later run can tell the doubt from.
OnRecord ==
  \/ pending.day = "today"
  \/ claim
  \/ older
  \/ Uncertain(prior) /\ pending = NoPending

\* A doubt of an earlier run is on record unless it was licensed, resolved or lost.
DoubtOnRecord ==
  doubt > 0 /\ ~risk =>
     /\ target.quarantined
     /\ licence \/ resolved \/ lost \/ OnRecord

\* Why a run is on the site of a submission an earlier run left in doubt.
OpenedForAReason ==
  where \in OnSite /\ doubt > 0 /\ ~risk =>
    licence \/ resolved \/ lost \/ prior.status = "signed"

\* A signed receipt is true; an unsigned one is newer than the submissions.
ReceiptsHold ==
  /\ receipt = "signed" => site
  /\ receipt = "unsigned" => licence \/ risk \/ lost
  /\ prior.status = "signed" => site /\ receipt # "unsigned"

\* Yesterday's pending entry lets a run onto the site under a claim only.
OldPending ==
  pending.day = "yesterday" =>
    /\ where \in OnSite \/ risk => claim
    /\ prior.status = "signed" \/ best.status = "signed" => claim \/ receipt = "signed"

\* A visit under a claim.
RecoveryHolds ==
  recovered =>
    /\ prior.status = "signed" => where = "saving" /\ best.status = "signed"
    /\ doubt > 0 => licence \/ risk \/ lost \/ (where = "saving" /\ Uncertain(best))

\* The uncertain report is replaced by an uncertain one only.
ReportHolds ==
  /\ where \in OnSite \cup {"over"} /\ Uncertain(prior) /\ pending = NoPending /\ doubt > 0 =>
       claim \/ resolved \/ lost \/ risk \/ (where = "over" /\ Uncertain(best))
  /\ where = "saving" /\ risk /\ doubt > 0 => lost \/ Uncertain(best)

VInv ==
  /\ VisitTyped /\ Outset /\ SignedIsTold /\ DoubtStops /\ DoubtOnRecord /\ OpenedForAReason
  /\ ReceiptsHold /\ OldPending /\ RecoveryHolds /\ ReportHolds

LEMMA TargetFacts ==
  ASSUME NEW t \in Targets
  PROVE  /\ t.guarded \in BOOLEAN /\ t.quarantined \in BOOLEAN
         /\ t.quarantined => t.guarded
         /\ Len(t.candidates) \in Nat /\ Len(t.candidates) >= 1
         /\ \A c \in 1..Len(t.candidates) :
              /\ Len(t.candidates[c]) \in Nat /\ Len(t.candidates[c]) >= 1
              /\ \A i \in 1..Len(t.candidates[c]) :
                   /\ t.candidates[c][i] \in Adapters
                   /\ t.guarded => t.candidates[c][i] \notin Gateway
<1>1. /\ {t.guarded, t.quarantined} \subseteq BOOLEAN
      /\ t.quarantined => t.guarded
      /\ t.candidates \in Seq(Seq(Adapters)) /\ t.candidates # <<>>
      /\ \A c \in 1..Len(t.candidates) :
            /\ t.candidates[c] # <<>>
            /\ t.guarded => \A i \in 1..Len(t.candidates[c]) :
                              t.candidates[c][i] \notin {"newApi", "apiCaptcha"}
  BY TargetAssumption
<1>2. Len(t.candidates) \in Nat /\ Len(t.candidates) >= 1
  BY <1>1
<1>3. ASSUME NEW c \in 1..Len(t.candidates)
      PROVE  /\ Len(t.candidates[c]) \in Nat /\ Len(t.candidates[c]) >= 1
             /\ \A i \in 1..Len(t.candidates[c]) :
                  /\ t.candidates[c][i] \in Adapters
                  /\ t.guarded => t.candidates[c][i] \notin Gateway
  <2>1. t.candidates[c] \in Seq(Adapters) /\ t.candidates[c] # <<>>
    BY <1>1
  <2>2. Len(t.candidates[c]) \in Nat /\ Len(t.candidates[c]) >= 1
    BY <2>1
  <2>3. \A i \in 1..Len(t.candidates[c]) : t.candidates[c][i] \in Adapters
    BY <2>1
  <2> QED
    BY <1>1, <2>2, <2>3 DEF Gateway
<1> QED
  BY <1>1, <1>2, <1>3

\* A step of the visit that sends nothing: the records stay, and the site may
\* have recorded the day meanwhile.
LEMMA QuietStepKeeps ==
  ASSUME VInv, UNCHANGED <<record, prior, receipt, recovered, runs, past>>, target' = target,
         site => site', doubt' <= doubt, where \in OnSite, where' \in OnSite \cup {"over"},
         VisitTyped', SignedIsTold', DoubtStops'
  PROVE  VInv'
<1> USE DEF record, past
<1>1. Outset'
  BY DEF VInv, Outset, OnSite
<1>2. DoubtOnRecord'
  BY DEF VInv, DoubtOnRecord, OnRecord, VisitTyped, Uncertain
<1>3. OpenedForAReason'
  BY DEF VInv, OpenedForAReason, VisitTyped
<1>4. ReceiptsHold'
  BY DEF VInv, ReceiptsHold
<1>5. OldPending'
  BY DEF VInv, OldPending
<1>6. RecoveryHolds'
  BY DEF VInv, RecoveryHolds, VisitTyped, OnSite, Uncertain
<1>7. ReportHolds'
  BY DEF VInv, ReportHolds, VisitTyped, OnSite, Uncertain
<1> QED
  BY <1>1, <1>2, <1>3, <1>4, <1>5, <1>6, <1>7 DEF VInv

LEMMA CloseKeeps ==
  ASSUME VInv, UNCHANGED <<record, prior, receipt, recovered, runs, past>>,
         where \in {"look", "answer"}, NEW r, MayEndWith(target.guarded, r), r = Signed => site',
         NEW left \in Nat, left <= doubt, Close(r, left),
         site' \in BOOLEAN, site => site', flying' \in Nat
  PROVE  VInv'
<1> DEFINE g == Guarded(r)
           new == Prefer(best, g)
<1>1. /\ UNCHANGED <<target, sent, round, fresh, attempt, attempted, acted, posted, clicked, shotFailed>>
      /\ best' = new /\ told' = (told \/ r = Signed)
      /\ doubt' = IF r = Signed THEN 0 ELSE left
      /\ \/ (Stops(g) \/ cand = Len(target.candidates)) /\ where' = "settle" /\ cand' = cand /\ stage' = stage
         \/ ~Stops(g) /\ cand # Len(target.candidates) /\ where' = "goto" /\ cand' = cand + 1 /\ stage' = 1
  BY DEF Close, page, place
<1>2. target \in Targets /\ cand \in 1..Len(target.candidates) /\ best \in Result /\ doubt \in Nat
      /\ attempted \in BOOLEAN /\ told \in BOOLEAN /\ shotFailed \in BOOLEAN
  BY DEF VInv, VisitTyped
<1>3. r \in Result /\ (r.status = "signed" => r = Signed) /\ (target.guarded => r.status # "not_available")
  BY DEF MayEndWith
<1>4. /\ g \in Result
      /\ r = Signed => g.status = "signed"
      /\ r # Signed => g.status # "signed"
      /\ target.guarded => g.status # "not_available"
      /\ attempted /\ r # Signed => g.status = "needs_attention" /\ g.submitted = "yes"
  <2>1. CASE ~attempted
    BY <1>3, <2>1, NamedResults DEF Guarded
  <2>2. CASE attempted /\ r.status = "signed"
    <3>1. g = [r EXCEPT !.submitted = "yes"]
      BY <2>2 DEF Guarded
    <3> QED
      BY <1>3, <2>2, <3>1, NamedResults DEF Result, Statuses
  <2>3. CASE attempted /\ r.status # "signed"
    <3>1. g = IF r.why = "captcha_rejected" THEN r ELSE Unknown
      BY <2>3 DEF Guarded
    <3> QED
      BY <1>3, <2>3, <3>1, NamedResults DEF Result
  <2> QED
    BY <1>2, <2>1, <2>2, <2>3
<1>5. Stops(g) <=> (g.status \in {"signed", "not_available"} \/ g.submitted = "yes" \/ g.why = "review")
  BY DEF Stops, Terminal
<1> HIDE DEF g
<1>6. /\ new \in Result /\ new \in {best, g}
      /\ g.status = "signed" => new.status = "signed"
      /\ best.status = "signed" => new = best
      /\ best.status = "needs_attention" /\ g.status \notin {"signed", "not_available"} => new = best
      /\ g.status = "needs_attention" /\ best.status \notin {"signed", "not_available"} =>
           new.status = "needs_attention"
  BY <1>2, <1>4, PreferredResult
<1> HIDE DEF new
<1>7. doubt' \in Nat /\ doubt' <= doubt /\ told' \in BOOLEAN
  BY <1>1, <1>2
<1>8. VisitTyped'
  <2>1. cand' \in 1..Len(target'.candidates) /\ stage' \in 1..Len(target'.candidates[cand'])
    <3>1. CASE cand' = cand /\ stage' = stage
      BY <1>1, <3>1 DEF VInv, VisitTyped
    <3>2. CASE cand # Len(target.candidates) /\ cand' = cand + 1 /\ stage' = 1
      <4>1. cand' \in 1..Len(target.candidates)
        BY <1>2, <3>2, TargetFacts
      <4>2. Len(target.candidates[cand']) \in Nat /\ Len(target.candidates[cand']) >= 1
        BY <1>2, <4>1, TargetFacts
      <4> QED
        BY <1>1, <3>2, <4>1, <4>2
    <3> QED
      BY <1>1, <3>1, <3>2
  <2> QED
    BY <1>1, <1>2, <1>6, <1>7, <2>1 DEF VInv, VisitTyped, record, past, OnSite, Done
<1>9. SignedIsTold'
  BY <1>1, <1>2, <1>3, <1>4, <1>5, <1>6 DEF VInv, SignedIsTold, Done, past
<1>10. DoubtStops'
  <2> SUFFICES ASSUME target.guarded, risk, doubt' > 0, ~told'
               PROVE  best'.status = "needs_attention" /\ (shotFailed' \/ where' \in Done)
    BY <1>1 DEF DoubtStops, past
  <2>1. ~told /\ r # Signed /\ doubt > 0
    BY <1>1, <1>2, <1>7
  <2>2. best.status \notin {"signed", "not_available"} /\ g.status \notin {"signed", "not_available"}
    BY <1>4, <2>1 DEF VInv, SignedIsTold
  <2>3. CASE attempted
    BY <1>1, <1>4, <1>5, <1>6, <2>1, <2>2, <2>3 DEF Done
  <2>4. CASE ~attempted
    <3>1. best.status = "needs_attention" /\ (shotFailed \/ where \in Done)
      BY <2>1, <2>4 DEF VInv, DoubtStops
    <3> QED
      BY <1>1, <1>6, <2>2, <3>1 DEF Done
  <2> QED
    BY <1>2, <2>3, <2>4
<1> QED
  BY <1>1, <1>7, <1>8, <1>9, <1>10, QuietStepKeeps DEF OnSite

Quiet == UNCHANGED <<record, prior, receipt, recovered, runs, past>>

LEMMA ContinueKeeps ==
  ASSUME VInv, Quiet, where \in {"look", "answer"},
         NEW o, o \in {Skip, Again} \/ MayEndWith(target.guarded, o), o = Signed => site',
         NEW left \in Nat, left <= doubt, Continue(o, left),
         site' \in BOOLEAN, site => site', flying' \in Nat
  PROVE  VInv'
<1>2. target \in Targets /\ target.guarded \in BOOLEAN /\ Stage \in Adapters
      /\ stage \in 1..Len(Stages) /\ Len(Stages) \in Nat /\ doubt \in Nat
  BY TargetFacts DEF VInv, VisitTyped, Stage, Stages
<1>3. ASSUME NEW to \in 1..Len(Stages), NEW try, GoOn(to, try, left)
      PROVE  VInv'
  <2>1. /\ stage' = to /\ where' = "look" /\ doubt' = left
        /\ UNCHANGED <<target, told, cand, attempted, acted, clicked, best, shotFailed>>
    BY <1>3 DEF GoOn, page
  <2>2. VisitTyped'
    BY <1>3, <2>1 DEF VInv, VisitTyped, Quiet, record, past, OnSite, Stages
  <2>3. SignedIsTold'
    BY <1>2, <2>1 DEF VInv, SignedIsTold, Quiet, past, Done
  <2>4. DoubtStops'
    BY <1>2, <2>1 DEF VInv, DoubtStops, Quiet, past, Done
  <2> QED
    BY <1>2, <2>1, <2>2, <2>3, <2>4, QuietStepKeeps DEF Quiet, OnSite
<1>4. CASE o = Skip
  <2>0. Skip # Again
    BY DEF Again, Skip, R
  <2>1. CASE stage < Len(Stages)
    <3>1. GoOn(stage + 1, 1, left)
      BY <1>4, <2>0, <2>1 DEF Continue
    <3> QED
      BY <1>2, <1>3, <2>1, <3>1
  <2>2. CASE ~(stage < Len(Stages))
    <3>1. Close(R("no_action", "unset"), left)
      BY <1>4, <2>0, <2>2 DEF Continue
    <3>2. "no_action" \in Statuses \ {"signed"}
      BY DEF Statuses
    <3>3. MayEndWith(target.guarded, R("no_action", "unset"))
      BY <1>2, <3>2, PlainResults
    <3>4. R("no_action", "unset") # Signed
      BY DEF R, Signed
    <3> QED
      BY <3>1, <3>3, <3>4, CloseKeeps DEF Quiet
  <2> QED
    BY <2>1, <2>2
<1>5. CASE o = Again
  <2>0. Again # Skip
    BY DEF Again, Skip, R
  <2>1. CASE tries < MaxTries
    <3>1. GoOn(stage, tries + 1, left)
      BY <1>5, <2>0, <2>1 DEF Continue
    <3> QED
      BY <1>2, <1>3, <3>1
  <2>2. CASE ~(tries < MaxTries)
    <3>1. Close(Spent(Stage, left < doubt), left)
      BY <1>5, <2>0, <2>2 DEF Continue
    <3>2. MayEndWith(target.guarded, Spent(Stage, left < doubt)) /\ Spent(Stage, left < doubt) # Signed
      <4>1. (left < doubt) \in BOOLEAN
        OBVIOUS
      <4> QED
        BY <1>2, <4>1, SpentIsTyped
    <3> QED
      BY <3>1, <3>2, CloseKeeps DEF Quiet
  <2> QED
    BY <2>1, <2>2
<1>6. CASE o \notin {Skip, Again}
  <2>1. Close(o, left)
    BY <1>6 DEF Continue
  <2> QED
    BY <1>6, <2>1, CloseKeeps DEF Quiet
<1> QED
  BY <1>4, <1>5, <1>6

LEMMA OpenCandidateKeeps ==
  ASSUME VInv, OpenCandidate, Quiet
  PROVE  VInv'
<1>1. /\ where = "goto" /\ where' = "look" /\ attempted' = FALSE /\ acted' = FALSE
      /\ UNCHANGED <<target, site, flying, doubt, told, cand, stage, clicked, best, shotFailed>>
  BY DEF OpenCandidate, opened, place
<1>2. VisitTyped'
  <2>1. attempted' \in BOOLEAN /\ acted' \in BOOLEAN /\ where' \in OnSite /\ where' # "answer"
    BY <1>1 DEF OnSite
  <2> QED
    BY <1>1, <2>1 DEF VInv, VisitTyped, Quiet, record, past
<1>3. SignedIsTold' /\ DoubtStops'
  BY <1>1 DEF VInv, SignedIsTold, DoubtStops, Quiet, past, Done
<1> QED
  BY <1>1, <1>2, <1>3, QuietStepKeeps DEF Quiet, OnSite, VInv, VisitTyped

LEMMA LookAtSiteKeeps ==
  ASSUME VInv, LookAtSite, Quiet
  PROVE  VInv'
<1>1. PICK o \in Looks \ {Send} : Continue(o, doubt)
  BY DEF LookAtSite
<1>2. where = "look" /\ site' = site /\ flying' = flying
  BY DEF LookAtSite
<1>3. target.guarded \in BOOLEAN /\ Stage \in Adapters /\ (target.guarded => Stage \notin Gateway)
      /\ site \in BOOLEAN /\ acted \in BOOLEAN /\ doubt \in Nat /\ flying \in Nat
  BY TargetFacts DEF VInv, VisitTyped, Stage, Stages
<1>4. (o \in {Skip, Again} \/ MayEndWith(target.guarded, o)) /\ (o = Signed => site)
  <2>1. CASE o = Skip
    BY <2>1, NamedResults
  <2>2. CASE o # Skip
    <3>1. o \in Look(Stage, site, acted)
      BY <1>1, <2>2 DEF Looks
    <3> QED
      BY <1>1, <1>3, <3>1, LookIsTyped DEF Told
  <2> QED
    BY <2>1, <2>2
<1> QED
  BY <1>1, <1>2, <1>3, <1>4, ContinueKeeps

LEMMA GateClosesKeeps ==
  ASSUME VInv, GateCloses, Quiet
  PROVE  VInv'
<1>1. PICK r \in {R("deferred", "no"), Upstream("no")} \cup Known(site) : Close(r, doubt)
  BY DEF GateCloses
<1>2. where = "look" /\ site' = site /\ flying' = flying
  BY DEF GateCloses
<1>3. target.guarded \in BOOLEAN /\ site \in BOOLEAN /\ doubt \in Nat /\ flying \in Nat
  BY TargetFacts DEF VInv, VisitTyped
<1>4. "deferred" \in Statuses \ {"signed"}
  BY DEF Statuses
<1>5. MayEndWith(target.guarded, R("deferred", "no")) /\ MayEndWith(target.guarded, Upstream("no"))
      /\ MayEndWith(target.guarded, Signed)
  BY <1>3, <1>4, PlainResults
<1>6. R("deferred", "no") # Signed /\ Upstream("no") # Signed
  BY DEF R, Upstream, Signed
<1>7. MayEndWith(target.guarded, r) /\ (r = Signed => site)
  BY <1>5, <1>6 DEF Known
<1> QED
  BY <1>1, <1>2, <1>3, <1>7, CloseKeeps DEF Quiet

LEMMA PageBreaksKeeps ==
  ASSUME VInv, PageBreaks, Quiet
  PROVE  VInv'
<1>1. PICK r \in IF attempted THEN {Unknown} ELSE PageFailure : Close(r, doubt)
  BY DEF PageBreaks
<1>2. where \in {"look", "answer"} /\ site' = site /\ flying' = flying
  BY DEF PageBreaks
<1>3. target.guarded \in BOOLEAN /\ site \in BOOLEAN /\ doubt \in Nat /\ flying \in Nat
      /\ clicked \in BOOLEAN
  BY TargetFacts DEF VInv, VisitTyped
<1>4. MayEndWith(target.guarded, Unknown) /\ Unknown # Signed
  <2>1. "deferred" \in Statuses \ {"signed"}
    BY DEF Statuses
  <2>2. Unknown # Signed
    BY DEF Unknown, Signed, R
  <2> QED
    BY <1>3, <2>1, <2>2, PlainResults
<1>5. MayEndWith(target.guarded, r) /\ (r = Signed => site)
  <2>1. CASE attempted
    BY <1>1, <1>4, <2>1
  <2>2. CASE ~attempted
    BY <1>1, <1>3, <2>2, FailureIsTyped
  <2> QED
    BY <2>1, <2>2
<1> QED
  BY <1>1, <1>2, <1>3, <1>5, CloseKeeps DEF Quiet

LEMMA SubmitKeeps ==
  ASSUME VInv, Submit, UNCHANGED <<record, prior, receipt, recovered, runs, lost>>,
         risk' = TRUE, licence' = FALSE
  PROVE  VInv'
<1>1. /\ where = "look" /\ where' = "answer" /\ attempted' = target.guarded
      /\ clicked' = (clicked \/ Stage = "control") /\ acted' = (acted \/ Stage = "control")
      /\ flying' = Capped(flying + 1) /\ doubt' = Capped(doubt + 1)
      /\ UNCHANGED <<target, site, told, cand, stage, best, shotFailed>>
  BY DEF Submit, place
<1>2. target.guarded \in BOOLEAN /\ Stage \in Adapters /\ (target.guarded => Stage \notin Gateway)
      /\ site \in BOOLEAN /\ acted \in BOOLEAN /\ clicked \in BOOLEAN /\ doubt \in Nat /\ flying \in Nat
  BY TargetFacts DEF VInv, VisitTyped, Stage, Stages
<1>3. Stage \in Senders
  <2>1. Send \in Look(Stage, site, acted)
    BY NamedResults DEF Submit, Looks
  <2> QED
    BY <1>2, <2>1, LookIsTyped
<1>4. doubt' \in Nat /\ doubt' > 0 /\ flying' \in Nat
  BY <1>1, <1>2, VisitAssumption DEF Capped
<1>5. attempted' \in BOOLEAN /\ clicked' \in BOOLEAN /\ acted' \in BOOLEAN
  BY <1>1, <1>2
<1>6. target.guarded => attempted'
  BY <1>1
<1> USE DEF record
<1>7. VisitTyped'
  <2>1. target.candidates[cand][stage] \in Senders
    BY <1>3 DEF Stage, Stages
  <2>2. where' = "answer" /\ UNCHANGED <<target, site, told, cand, stage, best, shotFailed>>
    BY <1>1
  <2>3. target'.candidates[cand'][stage'] \in Senders /\ (target'.guarded => attempted')
    BY <1>6, <2>1, <2>2
  <2>4. risk' \in BOOLEAN /\ licence' \in BOOLEAN /\ where' \in OnSite
    BY <2>2 DEF OnSite
  <2>5. cand' \in 1..Len(target'.candidates) /\ stage' \in 1..Len(target'.candidates[cand'])
    BY <2>2 DEF VInv, VisitTyped
  <2> QED
    BY <1>4, <1>5, <2>2, <2>3, <2>4, <2>5 DEF VInv, VisitTyped
<1>8. Outset' /\ SignedIsTold'
  BY <1>1 DEF VInv, Outset, SignedIsTold, Done
<1>9. DoubtStops'
  BY <1>1, <1>6 DEF DoubtStops
<1>10. DoubtOnRecord' /\ OpenedForAReason'
  BY DEF DoubtOnRecord, OpenedForAReason
<1>11. ReceiptsHold' /\ ReportHolds'
  BY <1>1 DEF VInv, ReceiptsHold, ReportHolds
<1>12. OldPending' /\ RecoveryHolds'
  BY <1>1 DEF VInv, OldPending, RecoveryHolds, OnSite
<1> QED
  BY <1>7, <1>8, <1>9, <1>10, <1>11, <1>12 DEF VInv

LEMMA AnswerArrivesKeeps ==
  ASSUME VInv, AnswerArrives, Quiet
  PROVE  VInv'
<1>1. PICK a \in Answers :
        /\ a \in {"accepted", "refused"} => flying > 0
        /\ a = "already" => site
        /\ site' = (site \/ a = "accepted")
        /\ flying' = IF a \in {"accepted", "refused"} THEN flying - 1 ELSE flying
        /\ \E o \in Afterwards(Stage, a, site') :
             Continue(o, IF a = "refused" THEN doubt - 1 ELSE doubt)
  BY DEF AnswerArrives
<1> DEFINE left == IF a = "refused" THEN doubt - 1 ELSE doubt
<1>2. PICK o \in Afterwards(Stage, a, site') : Continue(o, left)
  BY <1>1
<1>3. where = "answer" /\ target.guarded \in BOOLEAN /\ (target.guarded => Stage \notin Gateway)
      /\ Stage \in Senders /\ site \in BOOLEAN /\ doubt \in Nat /\ doubt > 0 /\ flying \in Nat
  <2>1. where = "answer"
    BY DEF AnswerArrives
  <2>2. target.guarded \in BOOLEAN /\ (target.guarded => Stage \notin Gateway)
    BY TargetFacts DEF VInv, VisitTyped, Stage, Stages
  <2>3. Stage \in Senders
    BY <2>1 DEF VInv, VisitTyped, Stage, Stages
  <2>4. site \in BOOLEAN /\ doubt \in Nat /\ doubt > 0 /\ flying \in Nat
    BY <2>1 DEF VInv, VisitTyped
  <2> QED
    BY <2>1, <2>2, <2>3, <2>4
<1>4. left \in Nat /\ left <= doubt
  BY <1>3
<1>5. site' \in BOOLEAN /\ (site => site') /\ (a \in Explicit => site')
  BY <1>1, <1>3 DEF Explicit
<1>6. flying' \in Nat
  BY <1>1, <1>3
<1>7. (o \in {Skip, Again} \/ MayEndWith(target.guarded, o)) /\ (o = Signed => site')
  BY <1>2, <1>3, <1>5, AnswersAreTyped
<1> HIDE DEF left
<1> QED
  BY <1>2, <1>3, <1>4, <1>5, <1>6, <1>7, ContinueKeeps

\* The result of an attempt: a login that every candidate needed.
LEMMA ConcludedResult ==
  ASSUME NEW r \in Result
  PROVE  Concluded(r) \in Result /\ Concluded(r).status = r.status
<1>1. CASE r.status = "login_required"
  <2>1. Concluded(r) = [r EXCEPT !.submitted = IF clean THEN "no" ELSE "unset"]
    BY <1>1 DEF Concluded
  <2> QED
    BY <1>1, <2>1 DEF Result
<1>2. CASE r.status # "login_required"
  BY <1>2 DEF Concluded
<1> QED
  BY <1>1, <1>2

LEMMA SettleKeeps ==
  ASSUME VInv, Settle, Quiet
  PROVE  VInv'
<1>1. /\ where = "settle" /\ where' = "report" /\ best' = Concluded(best)
      /\ UNCHANGED <<target, site, flying, doubt, told, cand, stage, attempted, acted, clicked, shotFailed>>
  BY DEF Settle, opened, place, page
<1>2. best' \in Result /\ best'.status = best.status
  BY <1>1, ConcludedResult DEF VInv, VisitTyped
<1>3. VisitTyped'
  BY <1>1, <1>2 DEF VInv, VisitTyped, Quiet, record, past, OnSite
<1>4. SignedIsTold' /\ DoubtStops'
  BY <1>1, <1>2 DEF VInv, SignedIsTold, DoubtStops, Quiet, past, Done
<1>5. site => site'
  BY <1>1
<1>6. doubt' <= doubt
  BY <1>1 DEF VInv, VisitTyped
<1> QED
  BY <1>1, <1>3, <1>4, <1>5, <1>6, QuietStepKeeps DEF Quiet, OnSite

\* A new attempt starts at the first candidate.
LEMMA StartTyped ==
  ASSUME VInv, NEW n, NEW f, NEW k, StartAttempt(n, f, k), target' = target
  PROVE  /\ cand' \in 1..Len(target'.candidates)
         /\ stage' \in 1..Len(target'.candidates[cand'])
         /\ clicked' = FALSE /\ where' = "goto" /\ attempted' = attempted /\ acted' = acted
<1>1. /\ cand' = 1 /\ stage' = 1 /\ clicked' = FALSE /\ where' = "goto" /\ attempted' = attempted
      /\ acted' = acted
  BY DEF StartAttempt, page
<1>2. target \in Targets
  BY DEF VInv, VisitTyped
<1>3. Len(target.candidates) \in Nat /\ Len(target.candidates) >= 1
  BY <1>2, TargetFacts
<1>4. Len(target.candidates[1]) \in Nat /\ Len(target.candidates[1]) >= 1
  BY <1>2, <1>3, TargetFacts
<1> QED
  BY <1>1, <1>3, <1>4

LEMMA ReopenKeeps ==
  ASSUME VInv, Reopen, Quiet
  PROVE  VInv'
<1>1. /\ where = "settle" /\ StartAttempt(attempt + 1, fresh, round)
      /\ UNCHANGED <<target, site, flying, doubt, told, best, shotFailed>>
      /\ best.status = "visited"
  BY DEF Reopen, Concludes
<1>2. VisitTyped'
  <2>1. /\ cand' \in 1..Len(target'.candidates)
        /\ stage' \in 1..Len(target'.candidates[cand'])
        /\ clicked' \in BOOLEAN /\ where' = "goto" /\ attempted' = attempted /\ acted' = acted
    BY <1>1, StartTyped
  <2> QED
    BY <1>1, <2>1 DEF VInv, VisitTyped, Quiet, record, past, OnSite
<1>3. SignedIsTold' /\ DoubtStops'
  BY <1>1, StartTyped DEF VInv, SignedIsTold, DoubtStops, Quiet, past, Done
<1>4. where' = "goto"
  BY <1>1, StartTyped
<1>5. (site => site') /\ doubt' <= doubt
  BY <1>1 DEF VInv, VisitTyped
<1> QED
  BY <1>1, <1>2, <1>3, <1>4, <1>5, QuietStepKeeps DEF Quiet, OnSite

LEMMA ShotFailsKeeps ==
  ASSUME VInv, ShotFails, Quiet
  PROVE  VInv'
<1>1. PICK r \in PageFailure :
        /\ best' = Prefer(best, r)
        /\ told' = (told \/ r = Signed)
        /\ doubt' = IF r = Signed THEN 0 ELSE doubt
  BY DEF ShotFails
<1>2. /\ where = "settle" /\ shotFailed' = TRUE /\ UNCHANGED <<target, site, flying>>
  BY DEF ShotFails
<1>3. /\ target \in Targets /\ target.guarded \in BOOLEAN /\ site \in BOOLEAN /\ clicked \in BOOLEAN
      /\ best \in Result /\ doubt \in Nat /\ told \in BOOLEAN
  BY TargetFacts DEF VInv, VisitTyped
<1>4. MayEndWith(target.guarded, r) /\ (r = Signed => site)
  BY <1>3, FailureIsTyped
<1>5. /\ r \in Result /\ (r.status = "signed" => r = Signed) /\ (r = Signed => r.status = "signed")
      /\ target.guarded => r.status # "not_available"
  BY <1>4, NamedResults DEF MayEndWith
<1>6. /\ best' \in Result /\ best' \in {best, r}
      /\ r.status = "signed" => best'.status = "signed"
      /\ best.status = "signed" => best' = best
      /\ best.status = "needs_attention" /\ r.status \notin {"signed", "not_available"} => best' = best
  BY <1>1, <1>3, <1>5, PreferredResult
<1>7. doubt' \in Nat /\ doubt' <= doubt /\ told' \in BOOLEAN
  BY <1>1, <1>3
<1>8. /\ cand' \in 1..Len(target'.candidates)
      /\ stage' \in 1..Len(target'.candidates[cand'])
      /\ clicked' \in BOOLEAN /\ attempted' = attempted /\ acted' = acted
      /\ where' \in {"report", "goto"}
  <2>1. CASE LastAttempt
    <3>1. where' = "report" /\ UNCHANGED <<cand, stage, clicked, attempted, acted>>
      BY <2>1 DEF ShotFails, opened, place, page
    <3> QED
      BY <1>2, <3>1 DEF VInv, VisitTyped
  <2>2. CASE ~LastAttempt
    <3>1. StartAttempt(attempt + 1, fresh, round)
      BY <2>2 DEF ShotFails
    <3> QED
      BY <1>2, <3>1, StartTyped
  <2> QED
    BY <2>1, <2>2
<1>9. VisitTyped'
  BY <1>2, <1>3, <1>6, <1>7, <1>8 DEF VInv, VisitTyped, Quiet, record, past, OnSite
<1>10. SignedIsTold'
  BY <1>1, <1>2, <1>3, <1>4, <1>5, <1>6, <1>7 DEF VInv, SignedIsTold, Quiet, past
<1>11. DoubtStops'
  <2> SUFFICES ASSUME target.guarded, risk, doubt' > 0, ~told'
               PROVE  best'.status = "needs_attention" /\ shotFailed'
    BY <1>2 DEF DoubtStops, Quiet, past
  <2>1. ~told /\ r # Signed /\ doubt > 0
    BY <1>1, <1>3, <1>7
  <2>2. best.status = "needs_attention"
    BY <1>2, <2>1 DEF VInv, DoubtStops
  <2> QED
    BY <1>2, <1>5, <1>6, <2>1, <2>2
<1>12. site => site'
  BY <1>2
<1> QED
  BY <1>2, <1>7, <1>8, <1>9, <1>10, <1>11, <1>12, QuietStepKeeps DEF Quiet, OnSite

\* The engine begins anew with a result that calls for it.
LEMMA AnewKeeps ==
  ASSUME VInv, Quiet, Anew, where = "report", NEW n, NEW f, NEW k, StartAttempt(n, f, k),
         best.status \in {"deferred", "error", "login_required", "challenge", "no_action"}
  PROVE  VInv'
<1>1. /\ best' = Nothing
      /\ UNCHANGED <<target, site, flying, doubt, told, shotFailed>>
  BY DEF Anew
<1>2. /\ cand' \in 1..Len(target'.candidates)
      /\ stage' \in 1..Len(target'.candidates[cand'])
      /\ clicked' \in BOOLEAN /\ where' = "goto" /\ attempted' = attempted /\ acted' = acted
  BY <1>1, StartTyped
<1>3. best' \in Result /\ best'.status = "none"
  BY <1>1, NamedResults
<1>4. VisitTyped'
  BY <1>1, <1>2, <1>3 DEF VInv, VisitTyped, Quiet, record, past, OnSite
<1>5. SignedIsTold'
  BY <1>1, <1>2, <1>3 DEF VInv, SignedIsTold, Quiet, past, Done
<1>6. DoubtStops'
  BY <1>1, <1>2 DEF VInv, DoubtStops, Quiet, past
<1>7. (site => site') /\ doubt' <= doubt
  BY <1>1 DEF VInv, VisitTyped
<1> QED
  BY <1>1, <1>2, <1>4, <1>5, <1>6, <1>7, QuietStepKeeps DEF Quiet, OnSite

LEMMA RefreshKeeps ==
  ASSUME VInv, Refresh, Quiet
  PROVE  VInv'
BY AnewKeeps DEF Refresh, NeedsRefresh

LEMMA RecoverKeeps ==
  ASSUME VInv, Recover, Quiet
  PROVE  VInv'
BY AnewKeeps DEF Recover, Reported, Eligible

LEMMA LoginDecidesKeeps ==
  ASSUME VInv, LoginDecides, Quiet
  PROVE  VInv'
<1>1. PICK r \in {R("needs_attention", "unset"), Upstream("unset")} \cup Known(site) :
        /\ best' = r /\ told' = (told \/ r = Signed)
        /\ doubt' = IF r = Signed THEN 0 ELSE doubt
  BY DEF LoginDecides
<1>2. /\ where = "report" /\ where' = "report" /\ best.status = "login_required"
      /\ UNCHANGED <<target, site, flying, cand, stage, attempted, acted, clicked, shotFailed>>
  BY DEF LoginDecides, Reported, place, page
<1>3. /\ target.guarded \in BOOLEAN /\ site \in BOOLEAN /\ doubt \in Nat /\ told \in BOOLEAN
  BY TargetFacts DEF VInv, VisitTyped
<1>4. r \in Result /\ (r = Signed => site) /\ (r.status = "signed" <=> r = Signed)
      /\ r.status # "not_available"
  <2>1. R("needs_attention", "unset") \in Result /\ R("needs_attention", "unset").status = "needs_attention"
    BY DEF R, Result, Statuses
  <2>2. Upstream("unset") \in Result /\ Upstream("unset").status = "deferred"
    BY DEF R, Upstream, Result, Statuses
  <2> QED
    BY <2>1, <2>2, NamedResults DEF Known
<1>5. doubt' \in Nat /\ doubt' <= doubt /\ told' \in BOOLEAN
  BY <1>1, <1>3
<1>6. VisitTyped'
  BY <1>1, <1>2, <1>4, <1>5 DEF VInv, VisitTyped, Quiet, record, past, OnSite
<1>7. ~told
  BY <1>2 DEF VInv, SignedIsTold
<1>8. SignedIsTold'
  BY <1>1, <1>2, <1>3, <1>4, <1>7 DEF SignedIsTold, Quiet, past, Done
<1>9. DoubtStops'
  <2>1. ~(target.guarded /\ risk /\ doubt > 0)
    BY <1>2, <1>7 DEF VInv, DoubtStops
  <2> QED
    BY <1>2, <1>3, <1>5, <2>1 DEF DoubtStops, Quiet, past
<1>10. site => site'
  BY <1>2
<1> QED
  BY <1>2, <1>5, <1>6, <1>8, <1>9, <1>10, QuietStepKeeps DEF Quiet, OnSite

LEMMA OverKeeps ==
  ASSUME VInv, Over, Quiet
  PROVE  VInv'
<1>1. /\ where = "report" /\ where' = "over"
      /\ UNCHANGED <<target, site, flying, doubt, told, cand, stage, attempted, acted, clicked, best, shotFailed>>
  BY DEF Over, Reported, opened, place, page
<1>2. VisitTyped'
  BY <1>1 DEF VInv, VisitTyped, Quiet, record, past, Done
<1>3. SignedIsTold' /\ DoubtStops'
  BY <1>1 DEF VInv, SignedIsTold, DoubtStops, Quiet, past, Done
<1>4. (site => site') /\ doubt' <= doubt
  BY <1>1 DEF VInv, VisitTyped
<1> QED
  BY <1>1, <1>2, <1>3, <1>4, QuietStepKeeps DEF Quiet, OnSite

\* What is on its way to the site lands or is lost.
LEMMA SiteKeeps ==
  ASSUME VInv, Land \/ Drop, Quiet
  PROVE  VInv'
<1>1. flying' \in Nat /\ site' \in BOOLEAN /\ (site => site')
  <2>1. flying \in Nat /\ site \in BOOLEAN
    BY DEF VInv, VisitTyped
  <2>2. flying > 0 /\ flying' = flying - 1 /\ (site' = TRUE \/ site' = site)
    BY DEF Land, Drop
  <2>3. flying' \in Nat
    BY <2>1, <2>2
  <2>4. CASE site' = TRUE
    BY <2>3, <2>4
  <2>5. CASE site' = site
    BY <2>1, <2>3, <2>5
  <2> QED
    BY <2>2, <2>4, <2>5
<1>2. UNCHANGED <<target, doubt, told, cand, stage, attempted, acted, clicked, where, best, shotFailed>>
  BY DEF Land, Drop, Elsewhere, opened, place, page
<1> USE DEF Quiet, record, past
<1>3. VisitTyped'
  BY <1>1, <1>2 DEF VInv, VisitTyped
<1>4. Outset' /\ SignedIsTold' /\ DoubtStops'
  BY <1>1, <1>2 DEF VInv, Outset, SignedIsTold, DoubtStops
<1>5. DoubtOnRecord' /\ OpenedForAReason' /\ ReceiptsHold'
  BY <1>1, <1>2 DEF VInv, DoubtOnRecord, OnRecord, OpenedForAReason, ReceiptsHold, Uncertain
<1>6. OldPending' /\ RecoveryHolds' /\ ReportHolds'
  BY <1>1, <1>2 DEF VInv, OldPending, RecoveryHolds, ReportHolds, Uncertain
<1> QED
  BY <1>3, <1>4, <1>5, <1>6 DEF VInv

\* A submission is the only step of a visit that comes to wait for an answer.
LEMMA VisitingKeeps ==
  ASSUME VInv, Visiting
  PROVE  VInv'
<1>1. VisitNext /\ UNCHANGED <<record, prior, receipt, recovered, runs, lost>>
  BY DEF Visiting
<1>2. ~(where = "look" /\ where' = "answer") => Quiet
  BY DEF Visiting, Quiet, past
<1>3. (where = "look" /\ where' = "answer") => risk' = TRUE /\ licence' = FALSE
  BY DEF Visiting
<1>4. CASE OpenCandidate
  BY <1>2, <1>4, OpenCandidateKeeps DEF OpenCandidate
<1>5. CASE Submit
  BY <1>1, <1>3, <1>5, SubmitKeeps DEF Submit
<1>6. CASE LookAtSite
  <2>1. where' # "answer"
    <3>1. PICK o \in Looks \ {Send} : Continue(o, doubt)
      BY <1>6 DEF LookAtSite
    <3> QED
      BY <3>1 DEF Continue, GoOn, Close
  <2> QED
    BY <1>2, <1>6, <2>1, LookAtSiteKeeps
<1>7. CASE GateCloses
  <2>1. where' # "answer"
    BY <1>7 DEF GateCloses, Close
  <2> QED
    BY <1>2, <1>7, <2>1, GateClosesKeeps
<1>8. CASE AnswerArrives
  BY <1>2, <1>8, AnswerArrivesKeeps DEF AnswerArrives
<1>9. CASE PageBreaks
  <2>1. where' # "answer"
    BY <1>9 DEF PageBreaks, Close
  <2> QED
    BY <1>2, <1>9, <2>1, PageBreaksKeeps
<1>10. CASE Settle
  BY <1>2, <1>10, SettleKeeps DEF Settle
<1>11. CASE Reopen
  BY <1>2, <1>11, ReopenKeeps DEF Reopen
<1>12. CASE ShotFails
  BY <1>2, <1>12, ShotFailsKeeps DEF ShotFails
<1>13. CASE Refresh
  BY <1>2, <1>13, RefreshKeeps DEF Refresh
<1>14. CASE Recover
  BY <1>2, <1>14, RecoverKeeps DEF Recover, Reported
<1>15. CASE LoginDecides
  BY <1>2, <1>15, LoginDecidesKeeps DEF LoginDecides, Reported
<1>16. CASE Over
  BY <1>2, <1>16, OverKeeps DEF Over, Reported
<1>17. CASE Land \/ Drop
  BY <1>2, <1>17, SiteKeeps DEF Land, Drop, Elsewhere
<1> QED
  BY <1>1, <1>4, <1>5, <1>6, <1>7, <1>8, <1>9, <1>10, <1>11, <1>12, <1>13, <1>14, <1>15, <1>16,
     <1>17 DEF VisitNext, Visit, Engine

-----------------------------------------------------------------------------
(* Between the visits.                                                     *)

LEMMA ReadKeeps ==
  ASSUME VInv, Read
  PROVE  VInv'
<1>1. /\ target.quarantined /\ where = "idle"
      /\ receipt' = (IF site THEN "signed" ELSE "unsigned")
      /\ licence' = (licence \/ ~site)
      /\ UNCHANGED <<target, site, flying, doubt, told, cand, stage, where, attempted, clicked, acted,
                     best, shotFailed, pending, older, resolved, claim, prior, recovered, runs, risk, lost>>
  BY DEF Read, visitVars, record
<1>2. licence' \in BOOLEAN /\ receipt' \in {"signed", "unsigned"} /\ (receipt' = "signed" => site)
      /\ (receipt' = "unsigned" => ~site /\ licence') /\ (licence => licence')
  BY <1>1 DEF VInv, VisitTyped
<1>3. VisitTyped'
  BY <1>1, <1>2 DEF VInv, VisitTyped
<1>4. Outset' /\ SignedIsTold' /\ DoubtStops'
  BY <1>1 DEF VInv, Outset, SignedIsTold, DoubtStops
<1>5. DoubtOnRecord' /\ OpenedForAReason'
  BY <1>1, <1>2 DEF VInv, DoubtOnRecord, OnRecord, OpenedForAReason, OnSite, Uncertain
<1>6. ReceiptsHold'
  BY <1>1, <1>2 DEF VInv, ReceiptsHold
<1>7. OldPending'
  <2>1. prior.status = "signed" => receipt' = "signed"
    BY <1>2 DEF VInv, ReceiptsHold
  <2>2. best.status # "signed"
    BY <1>1, TargetFacts DEF VInv, VisitTyped, Outset, SignedIsTold
  <2> QED
    BY <1>1, <2>1, <2>2 DEF VInv, OldPending, Outset, OnSite
<1>8. RecoveryHolds' /\ ReportHolds'
  BY <1>1, <1>2 DEF VInv, Outset, RecoveryHolds, ReportHolds, OnSite
<1> QED
  BY <1>3, <1>4, <1>5, <1>6, <1>7, <1>8 DEF VInv

LEMMA AgesKeeps ==
  ASSUME VInv, Ages
  PROVE  VInv'
<1>1. /\ receipt = "unsigned" /\ receipt' = "old"
      /\ UNCHANGED <<target, site, flying, doubt, told, cand, stage, where, attempted, clicked, acted,
                     best, shotFailed, pending, older, resolved, claim, prior, recovered, runs, risk,
                     licence, lost>>
  BY DEF Ages, Outdated, visitVars, record, past
<1>2. VisitTyped'
  BY <1>1 DEF VInv, VisitTyped
<1>3. Outset' /\ SignedIsTold' /\ DoubtStops'
  BY <1>1 DEF VInv, Outset, SignedIsTold, DoubtStops
<1>4. DoubtOnRecord' /\ OpenedForAReason' /\ ReceiptsHold'
  BY <1>1 DEF VInv, DoubtOnRecord, OnRecord, OpenedForAReason, ReceiptsHold, Uncertain
<1>5. OldPending' /\ RecoveryHolds' /\ ReportHolds'
  BY <1>1 DEF VInv, OldPending, RecoveryHolds, ReportHolds, Uncertain
<1> QED
  BY <1>2, <1>3, <1>4, <1>5 DEF VInv

LEMMA OutdatedReceipt ==
  ASSUME VInv
  PROVE  /\ Outdated \in {"none", "signed", "old"}
         /\ Outdated = "signed" <=> receipt = "signed"
BY DEF Outdated, VInv, VisitTyped

LEMMA WriteReportKeeps ==
  ASSUME VInv, WriteReport
  PROVE  VInv'
<1>1. /\ target.quarantined /\ where = "over" /\ where' = "saving"
      /\ \/ prior' = best /\ receipt' = Outdated /\ risk' = FALSE
         \/ UNCHANGED <<prior, receipt, risk>>
      /\ lost' = (lost \/ Masked)
      /\ UNCHANGED <<target, site, flying, doubt, told, cand, stage, attempted, acted, clicked, best,
                     shotFailed, pending, older, resolved, claim, recovered, runs, licence>>
  BY DEF WriteReport, opened, place, page, record
<1>2. /\ target.guarded /\ best \in Result /\ doubt \in Nat /\ risk \in BOOLEAN /\ lost \in BOOLEAN
  BY <1>1, TargetFacts DEF VInv, VisitTyped
<1>3. /\ lost' \in BOOLEAN /\ (lost => lost')
      /\ risk /\ doubt > 0 /\ best # Unknown => lost'
  BY <1>1, <1>2 DEF Masked, Uncertain
<1>4. best.status = "signed" => told /\ site
  BY <1>2 DEF VInv, SignedIsTold
<1>5. told => best # Unknown
  BY NamedResults DEF VInv, SignedIsTold
<1>6. VisitTyped'
  <2>1. risk' \in BOOLEAN
    BY <1>1, <1>2
  <2>2. prior' \in Result /\ receipt' \in {"none", "signed", "unsigned", "old"}
    BY <1>1, OutdatedReceipt DEF VInv, VisitTyped
  <2> QED
    BY <1>1, <1>3, <2>1, <2>2 DEF VInv, VisitTyped, Done
<1>7. Outset' /\ DoubtStops'
  BY <1>1 DEF VInv, Outset, DoubtStops, Done
<1>8. SignedIsTold'
  BY <1>1, <1>3, <1>5 DEF VInv, SignedIsTold, Done
<1>9. DoubtOnRecord'
  <2> SUFFICES ASSUME doubt > 0, ~risk', ~licence, ~resolved, ~lost',
                      pending.day # "today", ~claim, ~older
               PROVE  Uncertain(prior') /\ pending = NoPending
    BY <1>1 DEF DoubtOnRecord, OnRecord
  <2>1. CASE risk
    <3>1. best = Unknown /\ prior' = best
      BY <1>1, <1>3, <2>1
    <3>2. pending.day # "yesterday"
      BY <2>1 DEF VInv, OldPending
    <3>3. pending = NoPending
      BY <3>2 DEF VInv, VisitTyped
    <3> QED
      BY <3>1, <3>3 DEF Uncertain
  <2>2. CASE ~risk
    <3>1. Uncertain(prior) /\ pending = NoPending
      BY <1>3, <2>2 DEF VInv, DoubtOnRecord, OnRecord
    <3>2. Uncertain(best)
      BY <1>1, <1>3, <2>2, <3>1 DEF VInv, ReportHolds
    <3> QED
      BY <1>1, <3>1, <3>2 DEF Uncertain
  <2> QED
    BY <1>2, <2>1, <2>2
<1>10. OpenedForAReason'
  BY <1>1 DEF OpenedForAReason, OnSite
<1>11. ReceiptsHold'
  BY <1>1, <1>3, <1>4, OutdatedReceipt DEF VInv, ReceiptsHold
<1>12. OldPending'
  BY <1>1, OutdatedReceipt DEF VInv, OldPending, OnSite
<1>13. RecoveryHolds'
  <2>1. recovered /\ prior'.status = "signed" => best.status = "signed"
    BY <1>1 DEF VInv, RecoveryHolds
  <2>2. recovered /\ doubt > 0 => licence \/ risk' \/ lost' \/ best = Unknown
    BY <1>1, <1>3 DEF VInv, RecoveryHolds
  <2> QED
    BY <1>1, <2>1, <2>2 DEF RecoveryHolds, Uncertain
<1>14. ReportHolds'
  BY <1>1, <1>3 DEF ReportHolds, OnSite, Uncertain
<1> QED
  BY <1>6, <1>7, <1>8, <1>9, <1>10, <1>11, <1>12, <1>13, <1>14 DEF VInv

\* What a process leaves when it is gone.
LEMMA ExitsEffect ==
  ASSUME VInv, Exits
  PROVE  /\ where' = "idle" /\ cand' = 1 /\ stage' = 1 /\ attempted' = FALSE /\ clicked' = FALSE
         /\ acted' = FALSE /\ told' = FALSE /\ best' = Nothing /\ shotFailed' = FALSE
         /\ recovered' = FALSE /\ risk' = FALSE
         /\ UNCHANGED <<target, site, flying, doubt, runs, licence>>
BY DEF Exits

LEMMA ExitKeeps ==
  ASSUME VInv, Exits, target.quarantined, prior' = prior,
         pending' \in [day : {"none", "yesterday", "today"}, bound : BOOLEAN],
         pending'.day = "none" => pending' = NoPending,
         receipt' \in {"none", "signed", "unsigned", "old"},
         older' \in BOOLEAN, resolved' \in BOOLEAN, claim' \in BOOLEAN, lost' \in BOOLEAN,
         DoubtOnRecord', ReceiptsHold', OldPending'
  PROVE  VInv'
<1>1. /\ where' = "idle" /\ cand' = 1 /\ stage' = 1 /\ attempted' = FALSE /\ clicked' = FALSE
      /\ acted' = FALSE /\ told' = FALSE /\ best' = Nothing /\ shotFailed' = FALSE
      /\ recovered' = FALSE /\ risk' = FALSE
      /\ UNCHANGED <<target, site, flying, doubt, runs, licence>>
  BY ExitsEffect
<1>2. VisitTyped'
  <2>1. target \in Targets
    BY DEF VInv, VisitTyped
  <2>2. cand' \in 1..Len(target'.candidates) /\ stage' \in 1..Len(target'.candidates[cand'])
    <3>1. Len(target.candidates) \in Nat /\ Len(target.candidates) >= 1
      BY <2>1, TargetFacts
    <3>2. Len(target.candidates[1]) \in Nat /\ Len(target.candidates[1]) >= 1
      BY <2>1, <3>1, TargetFacts
    <3> QED
      BY <1>1, <3>1, <3>2
  <2>3. best' \in Result
    BY <1>1, NamedResults
  <2>4. /\ attempted' \in BOOLEAN /\ clicked' \in BOOLEAN /\ acted' \in BOOLEAN /\ told' \in BOOLEAN
        /\ shotFailed' \in BOOLEAN /\ recovered' \in BOOLEAN /\ risk' \in BOOLEAN
    BY <1>1
  <2> QED
    BY <1>1, <2>2, <2>3, <2>4 DEF VInv, VisitTyped
<1>3. Outset' /\ SignedIsTold' /\ DoubtStops'
  BY <1>1, NamedResults DEF Outset, SignedIsTold, DoubtStops
<1>4. OpenedForAReason' /\ RecoveryHolds' /\ ReportHolds'
  BY <1>1 DEF OpenedForAReason, RecoveryHolds, ReportHolds, OnSite
<1> QED
  BY <1>2, <1>3, <1>4 DEF VInv

LEMMA WriteSiteStateKeeps ==
  ASSUME VInv, WriteSiteState
  PROVE  VInv'
<1>1. where = "saving" /\ Exits /\ receipt' = Outdated /\ prior' = prior /\ lost' = lost
  BY DEF WriteSiteState
<1>2. PICK confirmed \in {FALSE, best.status = "signed"} : UpdateSiteState(best, confirmed)
  BY DEF WriteSiteState
<1> DEFINE resolves == confirmed /\ (recovered \/ pending = Today)
           replaces == recovered /\ best = Unknown
<1>3. /\ pending' = IF resolves THEN NoPending
                    ELSE IF replaces \/ (best = Unknown /\ pending = NoPending) THEN Today
                    ELSE pending
      /\ older' = (older \/ (replaces /\ pending # NoPending))
      /\ resolved' = (resolved \/ (resolves /\ pending # NoPending))
      /\ claim' = IF resolves \/ (recovered /\ best.submitted = "no") THEN FALSE ELSE claim
  BY <1>2 DEF UpdateSiteState, Uncertain
<1>4. /\ target.quarantined /\ target.guarded
  BY <1>1, TargetFacts DEF VInv, VisitTyped, Outset
<1>5. /\ best \in Result /\ confirmed \in BOOLEAN /\ (confirmed => best.status = "signed")
      /\ recovered \in BOOLEAN /\ older \in BOOLEAN /\ resolved \in BOOLEAN /\ claim \in BOOLEAN
      /\ lost \in BOOLEAN /\ risk \in BOOLEAN /\ doubt \in Nat
  BY DEF VInv, VisitTyped
<1>6. /\ best.status = "signed" => told /\ best.submitted # "no" /\ best # Unknown
      /\ best = Unknown => best.submitted # "no"
  BY <1>4, <1>5, NamedResults DEF VInv, SignedIsTold, Result
<1>7. /\ NoPending \in [day : {"none", "yesterday", "today"}, bound : BOOLEAN] /\ NoPending.day = "none"
      /\ Today \in [day : {"none", "yesterday", "today"}, bound : BOOLEAN] /\ Today.day = "today"
      /\ Today # NoPending
  BY DEF NoPending, Today
<1> HIDE DEF resolves, replaces
<1>8. resolves \in BOOLEAN /\ replaces \in BOOLEAN
  BY <1>5 DEF resolves, replaces
<1>9. /\ resolves => confirmed /\ (recovered \/ pending = Today)
      /\ replaces <=> recovered /\ best = Unknown
  BY DEF resolves, replaces
<1>10. /\ pending' \in [day : {"none", "yesterday", "today"}, bound : BOOLEAN]
       /\ pending'.day = "none" => pending' = NoPending
  BY <1>3, <1>7 DEF VInv, VisitTyped
<1>11. older' \in BOOLEAN /\ resolved' \in BOOLEAN /\ claim' \in BOOLEAN /\ lost' \in BOOLEAN
  BY <1>1, <1>3, <1>5, <1>8
<1>12. receipt' \in {"none", "signed", "unsigned", "old"} /\ receipt' # "unsigned"
       /\ (receipt' = "signed" <=> receipt = "signed")
  BY <1>1, OutdatedReceipt
<1>13. /\ risk' = FALSE /\ UNCHANGED <<target, site, doubt, licence>> /\ where' = "idle"
       /\ best'.status = "none"
  BY <1>1, ExitsEffect, NamedResults
<1>14. DoubtOnRecord'
  <2> SUFFICES ASSUME doubt > 0, ~licence, ~resolved', ~lost, pending'.day # "today", ~claim', ~older'
               PROVE  Uncertain(prior) /\ pending' = NoPending
    BY <1>1, <1>4, <1>13 DEF DoubtOnRecord, OnRecord
  <2>1. ~resolved /\ ~older /\ (resolves => pending = NoPending) /\ (replaces => pending = NoPending)
    BY <1>3, <1>5, <1>8
  <2>2. ~resolves
    <3> SUFFICES ASSUME resolves PROVE FALSE
      BY <1>8
    <3>1. recovered /\ best.status = "signed" /\ told
      BY <1>5, <1>6, <1>7, <1>9, <2>1
    <3>2. risk
      BY <3>1 DEF VInv, SignedIsTold
    <3>3. best = Unknown
      BY <1>1, <3>2 DEF VInv, ReportHolds, Uncertain
    <3> QED
      BY <1>6, <3>1, <3>3
  <2>3. best # Unknown \/ pending.day = "yesterday"
    BY <1>3, <1>7, <1>9, <2>1, <2>2 DEF VInv, VisitTyped
  <2>4. ~replaces
    BY <1>3, <1>7, <2>2
  <2>5. CASE risk
    <3>1. best = Unknown
      BY <1>1, <2>5 DEF VInv, ReportHolds, Uncertain
    <3>2. pending.day = "yesterday"
      BY <2>3, <3>1
    <3>3. claim
      BY <2>5, <3>2 DEF VInv, OldPending
    <3> QED
      BY <1>3, <1>6, <2>2, <3>1, <3>3
  <2>6. CASE ~risk
    <3>1. ~claim
      <4> SUFFICES ASSUME claim PROVE FALSE
        BY <1>5
      <4>1. recovered /\ best.submitted = "no"
        BY <1>3, <2>2
      <4>2. best = Unknown
        BY <1>1, <2>6, <4>1 DEF VInv, RecoveryHolds, Uncertain
      <4> QED
        BY <1>6, <4>1, <4>2
    <3>2. pending.day # "today"
      BY <1>3, <1>7, <2>2
    <3>3. Uncertain(prior) /\ pending = NoPending
      BY <2>1, <2>6, <3>1, <3>2 DEF VInv, DoubtOnRecord, OnRecord
    <3> QED
      BY <1>3, <1>7, <2>2, <3>3
  <2> QED
    BY <1>5, <2>5, <2>6
<1>15. ReceiptsHold'
  BY <1>1, <1>12, <1>13 DEF VInv, ReceiptsHold
<1>16. OldPending'
  <2> SUFFICES ASSUME pending'.day = "yesterday", prior.status = "signed"
               PROVE  claim' \/ receipt' = "signed"
    BY <1>1, <1>13 DEF OldPending, OnSite
  <2>1. pending' = pending /\ ~resolves
    BY <1>3, <1>7
  <2>2. claim \/ receipt = "signed"
    BY <2>1 DEF VInv, OldPending
  <2>3. recovered => best.submitted # "no"
    BY <1>6 DEF VInv, RecoveryHolds
  <2> QED
    BY <1>3, <1>12, <2>1, <2>2, <2>3
<1> QED
  BY <1>1, <1>4, <1>10, <1>11, <1>12, <1>14, <1>15, <1>16, ExitKeeps

LEMMA DiesKeeps ==
  ASSUME VInv, Dies
  PROVE  VInv'
<1>1. /\ target.quarantined /\ Exits /\ lost' = (lost \/ risk)
      /\ UNCHANGED <<pending, older, resolved, claim, prior, receipt>>
  BY DEF Dies, record
<1>2. lost' \in BOOLEAN /\ (lost => lost') /\ (risk => lost')
  BY <1>1 DEF VInv, VisitTyped
<1>3. /\ risk' = FALSE /\ UNCHANGED <<target, site, doubt, licence>> /\ where' = "idle"
      /\ best'.status = "none"
  BY <1>1, ExitsEffect, NamedResults
<1>4. DoubtOnRecord'
  BY <1>1, <1>2, <1>3 DEF VInv, DoubtOnRecord, OnRecord, Uncertain
<1>5. ReceiptsHold'
  BY <1>1, <1>2, <1>3 DEF VInv, ReceiptsHold
<1>6. OldPending'
  BY <1>1, <1>3 DEF VInv, OldPending, OnSite
<1> QED
  BY <1>1, <1>2, <1>4, <1>5, <1>6, ExitKeeps DEF VInv, VisitTyped

\* A run begins, its receipt having settled the submission it is about, or one
\* of yesterday, or nothing.
LEMMA NextRunKeeps ==
  ASSUME VInv, NextRun
  PROVE  VInv'
<1>1. /\ where = "idle" /\ where' = "guard" /\ runs < MaxRuns /\ runs' = runs + 1
      /\ UNCHANGED <<target, site, flying, doubt, told, cand, stage, attempted, clicked, acted,
                     best, shotFailed, prior, receipt, recovered, risk, licence, lost>>
  BY DEF NextRun, NewRun, opened, place, page, past
<1>2. /\ pending' = pending \/ pending' = NoPending
      /\ pending.day = "today" => pending' = pending \/ resolved' = TRUE
      /\ older' = older
      /\ resolved' = resolved \/ resolved' = TRUE
      /\ claim' = claim \/ (claim' = FALSE /\ resolved' = TRUE /\ pending' = NoPending)
  BY DEF NextRun, Reconciled, record
<1>3. NoPending \in [day : {"none", "yesterday", "today"}, bound : BOOLEAN] /\ NoPending.day = "none"
  BY DEF NoPending
<1>4. target.quarantined /\ ~told /\ ~shotFailed /\ ~risk /\ ~recovered
  BY <1>1 DEF VInv, Outset
<1>5. VisitTyped'
  <2>1. runs' \in 0..MaxRuns
    BY <1>1, QuarantineAssumption DEF VInv, VisitTyped
  <2>2. /\ pending' \in [day : {"none", "yesterday", "today"}, bound : BOOLEAN]
        /\ pending'.day = "none" => pending' = NoPending
    BY <1>2, <1>3 DEF VInv, VisitTyped
  <2>3. older' \in BOOLEAN /\ resolved' \in BOOLEAN /\ claim' \in BOOLEAN
    BY <1>2 DEF VInv, VisitTyped
  <2> QED
    BY <1>1, <2>1, <2>2, <2>3 DEF VInv, VisitTyped
<1>6. Outset' /\ SignedIsTold' /\ DoubtStops'
  BY <1>1, <1>4 DEF VInv, Outset, SignedIsTold, DoubtStops
<1>7. DoubtOnRecord'
  BY <1>1, <1>2, <1>3, <1>4 DEF VInv, VisitTyped, DoubtOnRecord, OnRecord, Uncertain
<1>8. OpenedForAReason' /\ ReportHolds' /\ RecoveryHolds'
  BY <1>1, <1>4 DEF OpenedForAReason, ReportHolds, RecoveryHolds, OnSite
<1>9. ReceiptsHold'
  BY <1>1 DEF VInv, ReceiptsHold
<1>10. OldPending'
  BY <1>1, <1>2, <1>3, <1>4 DEF VInv, OldPending, OnSite
<1> QED
  BY <1>5, <1>6, <1>7, <1>8, <1>9, <1>10 DEF VInv

\* What the engine knows of its run when it comes to the guard.
LEMMA GuardView ==
  ASSUME VInv, where = "guard"
  PROVE  /\ target.quarantined /\ target.guarded /\ ~told /\ ~shotFailed /\ ~risk /\ ~recovered
         /\ best.status # "signed"
BY TargetFacts DEF VInv, VisitTyped, Outset, SignedIsTold

LEMMA SettlesEffect ==
  ASSUME NEW r, Settles(r)
  PROVE  /\ where' = "over" /\ best' = r
         /\ told' = (r = Signed) /\ doubt' = IF r = Signed THEN 0 ELSE doubt
         /\ UNCHANGED <<target, site, flying, cand, stage, clicked, attempted, acted, shotFailed,
                        risk, licence>>
BY DEF Settles, opened, place, page

LEMMA VisitsEffect ==
  ASSUME Visits
  PROVE  /\ where' = "goto"
         /\ UNCHANGED <<target, site, flying, doubt, told, cand, stage, clicked, attempted, acted,
                        best, shotFailed, risk, licence>>
BY DEF Visits, opened, place, page

\* A run that makes no visit and has not learned of a check-in.
LEMMA DoubtfulResultKeeps ==
  ASSUME VInv, where = "guard", NEW r \in Result, r.status = "needs_attention", Settles(r),
         UNCHANGED <<record, prior, receipt, recovered, runs>>,
         lost' \in BOOLEAN, lost => lost',
         Uncertain(prior) /\ pending = NoPending => lost' \/ Uncertain(r)
  PROVE  VInv'
<1>1. r # Signed
  BY NamedResults
<1>2. /\ where' = "over" /\ best' = r /\ told' = FALSE /\ doubt' = doubt
      /\ UNCHANGED <<target, site, flying, cand, stage, clicked, attempted, acted, shotFailed,
                     risk, licence, pending, older, resolved, claim, prior, receipt, recovered, runs>>
  BY <1>1, SettlesEffect DEF record
<1>3. target.quarantined /\ ~shotFailed /\ ~risk /\ ~recovered
  BY GuardView
<1>4. VisitTyped'
  <2>1. told' \in BOOLEAN /\ where' \in Done /\ where' # "answer"
    BY <1>2 DEF Done
  <2> QED
    BY <1>2, <2>1 DEF VInv, VisitTyped
<1>5. Outset' /\ SignedIsTold' /\ DoubtStops'
  BY <1>2, <1>3 DEF Outset, SignedIsTold, DoubtStops
<1>6. DoubtOnRecord'
  BY <1>2, <1>3 DEF VInv, DoubtOnRecord, OnRecord, Uncertain
<1>7. OpenedForAReason' /\ RecoveryHolds' /\ ReportHolds'
  BY <1>2, <1>3 DEF OpenedForAReason, RecoveryHolds, ReportHolds, OnSite, Uncertain
<1>8. ReceiptsHold'
  BY <1>2 DEF VInv, ReceiptsHold
<1>9. OldPending'
  BY <1>2, <1>3 DEF VInv, OldPending, OnSite
<1> QED
  BY <1>4, <1>5, <1>6, <1>7, <1>8, <1>9 DEF VInv

LEMMA UnboundKeeps ==
  ASSUME VInv, Unbound
  PROVE  VInv'
<1>1. /\ where = "guard" /\ Settles(R("needs_attention", "no"))
      /\ lost' = (lost \/ (Uncertain(prior) /\ pending = NoPending))
      /\ UNCHANGED <<record, prior, receipt, recovered, runs>>
  BY DEF Unbound
<1>2. R("needs_attention", "no") \in Result /\ R("needs_attention", "no").status = "needs_attention"
  BY DEF R, Result, Statuses
<1>3. lost' \in BOOLEAN /\ (lost => lost') /\ (Uncertain(prior) /\ pending = NoPending => lost')
  BY <1>1 DEF VInv, VisitTyped
<1> QED
  BY <1>1, <1>2, <1>3, DoubtfulResultKeeps

LEMMA HeldKeeps ==
  ASSUME VInv, Held
  PROVE  VInv'
<1>1. /\ where = "guard" /\ Settles(Unknown)
      /\ UNCHANGED <<record, prior, receipt, recovered, runs>> /\ lost' = lost
  BY DEF Held
<1>2. lost' \in BOOLEAN /\ Uncertain(Unknown)
  BY <1>1 DEF VInv, VisitTyped, Uncertain
<1> QED
  BY <1>1, <1>2, NamedResults, DoubtfulResultKeeps

LEMMA VerifiedKeeps ==
  ASSUME VInv, Verified
  PROVE  VInv'
<1>1. where = "guard" /\ receipt = "signed" /\ Settles(Signed)
  BY DEF Verified
<1>2. /\ where' = "over" /\ best' = Signed /\ told' = TRUE /\ doubt' = 0
      /\ UNCHANGED <<target, site, flying, cand, stage, clicked, attempted, acted, shotFailed,
                     risk, licence, pending, older, resolved, claim, prior, receipt, recovered, runs, lost>>
  BY <1>1, SettlesEffect DEF Verified, record
<1>3. target.quarantined /\ ~shotFailed /\ ~risk /\ ~recovered
  BY <1>1, GuardView
<1>4. site
  BY <1>1 DEF VInv, ReceiptsHold
<1>5. VisitTyped'
  <2>1. told' \in BOOLEAN /\ doubt' \in Nat /\ best' \in Result
    BY <1>2, NamedResults
  <2> QED
    BY <1>2, <2>1 DEF VInv, VisitTyped, Done
<1>6. Outset' /\ DoubtStops'
  BY <1>2 DEF Outset, DoubtStops
<1>7. SignedIsTold'
  <2>1. site' /\ told'
    BY <1>2, <1>4
  <2>2. best'.status = "signed"
    BY <1>2, NamedResults
  <2>3. where' \in Done /\ ~(doubt' > 0)
    BY <1>2 DEF Done
  <2> QED
    BY <2>1, <2>2, <2>3 DEF SignedIsTold
<1>8. DoubtOnRecord' /\ OpenedForAReason' /\ RecoveryHolds' /\ ReportHolds'
  BY <1>2, <1>3 DEF DoubtOnRecord, OpenedForAReason, RecoveryHolds, ReportHolds
<1>9. ReceiptsHold'
  BY <1>2 DEF VInv, ReceiptsHold
<1>10. OldPending'
  BY <1>1, <1>2, <1>3 DEF OldPending, OnSite
<1> QED
  BY <1>5, <1>6, <1>7, <1>8, <1>9, <1>10 DEF VInv

LEMMA ClaimKeeps ==
  ASSUME VInv, Claim
  PROVE  VInv'
<1>1. /\ where = "guard" /\ receipt = "unsigned" /\ receipt' = "old"
      /\ claim' = TRUE /\ recovered' = TRUE
      /\ UNCHANGED <<pending, older, resolved, prior, runs, lost>>
  BY DEF Claim, Claimable, Outdated
<1>2. /\ where' = "goto"
      /\ UNCHANGED <<target, site, flying, doubt, told, cand, stage, clicked, attempted, acted,
                     best, shotFailed, risk, licence>>
  BY VisitsEffect DEF Claim
<1>3. target.quarantined /\ ~shotFailed /\ ~risk /\ ~told
  BY <1>1, GuardView
<1>4. (licence \/ lost) /\ prior.status # "signed"
  BY <1>1, <1>3 DEF VInv, ReceiptsHold
<1>5. VisitTyped'
  <2>1. claim' \in BOOLEAN /\ recovered' \in BOOLEAN
    BY <1>1
  <2> QED
    BY <1>1, <1>2, <2>1 DEF VInv, VisitTyped, OnSite
<1>6. Outset' /\ SignedIsTold' /\ DoubtStops'
  BY <1>2, <1>3, <1>1 DEF VInv, Outset, SignedIsTold, DoubtStops
<1>7. DoubtOnRecord' /\ OpenedForAReason'
  BY <1>1, <1>2, <1>3, <1>4 DEF DoubtOnRecord, OpenedForAReason
<1>8. ReceiptsHold' /\ OldPending' /\ RecoveryHolds' /\ ReportHolds'
  BY <1>1, <1>2, <1>3, <1>4 DEF ReceiptsHold, OldPending, RecoveryHolds, ReportHolds
<1> QED
  BY <1>5, <1>6, <1>7, <1>8 DEF VInv

LEMMA OpenKeeps ==
  ASSUME VInv, Open
  PROVE  VInv'
<1>1. /\ where = "guard" /\ receipt # "signed" /\ (~Blocked \/ Outweighed)
      /\ UNCHANGED <<pending, older, resolved, claim, prior, receipt, recovered, runs, lost>>
  BY DEF Open, record
<1>2. /\ where' = "goto"
      /\ UNCHANGED <<target, site, flying, doubt, told, cand, stage, clicked, attempted, acted,
                     best, shotFailed, risk, licence>>
  BY VisitsEffect DEF Open
<1>3. target.quarantined /\ ~shotFailed /\ ~risk /\ ~told /\ ~recovered
  BY <1>1, GuardView
<1>4. \/ pending = NoPending /\ ~claim /\ (~older \/ resolved) /\ (~Uncertain(prior) \/ resolved)
      \/ prior.status = "signed"
  BY <1>1 DEF Blocked, Outweighed
<1>5. VisitTyped'
  BY <1>1, <1>2 DEF VInv, VisitTyped, OnSite
<1>6. Outset' /\ SignedIsTold' /\ DoubtStops'
  BY <1>1, <1>2, <1>3 DEF VInv, Outset, SignedIsTold, DoubtStops
<1>7. DoubtOnRecord'
  BY <1>1, <1>2, <1>3 DEF VInv, DoubtOnRecord, OnRecord, Uncertain
<1>8. OpenedForAReason'
  <2> SUFFICES ASSUME doubt > 0, ~licence, ~lost, prior.status # "signed" PROVE resolved
    BY <1>1, <1>2 DEF OpenedForAReason
  <2>1. pending.day = "none"
    BY <1>4 DEF NoPending
  <2> QED
    BY <1>3, <1>4, <2>1 DEF VInv, DoubtOnRecord, OnRecord
<1>9. ReceiptsHold' /\ RecoveryHolds'
  BY <1>1, <1>2, <1>3 DEF VInv, ReceiptsHold, RecoveryHolds
<1>10. OldPending'
  <2> SUFFICES ASSUME pending.day = "yesterday" PROVE claim
    BY <1>1, <1>2 DEF OldPending
  <2>1. prior.status = "signed"
    BY <1>4 DEF NoPending
  <2> QED
    BY <1>1, <2>1 DEF VInv, OldPending
<1>11. ReportHolds'
  <2>1. Uncertain(prior) => prior.status # "signed"
    BY NamedResults DEF Uncertain
  <2> QED
    BY <1>1, <1>2, <1>4, <2>1 DEF ReportHolds, Uncertain
<1> QED
  BY <1>5, <1>6, <1>7, <1>8, <1>9, <1>10, <1>11 DEF VInv

-----------------------------------------------------------------------------
LEMMA VisitsBegin == QInit => VInv
<1> SUFFICES ASSUME QInit PROVE VInv
  OBVIOUS
<1>1. /\ target \in Targets /\ site \in BOOLEAN /\ flying = 0 /\ doubt = 0 /\ told = FALSE
      /\ cand = 1 /\ stage = 1 /\ where = (IF target.quarantined THEN "idle" ELSE "goto")
      /\ attempted = FALSE /\ clicked = FALSE /\ acted = FALSE /\ best = Nothing /\ shotFailed = FALSE
      /\ pending \in IF target.quarantined
                     THEN {NoPending} \cup [day : {"yesterday"}, bound : BOOLEAN] ELSE {NoPending}
      /\ older = FALSE /\ resolved = FALSE /\ claim = FALSE /\ prior = Nothing /\ receipt = "none"
      /\ recovered = FALSE /\ runs = 0 /\ risk = FALSE /\ licence = FALSE /\ lost = FALSE
  BY DEF QInit, VisitInit
<1>2. target.quarantined \in BOOLEAN
  BY <1>1, TargetFacts
<1>3. /\ pending \in [day : {"none", "yesterday", "today"}, bound : BOOLEAN]
      /\ pending.day = "none" => pending = NoPending
      /\ pending.day = "yesterday" => target.quarantined
  <2>1. CASE target.quarantined
    <3>1. pending = NoPending \/ pending \in [day : {"yesterday"}, bound : BOOLEAN]
      BY <1>1, <2>1
    <3>2. CASE pending = NoPending
      BY <3>2, <2>1 DEF NoPending
    <3>3. CASE pending \in [day : {"yesterday"}, bound : BOOLEAN]
      BY <3>3, <2>1
    <3> QED
      BY <3>1, <3>2, <3>3
  <2>2. CASE ~target.quarantined
    <3>1. pending = NoPending
      BY <1>1, <2>2
    <3> QED
      BY <3>1 DEF NoPending
  <2> QED
    BY <1>2, <2>1, <2>2
<1>4. VisitTyped
  <2>1. Len(target.candidates) \in Nat /\ Len(target.candidates) >= 1
    BY <1>1, TargetFacts
  <2>2. Len(target.candidates[1]) \in Nat /\ Len(target.candidates[1]) >= 1
    BY <1>1, <2>1, TargetFacts
  <2>3. cand \in 1..Len(target.candidates) /\ stage \in 1..Len(target.candidates[cand])
    BY <1>1, <2>1, <2>2
  <2>4. where \in {"idle", "goto"} /\ runs \in 0..MaxRuns /\ best \in Result /\ prior \in Result
    <3>1. where \in {"idle", "goto"}
      BY <1>1
    <3>2. runs \in 0..MaxRuns
      BY <1>1, QuarantineAssumption
    <3>3. best \in Result /\ prior \in Result
      BY <1>1, NamedResults
    <3> QED
      BY <3>1, <3>2, <3>3
  <2>5. /\ told \in BOOLEAN /\ shotFailed \in BOOLEAN /\ attempted \in BOOLEAN /\ acted \in BOOLEAN
        /\ clicked \in BOOLEAN /\ older \in BOOLEAN /\ resolved \in BOOLEAN /\ claim \in BOOLEAN
        /\ recovered \in BOOLEAN /\ risk \in BOOLEAN /\ licence \in BOOLEAN /\ lost \in BOOLEAN
    BY <1>1
  <2> QED
    BY <1>1, <1>3, <2>3, <2>4, <2>5 DEF VisitTyped, OnSite
<1>5. Outset /\ SignedIsTold /\ DoubtStops
  <2>1. where \in {"idle", "guard", "saving"} => target.quarantined
    BY <1>1, <1>2
  <2>2. best.status = "none" /\ ~told /\ ~shotFailed /\ ~risk /\ ~recovered
    BY <1>1, NamedResults
  <2> QED
    BY <2>1, <2>2 DEF Outset, SignedIsTold, DoubtStops
<1>6. DoubtOnRecord /\ OpenedForAReason /\ ReceiptsHold /\ RecoveryHolds /\ ReportHolds
  <2>1. ~(doubt > 0) /\ ~recovered
    BY <1>1
  <2>2. prior.status # "signed" /\ receipt = "none"
    BY <1>1, NamedResults
  <2> QED
    BY <2>1, <2>2 DEF DoubtOnRecord, OpenedForAReason, ReceiptsHold, RecoveryHolds, ReportHolds
<1>7. OldPending
  BY <1>1, <1>3, NamedResults DEF OldPending, OnSite
<1> QED
  BY <1>4, <1>5, <1>6, <1>7 DEF VInv

LEMMA VisitsKeep == VInv /\ [QNext]_<<visitVars, own>> => VInv'
<1> SUFFICES ASSUME VInv, [QNext]_<<visitVars, own>> PROVE VInv'
  OBVIOUS
<1>1. CASE Visiting
  BY <1>1, VisitingKeeps
<1>2. CASE Read
  BY <1>2, ReadKeeps
<1>3. CASE Ages
  BY <1>3, AgesKeeps
<1>4. CASE WriteReport
  BY <1>4, WriteReportKeeps
<1>5. CASE WriteSiteState
  BY <1>5, WriteSiteStateKeeps
<1>6. CASE Dies
  BY <1>6, DiesKeeps
<1>7. CASE NextRun
  BY <1>7, NextRunKeeps
<1>8. CASE Unbound
  BY <1>8, UnboundKeeps
<1>9. CASE Verified
  BY <1>9, VerifiedKeeps
<1>10. CASE Held
  BY <1>10, HeldKeeps
<1>11. CASE Claim
  BY <1>11, ClaimKeeps
<1>12. CASE Open
  BY <1>12, OpenKeeps
<1>13. CASE UNCHANGED <<visitVars, own>>
  <2>1. UNCHANGED <<target, site, flying, doubt, told, cand, stage, where, attempted, clicked, acted,
                    best, shotFailed, pending, older, resolved, claim, prior, receipt, recovered, runs,
                    risk, licence, lost>>
    BY <1>13 DEF visitVars, own, record, past
  <2>2. VisitTyped' /\ Outset' /\ SignedIsTold' /\ DoubtStops'
    BY <2>1 DEF VInv, VisitTyped, Outset, SignedIsTold, DoubtStops
  <2>3. DoubtOnRecord' /\ OpenedForAReason' /\ ReceiptsHold' /\ OldPending' /\ RecoveryHolds' /\ ReportHolds'
    BY <2>1 DEF VInv, DoubtOnRecord, OnRecord, OpenedForAReason, ReceiptsHold, OldPending,
       RecoveryHolds, ReportHolds, Uncertain
  <2> QED
    BY <2>2, <2>3 DEF VInv
<1> QED
  BY <1>1, <1>2, <1>3, <1>4, <1>5, <1>6, <1>7, <1>8, <1>9, <1>10, <1>11, <1>12, <1>13
     DEF QNext, Saves, Guard

LEMMA VisitsStayInvariant == QSpec => []VInv
BY VisitsBegin, VisitsKeep, PTL DEF QSpec

(* Every variable of the day's runs is of its type.                        *)
THEOREM QuarantineIsTyped == QSpec => []QTypeOK
<1>1. VInv => QTypeOK
  BY DEF VInv, VisitTyped, QTypeOK
<1> QED
  BY <1>1, VisitsStayInvariant, PTL

(* A PT submission in doubt is not opened again by any candidate, attempt, *)
(* fresh context, recovery round or, at OpenCD, later run of the day, but  *)
(* for a reading, a resolution or a check-in that permits it, a screenshot *)
(* that throws, or records that are lost (pt-submission-guard,             *)
(* quota-claim-guard).                                                     *)
THEOREM DoubtIsNotOpenedAgain == QSpec => []DoubtEndsTheVisit
<1>1. VInv => DoubtEndsTheVisit
  <2> SUFFICES ASSUME VInv, target.guarded, where = "goto", doubt > 0, ~shotFailed,
                      ~licence, ~resolved, prior.status # "signed", ~lost
               PROVE  FALSE
    BY DEF DoubtEndsTheVisit
  <2>1. CASE ~risk
    BY <2>1 DEF VInv, OpenedForAReason, OnSite
  <2>2. CASE risk
    <3>1. ~told
      BY DEF VInv, SignedIsTold, Done
    <3> QED
      BY <2>2, <3>1 DEF VInv, DoubtStops, Done
  <2> QED
    BY <2>1, <2>2
<1> QED
  BY <1>1, VisitsStayInvariant, PTL

(* A run that leaves a PT submission in doubt reports that it needs        *)
(* attention (guardPtSubmission, preferCandidateResult).                   *)
THEOREM DoubtIsReported == QSpec => []DoubtNeedsAttention
<1>1. VInv => DoubtNeedsAttention
  BY DEF VInv, DoubtStops, DoubtNeedsAttention
<1> QED
  BY <1>1, VisitsStayInvariant, PTL

(* A check-in that was read as recorded ends the visit, unless a failure   *)
(* screenshot throws (processTarget).                                      *)
THEOREM ConfirmedIsNotOpenedAgain == QSpec => []ConfirmedEndsTheVisit
<1>1. VInv => ConfirmedEndsTheVisit
  BY DEF VInv, SignedIsTold, ConfirmedEndsTheVisit, Done
<1> QED
  BY <1>1, VisitsStayInvariant, PTL

-----------------------------------------------------------------------------
(* What was submitted in a call of processTarget: the candidate at work did *)
(* it, or an earlier one did, and is not counted as one that did not.       *)
LoginUnsubmitted == R("login_required", "no")
Accounted ==
  /\ sent /\ ~hidden /\ ~shotFailed => ~clean \/ (where \in {"look", "answer"} /\ posted)
  /\ where = "report" /\ best = LoginUnsubmitted => clean \/ shotFailed

LEMMA ClosesAccounted ==
  ASSUME Accounted, where \in {"look", "answer"}, NEW r, NEW left, Close(r, left)
  PROVE  Accounted'
<1>1. /\ clean' = (clean /\ Guarded(r).submitted = "no")
      /\ hidden' = (hidden \/ (posted /\ Guarded(r).submitted = "no"))
      /\ UNCHANGED <<sent, shotFailed>> /\ where' \in {"settle", "goto"}
  BY DEF Close, Unsubmitted
<1> QED BY <1>1 DEF Accounted

LEMMA ContinuesAccounted ==
  ASSUME Accounted, where \in {"look", "answer"}, NEW o, NEW left, Continue(o, left)
  PROVE  Accounted'
<1>1. ASSUME NEW to, NEW try, GoOn(to, try, left) PROVE Accounted'
  <2>1. where' = "look" /\ UNCHANGED <<sent, hidden, shotFailed, clean, posted>>
    BY <1>1 DEF GoOn, page
  <2> QED BY <2>1 DEF Accounted
<1>2. (\E r : Close(r, left)) \/ (\E to, try : GoOn(to, try, left))
  BY DEF Continue
<1> QED BY <1>1, <1>2, ClosesAccounted

LEMMA PageAccounted ==
  ASSUME Accounted, Visit
  PROVE  Accounted'
<1>1. CASE OpenCandidate
  <2>1. where = "goto" /\ where' = "look" /\ UNCHANGED <<sent, hidden, shotFailed, clean>>
    BY <1>1 DEF OpenCandidate
  <2> QED BY <2>1 DEF Accounted
<1>2. CASE Submit
  <2>1. where' = "answer" /\ posted' = TRUE
    BY <1>2 DEF Submit
  <2> QED BY <2>1 DEF Accounted
<1>3. CASE LookAtSite
  BY <1>3, ContinuesAccounted DEF LookAtSite
<1>4. CASE GateCloses
  BY <1>4, ClosesAccounted DEF GateCloses
<1>5. CASE AnswerArrives
  BY <1>5, ContinuesAccounted DEF AnswerArrives
<1>6. CASE PageBreaks
  BY <1>6, ClosesAccounted DEF PageBreaks
<1> QED BY <1>1, <1>2, <1>3, <1>4, <1>5, <1>6 DEF Visit

LEMMA EngineAccounted ==
  ASSUME VInv, Accounted, Engine
  PROVE  Accounted'
<1>1. CASE Settle
  <2>1. /\ where = "settle" /\ where' = "report" /\ best' = Concluded(best)
        /\ UNCHANGED <<sent, hidden, shotFailed, clean>>
    BY <1>1 DEF Settle
  <2>2. best' = LoginUnsubmitted => clean
    <3> SUFFICES ASSUME best' = LoginUnsubmitted, ~clean PROVE FALSE
      OBVIOUS
    <3>1. best \in Result /\ best'.status = "login_required" /\ best'.submitted = "no"
      BY DEF LoginUnsubmitted, R, VInv, VisitTyped
    <3>2. CASE best.status = "login_required"
      <4>1. best' = [best EXCEPT !.submitted = "unset"]
        BY <2>1, <3>2 DEF Concluded
      <4> QED BY <3>1, <4>1 DEF Result
    <3>3. CASE best.status # "login_required"
      BY <2>1, <3>1, <3>3 DEF Concluded
    <3> QED BY <3>2, <3>3
  <2> QED BY <2>1, <2>2 DEF Accounted
<1>2. CASE Reopen
  <2>1. where = "settle" /\ where' = "goto" /\ UNCHANGED <<sent, hidden, shotFailed, clean>>
    BY <1>2 DEF Reopen, StartAttempt
  <2> QED BY <2>1 DEF Accounted
<1>3. CASE ShotFails
  BY <1>3 DEF ShotFails, Accounted
<1>4. CASE Refresh \/ Recover
  <2>1. sent' = FALSE /\ where' = "goto"
    BY <1>4 DEF Refresh, Recover, StartAttempt, Anew
  <2> QED BY <2>1 DEF Accounted
<1>5. CASE LoginDecides
  <2>1. /\ where = "report" /\ UNCHANGED <<where, sent, hidden, shotFailed, clean>>
        /\ best' \in {R("needs_attention", "unset"), Upstream("unset")} \cup Known(site)
    BY <1>5 DEF LoginDecides, Reported
  <2>a. best' = R("needs_attention", "unset") \/ best' = Upstream("unset") \/ best' = Signed
    BY <2>1 DEF Known
  <2>b. /\ R("needs_attention", "unset").status = "needs_attention"
        /\ Upstream("unset").status = "deferred" /\ Signed.status = "signed"
        /\ LoginUnsubmitted.status = "login_required"
    BY DEF R, Upstream, Signed, LoginUnsubmitted
  <2>3. best' # LoginUnsubmitted
    BY <2>a, <2>b
  <2> QED BY <2>1, <2>3 DEF Accounted
<1>6. CASE Over
  <2>1. where = "report" /\ where' = "over" /\ UNCHANGED <<sent, hidden, shotFailed, clean>>
    BY <1>6 DEF Over, Reported
  <2> QED BY <2>1 DEF Accounted
<1> QED BY <1>1, <1>2, <1>3, <1>4, <1>5, <1>6 DEF Engine

LEMMA AccountedKept == VInv /\ Accounted /\ [QNext]_<<visitVars, own>> => Accounted'
<1> SUFFICES ASSUME VInv, Accounted, [QNext]_<<visitVars, own>> PROVE Accounted'
  OBVIOUS
<1>1. CASE Visiting
  <2>1. CASE Visit BY <2>1, PageAccounted
  <2>2. CASE Engine BY <2>2, EngineAccounted
  <2>3. CASE Land \/ Drop BY <2>3 DEF Land, Drop, Elsewhere, page, Accounted
  <2> QED BY <1>1, <2>1, <2>2, <2>3 DEF Visiting, VisitNext
<1>2. CASE Read \/ Ages \/ UNCHANGED visitVars
  BY <1>2 DEF Read, Ages, visitVars, Accounted
<1>3. CASE WriteReport \/ NextRun \/ Unbound \/ Verified \/ Held \/ Claim \/ Open
  <2>1. /\ where \notin {"look", "answer"} /\ where' # "report"
        /\ UNCHANGED <<sent, hidden, shotFailed, clean>>
    BY <1>3 DEF WriteReport, NextRun, NewRun, Unbound, Verified, Held, Claim, Open, Settles, Visits
  <2> QED BY <2>1 DEF Accounted
<1>4. CASE WriteSiteState \/ Dies
  BY <1>4 DEF WriteSiteState, Dies, Exits, Accounted
<1> QED BY <1>1, <1>2, <1>3, <1>4 DEF QNext, Saves, Guard

(* "Login required, nothing submitted" is true of the whole call of        *)
(* processTarget, of every candidate, attempt and repetition in it, as far *)
(* as each candidate told the truth about itself (allCandidatesUnsubmitted)*)
(* and no failure screenshot has thrown.                                   *)
THEOREM LoginResultsAreClean == QSpec => []LoginIsClean
<1>1. QInit => Accounted
  BY DEF QInit, VisitInit, Accounted
<1>2. Accounted => LoginIsClean
  BY DEF Accounted, LoginIsClean, LoginUnsubmitted
<1> QED BY <1>1, <1>2, AccountedKept, VisitsStayInvariant, PTL DEF QSpec

=============================================================================
