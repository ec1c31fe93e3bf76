------------------------- MODULE LoginRecoveryProofs -------------------------
(***************************************************************************)
(* First the journaled authentications alone (TwoFactor), for every set of *)
(* them and every number of days: no second authentication POST on a day   *)
(* unless its entry was lost, and no entry is lost unless a session        *)
(* outlived its engine.  Then the login recovery of the engine: it only    *)
(* ever moves these authentications as TwoFactor says, so what is proved   *)
(* there holds here; a refused credential or factor ends the logins of its *)
(* site; what the engine books on a helper's word is a reward; a shared    *)
(* upstream is charged up to its limit; and a logout has its reason.       *)
(***************************************************************************)
EXTENDS LoginRecovery, FiniteSetTheorems, TLAPS

Pcs == {"idle", "open", "code", "checked", "sending", "waiting"}
Outs == {"none", "logged_in", "two_factor", "killed"}
Sessions == [pc : Pcs, day : 0 .. LastDay, mem : SUBSET Attempts, orphan : BOOLEAN, out : Outs]

TypeOK ==
    /\ today \in Days
    /\ journal \in [Files -> SUBSET Attempts]
    /\ sess \in [Kinds -> Sessions]
    /\ \A k \in Kinds : sess[k].pc # "idle" => sess[k].day \in Days
    /\ engineUp \in BOOLEAN /\ orphaned \in BOOLEAN
    /\ sent \in [Bookings -> [Days -> 0 .. 2]]
    /\ lost \subseteq Attempts

Of(e, k, d) == e.kind = k /\ e.date = d
Dropped(k, d) == \E e \in lost : Of(e, k, d)
Recorded(k, d) == (\E e \in journal[File(k)] : Of(e, k, d)) \/ Dropped(k, d)

(* What was sent is on record, and so is what is about to be sent.         *)
SentIsRecorded ==
    \A k \in Kinds, d \in Days : sent[k][d] > 0 => Recorded(k, d)
SendingIsFirst ==
    \A k \in Kinds : sess[k].pc = "sending" =>
        /\ Recorded(k, sess[k].day)
        /\ sent[k][sess[k].day] = 0 \/ Dropped(k, sess[k].day)
SentOnce ==
    \A k \in Kinds, d \in Days : sent[k][d] > 1 => Dropped(k, d)

Inv == TypeOK /\ SentIsRecorded /\ SendingIsFirst /\ SentOnce

(* As long as no session outlives its engine, whoever is about to write    *)
(* holds the whole journal, for nobody else works on the same file.        *)
Writes(k) == sess[k].pc \in {"sending", "waiting"}
Attended ==
    ~orphaned =>
        /\ lost = {}
        /\ \A k \in Kinds :
              /\ Writes(k) => sess[k].mem = journal[File(k)]
              /\ Live(k) => IF k = "stepup" THEN ~engineUp ELSE engineUp /\ ~sess[k].orphan

----------------------------------------------------------------------------
LEMMA FileType == \A k \in Kinds : File(k) \in Files
BY DEF Files

(* Two kinds that share a file are the step-up and the password login.     *)
LEMMA Sharing ==
    \A k, j \in Kinds : k # j /\ File(k) = File(j) => (k = "stepup") # (j = "stepup")
BY TwoFactorAssumption DEF File

(* What is recorded stays recorded, in the journal or among the lost.      *)
LEMMA Monotone ==
    ASSUME TypeOK, NEW k \in Kinds, NEW entries \in SUBSET Attempts, Replace(k, entries)
    PROVE  /\ journal' \in [Files -> SUBSET Attempts] /\ lost' \subseteq Attempts
           /\ \A j \in Kinds, d \in Days : Recorded(j, d) => Recorded(j, d)'
           /\ \A j \in Kinds, d \in Days : Dropped(j, d) => Dropped(j, d)'
<1>1. File(k) \in Files BY FileType
<1>2. journal' \in [Files -> SUBSET Attempts] /\ lost' \subseteq Attempts
  BY <1>1 DEF TypeOK, Replace
<1>3. ASSUME NEW j \in Kinds, NEW d \in Days, Dropped(j, d) PROVE Dropped(j, d)'
  BY <1>3 DEF Dropped, Of, Replace
<1>4. ASSUME NEW j \in Kinds, NEW d \in Days, Recorded(j, d) PROVE Recorded(j, d)'
  <2>1. CASE Dropped(j, d) BY <2>1, <1>3 DEF Recorded
  <2>2. CASE \E e \in journal[File(j)] : Of(e, j, d)
    <3>1. PICK e \in journal[File(j)] : Of(e, j, d) BY <2>2
    <3>2. e \in journal'[File(j)] \/ e \in lost'
      BY <1>1, FileType DEF TypeOK, Replace
    <3> QED BY <3>1, <3>2 DEF Recorded, Dropped, Of
  <2> QED BY <2>1, <2>2, <1>4 DEF Recorded
<1> QED BY <1>2, <1>3, <1>4

(* A step that records no attempt and sends none keeps the invariant.      *)
LEMMA Quiet ==
    ASSUME Inv, TypeOK', sent' = sent,
           \A j \in Kinds, d \in Days : Recorded(j, d) => Recorded(j, d)',
           \A j \in Kinds, d \in Days : Dropped(j, d) => Dropped(j, d)',
           \A j \in Kinds : sess'[j].pc = "sending" => sess[j].pc = "sending" /\ sess'[j].day = sess[j].day
    PROVE  Inv'
<1>1. SentIsRecorded' BY DEF Inv, SentIsRecorded
<1>2. SentOnce' BY DEF Inv, SentOnce
<1>3. SendingIsFirst'
  <2> SUFFICES ASSUME NEW k \in Kinds, sess'[k].pc = "sending"
               PROVE  /\ Recorded(k, sess[k].day)'
                      /\ sent'[k][sess'[k].day] = 0 \/ Dropped(k, sess[k].day)'
    BY DEF SendingIsFirst
  <2>1. sess[k].pc = "sending" /\ sess'[k].day = sess[k].day OBVIOUS
  <2>2. sess[k].day \in Days BY <2>1 DEF Inv, TypeOK
  <2>3. Recorded(k, sess[k].day) /\ (sent[k][sess[k].day] = 0 \/ Dropped(k, sess[k].day))
    BY <2>1 DEF Inv, SendingIsFirst
  <2> QED BY <2>1, <2>2, <2>3 DEF Recorded, Dropped, Of
<1> QED BY <1>1, <1>2, <1>3 DEF Inv

----------------------------------------------------------------------------
(* How a step changes the session of its kind.                             *)
LEMMA Sessioned ==
    ASSUME TypeOK, NEW k \in Kinds,
           \/ \E pc \in Pcs : (sess[k].pc # "idle" \/ pc = "idle") /\ Go(k, pc)
           \/ \E out \in Outs : Over(k, out)
           \/ Open(k)
    PROVE  /\ sess' \in [Kinds -> Sessions]
           /\ \A j \in Kinds : sess'[j].pc # "idle" => sess'[j].day \in Days
           /\ \A j \in Kinds : j # k => sess'[j] = sess[j]
<1>1. Idle \in Sessions /\ today \in 0 .. LastDay
  BY TwoFactorAssumption DEF Idle, Sessions, Pcs, Outs, TypeOK, Days
<1>2. CASE \E pc \in Pcs : (sess[k].pc # "idle" \/ pc = "idle") /\ Go(k, pc)
  <2>1. PICK pc \in Pcs : (sess[k].pc # "idle" \/ pc = "idle") /\ Go(k, pc) BY <1>2
  <2>2. sess' = [sess EXCEPT ![k] = [sess[k] EXCEPT !.pc = pc]] BY <2>1 DEF Go
  <2>3. [sess[k] EXCEPT !.pc = pc] \in Sessions BY DEF TypeOK, Sessions
  <2>4. sess'[k].pc = pc /\ sess'[k].day = sess[k].day BY <2>2 DEF TypeOK, Sessions
  <2> QED BY <2>1, <2>2, <2>3, <2>4 DEF TypeOK
<1>3. CASE \E out \in Outs : Over(k, out)
  <2>1. PICK out \in Outs : Over(k, out) BY <1>3
  <2>2. [Idle EXCEPT !.out = out] \in Sessions BY <1>1 DEF Idle, Sessions
  <2> QED BY <1>1, <2>1, <2>2 DEF TypeOK, Over, Idle
<1>4. CASE Open(k)
  BY <1>1, <1>4 DEF TypeOK, Open, Idle, Sessions, Pcs, Days
<1> QED BY <1>2, <1>3, <1>4

(* Beginnings, checks, endings: nothing is recorded, nothing sent.         *)
LEMMA Routine ==
    ASSUME Inv, NEW k \in Kinds,
           \/ \E pc \in {"code", "checked", "waiting"} : sess[k].pc # "idle" /\ Go(k, pc)
           \/ \E out \in Outs : Over(k, out)
           \/ Open(k),
           UNCHANGED <<today, engineUp, sent, orphaned>>,
           UNCHANGED <<journal, lost>> \/ Replace(k, sess[k].mem)
    PROVE  Inv'
<1>1. TypeOK BY DEF Inv
<1>2. \/ \E pc \in Pcs : (sess[k].pc # "idle" \/ pc = "idle") /\ Go(k, pc)
      \/ \E out \in Outs : Over(k, out)
      \/ Open(k)
  BY DEF Pcs
<1>3. /\ sess' \in [Kinds -> Sessions]
      /\ \A j \in Kinds : sess'[j].pc # "idle" => sess'[j].day \in Days
      /\ \A j \in Kinds : j # k => sess'[j] = sess[j]
  BY <1>1, <1>2, Sessioned
<1>4. sess'[k].pc # "sending"
  <2>1. ASSUME NEW pc \in {"code", "checked", "waiting"}, Go(k, pc) PROVE sess'[k].pc # "sending"
    BY <1>1, <2>1 DEF TypeOK, Sessions, Go
  <2>2. ASSUME NEW out \in Outs, Over(k, out) PROVE sess'[k].pc # "sending"
    BY <1>1, <2>2 DEF TypeOK, Over, Idle
  <2>3. ASSUME Open(k) PROVE sess'[k].pc # "sending"
    BY <1>1, <2>3 DEF TypeOK, Open, Idle
  <2> QED BY <2>1, <2>2, <2>3
<1>5. sess[k].mem \in SUBSET Attempts BY <1>1 DEF TypeOK, Sessions
<1>6. /\ journal' \in [Files -> SUBSET Attempts] /\ lost' \subseteq Attempts
      /\ \A j \in Kinds, d \in Days : Recorded(j, d) => Recorded(j, d)'
      /\ \A j \in Kinds, d \in Days : Dropped(j, d) => Dropped(j, d)'
  <2>1. CASE Replace(k, sess[k].mem) BY <2>1, <1>1, <1>5, Monotone
  <2>2. CASE UNCHANGED <<journal, lost>> BY <2>2, <1>1 DEF TypeOK, Recorded, Dropped
  <2> QED BY <2>1, <2>2
<1>7. TypeOK' BY <1>1, <1>3, <1>6 DEF TypeOK
<1> QED BY <1>3, <1>4, <1>6, <1>7, Quiet

(* A booking, of a day on which the journal shows no attempt.              *)
LEMMA Recording ==
    ASSUME Inv, NEW k \in Kinds, NEW at \in Days,
           sess[k].pc # "idle", Free(k, sess[k].day), Book(k, journal[File(k)], at)
    PROVE  Inv'
<1> DEFINE day == sess[k].day
           all == journal[File(k)] \cup {Attempt(k, day, at)}
<1>1. TypeOK /\ day \in Days BY DEF Inv, TypeOK
<1>2. Attempt(k, day, at) \in Attempts BY <1>1 DEF Attempts
<1>3. all \in SUBSET Attempts BY <1>1, <1>2, FileType DEF TypeOK
<1>4. Replace(k, all) BY DEF Book
<1>5. /\ journal' \in [Files -> SUBSET Attempts] /\ lost' \subseteq Attempts
      /\ \A j \in Kinds, d \in Days : Recorded(j, d) => Recorded(j, d)'
      /\ \A j \in Kinds, d \in Days : Dropped(j, d) => Dropped(j, d)'
  BY <1>1, <1>3, <1>4, Monotone
<1>6. sess' = [sess EXCEPT ![k].mem = all, ![k].pc = "sending"] /\ sent' = sent
  BY DEF Book
<1>7. /\ sess' \in [Kinds -> Sessions] /\ \A j \in Kinds : sess'[j].day = sess[j].day
      /\ \A j \in Kinds : j # k => sess'[j] = sess[j]
  <2> DEFINE s == [sess[k] EXCEPT !.mem = all, !.pc = "sending"]
  <2>1. sess \in [Kinds -> Sessions] /\ sess' = [sess EXCEPT ![k] = s]
    BY <1>1, <1>6 DEF TypeOK
  <2> HIDE DEF all
  <2>2. s \in Sessions /\ s.day = sess[k].day
    BY <1>3, <2>1 DEF Sessions, Pcs
  <2> HIDE DEF s
  <2> QED BY <2>1, <2>2
<1>8. TypeOK' BY <1>1, <1>5, <1>6, <1>7 DEF TypeOK, Book
<1>9. SentIsRecorded' BY <1>5, <1>6 DEF Inv, SentIsRecorded
<1>10. SentOnce' BY <1>5, <1>6 DEF Inv, SentOnce
<1>11. Attempt(k, day, at) \in journal'[File(k)] /\ Of(Attempt(k, day, at), k, day)
  BY <1>1, <1>4, FileType DEF TypeOK, Replace, Attempt, Of
<1>12. \E e \in journal'[File(k)] : Of(e, k, day) BY <1>11
<1>13. ~\E e \in journal[File(k)] : Of(e, k, day) BY DEF Free, Attempted, Of
<1>14. sent[k][day] = 0 \/ Dropped(k, day)
  <2>1. sent[k][day] \in 0 .. 2 BY <1>1 DEF TypeOK, Bookings
  <2>2. sent[k][day] > 0 => Recorded(k, day) BY <1>1 DEF Inv, SentIsRecorded
  <2> QED BY <2>1, <2>2, <1>13 DEF Recorded
<1>15. SendingIsFirst'
  <2> SUFFICES ASSUME NEW j \in Kinds, sess'[j].pc = "sending"
               PROVE  /\ Recorded(j, sess[j].day)'
                      /\ sent'[j][sess'[j].day] = 0 \/ Dropped(j, sess[j].day)'
    BY DEF SendingIsFirst
  <2>1. CASE j = k
    <3>1. sess'[k].day = day BY <1>7
    <3>2. Recorded(k, sess[k].day)' BY <1>12, <3>1 DEF Recorded
    <3>3. sent'[k][sess'[k].day] = 0 \/ Dropped(k, sess[k].day)'
      <4>1. Dropped(k, day) => \E e \in lost' : Of(e, k, day) BY <1>1, <1>5 DEF Dropped, Of
      <4> QED BY <1>14, <4>1, <3>1, <1>6 DEF Dropped, Of
    <3> QED BY <2>1, <3>2, <3>3
  <2>2. CASE j # k
    <3>1. sess'[j] = sess[j] BY <1>7, <2>2
    <3>2. sess[j].day \in Days BY <3>1, <1>1 DEF TypeOK
    <3>3. Recorded(j, sess[j].day) /\ (sent[j][sess[j].day] = 0 \/ Dropped(j, sess[j].day))
      BY <3>1 DEF Inv, SendingIsFirst
    <3>4. Recorded(j, sess[j].day)'
      <4>1. \E e \in journal'[File(j)] \cup lost' : Of(e, j, sess[j].day)
        BY <1>5, <3>2, <3>3 DEF Recorded, Dropped
      <4> QED BY <3>1, <4>1 DEF Recorded, Dropped, Of
    <3>5. Dropped(j, sess[j].day) => Dropped(j, sess[j].day)'
      <4>1. Dropped(j, sess[j].day) => \E e \in lost' : Of(e, j, sess[j].day)
        BY <1>5, <3>2 DEF Dropped
      <4> QED BY <3>1, <4>1 DEF Dropped, Of
    <3> QED BY <1>6, <3>1, <3>3, <3>4, <3>5
  <2> QED BY <2>1, <2>2
<1> QED BY <1>8, <1>9, <1>10, <1>15 DEF Inv

----------------------------------------------------------------------------
(* The POST of a booked attempt is the first of its day.                   *)
LEMMA Posted ==
    ASSUME Inv, NEW k \in Kinds, Post(k)
    PROVE  Inv'
<1> DEFINE day == sess[k].day
<1>1. TypeOK /\ day \in Days BY DEF Inv, TypeOK, Post
<1>2. sess[k].mem \in SUBSET Attempts BY <1>1 DEF TypeOK, Sessions
<1>3. /\ journal' \in [Files -> SUBSET Attempts] /\ lost' \subseteq Attempts
      /\ \A j \in Kinds, d \in Days : Recorded(j, d) => Recorded(j, d)'
      /\ \A j \in Kinds, d \in Days : Dropped(j, d) => Dropped(j, d)'
  <2>1. CASE Replace(k, sess[k].mem) BY <2>1, <1>1, <1>2, Monotone
  <2>2. CASE UNCHANGED <<journal, lost>> BY <2>2, <1>1 DEF TypeOK, Recorded, Dropped
  <2> QED BY <2>1, <2>2 DEF Post, Stage
<1>4. /\ sess' \in [Kinds -> Sessions]
      /\ \A j \in Kinds : sess'[j].pc # "idle" => sess'[j].day \in Days
      /\ \A j \in Kinds : j # k => sess'[j] = sess[j]
  BY <1>1, Sessioned DEF Post, Pcs
<1>5. sess'[k].pc = "waiting" BY <1>1 DEF TypeOK, Sessions, Post, Go
<1>6. sent' = [sent EXCEPT ![k] = [sent[k] EXCEPT ![day] = OneMore(sent[k][day])]]
  BY DEF Post
<1>7. sent[k][day] \in 0 .. 2 BY <1>1 DEF TypeOK, Bookings
<1>8. sent' \in [Bookings -> [Days -> 0 .. 2]] BY <1>1, <1>6, <1>7 DEF TypeOK, OneMore, Bookings
<1>9. /\ sent'[k][day] = OneMore(sent[k][day])
      /\ \A j \in Kinds, d \in Days : j # k \/ d # day => sent'[j][d] = sent[j][d]
  BY <1>1, <1>6 DEF TypeOK, Bookings
<1>10. TypeOK' BY <1>1, <1>3, <1>4, <1>8 DEF TypeOK, Post
<1>11. Recorded(k, day) /\ (sent[k][day] = 0 \/ Dropped(k, day))
  BY DEF Inv, SendingIsFirst, Post
<1>12. SentIsRecorded'
  <2> SUFFICES ASSUME NEW j \in Kinds, NEW d \in Days, sent'[j][d] > 0
               PROVE  Recorded(j, d)'
    BY DEF SentIsRecorded
  <2>1. CASE j = k /\ d = day
    <3>1. Recorded(j, d) BY <2>1, <1>11
    <3> QED BY <3>1, <1>3
  <2>2. CASE ~(j = k /\ d = day) BY <2>2, <1>3, <1>9 DEF Inv, SentIsRecorded
  <2> QED BY <2>1, <2>2
<1>13. SentOnce'
  <2> SUFFICES ASSUME NEW j \in Kinds, NEW d \in Days, sent'[j][d] > 1
               PROVE  Dropped(j, d)'
    BY DEF SentOnce
  <2>1. CASE j = k /\ d = day
    <3>1. sent[k][day] # 0 BY <2>1, <1>7, <1>9 DEF OneMore
    <3>2. Dropped(j, d) BY <3>1, <2>1, <1>11
    <3> QED BY <3>2, <1>3
  <2>2. CASE ~(j = k /\ d = day) BY <2>2, <1>3, <1>9 DEF Inv, SentOnce
  <2> QED BY <2>1, <2>2
<1>14. SendingIsFirst'
  <2> SUFFICES ASSUME NEW j \in Kinds, sess'[j].pc = "sending"
               PROVE  /\ Recorded(j, sess[j].day)'
                      /\ sent'[j][sess'[j].day] = 0 \/ Dropped(j, sess[j].day)'
    BY DEF SendingIsFirst
  <2>1. j # k /\ sess'[j] = sess[j] BY <1>4, <1>5
  <2>2. sess[j].day \in Days BY <2>1, <1>1 DEF TypeOK
  <2>3. Recorded(j, sess[j].day) /\ (sent[j][sess[j].day] = 0 \/ Dropped(j, sess[j].day))
    BY <2>1 DEF Inv, SendingIsFirst
  <2>4. Recorded(j, sess[j].day)'
    <3>1. \E e \in journal'[File(j)] \cup lost' : Of(e, j, sess[j].day)
      BY <1>3, <2>2, <2>3 DEF Recorded, Dropped
    <3> QED BY <2>1, <3>1 DEF Recorded, Dropped, Of
  <2>5. Dropped(j, sess[j].day) => Dropped(j, sess[j].day)'
    <3>1. Dropped(j, sess[j].day) => \E e \in lost' : Of(e, j, sess[j].day)
      BY <1>3, <2>2 DEF Dropped
    <3> QED BY <2>1, <3>1 DEF Dropped, Of
  <2> QED BY <1>9, <2>1, <2>2, <2>3, <2>4, <2>5
<1> QED BY <1>10, <1>12, <1>13, <1>14 DEF Inv

(* The form that submits itself sends without a booking.                   *)
LEMMA Filled ==
    ASSUME Inv, HhclubFill
    PROVE  Inv'
<1> DEFINE day == sess["hhclub"].day
<1>1. TypeOK /\ "hhclub" \in Kinds /\ day \in Days
  BY TwoFactorAssumption DEF Inv, TypeOK, HhclubFill
<1>2. /\ sess' \in [Kinds -> Sessions]
      /\ \A j \in Kinds : sess'[j].pc # "idle" => sess'[j].day \in Days
      /\ \A j \in Kinds : j # "hhclub" => sess'[j] = sess[j]
  BY <1>1, Sessioned DEF HhclubFill, Outs
<1>3. "unbooked" \in Bookings \ Kinds BY TwoFactorAssumption DEF Bookings
<1>4. sent' = [sent EXCEPT !["unbooked"] = [sent["unbooked"] EXCEPT ![day] = OneMore(sent["unbooked"][day])]]
  BY DEF HhclubFill
<1>5. sent["unbooked"][day] \in 0 .. 2 BY <1>1, <1>3 DEF TypeOK
<1>6. sent' \in [Bookings -> [Days -> 0 .. 2]] BY <1>1, <1>3, <1>4, <1>5 DEF TypeOK, OneMore
<1>7. \A j \in Kinds, d \in Days : sent'[j][d] = sent[j][d]
  BY <1>1, <1>3, <1>4 DEF TypeOK, Bookings
<1>8. journal' = journal /\ lost' = lost BY DEF HhclubFill
<1>9. sess'["hhclub"].pc = "idle" BY <1>1 DEF TypeOK, HhclubFill, Over, Idle
<1>10. TypeOK' BY <1>1, <1>2, <1>6, <1>8 DEF TypeOK, HhclubFill
<1>11. SentIsRecorded' BY <1>7, <1>8 DEF Inv, SentIsRecorded, Recorded, Dropped
<1>12. SentOnce' BY <1>7, <1>8 DEF Inv, SentOnce, Dropped
<1>13. SendingIsFirst'
  BY <1>1, <1>2, <1>7, <1>8, <1>9 DEF Inv, SendingIsFirst, Recorded, Dropped, TypeOK
<1> QED BY <1>10, <1>11, <1>12, <1>13 DEF Inv

LEMMA Starts == FactorInit => Inv
<1> SUFFICES ASSUME FactorInit PROVE Inv
  OBVIOUS
<1>1. Idle \in Sessions BY TwoFactorAssumption DEF Idle, Sessions, Pcs, Outs
<1>3. \A k \in Kinds : sess[k].pc = "idle" BY DEF FactorInit, Idle
<1>2. TypeOK
  <2>1. today \in Days BY TwoFactorAssumption DEF FactorInit, Days
  <2>2. sess \in [Kinds -> Sessions] BY <1>1 DEF FactorInit
  <2>3. sent \in [Bookings -> [Days -> 0 .. 2]] BY DEF FactorInit
  <2>4. journal \in [Files -> SUBSET Attempts] BY DEF FactorInit
  <2> QED BY <1>3, <2>1, <2>2, <2>3, <2>4 DEF FactorInit, TypeOK
<1>4. \A k \in Kinds, d \in Days : sent[k][d] = 0 BY DEF FactorInit, Bookings
<1> QED BY <1>2, <1>3, <1>4 DEF Inv, SentIsRecorded, SendingIsFirst, SentOnce

LEMMA Keeps == Inv /\ [FactorNext]_factorVars => Inv'
<1> SUFFICES ASSUME Inv, [FactorNext]_factorVars PROVE Inv'
  OBVIOUS
<1>0. TypeOK BY DEF Inv
<1>1. CASE UNCHANGED factorVars
  BY <1>1 DEF factorVars, Inv, TypeOK, SentIsRecorded, SendingIsFirst, SentOnce, Recorded, Dropped
<1>2. CASE StepUpBegin
  BY <1>2, Routine DEF StepUpBegin
<1>3. CASE PasswordBegin
  BY <1>3, Routine DEF PasswordBegin
<1>4. CASE HddolbyBegin
  BY <1>4, Routine DEF HddolbyBegin
<1>5. ASSUME NEW k \in {"hhclub", "uhd"}, NexusBegin(k) PROVE Inv'
  BY <1>5, Routine DEF NexusBegin
<1>6. CASE Booking
  <2>0. \A k \in Kinds : sess[k].pc # "idle" => sess[k].day \in Days BY <1>0 DEF TypeOK
  <2>1. CASE StepUpBook
    BY <2>1, <1>0, Recording DEF StepUpBook, TypeOK, File
  <2>2. CASE PasswordCheck
    BY <2>2, Routine DEF PasswordCheck
  <2>3. CASE PasswordBook
    BY <2>3, <1>0, Recording DEF PasswordBook, TypeOK, File
  <2>4. ASSUME NEW k \in {"hhclub", "uhd"}, NexusCheck(k) PROVE Inv'
    BY <2>4, Routine DEF NexusCheck
  <2>5. CASE HhclubFill
    BY <2>5, Filled
  <2>6. CASE HhclubBook
    BY <2>6, <1>0, Recording DEF HhclubBook, TypeOK, File
  <2>7. CASE UhdBook
    BY <2>7, <2>0, Recording DEF UhdBook, File
  <2>8. CASE HddolbyCheck
    BY <2>8, Routine DEF HddolbyCheck
  <2>9. CASE HddolbyBook
    BY <2>9, <1>0, Recording DEF HddolbyBook, TypeOK, File
  <2> QED BY <1>6, <2>1, <2>2, <2>3, <2>4, <2>5, <2>6, <2>7, <2>8, <2>9 DEF Booking
<1>7. ASSUME NEW k \in Kinds, FactorStep(k) PROVE Inv'
  <2>1. CASE Prepare(k) BY <2>1, Routine DEF Prepare
  <2>2. CASE NoCode(k) BY <2>2, Routine DEF NoCode, Outs
  <2>3. CASE AlreadyIn(k) BY <2>3, Routine DEF AlreadyIn, Outs
  <2>4. CASE Refuse(k) BY <2>4, Routine DEF Refuse, Outs
  <2>5. CASE Post(k) BY <2>5, Posted
  <2>6. CASE Withhold(k) BY <2>6, Routine DEF Withhold, Stage
  <2>7. CASE Finish(k) BY <2>7, Routine DEF Finish, Outs
  <2>8. CASE Die(k) BY <2>8, Routine DEF Die, Outs
  <2> QED BY <1>7, <2>1, <2>2, <2>3, <2>4, <2>5, <2>6, <2>7, <2>8 DEF FactorStep
<1>8. CASE Midnight
  <2>1. TypeOK' BY <1>0, <1>8, TwoFactorAssumption DEF TypeOK, Midnight, Days
  <2> QED BY <1>8, <2>1 DEF Midnight, Inv, SentIsRecorded, SendingIsFirst, SentOnce, Recorded, Dropped
<1>9. CASE EngineUp
  <2>1. TypeOK' BY <1>0, <1>9 DEF TypeOK, EngineUp
  <2> QED BY <1>9, <2>1 DEF EngineUp, Inv, SentIsRecorded, SendingIsFirst, SentOnce, Recorded, Dropped
<1>10. CASE EngineExit
  <2>1. TypeOK' BY <1>0, <1>10 DEF TypeOK, EngineExit
  <2> QED BY <1>10, <2>1 DEF EngineExit, Inv, SentIsRecorded, SendingIsFirst, SentOnce, Recorded, Dropped
<1>11. CASE EngineCrash
  <2>1. Idle \in Sessions BY TwoFactorAssumption DEF Idle, Sessions, Pcs, Outs
  <2>2. \A k \in Kinds : [sess[k] EXCEPT !.orphan = TRUE] \in Sessions
    BY <1>0 DEF TypeOK, Sessions
  <2>3. sess' \in [Kinds -> Sessions] BY <1>0, <1>11, <2>1, <2>2 DEF TypeOK, EngineCrash
  <2>4. \A k \in Kinds : sess'[k].pc # "idle" => sess'[k].pc = sess[k].pc /\ sess'[k].day = sess[k].day
    BY <1>0, <1>11 DEF TypeOK, EngineCrash, Idle, Sessions
  <2>5. TypeOK' BY <1>0, <1>11, <2>3, <2>4 DEF TypeOK, EngineCrash
  <2> QED BY <1>11, <2>4, <2>5, Quiet DEF EngineCrash, Recorded, Dropped
<1> QED BY <1>1, <1>2, <1>3, <1>4, <1>5, <1>6, <1>7, <1>8, <1>9, <1>10, <1>11 DEF FactorNext

(* "A crash or ambiguous response cannot cause a second authentication     *)
(* POST from another task or another process today": of each kind at most  *)
(* one is booked and sent on a day, unless its entry was lost.             *)
THEOREM AuthenticatesOnce == FactorSpec => []OneAuthenticationADay
<1>1. Inv => OneAuthenticationADay
  BY DEF Inv, SentOnce, OneAuthenticationADay, Dropped, Of
<1> QED BY <1>1, Starts, Keeps, PTL DEF FactorSpec

----------------------------------------------------------------------------
(* A writer whose memory is the journal drops nothing, and nobody else is  *)
(* at work on its file.                                                    *)
LEMMA Alone ==
    ASSUME Inv, Attended, ~orphaned, NEW k \in Kinds, NEW j \in Kinds,
           Live(k), Live(j), File(j) = File(k)
    PROVE  j = k
<1>1. Live("stepup") /\ "stepup" \in Kinds => ~engineUp BY DEF Attended
<1>2. \A i \in Kinds : Live(i) /\ i # "stepup" => engineUp BY DEF Attended
<1> QED BY <1>1, <1>2, Sharing

(* A step of one session that only moves on, ends, or writes back what it  *)
(* holds.                                                                  *)
LEMMA Orderly ==
    ASSUME Inv, Attended, NEW k \in Kinds, Live(k),
           \/ \E pc \in {"code", "checked"} : Go(k, pc) /\ UNCHANGED <<journal, lost>>
           \/ Go(k, "waiting") /\ sess[k].pc = "sending"
           \/ \E out \in Outs : Over(k, out),
           UNCHANGED <<engineUp, orphaned>>,
           UNCHANGED <<journal, lost>> \/ (Replace(k, sess[k].mem) /\ Writes(k))
    PROVE  Attended'
<1> SUFFICES ASSUME ~orphaned PROVE Attended'
  BY DEF Attended
<1>0. TypeOK BY DEF Inv
<1>1. lost = {} BY DEF Attended
<1>2. journal' = journal /\ lost' = {}
  <2>1. CASE UNCHANGED <<journal, lost>> BY <2>1, <1>1
  <2>2. CASE Replace(k, sess[k].mem) /\ Writes(k)
    <3>1. sess[k].mem = journal[File(k)] BY <2>2 DEF Attended
    <3> QED BY <2>2, <3>1, <1>0, <1>1, FileType DEF Replace, TypeOK
  <2> QED BY <2>1, <2>2
<1>3. \A j \in Kinds : j # k => sess'[j] = sess[j]
  BY <1>0 DEF TypeOK, Go, Over
<1>4. \/ /\ sess'[k].mem = sess[k].mem /\ sess'[k].orphan = sess[k].orphan
         /\ sess'[k].pc \in {"sending", "waiting"} => Writes(k)
      \/ sess'[k].pc = "idle"
  <2>1. ASSUME NEW pc \in {"code", "checked"}, Go(k, pc)
        PROVE  /\ sess'[k].mem = sess[k].mem /\ sess'[k].orphan = sess[k].orphan
               /\ sess'[k].pc \notin {"sending", "waiting"}
    BY <1>0, <2>1 DEF TypeOK, Sessions, Go
  <2>2. ASSUME Go(k, "waiting"), sess[k].pc = "sending"
        PROVE  sess'[k].mem = sess[k].mem /\ sess'[k].orphan = sess[k].orphan /\ Writes(k)
    BY <1>0, <2>2 DEF TypeOK, Sessions, Go, Writes
  <2>3. ASSUME NEW out \in Outs, Over(k, out) PROVE sess'[k].pc = "idle"
    BY <1>0, <2>3 DEF TypeOK, Over, Idle
  <2> QED BY <2>1, <2>2, <2>3
<1> QED BY <1>2, <1>3, <1>4 DEF Attended, Writes, Live

(* A beginning: the engine lives, or, for the step-up, it does not.        *)
LEMMA Begun ==
    ASSUME Inv, Attended, NEW k \in Kinds, Open(k),
           IF k = "stepup" THEN ~engineUp ELSE engineUp,
           UNCHANGED <<journal, engineUp, lost, orphaned>>
    PROVE  Attended'
<1>0. TypeOK BY DEF Inv
<1>1. sess'[k].pc = "open" /\ sess'[k].orphan = FALSE /\ \A j \in Kinds : j # k => sess'[j] = sess[j]
  BY <1>0 DEF TypeOK, Open, Idle
<1> QED BY <1>1 DEF Attended, Writes, Live

(* A booking takes the whole journal into memory.                          *)
LEMMA Noted ==
    ASSUME Inv, Attended, NEW k \in Kinds, NEW at \in Days, Live(k),
           Book(k, journal[File(k)], at)
    PROVE  Attended'
<1> SUFFICES ASSUME ~orphaned PROVE Attended'
  BY DEF Attended, Book
<1> DEFINE all == journal[File(k)] \cup {Attempt(k, sess[k].day, at)}
<1>0. TypeOK /\ lost = {} BY DEF Inv, Attended
<1>1. journal' = [journal EXCEPT ![File(k)] = all] /\ lost' = {}
  BY <1>0 DEF Book, Replace
<1>2. sess' = [sess EXCEPT ![k] = [sess[k] EXCEPT !.mem = all, !.pc = "sending"]] /\ engineUp' = engineUp
  BY DEF Book
<1>3. sess'[k].mem = journal'[File(k)] /\ sess'[k].orphan = sess[k].orphan
  BY <1>0, <1>1, <1>2, FileType DEF TypeOK, Sessions
<1>4. \A j \in Kinds : j # k => sess'[j] = sess[j] /\ (Live(j) => journal'[File(j)] = journal[File(j)])
  BY <1>0, <1>1, <1>2, FileType, Alone DEF TypeOK
<1> QED BY <1>1, <1>2, <1>3, <1>4 DEF Attended, Writes, Live

LEMMA StaysAttended == Inv /\ Attended /\ [FactorNext]_factorVars => Attended'
<1> SUFFICES ASSUME Inv, Attended, [FactorNext]_factorVars PROVE Attended'
  OBVIOUS
<1>0. TypeOK BY DEF Inv
<1>1. CASE UNCHANGED factorVars
  BY <1>1 DEF factorVars, Attended, Writes, Live
<1>2. CASE StepUpBegin
  BY <1>2, Begun DEF StepUpBegin
<1>3. CASE PasswordBegin
  BY <1>3, Begun DEF PasswordBegin
<1>4. CASE HddolbyBegin
  BY <1>4, Begun DEF HddolbyBegin
<1>5. ASSUME NEW k \in {"hhclub", "uhd"}, NexusBegin(k) PROVE Attended'
  BY <1>5, Begun DEF NexusBegin
<1>6. CASE Booking
  <2>0. \A k \in Kinds : Live(k) => sess[k].day \in Days BY <1>0 DEF TypeOK, Live
  <2>1. CASE StepUpBook
    BY <2>1, <1>0, Noted DEF StepUpBook, TypeOK, File, Live
  <2>2. CASE PasswordCheck
    BY <2>2, Orderly DEF PasswordCheck, Live
  <2>3. CASE PasswordBook
    BY <2>3, <1>0, Noted DEF PasswordBook, TypeOK, File, Live
  <2>4. ASSUME NEW k \in {"hhclub", "uhd"}, NexusCheck(k) PROVE Attended'
    BY <2>4, Orderly DEF NexusCheck, Live
  <2>5. CASE HhclubFill
    BY <2>5, TwoFactorAssumption, Orderly DEF HhclubFill, Live, Outs
  <2>6. CASE HhclubBook
    BY <2>6, <1>0, Noted DEF HhclubBook, TypeOK, File, Live
  <2>7. CASE UhdBook
    BY <2>7, <2>0, Noted DEF UhdBook, File, Live
  <2>8. CASE HddolbyCheck
    BY <2>8, Orderly DEF HddolbyCheck, Live
  <2>9. CASE HddolbyBook
    BY <2>9, <1>0, Noted DEF HddolbyBook, TypeOK, File, Live
  <2> QED BY <1>6, <2>1, <2>2, <2>3, <2>4, <2>5, <2>6, <2>7, <2>8, <2>9 DEF Booking
<1>7. ASSUME NEW k \in Kinds, FactorStep(k) PROVE Attended'
  <2>1. CASE Prepare(k) BY <2>1, Orderly DEF Prepare, Live
  <2>2. CASE NoCode(k) BY <2>2, Orderly DEF NoCode, Outs, Live
  <2>3. CASE AlreadyIn(k) BY <2>3, Orderly DEF AlreadyIn, Outs, Live
  <2>4. CASE Refuse(k) BY <2>4, Orderly DEF Refuse, Outs, Live
  <2>5. CASE Post(k) BY <2>5, Orderly DEF Post, Stage, Live, Writes
  <2>6. CASE Withhold(k) BY <2>6, Orderly DEF Withhold, Stage, Live, Writes
  <2>7. CASE Finish(k) BY <2>7, Orderly DEF Finish, Outs, Live, Writes
  <2>8. CASE Die(k) BY <2>8, Orderly DEF Die, Outs, Live
  <2> QED BY <1>7, <2>1, <2>2, <2>3, <2>4, <2>5, <2>6, <2>7, <2>8 DEF FactorStep
<1>8. CASE Midnight
  BY <1>8 DEF Midnight, Attended, Writes, Live
<1>9. CASE EngineUp
  BY <1>9 DEF EngineUp, Attended, Writes, Live
<1>10. CASE EngineExit
  BY <1>10 DEF EngineExit, Attended, Writes, Live, Own
<1>11. CASE EngineCrash
  <2> SUFFICES ASSUME ~orphaned' PROVE Attended'
    BY DEF Attended
  <2>1. ~orphaned /\ Own \ {"hddolby"} = {} BY <1>0, <1>11 DEF EngineCrash, TypeOK
  <2>2. \A k \in Kinds : Live(k) /\ k # "stepup" => k \in Own BY <2>1 DEF Attended, Own
  <2>3. \A k \in Kinds : sess'[k] = sess[k] \/ sess'[k].pc = "idle"
    BY <1>11, <2>1 DEF EngineCrash, Idle
  <2>4. \A k \in Kinds : k # "stepup" => sess'[k].pc = "idle"
    BY <1>11, <2>1, <2>2 DEF EngineCrash, Idle, Live, Own
  <2>5. engineUp' = FALSE /\ UNCHANGED <<journal, lost>> BY <1>11 DEF EngineCrash
  <2> QED BY <2>1, <2>3, <2>4, <2>5 DEF Attended, Writes, Live
<1> QED BY <1>1, <1>2, <1>3, <1>4, <1>5, <1>6, <1>7, <1>8, <1>9, <1>10, <1>11 DEF FactorNext

(* No entry leaves a journal while every session has its engine, although  *)
(* the step-up and the password login write one file under two locks.      *)
THEOREM OnlyOrphansLose == FactorSpec => []LostToOrphansOnly
<1>1. FactorInit => Attended
  BY DEF FactorInit, Attended, Writes, Live, Idle
<1>2. Attended => LostToOrphansOnly
  BY DEF Attended, LostToOrphansOnly
<1> QED BY <1>1, <1>2, Starts, Keeps, StaysAttended, PTL DEF FactorSpec

----------------------------------------------------------------------------
(* The login recovery of the engine.                                       *)

(* Every step of the recovery is a step of the authentications or leaves   *)
(* them alone.                                                             *)
LEMMA Embedded == [Next]_vars => [FactorNext]_factorVars
<1> SUFFICES ASSUME [Next]_vars PROVE [FactorNext]_factorVars
  OBVIOUS
<1>1. CASE UNCHANGED vars BY <1>1 DEF vars
<1>2. CASE RunBegins BY <1>2 DEF RunBegins, FactorNext
<1>3. CASE TakeSite \/ JournaledCannotBegin \/ JournaledEnds \/ TrySavedPassword \/ TryNativePassword \/ TryPlainWindow
  BY <1>3 DEF TakeSite, JournaledCannotBegin, JournaledEnds, TrySavedPassword, TryNativePassword, TryPlainWindow
<1>4. CASE StartJournaled
  BY <1>4, TwoFactorAssumption DEF StartJournaled, FactorNext, NexusBegin
<1>5. CASE StartProtected \/ ProtectedApi \/ ProtectedWindow \/ ProtectedAutomation \/ ProtectedNative
  BY <1>5 DEF StartProtected, ProtectedApi, ProtectedWindow, ProtectedAutomation, ProtectedNative
<1>6. CASE StartOAuth \/ OAuthEnter \/ OAuthRead \/ OAuthLogout \/ GenericProvider \/ GenericUpstream \/ GenericAuthorize \/ GenericVerify
  BY <1>6 DEF StartOAuth, OAuthEnter, OAuthRead, OAuthLogout, GenericProvider, GenericUpstream, GenericAuthorize, GenericVerify
<1>7. CASE NativeProvider \/ NativeConsent \/ NativeUpstream \/ NativeHome \/ NativeGitHub \/ NativeGoogle \/ NativeBack \/ NativeVerify \/ PlainOAuth \/ HelperKilled
  BY <1>7 DEF NativeProvider, NativeConsent, NativeUpstream, NativeHome, NativeGitHub, NativeGoogle, NativeBack, NativeVerify, PlainOAuth, HelperKilled
<1>8. CASE RoundOver BY <1>8 DEF RoundOver, FactorNext
<1>9. CASE EngineDies BY <1>9 DEF EngineDies, FactorNext
<1>10. CASE DayPasses BY <1>10 DEF DayPasses, FactorNext
<1>11. CASE VisitHddolby \/ Preflight BY <1>11 DEF VisitHddolby, Preflight, FactorNext
<1>12. CASE Factors BY <1>12 DEF Factors, FactorNext
<1> QED BY <1>1, <1>2, <1>3, <1>4, <1>5, <1>6, <1>7, <1>8, <1>9, <1>10, <1>11, <1>12 DEF Next

(* The engine's recovery rounds, with helpers, crashes and midnights, are  *)
(* among the behaviours TwoFactor allows its five authentications.         *)
THEOREM RecoveryIsFactored == Spec => FactorSpec
<1>1. Init => FactorInit BY DEF Init
<1> QED BY <1>1, Embedded, PTL DEF Spec, FactorSpec

(* Whatever the recovery rounds start, and however they end: one POST of a *)
(* kind and day, unless its entry was lost or the form sends itself.       *)
THEOREM LoginsAuthenticateOnce == Spec => []OneAuthenticationADay
BY RecoveryIsFactored, AuthenticatesOnce, PTL

----------------------------------------------------------------------------
Outcomes == {"none", "success", "daily", "failed", "other", "circuit"} \cup Final

(* A refused site is neither at work nor waiting, and its outcome is not   *)
(* one after which the round looks again.                                  *)
RefusalStands ==
    /\ DOMAIN sites \subseteq Nat \ {0}
    /\ outcome \in [SiteIds -> Outcomes]
    /\ queue \subseteq SiteIds /\ refused \subseteq SiteIds
    /\ site \in SiteIds \cup {NoSite} /\ site \notin queue
    /\ helper # "none" => site # NoSite
    /\ ~engineUp => site = NoSite /\ helper = "none"
    /\ site \notin refused /\ queue \cap refused = {}
    /\ \A s \in refused : outcome[s] \notin {"failed", "success"}

(* The end of one method, whatever it reports.                             *)
LEMMA MethodEnds ==
    ASSUME RefusalStands, NEW o \in Outcomes, site # NoSite, MethodOver(o),
           UNCHANGED <<sites, queue, engineUp>>, engineUp
    PROVE  RefusalStands'
<1>1. site \in SiteIds /\ site \notin queue /\ site \notin refused BY DEF RefusalStands
<1>2. CASE Ends(o)
  <2>1. site' = NoSite /\ helper' = "none" /\ outcome' = [outcome EXCEPT ![site] = IF o = "other" THEN "failed" ELSE o]
    BY <1>2 DEF MethodOver
  <2>2. outcome' \in [SiteIds' -> Outcomes] BY <2>1 DEF RefusalStands, SiteIds, Outcomes, Final
  <2>3. \A s \in refused' : outcome'[s] \notin {"failed", "success"}
    BY <1>1, <2>1 DEF RefusalStands, MethodOver
  <2>4. refused' \subseteq SiteIds' /\ queue' \cap refused' = {}
    BY <1>1 DEF RefusalStands, MethodOver, SiteIds
  <2> QED BY <2>1, <2>2, <2>3, <2>4, <1>1 DEF RefusalStands, NoSite, SiteIds
<1>3. CASE ~Ends(o)
  <2>1. o \notin {"invalid", "two_factor"} BY <1>3 DEF Ends, Final
  <2>2. refused' = refused /\ outcome' = outcome /\ site' = site /\ helper' = "none" BY <1>3, <2>1 DEF MethodOver
  <2> QED BY <2>2, <1>1 DEF RefusalStands, SiteIds
<1> QED BY <1>2, <1>3

(* A helper at work goes on: nothing of its site is decided.               *)
Steady ==
    /\ UNCHANGED <<sites, queue, site, outcome, refused, engineUp>>
    /\ helper' = helper \/ (site # NoSite /\ engineUp)

LEMMA GoesOn == RefusalStands /\ Steady => RefusalStands'
BY DEF RefusalStands, SiteIds, Steady

(* What the loop leaves alone while a method is at work.                   *)
LEMMA HelperStep ==
    ASSUME RefusalStands, UNCHANGED <<sites, queue, engineUp>>, engineUp, site # NoSite,
           \/ \E o \in Outcomes : MethodOver(o)
           \/ UNCHANGED <<site, outcome, refused>>
    PROVE  RefusalStands'
BY MethodEnds, GoesOn DEF Steady

LEMMA Beginning == RefusalStands /\ RunBegins => RefusalStands'
<1> SUFFICES ASSUME RefusalStands, RunBegins PROVE RefusalStands'
  OBVIOUS
<1>1. queue' \subseteq SiteIds /\ 0 \notin SiteIds
  BY DEF RunBegins, MayAsk, RefusalStands, SiteIds
<1>2. site = NoSite /\ helper = "none" BY DEF RunBegins, EngineUp, RefusalStands
<1>3. UNCHANGED <<sites, site, helper>> /\ refused' = {} /\ engineUp' = TRUE
  BY DEF RunBegins, EngineUp
<1>4. outcome' \in [SiteIds -> Outcomes] BY DEF RunBegins, Outcomes
<1> QED BY <1>1, <1>2, <1>3, <1>4 DEF RefusalStands, SiteIds, NoSite

LEMMA Taking == RefusalStands /\ TakeSite => RefusalStands'
<1> SUFFICES ASSUME RefusalStands, TakeSite PROVE RefusalStands'
  OBVIOUS
<1>1. PICK s \in queue :
        /\ queue' = queue \ {s}
        /\ \/ outcome' = [outcome EXCEPT ![s] = "circuit"] /\ site' = site
           \/ outcome' = outcome /\ site' = s
  BY DEF TakeSite
<1>2. s \in SiteIds /\ s \notin refused /\ s # 0 BY DEF RefusalStands, SiteIds
<1>3. UNCHANGED <<sites, helper, refused, engineUp>> /\ engineUp /\ site = NoSite
  BY DEF TakeSite, factorVars
<1>4. outcome' \in [SiteIds -> Outcomes] /\ \A r \in refused : outcome'[r] = outcome[r]
  BY <1>1, <1>2 DEF RefusalStands, Outcomes
<1> QED BY <1>1, <1>2, <1>3, <1>4 DEF RefusalStands, SiteIds, NoSite

LEMMA Closing == RefusalStands /\ RoundOver => RefusalStands'
<1> SUFFICES ASSUME RefusalStands, RoundOver PROVE RefusalStands'
  OBVIOUS
<1>1. UNCHANGED <<sites, site, helper>> /\ engineUp /\ site = NoSite BY DEF RoundOver
<1>2. helper = "none" BY <1>1 DEF RefusalStands
<1>3. outcome' = [s \in SiteIds |-> "none"] /\ outcome' \in [SiteIds -> Outcomes]
  BY DEF RoundOver, Outcomes
<1>4. queue' \subseteq {s \in SiteIds : LooksAgain(s)} BY DEF RoundOver
<1>5. refused' \subseteq refused BY DEF RoundOver
<1>6. queue' \cap refused' = {} BY <1>4, <1>5 DEF RefusalStands, LooksAgain
<1>7. NoSite \notin SiteIds BY DEF RefusalStands, SiteIds, NoSite
<1> QED BY <1>1, <1>2, <1>3, <1>4, <1>5, <1>6, <1>7 DEF RefusalStands, SiteIds

LEMMA RefusalKept == RefusalStands /\ [Next]_vars => RefusalStands'
<1> SUFFICES ASSUME RefusalStands, [Next]_vars PROVE RefusalStands'
  OBVIOUS
<1> USE DEF Done, Trial, Loop, factorVars, engineVars
<1>0. helper # "none" => site # NoSite BY DEF RefusalStands
<1>1. CASE UNCHANGED vars BY <1>1, GoesOn DEF vars, Steady
<1>2. CASE RunBegins BY <1>2, Beginning
<1>3. CASE TakeSite BY <1>3, Taking
<1>4. CASE StartJournaled
  <2>1. engineUp' = engineUp
    BY <1>4 DEF StartJournaled, PasswordBegin, NexusBegin
  <2> QED BY <1>4, <2>1, GoesOn DEF StartJournaled, Ready, Steady
<1>5. CASE JournaledCannotBegin
  BY <1>5, HelperStep DEF JournaledCannotBegin, Ready, Outcomes, Final
<1>6. CASE JournaledEnds
  <2>1. \A k : Reported(k) \in Outcomes BY DEF Reported, Outcomes, Final
  <2> QED BY <1>6, <2>1, HelperStep DEF JournaledEnds
<1>7. CASE TrySavedPassword \/ TryNativePassword \/ TryPlainWindow
  BY <1>7, HelperStep DEF TrySavedPassword, TryNativePassword, TryPlainWindow, Ready, Outcomes, Final
<1>8. CASE StartProtected \/ StartOAuth
  BY <1>8, HelperStep DEF StartProtected, StartOAuth, Ready, Outcomes
<1>9. CASE ProtectedApi \/ ProtectedWindow \/ ProtectedAutomation \/ ProtectedNative
  BY <1>0, <1>9, HelperStep
     DEF ProtectedApi, ProtectedWindow, ProtectedAutomation, ProtectedNative, LoggedIn, EndsAs,
         NextTier, At, Outcomes, Final
<1>10. CASE OAuthEnter \/ OAuthRead \/ OAuthLogout \/ PlainOAuth \/ HelperKilled
  BY <1>0, <1>10, HelperStep
     DEF OAuthEnter, OAuthRead, OAuthLogout, PlainOAuth, HelperKilled, OAuthFails, Failure, At,
         Outcomes, Final
<1>11. CASE GenericProvider \/ GenericUpstream \/ GenericAuthorize \/ GenericVerify
  BY <1>0, <1>11, HelperStep
     DEF GenericProvider, GenericUpstream, GenericAuthorize, GenericVerify, LoggedIn, EndsAs, Verdict,
         At, Outcomes, Final
<1>12. CASE NativeProvider \/ NativeConsent \/ NativeUpstream \/ NativeHome \/ NativeGitHub
            \/ NativeGoogle \/ NativeBack \/ NativeVerify
  BY <1>0, <1>12, HelperStep
     DEF NativeProvider, NativeConsent, NativeUpstream, NativeHome, NativeGitHub, NativeGoogle,
         NativeBack, NativeVerify, OAuthFails, Verdict, At, Outcomes, Final
<1>13. CASE RoundOver BY <1>13, Closing
<1>14. CASE EngineDies
  <2>1. UNCHANGED sites /\ engineUp' = FALSE /\ queue' = {} /\ site' = NoSite /\ helper' = "none" /\ refused' = {}
    BY <1>14 DEF EngineDies, EngineCrash
  <2>2. outcome' \in [SiteIds -> Outcomes] BY <1>14 DEF EngineDies, Outcomes
  <2> QED BY <2>1, <2>2 DEF RefusalStands, SiteIds
<1>15. CASE DayPasses BY <1>15, GoesOn DEF DayPasses, Midnight, Steady
<1>16. CASE VisitHddolby \/ Preflight
  BY <1>16, GoesOn DEF VisitHddolby, Preflight, HddolbyBegin, StepUpBegin, Steady
<1>17. CASE Factors
  <2>1. engineUp' = engineUp
    BY <1>17 DEF Factors, Booking, StepUpBook, PasswordCheck, PasswordBook, NexusCheck, HhclubFill,
       HhclubBook, UhdBook, HddolbyCheck, HddolbyBook, Book, FactorStep, Prepare, NoCode, AlreadyIn,
       Refuse, Post, Withhold, Finish, Die
  <2> QED BY <1>17, <2>1, GoesOn DEF Factors, Steady
<1> QED BY <1>1, <1>2, <1>3, <1>4, <1>5, <1>6, <1>7, <1>8, <1>9, <1>10, <1>11, <1>12, <1>13,
           <1>14, <1>15, <1>16, <1>17 DEF Next

(* A site that has refused a credential or asked for a factor is given no  *)
(* further helper by this run.                                             *)
THEOREM RefusalIsFinal == Spec => []RefusalEndsLogins
<1>1. Init => RefusalStands
  BY LoginRecoveryAssumption DEF Init, RefusalStands, SiteIds, NoSite, Outcomes
<1>2. RefusalStands => RefusalEndsLogins BY DEF RefusalStands, RefusalEndsLogins
<1> QED BY <1>1, <1>2, RefusalKept, PTL DEF Spec

----------------------------------------------------------------------------
(* What the engine books on a helper's word.  The reward a helper reports  *)
(* is of today; the run books it on the day it began, which is today       *)
(* unless the run went on past midnight.                                   *)
Proved(s, d) == <<s, d>> \in rewards \/ d \in overran

RunsToday == engineUp => today = runDay \/ runDay \in overran

Logins == {"none", "right", "wrong"}

Evidenced ==
    /\ account \in [SiteIds -> Logins]
    /\ RunsToday /\ ClaimIsProved
    /\ \A s \in Booked : Proved(s, runDay)

(* A step that takes nothing back, and neither a run's nor a day's end.    *)
Lasting ==
    /\ UNCHANGED <<sites, runDay, overran, claims, today, engineUp>>
    /\ rewards \subseteq rewards'
    /\ account' = account \/ \E who \in Logins : account' = [account EXCEPT ![site] = who]

(* A method that ends for the day's reward has seen it, or been given it.  *)
Earns(o) == MethodOver(o) /\ (o = "daily" => <<site, today>> \in rewards')

LEMMA EvidenceLasts ==
    ASSUME RefusalStands, Evidenced, Lasting,
           UNCHANGED outcome \/ (engineUp /\ \E o \in Outcomes : Earns(o))
    PROVE  Evidenced'
<1>1. RunsToday' /\ ClaimIsProved' BY DEF Evidenced, Lasting, RunsToday, ClaimIsProved
<1>2. \A s \in Booked' : Proved(s, runDay)'
  <2> SUFFICES ASSUME NEW s \in SiteIds, outcome'[s] = "daily" PROVE Proved(s, runDay)'
    BY DEF Booked, Lasting, SiteIds
  <2>1. CASE outcome[s] = "daily" BY <2>1 DEF Evidenced, Booked, Proved, Lasting
  <2>2. CASE outcome[s] # "daily"
    <3>1. PICK o \in Outcomes : engineUp /\ Earns(o) BY <2>2
    <3>2. outcome' = [outcome EXCEPT ![site] = IF o = "other" THEN "failed" ELSE o]
      BY <2>2, <3>1 DEF Earns, MethodOver
    <3>3. s = site /\ o = "daily" BY <2>2, <3>2 DEF RefusalStands
    <3>4. <<s, today>> \in rewards' BY <3>1, <3>3 DEF Earns
    <3> QED BY <3>1, <3>4 DEF Evidenced, RunsToday, Proved, Lasting
  <2> QED BY <2>1, <2>2
<1>3. account' \in [SiteIds' -> Logins] BY DEF Evidenced, Lasting, SiteIds
<1> QED BY <1>1, <1>2, <1>3 DEF Evidenced

LEMMA EvidenceKept == RefusalStands /\ Evidenced /\ [Next]_vars => Evidenced'
<1> SUFFICES ASSUME RefusalStands, Evidenced, [Next]_vars PROVE Evidenced'
  OBVIOUS
<1> USE DEF Done, Trial, Loop, World, factorVars, engineVars
<1>1. CASE UNCHANGED vars BY <1>1, EvidenceLasts DEF vars, Lasting
<1>2. CASE RunBegins
  <2>1. /\ UNCHANGED <<sites, account, rewards, claims, overran>>
        /\ runDay' = today /\ today' = today /\ outcome' = [s \in SiteIds |-> "none"]
    BY <1>2 DEF RunBegins, EngineUp
  <2> QED BY <2>1 DEF Evidenced, RunsToday, ClaimIsProved, Booked, SiteIds
<1>3. CASE TakeSite
  <2>1. UNCHANGED <<sites, runDay, today, account, rewards, claims, overran, engineUp>>
    BY <1>3 DEF TakeSite
  <2>2. \A s \in SiteIds : outcome'[s] = "daily" => outcome[s] = "daily"
    BY <1>3 DEF TakeSite, RefusalStands
  <2> QED BY <2>1, <2>2 DEF Evidenced, RunsToday, ClaimIsProved, Booked, Proved, SiteIds
<1>4. CASE StartJournaled \/ VisitHddolby \/ Preflight
  <2>1. Lasting /\ UNCHANGED outcome
    BY <1>4 DEF StartJournaled, VisitHddolby, Preflight, PasswordBegin, NexusBegin, HddolbyBegin,
       StepUpBegin, Lasting
  <2> QED BY <2>1, EvidenceLasts
<1>5. CASE JournaledCannotBegin \/ JournaledEnds \/ TrySavedPassword \/ TryNativePassword \/ TryPlainWindow
  BY <1>5, EvidenceLasts
     DEF JournaledCannotBegin, JournaledEnds, Reported, TrySavedPassword, TryNativePassword,
         TryPlainWindow, Ready, Lasting, Earns, Outcomes, Final
<1>6. CASE StartProtected \/ StartOAuth
  BY <1>6, EvidenceLasts DEF StartProtected, StartOAuth, Ready, Lasting, Earns, Outcomes, Final
<1>7. CASE ProtectedApi \/ ProtectedWindow \/ ProtectedAutomation \/ ProtectedNative
  BY <1>7, EvidenceLasts
     DEF ProtectedApi, ProtectedWindow, ProtectedAutomation, ProtectedNative, LoggedIn, EndsAs,
         NextTier, At, Lasting, Earns, Outcomes, Final
<1>8. CASE OAuthEnter \/ OAuthLogout \/ PlainOAuth \/ HelperKilled
  BY <1>8, EvidenceLasts
     DEF OAuthEnter, OAuthLogout, PlainOAuth, HelperKilled, OAuthFails, Exchange, At, Lasting, Logins,
         Earns, Outcomes, Final
<1>c. helper # "none" /\ "confirmed" \in Readings(site) => Rewarded(site)
  BY DEF Readings, Truth, Evidenced, RefusalStands, Logins
<1>9. CASE OAuthRead
  BY <1>9, <1>c, EvidenceLasts
     DEF OAuthRead, OAuthFails, Failure, Rewarded, At, Lasting, Earns, Outcomes, Final
<1>10. CASE GenericProvider \/ GenericUpstream \/ GenericAuthorize
  BY <1>10, EvidenceLasts
     DEF GenericProvider, GenericUpstream, GenericAuthorize, Exchange, At, Lasting, Logins, Earns,
         Outcomes, Final
<1>11. CASE GenericVerify
  BY <1>11, <1>c, EvidenceLasts
     DEF GenericVerify, LoggedIn, EndsAs, Verdict, Rewarded, At, Lasting, Earns, Outcomes, Final
<1>12. CASE NativeProvider \/ NativeConsent \/ NativeUpstream \/ NativeHome \/ NativeGitHub
            \/ NativeGoogle \/ NativeBack
  BY <1>12, EvidenceLasts
     DEF NativeProvider, NativeConsent, NativeUpstream, NativeHome, NativeGitHub, NativeGoogle,
         NativeBack, OAuthFails, Exchange, At, Lasting, Logins, Earns, Outcomes, Final
<1>13. CASE NativeVerify
  BY <1>13, <1>c, EvidenceLasts
     DEF NativeVerify, OAuthFails, Verdict, Rewarded, At, Lasting, Earns, Outcomes, Final
<1>14. CASE RoundOver
  <2>1. /\ UNCHANGED <<sites, runDay, account, rewards, overran>>
        /\ claims' = claims \cup {<<s, runDay>> : s \in Booked}
        /\ outcome' = [s \in SiteIds |-> "none"]
    BY <1>14 DEF RoundOver
  <2>2. today' = today /\ (engineUp' => engineUp) BY <1>14 DEF RoundOver, EngineExit
  <2>3. ClaimIsProved' BY <2>1 DEF Evidenced, ClaimIsProved, Proved
  <2> QED BY <2>1, <2>2, <2>3 DEF Evidenced, RunsToday, Booked, SiteIds
<1>15. CASE EngineDies
  <2>1. /\ UNCHANGED <<sites, runDay, account, rewards, claims, overran>> /\ engineUp' = FALSE
        /\ outcome' = [s \in SiteIds |-> "none"]
    BY <1>15 DEF EngineDies, EngineCrash
  <2> QED BY <2>1 DEF Evidenced, RunsToday, ClaimIsProved, Booked, SiteIds
<1>16. CASE DayPasses
  <2>1. /\ UNCHANGED <<sites, runDay, account, rewards, claims, outcome, engineUp>>
        /\ overran' = IF engineUp THEN overran \cup {runDay} ELSE overran
    BY <1>16 DEF DayPasses, Midnight
  <2> QED BY <2>1 DEF Evidenced, RunsToday, ClaimIsProved, Booked, Proved, SiteIds
<1>17. CASE Factors
  <2>1. UNCHANGED <<engineUp, today>>
    BY <1>17 DEF Factors, Booking, StepUpBook, PasswordCheck, PasswordBook, NexusCheck, HhclubFill,
       HhclubBook, UhdBook, HddolbyCheck, HddolbyBook, Book, FactorStep, Prepare, NoCode, AlreadyIn,
       Refuse, Post, Withhold, Finish, Die
  <2> QED BY <1>17, <2>1, EvidenceLasts DEF Factors, Lasting
<1> QED BY <1>1, <1>2, <1>3, <1>4, <1>5, <1>6, <1>7, <1>8, <1>9, <1>10, <1>11, <1>12, <1>13,
           <1>14, <1>15, <1>16, <1>17 DEF Next

(* Whichever helper said so, in whichever round: what the engine books as  *)
(* signed is a reward of that day, or of a run that went on past midnight. *)
THEOREM ClaimsAreProved == Spec => []ClaimIsProved
<1>1. Init => RefusalStands /\ Evidenced
  BY LoginRecoveryAssumption
     DEF Init, RefusalStands, SiteIds, NoSite, Outcomes, Evidenced, RunsToday, ClaimIsProved, Booked,
         FactorInit, Logins
<1>2. Evidenced => ClaimIsProved BY DEF Evidenced
<1> QED BY <1>1, <1>2, RefusalKept, EvidenceKept, PTL DEF Spec

----------------------------------------------------------------------------
(* The tries of a shared upstream.  What is counted is what the report had *)
(* used and the sites of this round whose login failed for the upstream.   *)
Failed == {s \in OAuthSites : outcome[s] = "upstream"}

Spared ==
    /\ IsFiniteSet(SiteIds) /\ base \in Nat /\ tries \in Nat
    /\ \A s \in queue \cup {site} : s # NoSite => outcome[s] = "none"
    /\ engineUp => tries = base + Cardinality(Failed)
    /\ engineUp /\ site \in OAuthSites => tries < GroupLimit
    /\ UpstreamIsSpared

LEMMA FailedIsFinite ==
    ASSUME IsFiniteSet(SiteIds)
    PROVE  IsFiniteSet(Failed) /\ Cardinality(Failed) \in Nat
BY FS_Subset, FS_CardinalityType DEF Failed, OAuthSites

(* Nothing of the round is counted and nothing of it changes.              *)
SparesOn ==
    /\ UNCHANGED <<sites, outcome, base, tries, queue>>
    /\ site' = site \/ site' = NoSite
    /\ engineUp' = engineUp

LEMMA SparedOn == RefusalStands /\ Spared /\ SparesOn => Spared'
<1> SUFFICES ASSUME RefusalStands, Spared, SparesOn PROVE Spared'
  OBVIOUS
<1>1. SiteIds' = SiteIds /\ OAuthSites' = OAuthSites BY DEF SparesOn, SiteIds, OAuthSites
<1>2. Failed' = Failed BY <1>1 DEF SparesOn, Failed
<1>3. NoSite \notin OAuthSites BY DEF RefusalStands, OAuthSites, SiteIds, NoSite
<1>4. UpstreamIsSpared' BY <1>1 DEF SparesOn, Spared, UpstreamIsSpared
<1> QED BY <1>1, <1>2, <1>3, <1>4 DEF SparesOn, Spared

(* The end of a method: a site that fails for the upstream had a try left. *)
LEMMA SparedMethodEnds ==
    ASSUME RefusalStands, Spared, NEW o \in Outcomes, site # NoSite, MethodOver(o),
           UNCHANGED <<sites, queue, base, engineUp>>, engineUp
    PROVE  Spared'
<1>1. /\ site \in SiteIds /\ site \notin queue /\ outcome[site] = "none"
      /\ outcome \in [SiteIds -> Outcomes] /\ NoSite \notin SiteIds
  BY DEF RefusalStands, Spared, SiteIds, NoSite
<1>2. SiteIds' = SiteIds /\ OAuthSites' = OAuthSites BY DEF SiteIds, OAuthSites
<1>3. site' \in {site, NoSite} BY DEF MethodOver
<1>4. /\ \/ outcome' = outcome /\ site' = site /\ o # "upstream"
         \/ site' = NoSite /\ outcome' = [outcome EXCEPT ![site] = IF o = "other" THEN "failed" ELSE o]
      /\ tries' = IF o = "upstream" /\ site \in OAuthSites THEN tries + 1 ELSE tries
  BY DEF MethodOver, Charged, Ends, Final
<1>5. \A s \in queue' \cup {site'} : s # NoSite => outcome'[s] = "none"
  <2>1. \A s \in queue' : s # NoSite => outcome'[s] = "none" BY <1>1, <1>4 DEF Spared, RefusalStands
  <2>2. site' # NoSite => outcome'[site'] = "none" BY <1>1, <1>3, <1>4
  <2> QED BY <2>1, <2>2
<1>6. /\ IsFiniteSet(Failed) /\ Cardinality(Failed) \in Nat /\ tries = base + Cardinality(Failed)
      /\ base \in Nat /\ tries \in Nat /\ GroupLimit \in Nat
  BY FailedIsFinite, LoginRecoveryAssumption DEF Spared
<1>7. CASE o = "upstream" /\ site \in OAuthSites
  <2>1. Failed' = Failed \cup {site} /\ site \notin Failed
    BY <1>1, <1>2, <1>4, <1>7 DEF Failed, OAuthSites
  <2>2. Cardinality(Failed') = Cardinality(Failed) + 1 BY <1>6, <2>1, FS_AddElement
  <2>3. tries' = tries + 1 /\ tries < GroupLimit /\ site' = NoSite BY <1>4, <1>7 DEF Spared
  <2>4. UpstreamIsSpared' BY <1>6, <2>2, <2>3 DEF UpstreamIsSpared, Failed
  <2>5. site' \notin OAuthSites' BY <1>1, <1>2, <2>3 DEF OAuthSites
  <2> QED BY <1>2, <1>5, <1>6, <2>2, <2>3, <2>4, <2>5 DEF Spared
<1>8. CASE ~(o = "upstream" /\ site \in OAuthSites)
  <2>1. Failed' = Failed
    BY <1>1, <1>2, <1>4, <1>8 DEF Failed, OAuthSites
  <2>2. tries' = tries BY <1>4, <1>8
  <2>3. UpstreamIsSpared' BY <2>1 DEF Spared, UpstreamIsSpared, Failed
  <2>4. site' \in OAuthSites' => site \in OAuthSites BY <1>1, <1>2, <1>3 DEF OAuthSites
  <2> QED BY <1>2, <1>5, <2>1, <2>2, <2>3, <2>4 DEF Spared
<1> QED BY <1>7, <1>8

LEMMA SparedHelperStep ==
    ASSUME RefusalStands, Spared, UNCHANGED <<sites, queue, base, engineUp>>, engineUp, site # NoSite,
           \/ \E o \in Outcomes : MethodOver(o)
           \/ UNCHANGED <<site, outcome, tries>>
    PROVE  Spared'
BY SparedMethodEnds, SparedOn DEF SparesOn

(* A round begins with nothing of its own counted.                         *)
LEMMA SparedAfresh ==
    ASSUME Spared, sites' = sites, base' \in Nat, tries' = base', site' = NoSite,
           outcome' = [s \in SiteIds |-> "none"], queue' \subseteq SiteIds, NoSite \notin SiteIds
    PROVE  Spared'
<1>1. SiteIds' = SiteIds /\ OAuthSites' = OAuthSites /\ OAuthSites \subseteq SiteIds BY DEF SiteIds, OAuthSites
<1>2. Failed' = {} /\ Cardinality(Failed') = 0 BY <1>1, FS_EmptySet DEF Failed
<1>3. GroupLimit \in Nat BY LoginRecoveryAssumption
<1>4. UpstreamIsSpared'
  <2>0. \A n, g \in Nat : 0 + n <= (IF n > g THEN n ELSE g) OBVIOUS
  <2>1. 0 + base' <= (IF base' > GroupLimit THEN base' ELSE GroupLimit) BY <1>3, <2>0
  <2>2. UpstreamIsSpared' <=> Cardinality(Failed') + base' <= (IF base' > GroupLimit THEN base' ELSE GroupLimit)
    BY DEF UpstreamIsSpared, Failed
  <2> QED BY <1>2, <2>1, <2>2
<1>5. site' \notin OAuthSites' BY <1>1
<1>6. \A s \in queue' \cup {site'} : s # NoSite => outcome'[s] = "none" BY <1>1
<1> QED BY <1>1, <1>2, <1>4, <1>5, <1>6 DEF Spared

LEMMA SparedTaking == RefusalStands /\ Spared /\ TakeSite => Spared'
<1> SUFFICES ASSUME RefusalStands, Spared, TakeSite PROVE Spared'
  OBVIOUS
<1>1. PICK s \in queue :
        /\ queue' = queue \ {s}
        /\ \/ outcome' = [outcome EXCEPT ![s] = "circuit"] /\ site' = site
           \/ outcome' = outcome /\ site' = s /\ ~(s \in OAuthSites /\ tries >= GroupLimit)
  BY DEF TakeSite
<1>2. /\ s \in SiteIds /\ s # NoSite /\ outcome[s] = "none" /\ site = NoSite /\ NoSite \notin SiteIds
      /\ outcome \in [SiteIds -> Outcomes]
  BY DEF RefusalStands, Spared, SiteIds, NoSite, TakeSite
<1>3. UNCHANGED <<sites, base, tries, engineUp>>
  BY DEF TakeSite, factorVars
<1>4. SiteIds' = SiteIds /\ OAuthSites' = OAuthSites BY <1>3 DEF SiteIds, OAuthSites
<1>5. Failed' = Failed BY <1>1, <1>2, <1>4 DEF Failed, OAuthSites
<1>6. \A r \in queue' \cup {site'} : r # NoSite => outcome'[r] = "none"
  BY <1>1, <1>2 DEF Spared, RefusalStands
<1>7. site' \in OAuthSites' => tries < GroupLimit
  BY <1>1, <1>2, <1>4, LoginRecoveryAssumption DEF Spared, OAuthSites
<1>8. UpstreamIsSpared' BY <1>3, <1>5 DEF Spared, UpstreamIsSpared, Failed
<1> QED BY <1>3, <1>4, <1>5, <1>6, <1>7, <1>8 DEF Spared

LEMMA SparedKept == RefusalStands /\ Spared /\ [Next]_vars => Spared'
<1> SUFFICES ASSUME RefusalStands, Spared, [Next]_vars PROVE Spared'
  OBVIOUS
<1> USE DEF Done, Trial, Loop, factorVars, engineVars
<1>0. (helper # "none" => site # NoSite) /\ NoSite \notin SiteIds BY DEF RefusalStands, NoSite, SiteIds
<1>1. CASE UNCHANGED vars BY <1>1, SparedOn DEF vars, SparesOn
<1>2. CASE RunBegins
  <2>1. \E past : base' = Cardinality({s \in OAuthSites : past[s] = "upstream"})
    BY <1>2 DEF RunBegins
  <2>2. base' \in Nat
    <3>1. PICK past : base' = Cardinality({s \in OAuthSites : past[s] = "upstream"}) BY <2>1
    <3>2. {s \in OAuthSites : past[s] = "upstream"} \subseteq SiteIds BY DEF OAuthSites
    <3> QED BY <3>1, <3>2, FS_Subset, FS_CardinalityType DEF Spared
  <2>3. queue' \subseteq SiteIds BY <1>2 DEF RunBegins, MayAsk
  <2>4. UNCHANGED <<sites, site>> /\ site = NoSite /\ tries' = base' /\ outcome' = [s \in SiteIds |-> "none"]
    BY <1>2 DEF RunBegins, EngineUp, RefusalStands
  <2> QED BY <1>0, <2>2, <2>3, <2>4, SparedAfresh
<1>3. CASE TakeSite BY <1>3, SparedTaking
<1>4. CASE StartJournaled
  <2>1. engineUp' = engineUp
    BY <1>4 DEF StartJournaled, PasswordBegin, NexusBegin
  <2> QED BY <1>4, <2>1, SparedOn DEF StartJournaled, Ready, SparesOn
<1>5. CASE JournaledCannotBegin
  BY <1>5, SparedHelperStep DEF JournaledCannotBegin, Ready, Outcomes, Final
<1>6. CASE JournaledEnds
  <2>1. \A k : Reported(k) \in Outcomes BY DEF Reported, Outcomes, Final
  <2> QED BY <1>6, <2>1, SparedHelperStep DEF JournaledEnds
<1>7. CASE TrySavedPassword \/ TryNativePassword \/ TryPlainWindow
  BY <1>7, SparedHelperStep DEF TrySavedPassword, TryNativePassword, TryPlainWindow, Ready, Outcomes, Final
<1>8. CASE StartProtected \/ StartOAuth
  BY <1>8, SparedHelperStep DEF StartProtected, StartOAuth, Ready, Outcomes
<1>9. CASE ProtectedApi \/ ProtectedWindow \/ ProtectedAutomation \/ ProtectedNative
  BY <1>0, <1>9, SparedHelperStep
     DEF ProtectedApi, ProtectedWindow, ProtectedAutomation, ProtectedNative, LoggedIn, EndsAs,
         NextTier, At, Outcomes, Final
<1>10. CASE OAuthEnter \/ OAuthRead \/ OAuthLogout \/ PlainOAuth \/ HelperKilled
  BY <1>0, <1>10, SparedHelperStep
     DEF OAuthEnter, OAuthRead, OAuthLogout, PlainOAuth, HelperKilled, OAuthFails, Failure, At,
         Outcomes, Final
<1>11. CASE GenericProvider \/ GenericUpstream \/ GenericAuthorize \/ GenericVerify
  BY <1>0, <1>11, SparedHelperStep
     DEF GenericProvider, GenericUpstream, GenericAuthorize, GenericVerify, LoggedIn, EndsAs, Verdict,
         At, Outcomes, Final
<1>12. CASE NativeProvider \/ NativeConsent \/ NativeUpstream \/ NativeHome \/ NativeGitHub
            \/ NativeGoogle \/ NativeBack \/ NativeVerify
  BY <1>0, <1>12, SparedHelperStep
     DEF NativeProvider, NativeConsent, NativeUpstream, NativeHome, NativeGitHub, NativeGoogle,
         NativeBack, NativeVerify, OAuthFails, Verdict, At, Outcomes, Final
<1>13. CASE RoundOver
  <2>1. /\ UNCHANGED <<sites, site, base>> /\ site = NoSite /\ tries' = base
        /\ outcome' = [s \in SiteIds |-> "none"]
    BY <1>13 DEF RoundOver
  <2>2. queue' \subseteq SiteIds BY <1>13 DEF RoundOver
  <2> QED BY <1>0, <2>1, <2>2, SparedAfresh DEF Spared
<1>14. CASE EngineDies
  <2>1. /\ UNCHANGED <<sites, base, tries>> /\ engineUp' = FALSE /\ queue' = {} /\ site' = NoSite
        /\ outcome' = [s \in SiteIds |-> "none"]
    BY <1>14 DEF EngineDies, EngineCrash
  <2>2. SiteIds' = SiteIds /\ OAuthSites' = OAuthSites /\ OAuthSites \subseteq SiteIds
    BY <2>1 DEF SiteIds, OAuthSites
  <2>3. Failed' = {} /\ Cardinality(Failed') = 0 BY <2>1, <2>2, FS_EmptySet DEF Failed
  <2>4. UpstreamIsSpared' BY <2>1, <2>3, LoginRecoveryAssumption DEF UpstreamIsSpared, Failed, Spared
  <2> QED BY <2>1, <2>2, <2>4 DEF Spared
<1>15. CASE DayPasses BY <1>15, SparedOn DEF DayPasses, Midnight, SparesOn
<1>16. CASE VisitHddolby \/ Preflight
  BY <1>16, SparedOn DEF VisitHddolby, Preflight, HddolbyBegin, StepUpBegin, SparesOn
<1>17. CASE Factors
  <2>1. engineUp' = engineUp
    BY <1>17 DEF Factors, Booking, StepUpBook, PasswordCheck, PasswordBook, NexusCheck, HhclubFill,
       HhclubBook, UhdBook, HddolbyCheck, HddolbyBook, Book, FactorStep, Prepare, NoCode, AlreadyIn,
       Refuse, Post, Withhold, Finish, Die
  <2> QED BY <1>17, <2>1, SparedOn DEF Factors, SparesOn
<1> QED BY <1>1, <1>2, <1>3, <1>4, <1>5, <1>6, <1>7, <1>8, <1>9, <1>10, <1>11, <1>12, <1>13,
           <1>14, <1>15, <1>16, <1>17 DEF Next

(* A round charges failing logins to the shared upstream only up to its    *)
(* daily limit, those of earlier runs of the day included; a report that   *)
(* was over the limit already is not added to.                             *)
THEOREM UpstreamStaysSpared == Spec => []UpstreamIsSpared
<1>1. Init => RefusalStands
  BY LoginRecoveryAssumption DEF Init, RefusalStands, SiteIds, NoSite, Outcomes
<1>2. Init => Spared
  <2> SUFFICES ASSUME Init PROVE Spared OBVIOUS
  <2>1. IsFiniteSet(SiteIds) /\ base = 0 /\ tries = 0 /\ site = NoSite /\ queue = {} /\ ~engineUp
    BY LoginRecoveryAssumption DEF Init, SiteIds, FactorInit
  <2>2. Failed = {} /\ Cardinality(Failed) = 0 BY FS_EmptySet DEF Init, Failed, OAuthSites
  <2>3. UpstreamIsSpared BY <2>1, <2>2, LoginRecoveryAssumption DEF UpstreamIsSpared, Failed
  <2> QED BY <2>1, <2>3 DEF Spared
<1>3. Spared => UpstreamIsSpared BY DEF Spared
<1> QED BY <1>1, <1>2, <1>3, RefusalKept, SparedKept, PTL DEF Spec

----------------------------------------------------------------------------
(* The current session is ended for a reason only.  A helper about to log  *)
(* out was told to by the rule of the site, or has read that the account   *)
(* is not logged in or has no reward today; nothing grants one meanwhile.  *)
Pageless == {"none", "saved_password", "native_saved_password"}
Founded ==
    /\ today \in Nat /\ \A r \in rewards : r[2] \in Nat /\ r[2] <= today
    /\ "at" \in DOMAIN oa
    /\ oa.at # "none" => helper \notin Pageless
    /\ oa.at = "logout" =>
         sites[site].forceLogout \/ account[site] # "right" \/ ~Rewarded(site)

(* A step after which no helper is about to log out.                       *)
Elsewhere ==
    /\ today' = today
    /\ rewards' = rewards \/ rewards' = rewards \cup {<<site, today>>}
    /\ "at" \in DOMAIN oa' /\ oa'.at # "logout"
    /\ oa'.at # "none" => helper' \notin Pageless

LEMMA FoundedElsewhere == Founded /\ Elsewhere => Founded'
BY DEF Founded, Elsewhere

(* A step that leaves a helper where it is.                                *)
LEMMA FoundedStays ==
    ASSUME Founded,
           UNCHANGED <<sites, today, oa, account, rewards>>,
           UNCHANGED <<site, helper>> \/ oa.at = "none"
    PROVE  Founded'
BY DEF Founded, Rewarded

(* From step to step of its own flow a helper keeps the record of it.      *)
LEMMA Flowing ==
    ASSUME "at" \in DOMAIN oa
    PROVE  /\ \A at : LET f == [oa EXCEPT !.at = at] IN "at" \in DOMAIN f /\ f.at = at
           /\ "at" \in DOMAIN NoFlow /\ NoFlow.at = "none"
           /\ \A at : LET f == [NoFlow EXCEPT !.at = at] IN "at" \in DOMAIN f /\ f.at = at
BY DEF NoFlow

(* How a helper's flow may go on, other than to the logout.                *)
LEMMA FlowElsewhere ==
    ASSUME Founded, today' = today, rewards' = rewards \/ rewards' = rewards \cup {<<site, today>>},
           oa' = NoFlow \/ \E at : at # "logout" /\ Flow(at) /\ helper' = helper /\ oa.at # "none"
    PROVE  Founded'
BY Flowing, FoundedElsewhere DEF Founded, Elsewhere, Flow

LEMMA FoundedKept == RefusalStands /\ Evidenced /\ Founded /\ [Next]_vars => Founded'
<1> SUFFICES ASSUME RefusalStands, Evidenced, Founded, [Next]_vars PROVE Founded'
  OBVIOUS
<1> USE DEF Trial, Loop, World, factorVars, engineVars
<1>0. helper = "none" => oa.at = "none" BY DEF Founded, Pageless
<1>1. CASE UNCHANGED vars BY <1>1, FoundedStays DEF vars
<1>2. CASE RunBegins
  <2>1. helper = "none" BY <1>2 DEF RunBegins, EngineUp, RefusalStands
  <2> QED BY <1>0, <1>2, <2>1, FoundedStays DEF RunBegins, EngineUp
<1>3. CASE TakeSite
  <2>1. helper = "none" BY <1>3 DEF TakeSite, RefusalStands
  <2> QED BY <1>0, <1>3, <2>1, FoundedStays DEF TakeSite
<1>4. CASE StartJournaled \/ VisitHddolby \/ Preflight
  <2>1. CASE StartJournaled
    <3>1. helper = "none" /\ UNCHANGED <<sites, today, oa, account, rewards>>
      BY <2>1 DEF StartJournaled, Ready, PasswordBegin, NexusBegin
    <3> QED BY <1>0, <3>1, FoundedStays
  <2>2. CASE VisitHddolby
    <3>1. UNCHANGED <<sites, today, oa, account, rewards, site, helper>>
      BY <2>2 DEF VisitHddolby, HddolbyBegin
    <3> QED BY <3>1, FoundedStays
  <2>3. CASE Preflight
    <3>1. UNCHANGED <<sites, today, oa, account, rewards, site, helper>>
      BY <2>3 DEF Preflight, StepUpBegin
    <3> QED BY <3>1, FoundedStays
  <2> QED BY <1>4, <2>1, <2>2, <2>3
<1>5. CASE JournaledCannotBegin \/ TrySavedPassword \/ TryNativePassword \/ TryPlainWindow
  BY <1>0, <1>5, FoundedStays
     DEF JournaledCannotBegin, TrySavedPassword, TryNativePassword, TryPlainWindow, Ready
<1>6. CASE JournaledEnds
  <2>1. oa.at = "none" BY <1>6 DEF JournaledEnds, Journaled, Founded, Pageless
  <2> QED BY <1>6, <2>1, FoundedStays DEF JournaledEnds
<1>7. CASE StartProtected
  <2>1. \/ oa' = oa /\ helper = "none" /\ UNCHANGED <<sites, today, account, rewards>>
        \/ /\ \E at \in {"api", "window"} : oa' = [NoFlow EXCEPT !.at = at]
           /\ UNCHANGED <<today, rewards>> /\ helper' = "protected_credential"
    BY <1>7 DEF StartProtected, Ready
  <2>2. CASE oa' = oa /\ helper = "none" /\ UNCHANGED <<sites, today, account, rewards>>
    BY <1>0, <2>2, FoundedStays
  <2>3. CASE /\ \E at \in {"api", "window"} : oa' = [NoFlow EXCEPT !.at = at]
             /\ UNCHANGED <<today, rewards>> /\ helper' = "protected_credential"
    <3>1. Elsewhere BY <2>3, Flowing DEF Founded, Elsewhere, Pageless
    <3> QED BY <3>1, FoundedElsewhere
  <2> QED BY <2>1, <2>2, <2>3
<1>8. CASE StartOAuth
  <2>1. /\ helper' = Method /\ IsOAuth(Method)
        /\ UNCHANGED <<sites, today, site, account, rewards>>
        /\ \/ \E at \in {"read", "enter"} : oa' = [NoFlow EXCEPT !.at = at]
           \/ sites[site].forceLogout /\ oa' = [NoFlow EXCEPT !.at = "logout", !.forced = TRUE]
    BY <1>8 DEF StartOAuth
  <2>2. CASE \E at \in {"read", "enter"} : oa' = [NoFlow EXCEPT !.at = at]
    BY <2>1, <2>2, Flowing, FoundedElsewhere DEF Founded, Elsewhere, IsOAuth, Pageless
  <2>3. CASE sites[site].forceLogout /\ oa' = [NoFlow EXCEPT !.at = "logout", !.forced = TRUE]
    <3>1. "at" \in DOMAIN oa' BY <2>3 DEF NoFlow
    <3> QED BY <2>1, <2>3, <3>1 DEF Founded, IsOAuth, Pageless
  <2> QED BY <2>1, <2>2, <2>3
<1>9. CASE ProtectedApi \/ ProtectedWindow \/ ProtectedAutomation \/ ProtectedNative
  <2>1. today' = today /\ (rewards' = rewards \/ rewards' = rewards \cup {<<site, today>>})
    BY <1>9 DEF ProtectedApi, ProtectedWindow, ProtectedAutomation, ProtectedNative, LoggedIn, EndsAs, NextTier
  <2>2. oa' = NoFlow \/ \E at : at # "logout" /\ Flow(at) /\ helper' = helper /\ oa.at # "none"
    BY <1>9 DEF ProtectedApi, ProtectedWindow, ProtectedAutomation, ProtectedNative, LoggedIn, EndsAs,
       NextTier, At, Done
  <2> QED BY <2>1, <2>2, FlowElsewhere
<1>10. CASE OAuthEnter \/ HelperKilled
  <2>1. today' = today /\ (rewards' = rewards \/ rewards' = rewards \cup {<<site, today>>})
    BY <1>10 DEF OAuthEnter, HelperKilled
  <2>2. oa' = NoFlow \/ \E at : at # "logout" /\ Flow(at) /\ helper' = helper /\ oa.at # "none"
    BY <1>10 DEF OAuthEnter, HelperKilled, At, Done
  <2> QED BY <2>1, <2>2, FlowElsewhere
<1>f. \A o : OAuthFails(o) => oa' = NoFlow \/ (Flow("plain") /\ helper' = helper) BY DEF OAuthFails, Done
<1>11. CASE OAuthRead
  <2>1. UNCHANGED <<sites, today, account, rewards>> BY <1>11 DEF OAuthRead
  <2>0. oa.at # "none" BY <1>11 DEF OAuthRead, At
  <2>2. \/ oa' = NoFlow \/ (Flow("plain") /\ helper' = helper)
        \/ \E r \in Readings(site) : Justifies(r) /\ Flow("logout") /\ UNCHANGED <<site, helper>>
    BY <1>11, <1>f DEF OAuthRead, Done
  <2>3. CASE oa' = NoFlow \/ (Flow("plain") /\ helper' = helper) BY <2>0, <2>1, <2>3, FlowElsewhere
  <2>4. CASE \E r \in Readings(site) : Justifies(r) /\ Flow("logout") /\ UNCHANGED <<site, helper>>
    <3>1. site \in SiteIds BY <1>11 DEF OAuthRead, At, RefusalStands
    <3>2. account[site] # "right" \/ ~Rewarded(site)
      BY <2>4, <3>1 DEF Justifies, Readings, Truth, Evidenced, Logins
    <3> QED BY <2>0, <2>1, <2>4, <3>2, Flowing DEF Founded, Flow, Rewarded
  <2> QED BY <2>2, <2>3, <2>4
<1>12. CASE OAuthLogout
  <2>1. today' = today /\ rewards' = rewards /\ oa.at # "none" BY <1>12 DEF OAuthLogout, At
  <2>2. CASE oa' = NoFlow \/ (Flow("plain") /\ helper' = helper) BY <2>1, <2>2, FlowElsewhere
  <2>3. CASE /\ oa' = [oa EXCEPT !.at = IF oa.forced THEN "enter" ELSE "provider", !.forced = FALSE]
             /\ helper' = helper
    <3>1. "at" \in DOMAIN oa' /\ oa'.at \in {"enter", "provider"} BY <2>3 DEF Founded
    <3> QED BY <2>1, <2>3, <3>1, FoundedElsewhere DEF Founded, Elsewhere
  <2> QED BY <1>12, <1>f, <2>2, <2>3 DEF OAuthLogout
<1>13. CASE GenericProvider \/ GenericUpstream \/ GenericAuthorize \/ GenericVerify
  <2>1. today' = today /\ (rewards' = rewards \/ rewards' = rewards \cup {<<site, today>>})
    BY <1>13 DEF GenericProvider, GenericUpstream, GenericAuthorize, GenericVerify, Exchange, LoggedIn, EndsAs
  <2>2. oa' = NoFlow \/ \E at : at # "logout" /\ Flow(at) /\ helper' = helper /\ oa.at # "none"
    BY <1>13 DEF GenericProvider, GenericUpstream, GenericAuthorize, GenericVerify, LoggedIn, EndsAs, At, Done
  <2> QED BY <2>1, <2>2, FlowElsewhere
<1>14. CASE NativeProvider \/ NativeConsent \/ NativeUpstream \/ NativeHome \/ NativeGitHub
            \/ NativeGoogle \/ NativeBack \/ NativeVerify
  <2>0. oa.at # "none"
    BY <1>14 DEF NativeProvider, NativeConsent, NativeUpstream, NativeHome, NativeGitHub, NativeGoogle,
       NativeBack, NativeVerify, At
  <2>1. today' = today /\ (rewards' = rewards \/ rewards' = rewards \cup {<<site, today>>})
    BY <1>14 DEF NativeProvider, NativeConsent, NativeUpstream, NativeHome, NativeGitHub, NativeGoogle,
       NativeBack, NativeVerify, Exchange
  <2>2. \/ oa' = NoFlow \/ \E at : at # "logout" /\ Flow(at) /\ helper' = helper
        \/ helper' = helper /\ \E p \in Places \cup {"provider"} :
             \/ oa' = [oa EXCEPT !.clicks = @ + 1, !.at = p]
             \/ oa' = [oa EXCEPT !.upstream = TRUE, !.resume = TRUE, !.at = p]
             \/ oa' = [oa EXCEPT !.at = p, !.resume = FALSE]
             \/ oa' = [oa EXCEPT !.github = TRUE, !.at = p]
             \/ oa' = [oa EXCEPT !.google = TRUE, !.at = p]
    BY <1>14, <1>f DEF NativeProvider, NativeConsent, NativeUpstream, NativeHome, NativeGitHub, NativeGoogle,
       NativeBack, NativeVerify, Onward, Done, Places
  <2>3. CASE oa' = NoFlow \/ \E at : at # "logout" /\ Flow(at) /\ helper' = helper
    BY <2>0, <2>1, <2>3, FlowElsewhere
  <2>4. ASSUME helper' = helper, NEW p \in Places \cup {"provider"},
               \/ oa' = [oa EXCEPT !.clicks = @ + 1, !.at = p]
               \/ oa' = [oa EXCEPT !.upstream = TRUE, !.resume = TRUE, !.at = p]
               \/ oa' = [oa EXCEPT !.at = p, !.resume = FALSE]
               \/ oa' = [oa EXCEPT !.github = TRUE, !.at = p]
               \/ oa' = [oa EXCEPT !.google = TRUE, !.at = p]
        PROVE  Founded'
    <3>1. "at" \in DOMAIN oa' /\ oa'.at = p BY <2>4 DEF Founded
    <3>2. p # "logout" BY DEF Places
    <3> QED BY <2>0, <2>1, <2>4, <3>1, <3>2, FoundedElsewhere DEF Founded, Elsewhere
  <2> QED BY <2>2, <2>3, <2>4
<1>15. CASE PlainOAuth
  <2>1. today' = today /\ (rewards' = rewards \/ rewards' = rewards \cup {<<site, today>>}) /\ oa.at # "none"
    BY <1>15 DEF PlainOAuth, Exchange, At
  <2>2. oa' = NoFlow \/ (oa' = [NoFlow EXCEPT !.at = "read", !.turn = 2] /\ helper' = helper)
    BY <1>15 DEF PlainOAuth, Done
  <2>3. oa' = NoFlow \/ ("at" \in DOMAIN oa' /\ oa'.at = "read" /\ helper' = helper) BY <2>2 DEF NoFlow
  <2>4. Elsewhere BY <2>1, <2>3, Flowing DEF Founded, Elsewhere
  <2> QED BY <2>4, FoundedElsewhere
<1>16. CASE RoundOver
  <2>1. helper = "none" /\ UNCHANGED <<sites, today, oa, account, rewards>>
    BY <1>16 DEF RoundOver, EngineExit, RefusalStands
  <2> QED BY <1>0, <2>1, FoundedStays
<1>17. CASE EngineDies
  <2>1. today' = today /\ rewards' = rewards /\ oa' = NoFlow BY <1>17 DEF EngineDies, EngineCrash
  <2> QED BY <2>1, FlowElsewhere
<1>18. CASE DayPasses
  <2>1. UNCHANGED <<sites, site, helper, oa, account, rewards>> /\ today' = today + 1
    BY <1>18 DEF DayPasses, Midnight
  <2>2. <<site, today + 1>> \notin rewards BY DEF Founded
  <2> QED BY <2>1, <2>2 DEF Founded, Rewarded
<1>19. CASE Factors
  <2>1. UNCHANGED <<engineUp, today>>
    BY <1>19 DEF Factors, Booking, StepUpBook, PasswordCheck, PasswordBook, NexusCheck, HhclubFill,
       HhclubBook, UhdBook, HddolbyCheck, HddolbyBook, Book, FactorStep, Prepare, NoCode, AlreadyIn,
       Refuse, Post, Withhold, Finish, Die
  <2> QED BY <1>19, <2>1, FoundedStays DEF Factors
<1> QED BY <1>1, <1>2, <1>3, <1>4, <1>5, <1>6, <1>7, <1>8, <1>9, <1>10, <1>11, <1>12, <1>13,
           <1>14, <1>15, <1>16, <1>17, <1>18, <1>19 DEF Next

(* The session of the right account is not ended on a day whose reward it  *)
(* has, unless the site's rule says so: whichever helper read the account, *)
(* and whatever day it is by the time it logs out.                         *)
THEOREM LogoutsAreJustified == Spec => LogoutIsJustified
<1>1. Init => RefusalStands /\ Evidenced /\ Founded
  BY LoginRecoveryAssumption
     DEF Init, RefusalStands, SiteIds, NoSite, Outcomes, Evidenced, RunsToday, ClaimIsProved, Booked,
         FactorInit, Logins, Founded, NoFlow
<1>2. ASSUME RefusalStands, Evidenced, Founded, [Next]_vars, NEW s \in Ruled,
             account[s] = "right", account'[s] = "none"
      PROVE  ~Rewarded(s) \/ sites[s].forceLogout
  <2>1. OAuthLogout \/ account' = account \/ \E who \in {"right", "wrong"} : account' = [account EXCEPT ![site] = who]
    BY <1>2 DEF Next, vars, engineVars, World, RunBegins, TakeSite, StartJournaled, JournaledCannotBegin,
       JournaledEnds, StartProtected, ProtectedApi, ProtectedWindow, ProtectedAutomation, ProtectedNative,
       TrySavedPassword, TryNativePassword, TryPlainWindow, StartOAuth, OAuthEnter, OAuthRead,
       GenericProvider, GenericUpstream, GenericAuthorize, GenericVerify, NativeProvider, NativeConsent,
       NativeUpstream, NativeHome, NativeGitHub, NativeGoogle, NativeBack, NativeVerify, PlainOAuth,
       HelperKilled, RoundOver, EngineDies, DayPasses, VisitHddolby, Preflight, Factors, Exchange
  <2>2. s \in SiteIds BY DEF Ruled
  <2>3. OAuthLogout BY <1>2, <2>1, <2>2 DEF Evidenced
  <2>4. oa.at = "logout" /\ account' = [account EXCEPT ![site] = "none"]
    BY <1>2, <2>2, <2>3 DEF OAuthLogout, At
  <2>5. s = site BY <1>2, <2>2, <2>4 DEF Evidenced
  <2> QED BY <1>2, <2>4, <2>5 DEF Founded
<1>3. RefusalStands /\ Evidenced /\ Founded /\ [Next]_vars =>
        [\A s \in Ruled : account[s] = "right" /\ account'[s] = "none" => ~Rewarded(s) \/ sites[s].forceLogout]_vars
  BY <1>2
<1> QED BY <1>1, <1>3, RefusalKept, EvidenceKept, FoundedKept, PTL DEF Spec, LogoutIsJustified

=============================================================================
