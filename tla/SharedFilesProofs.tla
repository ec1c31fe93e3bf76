------------------------- MODULE SharedFilesProofs -------------------------
(***************************************************************************)
(* Files that processes started side by side share: the run lock and the   *)
(* notification outbox.                                                    *)
(*                                                                         *)
(* For any processes and any crashes: until a guard or a lock file is      *)
(* removed from under its live owner, the run lock excludes and the lock   *)
(* file is its holder's.                                                   *)
(*                                                                         *)
(* For any sites, reporters and deaths: a site is announced once a day, a  *)
(* recovery has its outage, receipts outlast outages of the observation    *)
(* layer, and states are told in order.  The two models share no variable. *)
(***************************************************************************)
EXTENDS RunLock, NotificationOutbox, WellFoundedInduction, TLAPS

-----------------------------------------------------------------------------
(* The run lock.                                                            *)

\* Pids are reused, and parents clean up, after a death only.
DeadAreDead == \A p \in reused \cup cleaning : Dead(p)

\* Whoever works inside the guard made it.
GuardHeld == ~trespass => \A p \in Proc : pc[p] \in Section => guard = p

\* The file is that of the process writing it or working under it.
FileHeld ==
  ~trespass => \A p \in Proc :
    /\ pc[p] = "opened" => file = Partial(p)
    /\ pc[p] \in {"got", "holding", "relremove"} => file = Whole(p)

\* The file that was read is still there, or a parent has removed it; a file
\* about to be removed has no live owner.
JudgedFile ==
  ~trespass => \A p \in Proc :
    /\ pc[p] = "probe" => file \in {NoFile, Whole(seen[p])}
    /\ pc[p] = "remove" => file = NoFile \/ Dead(file.by)

IInv == TypeOK /\ DeadAreDead /\ GuardHeld /\ FileHeld /\ JudgedFile

LEMMA InitIInv == Init => IInv
  BY RunLockAssumption
  DEF Init, IInv, TypeOK, DeadAreDead, GuardHeld, FileHeld, JudgedFile, Steps, Section, NoFile

\* Every action keeps every conjunct; only the file's owner, its judge and the
\* parent of a dead owner write the file.
LEMMA StepIInv == IInv /\ [Next]_vars => IInv'
<1> SUFFICES ASSUME IInv, [Next]_vars PROVE IInv'
  OBVIOUS
<1> USE RunLockAssumption
    DEF IInv, TypeOK, DeadAreDead, GuardHeld, FileHeld, JudgedFile,
        Steps, Section, NoFile, Whole, Partial, Dead, Go
<1>1. CASE UNCHANGED vars
  BY <1>1 DEF vars
<1>2. ASSUME NEW p \in Proc, CallAcquire(p) PROVE IInv'
  BY <1>2 DEF CallAcquire
<1>3. ASSUME NEW p \in Proc, CallRelease(p) PROVE IInv'
  BY <1>3 DEF CallRelease
<1>4. ASSUME NEW p \in Proc, Guarding(p) PROVE IInv'
  <2>1. CASE MakeGuard(p)
    <3>1. TypeOK' /\ DeadAreDead' BY <2>1 DEF MakeGuard
    <3>2. ~trespass /\ pc'[p] \in Section => \A q \in Proc : pc[q] \notin Section
      BY <2>1 DEF MakeGuard
    <3>3. GuardHeld' BY <2>1, <3>2 DEF MakeGuard
    <3>4. FileHeld' BY <2>1 DEF MakeGuard
    <3>5. JudgedFile' BY <2>1 DEF MakeGuard
    <3> QED BY <3>1, <3>3, <3>4, <3>5
  <2>2. CASE StatGuard(p) BY <2>2 DEF StatGuard
  <2>3. CASE BreakGuard(p) BY <2>3 DEF BreakGuard
  <2>4. CASE GuardTimeout(p) BY <2>4 DEF GuardTimeout
  <2>5. CASE LeaveGuard(p) BY <2>5 DEF LeaveGuard
  <2> QED BY <1>4, <2>1, <2>2, <2>3, <2>4, <2>5 DEF Guarding
<1>5. ASSUME NEW p \in Proc, Acquire(p) PROVE IInv'
  <2>1. CASE Create(p)
    <3>1. CASE file = NoFile
      <4>1. file' = Partial(p) /\ pc' = [pc EXCEPT ![p] = "opened"] /\ p # NoProc
        BY <2>1, <3>1 DEF Create
      <4>2. ~trespass => \A q \in Proc : q # p => pc[q] \notin Section \cup {"holding"}
        BY <2>1, <3>1 DEF Create
      <4> QED BY <2>1, <4>1, <4>2 DEF Create
    <3>2. CASE file # NoFile BY <2>1, <3>2 DEF Create
    <3> QED BY <3>1, <3>2
  <2>2. CASE WriteOwner(p)
    <3>1. CASE trespass
      <4>1. file' \in [by : Proc, whole : BOOLEAN] \cup {NoFile}
        BY <2>2 DEF WriteOwner
      <4> QED BY <2>2, <3>1, <4>1 DEF WriteOwner
    <3>2. CASE ~trespass
      <4>1. file = Partial(p) /\ file' = Whole(p)
        BY <2>2, <3>2 DEF WriteOwner
      <4>2. \A q \in Proc : q # p => pc[q] \notin Section \cup {"holding"}
        BY <2>2, <3>2, <4>1 DEF WriteOwner
      <4>3. pc' = [pc EXCEPT ![p] = "got"] /\ file' \in [by : Proc, whole : BOOLEAN]
        BY <2>2, <4>1 DEF WriteOwner
      <4>4. \A q \in Proc : q # p => pc'[q] = pc[q]
        BY <4>3
      <4>5. TypeOK' /\ DeadAreDead'
        BY <2>2, <4>3 DEF WriteOwner
      <4>6. GuardHeld'
        BY <2>2, <3>2, <4>3, <4>4 DEF WriteOwner
      <4>7. FileHeld'
        BY <4>1, <4>2, <4>3, <4>4
      <4>8. JudgedFile'
        BY <4>2, <4>3, <4>4
      <4> QED BY <4>5, <4>6, <4>7, <4>8
    <3> QED BY <3>1, <3>2
  <2>3. CASE Inspect(p) BY <2>3 DEF Inspect
  <2>4. CASE ProbeOwner(p) BY <2>4 DEF ProbeOwner
  <2>5. CASE RemoveLock(p) BY <2>5 DEF RemoveLock
  <2> QED BY <1>5, <2>1, <2>2, <2>3, <2>4, <2>5 DEF Acquire
<1>6. ASSUME NEW p \in Proc, Release(p) PROVE IInv'
  <2>1. CASE ReleaseRead(p) BY <2>1 DEF ReleaseRead
  <2>2. CASE ReleaseRemove(p) BY <2>2 DEF ReleaseRemove
  <2> QED BY <1>6, <2>1, <2>2 DEF Release
<1>7. ASSUME NEW p \in Proc, ParentMatch(p) PROVE IInv'
  BY <1>7 DEF ParentMatch
<1>8. ASSUME NEW p \in Proc, ParentRemove(p) PROVE IInv'
  <2>1. Dead(p) /\ file' = NoFile /\ UNCHANGED <<guard, old, pc, seen, releasing, reused>>
    BY <1>8 DEF ParentRemove
  \* p's own file is nobody's who is alive
  <2>2. ~trespass' => ~trespass /\ file \in {NoFile, Whole(p)}
    BY <1>8 DEF ParentRemove
  <2>3. ~trespass' => \A q \in Proc : pc[q] \notin {"opened", "got", "holding", "relremove"}
    BY <2>1, <2>2
  <2>4. TypeOK' /\ DeadAreDead'
    BY <1>8, <2>1 DEF ParentRemove
  <2> QED BY <2>1, <2>2, <2>3, <2>4
<1>9. ASSUME NEW p \in Proc, Crash(p) PROVE IInv'
  BY <1>9 DEF Crash
<1>10. ASSUME NEW p \in Proc, PidReused(p) PROVE IInv'
  BY <1>10 DEF PidReused
<1>11. CASE GuardAges
  BY <1>11 DEF GuardAges
<1> QED
  BY <1>1, <1>2, <1>3, <1>4, <1>5, <1>6, <1>7, <1>8, <1>9, <1>10, <1>11 DEF Next, Run

LEMMA AlwaysIInv == Spec => []IInv
  BY InitIInv, StepIInv, PTL DEF Spec

\* No two processes work under the run lock until a guard or a lock file is
\* removed from under its live owner (run-lock.mjs, 107; RunLock.ps1, 18).
THEOREM RunLockExcludes == Spec => []ExcludesUnlessTrespassed
<1>1. IInv => ExcludesUnlessTrespassed
  BY DEF IInv, FileHeld, ExcludesUnlessTrespassed, MutualExclusion, Whole
<1> QED
  BY <1>1, AlwaysIInv, PTL

\* Until then the holder's lease is on disk, and a release removes the lease
\* of the releasing process.
THEOREM RunLeaseIsItsOwners == Spec => []LeaseIsItsOwners
<1>1. IInv => LeaseIsItsOwners
  BY DEF IInv, FileHeld, LeaseIsItsOwners
<1> QED
  BY <1>1, AlwaysIInv, PTL

-----------------------------------------------------------------------------
(* Naturals that have a bound have a greatest one among them.               *)
LEMMA MaxOfBounded ==
  ASSUME NEW S, NEW n \in Nat, S # {}, \A x \in S : x \in Nat /\ x <= n
  PROVE  Max(S) \in S /\ \A x \in S : x <= Max(S)
<1> DEFINE T == {n - x : x \in S}
           R == OpToRel(<, Nat)
<1>1. T \subseteq Nat /\ T # {}
  OBVIOUS
<1>2. PICK d \in T : \A y \in T : ~(<<y, d>> \in R)
  <2> HIDE DEF R, T
  <2> QED BY <1>1, NatLessThanWellFounded, WFMin DEF R
<1>3. PICK x \in S : d = n - x
  BY <1>2
<1>4. ASSUME NEW y \in S PROVE y <= x
  <2>1. n - y \in T /\ n - y \in Nat /\ n - x \in Nat
    BY <1>1
  <2>2. ~(<<n - y, n - x>> \in R)
    BY <1>2, <1>3, <2>1
  <2>3. ~(n - y < n - x)
    BY <2>1, <2>2 DEF OpToRel
  <2> QED BY <2>1, <2>3
<1>5. \A y \in S : x >= y
  BY <1>4
<1>6. Max(S) \in S /\ \A y \in S : Max(S) >= y
  BY <1>5 DEF Max
<1> QED BY <1>6

-----------------------------------------------------------------------------
(* Type correctness of the outbox.                                          *)

Dated == {"action", "digest", "failed", "missing"}
Kinds == Dated \cup {"state", "blocked", "recovered"}
Keys == [kind : Kinds, day : Int, about : SUBSET Sites]
Items == [created : Nat, news : SUBSET Sites, how : {"pending", "told", "superseded"}]
Boxes == UNION {[S -> Items] : S \in SUBSET Keys}

Writes == [key : Keys, news : SUBSET Sites]
Replaces == [key : Keys, item : Items]
Views == [pc : {"off", "read", "write", "replace"}, now : Nat, up : BOOLEAN, final : BOOLEAN,
          problems : SUBSET Sites, plan : Plans \cup {"none"}, keep : SUBSET Sites,
          events : SUBSET (Writes \cup Replaces), alone : BOOLEAN]
Workers == [pc : {"off", "run"}, stale : Boxes, due : Boxes, ack : BOOLEAN, sent : SUBSET Keys]
Worlds == [plan : Plans, problems : SUBSET Sites, final : BOOLEAN, failed : BOOLEAN,
           signed : SUBSET Sites, denied : SUBSET Sites]
Healths == [id : Nat, streak : 0..2, code : 0..2, notified : BOOLEAN]

\* What a reporter is about to write.
EventsTyped ==
  \A r \in Reporters :
    /\ rep[r].pc = "write" =>
         \A e \in rep[r].events : e \in Writes /\ e.key.kind \in Dated
    /\ rep[r].pc = "replace" =>
         \A e \in rep[r].events : e \in Replaces /\ e.key.kind = "state"

\* The worker works on items of the outbox.
CopiesAreOfTheBox ==
  /\ DOMAIN worker.stale \subseteq DOMAIN box
  /\ DOMAIN worker.due \subseteq DOMAIN box
  /\ worker.sent \subseteq DOMAIN worker.due

OutboxTyped ==
  /\ clock \in Nat /\ world \in Worlds /\ kept \subseteq Sites /\ scope \in Plans \cup {"none"}
  /\ box \in Boxes /\ told \subseteq DOMAIN box
  /\ rep \in [Reporters -> Views] /\ EventsTyped
  /\ worker \in Workers /\ CopiesAreOfTheBox
  /\ health \in Healths /\ doubled \in BOOLEAN /\ producer \in Producers
  /\ changes \in Nat /\ faults \in Nat

\* Stamps are finite in number: some number is above all of them.
BoundedBy(n) ==
  /\ \A k \in DOMAIN box : box[k].created <= n
  /\ \A r \in Reporters : rep[r].pc = "replace" =>
       \A e \in rep[r].events : e.item.created <= n
  /\ \A k \in DOMAIN worker.stale : worker.stale[k].created <= n
  /\ \A k \in DOMAIN worker.due : worker.due[k].created <= n
Bounded == \E n \in Nat : BoundedBy(n)

LEMMA BoxOf ==
  ASSUME NEW f
  PROVE  f \in Boxes <=> DOMAIN f \subseteq Keys /\ f \in [DOMAIN f -> Items]
<1>1. ASSUME f \in Boxes PROVE DOMAIN f \subseteq Keys /\ f \in [DOMAIN f -> Items]
  <2>1. PICK S \in SUBSET Keys : f \in [S -> Items]
    BY <1>1 DEF Boxes
  <2> QED BY <2>1
<1>2. ASSUME DOMAIN f \subseteq Keys, f \in [DOMAIN f -> Items] PROVE f \in Boxes
  BY <1>2 DEF Boxes
<1> QED BY <1>1, <1>2

LEMMA EmptyBox == <<>> \in Boxes /\ DOMAIN <<>> = {}
<1>1. DOMAIN <<>> = {}
  OBVIOUS
<1>2. <<>> = [x \in {} |-> x]
  OBVIOUS
<1>3. [x \in {} |-> x] \in [{} -> Items]
  OBVIOUS
<1> QED BY <1>1, <1>2, <1>3 DEF Boxes

LEMMA PutBox ==
  ASSUME box \in Boxes, NEW k \in Keys, NEW i \in Items
  PROVE  /\ Put(k, i) \in Boxes /\ DOMAIN Put(k, i) = DOMAIN box \cup {k}
         /\ Put(k, i)[k] = i
         /\ \A j \in DOMAIN box : j # k => Put(k, i)[j] = box[j]
<1>1. DOMAIN box \subseteq Keys /\ box \in [DOMAIN box -> Items]
  BY BoxOf
<1>2. DOMAIN Put(k, i) = DOMAIN box \cup {k}
  BY DEF Put
<1>3. Put(k, i)[k] = i /\ \A j \in DOMAIN box : j # k => Put(k, i)[j] = box[j]
  BY DEF Put
<1>4. Put(k, i) \in [DOMAIN box \cup {k} -> Items]
  BY <1>1 DEF Put
<1> QED BY <1>1, <1>2, <1>3, <1>4, BoxOf

LEMMA RestrictBox ==
  ASSUME NEW f \in Boxes, NEW S, S \subseteq DOMAIN f
  PROVE  /\ Restrict(f, S) \in Boxes /\ DOMAIN Restrict(f, S) = S
         /\ \A k \in S : Restrict(f, S)[k] = f[k]
<1>1. DOMAIN f \subseteq Keys /\ f \in [DOMAIN f -> Items]
  BY BoxOf
<1>2. DOMAIN Restrict(f, S) = S /\ \A k \in S : Restrict(f, S)[k] = f[k]
  BY DEF Restrict
<1>3. Restrict(f, S) \in [S -> Items]
  BY <1>1 DEF Restrict
<1> QED BY <1>1, <1>2, <1>3, BoxOf

\* The stamp of a new item is later than every other.
LEMMA NextStampIsLate ==
  ASSUME OutboxTyped, Bounded
  PROVE  /\ NextStamp \in Nat
         /\ \A k \in DOMAIN box : box[k].created < NextStamp
         /\ \A r \in Reporters : rep[r].pc = "replace" =>
              \A e \in rep[r].events : e.item.created < NextStamp
<1> DEFINE B == {box[k].created : k \in DOMAIN box}
           W == {q \in Reporters : rep[q].pc = "replace"}
           E(r) == {e.item.created : e \in rep[r].events}
           S == {0} \cup B \cup UNION {E(r) : r \in W}
<1>1. PICK n \in Nat : BoundedBy(n)
  BY DEF Bounded
<1> USE DEF BoundedBy
<1>2. \A k \in DOMAIN box : box[k].created \in Nat
  <2>1. box \in [DOMAIN box -> Items]
    BY BoxOf DEF OutboxTyped
  <2> QED BY <2>1 DEF Items
<1>3. ASSUME NEW r \in W, NEW e \in rep[r].events PROVE e.item.created \in Nat
  <2>1. e \in Replaces
    BY DEF OutboxTyped, EventsTyped
  <2> QED BY <2>1 DEF Replaces, Items
<1>4. ASSUME NEW x \in S PROVE x \in Nat /\ x <= n
  <2>1. CASE x = 0
    BY <2>1
  <2>2. CASE x \in B
    BY <1>1, <1>2, <2>2
  <2>3. CASE x \in UNION {E(r) : r \in W}
    <3>1. PICK r \in W : x \in E(r)
      BY <2>3
    <3>2. PICK e \in rep[r].events : x = e.item.created
      BY <3>1
    <3> QED BY <1>1, <1>3, <3>2
  <2> QED BY <2>1, <2>2, <2>3
<1>5. S # {}
  OBVIOUS
<1>6. NextStamp = 1 + Max(S)
  BY DEF NextStamp
<1>7. Max(S) \in S /\ \A x \in S : x <= Max(S)
  <2> HIDE DEF S
  <2> QED BY <1>4, <1>5, MaxOfBounded
<1>8. Max(S) \in Nat
  <2> HIDE DEF S
  <2> QED BY <1>4, <1>7
<1>9. ASSUME NEW k \in DOMAIN box PROVE box[k].created < NextStamp
  <2>1. box[k].created \in S
    OBVIOUS
  <2> HIDE DEF S
  <2> QED BY <1>2, <1>6, <1>7, <1>8, <2>1
<1>10. ASSUME NEW r \in Reporters, rep[r].pc = "replace", NEW e \in rep[r].events
       PROVE  e.item.created < NextStamp
  <2>1. r \in W /\ e.item.created \in E(r)
    BY <1>10
  <2>2. e.item.created \in S
    BY <2>1
  <2>3. e.item.created \in Nat
    BY <1>3, <2>1
  <2> HIDE DEF S
  <2> QED BY <1>6, <1>7, <1>8, <2>2, <2>3
<1> HIDE DEF S
<1> QED BY <1>6, <1>8, <1>9, <1>10

LEMMA DayTyped == ASSUME NEW t \in Nat PROVE Day(t) \in Int
  BY OutboxAssumption DEF Day

LEMMA KeyTyped ==
  ASSUME NEW kind \in Kinds, NEW day \in Int, NEW about \in SUBSET Sites
  PROVE  /\ Key(kind, day, about) \in Keys /\ Key(kind, day, about).kind = kind
         /\ Key(kind, day, about).day = day /\ Key(kind, day, about).about = about
  BY DEF Key, Keys

LEMMA ItemTyped ==
  ASSUME NEW c \in Nat, NEW news \in SUBSET Sites
  PROVE  /\ Item(c, news) \in Items /\ Item(c, news).created = c
         /\ Item(c, news).news = news /\ Item(c, news).how = "pending"
  BY DEF Item, Items

LEMMA QuietTyped == Quiet \in Views /\ Quiet.pc = "off"
  BY DEF Quiet, Views

LEMMA AsleepTyped ==
  /\ Asleep \in Workers /\ Asleep.sent = {}
  /\ Asleep.stale = <<>> /\ Asleep.due = <<>> /\ DOMAIN Asleep.stale = {} /\ DOMAIN Asleep.due = {}
  BY EmptyBox DEF Asleep, Workers

\* What a reporter lists for the digest.
LEMMA DigestTyped ==
  ASSUME OutboxTyped, NEW r \in Reporters, NEW e \in DigestEvents(r)
  PROVE  /\ e \in Writes /\ e.key.kind \in Dated
         /\ e.key.day = Day(rep[r].now)
         /\ e.key.kind = "action" =>
              /\ e.key.about = Seen(Day(rep[r].now)) \cup rep[r].problems
              /\ e.news = rep[r].problems \ Seen(Day(rep[r].now))
<1> DEFINE v == rep[r]
           day == Day(v.now)
           shown == Seen(day)
<1>1. v \in Views /\ v.now \in Nat /\ v.problems \subseteq Sites
  BY DEF OutboxTyped, Views
<1>2. day \in Int
  BY <1>1, DayTyped
<1>3. shown \subseteq Sites
  <2>1. DOMAIN box \subseteq Keys
    BY BoxOf DEF OutboxTyped
  <2>2. \A k \in DOMAIN box : k.about \subseteq Sites
    BY <2>1 DEF Keys
  <2> QED BY <2>2 DEF Seen
<1>4. \/ e = Event("action", day, shown \cup v.problems, v.problems \ shown)
      \/ e = Event("digest", day, {}, {})
      \/ e = Event("failed", day, {}, {})
      \/ e = Event("missing", day, {}, {})
  BY DEF DigestEvents
<1> HIDE DEF v, day, shown
<1>5. CASE e = Event("action", day, shown \cup v.problems, v.problems \ shown)
  <2>1. e.key = Key("action", day, shown \cup v.problems) /\ e.news = v.problems \ shown
    BY <1>5 DEF Event
  <2>2. /\ e.key \in Keys /\ e.key.kind = "action" /\ e.key.day = day
        /\ e.key.about = shown \cup v.problems
    BY <1>1, <1>2, <1>3, <2>1, KeyTyped DEF Kinds, Dated
  <2>3. e \in Writes
    BY <1>1, <1>5, <2>1, <2>2 DEF Event, Writes
  <2> QED BY <2>1, <2>2, <2>3 DEF Dated, v, day, shown
<1>6. ASSUME NEW kind \in {"digest", "failed", "missing"}, e = Event(kind, day, {}, {})
      PROVE  e \in Writes /\ e.key.kind = kind /\ e.key.day = day
  <2>1. e.key = Key(kind, day, {}) /\ e.news = {}
    BY <1>6 DEF Event
  <2>2. e.key \in Keys /\ e.key.kind = kind /\ e.key.day = day
    BY <1>2, <2>1, KeyTyped DEF Kinds, Dated
  <2> QED BY <1>6, <2>1, <2>2 DEF Event, Writes
<1> QED BY <1>4, <1>5, <1>6 DEF Dated, v, day

-----------------------------------------------------------------------------

LEMMA InitOutboxTyped == OutboxInit => OutboxTyped /\ Bounded
<1> SUFFICES ASSUME OutboxInit PROVE OutboxTyped /\ Bounded
  OBVIOUS
<1>1. world \in Worlds
  BY DEF OutboxInit, NewDay, Worlds
<1>2. rep \in [Reporters -> Views] /\ \A r \in Reporters : rep[r].pc = "off"
  BY QuietTyped DEF OutboxInit
<1>3. box = <<>> /\ worker = Asleep
  BY DEF OutboxInit
<1>4. health \in Healths
  BY DEF OutboxInit, Healths
<1>5. OutboxTyped
  BY <1>1, <1>2, <1>3, <1>4, EmptyBox, AsleepTyped, OutboxAssumption
     DEF OutboxInit, OutboxTyped, EventsTyped, CopiesAreOfTheBox
<1>6. Bounded
  BY <1>2, <1>3, EmptyBox, AsleepTyped DEF Bounded, BoundedBy
<1> QED BY <1>5, <1>6

\* The reporters, once one of them has moved on.
LEMMA Moved ==
  ASSUME NEW R, NEW f \in [R -> Views], NEW r \in R, NEW v \in Views
  PROVE  /\ [f EXCEPT ![r] = v] \in [R -> Views]
         /\ [f EXCEPT ![r] = v][r] = v
         /\ \A q \in R : q # r => [f EXCEPT ![r] = v][q] = f[q]
  OBVIOUS

\* Steps that leave the outbox, the reporters and the worker alone.
LEMMA AsideTyped ==
  ASSUME OutboxTyped, Bounded, UNCHANGED <<box, rep, worker, told, producer, doubled>>,
         clock' \in Nat, world' \in Worlds, kept' \subseteq Sites,
         scope' \in Plans \cup {"none"}, health' \in Healths, changes' \in Nat, faults' \in Nat
  PROVE  OutboxTyped' /\ Bounded'
<1>1. OutboxTyped'
  BY DEF OutboxTyped, EventsTyped, CopiesAreOfTheBox
<1>2. Bounded'
  BY DEF Bounded, BoundedBy
<1> QED BY <1>1, <1>2

\* Steps that change one reporter, and not what it is about to write.
LEMMA ReporterTyped ==
  ASSUME OutboxTyped, Bounded, UNCHANGED <<clock, world, box, worker, health, told, doubled, producer, changes>>,
         kept' \subseteq Sites, scope' \in Plans \cup {"none"}, faults' \in Nat,
         rep' \in [Reporters -> Views],
         \A q \in Reporters :
            \/ rep'[q].pc = rep[q].pc /\ rep'[q].events = rep[q].events
            \/ rep'[q].pc \in {"off", "read"}
            \/ rep'[q].pc = "write" /\ \A e \in rep'[q].events : e \in Writes /\ e.key.kind \in Dated
  PROVE  OutboxTyped' /\ Bounded'
<1>1. EventsTyped'
  BY DEF OutboxTyped, EventsTyped
<1>2. OutboxTyped'
  BY <1>1 DEF OutboxTyped, CopiesAreOfTheBox
<1>3. PICK n \in Nat : BoundedBy(n)
  BY DEF Bounded
<1> USE DEF BoundedBy
<1>4. \A r \in Reporters : rep'[r].pc = "replace" => \A e \in rep'[r].events : e.item.created <= n
  BY <1>3
<1>5. Bounded'
  BY <1>3, <1>4 DEF Bounded, BoundedBy
<1> QED BY <1>2, <1>5

\* Steps that write one item, with a stamp that was there before or is the next.
LEMMA WrittenTyped ==
  ASSUME OutboxTyped, Bounded, UNCHANGED <<clock, world, kept, scope, told, producer, changes>>,
         NEW k \in Keys, NEW i \in Items, box' = Put(k, i),
         \/ i.created = NextStamp
         \/ \E j \in DOMAIN worker.stale : i.created = worker.stale[j].created
         \/ \E j \in DOMAIN worker.due : i.created = worker.due[j].created
         \/ \E r \in Reporters : rep[r].pc = "replace" /\ \E e \in rep[r].events : i.created = e.item.created,
         rep' \in [Reporters -> Views],
         \A q \in Reporters :
            \/ rep'[q].pc = rep[q].pc /\ rep'[q].events \subseteq rep[q].events
            \/ rep'[q].pc = "off",
         worker' \in Workers, worker'.sent \subseteq DOMAIN worker'.due,
         DOMAIN worker'.stale \subseteq DOMAIN worker.stale,
         \A j \in DOMAIN worker'.stale : worker'.stale[j] = worker.stale[j],
         DOMAIN worker'.due \subseteq DOMAIN worker.due,
         \A j \in DOMAIN worker'.due : worker'.due[j] = worker.due[j],
         health' \in Healths, doubled' \in BOOLEAN, faults' \in Nat
  PROVE  OutboxTyped' /\ Bounded'
<1>1. /\ box' \in Boxes /\ DOMAIN box' = DOMAIN box \cup {k} /\ box'[k] = i
      /\ \A j \in DOMAIN box : j # k => box'[j] = box[j]
  <2>1. box \in Boxes
    BY DEF OutboxTyped
  <2>2. /\ Put(k, i) \in Boxes /\ DOMAIN Put(k, i) = DOMAIN box \cup {k} /\ Put(k, i)[k] = i
        /\ \A j \in DOMAIN box : j # k => Put(k, i)[j] = box[j]
    BY <2>1, PutBox
  <2> QED BY <2>2
<1>2. EventsTyped'
  BY DEF OutboxTyped, EventsTyped
<1>3. CopiesAreOfTheBox'
  BY <1>1 DEF OutboxTyped, CopiesAreOfTheBox
<1>4. OutboxTyped'
  BY <1>1, <1>2, <1>3 DEF OutboxTyped
<1>5. PICK n \in Nat : BoundedBy(n)
  BY DEF Bounded
<1> USE DEF BoundedBy
<1>6. /\ \A j \in DOMAIN box : box[j].created \in Nat
      /\ \A j \in DOMAIN worker.stale : worker.stale[j].created \in Nat
      /\ \A j \in DOMAIN worker.due : worker.due[j].created \in Nat
  <2>1. worker.stale \in Boxes /\ worker.due \in Boxes /\ box \in Boxes
    BY DEF OutboxTyped, Workers
  <2>2. \A f \in Boxes : \A j \in DOMAIN f : f[j].created \in Nat
    BY BoxOf DEF Items
  <2> QED BY <2>1, <2>2
<1>7. \A r \in Reporters : rep[r].pc = "replace" => \A e \in rep[r].events : e.item.created \in Nat
  <2>1. \A e \in Replaces : e.item.created \in Nat
    BY DEF Replaces, Items
  <2> QED BY <2>1 DEF OutboxTyped, EventsTyped
<1>8. NextStamp \in Nat /\ i.created \in Nat
  BY NextStampIsLate DEF Items
<1> DEFINE m == n + NextStamp
<1>9. m \in Nat /\ n <= m /\ NextStamp <= m
  BY <1>8
<1>10. i.created <= m
  BY <1>5, <1>6, <1>7, <1>8, <1>9
<1> HIDE DEF m
<1>11. \A j \in DOMAIN box' : box'[j].created <= m
  BY <1>1, <1>5, <1>6, <1>9, <1>10
<1>12. \A r \in Reporters : rep'[r].pc = "replace" => \A e \in rep'[r].events : e.item.created <= m
  BY <1>5, <1>7, <1>9
<1>13. /\ \A j \in DOMAIN worker'.stale : worker'.stale[j].created <= m
       /\ \A j \in DOMAIN worker'.due : worker'.due[j].created <= m
  BY <1>5, <1>6, <1>9
<1>14. Bounded'
  BY <1>9, <1>11, <1>12, <1>13 DEF Bounded, BoundedBy
<1> QED BY <1>4, <1>14

LEMMA TickTyped == ASSUME OutboxTyped, Bounded, Tick PROVE OutboxTyped' /\ Bounded'
<1>1. NewDay(world.plan) \in Worlds
  BY DEF NewDay, Worlds, OutboxTyped
<1>2. /\ clock' \in Nat /\ world' \in Worlds /\ kept' \subseteq Sites
      /\ scope' \in Plans \cup {"none"}
  BY <1>1 DEF Tick, OutboxTyped
<1> QED BY <1>2, AsideTyped DEF Tick, OutboxTyped

LEMMA ChangeTyped == ASSUME OutboxTyped, Bounded, Change PROVE OutboxTyped' /\ Bounded'
<1>1. world \in Worlds
  BY DEF OutboxTyped
<1>2. ASSUME NEW P \in SUBSET Sites, NEW p \in Plans
      PROVE  [world EXCEPT !.problems = P, !.final = TRUE, !.plan = p, !.signed = {}] \in Worlds
  BY <1>1 DEF Worlds
<1>3. [world EXCEPT !.failed = TRUE] \in Worlds
  BY <1>1 DEF Worlds
<1>4. ASSUME NEW s \in Sites
      PROVE  /\ [world EXCEPT !.signed = @ \union {s}] \in Worlds
             /\ [world EXCEPT !.signed = @ \ {s}] \in Worlds
             /\ [world EXCEPT !.signed = @ \ {s}, !.denied = @ \union {s}] \in Worlds
  BY <1>1, <1>4 DEF Worlds
<1>5. \/ \E P \in SUBSET Sites : world' = [world EXCEPT !.problems = P, !.final = TRUE]
      \/ \E P \in SUBSET Sites, p \in Plans :
            world' = [world EXCEPT !.problems = P, !.final = TRUE, !.plan = p, !.signed = {}]
      \/ world' = [world EXCEPT !.failed = TRUE]
      \/ \E s \in Sites :
            \/ world' = [world EXCEPT !.signed = @ \union {s}]
            \/ world' = [world EXCEPT !.signed = @ \ {s}]
            \/ world' = [world EXCEPT !.signed = @ \ {s}, !.denied = @ \union {s}]
  BY DEF Change
<1>6. world' \in Worlds
  <2>1. ASSUME \E P \in SUBSET Sites, p \in Plans :
                  world' = [world EXCEPT !.problems = P, !.final = TRUE, !.plan = p, !.signed = {}]
        PROVE  world' \in Worlds
    BY <1>2, <2>1
  <2>2. ASSUME \E s \in Sites :
                  \/ world' = [world EXCEPT !.signed = @ \union {s}]
                  \/ world' = [world EXCEPT !.signed = @ \ {s}]
                  \/ world' = [world EXCEPT !.signed = @ \ {s}, !.denied = @ \union {s}]
        PROVE  world' \in Worlds
    BY <1>4, <2>2
  <2>3. ASSUME \E P \in SUBSET Sites : world' = [world EXCEPT !.problems = P, !.final = TRUE]
        PROVE  world' \in Worlds
    <3>1. PICK P \in SUBSET Sites : world' = [world EXCEPT !.problems = P, !.final = TRUE]
      BY <2>3
    <3> QED BY <1>1, <3>1 DEF Worlds
  <2> QED BY <1>3, <1>5, <2>1, <2>2, <2>3
<1>7. /\ changes' = changes + 1
      /\ UNCHANGED <<clock, kept, scope, box, rep, worker, health, told, doubled, producer, faults>>
  BY DEF Change
<1>8. /\ clock' \in Nat /\ kept' \subseteq Sites /\ scope' \in Plans \cup {"none"}
      /\ health' \in Healths /\ changes' \in Nat /\ faults' \in Nat
  BY <1>7 DEF OutboxTyped
<1> QED BY <1>6, <1>7, <1>8, AsideTyped

LEMMA RetainedTyped == ASSUME OutboxTyped, NEW up \in BOOLEAN PROVE Retained(up) \subseteq Sites
  BY DEF OutboxTyped, Worlds, Retained

LEMMA ReconcileView ==
  ASSUME OutboxTyped, NEW r \in Reporters, NEW up \in BOOLEAN, Reconcile(r, up)
  PROVE  /\ rep' \in [Reporters -> Views]
         /\ rep'[r].pc = "read" /\ rep'[r].keep = Retained(up) /\ rep'[r].now = clock
         /\ rep'[r].problems = world.problems \ Retained(up) /\ rep'[r].plan = world.plan
         /\ rep'[r].alone = (\A o \in Reporters : rep[o].pc # "read")
         /\ \A q \in Reporters : q # r =>
              /\ rep'[q] = [rep[q] EXCEPT !.alone = rep[q].pc # "read"]
              /\ rep'[q].pc = rep[q].pc /\ rep'[q].events = rep[q].events
              /\ rep'[q].alone = (rep[q].pc # "read")
<1> DEFINE free == \A o \in Reporters : rep[o].pc # "read"
           view == [Quiet EXCEPT !.pc = "read", !.now = clock, !.up = up, !.final = world.final,
                                 !.problems = world.problems \ Retained(up), !.keep = Retained(up),
                                 !.plan = world.plan, !.alone = free]
<1>1. free \in BOOLEAN
  OBVIOUS
<1>2. rep' = [q \in Reporters |-> IF q = r THEN view
                                  ELSE [rep[q] EXCEPT !.alone = rep[q].pc # "read"]]
  BY DEF Reconcile
<1> HIDE DEF free
<1>3. /\ view \in Views /\ view.pc = "read" /\ view.keep = Retained(up) /\ view.now = clock
      /\ view.problems = world.problems \ Retained(up) /\ view.plan = world.plan
      /\ view.alone = free
  BY <1>1, RetainedTyped DEF OutboxTyped, Worlds, Quiet, Views
<1> HIDE DEF view
<1>4. ASSUME NEW q \in Reporters, NEW b \in BOOLEAN
      PROVE  /\ [rep[q] EXCEPT !.alone = b] \in Views
             /\ [rep[q] EXCEPT !.alone = b].pc = rep[q].pc
             /\ [rep[q] EXCEPT !.alone = b].events = rep[q].events
             /\ [rep[q] EXCEPT !.alone = b].alone = b
  <2>1. rep[q] \in Views
    BY DEF OutboxTyped
  <2> QED BY <2>1 DEF Views
<1>5. ASSUME NEW q \in Reporters, q # r
      PROVE  /\ rep'[q] = [rep[q] EXCEPT !.alone = rep[q].pc # "read"]
             /\ rep'[q] \in Views
             /\ rep'[q].pc = rep[q].pc /\ rep'[q].events = rep[q].events
             /\ rep'[q].alone = (rep[q].pc # "read")
  <2>1. rep'[q] = [rep[q] EXCEPT !.alone = rep[q].pc # "read"]
    BY <1>2, <1>5
  <2>2. (rep[q].pc # "read") \in BOOLEAN
    OBVIOUS
  <2> QED BY <1>4, <2>1, <2>2
<1>6. rep'[r] = view
  BY <1>2
<1>7. rep' \in [Reporters -> Views]
  <2>1. \A q \in Reporters : rep'[q] \in Views
    BY <1>3, <1>5, <1>6
  <2>2. rep' = [q \in Reporters |-> rep'[q]]
    BY <1>2
  <2> QED BY <2>1, <2>2
<1> QED BY <1>3, <1>5, <1>6, <1>7 DEF free

LEMMA ReconcileTyped ==
  ASSUME OutboxTyped, Bounded, NEW r \in Reporters, NEW up \in BOOLEAN, Reconcile(r, up)
  PROVE  OutboxTyped' /\ Bounded'
<1>1. \A q \in Reporters :
         \/ rep'[q].pc = rep[q].pc /\ rep'[q].events = rep[q].events
         \/ rep'[q].pc \in {"off", "read"}
  BY ReconcileView
<1> QED BY <1>1, ReconcileView, ReporterTyped DEF Reconcile, OutboxTyped

LEMMA PersistTyped ==
  ASSUME OutboxTyped, NEW r \in Reporters, Persist(r)
  PROVE  kept' \subseteq Sites /\ scope' \in Plans \cup {"none"}
<1>1. rep[r].keep \subseteq Sites /\ rep[r].plan \in Plans \cup {"none"}
  BY DEF OutboxTyped, Views
<1> QED BY <1>1 DEF Persist, OutboxTyped

\* The batch of a reporter: what its reading calls for and is not there yet.
LEMMA ListEventsView ==
  ASSUME OutboxTyped, NEW r \in Reporters, ListEvents(r)
  PROVE  /\ rep' \in [Reporters -> Views]
         /\ \A q \in Reporters : q # r => rep'[q] = rep[q]
         /\ \/ rep'[r].pc = "off"
            \/ /\ rep'[r].pc = "write"
               /\ rep'[r].events = {e \in DigestEvents(r) : e.key \notin DOMAIN box}
<1> DEFINE new == {e \in DigestEvents(r) : e.key \notin DOMAIN box}
           busy == [Quiet EXCEPT !.pc = "write", !.events = new]
<1>1. rep \in [Reporters -> Views]
  BY DEF OutboxTyped
<1>2. new \subseteq Writes
  BY DigestTyped
<1>3. rep' = IF new = {} THEN [rep EXCEPT ![r] = Quiet] ELSE [rep EXCEPT ![r] = busy]
  BY DEF ListEvents
<1> HIDE DEF new
<1>4. busy \in Views /\ busy.pc = "write" /\ busy.events = new
  BY <1>2 DEF Quiet, Views
<1> HIDE DEF busy
<1>5. CASE new = {}
  BY <1>1, <1>3, <1>5, Moved, QuietTyped
<1>6. CASE new # {}
  BY <1>1, <1>3, <1>4, <1>6, Moved DEF new
<1> QED BY <1>5, <1>6

LEMMA ListEventsTyped ==
  ASSUME OutboxTyped, Bounded, NEW r \in Reporters, ListEvents(r)
  PROVE  OutboxTyped' /\ Bounded'
<1>1. rep'[r].pc = "write" => \A e \in rep'[r].events : e \in Writes /\ e.key.kind \in Dated
  BY ListEventsView, DigestTyped
<1>2. kept' \subseteq Sites /\ scope' \in Plans \cup {"none"}
  BY PersistTyped DEF ListEvents
<1>3. \A q \in Reporters :
         \/ rep'[q].pc = rep[q].pc /\ rep'[q].events = rep[q].events
         \/ rep'[q].pc \in {"off", "read"}
         \/ rep'[q].pc = "write" /\ \A e \in rep'[q].events : e \in Writes /\ e.key.kind \in Dated
  BY <1>1, ListEventsView
<1> QED BY <1>2, <1>3, ListEventsView, ReporterTyped DEF ListEvents, OutboxTyped

LEMMA ReporterDiesTyped ==
  ASSUME OutboxTyped, Bounded, ReporterDies PROVE OutboxTyped' /\ Bounded'
<1>1. PICK r \in Reporters : rep' = [rep EXCEPT ![r] = Quiet]
  BY DEF ReporterDies
<1>2. /\ rep' \in [Reporters -> Views] /\ rep'[r].pc = "off"
      /\ \A q \in Reporters : q # r => rep'[q] = rep[q]
  BY <1>1, Moved, QuietTyped DEF OutboxTyped
<1>3. \A q \in Reporters :
         \/ rep'[q].pc = rep[q].pc /\ rep'[q].events = rep[q].events
         \/ rep'[q].pc \in {"off", "read"}
  BY <1>2
<1> QED BY <1>2, <1>3, ReporterTyped DEF ReporterDies, OutboxTyped

\* One event of a batch is written, if its item is not there yet.
LEMMA WriteEventView ==
  ASSUME OutboxTyped, NEW r \in Reporters, WriteEvent(r)
  PROVE  /\ rep' \in [Reporters -> Views]
         /\ \A q \in Reporters : q # r => rep'[q] = rep[q]
         /\ rep[r].pc = "write"
         /\ \E e \in rep[r].events :
              /\ e \in Writes /\ e.key.kind \in Dated
              /\ box' = IF e.key \in DOMAIN box THEN box ELSE Put(e.key, Item(NextStamp, e.news))
              /\ \/ rep'[r].pc = "off"
                 \/ rep'[r].pc = "write" /\ rep'[r].events = rep[r].events \ {e}
<1>1. PICK e \in rep[r].events :
          /\ box' = IF e.key \in DOMAIN box THEN box ELSE Put(e.key, Item(NextStamp, e.news))
          /\ rep' = IF rep[r].events = {e} THEN [rep EXCEPT ![r] = Quiet]
                    ELSE [rep EXCEPT ![r].events = @ \ {e}]
  BY DEF WriteEvent
<1>2. rep[r].pc = "write" /\ rep[r] \in Views /\ rep \in [Reporters -> Views]
  BY DEF WriteEvent, OutboxTyped
<1>3. e \in Writes /\ e.key.kind \in Dated
  BY <1>2 DEF OutboxTyped, EventsTyped
<1> DEFINE rest == [rep[r] EXCEPT !.events = @ \ {e}]
<1>4. rest \in Views /\ rest.pc = "write" /\ rest.events = rep[r].events \ {e}
  BY <1>2 DEF Views
<1>5. [rep EXCEPT ![r].events = @ \ {e}] = [rep EXCEPT ![r] = rest]
  BY <1>2
<1> HIDE DEF rest
<1>6. CASE rep[r].events = {e}
  BY <1>1, <1>2, <1>3, <1>6, Moved, QuietTyped
<1>7. CASE rep[r].events # {e}
  BY <1>1, <1>2, <1>3, <1>4, <1>5, <1>7, Moved
<1> QED BY <1>6, <1>7

LEMMA WriteEventTyped ==
  ASSUME OutboxTyped, Bounded, NEW r \in Reporters, WriteEvent(r)
  PROVE  OutboxTyped' /\ Bounded'
<1>1. PICK e \in rep[r].events :
         /\ e \in Writes /\ e.key.kind \in Dated
         /\ box' = IF e.key \in DOMAIN box THEN box ELSE Put(e.key, Item(NextStamp, e.news))
         /\ \/ rep'[r].pc = "off"
            \/ rep'[r].pc = "write" /\ rep'[r].events = rep[r].events \ {e}
  BY WriteEventView
<1>2. /\ rep' \in [Reporters -> Views] /\ rep[r].pc = "write"
      /\ \A q \in Reporters : q # r => rep'[q] = rep[q]
  BY WriteEventView
<1>3. UNCHANGED <<clock, world, kept, scope, worker, health, told, doubled, producer, changes, faults>>
  BY DEF WriteEvent
<1>4. \A x \in rep[r].events \ {e} : x \in Writes /\ x.key.kind \in Dated
  BY <1>2 DEF OutboxTyped, EventsTyped
<1>5. /\ worker' \in Workers /\ worker'.sent \subseteq DOMAIN worker'.due
      /\ health' \in Healths /\ doubled' \in BOOLEAN /\ faults' \in Nat /\ kept' \subseteq Sites
      /\ scope' \in Plans \cup {"none"}
  BY <1>3 DEF OutboxTyped, CopiesAreOfTheBox
<1>6. CASE e.key \in DOMAIN box
  <2>1. \A q \in Reporters :
         \/ rep'[q].pc = rep[q].pc /\ rep'[q].events = rep[q].events
         \/ rep'[q].pc \in {"off", "read"}
         \/ rep'[q].pc = "write" /\ \A x \in rep'[q].events : x \in Writes /\ x.key.kind \in Dated
    BY <1>1, <1>2, <1>4
  <2>2. box' = box
    BY <1>1, <1>6
  <2> QED BY <1>2, <1>3, <1>5, <2>1, <2>2, ReporterTyped
<1>7. CASE e.key \notin DOMAIN box
  <2>1. e.key \in Keys /\ e.news \in SUBSET Sites
    BY <1>1 DEF Writes
  <2>2. Item(NextStamp, e.news) \in Items /\ Item(NextStamp, e.news).created = NextStamp
    BY <2>1, ItemTyped, NextStampIsLate
  <2>3. box' = Put(e.key, Item(NextStamp, e.news))
    BY <1>1, <1>7
  <2>4. \A q \in Reporters :
            \/ rep'[q].pc = rep[q].pc /\ rep'[q].events \subseteq rep[q].events
            \/ rep'[q].pc = "off"
    BY <1>1, <1>2
  <2>5. worker' = worker
    BY <1>3
  <2> QED BY <1>2, <1>3, <1>5, <2>1, <2>2, <2>3, <2>4, <2>5, WrittenTyped
<1> QED BY <1>6, <1>7

\* The state's item, as it is in the outbox or new.
LEMMA ReadStateView ==
  ASSUME OutboxTyped, Bounded, NEW r \in Reporters, ReadState(r)
  PROVE  /\ rep' \in [Reporters -> Views]
         /\ \A q \in Reporters : q # r => rep'[q] = rep[q]
         /\ rep[r].pc = "read"
         /\ \/ rep'[r].pc = "off"
            \/ /\ rep'[r].pc = "replace"
               /\ \E k \in Keys, i \in Items :
                    /\ rep'[r].events = {[key |-> k, item |-> i]} /\ k.kind = "state"
                    /\ \/ k \in DOMAIN box /\ i = box[k]
                       \/ k \notin DOMAIN box /\ i = Item(NextStamp, {})
<1> DEFINE k == Key("state", Day(clock), rep[r].problems)
           i == IF k \in DOMAIN box THEN box[k] ELSE Item(NextStamp, {})
           busy == [Quiet EXCEPT !.pc = "replace", !.events = {[key |-> k, item |-> i]}]
<1>1. rep \in [Reporters -> Views] /\ rep[r] \in Views /\ rep[r].problems \in SUBSET Sites
  <2>1. rep \in [Reporters -> Views]
    BY DEF OutboxTyped
  <2> QED BY <2>1 DEF Views
<1>2. k \in Keys /\ k.kind = "state"
  <2>1. Day(clock) \in Int
    BY DayTyped DEF OutboxTyped
  <2> QED BY <1>1, <2>1, KeyTyped DEF Kinds, Dated
<1>3. rep[r].pc = "read" /\ rep' \in {[rep EXCEPT ![r] = Quiet], [rep EXCEPT ![r] = busy]}
  BY DEF ReadState
<1> HIDE DEF k
<1>4. i \in Items
  <2>1. box \in [DOMAIN box -> Items]
    BY BoxOf DEF OutboxTyped
  <2>2. Item(NextStamp, {}) \in Items
    BY ItemTyped, NextStampIsLate
  <2> QED BY <2>1, <2>2
<1>5. \/ k \in DOMAIN box /\ i = box[k]
      \/ k \notin DOMAIN box /\ i = Item(NextStamp, {})
  OBVIOUS
<1> HIDE DEF i
<1>6. [key |-> k, item |-> i] \in Replaces
  BY <1>2, <1>4 DEF Replaces
<1>7. busy \in Views /\ busy.pc = "replace" /\ busy.events = {[key |-> k, item |-> i]}
  BY <1>6 DEF Quiet, Views
<1> HIDE DEF busy
<1>8. CASE rep' = [rep EXCEPT ![r] = Quiet]
  BY <1>1, <1>3, <1>8, Moved, QuietTyped
<1>9. CASE rep' = [rep EXCEPT ![r] = busy]
  <2>1. /\ rep' \in [Reporters -> Views] /\ rep'[r] = busy
        /\ \A q \in Reporters : q # r => rep'[q] = rep[q]
    BY <1>1, <1>7, <1>9, Moved
  <2> QED BY <1>2, <1>3, <1>4, <1>5, <1>7, <2>1
<1> QED BY <1>3, <1>8, <1>9

LEMMA ReadStateTyped ==
  ASSUME OutboxTyped, Bounded, NEW r \in Reporters, ReadState(r)
  PROVE  OutboxTyped' /\ Bounded'
<1>1. /\ rep' \in [Reporters -> Views] /\ rep[r].pc = "read"
      /\ \A q \in Reporters : q # r => rep'[q] = rep[q]
  BY ReadStateView
<1>2. /\ UNCHANGED <<clock, world, box, worker, health, told, doubled, producer, changes, faults>>
      /\ kept' \subseteq Sites /\ faults' \in Nat /\ scope' \in Plans \cup {"none"}
  BY PersistTyped DEF ReadState, OutboxTyped
<1>3. CASE rep'[r].pc = "off"
  <2>1. \A q \in Reporters :
         \/ rep'[q].pc = rep[q].pc /\ rep'[q].events = rep[q].events
         \/ rep'[q].pc \in {"off", "read"}
    BY <1>1, <1>3
  <2> QED BY <1>1, <1>2, <2>1, ReporterTyped
<1>4. CASE rep'[r].pc # "off"
  <2>1. PICK k \in Keys, i \in Items :
          /\ rep'[r].events = {[key |-> k, item |-> i]} /\ k.kind = "state"
          /\ \/ k \in DOMAIN box /\ i = box[k]
             \/ k \notin DOMAIN box /\ i = Item(NextStamp, {})
    BY <1>4, ReadStateView
  <2>2. rep'[r].pc = "replace"
    BY <1>4, ReadStateView
  <2>3. EventsTyped'
    <3>1. \A e \in rep'[r].events : e \in Replaces /\ e.key.kind = "state"
      BY <2>1 DEF Replaces
    <3> QED BY <1>1, <2>2, <3>1 DEF OutboxTyped, EventsTyped
  <2>4. OutboxTyped'
    BY <1>1, <1>2, <2>3 DEF OutboxTyped, CopiesAreOfTheBox
  <2>5. PICK n \in Nat : BoundedBy(n)
    BY DEF Bounded
  <2> USE DEF BoundedBy
  <2> DEFINE m == n + NextStamp
  <2>6. NextStamp \in Nat /\ m \in Nat /\ n <= m /\ NextStamp <= m
    BY NextStampIsLate
  <2>7. i.created \in Nat /\ i.created <= m
    <3>1. i.created \in Nat
      BY DEF Items
    <3>2. Item(NextStamp, {}).created = NextStamp
      BY <2>6, ItemTyped
    <3> QED BY <2>1, <2>5, <2>6, <3>1, <3>2
  <2> HIDE DEF m
  <2>8. /\ \A j \in DOMAIN box : box[j].created \in Nat
        /\ \A j \in DOMAIN worker.stale : worker.stale[j].created \in Nat
        /\ \A j \in DOMAIN worker.due : worker.due[j].created \in Nat
    <3>1. worker.stale \in Boxes /\ worker.due \in Boxes /\ box \in Boxes
      BY DEF OutboxTyped, Workers
    <3>2. \A f \in Boxes : \A j \in DOMAIN f : f[j].created \in Nat
      BY BoxOf DEF Items
    <3> QED BY <3>1, <3>2
  <2>9. \A q \in Reporters : rep[q].pc = "replace" => \A e \in rep[q].events : e.item.created \in Nat
    <3>1. \A e \in Replaces : e.item.created \in Nat
      BY DEF Replaces, Items
    <3> QED BY <3>1 DEF OutboxTyped, EventsTyped
  <2>10. \A q \in Reporters : rep'[q].pc = "replace" => \A e \in rep'[q].events : e.item.created <= m
    <3>1. \A e \in rep'[r].events : e.item = i
      BY <2>1
    <3>2. ASSUME NEW q \in Reporters, q # r, rep'[q].pc = "replace", NEW e \in rep'[q].events
          PROVE  e.item.created <= m
      BY <1>1, <2>5, <2>6, <2>9, <3>2
    <3> QED BY <2>7, <3>1, <3>2
  <2>11. /\ \A j \in DOMAIN box' : box'[j].created <= m
         /\ \A j \in DOMAIN worker'.stale : worker'.stale[j].created <= m
         /\ \A j \in DOMAIN worker'.due : worker'.due[j].created <= m
    BY <1>2, <2>5, <2>6, <2>8
  <2>12. Bounded'
    BY <2>6, <2>10, <2>11 DEF Bounded, BoundedBy
  <2> QED BY <2>4, <2>12
<1> QED BY <1>3, <1>4

\* The state's item is written whole, whatever is there by now.
LEMMA WriteStateView ==
  ASSUME OutboxTyped, NEW r \in Reporters, WriteState(r)
  PROVE  /\ rep' \in [Reporters -> Views] /\ rep'[r].pc = "off"
         /\ \A q \in Reporters : q # r => rep'[q] = rep[q]
         /\ rep[r].pc = "replace"
         /\ \E e \in rep[r].events :
              /\ e \in Replaces /\ e.key.kind = "state" /\ box' = Put(e.key, e.item)
              /\ doubled' = (doubled \/ (e.key \in DOMAIN box /\ box[e.key].created # e.item.created))
<1>1. rep[r].pc = "replace" /\ rep' = [rep EXCEPT ![r] = Quiet]
  BY DEF WriteState
<1>2. /\ rep' \in [Reporters -> Views] /\ rep'[r].pc = "off"
      /\ \A q \in Reporters : q # r => rep'[q] = rep[q]
  BY <1>1, Moved, QuietTyped DEF OutboxTyped
<1>3. PICK e \in rep[r].events :
         /\ box' = Put(e.key, e.item)
         /\ doubled' = (doubled \/ (e.key \in DOMAIN box /\ box[e.key].created # e.item.created))
  BY DEF WriteState
<1>4. e \in Replaces /\ e.key.kind = "state"
  BY <1>1 DEF OutboxTyped, EventsTyped
<1> QED BY <1>1, <1>2, <1>3, <1>4

LEMMA WriteStateTyped ==
  ASSUME OutboxTyped, Bounded, NEW r \in Reporters, WriteState(r)
  PROVE  OutboxTyped' /\ Bounded'
<1>1. /\ rep' \in [Reporters -> Views] /\ rep'[r].pc = "off" /\ rep[r].pc = "replace"
      /\ \A q \in Reporters : q # r => rep'[q] = rep[q]
  BY WriteStateView
<1>2. PICK e \in rep[r].events :
        /\ e \in Replaces /\ box' = Put(e.key, e.item)
        /\ doubled' = (doubled \/ (e.key \in DOMAIN box /\ box[e.key].created # e.item.created))
  BY WriteStateView
<1>3. e.key \in Keys /\ e.item \in Items
  BY <1>2 DEF Replaces
<1>4. doubled' \in BOOLEAN
  BY <1>2
<1>5. UNCHANGED <<clock, world, kept, scope, worker, health, told, producer, changes, faults>>
  BY DEF WriteState
<1>6. /\ worker' = worker /\ worker' \in Workers /\ worker'.sent \subseteq DOMAIN worker'.due
      /\ health' \in Healths /\ faults' \in Nat
  BY <1>5 DEF OutboxTyped, CopiesAreOfTheBox
<1>7. \A q \in Reporters :
         \/ rep'[q].pc = rep[q].pc /\ rep'[q].events \subseteq rep[q].events
         \/ rep'[q].pc = "off"
  BY <1>1
<1>8. \E q \in Reporters : rep[q].pc = "replace" /\ \E x \in rep[q].events : e.item.created = x.item.created
  BY <1>1
<1> QED BY <1>1, <1>2, <1>3, <1>4, <1>5, <1>6, <1>7, <1>8, WrittenTyped

\* A notice of the gateway is added, if it is not there.
LEMMA NoticeIsNew ==
  ASSUME OutboxTyped, NEW kind \in Kinds
  PROVE  /\ Notice(kind) \in Keys /\ Notice(kind).kind = kind
         /\ AddNotice(kind) = IF Notice(kind) \in DOMAIN box THEN box ELSE Put(Notice(kind), Item(NextStamp, {}))
<1>1. health.id \in Int
  BY DEF OutboxTyped, Healths
<1> QED BY <1>1, KeyTyped DEF Notice, AddNotice

LEMMA ProbeTyped ==
  ASSUME OutboxTyped, Bounded, NEW kind \in {"blocked", "recovered"},
         box' \in {box, AddNotice(kind)}, health' \in Healths, faults' \in Nat,
         UNCHANGED <<clock, world, kept, scope, rep, worker, told, doubled, producer, changes>>
  PROVE  OutboxTyped' /\ Bounded'
<1>1. CASE box' = box
  <2>1. /\ clock' \in Nat /\ world' \in Worlds /\ kept' \subseteq Sites /\ changes' \in Nat
        /\ scope' \in Plans \cup {"none"}
    BY DEF OutboxTyped
  <2> QED BY <1>1, <2>1, AsideTyped
<1>2. CASE box' # box
  <2>1. /\ Notice(kind) \in Keys /\ Notice(kind) \notin DOMAIN box
        /\ box' = Put(Notice(kind), Item(NextStamp, {}))
    BY <1>2, NoticeIsNew DEF Kinds, Dated
  <2>2. Item(NextStamp, {}) \in Items /\ Item(NextStamp, {}).created = NextStamp
    BY ItemTyped, NextStampIsLate
  <2>3. /\ worker' \in Workers /\ worker' = worker /\ worker'.sent \subseteq DOMAIN worker'.due
        /\ rep' \in [Reporters -> Views] /\ rep' = rep /\ doubled' \in BOOLEAN
    BY DEF OutboxTyped, CopiesAreOfTheBox
  <2> QED BY <2>1, <2>2, <2>3, WrittenTyped
<1> QED BY <1>1, <1>2

\* What a failed probe makes of the gateway's health.
LEMMA StreakTyped ==
  ASSUME OutboxTyped, NEW code \in {1, 2}
  PROVE  /\ Streak(code) \in Healths
         /\ \/ Streak(code).id = health.id /\ Streak(code).notified = health.notified
            \/ ~Streak(code).notified /\ Streak(code).streak = 1
<1>1. health \in Healths
  BY DEF OutboxTyped
<1>2. CASE health.streak = 0
  BY <1>1, <1>2 DEF Streak, Healths
<1>3. CASE health.streak # 0
  <2>1. \E n \in {1, 2} : Streak(code) = [health EXCEPT !.code = code, !.streak = n]
    BY <1>3 DEF Streak
  <2>2. PICK n \in {1, 2} : Streak(code) = [health EXCEPT !.code = code, !.streak = n]
    BY <2>1
  <2>3. n \in 0..2 /\ code \in 0..2
    OBVIOUS
  <2> DEFINE s == [health EXCEPT !.code = code, !.streak = n]
  <2>4. s \in Healths
    BY <1>1, <2>3 DEF Healths
  <2>5. s.id = health.id /\ s.notified = health.notified
    BY <1>1 DEF Healths
  <2>6. Streak(code) = s
    BY <2>2
  <2> HIDE DEF s
  <2> QED BY <2>4, <2>5, <2>6
<1> QED BY <1>2, <1>3

LEMMA ProbeFailsView ==
  ASSUME OutboxTyped, ProbeFails
  PROVE  \E code \in {1, 2} :
           /\ health' \in Healths /\ health'.id = Streak(code).id
           /\ \/ health'.notified = Streak(code).notified /\ box' \in {box, AddNotice("blocked")}
              \/ /\ health'.notified /\ box' = AddNotice("blocked")
                 /\ Streak(code).id = health.id
<1>1. PICK code \in {1, 2}, d \in BOOLEAN : CountFailure(code, d)
  BY DEF ProbeFails
<1> DEFINE open == Streak(code)
           tell == open.streak = 2 /\ ~open.notified
<1>2. /\ health' = IF tell /\ ~d THEN [open EXCEPT !.notified = TRUE] ELSE open
      /\ \/ box' = IF tell THEN AddNotice("blocked") ELSE box
         \/ d /\ box' = box
  BY <1>1 DEF CountFailure
<1>3. open \in Healths /\ (open.streak # 1 => open.id = health.id)
  BY StreakTyped
<1> HIDE DEF open
<1>4. /\ [open EXCEPT !.notified = TRUE] \in Healths
      /\ [open EXCEPT !.notified = TRUE].id = open.id
      /\ [open EXCEPT !.notified = TRUE].notified = TRUE
  BY <1>3 DEF Healths
<1>5. CASE tell /\ ~d
  <2>1. health' = [open EXCEPT !.notified = TRUE] /\ box' = AddNotice("blocked")
    BY <1>2, <1>5
  <2>2. open.id = health.id
    BY <1>3, <1>5
  <2>3. health' \in Healths /\ health'.id = open.id /\ health'.notified
    BY <1>4, <2>1
  <2> QED BY <2>1, <2>2, <2>3 DEF open
<1>6. CASE ~(tell /\ ~d)
  BY <1>2, <1>3, <1>6 DEF open
<1> QED BY <1>5, <1>6

LEMMA FaultsTyped == ASSUME OutboxTyped, NEW d \in BOOLEAN, Dies(d) PROVE faults' \in Nat
  BY DEF OutboxTyped, Dies

LEMMA ProbeFailsTyped == ASSUME OutboxTyped, Bounded, ProbeFails PROVE OutboxTyped' /\ Bounded'
<1>1. faults' \in Nat
  BY FaultsTyped DEF ProbeFails
<1>2. health' \in Healths /\ box' \in {box, AddNotice("blocked")}
  BY ProbeFailsView
<1>3. UNCHANGED <<clock, world, kept, scope, rep, worker, told, doubled, producer, changes>>
  BY DEF ProbeFails
<1> QED BY <1>1, <1>2, <1>3, ProbeTyped

LEMMA ProbeSucceedsView ==
  ASSUME OutboxTyped, ProbeSucceeds
  PROVE  /\ health' \in Healths /\ health'.id = health.id
         /\ health'.notified => health.notified
         /\ box' = IF health.notified THEN AddNotice("recovered") ELSE box
<1>1. health \in Healths
  BY DEF OutboxTyped
<1>2. health' \in {health, [health EXCEPT !.streak = 0, !.notified = FALSE]}
  BY DEF ProbeSucceeds
<1> DEFINE h == [health EXCEPT !.streak = 0, !.notified = FALSE]
<1>3. 0 \in 0..2 /\ FALSE \in BOOLEAN
  OBVIOUS
<1>4. h \in Healths
  BY <1>1, <1>3 DEF Healths
<1>5. h.id = health.id /\ h.notified = FALSE
  BY <1>1 DEF Healths
<1> HIDE DEF h
<1> QED BY <1>1, <1>2, <1>4, <1>5 DEF ProbeSucceeds, h

LEMMA ProbeSucceedsTyped == ASSUME OutboxTyped, Bounded, ProbeSucceeds PROVE OutboxTyped' /\ Bounded'
<1>1. faults' \in Nat
  BY FaultsTyped DEF ProbeSucceeds
<1>2. health' \in Healths /\ box' \in {box, AddNotice("recovered")}
  BY ProbeSucceedsView
<1>3. UNCHANGED <<clock, world, kept, scope, rep, worker, told, doubled, producer, changes>>
  BY DEF ProbeSucceeds
<1> QED BY <1>1, <1>2, <1>3, ProbeTyped

\* What the worker reads, and what it makes of it.
Readable == {k \in DOMAIN box : k.kind \in Served /\ box[k].how # "superseded"}
Unsent == {k \in Readable : box[k].how = "pending"}

LEMMA ScanView ==
  ASSUME OutboxTyped, Scan
  PROVE  /\ worker' \in Workers /\ worker'.sent = {} /\ UNCHANGED box
         /\ DOMAIN worker'.stale \subseteq Unsent /\ DOMAIN worker'.due \subseteq Unsent
         /\ \A k \in DOMAIN worker'.stale :
              /\ worker'.stale[k] = box[k]
              /\ \E j \in Readable : Scope(j) = Scope(k) /\ ~(box[j].created <= box[k].created)
         /\ \A k \in DOMAIN worker'.due :
              /\ worker'.due[k] = box[k]
              /\ \A j \in Readable : Scope(j) = Scope(k) => box[j].created <= box[k].created
<1> DEFINE read == Restrict(box, Readable)
           pending == {k \in DOMAIN read : ~Delivered(read[k])}
           last == {k \in pending : Newest(k, read)}
<1>1. PICK due \in {{k} : k \in last} \union {{}} :
        worker' = [pc |-> "run", stale |-> Restrict(read, pending \ last),
                   due |-> Restrict(read, due), ack |-> FALSE, sent |-> {}]
  BY DEF Scan, Readable
<1>2. box \in Boxes
  BY DEF OutboxTyped
<1>3. /\ read \in Boxes /\ DOMAIN read = Readable
      /\ \A k \in Readable : read[k] = box[k]
  BY <1>2, RestrictBox DEF Readable
<1> HIDE DEF read
<1>4. pending = Unsent
  <2>1. \A k \in Readable : read[k] = box[k]
    BY <1>3
  <2> QED BY <1>3, <2>1 DEF Delivered, Unsent
<1>5. due \subseteq last /\ last \subseteq pending /\ pending \subseteq DOMAIN read
  BY <1>3
<1>6. \A k \in last : \A j \in Readable : Scope(j) = Scope(k) => box[j].created <= box[k].created
  BY <1>3, <1>5 DEF Newest
<1>7. \A k \in pending \ last :
        \E j \in Readable : Scope(j) = Scope(k) /\ ~(box[j].created <= box[k].created)
  BY <1>3, <1>5 DEF Newest
<1> HIDE DEF pending, last
<1> DEFINE s == Restrict(read, pending \ last)
           d == Restrict(read, due)
<1>8. /\ s \in Boxes /\ DOMAIN s = pending \ last
      /\ \A k \in pending \ last : s[k] = read[k]
  BY <1>3, <1>5, RestrictBox
<1>9. /\ d \in Boxes /\ DOMAIN d = due
      /\ \A k \in due : d[k] = read[k]
  BY <1>3, <1>5, RestrictBox
<1>10. worker' = [pc |-> "run", stale |-> s, due |-> d, ack |-> FALSE, sent |-> {}]
  BY <1>1
<1> HIDE DEF s, d
<1>11. worker' \in Workers /\ worker'.stale = s /\ worker'.due = d /\ worker'.sent = {}
  BY <1>8, <1>9, <1>10 DEF Workers
<1>12. box' = box
  BY DEF Scan
<1>13. \A k \in DOMAIN s :
         /\ s[k] = box[k]
         /\ \E j \in Readable : Scope(j) = Scope(k) /\ ~(box[j].created <= box[k].created)
  BY <1>3, <1>5, <1>7, <1>8
<1>14. \A k \in DOMAIN d :
         /\ d[k] = box[k]
         /\ \A j \in Readable : Scope(j) = Scope(k) => box[j].created <= box[k].created
  BY <1>3, <1>5, <1>6, <1>9
<1> QED BY <1>4, <1>5, <1>8, <1>9, <1>11, <1>12, <1>13, <1>14

LEMMA ScanTyped == ASSUME OutboxTyped, Bounded, Scan PROVE OutboxTyped' /\ Bounded'
<1>1. UNCHANGED <<clock, world, kept, scope, box, rep, health, told, doubled, producer, changes, faults>>
  BY DEF Scan
<1>2. /\ worker' \in Workers /\ worker'.sent = {}
      /\ DOMAIN worker'.stale \subseteq DOMAIN box /\ DOMAIN worker'.due \subseteq DOMAIN box
      /\ \A k \in DOMAIN worker'.stale : worker'.stale[k] = box[k]
      /\ \A k \in DOMAIN worker'.due : worker'.due[k] = box[k]
  BY ScanView DEF Unsent, Readable
<1>3. OutboxTyped'
  BY <1>1, <1>2 DEF OutboxTyped, EventsTyped, CopiesAreOfTheBox
<1>4. Bounded'
  BY <1>1, <1>2 DEF Bounded, BoundedBy
<1> QED BY <1>3, <1>4

\* One overtaken item is written as superseded.
LEMMA SupersedeView ==
  ASSUME OutboxTyped, Supersede
  PROVE  \E k \in DOMAIN worker.stale :
           /\ k \in DOMAIN box /\ k \in Keys /\ worker.stale[k] \in Items
           /\ [worker.stale[k] EXCEPT !.how = "superseded"] \in Items
           /\ [worker.stale[k] EXCEPT !.how = "superseded"].created = worker.stale[k].created
           /\ [worker.stale[k] EXCEPT !.how = "superseded"].news = worker.stale[k].news
           /\ [worker.stale[k] EXCEPT !.how = "superseded"].how = "superseded"
           /\ box' = Put(k, [worker.stale[k] EXCEPT !.how = "superseded"])
           /\ worker' \in Workers
           /\ \/ worker' = Asleep
              \/ /\ worker'.due = worker.due /\ worker'.sent = worker.sent
                 /\ DOMAIN worker'.stale \subseteq DOMAIN worker.stale
                 /\ \A j \in DOMAIN worker'.stale : worker'.stale[j] = worker.stale[j]
<1>1. PICK k \in DOMAIN worker.stale :
        /\ box' = Put(k, [worker.stale[k] EXCEPT !.how = "superseded"])
        /\ worker' = IF DOMAIN worker.stale = {k} /\ worker.due = <<>> THEN Asleep
                     ELSE [worker EXCEPT !.stale = Drop(@, k)]
  BY DEF Supersede
<1>2. worker \in Workers /\ worker.stale \in Boxes /\ k \in DOMAIN box
  <2>1. worker \in Workers
    BY DEF OutboxTyped
  <2> QED BY <2>1 DEF Workers, OutboxTyped, CopiesAreOfTheBox
<1>3. k \in Keys /\ worker.stale[k] \in Items
  BY <1>2, BoxOf
<1>4. /\ [worker.stale[k] EXCEPT !.how = "superseded"] \in Items
      /\ [worker.stale[k] EXCEPT !.how = "superseded"].created = worker.stale[k].created
      /\ [worker.stale[k] EXCEPT !.how = "superseded"].news = worker.stale[k].news
      /\ [worker.stale[k] EXCEPT !.how = "superseded"].how = "superseded"
  BY <1>3 DEF Items
<1> DEFINE left == Restrict(worker.stale, DOMAIN worker.stale \ {k})
           busy == [worker EXCEPT !.stale = left]
<1>5. /\ left \in Boxes /\ DOMAIN left = DOMAIN worker.stale \ {k}
      /\ \A j \in DOMAIN worker.stale \ {k} : left[j] = worker.stale[j]
  BY <1>2, RestrictBox
<1>6. worker' = IF DOMAIN worker.stale = {k} /\ worker.due = <<>> THEN Asleep ELSE busy
  BY <1>1 DEF Drop
<1> HIDE DEF left
<1>7. busy \in Workers /\ busy.stale = left /\ busy.due = worker.due /\ busy.sent = worker.sent
  BY <1>2, <1>5 DEF Workers
<1> HIDE DEF busy
<1>8. /\ worker' \in Workers
      /\ \/ worker' = Asleep
         \/ /\ worker'.due = worker.due /\ worker'.sent = worker.sent
            /\ DOMAIN worker'.stale \subseteq DOMAIN worker.stale
            /\ \A j \in DOMAIN worker'.stale : worker'.stale[j] = worker.stale[j]
  BY <1>5, <1>6, <1>7, AsleepTyped
<1> QED BY <1>1, <1>2, <1>3, <1>4, <1>8

LEMMA SupersedeTyped == ASSUME OutboxTyped, Bounded, Supersede PROVE OutboxTyped' /\ Bounded'
<1>1. PICK k \in DOMAIN worker.stale :
           /\ k \in Keys
           /\ [worker.stale[k] EXCEPT !.how = "superseded"] \in Items
           /\ [worker.stale[k] EXCEPT !.how = "superseded"].created = worker.stale[k].created
           /\ box' = Put(k, [worker.stale[k] EXCEPT !.how = "superseded"])
           /\ worker' \in Workers
           /\ \/ worker' = Asleep
              \/ /\ worker'.due = worker.due /\ worker'.sent = worker.sent
                 /\ DOMAIN worker'.stale \subseteq DOMAIN worker.stale
                 /\ \A j \in DOMAIN worker'.stale : worker'.stale[j] = worker.stale[j]
  BY SupersedeView
<1> DEFINE i == [worker.stale[k] EXCEPT !.how = "superseded"]
<1>2. i \in Items /\ i.created = worker.stale[k].created /\ box' = Put(k, i)
  BY <1>1
<1> HIDE DEF i
<1>3. UNCHANGED <<clock, world, kept, scope, rep, health, told, doubled, producer, changes, faults>>
  BY DEF Supersede
<1>4. /\ rep' \in [Reporters -> Views] /\ rep' = rep
      /\ health' \in Healths /\ doubled' \in BOOLEAN /\ faults' \in Nat
  BY <1>3 DEF OutboxTyped
<1>5. /\ worker'.sent \subseteq DOMAIN worker'.due
      /\ DOMAIN worker'.stale \subseteq DOMAIN worker.stale
      /\ \A j \in DOMAIN worker'.stale : worker'.stale[j] = worker.stale[j]
      /\ DOMAIN worker'.due \subseteq DOMAIN worker.due
      /\ \A j \in DOMAIN worker'.due : worker'.due[j] = worker.due[j]
  BY <1>1, AsleepTyped DEF OutboxTyped, CopiesAreOfTheBox
<1> QED BY <1>1, <1>2, <1>3, <1>4, <1>5, WrittenTyped

LEMMA SendView ==
  ASSUME OutboxTyped, NEW k \in DOMAIN worker.due, NEW answer, Send(k, answer)
  PROVE  /\ worker' \in Workers /\ worker'.sent = {k}
         /\ worker'.stale = worker.stale /\ worker'.due = worker.due
         /\ told' \subseteq told \cup {k} /\ told \subseteq told'
         /\ worker.sent = {} /\ k \in DOMAIN box /\ k \in Keys
<1>1. /\ worker.sent = {} /\ worker' = [worker EXCEPT !.sent = {k}, !.ack = answer = "ok"]
      /\ told' \in {told, told \cup {k}}
  BY DEF Send
<1>2. worker \in Workers /\ k \in DOMAIN box
  BY DEF OutboxTyped, CopiesAreOfTheBox
<1>3. k \in Keys
  BY <1>2, BoxOf DEF OutboxTyped
<1> DEFINE a == answer = "ok"
<1>4. a \in BOOLEAN /\ worker' = [worker EXCEPT !.sent = {k}, !.ack = a]
  BY <1>1
<1> HIDE DEF a
<1>5. /\ worker' \in Workers /\ worker'.sent = {k}
      /\ worker'.stale = worker.stale /\ worker'.due = worker.due
  BY <1>2, <1>3, <1>4 DEF Workers
<1> QED BY <1>1, <1>2, <1>3, <1>5

LEMMA SendTyped ==
  ASSUME OutboxTyped, Bounded, NEW k \in DOMAIN worker.due, NEW answer, Send(k, answer)
  PROVE  OutboxTyped' /\ Bounded'
<1>1. UNCHANGED <<clock, world, kept, scope, box, rep, health, doubled, producer, changes, faults>>
  BY DEF Send
<1>2. OutboxTyped'
  BY <1>1, SendView DEF OutboxTyped, EventsTyped, CopiesAreOfTheBox
<1>3. Bounded'
  BY <1>1, SendView DEF Bounded, BoundedBy
<1> QED BY <1>2, <1>3

\* The command's answer is written into the item.
LEMMA RecordView ==
  ASSUME OutboxTyped, Record
  PROVE  /\ worker' = Asleep
         /\ \E k \in DOMAIN worker.due, i \in Items :
              /\ k \in DOMAIN box /\ k \in Keys /\ worker.due[k] \in Items
              /\ i.created = worker.due[k].created /\ i.news = worker.due[k].news
              /\ i.how \in {"told", worker.due[k].how}
              /\ box' = Put(k, i)
<1>1. PICK k \in worker.sent :
          /\ box' = Put(k, IF worker.ack THEN [worker.due[k] EXCEPT !.how = "told"] ELSE worker.due[k])
          /\ worker' = Asleep
  BY DEF Record
<1>2. worker \in Workers /\ worker.due \in Boxes /\ k \in DOMAIN worker.due /\ k \in DOMAIN box
  <2>1. worker \in Workers
    BY DEF OutboxTyped
  <2> QED BY <2>1 DEF Workers, OutboxTyped, CopiesAreOfTheBox
<1>3. k \in Keys /\ worker.due[k] \in Items
  BY <1>2, BoxOf
<1> DEFINE t == [worker.due[k] EXCEPT !.how = "told"]
<1>4. /\ t \in Items /\ t.created = worker.due[k].created
      /\ t.news = worker.due[k].news /\ t.how = "told"
  BY <1>3 DEF Items
<1>5. box' \in {Put(k, t), Put(k, worker.due[k])}
  BY <1>1
<1> HIDE DEF t
<1>6. CASE box' = Put(k, t)
  BY <1>1, <1>2, <1>3, <1>4, <1>6
<1>7. CASE box' = Put(k, worker.due[k])
  BY <1>1, <1>2, <1>3, <1>7
<1> QED BY <1>5, <1>6, <1>7

LEMMA RecordTyped == ASSUME OutboxTyped, Bounded, Record PROVE OutboxTyped' /\ Bounded'
<1>1. PICK k \in DOMAIN worker.due, i \in Items :
        /\ k \in Keys /\ i.created = worker.due[k].created /\ box' = Put(k, i)
  BY RecordView
<1>2. UNCHANGED <<clock, world, kept, scope, rep, health, told, doubled, producer, changes, faults>>
  BY DEF Record
<1>3. /\ rep' \in [Reporters -> Views] /\ rep' = rep
      /\ health' \in Healths /\ doubled' \in BOOLEAN /\ faults' \in Nat
  BY <1>2 DEF OutboxTyped
<1>4. /\ worker' \in Workers /\ worker'.sent \subseteq DOMAIN worker'.due
      /\ DOMAIN worker'.stale = {} /\ DOMAIN worker'.due = {}
  BY RecordView, AsleepTyped
<1> QED BY <1>1, <1>2, <1>3, <1>4, WrittenTyped

LEMMA StutterTyped == ASSUME OutboxTyped, Bounded, UNCHANGED outboxVars PROVE OutboxTyped' /\ Bounded'
<1>1. OutboxTyped'
  BY DEF OutboxTyped, EventsTyped, CopiesAreOfTheBox, outboxVars
<1>2. Bounded'
  BY DEF Bounded, BoundedBy, outboxVars
<1> QED BY <1>1, <1>2

\* The actions of the outbox, one by one.
LEMMA OutboxActions ==
  ASSUME [OutboxNext]_outboxVars
  PROVE  \/ Tick \/ Change \/ ReporterDies \/ ProbeFails \/ ProbeSucceeds \/ Scan \/ Supersede \/ Record
         \/ \E r \in Reporters : ListEvents(r) \/ WriteEvent(r) \/ ReadState(r) \/ WriteState(r)
         \/ \E r \in Reporters, up \in BOOLEAN : Reconcile(r, up)
         \/ \E k \in DOMAIN worker.due, answer \in {"ok", "lost", "refused"} : Send(k, answer)
         \/ UNCHANGED outboxVars
  BY DEF OutboxNext, Reporter

LEMMA StepOutboxTyped ==
  OutboxTyped /\ Bounded /\ [OutboxNext]_outboxVars => OutboxTyped' /\ Bounded'
  BY OutboxActions, TickTyped, ChangeTyped, ReporterDiesTyped, ProbeFailsTyped, ProbeSucceedsTyped,
     ScanTyped, SupersedeTyped, RecordTyped, ListEventsTyped, WriteEventTyped, ReadStateTyped,
     WriteStateTyped, ReconcileTyped, SendTyped, StutterTyped

THEOREM OutboxIsTyped == OutboxSpec => [](OutboxTyped /\ Bounded)
<1>1. OutboxInit => OutboxTyped /\ Bounded
  BY InitOutboxTyped
<1>2. OutboxTyped /\ Bounded /\ [OutboxNext]_outboxVars => (OutboxTyped /\ Bounded)'
  BY StepOutboxTyped
<1> QED BY <1>1, <1>2, PTL DEF OutboxSpec

-----------------------------------------------------------------------------
(* Sites are announced once a day: the batch of the one reporter inside the *)
(* mutex is disjoint from what is in the outbox.                            *)

AboutHasNews == \A k \in DOMAIN box : k.kind = "action" => box[k].news \subseteq k.about

OneReporterWrites ==
  \A q, r \in Reporters : rep[q].pc = "write" /\ rep[r].pc = "write" => q = r

\* A batch has one call for action, about sites nobody was told of that day.
BatchIsFresh ==
  \A r \in Reporters : rep[r].pc = "write" =>
    \A e \in rep[r].events : e.key.kind = "action" =>
      /\ \A f \in rep[r].events : f.key.kind = "action" => f = e
      /\ e.news \subseteq e.key.about
      /\ \A k \in DOMAIN box :
           k.kind = "action" /\ k.day = e.key.day => box[k].news \cap e.news = {}

CopiesKeepNews ==
  /\ \A k \in DOMAIN worker.stale : k.kind = "action" => worker.stale[k].news = box[k].news
  /\ \A k \in DOMAIN worker.due : k.kind = "action" => worker.due[k].news = box[k].news

Announced == SiteAnnouncedOnce /\ AboutHasNews /\ OneReporterWrites /\ BatchIsFresh /\ CopiesKeepNews

\* Steps that neither announce a site nor plan to.
LEMMA NewsKept ==
  ASSUME Announced, DOMAIN box \subseteq DOMAIN box',
         \A k \in DOMAIN box' : k.kind = "action" => k \in DOMAIN box /\ box'[k].news = box[k].news,
         \A q \in Reporters : rep'[q].pc = "write" =>
            rep[q].pc = "write" /\ rep'[q].events \subseteq rep[q].events,
         \A k \in DOMAIN worker'.stale :
            /\ k \in DOMAIN box
            /\ \/ worker'.stale[k] = box[k]
               \/ k \in DOMAIN worker.stale /\ worker'.stale[k] = worker.stale[k],
         \A k \in DOMAIN worker'.due :
            /\ k \in DOMAIN box
            /\ \/ worker'.due[k] = box[k]
               \/ k \in DOMAIN worker.due /\ worker'.due[k] = worker.due[k]
  PROVE  Announced'
<1>1. SiteAnnouncedOnce'
  BY DEF Announced, SiteAnnouncedOnce
<1>2. AboutHasNews'
  BY DEF Announced, AboutHasNews
<1>3. OneReporterWrites'
  BY DEF Announced, OneReporterWrites
<1>4. BatchIsFresh'
  <2> SUFFICES ASSUME NEW r \in Reporters, rep'[r].pc = "write",
                      NEW e \in rep'[r].events, e.key.kind = "action"
               PROVE  /\ \A f \in rep'[r].events : f.key.kind = "action" => f = e
                      /\ e.news \subseteq e.key.about
                      /\ \A k \in DOMAIN box' :
                           k.kind = "action" /\ k.day = e.key.day => box'[k].news \cap e.news = {}
    BY DEF BatchIsFresh
  <2>1. rep[r].pc = "write" /\ e \in rep[r].events /\ rep'[r].events \subseteq rep[r].events
    OBVIOUS
  <2>2. /\ \A f \in rep[r].events : f.key.kind = "action" => f = e
        /\ e.news \subseteq e.key.about
        /\ \A k \in DOMAIN box :
             k.kind = "action" /\ k.day = e.key.day => box[k].news \cap e.news = {}
    BY <2>1 DEF Announced, BatchIsFresh
  <2> QED BY <2>1, <2>2
<1>5. CopiesKeepNews'
  BY DEF Announced, CopiesKeepNews
<1> QED BY <1>1, <1>2, <1>3, <1>4, <1>5 DEF Announced

\* A new batch is computed inside the mutex, from the outbox as it is.
LEMMA ListEventsAnnounced ==
  ASSUME OutboxTyped, Announced, NEW r \in Reporters, ListEvents(r) PROVE Announced'
<1>1. UNCHANGED <<box, worker>> /\ HasMutex(r)
  BY DEF ListEvents
<1>2. /\ \A q \in Reporters : q # r => rep'[q] = rep[q]
      /\ \/ rep'[r].pc = "off"
         \/ /\ rep'[r].pc = "write"
            /\ rep'[r].events = {e \in DigestEvents(r) : e.key \notin DOMAIN box}
  BY ListEventsView
<1>3. CASE rep'[r].pc = "off"
  <2>1. /\ \A k \in DOMAIN worker'.stale : k \in DOMAIN box /\ k \in DOMAIN worker.stale /\ worker'.stale[k] = worker.stale[k]
        /\ \A k \in DOMAIN worker'.due : k \in DOMAIN box /\ k \in DOMAIN worker.due /\ worker'.due[k] = worker.due[k]
    BY <1>1 DEF OutboxTyped, CopiesAreOfTheBox
  <2>2. \A q \in Reporters : rep'[q].pc = "write" =>
            rep[q].pc = "write" /\ rep'[q].events \subseteq rep[q].events
    BY <1>2, <1>3
  <2> QED BY <1>1, <2>1, <2>2, NewsKept
<1>4. CASE rep'[r].pc # "off"
  <2>1. rep'[r].pc = "write" /\ rep'[r].events = {e \in DigestEvents(r) : e.key \notin DOMAIN box}
    BY <1>2, <1>4
  <2>2. \A q \in Reporters : q # r => rep'[q].pc # "write"
    BY <1>1, <1>2 DEF HasMutex
  <2>3. SiteAnnouncedOnce' /\ AboutHasNews' /\ CopiesKeepNews'
    BY <1>1 DEF Announced, SiteAnnouncedOnce, AboutHasNews, CopiesKeepNews
  <2>4. OneReporterWrites'
    BY <2>2 DEF OneReporterWrites
  <2> DEFINE day == Day(rep[r].now)
             fresh == Event("action", day, Seen(day) \cup rep[r].problems, rep[r].problems \ Seen(day))
  <2>5. \A e \in DigestEvents(r) : e.key.kind = "action" => e = fresh
    <3>1. ASSUME NEW e \in DigestEvents(r), e.key.kind = "action" PROVE e = fresh
      <4>1. \/ e = fresh
            \/ e = Event("digest", day, {}, {})
            \/ e = Event("failed", day, {}, {})
            \/ e = Event("missing", day, {}, {})
        BY DEF DigestEvents
      <4>2. ASSUME NEW kind \in {"digest", "failed", "missing"} PROVE Event(kind, day, {}, {}).key.kind = kind
        BY DEF Event, Key
      <4> QED BY <3>1, <4>1, <4>2
    <3> QED BY <3>1
  <2>6. BatchIsFresh'
    <3> SUFFICES ASSUME NEW q \in Reporters, rep'[q].pc = "write",
                        NEW e \in rep'[q].events, e.key.kind = "action"
                 PROVE  /\ \A f \in rep'[q].events : f.key.kind = "action" => f = e
                        /\ e.news \subseteq e.key.about
                        /\ \A k \in DOMAIN box' :
                             k.kind = "action" /\ k.day = e.key.day => box'[k].news \cap e.news = {}
      BY DEF BatchIsFresh
    <3>1. q = r /\ e \in DigestEvents(r)
      BY <2>1, <2>2
    <3>2. \A f \in rep'[q].events : f.key.kind = "action" => f = e
      BY <2>1, <2>5, <3>1
    <3>3. /\ e.key.day = day
          /\ e.key.about = Seen(day) \cup rep[r].problems
          /\ e.news = rep[r].problems \ Seen(day)
      BY <3>1, DigestTyped
    <3>4. \A k \in DOMAIN box : k.kind = "action" /\ k.day = day => box[k].news \subseteq Seen(day)
      BY DEF Announced, AboutHasNews, Seen
    <3> HIDE DEF day
    <3>5. \A k \in DOMAIN box : k.kind = "action" /\ k.day = e.key.day => box[k].news \cap e.news = {}
      BY <3>3, <3>4
    <3>6. box' = box
      BY <1>1
    <3> QED BY <3>2, <3>3, <3>5, <3>6
  <2> QED BY <2>3, <2>4, <2>6 DEF Announced
<1> QED BY <1>3, <1>4

LEMMA WriteEventAnnounced ==
  ASSUME OutboxTyped, Bounded, Announced, NEW r \in Reporters, WriteEvent(r) PROVE Announced'
<1>1. PICK e \in rep[r].events :
         /\ e \in Writes /\ e.key.kind \in Dated
         /\ box' = IF e.key \in DOMAIN box THEN box ELSE Put(e.key, Item(NextStamp, e.news))
         /\ \/ rep'[r].pc = "off"
            \/ rep'[r].pc = "write" /\ rep'[r].events = rep[r].events \ {e}
  BY WriteEventView
<1>2. rep[r].pc = "write" /\ \A q \in Reporters : q # r => rep'[q] = rep[q]
  BY WriteEventView
<1>3. worker' = worker
  BY DEF WriteEvent
<1>4. \A q \in Reporters : rep'[q].pc = "write" =>
            rep[q].pc = "write" /\ rep'[q].events \subseteq rep[q].events
  BY <1>1, <1>2
<1>5. /\ \A k \in DOMAIN worker'.stale : k \in DOMAIN box /\ k \in DOMAIN worker.stale /\ worker'.stale[k] = worker.stale[k]
      /\ \A k \in DOMAIN worker'.due : k \in DOMAIN box /\ k \in DOMAIN worker.due /\ worker'.due[k] = worker.due[k]
  BY <1>3 DEF OutboxTyped, CopiesAreOfTheBox
<1> DEFINE i == Item(NextStamp, e.news)
<1>6. e.key \in Keys /\ i \in Items /\ i.news = e.news
  <2>1. e.key \in Keys /\ e.news \in SUBSET Sites
    BY <1>1 DEF Writes
  <2> QED BY <2>1, ItemTyped, NextStampIsLate
<1>7. CASE e.key \in DOMAIN box
  <2>1. box' = box
    BY <1>1, <1>7
  <2> QED BY <1>4, <1>5, <2>1, NewsKept
<1>8. CASE e.key \notin DOMAIN box
  <2>1. /\ DOMAIN box' = DOMAIN box \cup {e.key} /\ box'[e.key] = i
        /\ \A j \in DOMAIN box : j # e.key => box'[j] = box[j]
    <3>1. box' = Put(e.key, i) /\ box \in Boxes
      BY <1>1, <1>8 DEF OutboxTyped
    <3> HIDE DEF i
    <3> QED BY <1>6, <3>1, PutBox
  <2>2. CASE e.key.kind # "action"
    <3>1. \A k \in DOMAIN box' : k.kind = "action" => k \in DOMAIN box /\ box'[k].news = box[k].news
      BY <1>8, <2>1, <2>2
    <3> QED BY <1>4, <1>5, <2>1, <3>1, NewsKept
  <2>3. CASE e.key.kind = "action"
    <3>1. /\ e.news \subseteq e.key.about
          /\ \A f \in rep[r].events : f.key.kind = "action" => f = e
          /\ \A k \in DOMAIN box :
               k.kind = "action" /\ k.day = e.key.day => box[k].news \cap e.news = {}
      BY <1>2, <2>3 DEF Announced, BatchIsFresh
    <3>2. SiteAnnouncedOnce'
      <4> SUFFICES ASSUME NEW j \in DOMAIN box', NEW k \in DOMAIN box', j # k, j.day = k.day,
                          j.kind = "action", k.kind = "action"
                   PROVE  box'[j].news \cap box'[k].news = {}
        BY DEF SiteAnnouncedOnce
      <4>1. CASE j = e.key
        BY <1>6, <2>1, <3>1, <4>1
      <4>2. CASE k = e.key
        BY <1>6, <2>1, <3>1, <4>2
      <4>3. CASE j # e.key /\ k # e.key
        BY <2>1, <4>3 DEF Announced, SiteAnnouncedOnce
      <4> QED BY <4>1, <4>2, <4>3
    <3>3. AboutHasNews'
      BY <1>6, <2>1, <3>1 DEF Announced, AboutHasNews
    <3>4. OneReporterWrites'
      BY <1>4 DEF Announced, OneReporterWrites
    <3>5. \A q \in Reporters : rep'[q].pc = "write" => \A f \in rep'[q].events : f.key.kind # "action"
      <4>1. \A q \in Reporters : rep'[q].pc = "write" => q = r
        BY <1>2, <1>4 DEF Announced, OneReporterWrites
      <4> QED BY <1>1, <3>1, <4>1
    <3>6. BatchIsFresh'
      BY <3>5 DEF BatchIsFresh
    <3>7. CopiesKeepNews'
      <4>1. e.key \notin DOMAIN worker.stale /\ e.key \notin DOMAIN worker.due
        BY <1>8 DEF OutboxTyped, CopiesAreOfTheBox
      <4> QED BY <1>3, <1>5, <2>1, <4>1 DEF Announced, CopiesKeepNews
    <3> QED BY <3>2, <3>3, <3>4, <3>6, <3>7 DEF Announced
  <2> QED BY <2>2, <2>3
<1> QED BY <1>7, <1>8

\* Steps that write at most one item, and no news.
LEMMA OneItemAnnounced ==
  ASSUME OutboxTyped, Announced,
         NEW k \in Keys, NEW i \in Items, box' \in {box, Put(k, i)},
         k.kind = "action" => k \in DOMAIN box /\ i.news = box[k].news,
         \A q \in Reporters : rep'[q].pc = "write" =>
            rep[q].pc = "write" /\ rep'[q].events \subseteq rep[q].events,
         DOMAIN worker'.stale \subseteq DOMAIN worker.stale,
         \A j \in DOMAIN worker'.stale : worker'.stale[j] = worker.stale[j],
         DOMAIN worker'.due \subseteq DOMAIN worker.due,
         \A j \in DOMAIN worker'.due : worker'.due[j] = worker.due[j]
  PROVE  Announced'
<1>1. /\ \A j \in DOMAIN worker'.stale : j \in DOMAIN box /\ j \in DOMAIN worker.stale /\ worker'.stale[j] = worker.stale[j]
      /\ \A j \in DOMAIN worker'.due : j \in DOMAIN box /\ j \in DOMAIN worker.due /\ worker'.due[j] = worker.due[j]
  BY DEF OutboxTyped, CopiesAreOfTheBox
<1>2. /\ DOMAIN Put(k, i) = DOMAIN box \cup {k} /\ Put(k, i)[k] = i
      /\ \A j \in DOMAIN box : j # k => Put(k, i)[j] = box[j]
  BY PutBox DEF OutboxTyped
<1>3. /\ DOMAIN box \subseteq DOMAIN box'
      /\ \A j \in DOMAIN box' : j.kind = "action" => j \in DOMAIN box /\ box'[j].news = box[j].news
  BY <1>2
<1> QED BY <1>1, <1>3, NewsKept

\* Steps of the reporters and around them that leave box and worker alone.
LEMMA NothingWrittenAnnounced ==
  ASSUME OutboxTyped, Announced, UNCHANGED <<box, worker>>,
         \A q \in Reporters : rep'[q].pc = "write" =>
            rep[q].pc = "write" /\ rep'[q].events \subseteq rep[q].events
  PROVE  Announced'
<1>1. /\ \A j \in DOMAIN worker'.stale : j \in DOMAIN box /\ j \in DOMAIN worker.stale /\ worker'.stale[j] = worker.stale[j]
      /\ \A j \in DOMAIN worker'.due : j \in DOMAIN box /\ j \in DOMAIN worker.due /\ worker'.due[j] = worker.due[j]
  BY DEF OutboxTyped, CopiesAreOfTheBox
<1> QED BY <1>1, NewsKept

LEMMA InitAnnounced == OutboxInit => Announced
<1> SUFFICES ASSUME OutboxInit PROVE Announced
  OBVIOUS
<1>1. \A r \in Reporters : rep[r].pc = "off"
  BY QuietTyped DEF OutboxInit
<1>2. DOMAIN box = {} /\ DOMAIN worker.stale = {} /\ DOMAIN worker.due = {}
  BY EmptyBox, AsleepTyped DEF OutboxInit
<1> QED BY <1>1, <1>2
     DEF Announced, SiteAnnouncedOnce, AboutHasNews, OneReporterWrites, BatchIsFresh, CopiesKeepNews

LEMMA StepAnnounced ==
  OutboxTyped /\ Bounded /\ Announced /\ [OutboxNext]_outboxVars => Announced'
<1> SUFFICES ASSUME OutboxTyped, Bounded, Announced, [OutboxNext]_outboxVars PROVE Announced'
  OBVIOUS
<1>1. CASE Tick \/ Change \/ UNCHANGED outboxVars
  <2>1. UNCHANGED <<box, worker, rep>>
    BY <1>1 DEF Tick, Change, outboxVars
  <2> QED BY <2>1, NothingWrittenAnnounced
<1>2. CASE ReporterDies
  <2>1. UNCHANGED <<box, worker>>
    BY <1>2 DEF ReporterDies
  <2>2. PICK r \in Reporters : rep' = [rep EXCEPT ![r] = Quiet]
    BY <1>2 DEF ReporterDies
  <2>3. rep'[r].pc = "off" /\ \A q \in Reporters : q # r => rep'[q] = rep[q]
    BY <2>2, Moved, QuietTyped DEF OutboxTyped
  <2> QED BY <2>1, <2>3, NothingWrittenAnnounced
<1>3. ASSUME NEW kind \in {"blocked", "recovered"}, box' \in {box, AddNotice(kind)}, UNCHANGED <<rep, worker>>
      PROVE  Announced'
  <2>1. /\ Notice(kind) \in Keys /\ Notice(kind).kind # "action"
        /\ box' \in {box, Put(Notice(kind), Item(NextStamp, {}))}
    BY <1>3, NoticeIsNew DEF Kinds, Dated
  <2>2. Item(NextStamp, {}) \in Items
    BY ItemTyped, NextStampIsLate
  <2> QED BY <1>3, <2>1, <2>2, OneItemAnnounced
<1>4. CASE ProbeFails
  BY <1>3, <1>4, ProbeFailsView DEF ProbeFails
<1>5. CASE ProbeSucceeds
  BY <1>3, <1>5, ProbeSucceedsView DEF ProbeSucceeds
<1>6. CASE Scan
  <2>1. /\ UNCHANGED <<box, rep>>
        /\ \A k \in DOMAIN worker'.stale : k \in DOMAIN box /\ worker'.stale[k] = box[k]
        /\ \A k \in DOMAIN worker'.due : k \in DOMAIN box /\ worker'.due[k] = box[k]
    BY <1>6, ScanView DEF Scan, Unsent, Readable
  <2> QED BY <2>1, NewsKept
<1>7. CASE Supersede
  <2>1. PICK k \in DOMAIN worker.stale :
           /\ k \in DOMAIN box /\ k \in Keys
           /\ [worker.stale[k] EXCEPT !.how = "superseded"] \in Items
           /\ [worker.stale[k] EXCEPT !.how = "superseded"].news = worker.stale[k].news
           /\ box' = Put(k, [worker.stale[k] EXCEPT !.how = "superseded"])
           /\ \/ worker' = Asleep
              \/ /\ worker'.due = worker.due
                 /\ DOMAIN worker'.stale \subseteq DOMAIN worker.stale
                 /\ \A j \in DOMAIN worker'.stale : worker'.stale[j] = worker.stale[j]
    BY <1>7, SupersedeView
  <2> DEFINE i == [worker.stale[k] EXCEPT !.how = "superseded"]
  <2>2. i \in Items /\ i.news = worker.stale[k].news /\ box' = Put(k, i)
    BY <2>1
  <2> HIDE DEF i
  <2>3. k.kind = "action" => k \in DOMAIN box /\ i.news = box[k].news
    BY <2>1, <2>2 DEF Announced, CopiesKeepNews
  <2>4. /\ DOMAIN worker'.stale \subseteq DOMAIN worker.stale
        /\ \A j \in DOMAIN worker'.stale : worker'.stale[j] = worker.stale[j]
        /\ DOMAIN worker'.due \subseteq DOMAIN worker.due
        /\ \A j \in DOMAIN worker'.due : worker'.due[j] = worker.due[j]
    BY <2>1, AsleepTyped
  <2>5. rep' = rep
    BY <1>7 DEF Supersede
  <2> QED BY <2>1, <2>2, <2>3, <2>4, <2>5, OneItemAnnounced
<1>8. CASE Record
  <2>1. PICK k \in DOMAIN worker.due, i \in Items :
           /\ k \in DOMAIN box /\ k \in Keys /\ i.news = worker.due[k].news /\ box' = Put(k, i)
    BY <1>8, RecordView
  <2>2. k.kind = "action" => k \in DOMAIN box /\ i.news = box[k].news
    BY <2>1 DEF Announced, CopiesKeepNews
  <2>3. rep' = rep /\ DOMAIN worker'.stale = {} /\ DOMAIN worker'.due = {}
    BY <1>8, RecordView, AsleepTyped DEF Record
  <2> QED BY <2>1, <2>2, <2>3, OneItemAnnounced
<1>9. ASSUME NEW r \in Reporters, ListEvents(r) PROVE Announced'
  BY <1>9, ListEventsAnnounced
<1>10. ASSUME NEW r \in Reporters, WriteEvent(r) PROVE Announced'
  BY <1>10, WriteEventAnnounced
<1>11. ASSUME NEW r \in Reporters, ReadState(r) PROVE Announced'
  <2>1. /\ UNCHANGED <<box, worker>> /\ rep'[r].pc # "write"
        /\ \A q \in Reporters : q # r => rep'[q] = rep[q]
    BY <1>11, ReadStateView DEF ReadState
  <2> QED BY <2>1, NothingWrittenAnnounced
<1>12. ASSUME NEW r \in Reporters, WriteState(r) PROVE Announced'
  <2>1. PICK e \in rep[r].events : e \in Replaces /\ e.key.kind = "state" /\ box' = Put(e.key, e.item)
    BY <1>12, WriteStateView
  <2>2. e.key \in Keys /\ e.item \in Items
    BY <2>1 DEF Replaces
  <2>3. worker' = worker /\ rep'[r].pc # "write" /\ \A q \in Reporters : q # r => rep'[q] = rep[q]
    BY <1>12, WriteStateView DEF WriteState
  <2> QED BY <2>1, <2>2, <2>3, OneItemAnnounced
<1>13. ASSUME NEW r \in Reporters, NEW up \in BOOLEAN, Reconcile(r, up) PROVE Announced'
  <2>1. UNCHANGED <<box, worker>>
    BY <1>13 DEF Reconcile
  <2>2. /\ rep'[r].pc # "write"
        /\ \A q \in Reporters : q # r => rep'[q].pc = rep[q].pc /\ rep'[q].events = rep[q].events
    BY <1>13, ReconcileView
  <2> QED BY <2>1, <2>2, NothingWrittenAnnounced
<1>14. ASSUME NEW k \in DOMAIN worker.due, NEW answer, Send(k, answer) PROVE Announced'
  <2>1. UNCHANGED <<box, rep>> /\ worker'.stale = worker.stale /\ worker'.due = worker.due
    BY <1>14, SendView DEF Send
  <2>2. /\ \A j \in DOMAIN worker'.stale : j \in DOMAIN box /\ j \in DOMAIN worker.stale /\ worker'.stale[j] = worker.stale[j]
        /\ \A j \in DOMAIN worker'.due : j \in DOMAIN box /\ j \in DOMAIN worker.due /\ worker'.due[j] = worker.due[j]
    BY <2>1 DEF OutboxTyped, CopiesAreOfTheBox
  <2> QED BY <2>1, <2>2, NewsKept
<1> QED BY <1>1, <1>2, <1>4, <1>5, <1>6, <1>7, <1>8, <1>9, <1>10, <1>11, <1>12, <1>13, <1>14, OutboxActions

(* SiteAnnouncedOnce for any number of reporters, whenever they read and    *)
(* wherever they die (Notification-Digest.ps1:75-112).                      *)
THEOREM SitesAreAnnouncedOnce == OutboxSpec => []SiteAnnouncedOnce
<1>1. OutboxInit => OutboxTyped /\ Bounded /\ Announced
  BY InitOutboxTyped, InitAnnounced
<1>2. OutboxTyped /\ Bounded /\ Announced /\ [OutboxNext]_outboxVars => (OutboxTyped /\ Bounded /\ Announced)'
  BY StepOutboxTyped, StepAnnounced
<1>3. Announced => SiteAnnouncedOnce
  BY DEF Announced
<1> QED BY <1>1, <1>2, <1>3, PTL DEF OutboxSpec

-----------------------------------------------------------------------------
(* Recoveries follow outages: an incident marked as announced is queued.    *)

OutageIsQueued ==
  /\ \A k \in DOMAIN box : k.kind = "recovered" => [k EXCEPT !.kind = "blocked"] \in DOMAIN box
  /\ health.notified => Key("blocked", health.id, {}) \in DOMAIN box

LEMMA StepOutageIsQueued ==
  OutboxTyped /\ Bounded /\ OutageIsQueued /\ [OutboxNext]_outboxVars => OutageIsQueued'
<1> SUFFICES ASSUME OutboxTyped, Bounded, OutageIsQueued, [OutboxNext]_outboxVars PROVE OutageIsQueued'
  OBVIOUS
<1>1. ASSUME NEW k \in Keys, NEW i \in Items, box' \in {box, Put(k, i)},
             k.kind = "recovered" => k \in DOMAIN box, UNCHANGED health
      PROVE  OutageIsQueued'
  <2>1. DOMAIN Put(k, i) = DOMAIN box \cup {k}
    BY PutBox DEF OutboxTyped
  <2> QED BY <1>1, <2>1 DEF OutageIsQueued
<1>2. ASSUME UNCHANGED <<box, health>> PROVE OutageIsQueued'
  BY <1>2 DEF OutageIsQueued
<1>3. CASE \/ Tick \/ Change \/ ReporterDies \/ Scan \/ UNCHANGED outboxVars
           \/ \E r \in Reporters : ListEvents(r) \/ ReadState(r)
           \/ \E r \in Reporters, up \in BOOLEAN : Reconcile(r, up)
           \/ \E k \in DOMAIN worker.due, answer \in {"ok", "lost", "refused"} : Send(k, answer)
  <2>1. UNCHANGED <<box, health>>
    BY <1>3 DEF Tick, Change, ReporterDies, Scan, outboxVars, ListEvents, ReadState, Reconcile, Send
  <2> QED BY <1>2, <2>1
<1>4. CASE ProbeFails
  <2>1. PICK code \in {1, 2} :
           /\ health'.id = Streak(code).id
           /\ \/ health'.notified = Streak(code).notified /\ box' \in {box, AddNotice("blocked")}
              \/ /\ health'.notified /\ box' = AddNotice("blocked")
                 /\ Streak(code).id = health.id
    BY <1>4, ProbeFailsView
  <2>2. \/ Streak(code).id = health.id /\ Streak(code).notified = health.notified
        \/ ~Streak(code).notified /\ Streak(code).streak = 1
    BY StreakTyped
  <2>3. /\ Notice("blocked") \in Keys /\ Notice("blocked").kind = "blocked"
        /\ AddNotice("blocked") = IF Notice("blocked") \in DOMAIN box THEN box
                                  ELSE Put(Notice("blocked"), Item(NextStamp, {}))
    BY NoticeIsNew DEF Kinds, Dated
  <2>4. Item(NextStamp, {}) \in Items
    BY ItemTyped, NextStampIsLate
  <2>5. DOMAIN AddNotice("blocked") = DOMAIN box \cup {Notice("blocked")}
    BY <2>3, <2>4, PutBox DEF OutboxTyped
  <2>6. DOMAIN box \subseteq DOMAIN box' /\ DOMAIN box' \subseteq DOMAIN box \cup {Notice("blocked")}
    BY <2>1, <2>5
  <2>7. \A k \in DOMAIN box' : k.kind = "recovered" => [k EXCEPT !.kind = "blocked"] \in DOMAIN box'
    BY <2>3, <2>6 DEF OutageIsQueued
  <2>8. ASSUME health'.notified PROVE Key("blocked", health'.id, {}) \in DOMAIN box'
    <3>1. CASE health'.notified = Streak(code).notified
      <4>1. Streak(code).id = health.id /\ health.notified
        BY <2>2, <2>8, <3>1
      <4> QED BY <2>1, <2>6, <4>1 DEF OutageIsQueued
    <3>2. CASE box' = AddNotice("blocked") /\ Streak(code).id = health.id
      BY <2>1, <2>5, <3>2 DEF Notice
    <3> QED BY <2>1, <3>1, <3>2
  <2> QED BY <2>7, <2>8 DEF OutageIsQueued
<1>5. CASE ProbeSucceeds
  <2>1. /\ health'.id = health.id /\ (health'.notified => health.notified)
        /\ box' = IF health.notified THEN AddNotice("recovered") ELSE box
    BY <1>5, ProbeSucceedsView
  <2>2. /\ Notice("recovered") \in Keys
        /\ AddNotice("recovered") = IF Notice("recovered") \in DOMAIN box THEN box
                                    ELSE Put(Notice("recovered"), Item(NextStamp, {}))
    BY NoticeIsNew DEF Kinds, Dated
  <2>3. Item(NextStamp, {}) \in Items
    BY ItemTyped, NextStampIsLate
  <2>4. DOMAIN AddNotice("recovered") = DOMAIN box \cup {Notice("recovered")}
    BY <2>2, <2>3, PutBox DEF OutboxTyped
  <2>5. [Notice("recovered") EXCEPT !.kind = "blocked"] = Key("blocked", health.id, {})
    BY DEF Notice, Key
  <2>6. CASE health.notified
    BY <2>1, <2>4, <2>5, <2>6 DEF OutageIsQueued
  <2>7. CASE ~health.notified
    BY <2>1, <2>7 DEF OutageIsQueued
  <2> QED BY <2>6, <2>7
<1>6. CASE Supersede
  <2>1. PICK k \in DOMAIN worker.stale :
           /\ k \in DOMAIN box /\ k \in Keys
           /\ [worker.stale[k] EXCEPT !.how = "superseded"] \in Items
           /\ box' = Put(k, [worker.stale[k] EXCEPT !.how = "superseded"])
    BY <1>6, SupersedeView
  <2> QED BY <1>1, <1>6, <2>1 DEF Supersede
<1>7. CASE Record
  BY <1>1, <1>7, RecordView DEF Record
<1>8. ASSUME NEW r \in Reporters, WriteEvent(r) PROVE OutageIsQueued'
  <2>1. PICK e \in rep[r].events :
          /\ e \in Writes /\ e.key.kind \in Dated
          /\ box' = IF e.key \in DOMAIN box THEN box ELSE Put(e.key, Item(NextStamp, e.news))
    BY <1>8, WriteEventView
  <2>2. e.key \in Keys /\ e.news \in SUBSET Sites /\ e.key.kind # "recovered"
    BY <2>1 DEF Writes, Dated
  <2>3. Item(NextStamp, e.news) \in Items
    BY <2>2, ItemTyped, NextStampIsLate
  <2> QED BY <1>1, <1>8, <2>1, <2>2, <2>3 DEF WriteEvent
<1>9. ASSUME NEW r \in Reporters, WriteState(r) PROVE OutageIsQueued'
  <2>1. PICK e \in rep[r].events : e \in Replaces /\ e.key.kind = "state" /\ box' = Put(e.key, e.item)
    BY <1>9, WriteStateView
  <2>2. e.key \in Keys /\ e.item \in Items
    BY <2>1 DEF Replaces
  <2> QED BY <1>1, <1>9, <2>1, <2>2 DEF WriteState
<1> QED BY <1>3, <1>4, <1>5, <1>6, <1>7, <1>8, <1>9, OutboxActions

(* RecoveryHasOutage for any number of incidents and deaths of the gateway  *)
(* (Gateway-Audit.ps1:95-133).                                              *)
THEOREM RecoveriesHaveOutages == OutboxSpec => []RecoveryHasOutage
<1>1. OutboxInit => OutboxTyped /\ Bounded /\ OutageIsQueued
  <2>1. OutboxInit => OutageIsQueued
    BY EmptyBox DEF OutboxInit, OutageIsQueued
  <2> QED BY <2>1, InitOutboxTyped
<1>2. OutboxTyped /\ Bounded /\ OutageIsQueued /\ [OutboxNext]_outboxVars
        => (OutboxTyped /\ Bounded /\ OutageIsQueued)'
  BY StepOutboxTyped, StepOutageIsQueued
<1>3. OutboxTyped /\ OutageIsQueued => RecoveryHasOutage
  BY DEF OutboxTyped, OutageIsQueued, RecoveryHasOutage
<1> QED BY <1>1, <1>2, <1>3, PTL DEF OutboxSpec

-----------------------------------------------------------------------------
(* Receipts of the day: while one reporter alone is between its reading and *)
(* its writing, it holds every receipt kept for its plan and not denied.    *)

LoneReaderHoldsAll ==
  \A r \in Reporters : rep[r].pc = "read" /\ rep[r].alone =>
    /\ \A q \in Reporters : rep[q].pc = "read" => q = r
    /\ Day(rep[r].now) = Day(clock) /\ scope = rep[r].plan
         => kept \subseteq rep[r].keep \cup world.denied

\* Steps around the readers.
LEMMA ReadersKept ==
  ASSUME LoneReaderHoldsAll, UNCHANGED <<clock, kept, scope>>, world.denied \subseteq world'.denied,
         \A q \in Reporters : rep'[q].pc = "read" => rep'[q] = rep[q]
  PROVE  LoneReaderHoldsAll'
<1> SUFFICES ASSUME NEW r \in Reporters, rep'[r].pc = "read", rep'[r].alone
             PROVE  /\ \A q \in Reporters : rep'[q].pc = "read" => q = r
                    /\ Day(rep'[r].now) = Day(clock') /\ scope' = rep'[r].plan
                         => kept' \subseteq rep'[r].keep \cup world'.denied
  BY DEF LoneReaderHoldsAll
<1>1. rep'[r] = rep[r]
  OBVIOUS
<1>2. rep[r].pc = "read" /\ rep[r].alone
  BY <1>1
<1>3. /\ \A q \in Reporters : rep[q].pc = "read" => q = r
      /\ Day(rep[r].now) = Day(clock) /\ scope = rep[r].plan
           => kept \subseteq rep[r].keep \cup world.denied
  BY <1>2 DEF LoneReaderHoldsAll
<1>4. \A q \in Reporters : rep'[q].pc = "read" => rep[q].pc = "read"
  OBVIOUS
<1>5. Day(clock') = Day(clock) /\ kept' = kept /\ scope' = scope
  OBVIOUS
<1> QED BY <1>1, <1>3, <1>4, <1>5

\* A reporter that writes down its receipts stops reading.
LEMMA PersistKeeps ==
  ASSUME LoneReaderHoldsAll, NEW r \in Reporters, rep[r].pc = "read", Persist(r),
         rep'[r].pc # "read", \A q \in Reporters : q # r => rep'[q] = rep[q],
         UNCHANGED <<clock, world>>
  PROVE  /\ LoneReaderHoldsAll'
         /\ \A s \in kept \ kept' : s \in world.denied \/ scope' # scope \/ ~rep[r].alone
<1>1. /\ kept' \in {kept, rep[r].keep}
      /\ kept' # kept => Day(rep[r].now) = Day(clock) /\ scope' = rep[r].plan
  BY DEF Persist
<1>2. ASSUME rep[r].alone, scope' = scope, NEW s \in kept \ kept' PROVE s \in world.denied
  BY <1>1, <1>2 DEF LoneReaderHoldsAll
<1>3. LoneReaderHoldsAll'
  <2> SUFFICES ASSUME NEW q \in Reporters, rep'[q].pc = "read", rep'[q].alone PROVE FALSE
    BY DEF LoneReaderHoldsAll
  <2>1. q # r /\ rep'[q] = rep[q]
    OBVIOUS
  <2>2. rep[q].pc = "read" /\ rep[q].alone
    BY <2>1
  <2> QED BY <2>1, <2>2 DEF LoneReaderHoldsAll
<1> QED BY <1>2, <1>3

ReceiptStep ==
  \A s \in kept \ kept' :
    \/ s \in world.denied \/ Day(clock') # Day(clock) \/ scope' # scope
    \/ \E r \in Reporters : rep[r].pc = "read" /\ rep'[r].pc # "read" /\ ~rep[r].alone

LEMMA StepReceipts ==
  OutboxTyped /\ Bounded /\ LoneReaderHoldsAll /\ [OutboxNext]_outboxVars
    => LoneReaderHoldsAll' /\ ReceiptStep
<1> SUFFICES ASSUME OutboxTyped, Bounded, LoneReaderHoldsAll, [OutboxNext]_outboxVars
             PROVE  LoneReaderHoldsAll' /\ ReceiptStep
  OBVIOUS
<1>1. CASE kept' = kept /\ LoneReaderHoldsAll'
  BY <1>1 DEF ReceiptStep
<1>2. CASE Tick
  <2>1. CASE Day(clock') = Day(clock)
    <3>1. UNCHANGED <<world, kept, scope, rep>>
      BY <1>2, <2>1 DEF Tick
    <3> QED BY <2>1, <3>1 DEF LoneReaderHoldsAll, ReceiptStep
  <2>2. CASE Day(clock') # Day(clock)
    <3>1. kept' = {} /\ UNCHANGED rep
      BY <1>2, <2>2 DEF Tick
    <3> QED BY <2>2, <3>1 DEF LoneReaderHoldsAll, ReceiptStep
  <2> QED BY <2>1, <2>2
<1>3. CASE Change
  <2>1. world \in Worlds
    BY DEF OutboxTyped
  <2>2. \/ \E P \in SUBSET Sites : world' = [world EXCEPT !.problems = P, !.final = TRUE]
        \/ \E P \in SUBSET Sites, p \in Plans :
              world' = [world EXCEPT !.problems = P, !.final = TRUE, !.plan = p, !.signed = {}]
        \/ world' = [world EXCEPT !.failed = TRUE]
        \/ \E s \in Sites :
              \/ world' = [world EXCEPT !.signed = @ \union {s}]
              \/ world' = [world EXCEPT !.signed = @ \ {s}]
              \/ world' = [world EXCEPT !.signed = @ \ {s}, !.denied = @ \union {s}]
    BY <1>3 DEF Change
  <2>3. world.denied \subseteq world'.denied
    BY <2>1, <2>2 DEF Worlds
  <2>4. UNCHANGED <<clock, kept, scope, rep>>
    BY <1>3 DEF Change
  <2> QED BY <1>1, <2>3, <2>4, ReadersKept
<1>4. CASE ReporterDies
  <2>1. PICK r \in Reporters : rep' = [rep EXCEPT ![r] = Quiet]
    BY <1>4 DEF ReporterDies
  <2>2. rep'[r].pc = "off" /\ \A q \in Reporters : q # r => rep'[q] = rep[q]
    BY <2>1, Moved, QuietTyped DEF OutboxTyped
  <2>3. UNCHANGED <<clock, kept, scope, world>>
    BY <1>4 DEF ReporterDies
  <2> QED BY <1>1, <2>2, <2>3, ReadersKept
<1>5. CASE \/ ProbeFails \/ ProbeSucceeds \/ Scan \/ Supersede \/ Record \/ UNCHANGED outboxVars
           \/ \E k \in DOMAIN worker.due, answer \in {"ok", "lost", "refused"} : Send(k, answer)
  <2>1. UNCHANGED <<clock, kept, scope, world, rep>>
    BY <1>5 DEF ProbeFails, ProbeSucceeds, Scan, Supersede, Record, Send, outboxVars
  <2> QED BY <1>1, <2>1, ReadersKept
<1>6. ASSUME NEW r \in Reporters, ListEvents(r) PROVE LoneReaderHoldsAll' /\ ReceiptStep
  <2>1. rep[r].pc = "read" /\ Persist(r) /\ UNCHANGED <<clock, world>>
    BY <1>6 DEF ListEvents
  <2>2. rep'[r].pc # "read" /\ \A q \in Reporters : q # r => rep'[q] = rep[q]
    BY <1>6, ListEventsView
  <2> QED BY <2>1, <2>2, PersistKeeps DEF ReceiptStep
<1>7. ASSUME NEW r \in Reporters, ReadState(r) PROVE LoneReaderHoldsAll' /\ ReceiptStep
  <2>1. rep[r].pc = "read" /\ Persist(r) /\ UNCHANGED <<clock, world>>
    BY <1>7 DEF ReadState
  <2>2. rep'[r].pc # "read" /\ \A q \in Reporters : q # r => rep'[q] = rep[q]
    BY <1>7, ReadStateView
  <2> QED BY <2>1, <2>2, PersistKeeps DEF ReceiptStep
<1>8. ASSUME NEW r \in Reporters, WriteEvent(r) \/ WriteState(r) PROVE LoneReaderHoldsAll' /\ ReceiptStep
  <2>1. UNCHANGED <<clock, world, kept, scope>>
    BY <1>8 DEF WriteEvent, WriteState
  <2>2. rep'[r].pc # "read" /\ \A q \in Reporters : q # r => rep'[q] = rep[q]
    BY <1>8, WriteEventView, WriteStateView
  <2> QED BY <1>1, <2>1, <2>2, ReadersKept
<1>9. ASSUME NEW r \in Reporters, NEW up \in BOOLEAN, Reconcile(r, up) PROVE LoneReaderHoldsAll' /\ ReceiptStep
  <2>1. UNCHANGED <<clock, world, kept, scope>>
    BY <1>9 DEF Reconcile
  <2>2. /\ rep'[r].keep = Retained(up) /\ rep'[r].plan = world.plan
        /\ rep'[r].alone = (\A o \in Reporters : rep[o].pc # "read")
        /\ \A q \in Reporters : q # r =>
             /\ rep'[q].pc = rep[q].pc
             /\ rep'[q].alone = (rep[q].pc # "read")
    BY <1>9, ReconcileView
  <2>3. scope = world.plan => kept \subseteq Retained(up) \cup world.denied
    BY DEF Retained
  <2>4. LoneReaderHoldsAll'
    <3> SUFFICES ASSUME NEW p \in Reporters, rep'[p].pc = "read", rep'[p].alone
                 PROVE  /\ \A q \in Reporters : rep'[q].pc = "read" => q = p
                        /\ scope' = rep'[p].plan => kept' \subseteq rep'[p].keep \cup world'.denied
      BY DEF LoneReaderHoldsAll
    <3>1. p = r
      BY <2>2
    <3>2. \A o \in Reporters : rep[o].pc # "read"
      BY <2>2, <3>1
    <3>3. \A q \in Reporters : rep'[q].pc = "read" => q = p
      BY <2>2, <3>1, <3>2
    <3> QED BY <2>1, <2>2, <2>3, <3>1, <3>3
  <2> QED BY <1>1, <2>1, <2>4
<1> QED BY <1>2, <1>3, <1>4, <1>5, <1>6, <1>7, <1>8, <1>9, OutboxActions

(* ReceiptsOutlastOutages for any number of reporters and plans             *)
(* (notification-reconciliation.mjs:119-183).                               *)
THEOREM ReceiptsAreKept == OutboxSpec => ReceiptsOutlastOutages
<1>1. OutboxInit => OutboxTyped /\ Bounded /\ LoneReaderHoldsAll
  <2>1. OutboxInit => LoneReaderHoldsAll
    BY QuietTyped DEF OutboxInit, LoneReaderHoldsAll
  <2> QED BY <2>1, InitOutboxTyped
<1>2. OutboxTyped /\ Bounded /\ LoneReaderHoldsAll /\ [OutboxNext]_outboxVars
        => (OutboxTyped /\ Bounded /\ LoneReaderHoldsAll)'
  BY StepOutboxTyped, StepReceipts
<1>3. OutboxTyped /\ Bounded /\ LoneReaderHoldsAll /\ [OutboxNext]_outboxVars => [ReceiptStep]_outboxVars
  BY StepReceipts
<1>4. OutboxSpec => [][ReceiptStep]_outboxVars
  BY <1>1, <1>2, <1>3, PTL DEF OutboxSpec
<1> QED BY <1>4 DEF ReceiptsOutlastOutages, ReceiptStep

-----------------------------------------------------------------------------
(* States are told in order.  Until two reporters create one state's item   *)
(* at once, a stamp belongs to one key, what is overtaken has a newer item  *)
(* of its scope in the outbox, and the worker's copies carry the stamps of  *)
(* the items they are copies of.                                            *)

Topped(k, created) == \E m \in DOMAIN box : Scope(m) = Scope(k) /\ created < box[m].created

StampsAreUnique == \A j, k \in DOMAIN box : box[j].created = box[k].created => j = k

\* What reporters are about to write back.
ReplacesAreUnique ==
  \A r \in Reporters : rep[r].pc = "replace" =>
    \A e \in rep[r].events :
      /\ \A k \in DOMAIN box : box[k].created = e.item.created => k = e.key
      /\ \A q \in Reporters : rep[q].pc = "replace" =>
           \A f \in rep[q].events : f.item.created = e.item.created => f.key = e.key
      /\ e.item.how = "superseded" => Topped(e.key, e.item.created)

SupersededIsTopped ==
  \A k \in DOMAIN box : box[k].how = "superseded" => Topped(k, box[k].created)

CopiesKeepStamps ==
  /\ \A k \in DOMAIN worker.stale :
       worker.stale[k].created = box[k].created /\ Topped(k, box[k].created)
  /\ \A k \in DOMAIN worker.due :
       worker.due[k].created = box[k].created /\ worker.due[k].how # "superseded"

\* What the worker is about to tell is newer than all that was told of its scope.
DueIsNewest ==
  worker.sent = {} =>
    \A k \in DOMAIN worker.due : \A j \in told :
      j # k /\ Scope(j) = Scope(k) => box[j].created < worker.due[k].created

InOrder == StampsAreUnique /\ ReplacesAreUnique /\ SupersededIsTopped /\ CopiesKeepStamps /\ DueIsNewest

LEMMA ToppedStays ==
  ASSUME DOMAIN box \subseteq DOMAIN box',
         \A k \in DOMAIN box : box'[k].created = box[k].created
  PROVE  \A k, c : Topped(k, c) => Topped(k, c)'
  BY DEF Topped

\* Steps that write no item and change neither copies nor what was told.
LEMMA NothingWrittenInOrder ==
  ASSUME InOrder, UNCHANGED <<box, told, worker>>,
         \A q \in Reporters : rep'[q].pc = "replace" => rep'[q] = rep[q]
  PROVE  InOrder'
<1>1. \A k, c : Topped(k, c) => Topped(k, c)'
  BY ToppedStays
<1>2. StampsAreUnique' /\ SupersededIsTopped' /\ CopiesKeepStamps' /\ DueIsNewest'
  BY <1>1 DEF InOrder, StampsAreUnique, SupersededIsTopped, CopiesKeepStamps, DueIsNewest
<1>3. ReplacesAreUnique'
  <2> SUFFICES ASSUME NEW r \in Reporters, rep'[r].pc = "replace", NEW e \in rep'[r].events
               PROVE  /\ \A k \in DOMAIN box' : box'[k].created = e.item.created => k = e.key
                      /\ \A q \in Reporters : rep'[q].pc = "replace" =>
                           \A f \in rep'[q].events : f.item.created = e.item.created => f.key = e.key
                      /\ e.item.how = "superseded" => Topped(e.key, e.item.created)'
    BY DEF ReplacesAreUnique
  <2>1. rep[r].pc = "replace" /\ e \in rep[r].events
    OBVIOUS
  <2>2. /\ \A k \in DOMAIN box : box[k].created = e.item.created => k = e.key
        /\ \A q \in Reporters : rep[q].pc = "replace" =>
             \A f \in rep[q].events : f.item.created = e.item.created => f.key = e.key
        /\ e.item.how = "superseded" => Topped(e.key, e.item.created)
    BY <2>1 DEF InOrder, ReplacesAreUnique
  <2> QED BY <1>1, <2>2
<1> QED BY <1>2, <1>3 DEF InOrder

\* Steps that write one item, under its own stamp or under a new one.
LEMMA OneItemInOrder ==
  ASSUME OutboxTyped, InOrder, NEW k \in Keys, NEW i \in Items, box' = Put(k, i),
         k \in DOMAIN box => box[k].created = i.created,
         \A j \in DOMAIN box : box[j].created = i.created => j = k,
         \A q \in Reporters : rep[q].pc = "replace" =>
            \A f \in rep[q].events : f.item.created = i.created => f.key = k,
         i.how = "superseded" => Topped(k, i.created),
         \A q \in Reporters : rep'[q].pc = "replace" => rep'[q] = rep[q],
         UNCHANGED told,
         DOMAIN worker'.stale \subseteq DOMAIN worker.stale,
         \A j \in DOMAIN worker'.stale : worker'.stale[j] = worker.stale[j],
         DOMAIN worker'.due \subseteq DOMAIN worker.due,
         \A j \in DOMAIN worker'.due : worker'.due[j] = worker.due[j],
         worker'.sent = worker.sent \/ DOMAIN worker'.due = {}
  PROVE  InOrder'
<1>1. /\ DOMAIN box' = DOMAIN box \cup {k} /\ box'[k] = i
      /\ \A j \in DOMAIN box : j # k => box'[j] = box[j]
  <2>1. box \in Boxes
    BY DEF OutboxTyped
  <2>2. /\ Put(k, i) \in Boxes /\ DOMAIN Put(k, i) = DOMAIN box \cup {k} /\ Put(k, i)[k] = i
        /\ \A j \in DOMAIN box : j # k => Put(k, i)[j] = box[j]
    BY <2>1, PutBox
  <2> QED BY <2>2
<1>2. \A j \in DOMAIN box : box'[j].created = box[j].created
  BY <1>1
<1>3. \A j, c : Topped(j, c) => Topped(j, c)'
  BY <1>1, <1>2, ToppedStays
<1>4. StampsAreUnique'
  BY <1>1, <1>2 DEF InOrder, StampsAreUnique
<1>5. ReplacesAreUnique'
  <2> SUFFICES ASSUME NEW r \in Reporters, rep'[r].pc = "replace", NEW e \in rep'[r].events
               PROVE  /\ \A j \in DOMAIN box' : box'[j].created = e.item.created => j = e.key
                      /\ \A q \in Reporters : rep'[q].pc = "replace" =>
                           \A f \in rep'[q].events : f.item.created = e.item.created => f.key = e.key
                      /\ e.item.how = "superseded" => Topped(e.key, e.item.created)'
    BY DEF ReplacesAreUnique
  <2>1. rep[r].pc = "replace" /\ e \in rep[r].events
    OBVIOUS
  <2>2. /\ \A j \in DOMAIN box : box[j].created = e.item.created => j = e.key
        /\ \A q \in Reporters : rep[q].pc = "replace" =>
             \A f \in rep[q].events : f.item.created = e.item.created => f.key = e.key
        /\ e.item.how = "superseded" => Topped(e.key, e.item.created)
    BY <2>1 DEF InOrder, ReplacesAreUnique
  <2>3. i.created = e.item.created => k = e.key
    BY <2>1
  <2>4. \A j \in DOMAIN box' : box'[j].created = e.item.created => j = e.key
    BY <1>1, <1>2, <2>2, <2>3
  <2> QED BY <1>3, <2>2, <2>4
<1>6. SupersededIsTopped'
  <2> SUFFICES ASSUME NEW j \in DOMAIN box', box'[j].how = "superseded" PROVE Topped(j, box[j].created)'
    BY DEF SupersededIsTopped
  <2>1. CASE j = k
    BY <1>1, <1>3, <2>1
  <2>2. CASE j # k
    BY <1>1, <1>2, <1>3, <2>2 DEF InOrder, SupersededIsTopped
  <2> QED BY <2>1, <2>2
<1>7. CopiesKeepStamps'
  <2>1. \A j \in DOMAIN worker.stale \cup DOMAIN worker.due : j \in DOMAIN box
    BY DEF OutboxTyped, CopiesAreOfTheBox
  <2> QED BY <1>2, <1>3, <2>1 DEF InOrder, CopiesKeepStamps
<1>8. DueIsNewest'
  <2>1. \A j \in told : j \in DOMAIN box
    BY DEF OutboxTyped
  <2> QED BY <1>2, <2>1 DEF InOrder, DueIsNewest
<1> QED BY <1>4, <1>5, <1>6, <1>7, <1>8 DEF InOrder

\* A new item has a stamp of its own.
LEMMA NewItemInOrder ==
  ASSUME OutboxTyped, Bounded, InOrder, NEW k \in Keys, k \notin DOMAIN box,
         NEW news \in SUBSET Sites, box' = Put(k, Item(NextStamp, news)),
         \A q \in Reporters : rep'[q].pc = "replace" => rep'[q] = rep[q],
         UNCHANGED <<told, worker>>
  PROVE  InOrder'
<1> DEFINE i == Item(NextStamp, news)
<1>1. /\ NextStamp \in Nat
      /\ \A j \in DOMAIN box : box[j].created < NextStamp
      /\ \A r \in Reporters : rep[r].pc = "replace" =>
           \A e \in rep[r].events : e.item.created < NextStamp
  BY NextStampIsLate
<1>2. i \in Items /\ i.created = NextStamp /\ i.how = "pending" /\ box' = Put(k, i)
  BY <1>1, ItemTyped
<1> HIDE DEF i
<1>3. \A j \in DOMAIN box : box[j].created # i.created
  BY <1>1, <1>2
<1>4. \A q \in Reporters : rep[q].pc = "replace" => \A f \in rep[q].events : f.item.created # i.created
  BY <1>1, <1>2
<1> QED BY <1>2, <1>3, <1>4, OneItemInOrder

LEMMA WriteEventInOrder ==
  ASSUME OutboxTyped, Bounded, InOrder, NEW r \in Reporters, WriteEvent(r) PROVE InOrder'
<1>1. PICK e \in rep[r].events :
         /\ e \in Writes
         /\ box' = IF e.key \in DOMAIN box THEN box ELSE Put(e.key, Item(NextStamp, e.news))
         /\ rep'[r].pc \in {"off", "write"}
  BY WriteEventView
<1>2. e.key \in Keys /\ e.news \in SUBSET Sites
  BY <1>1 DEF Writes
<1>3. \A q \in Reporters : rep'[q].pc = "replace" => rep'[q] = rep[q]
  BY <1>1, WriteEventView
<1>4. UNCHANGED <<told, worker>>
  BY DEF WriteEvent
<1>5. CASE e.key \in DOMAIN box
  BY <1>1, <1>3, <1>4, <1>5, NothingWrittenInOrder
<1>6. CASE e.key \notin DOMAIN box
  BY <1>1, <1>2, <1>3, <1>4, <1>6, NewItemInOrder
<1> QED BY <1>5, <1>6

LEMMA NoticeInOrder ==
  ASSUME OutboxTyped, Bounded, InOrder, NEW kind \in {"blocked", "recovered"},
         box' \in {box, AddNotice(kind)}, UNCHANGED <<rep, told, worker>>
  PROVE  InOrder'
<1>1. CASE box' = box
  BY <1>1, NothingWrittenInOrder
<1>2. CASE box' # box
  <2>1. /\ Notice(kind) \in Keys /\ Notice(kind) \notin DOMAIN box
        /\ box' = Put(Notice(kind), Item(NextStamp, {}))
    BY <1>2, NoticeIsNew DEF Kinds, Dated
  <2> QED BY <2>1, NewItemInOrder
<1> QED BY <1>1, <1>2

LEMMA ReadStateInOrder ==
  ASSUME OutboxTyped, Bounded, InOrder, NEW r \in Reporters, ReadState(r) PROVE InOrder'
<1>1. UNCHANGED <<box, told, worker>>
  BY DEF ReadState
<1>2. \A q \in Reporters : q # r => rep'[q] = rep[q]
  BY ReadStateView
<1>3. CASE rep'[r].pc = "off"
  BY <1>1, <1>2, <1>3, NothingWrittenInOrder
<1>4. CASE rep'[r].pc # "off"
  <2>1. PICK k \in Keys, i \in Items :
          /\ rep'[r].events = {[key |-> k, item |-> i]}
          /\ \/ k \in DOMAIN box /\ i = box[k]
             \/ k \notin DOMAIN box /\ i = Item(NextStamp, {})
    BY <1>4, ReadStateView
  <2>2. \A k2, c : Topped(k2, c) => Topped(k2, c)'
    BY <1>1, ToppedStays
  <2>3. StampsAreUnique' /\ SupersededIsTopped' /\ CopiesKeepStamps' /\ DueIsNewest'
    BY <1>1, <2>2 DEF InOrder, StampsAreUnique, SupersededIsTopped, CopiesKeepStamps, DueIsNewest
  <2>4. /\ NextStamp \in Nat
        /\ \A j \in DOMAIN box : box[j].created < NextStamp
        /\ \A q \in Reporters : rep[q].pc = "replace" =>
             \A e \in rep[q].events : e.item.created < NextStamp
    BY NextStampIsLate
  <2>5. Item(NextStamp, {}).created = NextStamp /\ Item(NextStamp, {}).how = "pending"
    BY <2>4, ItemTyped
  <2>6. \A j \in DOMAIN box : box[j].created = i.created => j = k
    BY <2>1, <2>4, <2>5 DEF InOrder, StampsAreUnique
  <2>7. \A q \in Reporters : rep[q].pc = "replace" =>
          \A f \in rep[q].events : f.item.created = i.created => f.key = k
    <3>1. CASE k \in DOMAIN box /\ i = box[k]
      BY <3>1 DEF InOrder, ReplacesAreUnique
    <3>2. CASE i = Item(NextStamp, {})
      BY <2>4, <2>5, <3>2
    <3> QED BY <2>1, <3>1, <3>2
  <2>8. i.how = "superseded" => Topped(k, i.created)
    BY <2>1, <2>5 DEF InOrder, SupersededIsTopped
  <2>9. \A f \in rep'[r].events : f.key = k /\ f.item = i
    BY <2>1
  <2>10. ReplacesAreUnique'
    <3> SUFFICES ASSUME NEW p \in Reporters, rep'[p].pc = "replace", NEW e \in rep'[p].events
                 PROVE  /\ \A j \in DOMAIN box' : box'[j].created = e.item.created => j = e.key
                        /\ \A q \in Reporters : rep'[q].pc = "replace" =>
                             \A f \in rep'[q].events : f.item.created = e.item.created => f.key = e.key
                        /\ e.item.how = "superseded" => Topped(e.key, e.item.created)'
      BY DEF ReplacesAreUnique
    <3>1. CASE p = r
      <4>1. e.key = k /\ e.item = i
        BY <2>9, <3>1
      <4>2. ASSUME NEW q \in Reporters, rep'[q].pc = "replace", NEW f \in rep'[q].events,
                   f.item.created = e.item.created
            PROVE  f.key = e.key
        <5>1. CASE q = r
          BY <2>9, <4>1, <5>1
        <5>2. CASE q # r
          BY <1>2, <2>7, <4>1, <4>2, <5>2
        <5> QED BY <5>1, <5>2
      <4> QED BY <1>1, <2>2, <2>6, <2>8, <4>1, <4>2
    <3>2. CASE p # r
      <4>1. rep[p].pc = "replace" /\ e \in rep[p].events
        BY <1>2, <3>2
      <4>2. /\ \A j \in DOMAIN box : box[j].created = e.item.created => j = e.key
            /\ \A q \in Reporters : rep[q].pc = "replace" =>
                 \A f \in rep[q].events : f.item.created = e.item.created => f.key = e.key
            /\ e.item.how = "superseded" => Topped(e.key, e.item.created)
        BY <4>1 DEF InOrder, ReplacesAreUnique
      <4>3. ASSUME NEW q \in Reporters, rep'[q].pc = "replace", NEW f \in rep'[q].events,
                   f.item.created = e.item.created
            PROVE  f.key = e.key
        <5>1. CASE q = r
          BY <2>7, <2>9, <4>1, <4>3, <5>1
        <5>2. CASE q # r
          BY <1>2, <4>2, <4>3, <5>2
        <5> QED BY <5>1, <5>2
      <4> QED BY <1>1, <2>2, <4>2, <4>3
    <3> QED BY <3>1, <3>2
  <2> QED BY <2>3, <2>10 DEF InOrder
<1> QED BY <1>3, <1>4

LEMMA WriteStateInOrder ==
  ASSUME OutboxTyped, Bounded, InOrder, ~doubled, ~doubled', NEW r \in Reporters, WriteState(r)
  PROVE  InOrder'
<1>1. PICK e \in rep[r].events :
        /\ e \in Replaces /\ box' = Put(e.key, e.item)
        /\ doubled' = (doubled \/ (e.key \in DOMAIN box /\ box[e.key].created # e.item.created))
  BY WriteStateView
<1>2. e.key \in Keys /\ e.item \in Items
  BY <1>1 DEF Replaces
<1>3. /\ rep[r].pc = "replace" /\ rep'[r].pc = "off" /\ \A q \in Reporters : q # r => rep'[q] = rep[q]
      /\ UNCHANGED <<told, worker>>
  BY WriteStateView DEF WriteState
<1>4. /\ \A k \in DOMAIN box : box[k].created = e.item.created => k = e.key
      /\ \A q \in Reporters : rep[q].pc = "replace" =>
           \A f \in rep[q].events : f.item.created = e.item.created => f.key = e.key
      /\ e.item.how = "superseded" => Topped(e.key, e.item.created)
  BY <1>3 DEF InOrder, ReplacesAreUnique
<1>5. e.key \in DOMAIN box => box[e.key].created = e.item.created
  BY <1>1
<1> QED BY <1>1, <1>2, <1>3, <1>4, <1>5, OneItemInOrder

LEMMA SupersedeInOrder == ASSUME OutboxTyped, Bounded, InOrder, Supersede PROVE InOrder'
<1>1. PICK k \in DOMAIN worker.stale :
           /\ k \in DOMAIN box /\ k \in Keys
           /\ [worker.stale[k] EXCEPT !.how = "superseded"] \in Items
           /\ [worker.stale[k] EXCEPT !.how = "superseded"].created = worker.stale[k].created
           /\ box' = Put(k, [worker.stale[k] EXCEPT !.how = "superseded"])
           /\ \/ worker' = Asleep
              \/ /\ worker'.due = worker.due /\ worker'.sent = worker.sent
                 /\ DOMAIN worker'.stale \subseteq DOMAIN worker.stale
                 /\ \A j \in DOMAIN worker'.stale : worker'.stale[j] = worker.stale[j]
  BY SupersedeView
<1> DEFINE i == [worker.stale[k] EXCEPT !.how = "superseded"]
<1>2. i \in Items /\ i.created = worker.stale[k].created /\ box' = Put(k, i)
  BY <1>1
<1> HIDE DEF i
<1>3. i.created = box[k].created /\ Topped(k, i.created)
  BY <1>2 DEF InOrder, CopiesKeepStamps
<1>4. /\ \A j \in DOMAIN box : box[j].created = i.created => j = k
      /\ \A q \in Reporters : rep[q].pc = "replace" =>
           \A f \in rep[q].events : f.item.created = i.created => f.key = k
  BY <1>1, <1>3 DEF InOrder, StampsAreUnique, ReplacesAreUnique
<1>5. /\ DOMAIN worker'.stale \subseteq DOMAIN worker.stale
      /\ \A j \in DOMAIN worker'.stale : worker'.stale[j] = worker.stale[j]
      /\ DOMAIN worker'.due \subseteq DOMAIN worker.due
      /\ \A j \in DOMAIN worker'.due : worker'.due[j] = worker.due[j]
      /\ worker'.sent = worker.sent \/ DOMAIN worker'.due = {}
  BY <1>1, AsleepTyped
<1>6. UNCHANGED <<rep, told>>
  BY DEF Supersede
<1> QED BY <1>1, <1>2, <1>3, <1>4, <1>5, <1>6, OneItemInOrder

LEMMA RecordInOrder == ASSUME OutboxTyped, Bounded, InOrder, Record PROVE InOrder'
<1>1. PICK k \in DOMAIN worker.due, i \in Items :
        /\ k \in DOMAIN box /\ k \in Keys
        /\ i.created = worker.due[k].created /\ i.how \in {"told", worker.due[k].how}
        /\ box' = Put(k, i)
  BY RecordView
<1>2. i.created = box[k].created /\ i.how # "superseded"
  BY <1>1 DEF InOrder, CopiesKeepStamps
<1>3. /\ \A j \in DOMAIN box : box[j].created = i.created => j = k
      /\ \A q \in Reporters : rep[q].pc = "replace" =>
           \A f \in rep[q].events : f.item.created = i.created => f.key = k
  BY <1>1, <1>2 DEF InOrder, StampsAreUnique, ReplacesAreUnique
<1>4. DOMAIN worker'.stale = {} /\ DOMAIN worker'.due = {} /\ UNCHANGED <<rep, told>>
  BY RecordView, AsleepTyped DEF Record
<1> QED BY <1>1, <1>2, <1>3, <1>4, OneItemInOrder

\* Keys of one scope are of one kind.
LEMMA ScopeHasKind ==
  ASSUME NEW j \in Keys, NEW k \in Keys, Scope(j) = Scope(k) PROVE j.kind = k.kind
<1>1. ASSUME NEW x \in Keys PROVE Scope(x).kind = x.kind
  BY DEF Scope, Keys
<1> QED BY <1>1

\* The newest item the worker may deliver is the newest of its scope.
LEMMA NewestIsReadable ==
  ASSUME OutboxTyped, Bounded, SupersededIsTopped, NEW k \in Readable,
         \A j \in Readable : Scope(j) = Scope(k) => box[j].created <= box[k].created
  PROVE  \A j \in DOMAIN box : Scope(j) = Scope(k) => box[j].created <= box[k].created
<1> DEFINE M == {m \in DOMAIN box : Scope(m) = Scope(k)}
           S == {box[m].created : m \in M}
<1>1. PICK n \in Nat : BoundedBy(n)
  BY DEF Bounded
<1> USE DEF BoundedBy
<1>2. \A j \in DOMAIN box : box[j].created \in Nat /\ j \in Keys
  <2>1. DOMAIN box \subseteq Keys /\ box \in [DOMAIN box -> Items]
    BY BoxOf DEF OutboxTyped
  <2> QED BY <2>1 DEF Items
<1>3. S # {} /\ \A x \in S : x \in Nat /\ x <= n
  BY <1>1, <1>2 DEF Readable
<1> DEFINE top == Max(S)
<1>4. top \in S /\ \A x \in S : x <= top
  <2> HIDE DEF S
  <2> QED BY <1>3, MaxOfBounded
<1> HIDE DEF top
<1>5. PICK m \in M : box[m].created = top
  BY <1>4
<1>6. box[m].how # "superseded"
  <2> SUFFICES ASSUME box[m].how = "superseded" PROVE FALSE
    OBVIOUS
  <2>1. PICK o \in DOMAIN box : Scope(o) = Scope(m) /\ box[m].created < box[o].created
    BY DEF SupersededIsTopped, Topped
  <2>2. box[o].created \in S
    BY <2>1
  <2>3. box[o].created <= top
    BY <1>4, <2>2
  <2> QED BY <1>2, <1>5, <2>1, <2>3
<1>7. m.kind = k.kind
  BY <1>2, ScopeHasKind DEF Readable
<1>8. m \in Readable
  BY <1>6, <1>7 DEF Readable
<1>9. top <= box[k].created
  BY <1>5, <1>8
<1>10. ASSUME NEW j \in DOMAIN box, Scope(j) = Scope(k) PROVE box[j].created <= box[k].created
  <2>1. box[j].created \in S
    BY <1>10
  <2>2. box[j].created <= top /\ top \in Nat /\ box[k].created \in Nat /\ box[j].created \in Nat
    BY <1>2, <1>3, <1>4, <2>1 DEF Readable
  <2> QED BY <1>9, <2>2
<1> QED BY <1>10

LEMMA ScanInOrder == ASSUME OutboxTyped, Bounded, InOrder, Scan PROVE InOrder'
<1>1. UNCHANGED <<box, told, rep>>
  BY DEF Scan
<1>2. /\ worker'.sent = {}
      /\ DOMAIN worker'.stale \subseteq Unsent /\ DOMAIN worker'.due \subseteq Unsent
      /\ \A k \in DOMAIN worker'.stale :
              /\ worker'.stale[k] = box[k]
              /\ \E j \in Readable : Scope(j) = Scope(k) /\ ~(box[j].created <= box[k].created)
      /\ \A k \in DOMAIN worker'.due :
              /\ worker'.due[k] = box[k]
              /\ \A j \in Readable : Scope(j) = Scope(k) => box[j].created <= box[k].created
  BY ScanView
<1>3. \A k, c : Topped(k, c) => Topped(k, c)'
  BY <1>1, ToppedStays
<1>4. \A j \in DOMAIN box : box[j].created \in Nat
  <2>1. box \in [DOMAIN box -> Items]
    BY BoxOf DEF OutboxTyped
  <2> QED BY <2>1 DEF Items
<1>5. StampsAreUnique' /\ SupersededIsTopped'
  BY <1>1, <1>3 DEF InOrder, StampsAreUnique, SupersededIsTopped
<1>6. ReplacesAreUnique'
  BY <1>1, <1>3 DEF InOrder, ReplacesAreUnique
<1>7. CopiesKeepStamps'
  <2>1. ASSUME NEW k \in DOMAIN worker'.stale PROVE worker'.stale[k] = box[k] /\ Topped(k, box[k].created)
    <3>1. PICK j \in Readable : Scope(j) = Scope(k) /\ ~(box[j].created <= box[k].created)
      BY <1>2
    <3>2. j \in DOMAIN box /\ k \in DOMAIN box
      BY <1>2 DEF Unsent, Readable
    <3>3. box[k].created < box[j].created
      BY <1>4, <3>1, <3>2
    <3> QED BY <1>2, <3>1, <3>2, <3>3 DEF Topped
  <2>2. \A k \in DOMAIN worker'.due : worker'.due[k] = box[k] /\ box[k].how # "superseded"
    BY <1>2 DEF Unsent
  <2> QED BY <1>1, <1>3, <2>1, <2>2 DEF CopiesKeepStamps
<1>8. DueIsNewest'
  <2> SUFFICES ASSUME NEW k \in DOMAIN worker'.due, NEW j \in told', j # k, Scope(j) = Scope(k)
               PROVE  box'[j].created < worker'.due[k].created
    BY DEF DueIsNewest
  <2>1. k \in Readable /\ k \in DOMAIN box /\ worker'.due[k] = box[k]
    BY <1>2 DEF Unsent, Readable
  <2>2. \A x \in DOMAIN box : Scope(x) = Scope(k) => box[x].created <= box[k].created
    BY <1>2, <2>1, NewestIsReadable DEF InOrder
  <2>3. j \in DOMAIN box
    BY <1>1 DEF OutboxTyped
  <2>4. box[j].created <= box[k].created /\ box[j].created # box[k].created
    BY <2>1, <2>2, <2>3 DEF InOrder, StampsAreUnique
  <2> QED BY <1>1, <1>4, <2>1, <2>3, <2>4
<1> QED BY <1>5, <1>6, <1>7, <1>8 DEF InOrder

LEMMA SendInOrder ==
  ASSUME OutboxTyped, Bounded, InOrder, NEW k \in DOMAIN worker.due, NEW answer, Send(k, answer)
  PROVE  InOrder'
<1>1. UNCHANGED <<box, rep>> /\ worker'.sent = {k} /\ worker'.stale = worker.stale /\ worker'.due = worker.due
  BY SendView DEF Send
<1>2. \A j, c : Topped(j, c) => Topped(j, c)'
  BY <1>1, ToppedStays
<1>3. StampsAreUnique' /\ SupersededIsTopped' /\ CopiesKeepStamps' /\ DueIsNewest'
  BY <1>1, <1>2 DEF InOrder, StampsAreUnique, SupersededIsTopped, CopiesKeepStamps, DueIsNewest
<1>4. ReplacesAreUnique'
  BY <1>1, <1>2 DEF InOrder, ReplacesAreUnique
<1> QED BY <1>3, <1>4 DEF InOrder

LEMMA StepInOrder ==
  OutboxTyped /\ Bounded /\ (~doubled => InOrder) /\ [OutboxNext]_outboxVars => (~doubled => InOrder)'
<1> SUFFICES ASSUME OutboxTyped, Bounded, ~doubled => InOrder, [OutboxNext]_outboxVars, ~doubled'
             PROVE  InOrder'
  OBVIOUS
<1>1. ~doubled
  <2>1. ASSUME NEW r \in Reporters, WriteState(r) PROVE ~doubled
    BY <2>1, WriteStateView
  <2>2. CASE UNCHANGED doubled
    BY <2>2
  <2>3. \/ UNCHANGED doubled
        \/ \E r \in Reporters : WriteState(r)
    BY OutboxActions DEF Tick, Change, ReporterDies, ProbeFails, ProbeSucceeds, Scan, Supersede, Record,
       ListEvents, WriteEvent, ReadState, Reconcile, Send, outboxVars
  <2> QED BY <2>1, <2>2, <2>3
<1>2. InOrder
  BY <1>1
<1>3. CASE Tick \/ Change \/ UNCHANGED outboxVars
  <2>1. UNCHANGED <<box, told, worker, rep>>
    BY <1>3 DEF Tick, Change, outboxVars
  <2> QED BY <1>2, <2>1, NothingWrittenInOrder
<1>4. CASE ReporterDies
  <2>1. PICK r \in Reporters : rep' = [rep EXCEPT ![r] = Quiet]
    BY <1>4 DEF ReporterDies
  <2>2. rep'[r].pc = "off" /\ \A q \in Reporters : q # r => rep'[q] = rep[q]
    BY <2>1, Moved, QuietTyped DEF OutboxTyped
  <2>3. UNCHANGED <<box, told, worker>>
    BY <1>4 DEF ReporterDies
  <2> QED BY <1>2, <2>2, <2>3, NothingWrittenInOrder
<1>5. CASE ProbeFails
  BY <1>2, <1>5, ProbeFailsView, NoticeInOrder DEF ProbeFails
<1>6. CASE ProbeSucceeds
  BY <1>2, <1>6, ProbeSucceedsView, NoticeInOrder DEF ProbeSucceeds
<1>7. ASSUME NEW r \in Reporters, ListEvents(r) PROVE InOrder'
  <2>1. rep'[r].pc # "replace" /\ \A q \in Reporters : q # r => rep'[q] = rep[q]
    BY <1>7, ListEventsView
  <2>2. UNCHANGED <<box, told, worker>>
    BY <1>7 DEF ListEvents
  <2> QED BY <1>2, <2>1, <2>2, NothingWrittenInOrder
<1>8. ASSUME NEW r \in Reporters, NEW up \in BOOLEAN, Reconcile(r, up) PROVE InOrder'
  <2>1. UNCHANGED <<box, told, worker>>
    BY <1>8 DEF Reconcile
  <2>2. \A q \in Reporters : rep'[q].pc = "replace" => rep[q].pc = "replace" /\ rep'[q].events = rep[q].events
    BY <1>8, ReconcileView
  <2>3. \A k, c : Topped(k, c) => Topped(k, c)'
    BY <2>1, ToppedStays
  <2>4. StampsAreUnique' /\ SupersededIsTopped' /\ CopiesKeepStamps' /\ DueIsNewest'
    BY <1>2, <2>1, <2>3 DEF InOrder, StampsAreUnique, SupersededIsTopped, CopiesKeepStamps, DueIsNewest
  <2>5. ReplacesAreUnique'
    BY <1>2, <2>1, <2>2, <2>3 DEF InOrder, ReplacesAreUnique
  <2> QED BY <2>4, <2>5 DEF InOrder
<1> QED BY <1>1, <1>2, <1>3, <1>4, <1>5, <1>6, <1>7, <1>8, OutboxActions, WriteEventInOrder, ReadStateInOrder,
       WriteStateInOrder, SupersedeInOrder, RecordInOrder, ScanInOrder, SendInOrder

OrderStep ==
  \A k \in told' \ told, j \in told \cap DOMAIN box :
    j # k /\ Scope(j) = Scope(k) /\ ~doubled => box[j].created < worker.due[k].created

LEMMA StepTellsInOrder ==
  OutboxTyped /\ Bounded /\ (~doubled => InOrder) /\ [OutboxNext]_outboxVars => OrderStep
<1> SUFFICES ASSUME OutboxTyped, ~doubled => InOrder, [OutboxNext]_outboxVars,
                    NEW k \in told' \ told, NEW j \in told, j # k, Scope(j) = Scope(k), ~doubled
             PROVE  box[j].created < worker.due[k].created
  BY DEF OrderStep
<1>1. PICK x \in DOMAIN worker.due, answer \in {"ok", "lost", "refused"} : Send(x, answer)
  <2>1. \/ UNCHANGED told
        \/ \E x \in DOMAIN worker.due, answer \in {"ok", "lost", "refused"} : Send(x, answer)
    BY OutboxActions DEF Tick, Change, ReporterDies, ProbeFails, ProbeSucceeds, Scan, Supersede, Record,
       ListEvents, WriteEvent, ReadState, WriteState, Reconcile, outboxVars
  <2> QED BY <2>1
<1>2. worker.sent = {} /\ k = x
  BY <1>1, SendView
<1> QED BY <1>2 DEF InOrder, DueIsNewest

(* ToldInOrder for any number of sites and reporters, whatever the worker   *)
(* had read and whatever died (Invoke-CheckinNotificationOutbox.ps1:        *)
(* 149-159, 183-199).                                                       *)
THEOREM StatesAreToldInOrder == OutboxSpec => ToldInOrder
<1>1. OutboxInit => OutboxTyped /\ Bounded /\ (~doubled => InOrder)
  <2> SUFFICES ASSUME OutboxInit PROVE InOrder
    BY InitOutboxTyped
  <2>1. \A r \in Reporters : rep[r].pc = "off"
    BY QuietTyped DEF OutboxInit
  <2>2. DOMAIN box = {} /\ told = {} /\ DOMAIN worker.stale = {} /\ DOMAIN worker.due = {}
    BY EmptyBox, AsleepTyped DEF OutboxInit
  <2> QED BY <2>1, <2>2
       DEF InOrder, StampsAreUnique, ReplacesAreUnique, SupersededIsTopped, CopiesKeepStamps, DueIsNewest
<1>2. OutboxTyped /\ Bounded /\ (~doubled => InOrder) /\ [OutboxNext]_outboxVars
        => (OutboxTyped /\ Bounded /\ (~doubled => InOrder))'
  BY StepOutboxTyped, StepInOrder
<1>3. OutboxTyped /\ Bounded /\ (~doubled => InOrder) /\ [OutboxNext]_outboxVars => [OrderStep]_outboxVars
  BY StepTellsInOrder
<1>4. OutboxSpec => [][OrderStep]_outboxVars
  BY <1>1, <1>2, <1>3, PTL DEF OutboxSpec
<1> QED BY <1>4 DEF ToldInOrder, OrderStep

=============================================================================
