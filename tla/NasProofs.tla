------------------------------ MODULE NasProofs ------------------------------
(***************************************************************************)
(* What the Windows host and the NAS promise each other, for any contents  *)
(* and bounds and whatever is interrupted.                                 *)
(*                                                                         *)
(* Publication: the sync does not lose what the evidence rebuild recorded, *)
(* the local ledger is append-only until an engine writes to it during a   *)
(* sync, a reader of either site finds a complete generation, and a sync   *)
(* that ends normally leaves the same one on both.  What concerns the NAS  *)
(* holds until a commit command replaces a file when its sync is over.     *)
(*                                                                         *)
(* Requests of the dashboard: a site account and action has at most one    *)
(* active request, an execution of unknown outcome is not repeated, what   *)
(* was shown as ended stays so, and what the worker takes for reported has *)
(* reached the queue.                                                      *)
(***************************************************************************)
EXTENDS Publication, DashboardOperations, FiniteSetTheorems, SequenceTheorems, TLAPS

\* A prefix, element by element.
LEMMA PrefixElements ==
  ASSUME NEW S, NEW s \in Seq(S), NEW t \in Seq(S)
  PROVE  IsPrefix(s, t) <=> Len(s) <= Len(t) /\ \A i \in 1..Len(s) : s[i] = t[i]
<1>1. Len(s) \in Nat /\ Len(t) \in Nat
  BY LenProperties
<1>2. CASE Len(s) <= Len(t)
  <2>1. \A i \in 1..Len(s) : s[i] \in S /\ t[i] \in S
    BY <1>1, <1>2, ElementOfSeq
  <2>2. /\ SubSeq(s, 1, Len(s)) \in Seq(S) /\ SubSeq(t, 1, Len(s)) \in Seq(S)
        /\ Len(SubSeq(s, 1, Len(s))) = Len(s) /\ Len(SubSeq(t, 1, Len(s))) = Len(s)
        /\ \A i \in 1..Len(s) : SubSeq(s, 1, Len(s))[i] = s[i] /\ SubSeq(t, 1, Len(s))[i] = t[i]
    BY <1>1, <2>1, SubSeqProperties
  <2>3. (\A i \in 1..Len(s) : s[i] = t[i]) => SubSeq(s, 1, Len(s)) = SubSeq(t, 1, Len(s))
    BY <2>2, SeqEqual
  <2> QED
    BY <1>2, <2>2, <2>3 DEF IsPrefix
<1> QED
  BY <1>1, <1>2 DEF IsPrefix

\* What is appended to a ledger leaves a ledger that starts with it.
LEMMA AppendedGrows ==
  ASSUME NEW l \in Ledgers, NEW r \in Record
  PROVE  Appended(l, r) \in Ledgers /\ IsPrefix(l, Appended(l, r))
<1>1. Append(l, r) \in Ledgers /\ IsPrefix(l, Append(l, r))
  <2> DEFINE m == Append(l, r)
  <2>1. m \in Seq(Record) /\ Len(m) = Len(l) + 1 /\ \A i \in 1..Len(l) : m[i] = l[i]
    BY AppendProperties DEF Ledgers
  <2> HIDE DEF m
  <2>2. Len(l) \in Nat
    BY LenProperties DEF Ledgers
  <2>3. l \in Seq(Record)
    BY DEF Ledgers
  <2>4. Len(l) <= Len(m) /\ \A i \in 1..Len(l) : l[i] = m[i]
    BY <2>1, <2>2
  <2>5. IsPrefix(l, m)
    BY <2>1, <2>3, <2>4, PrefixElements
  <2> QED
    BY <2>1, <2>5 DEF Ledgers, m
<1>2. IsPrefix(l, l)
  BY PrefixElements, LenProperties DEF Ledgers
<1> QED
  BY <1>1, <1>2 DEF Appended

LEMMA PrefixTransitive ==
  ASSUME NEW k \in Ledgers, NEW l \in Ledgers, NEW m \in Ledgers,
         IsPrefix(k, l), IsPrefix(l, m)
  PROVE  IsPrefix(k, m)
BY PrefixElements, LenProperties DEF Ledgers

\* The files waiting under temporary names are those of a staged transaction.
StagedIsThere == \A t \in Txn : tmp[t] # {} => payload[t] # None

TypeInv == TypeOK /\ StagedIsThere

LEMMA TypeInit == Init => TypeInv
<1> SUFFICES ASSUME Init PROVE TypeInv
  OBVIOUS
<1>1. <<>> \in Ledgers
  BY EmptySeq DEF Ledgers
<1> QED
  BY <1>1, PublicationAssumption DEF Init, TypeInv, TypeOK, StagedIsThere, NoPub, NoSync, Manifests, Written,
     Payloads, Stages, PubSteps, SyncSteps, RunSteps, Attempt, Txn, Sites, PubStates, SyncStates

LEMMA Blank ==
  /\ None \in Manifests /\ None \in Payloads
  /\ NoPub \in PubStates /\ NoPub.pc = "idle"
  /\ NoSync \in SyncStates /\ NoSync.pc = "idle"
<1>1. None \in Manifests /\ None \in Payloads
  BY DEF Manifests, Written, Payloads
<1> QED
  BY <1>1, EmptySeq, PublicationAssumption DEF NoPub, PubSteps, PubStates, NoSync, SyncSteps,
     SyncStates, Attempt, Ledgers

LEMMA TypePublisher ==
  TypeInv /\ Publisher => TypeInv'
<1> SUFFICES ASSUME TypeInv, Publisher PROVE TypeInv'
  OBVIOUS
<1> USE PublicationAssumption DEF TypeInv, TypeOK, StagedIsThere, remoteVars
<1>1. ASSUME NEW by \in {"engine", "evidence"}, NEW c \in Contents, StartPublish(by, c)
      PROVE  TypeInv'
  <2>1. clock + 1 \in 1..MaxBuilds
    BY <1>1 DEF StartPublish
  <2>2. pub' = [pub EXCEPT !.pc = "built", !.by = by, !.snap = c, !.at = clock + 1]
    BY <1>1 DEF StartPublish
  <2>3. /\ pub' \in PubStates
        /\ pub'.snap \in Contents /\ pub'.at > 0
    <3>1. pub \in PubStates
      OBVIOUS
    <3>2. "built" \in PubSteps /\ c \in Contents \cup {None} /\ clock + 1 \in 0..MaxBuilds /\ clock + 1 > 0
      BY <2>1 DEF PubSteps
    <3> QED
      BY ONLY <2>2, <3>1, <3>2, <1>1 DEF PubStates
  <2> QED
    BY <1>1, <2>1, <2>3 DEF StartPublish
<1>2. CASE PublishLedger
  <2>1. [snap |-> pub.snap, at |-> pub.at, by |-> pub.by] \in Record
    BY <1>2 DEF PublishLedger, Record, Writers, PubStates
  <2>2. ledger["local"] \in Ledgers
    BY DEF Sites
  <2>3. ledger' \in [Sites -> Ledgers]
    BY <1>2, <2>1, <2>2, AppendedGrows DEF PublishLedger
  <2> QED
    BY <1>2, <2>3 DEF PublishLedger, PubSteps, PubStates
<1>3. CASE PublishPrevious
  <2>1. Manifest(pub.snap, pub.at, ledger["local"]) \in Manifests
    BY <1>3 DEF PublishPrevious, Manifest, Manifests, Written, Sites, PubStates
  <2>2. cur["local"] \in Manifests
    BY DEF Sites
  <2> DEFINE g == Manifest(pub.snap, pub.at, ledger["local"])
  <2>3. CASE Complete(g, ledger["local"])
    <3>1. pub' = [pub EXCEPT !.pc = "kept", !.gen = g] /\ UNCHANGED lease
      BY <1>3, <2>3 DEF PublishPrevious
    <3>2. prev' \in [Sites -> Manifests]
      BY <1>3, <2>3, <2>2 DEF PublishPrevious
    <3> HIDE DEF g
    <3>3. /\ pub' \in PubStates
          /\ pub'.snap \in Contents /\ pub'.at > 0
      BY <3>1, <2>1, <1>3 DEF PubSteps, PubStates, PublishPrevious, g
    <3> QED
      BY <1>3, <3>1, <3>2, <3>3 DEF PublishPrevious
  <2>4. CASE ~Complete(g, ledger["local"])
    <3>1. pub' = NoPub /\ lease' = Free /\ UNCHANGED prev
      BY <1>3, <2>4 DEF PublishPrevious
    <3> HIDE DEF g
    <3> QED
      BY <1>3, <3>1, Blank DEF PublishPrevious, Free
  <2> QED
    BY <2>3, <2>4
<1>4. CASE PublishGeneration
  <2>1. pub.gen \in Manifests
    BY DEF PubStates
  <2> QED
    BY <1>4, <2>1, Blank DEF PublishGeneration, Free
<1>5. CASE PublisherDies
  BY <1>5, Blank DEF PublisherDies, Free
<1> QED
  BY <1>1, <1>2, <1>3, <1>4, <1>5 DEF Publisher

LEMMA TypeSyncing ==
  TypeInv /\ Syncing => TypeInv'
<1> SUFFICES ASSUME TypeInv, Syncing PROVE TypeInv'
  OBVIOUS
<1> USE PublicationAssumption DEF TypeInv, TypeOK, StagedIsThere, remoteVars
<1>s. sync \in SyncStates
  OBVIOUS
<1>t. sync.pc # "idle" => sync.txn \in Txn
  BY <1>s DEF SyncStates, Txn
<1>w. \A step \in SyncSteps \ {"idle"} : sync.pc # "idle" /\ SyncAt(step)
        => sync' \in SyncStates /\ sync'.txn > 0
  BY <1>s DEF SyncStates, SyncAt
<1>x. [NoSync EXCEPT !.txn = sync.txn] \in SyncStates /\ [NoSync EXCEPT !.txn = sync.txn].pc = "idle"
  BY <1>s, Blank DEF SyncStates
<1>1. CASE SyncStart
  <2>1. ledger["local"] \in Ledgers /\ sync.txn + 1 \in 1..MaxSyncs
    BY <1>1, <1>s DEF SyncStart, SyncStates, Sites
  <2>2. sync' \in SyncStates /\ sync'.txn > 0
    <3>1. sync' = [NoSync EXCEPT !.pc = "copied", !.txn = sync.txn + 1, !.ledger = ledger["local"]]
      BY <1>1 DEF SyncStart
    <3>2. sync.txn + 1 \in 0..MaxSyncs /\ sync.txn + 1 > 0 /\ "copied" \in SyncSteps
      BY <2>1 DEF SyncSteps
    <3> QED
      BY ONLY <3>1, <3>2, <2>1, Blank DEF SyncStates
  <2> QED
    BY <1>1, <2>2 DEF SyncStart
<1>2. ASSUME NEW c \in Contents, SyncBuild(c) PROVE TypeInv'
  <2> DEFINE r == [snap |-> c, at |-> clock + 1, by |-> "sync"]
             l == Appended(sync.ledger, r)
  <2>1. clock + 1 \in 1..MaxBuilds
    BY <1>2 DEF SyncBuild
  <2>2. r \in Record
    BY <2>1 DEF Record, Writers
  <2>3. l \in Ledgers
    BY <2>2, <1>s, AppendedGrows DEF SyncStates
  <2>4. sync' = [sync EXCEPT !.pc = "built", !.ledger = l, !.gen = Manifest(c, clock + 1, l)]
        /\ sync.pc = "copied"
    BY <1>2 DEF SyncBuild
  <2> HIDE DEF l
  <2>5. Manifest(c, clock + 1, l) \in Manifests
    BY <2>1, <2>3 DEF Manifest, Manifests, Written
  <2>6. sync' \in SyncStates /\ sync'.txn > 0
    BY <2>3, <2>4, <2>5, <1>s DEF SyncStates, SyncSteps
  <2> QED
    BY <1>2, <2>1, <2>6 DEF SyncBuild
<1>3. CASE Probe
  <2>1. Len(ledger["nas"]) \in Nat
    BY LenProperties DEF Sites, Ledgers
  <2>2. sync' \in SyncStates /\ sync'.txn > 0
    BY <1>3, <1>s, <2>1 DEF Probe, SyncStates, SyncSteps
  <2> QED
    BY <1>3, <2>2 DEF Probe
<1>4. CASE Stage
  <2>1. sync.txn \in Txn /\ Staged \in Ledgers /\ sync.gen \in Manifests
    BY <1>4, <1>s, <1>t DEF Stage, SyncStates
  <2>2. [ledger |-> Staged, gen |-> sync.gen] \in Payloads
    BY <2>1 DEF Payloads, Stages
  <2>3. sync' \in SyncStates /\ sync'.txn > 0
    BY <1>4, <1>w DEF Stage, SyncSteps
  <2>4. payload' \in [Txn -> Payloads]
    BY <1>4, <2>1, <2>2 DEF Stage
  <2>5. StagedIsThere'
    <3>1. [ledger |-> Staged, gen |-> sync.gen] # None
      BY <2>1, NoneAssumption DEF Stages
    <3> QED
      BY <1>4, <2>1, <3>1 DEF Stage
  <2> QED
    BY <1>4, <2>3, <2>4, <2>5 DEF Stage
<1>5. CASE DeltaRefused
  <2>1. sync' \in SyncStates /\ sync'.txn > 0
    BY <1>5, <1>s DEF DeltaRefused, SyncStates
  <2> QED
    BY <1>5, <2>1 DEF DeltaRefused
<1>6. CASE Commit
  <2>1. sync' \in SyncStates /\ sync'.txn > 0
    <3>1. sync' = [sync EXCEPT !.pc = "committing", !.try = 1] /\ sync.txn > 0
      BY <1>6 DEF Commit
    <3>2. "committing" \in SyncSteps /\ 1 \in Attempt
      BY DEF SyncSteps, Attempt
    <3> QED
      BY ONLY <3>1, <3>2, <1>s DEF SyncStates
  <2>2. runs' \in [Txn -> [Attempt -> RunSteps]]
    BY <1>6, <1>t DEF Commit, Attempt, RunSteps
  <2> QED
    BY <1>6, <2>1, <2>2 DEF Commit
<1>7. CASE AnswerLost
  <2>1. sync' \in SyncStates /\ sync'.txn > 0
    <3>1. sync' = [sync EXCEPT !.try = 2] /\ sync.txn > 0
      BY <1>7 DEF AnswerLost
    <3>2. 2 \in Attempt
      BY DEF Attempt
    <3> QED
      BY ONLY <3>1, <3>2, <1>s DEF SyncStates
  <2>2. runs' \in [Txn -> [Attempt -> RunSteps]]
    <3>1. sync.txn \in Txn /\ 2 \in Attempt /\ "install" \in RunSteps
      BY <1>7, <1>t DEF AnswerLost, RunSteps, Attempt
    <3>2. runs' = [runs EXCEPT ![sync.txn][2] = "install"]
      BY <1>7 DEF AnswerLost
    <3> QED
      BY <3>1, <3>2
  <2> QED
    BY <1>7, <2>1, <2>2 DEF AnswerLost
<1>8. CASE AnswerLostAgain
  <2>1. sync' \in SyncStates /\ sync'.txn > 0
    BY <1>8, <1>w DEF AnswerLostAgain, SyncSteps
  <2> QED
    BY <1>8, <2>1 DEF AnswerLostAgain
<1>9. CASE Answer
  <2>1. sync' \in SyncStates /\ sync'.txn > 0
    BY <1>9, <1>w DEF Answer, SyncSteps
  <2> QED
    BY <1>9, <2>1 DEF Answer
<1>10. CASE Cleanup
  <2>1. sync' \in SyncStates /\ (sync'.pc # "idle" => sync'.txn > 0) /\ lease' \in {"free", "evidence", "sync"}
    BY <1>10, <1>w, <1>x DEF Cleanup, Ends, SyncSteps
  <2>2. payload' \in [Txn -> Payloads] /\ tmp' \in [Txn -> SUBSET Files] /\ StagedIsThere'
    BY <1>10, <1>t, Blank DEF Cleanup
  <2> QED
    BY <1>10, <2>1, <2>2 DEF Cleanup, Ends
<1>11. CASE InstallLedger
  <2>1. sync' \in SyncStates /\ sync'.txn > 0
    BY <1>11, <1>w DEF InstallLedger, SyncSteps
  <2>2. ledger' \in [Sites -> Ledgers]
    BY <1>11, <1>s DEF InstallLedger, SyncStates
  <2> QED
    BY <1>11, <2>1, <2>2 DEF InstallLedger
<1>12. CASE InstallPrevious
  <2>1. sync' \in SyncStates /\ sync'.txn > 0
    BY <1>12, <1>w DEF InstallPrevious, SyncSteps
  <2>2. prev' \in [Sites -> Manifests]
    BY <1>12 DEF InstallPrevious, Sites
  <2> QED
    BY <1>12, <2>1, <2>2 DEF InstallPrevious
<1>13. CASE InstallGeneration
  <2>1. cur' \in [Sites -> Manifests]
    BY <1>13, <1>s DEF InstallGeneration, SyncStates
  <2> QED
    BY <1>13, <1>x, <2>1 DEF InstallGeneration
<1>14. CASE SyncDies
  BY <1>14, <1>x DEF SyncDies, Ends
<1> QED
  BY <1>1, <1>2, <1>3, <1>4, <1>5, <1>6, <1>7, <1>8, <1>9, <1>10, <1>11, <1>12, <1>13, <1>14 DEF Syncing

LEMMA TypeRunning ==
  TypeInv /\ Running => TypeInv'
<1> SUFFICES ASSUME TypeInv, NEW t \in Txn, NEW a \in Attempt,
                    RunInstall(t, a) \/ RunKeep(t, a) \/ RunLedger(t, a) \/ RunGeneration(t, a)
             PROVE  TypeInv'
  BY DEF Running
<1> USE PublicationAssumption DEF TypeInv, TypeOK, StagedIsThere, LocalUnchanged
<1>r. \A step \in RunSteps : Run(t, a, step) => runs' \in [Txn -> [Attempt -> RunSteps]]
  BY DEF Run
<1>p. payload[t] # None => payload[t].ledger \in Ledgers /\ payload[t].gen \in Manifests
  BY DEF Payloads, Stages
<1>1. CASE RunInstall(t, a)
  <2>1. runs' \in [Txn -> [Attempt -> RunSteps]]
    BY <1>1, <1>r DEF RunInstall, RunSteps
  <2> QED
    BY <1>1, <2>1 DEF RunInstall
<1>2. CASE RunKeep(t, a)
  <2>1. runs' \in [Txn -> [Attempt -> RunSteps]]
    BY <1>2, <1>r DEF RunKeep, RunSteps
  <2>2. prev' \in [Sites -> Manifests]
    BY <1>2 DEF RunKeep, Sites
  <2> QED
    BY <1>2, <2>1, <2>2 DEF RunKeep
<1>3. CASE RunLedger(t, a)
  <2>1. runs' \in [Txn -> [Attempt -> RunSteps]]
    BY <1>3, <1>r DEF RunLedger, RunSteps
  <2>2. "ledger" \in tmp[t] => payload[t].ledger \in Ledgers
    BY <1>p
  <2>3. ledger' \in [Sites -> Ledgers]
    BY <1>3, <2>2 DEF RunLedger
  <2>4. /\ tmp' \in [Txn -> SUBSET Files]
        /\ \A u \in Txn : tmp'[u] \subseteq tmp[u]
    <3>1. tmp' = tmp \/ tmp' = [tmp EXCEPT ![t] = tmp[t] \ {"ledger"}]
      BY <1>3 DEF RunLedger
    <3> QED
      BY <3>1
  <2>5. past' \in SUBSET {"overlap", "half", "late"}
    BY <1>3 DEF RunLedger, Replaced
  <2> QED
    BY <1>3, <2>1, <2>3, <2>4, <2>5 DEF RunLedger
<1>4. CASE RunGeneration(t, a)
  <2>1. runs' \in [Txn -> [Attempt -> RunSteps]]
    BY <1>4, <1>r DEF RunGeneration, RunSteps
  <2>2. "generation" \in tmp[t] => payload[t].gen \in Manifests
    BY <1>p
  <2>3. cur' \in [Sites -> Manifests]
    BY <1>4, <2>2 DEF RunGeneration
  <2>4. /\ tmp' \in [Txn -> SUBSET Files]
        /\ \A u \in Txn : tmp'[u] \subseteq tmp[u]
    <3>1. tmp' = tmp \/ tmp' = [tmp EXCEPT ![t] = tmp[t] \ {"generation"}]
      BY <1>4 DEF RunGeneration
    <3> QED
      BY <3>1
  <2>5. past' \in SUBSET {"overlap", "half", "late"}
    BY <1>4 DEF RunGeneration, Replaced
  <2> QED
    BY <1>4, <2>1, <2>3, <2>4, <2>5 DEF RunGeneration
<1> QED
  BY <1>1, <1>2, <1>3, <1>4

\* Every state of every behaviour has its type.
THEOREM TypeCorrect == Spec => []TypeOK
<1>1. Init => TypeInv
  BY TypeInit
<1>2. TypeInv /\ [Next]_vars => TypeInv'
  <2>1. TypeInv /\ UNCHANGED vars => TypeInv'
    BY DEF TypeInv, TypeOK, StagedIsThere, vars
  <2> QED
    BY <2>1, TypePublisher, TypeSyncing, TypeRunning DEF Next
<1>3. TypeInv => TypeOK
  BY DEF TypeInv
<1> QED
  BY <1>1, <1>2, <1>3, PTL DEF Spec

-----------------------------------------------------------------------------
\* The leases: an evidence rebuild and a sync never run together.
LeaseHeld ==
  /\ pub.pc # "idle" /\ pub.by = "evidence" => lease = "evidence"
  /\ sync.pc # "idle" => lease = "sync"

Evidence(l) == {l[i] : i \in {j \in 1..Len(l) : l[j].by = "evidence"}}

\* The copy a sync works on has every evidence record of the original.
CopyKeepsEvidence ==
  sync.pc # "idle" => Evidence(ledger["local"]) \subseteq Evidence(sync.ledger)

EvidenceInv == TypeInv /\ LeaseHeld /\ CopyKeepsEvidence

LEMMA AppendedEvidence ==
  ASSUME NEW l \in Ledgers, NEW r \in Record
  PROVE  /\ Evidence(l) \subseteq Evidence(Appended(l, r))
         /\ r.by # "evidence" => Evidence(Appended(l, r)) \subseteq Evidence(l)
<1>1. CASE Appended(l, r) = l
  BY <1>1
<1>2. CASE Appended(l, r) = Append(l, r)
  <2> DEFINE m == Append(l, r)
  <2>1. /\ Len(m) = Len(l) + 1 /\ \A i \in 1..Len(l) : m[i] = l[i]
        /\ m[Len(l) + 1] = r /\ Len(l) \in Nat
    BY AppendProperties, LenProperties DEF Ledgers
  <2> HIDE DEF m
  <2>2. Evidence(l) \subseteq Evidence(m)
    BY <2>1 DEF Evidence
  <2>3. r.by # "evidence" => Evidence(m) \subseteq Evidence(l)
    <3> SUFFICES ASSUME r.by # "evidence", NEW i \in 1..Len(m), m[i].by = "evidence"
                 PROVE  m[i] \in Evidence(l)
      BY DEF Evidence
    <3>1. i \in 1..Len(l)
      BY <2>1
    <3> QED
      BY <2>1, <3>1 DEF Evidence
  <2> QED
    BY <1>2, <2>2, <2>3 DEF m
<1> QED
  BY <1>1, <1>2 DEF Appended

LEMMA TypePreserved == TypeInv /\ [Next]_vars => TypeInv'
<1>1. TypeInv /\ UNCHANGED vars => TypeInv'
  BY DEF TypeInv, TypeOK, StagedIsThere, vars
<1> QED
  BY <1>1, TypePublisher, TypeSyncing, TypeRunning DEF Next

\* The leases are those of the processes that hold them.
LEMMA LeasePreserved ==
  TypeInv /\ LeaseHeld /\ [Next]_vars => LeaseHeld'
<1> SUFFICES ASSUME TypeInv, LeaseHeld, [Next]_vars PROVE LeaseHeld'
  OBVIOUS
<1> USE DEF LeaseHeld
<1>s. sync \in SyncStates /\ pub \in PubStates
  BY DEF TypeInv, TypeOK
<1>w. \A step \in SyncSteps \ {"idle"} : SyncAt(step) => sync'.pc = step
  BY <1>s DEF SyncStates, SyncAt
<1>1. CASE Publisher
  <2>1. ASSUME NEW by \in {"engine", "evidence"}, NEW c \in Contents, StartPublish(by, c)
        PROVE  LeaseHeld'
    <3>1. pub'.by = by /\ UNCHANGED sync
      BY <2>1, <1>s DEF StartPublish, PubStates
    <3> QED
      BY <2>1, <3>1 DEF StartPublish
  <2>2. CASE PublishLedger
    BY <2>2, <1>s DEF PublishLedger, PubStates
  <2>3. CASE PublishPrevious
    BY <2>3, <1>s, Blank DEF PublishPrevious, PubStates, Free
  <2>4. CASE PublishGeneration
    BY <2>4, Blank DEF PublishGeneration, Free
  <2>5. CASE PublisherDies
    BY <2>5, Blank DEF PublisherDies, Free
  <2> QED
    BY <1>1, <2>1, <2>2, <2>3, <2>4, <2>5 DEF Publisher
<1>2. CASE Syncing
  <2>1. UNCHANGED pub
    BY <1>2 DEF Syncing, SyncStart, Probe, Stage, DeltaRefused, SyncBuild, Commit, AnswerLost,
       AnswerLostAgain, Answer, Cleanup, Ends, InstallLedger, InstallPrevious, InstallGeneration, SyncDies
  <2>2. CASE SyncStart
    BY <2>1, <2>2, <1>s DEF SyncStart
  <2>3. CASE lease' = lease /\ sync.pc # "idle"
    BY <2>1, <2>3
  <2>4. CASE lease' = "free" /\ sync.pc # "idle" /\ sync'.pc = "idle"
    BY <2>1, <2>4
  <2>5. SyncStart \/ (lease' = lease /\ sync.pc # "idle")
          \/ (lease' = "free" /\ sync.pc # "idle" /\ sync'.pc = "idle")
    <3>1. [NoSync EXCEPT !.txn = sync.txn].pc = "idle"
      BY Blank DEF SyncStates
    <3> QED
      BY <1>2, <3>1 DEF Syncing, Probe, Stage, DeltaRefused, SyncBuild, Commit, AnswerLost,
         AnswerLostAgain, Answer, Cleanup, Ends, InstallLedger, InstallPrevious, InstallGeneration, SyncDies
  <2> QED
    BY <2>2, <2>3, <2>4, <2>5
<1>3. CASE Running
  BY <1>3 DEF Running, RunInstall, RunKeep, RunLedger, RunGeneration, LocalUnchanged
<1>4. CASE UNCHANGED vars
  BY <1>4 DEF vars
<1> QED
  BY <1>1, <1>2, <1>3, <1>4 DEF Next

\* Only two steps write the local ledger.
LEMMA LocalWriters ==
  ASSUME TypeInv, [Next]_vars
  PROVE  PublishLedger \/ InstallLedger \/ ledger'["local"] = ledger["local"]
<1>1. CASE Publisher
  BY <1>1 DEF Publisher, StartPublish, PublishPrevious, PublishGeneration, PublisherDies
<1>2. CASE Syncing
  BY <1>2 DEF Syncing, SyncStart, Probe, Stage, DeltaRefused, SyncBuild, Commit, AnswerLost,
     AnswerLostAgain, Answer, Cleanup, Ends, InstallPrevious, InstallGeneration, SyncDies
<1>3. CASE Running
  <2>1. ASSUME NEW t \in Txn, NEW a \in Attempt, RunLedger(t, a)
        PROVE  ledger'["local"] = ledger["local"]
    BY <2>1 DEF RunLedger, TypeInv, TypeOK, Sites
  <2> QED
    BY <1>3, <2>1 DEF Running, RunInstall, RunKeep, RunGeneration
<1>4. CASE UNCHANGED vars
  BY <1>4 DEF vars
<1> QED
  BY <1>1, <1>2, <1>3, <1>4 DEF Next

\* Only two steps write the copy a sync works on.
LEMMA CopyWriters ==
  ASSUME TypeInv, [Next]_vars
  PROVE  \/ SyncStart \/ (\E c \in Contents : SyncBuild(c)) \/ sync'.pc = "idle"
         \/ sync.pc # "idle" /\ sync'.ledger = sync.ledger
<1>s. sync \in SyncStates
  BY DEF TypeInv, TypeOK
<1>1. CASE Publisher \/ Running \/ UNCHANGED vars
  BY <1>1 DEF Publisher, StartPublish, PublishLedger, PublishPrevious, PublishGeneration,
     PublisherDies, Running, RunInstall, RunKeep, RunLedger, RunGeneration, LocalUnchanged, vars
<1>2. CASE Syncing
  <2>1. [NoSync EXCEPT !.txn = sync.txn].pc = "idle"
    BY Blank DEF SyncStates
  <2> QED
    BY <1>2, <1>s, <2>1 DEF Syncing, SyncAt, Probe, Stage, DeltaRefused, Commit, AnswerLost,
       AnswerLostAgain, Answer, Cleanup, Ends, InstallLedger, InstallPrevious, InstallGeneration,
       SyncDies, SyncStates
<1> QED
  BY <1>1, <1>2 DEF Next

\* What the two steps make of the copy.
LEMMA CopyContents ==
  ASSUME TypeInv
  PROVE  /\ SyncStart => sync'.ledger = ledger["local"] /\ UNCHANGED <<ledger, pub>>
         /\ \A c \in Contents : SyncBuild(c) =>
              /\ \E r \in Record : sync'.ledger = Appended(sync.ledger, r)
              /\ sync.pc # "idle" /\ UNCHANGED <<ledger, pub>>
<1>1. sync \in SyncStates /\ NoSync \in SyncStates
  BY Blank DEF TypeInv, TypeOK
<1>2. SyncStart => sync'.ledger = ledger["local"] /\ UNCHANGED <<ledger, pub>>
  BY <1>1 DEF SyncStart, SyncStates
<1>3. ASSUME NEW c \in Contents, SyncBuild(c)
      PROVE  /\ \E r \in Record : sync'.ledger = Appended(sync.ledger, r)
             /\ sync.pc # "idle" /\ UNCHANGED <<ledger, pub>>
  <2> DEFINE r == [snap |-> c, at |-> clock + 1, by |-> "sync"]
             l == Appended(sync.ledger, r)
  <2>1. r \in Record
    BY <1>3, PublicationAssumption DEF SyncBuild, TypeInv, TypeOK, Record, Writers
  <2>2. /\ sync' = [sync EXCEPT !.pc = "built", !.ledger = l, !.gen = Manifest(c, clock + 1, l)]
        /\ sync.pc = "copied" /\ UNCHANGED <<ledger, pub>>
    BY <1>3 DEF SyncBuild
  <2>3. sync'.ledger = l
    <3> HIDE DEF l
    <3> QED
      BY <2>2, <1>1 DEF SyncStates
  <2> HIDE DEF r
  <2> QED
    BY <2>1, <2>2, <2>3
<1> QED
  BY <1>2, <1>3

KeepsEvidence == Evidence(ledger["local"]) \subseteq Evidence(ledger'["local"])

\* A step that starts with every evidence record in the sync's copy keeps it so.
LEMMA EvidenceStep ==
  ASSUME EvidenceInv, [Next]_vars
  PROVE  EvidenceInv' /\ KeepsEvidence
<1> USE DEF EvidenceInv
<1>1. TypeInv' /\ LeaseHeld'
  BY TypePreserved, LeasePreserved
<1>2. /\ sync \in SyncStates /\ pub \in PubStates
      /\ ledger["local"] \in Ledgers /\ ledger["local"]' \in Ledgers /\ sync.ledger \in Ledgers
  BY <1>1 DEF TypeInv, TypeOK, Sites, SyncStates
<1>3. CASE PublishLedger
  <2> DEFINE r == [snap |-> pub.snap, at |-> pub.at, by |-> pub.by]
  <2>1. r \in Record /\ r.by = pub.by /\ UNCHANGED sync /\ pub.pc = "built"
    BY <1>3, <1>2, PublicationAssumption DEF PublishLedger, TypeInv, TypeOK, Record, Writers, PubStates
  <2>2. ledger'["local"] = Appended(ledger["local"], r)
    BY <1>3 DEF PublishLedger, TypeInv, TypeOK, Sites
  <2> HIDE DEF r
  <2>3. /\ Evidence(ledger["local"]) \subseteq Evidence(ledger'["local"])
        /\ pub.by # "evidence" => Evidence(ledger'["local"]) \subseteq Evidence(ledger["local"])
    BY <1>2, <2>1, <2>2, AppendedEvidence
  <2>4. sync.pc # "idle" => pub.by # "evidence"
    BY <2>1 DEF LeaseHeld
  <2> QED
    BY <1>1, <2>1, <2>3, <2>4 DEF CopyKeepsEvidence, KeepsEvidence
<1>4. CASE InstallLedger
  <2>1. /\ ledger'["local"] = sync.ledger /\ sync'.ledger = sync.ledger /\ sync.pc # "idle"
    BY <1>4, <1>2 DEF InstallLedger, TypeInv, TypeOK, Sites, SyncAt, SyncStates
  <2> QED
    BY <1>1, <2>1 DEF CopyKeepsEvidence, KeepsEvidence
<1>5. CASE ledger'["local"] = ledger["local"]
  <2>1. KeepsEvidence
    BY <1>5 DEF KeepsEvidence
  <2>2. CASE SyncStart
    BY <1>1, <1>5, <2>1, <2>2, CopyContents DEF CopyKeepsEvidence
  <2>3. ASSUME NEW c \in Contents, SyncBuild(c)
        PROVE  CopyKeepsEvidence'
    <3>1. PICK r \in Record : sync'.ledger = Appended(sync.ledger, r) /\ sync.pc # "idle"
      BY <2>3, CopyContents
    <3>2. Evidence(sync.ledger) \subseteq Evidence(sync'.ledger)
      BY <3>1, <1>2, AppendedEvidence
    <3> QED
      BY <1>5, <3>1, <3>2 DEF CopyKeepsEvidence
  <2>4. sync'.pc = "idle" \/ (sync.pc # "idle" /\ sync'.ledger = sync.ledger)
          => CopyKeepsEvidence'
    BY <1>5 DEF CopyKeepsEvidence
  <2> QED
    BY <1>1, <1>5, <2>1, <2>2, <2>3, <2>4, CopyWriters
<1> QED
  BY <1>3, <1>4, <1>5, LocalWriters

LEMMA EvidenceInit == Init => EvidenceInv
<1>1. Init => TypeInv
  BY TypeInit
<1> QED
  BY <1>1 DEF Init, EvidenceInv, LeaseHeld, CopyKeepsEvidence, NoPub, NoSync

\* What the evidence rebuild recorded stays in the local ledger, for any number
\* of publications and syncs, whatever overlaps and whatever is interrupted.
THEOREM EvidenceSurvives == Spec => EvidenceIsKept
<1>1. Init => EvidenceInv
  BY EvidenceInit
<1>2. EvidenceInv /\ [Next]_vars => EvidenceInv'
  BY EvidenceStep
<1>3. EvidenceInv /\ [Next]_vars
        => [ \A i \in 1..Len(ledger["local"]) : ledger["local"][i].by = "evidence"
               => \E j \in 1..Len(ledger["local"]') : ledger["local"]'[j] = ledger["local"][i] ]_vars
  <2> SUFFICES ASSUME EvidenceInv, [Next]_vars,
                      NEW i \in 1..Len(ledger["local"]), ledger["local"][i].by = "evidence"
               PROVE  \E j \in 1..Len(ledger["local"]') : ledger["local"]'[j] = ledger["local"][i]
    OBVIOUS
  <2>1. Evidence(ledger["local"]) \subseteq Evidence(ledger["local"]')
    BY EvidenceStep DEF KeepsEvidence
  <2>2. ledger["local"][i] \in Evidence(ledger["local"])
    BY DEF Evidence
  <2> QED
    BY <2>1, <2>2 DEF Evidence
<1> QED
  BY <1>1, <1>2, <1>3, PTL DEF Spec, EvidenceIsKept

-----------------------------------------------------------------------------
\* The copy a sync works on extends the original, until an engine overlaps.
CopyExtends ==
  sync.pc # "idle" => "overlap" \in past \/ IsPrefix(ledger["local"], sync.ledger)

LocalInv == TypeInv /\ LeaseHeld /\ CopyExtends

Grows == "overlap" \notin past => IsPrefix(ledger["local"], ledger'["local"])

LEMMA PrefixReflexive ==
  ASSUME NEW l \in Ledgers
  PROVE  IsPrefix(l, l)
BY PrefixElements, LenProperties DEF Ledgers

\* What has happened has happened.
LEMMA PastStays ==
  ASSUME TypeInv, [Next]_vars
  PROVE  past \subseteq past'
BY DEF Next, Publisher, StartPublish, PublishLedger, PublishPrevious, PublishGeneration,
   PublisherDies, Syncing, SyncStart, Probe, Stage, DeltaRefused, SyncBuild, Commit, AnswerLost,
   AnswerLostAgain, Answer, Cleanup, Ends, InstallLedger, InstallPrevious, InstallGeneration,
   SyncDies, Running, RunInstall, RunKeep, RunLedger, RunGeneration, Replaced, LocalUnchanged, vars

LEMMA LocalStep ==
  ASSUME LocalInv, [Next]_vars
  PROVE  LocalInv' /\ Grows
<1> USE DEF LocalInv
<1>1. TypeInv' /\ LeaseHeld'
  BY TypePreserved, LeasePreserved
<1>2. /\ sync \in SyncStates /\ pub \in PubStates /\ sync' \in SyncStates
      /\ ledger["local"] \in Ledgers /\ ledger'["local"] \in Ledgers
      /\ sync.ledger \in Ledgers /\ sync'.ledger \in Ledgers
  BY <1>1 DEF TypeInv, TypeOK, Sites, SyncStates
<1>p. past \subseteq past'
  BY PastStays
<1>3. CASE PublishLedger
  <2> DEFINE r == [snap |-> pub.snap, at |-> pub.at, by |-> pub.by]
  <2>1. r \in Record /\ UNCHANGED sync /\ pub.pc = "built"
    BY <1>3, <1>2, PublicationAssumption DEF PublishLedger, TypeInv, TypeOK, Record, Writers, PubStates
  <2>2. ledger'["local"] = Appended(ledger["local"], r)
    BY <1>3 DEF PublishLedger, TypeInv, TypeOK, Sites
  <2> HIDE DEF r
  <2>3. Grows
    BY <1>2, <2>1, <2>2, AppendedGrows DEF Grows
  <2>4. sync.pc # "idle" => pub.by = "engine"
    BY <1>2, <2>1 DEF LeaseHeld, PubStates
  <2>5. sync.pc # "idle" => "overlap" \in past'
    BY <1>3, <2>4 DEF PublishLedger
  <2> QED
    BY <1>1, <2>1, <2>3, <2>5 DEF CopyExtends
<1>4. CASE InstallLedger
  <2>1. /\ ledger'["local"] = sync.ledger /\ sync'.ledger = sync.ledger /\ sync.pc # "idle"
    BY <1>4, <1>2 DEF InstallLedger, TypeInv, TypeOK, Sites, SyncAt, SyncStates
  <2> QED
    BY <1>1, <1>2, <2>1, PrefixReflexive DEF CopyExtends, Grows
<1>5. CASE ledger'["local"] = ledger["local"]
  <2>1. Grows
    BY <1>2, <1>5, PrefixReflexive DEF Grows
  <2>2. SyncStart => CopyExtends'
    <3> SUFFICES ASSUME SyncStart PROVE CopyExtends'
      OBVIOUS
    <3>1. sync'.ledger = ledger'["local"]
      BY <1>5, CopyContents
    <3> QED
      BY <1>2, <3>1, PrefixReflexive DEF CopyExtends
  <2>3. ASSUME NEW c \in Contents, SyncBuild(c)
        PROVE  CopyExtends'
    <3>1. PICK r \in Record : sync'.ledger = Appended(sync.ledger, r) /\ sync.pc # "idle"
      BY <2>3, CopyContents
    <3>2. IsPrefix(sync.ledger, sync'.ledger)
      BY <3>1, <1>2, AppendedGrows
    <3> QED
      BY <1>2, <1>5, <1>p, <3>1, <3>2, PrefixTransitive DEF CopyExtends
  <2>4. sync'.pc = "idle" => CopyExtends'
    BY DEF CopyExtends
  <2>5. sync.pc # "idle" /\ sync'.ledger = sync.ledger => CopyExtends'
    BY <1>5, <1>p DEF CopyExtends
  <2> QED
    BY <1>1, <2>1, <2>2, <2>3, <2>4, <2>5, CopyWriters
<1> QED
  BY <1>3, <1>4, <1>5, LocalWriters

\* Until an engine writes during a sync the local ledger is append-only, whatever
\* is interrupted and however commit commands run on.
THEOREM LocalLedgerGrows == Spec => GrowsUnlessOverlapped
<1>1. Init => LocalInv
  <2>1. Init => TypeInv
    BY TypeInit
  <2> QED
    BY <2>1 DEF Init, LocalInv, LeaseHeld, CopyExtends, NoPub, NoSync
<1>2. LocalInv /\ [Next]_vars => LocalInv'
  BY LocalStep
<1>3. LocalInv /\ [Next]_vars
        => ["overlap" \notin past => IsPrefix(ledger["local"], ledger'["local"])]_vars
  BY LocalStep DEF Grows
<1> QED
  BY <1>1, <1>2, <1>3, PTL DEF Spec, GrowsUnlessOverlapped

-----------------------------------------------------------------------------
(* What is served.  A manifest stays complete while its ledger only grows; *)
(* locally that is LocalStep, on the NAS a commit installs a ledger that   *)
(* extends the one there, as long as no sync ended half way and no command *)
(* replaces a file when its sync is over.                                  *)

Until(l, n) == \A i \in 1..Len(l) : l[i].at <= n

\* Nothing is recorded before it is built.
TimelyInv ==
  /\ Until(ledger["local"], clock) /\ pub.at <= clock
  /\ sync.pc # "idle" => Until(sync.ledger, clock)

\* What a sync built is complete over its copy.
Built ==
  sync.pc \notin {"idle", "copied"} =>
    sync.gen # None /\ sync.gen.prefix = sync.ledger /\ Receipts(sync.gen) # {}

LocalServed == "overlap" \notin past =>
  /\ cur["local"] # None => Complete(cur["local"], ledger["local"])
  /\ pub.pc = "kept" => Complete(pub.gen, ledger["local"])
  /\ sync.pc \in {"keeping", "finishing"} => IsPrefix(sync.ledger, ledger["local"])

BuiltInv == TimelyInv /\ Built

\* A complete manifest is complete over every longer ledger.
LEMMA CompleteGrows ==
  ASSUME NEW g \in Manifests, NEW l \in Ledgers, NEW m \in Ledgers,
         Complete(g, l), IsPrefix(l, m)
  PROVE  Complete(g, m)
<1>1. g.prefix \in Ledgers
  BY DEF Complete, Manifests, Written
<1> QED
  BY <1>1, PrefixTransitive DEF Complete

\* A ledger has only its own records and the one appended.
LEMMA AppendedTimely ==
  ASSUME NEW l \in Ledgers, NEW r \in Record, NEW n \in Nat, Until(l, n), r.at <= n
  PROVE  Until(Appended(l, r), n)
<1> USE DEF Until
<1>1. CASE Appended(l, r) = l
  BY <1>1
<1>2. CASE Appended(l, r) = Append(l, r)
  <2> DEFINE m == Append(l, r)
  <2>1. /\ Len(m) = Len(l) + 1 /\ \A i \in 1..Len(l) : m[i] = l[i]
        /\ m[Len(l) + 1] = r /\ Len(l) \in Nat
    BY AppendProperties, LenProperties DEF Ledgers
  <2> HIDE DEF m
  <2>2. \A i \in 1..Len(m) : m[i].at <= n
    <3> SUFFICES ASSUME NEW i \in 1..Len(m) PROVE m[i].at <= n
      OBVIOUS
    <3>1. i \in 1..Len(l) \/ i = Len(l) + 1
      BY <2>1
    <3> QED
      BY <2>1, <3>1
  <2> QED
    BY <1>2, <2>2 DEF m
<1> QED
  BY <1>1, <1>2 DEF Appended

LEMMA UntilLater ==
  ASSUME NEW l \in Ledgers, NEW n \in Nat, NEW m \in Nat, Until(l, n), n <= m
  PROVE  Until(l, m)
<1> SUFFICES ASSUME NEW i \in 1..Len(l) PROVE l[i].at <= m
  BY DEF Until
<1>1. l[i] \in Record
  BY ElementOfSeq DEF Ledgers
<1> QED
  BY <1>1 DEF Until, Record

\* The newest observation is never dropped as a replay: it has its receipt.
LEMMA NewestHasReceipt ==
  ASSUME NEW l \in Ledgers, NEW r \in Record, \A i \in 1..Len(l) : l[i].at < r.at
  PROVE  Receipts(Manifest(r.snap, r.at, Appended(l, r))) # {}
<1> DEFINE m == Appended(l, r)
           g == Manifest(r.snap, r.at, m)
<1>1. g.snap = r.snap /\ g.at = r.at /\ g.prefix = m
  BY DEF Manifest
<1>2. r.at \in Nat
  BY DEF Record
<1>3. \E i \in 1..Len(m) : m[i].snap = r.snap /\ m[i].at <= r.at
  <2>1. CASE m = Append(l, r)
    <3> DEFINE k == Append(l, r)
    <3>1. Len(k) = Len(l) + 1 /\ k[Len(l) + 1] = r /\ Len(l) \in Nat
      BY AppendProperties, LenProperties DEF Ledgers
    <3> HIDE DEF k
    <3>2. Len(l) + 1 \in 1..Len(k) /\ k[Len(l) + 1].snap = r.snap /\ k[Len(l) + 1].at <= r.at
      BY <1>2, <3>1
    <3> QED
      BY <2>1, <3>2 DEF k
  <2>2. CASE m # Append(l, r)
    <3>1. /\ m = l /\ l # <<>>
          /\ \/ Last(l).snap = r.snap
             \/ r.at <= Last(l).at
      BY <2>2 DEF Appended
    <3>2. Len(l) \in 1..Len(l) /\ Last(l) = l[Len(l)]
      <4>1. l \in Seq(Record) /\ l # <<>>
        BY <3>1 DEF Ledgers
      <4>2. Len(l) \in Nat /\ Len(l) # 0
        BY <4>1, LenProperties, EmptySeq
      <4> QED
        BY <4>2 DEF Last
    <3>3. l[Len(l)].at < r.at /\ l[Len(l)].at \in Nat
      <4>1. l \in Seq(Record)
        BY DEF Ledgers
      <4>2. l[Len(l)] \in Record
        BY <3>2, <4>1, ElementOfSeq
      <4> QED
        BY <3>2, <4>2 DEF Record
    <3> QED
      BY <1>2, <3>1, <3>2, <3>3
  <2> QED
    BY <2>1, <2>2
<1> HIDE DEF m, g
<1>4. Receipts(g) # {}
  BY <1>1, <1>3 DEF Receipts
<1> QED
  BY <1>4 DEF g, m

\* How a step moves the sync.
LEMMA SyncMoves ==
  ASSUME TypeInv, [Next]_vars
  PROVE  \/ UNCHANGED sync
         \/ sync'.pc = "idle"
         \/ sync'.pc = "copied" /\ sync'.ledger = ledger["local"] /\ UNCHANGED <<ledger, clock>>
         \/ /\ sync.pc = "copied" /\ sync'.pc = "built" /\ clock' = clock + 1 /\ clock < MaxBuilds
            /\ UNCHANGED <<ledger, pub>> /\ sync'.txn = sync.txn
            /\ \E r \in Record : /\ r.at = clock + 1
                               /\ sync'.ledger = Appended(sync.ledger, r)
                               /\ sync'.gen = Manifest(r.snap, r.at, sync'.ledger)
         \/ /\ sync.pc \notin {"idle", "copied"} /\ sync'.pc \notin {"idle", "copied"}
            /\ UNCHANGED <<sync.ledger, sync.gen, sync.txn, clock, pub>>
            /\ sync'.pc = "keeping" => InstallLedger
            /\ sync'.pc = "finishing" => sync.pc = "keeping"
<1> DEFINE Conclusion ==
         \/ UNCHANGED sync
         \/ sync'.pc = "idle"
         \/ sync'.pc = "copied" /\ sync'.ledger = ledger["local"] /\ UNCHANGED <<ledger, clock>>
         \/ /\ sync.pc = "copied" /\ sync'.pc = "built" /\ clock' = clock + 1 /\ clock < MaxBuilds
            /\ UNCHANGED <<ledger, pub>> /\ sync'.txn = sync.txn
            /\ \E r \in Record : /\ r.at = clock + 1
                               /\ sync'.ledger = Appended(sync.ledger, r)
                               /\ sync'.gen = Manifest(r.snap, r.at, sync'.ledger)
         \/ /\ sync.pc \notin {"idle", "copied"} /\ sync'.pc \notin {"idle", "copied"}
            /\ UNCHANGED <<sync.ledger, sync.gen, sync.txn, clock, pub>>
            /\ sync'.pc = "keeping" => InstallLedger
            /\ sync'.pc = "finishing" => sync.pc = "keeping"
<1>s. sync \in SyncStates /\ NoSync \in SyncStates /\ NoSync.pc = "idle"
  BY Blank DEF TypeInv, TypeOK
<1>1. CASE Publisher \/ Running \/ UNCHANGED vars
  BY <1>1 DEF Publisher, StartPublish, PublishLedger, PublishPrevious, PublishGeneration,
     PublisherDies, Running, RunInstall, RunKeep, RunLedger, RunGeneration, LocalUnchanged, vars
<1>2. CASE SyncStart
  BY <1>2, <1>s DEF SyncStart, SyncStates
<1>3. ASSUME NEW c \in Contents, SyncBuild(c) PROVE Conclusion
  <2> DEFINE r == [snap |-> c, at |-> clock + 1, by |-> "sync"]
             l == Appended(sync.ledger, r)
             g == Manifest(c, clock + 1, l)
  <2>1. r \in Record /\ r.at = clock + 1 /\ r.snap = c
    BY <1>3, PublicationAssumption DEF SyncBuild, TypeInv, TypeOK, Record, Writers
  <2>2. /\ sync' = [sync EXCEPT !.pc = "built", !.ledger = l, !.gen = g]
        /\ sync.pc = "copied" /\ UNCHANGED <<ledger, pub>>
        /\ clock' = clock + 1 /\ clock < MaxBuilds
    BY <1>3 DEF SyncBuild
  <2>3. sync'.ledger = l /\ sync'.gen = g /\ sync'.pc = "built" /\ sync'.txn = sync.txn
    <3> HIDE DEF l, g
    <3> QED
      BY <2>2, <1>s DEF SyncStates
  <2>4. g = Manifest(r.snap, r.at, l)
    BY <2>1
  <2> HIDE DEF r, g
  <2> QED
    BY <2>1, <2>2, <2>3, <2>4
<1>4. [NoSync EXCEPT !.txn = sync.txn].pc = "idle"
  BY <1>s DEF SyncStates
<1>5. CASE Cleanup \/ InstallGeneration \/ SyncDies
  BY <1>5, <1>4, <1>s DEF Cleanup, InstallGeneration, SyncDies, Ends, SyncAt, SyncStates
<1>6. CASE \/ Probe \/ Stage \/ DeltaRefused \/ Commit \/ AnswerLost \/ AnswerLostAgain \/ Answer
           \/ InstallLedger \/ InstallPrevious
  BY <1>6, <1>s DEF SyncAt, Probe, Stage, DeltaRefused, Commit, AnswerLost, AnswerLostAgain, Answer,
     InstallLedger, InstallPrevious, SyncStates
<1> QED
  BY <1>1, <1>2, <1>3, <1>5, <1>6 DEF Next, Syncing

\* Time only advances, and the publisher's date is one of the past.
LEMMA TimeMoves ==
  ASSUME TypeInv, [Next]_vars, pub.at <= clock
  PROVE  clock \in Nat /\ clock' \in Nat /\ clock <= clock' /\ pub'.at <= clock'
<1>1. clock \in Nat /\ pub \in PubStates /\ NoPub.at = 0
  BY PublicationAssumption DEF TypeInv, TypeOK, NoPub
<1>2. CASE Running \/ UNCHANGED vars
  <2>1. UNCHANGED <<clock, pub>>
    BY <1>2 DEF Running, RunInstall, RunKeep, RunLedger, RunGeneration, LocalUnchanged, vars
  <2> QED
    BY <1>1, <2>1 DEF PubStates
<1>3. CASE Syncing
  <2>1. ASSUME NEW c \in Contents, SyncBuild(c)
        PROVE  clock' = clock + 1 /\ UNCHANGED pub
    BY <2>1 DEF SyncBuild
  <2>2. UNCHANGED pub /\ (clock' = clock \/ clock' = clock + 1)
    BY <1>3, <2>1 DEF Syncing, SyncStart, Probe, Stage, DeltaRefused, Commit, AnswerLost,
       AnswerLostAgain, Answer, Cleanup, Ends, InstallLedger, InstallPrevious, InstallGeneration, SyncDies
  <2> QED
    BY <1>1, <2>2 DEF PubStates
<1>4. ASSUME NEW by \in {"engine", "evidence"}, NEW c \in Contents, StartPublish(by, c)
      PROVE  clock' \in Nat /\ clock <= clock' /\ pub'.at <= clock'
  BY <1>1, <1>4 DEF StartPublish, PubStates
<1>5. CASE PublishLedger \/ PublishPrevious \/ PublishGeneration \/ PublisherDies
  <2>1. UNCHANGED clock
    BY <1>5 DEF PublishLedger, PublishPrevious, PublishGeneration, PublisherDies
  <2>2. \/ pub' = NoPub \/ pub' = [pub EXCEPT !.pc = "appended"]
        \/ \E g : pub' = [pub EXCEPT !.pc = "kept", !.gen = g]
    BY <1>5 DEF PublishLedger, PublishPrevious, PublishGeneration, PublisherDies
  <2>3. pub'.at = 0 \/ pub'.at = pub.at
    BY <1>1, <2>2 DEF PubStates
  <2> QED
    BY <1>1, <2>1, <2>3
<1> QED
  BY <1>1, <1>2, <1>3, <1>4, <1>5 DEF Next, Publisher

LEMMA BuiltStep ==
  ASSUME TypeInv, BuiltInv, [Next]_vars
  PROVE  BuiltInv'
<1> USE DEF BuiltInv, TimelyInv
<1>1. TypeInv'
  BY TypePreserved
<1>2. /\ ledger["local"] \in Ledgers /\ ledger'["local"] \in Ledgers
      /\ sync.ledger \in Ledgers /\ sync'.ledger \in Ledgers /\ pub \in PubStates
  BY <1>1 DEF TypeInv, TypeOK, Sites, SyncStates
<1>3. clock \in Nat /\ clock' \in Nat /\ clock <= clock' /\ pub'.at <= clock'
  BY TimeMoves
<1>4. Until(ledger'["local"], clock')
  <2>1. CASE PublishLedger
    <3> DEFINE r == [snap |-> pub.snap, at |-> pub.at, by |-> pub.by]
    <3>1. r \in Record /\ r.at = pub.at
      BY <2>1, <1>2, PublicationAssumption DEF PublishLedger, TypeInv, TypeOK, Record, Writers, PubStates
    <3>2. ledger'["local"] = Appended(ledger["local"], r) /\ clock' = clock
      BY <2>1 DEF PublishLedger, TypeInv, TypeOK, Sites
    <3> HIDE DEF r
    <3> QED
      BY <1>2, <1>3, <3>1, <3>2, AppendedTimely
  <2>2. CASE InstallLedger
    <3>1. ledger'["local"] = sync.ledger /\ clock' = clock /\ sync.pc # "idle"
      BY <2>2 DEF InstallLedger, TypeInv, TypeOK, Sites
    <3> QED
      BY <3>1
  <2>3. CASE ledger'["local"] = ledger["local"]
    BY <1>2, <1>3, <2>3, UntilLater
  <2> QED
    BY <2>1, <2>2, <2>3, LocalWriters
<1>5. CASE UNCHANGED sync \/ sync'.pc = "idle"
  BY <1>2, <1>3, <1>4, <1>5, UntilLater DEF Built
<1>6. CASE sync'.pc = "copied" /\ sync'.ledger = ledger["local"] /\ UNCHANGED <<ledger, clock>>
  BY <1>3, <1>4, <1>6 DEF Built
<1>7. CASE /\ sync.pc = "copied" /\ sync'.pc = "built" /\ clock' = clock + 1
           /\ \E r \in Record : /\ r.at = clock + 1
                              /\ sync'.ledger = Appended(sync.ledger, r)
                              /\ sync'.gen = Manifest(r.snap, r.at, sync'.ledger)
  <2>1. PICK r \in Record : /\ r.at = clock + 1
                            /\ sync'.ledger = Appended(sync.ledger, r)
                            /\ sync'.gen = Manifest(r.snap, r.at, sync'.ledger)
    BY <1>7
  <2>2. Until(sync.ledger, clock) /\ Until(sync.ledger, clock + 1)
    BY <1>2, <1>3, <1>7, UntilLater
  <2>3. Until(sync'.ledger, clock')
    BY <1>2, <1>3, <1>7, <2>1, <2>2, AppendedTimely
  <2>4. \A i \in 1..Len(sync.ledger) : sync.ledger[i].at < r.at
    <3> SUFFICES ASSUME NEW i \in 1..Len(sync.ledger) PROVE sync.ledger[i].at < r.at
      OBVIOUS
    <3>1. sync.ledger[i] \in Record
      BY <1>2, ElementOfSeq DEF Ledgers
    <3>2. sync.ledger[i].at \in Nat /\ sync.ledger[i].at <= clock
      BY <2>2, <3>1 DEF Record, Until
    <3> QED
      BY <1>3, <2>1, <3>2
  <2>5. Receipts(sync'.gen) # {}
    BY <1>2, <2>1, <2>4, NewestHasReceipt
  <2>6. sync'.gen.prefix = sync'.ledger
    BY <2>1 DEF Manifest
  <2>7. sync'.gen # None
    <3>1. sync'.ledger \in Ledgers /\ r.snap \in Contents /\ r.at \in 1..MaxBuilds
      BY <1>2 DEF Record
    <3>2. sync'.gen \in Written
      BY <2>1, <3>1 DEF Manifest, Written
    <3> QED
      BY <3>2, NoneAssumption
  <2> QED
    BY <1>3, <1>4, <2>3, <2>5, <2>6, <2>7 DEF Built
<1>8. CASE /\ sync.pc \notin {"idle", "copied"} /\ sync'.pc \notin {"idle", "copied"}
           /\ UNCHANGED <<sync.ledger, sync.gen, clock>>
  BY <1>3, <1>4, <1>8 DEF Built, Receipts
<1> QED
  BY <1>5, <1>6, <1>7, <1>8, SyncMoves

\* The local generation is replaced by the two who prepared one.
LEMMA CurrentMoves ==
  ASSUME TypeInv, [Next]_vars
  PROVE  \/ cur'["local"] = cur["local"]
         \/ pub.pc = "kept" /\ cur'["local"] = pub.gen
         \/ sync.pc = "finishing" /\ cur'["local"] = sync.gen
<1>1. CASE Publisher
  BY <1>1 DEF Publisher, StartPublish, PublishLedger, PublishPrevious, PublishGeneration,
     PublisherDies, TypeInv, TypeOK, Sites
<1>2. CASE Syncing
  BY <1>2 DEF Syncing, SyncStart, Probe, Stage, DeltaRefused, SyncBuild, Commit, AnswerLost,
     AnswerLostAgain, Answer, Cleanup, Ends, InstallLedger, InstallPrevious, InstallGeneration,
     SyncDies, TypeInv, TypeOK, Sites
<1>3. CASE Running \/ UNCHANGED vars
  BY <1>3 DEF Running, RunInstall, RunKeep, RunLedger, RunGeneration, TypeInv, TypeOK, Sites, vars
<1> QED
  BY <1>1, <1>2, <1>3 DEF Next

\* A publisher keeps the previous generation only for a complete new one.
LEMMA PublisherMoves ==
  ASSUME TypeInv, [Next]_vars
  PROVE  \/ pub'.pc # "kept" \/ UNCHANGED pub
         \/ Complete(pub'.gen, ledger["local"]) /\ UNCHANGED ledger
<1>1. pub \in PubStates
  BY DEF TypeInv, TypeOK
<1>2. CASE PublishPrevious
  <2> DEFINE g == Manifest(pub.snap, pub.at, ledger["local"])
  <2>1. \/ pub' = NoPub
        \/ pub' = [pub EXCEPT !.pc = "kept", !.gen = g] /\ Complete(g, ledger["local"])
    BY <1>2 DEF PublishPrevious
  <2>2. UNCHANGED ledger
    BY <1>2 DEF PublishPrevious
  <2> HIDE DEF g
  <2> QED
    BY <1>1, <2>1, <2>2, Blank DEF PubStates
<1>3. ASSUME NEW by \in {"engine", "evidence"}, NEW c \in Contents, StartPublish(by, c)
      PROVE  pub'.pc # "kept"
  BY <1>1, <1>3 DEF StartPublish, PubStates
<1>4. CASE PublishLedger \/ PublishGeneration \/ PublisherDies
  BY <1>1, <1>4, Blank DEF PublishLedger, PublishGeneration, PublisherDies, PubStates
<1>5. CASE Syncing \/ Running \/ UNCHANGED vars
  BY <1>5 DEF Syncing, SyncStart, Probe, Stage, DeltaRefused, SyncBuild, Commit, AnswerLost,
     AnswerLostAgain, Answer, Cleanup, Ends, InstallLedger, InstallPrevious, InstallGeneration,
     SyncDies, Running, RunInstall, RunKeep, RunLedger, RunGeneration, LocalUnchanged, vars
<1> QED
  BY <1>2, <1>3, <1>4, <1>5 DEF Next, Publisher

\* A complete current generation is the one a reader gets.
LEMMA CompleteIsServed ==
  ASSUME NEW s \in Sites, cur[s] # None => Complete(cur[s], ledger[s])
  PROVE  Served(s)
BY DEF Served, Serves

\* What is served locally stays complete, until an engine overlaps a sync.
LEMMA LocalServedStep ==
  ASSUME LocalInv, BuiltInv, LocalServed, [Next]_vars
  PROVE  LocalServed'
<1> SUFFICES ASSUME "overlap" \notin past' PROVE
      /\ cur'["local"] # None => Complete(cur'["local"], ledger'["local"])
      /\ pub'.pc = "kept" => Complete(pub'.gen, ledger'["local"])
      /\ sync'.pc \in {"keeping", "finishing"} => IsPrefix(sync'.ledger, ledger'["local"])
  BY DEF LocalServed
<1>t. TypeInv /\ TypeInv'
  BY TypePreserved DEF LocalInv
<1>1. "overlap" \notin past
  BY <1>t, PastStays
<1>2. IsPrefix(ledger["local"], ledger'["local"])
  BY <1>1, LocalStep DEF Grows
<1>3. /\ ledger["local"] \in Ledgers /\ ledger'["local"] \in Ledgers /\ cur["local"] \in Manifests
      /\ sync \in SyncStates /\ sync.ledger \in Ledgers /\ sync.gen \in Manifests
      /\ pub \in PubStates /\ pub.gen \in Manifests
  BY <1>t DEF TypeInv, TypeOK, Sites, SyncStates, PubStates
<1>4. /\ cur["local"] # None => Complete(cur["local"], ledger["local"])
      /\ pub.pc = "kept" => Complete(pub.gen, ledger["local"])
      /\ sync.pc \in {"keeping", "finishing"} => IsPrefix(sync.ledger, ledger["local"])
  BY <1>1 DEF LocalServed
<1>5. /\ cur["local"] # None => Complete(cur["local"], ledger'["local"])
      /\ pub.pc = "kept" => Complete(pub.gen, ledger'["local"])
      /\ sync.pc \in {"keeping", "finishing"} => IsPrefix(sync.ledger, ledger'["local"])
  BY <1>2, <1>3, <1>4, CompleteGrows, PrefixTransitive
<1>6. sync.pc = "finishing" => Complete(sync.gen, ledger'["local"])
  BY <1>5 DEF Complete, BuiltInv, Built
<1>7. \/ cur'["local"] = cur["local"]
      \/ pub.pc = "kept" /\ cur'["local"] = pub.gen
      \/ sync.pc = "finishing" /\ cur'["local"] = sync.gen
  BY <1>t, CurrentMoves
<1>8. \/ pub'.pc # "kept" \/ UNCHANGED pub
      \/ Complete(pub'.gen, ledger["local"]) /\ UNCHANGED ledger
  BY <1>t, PublisherMoves
<1>9. sync'.pc \in {"keeping", "finishing"} => IsPrefix(sync'.ledger, ledger'["local"])
  <2>1. CASE UNCHANGED sync
    BY <1>5, <2>1
  <2>2. CASE InstallLedger
    <3>1. ledger'["local"] = sync.ledger /\ sync'.ledger = sync.ledger
      BY <2>2, <1>t, <1>3 DEF InstallLedger, TypeInv, TypeOK, Sites, SyncAt, SyncStates
    <3> QED
      BY <1>3, <3>1, PrefixReflexive
  <2>3. CASE sync.pc = "keeping" /\ sync'.ledger = sync.ledger
    BY <1>5, <2>3
  <2> QED
    BY <1>t, <2>1, <2>2, <2>3, SyncMoves
<1> QED
  BY <1>5, <1>6, <1>7, <1>8, <1>9

\* Until an engine writes during a sync the generation the local directory holds
\* is complete and served, whatever is interrupted.
THEOREM LocalGenerationIsServed == Spec => []("overlap" \notin past => Served("local"))
<1> DEFINE Inv == LocalInv /\ BuiltInv /\ LocalServed
<1>1. Init => Inv
  <2>1. Init => TypeInv
    BY TypeInit
  <2> QED
    BY <2>1, EmptySeq DEF Init, LocalInv, LeaseHeld, CopyExtends, BuiltInv, TimelyInv, Built, Until,
       LocalServed, Sites, NoPub, NoSync
<1>2. Inv /\ [Next]_vars => Inv'
  BY LocalStep, BuiltStep, LocalServedStep DEF LocalInv
<1>3. Inv => ("overlap" \notin past => Served("local"))
  BY CompleteIsServed DEF LocalServed, Sites
<1> QED
  BY <1>1, <1>2, <1>3, PTL DEF Spec

-----------------------------------------------------------------------------
(* The NAS.  Until a commit command replaces a file after its sync is over,  *)
(* whatever its commands do there is part of that sync: each installs the    *)
(* ledger and the manifest the sync built, however many run at once.         *)

Ongoing == {"committing", "committed", "failed", "installing", "keeping", "finishing"}
Installed == {"committed", "installing", "keeping", "finishing"}

Plan == [ledger |-> sync.ledger, gen |-> sync.gen]

\* What is staged is what the sync built, until it is cleaned up.
Carried ==
  /\ sync.pc \in {"staged", "committing"} => payload[sync.txn] = Plan
  /\ sync.pc \in Ongoing => payload[sync.txn] \in {None, Plan}

\* Only a transaction that has been committed has commands on the NAS.
Begun == \A t \in Txn, a \in Attempt : runs[t][a] # "none" =>
  t < sync.txn \/ (t = sync.txn /\ sync.pc \in Ongoing \cup {"idle"})

RemoteInv == Begun /\ Carried

LEMMA RemoteStep ==
  ASSUME TypeInv, RemoteInv, [Next]_vars
  PROVE  RemoteInv'
<1> USE DEF RemoteInv, Begun, Carried, Plan, Ongoing
<1>t. /\ sync \in SyncStates /\ sync.txn \in Nat
      /\ sync.pc # "idle" => sync.txn \in Txn
      /\ runs \in [Txn -> [Attempt -> RunSteps]] /\ payload \in [Txn -> Payloads]
      /\ Txn \subseteq Nat
  BY PublicationAssumption DEF TypeInv, TypeOK, SyncStates, Txn
<1>1. CASE Publisher \/ UNCHANGED vars
  <2>1. UNCHANGED <<sync, runs, payload>>
    BY <1>1 DEF Publisher, StartPublish, PublishLedger, PublishPrevious, PublishGeneration,
       PublisherDies, remoteVars, vars
  <2> QED
    BY <2>1
<1>2. CASE Running
  <2>1. PICK t \in Txn, a \in Attempt :
          RunInstall(t, a) \/ RunKeep(t, a) \/ RunLedger(t, a) \/ RunGeneration(t, a)
    BY <1>2 DEF Running
  <2>2. UNCHANGED <<sync, payload>> /\ runs[t][a] # "none"
    BY <2>1 DEF RunInstall, RunKeep, RunLedger, RunGeneration, LocalUnchanged
  <2>3. \E step : runs' = [runs EXCEPT ![t][a] = step]
    BY <2>1 DEF RunInstall, RunKeep, RunLedger, RunGeneration, Run
  <2>4. \A u \in Txn, b \in Attempt : runs'[u][b] = runs[u][b] \/ (u = t /\ b = a)
    BY <1>t, <2>3
  <2> QED
    BY <2>2, <2>4
<1>n. NoSync \in SyncStates /\ [NoSync EXCEPT !.txn = sync.txn].pc = "idle"
      /\ [NoSync EXCEPT !.txn = sync.txn].txn = sync.txn
  BY Blank DEF SyncStates
<1>3. CASE SyncStart
  <2>1. /\ UNCHANGED <<runs, payload>> /\ sync.pc = "idle"
        /\ sync'.pc = "copied" /\ sync'.txn = sync.txn + 1
    BY <1>3, <1>n DEF SyncStart, SyncStates, remoteVars
  <2> QED
    BY <1>t, <2>1
<1>4. CASE Probe \/ DeltaRefused \/ (\E c \in Contents : SyncBuild(c))
  <2>1. /\ UNCHANGED <<runs, payload, sync.txn>>
        /\ sync.pc \in {"built", "probed", "copied"} /\ sync'.pc \in {"built", "probed"}
    BY <1>4, <1>t DEF Probe, DeltaRefused, SyncBuild, SyncStates, remoteVars
  <2> QED
    BY <2>1
<1>5. CASE Stage
  <2>1. /\ UNCHANGED <<runs, sync.txn, sync.ledger, sync.gen>>
        /\ sync.pc = "probed" /\ sync'.pc = "staged" /\ sync.txn \in Txn
    BY <1>5, <1>t DEF Stage, SyncAt, SyncStates
  <2>2. payload' = [payload EXCEPT ![sync.txn] = [ledger |-> sync.ledger, gen |-> sync.gen]]
    BY <1>5 DEF Stage
  <2> QED
    BY <1>t, <2>1, <2>2
<1>6. CASE Commit \/ AnswerLost
  <2>1. /\ sync.pc \in {"staged", "committing"} /\ sync'.pc = "committing" /\ sync.txn \in Txn
        /\ UNCHANGED <<payload, sync.txn, sync.ledger, sync.gen>>
    BY <1>6, <1>t DEF Commit, AnswerLost, SyncStates
  <2>2. PICK b \in Attempt : runs' = [runs EXCEPT ![sync.txn][b] = "install"]
    BY <1>6 DEF Commit, AnswerLost, Attempt
  <2>3. \A u \in Txn, a \in Attempt : runs'[u][a] = runs[u][a] \/ u = sync.txn
    BY <1>t, <2>2
  <2> QED
    BY <2>1, <2>3
<1>7. CASE AnswerLostAgain \/ Answer \/ InstallLedger \/ InstallPrevious
  <2>1. /\ UNCHANGED <<runs, payload, sync.txn, sync.ledger, sync.gen>>
        /\ sync.pc \in Ongoing /\ sync'.pc \in Ongoing \ {"committing"}
    BY <1>7, <1>t DEF AnswerLostAgain, Answer, InstallLedger, InstallPrevious, SyncAt, SyncStates, remoteVars
  <2> QED
    BY <2>1
<1>8. CASE Cleanup
  <2>1. /\ UNCHANGED <<runs, sync.txn>> /\ sync.pc \in {"committed", "failed"} /\ sync.txn \in Txn
        /\ sync'.pc \in {"installing", "idle"}
        /\ sync'.pc = "installing" => UNCHANGED <<sync.ledger, sync.gen>>
    <3>1. CASE SyncAt("installing")
      BY <1>8, <1>t, <3>1 DEF Cleanup, SyncAt, SyncStates
    <3>2. CASE Ends
      BY <1>8, <1>t, <1>n, <3>2 DEF Cleanup, Ends
    <3> QED
      BY <1>8, <3>1, <3>2 DEF Cleanup
  <2>2. payload'[sync.txn] = None \/ payload' = payload
    BY <1>8, <1>t, <2>1 DEF Cleanup
  <2> QED
    BY <2>1, <2>2
<1>9. CASE InstallGeneration \/ SyncDies
  <2>1. UNCHANGED <<runs, sync.txn>> /\ sync'.pc = "idle"
    BY <1>9, <1>n DEF InstallGeneration, SyncDies, Ends, remoteVars
  <2> QED
    BY <2>1
<1> QED
  BY <1>1, <1>2, <1>3, <1>4, <1>5, <1>6, <1>7, <1>8, <1>9 DEF Next, Syncing

\* What a command replaces while its sync goes on.
LEMMA OwnFiles ==
  ASSUME TypeInv, RemoteInv, NEW t \in Txn, NEW a \in Attempt,
         \/ RunLedger(t, a) /\ "ledger" \in tmp[t]
         \/ RunGeneration(t, a) /\ "generation" \in tmp[t],
         "late" \notin past'
  PROVE  t = sync.txn /\ sync.pc \in Ongoing /\ payload[t] = Plan
<1>1. /\ runs[t][a] # "none" /\ Replaced(t) /\ payload[t] # None
  BY DEF RunLedger, RunGeneration, TypeInv, StagedIsThere
<1>2. sync.pc # "idle" /\ sync.txn = t
  BY <1>1 DEF Replaced
<1>3. t \in Nat
  BY DEF Txn
<1>4. sync.pc \in Ongoing
  BY <1>1, <1>2, <1>3 DEF RemoteInv, Begun
<1> QED
  BY <1>1, <1>2, <1>4 DEF RemoteInv, Carried

\* The NAS holds what the sync built.
OnNas == ledger["nas"] = sync.ledger /\ cur["nas"] = sync.gen

\* A command that has replaced the ledger, or both files, of a sync that goes on
\* has put there what the sync built, and nothing has changed it since.
Mirrored == "late" \notin past =>
  /\ sync.pc \in Ongoing => \A a \in Attempt :
       /\ runs[sync.txn][a] = "generation" => ledger["nas"] = sync.ledger
       /\ runs[sync.txn][a] = "done" => OnNas
  /\ sync.pc \in Installed => OnNas
  /\ sync.pc \in {"keeping", "finishing"} /\ "overlap" \notin past => ledger["local"] = sync.ledger

LEMMA MirroredRunning ==
  ASSUME TypeInv, RemoteInv, Mirrored, Running
  PROVE  Mirrored'
<1> SUFFICES ASSUME "late" \notin past' PROVE Mirrored'
  BY DEF Mirrored
<1>1. PICK t \in Txn, a \in Attempt :
        RunInstall(t, a) \/ RunKeep(t, a) \/ RunLedger(t, a) \/ RunGeneration(t, a)
  BY DEF Running
<1>2. /\ ledger \in [Sites -> Ledgers] /\ cur \in [Sites -> Manifests]
      /\ runs \in [Txn -> [Attempt -> RunSteps]]
  BY DEF TypeInv, TypeOK
<1>3. UNCHANGED sync /\ past \subseteq past' /\ ledger'["local"] = ledger["local"]
  BY <1>1, <1>2 DEF RunInstall, RunKeep, RunLedger, RunGeneration, Replaced, LocalUnchanged, Sites
<1>4. /\ sync.pc \in Ongoing => \A b \in Attempt :
           /\ runs[sync.txn][b] = "generation" => ledger["nas"] = sync.ledger
           /\ runs[sync.txn][b] = "done" => OnNas
      /\ sync.pc \in Installed => OnNas
      /\ sync.pc \in {"keeping", "finishing"} /\ "overlap" \notin past => ledger["local"] = sync.ledger
  BY <1>3 DEF Mirrored
<1>5. \E step \in RunSteps : runs' = [runs EXCEPT ![t][a] = step]
  BY <1>1 DEF RunInstall, RunKeep, RunLedger, RunGeneration, Run, RunSteps
<1>6. \A u \in Txn, b \in Attempt : runs'[u][b] = runs[u][b] \/ (u = t /\ b = a)
  BY <1>2, <1>5
<1>7. CASE RunLedger(t, a) /\ "ledger" \in tmp[t]
  <2>1. t = sync.txn /\ payload[t] = Plan
    BY <1>7, OwnFiles
  <2>2. ledger'["nas"] = sync.ledger /\ UNCHANGED cur
    BY <1>2, <1>7, <2>1 DEF RunLedger, Sites, Plan
  <2>3. runs'[t][a] = "generation"
    BY <1>2, <1>7 DEF RunLedger, Run
  <2>4. \A b \in Attempt : runs'[sync.txn][b] = "done" => runs[sync.txn][b] = "done"
    BY <1>6, <2>1, <2>3
  <2> QED
    BY <1>3, <1>4, <2>2, <2>4 DEF Mirrored, OnNas
<1>8. CASE RunGeneration(t, a) /\ "generation" \in tmp[t]
  <2>1. t = sync.txn /\ sync.pc \in Ongoing /\ payload[t] = Plan
    BY <1>8, OwnFiles
  <2>2. UNCHANGED ledger /\ cur'["nas"] = sync.gen /\ runs[t][a] = "generation"
    BY <1>2, <1>8, <2>1 DEF RunGeneration, Sites, Plan
  <2>3. ledger["nas"] = sync.ledger
    BY <1>4, <2>1, <2>2
  <2> QED
    BY <1>3, <1>4, <2>2, <2>3 DEF Mirrored, OnNas
<1>9. CASE /\ UNCHANGED <<ledger, cur, past>>
           /\ \E step \in {"keep", "ledger", "failed"} : Run(t, a, step)
  <2>1. runs'[t][a] \in {"keep", "ledger", "failed"}
    BY <1>2, <1>9 DEF Run
  <2>2. \A u \in Txn, b \in Attempt : runs'[u][b] \in {"generation", "done"} => runs'[u][b] = runs[u][b]
    BY <1>6, <2>1
  <2>3. sync.pc \in Ongoing => sync.txn \in Txn
    BY PublicationAssumption DEF TypeInv, TypeOK, SyncStates, Txn, Ongoing
  <2> QED
    BY <1>3, <1>4, <1>9, <2>2, <2>3 DEF Mirrored, OnNas
<1> QED
  BY <1>1, <1>7, <1>8, <1>9 DEF RunInstall, RunKeep, RunLedger, RunGeneration

LEMMA MirroredSyncing ==
  ASSUME TypeInv, RemoteInv, Mirrored, Syncing
  PROVE  Mirrored'
<1> SUFFICES ASSUME "late" \notin past' PROVE Mirrored'
  BY DEF Mirrored
<1> USE DEF Ongoing, Installed
<1>t. /\ ledger \in [Sites -> Ledgers] /\ cur \in [Sites -> Manifests]
      /\ runs \in [Txn -> [Attempt -> RunSteps]]
      /\ sync \in SyncStates /\ sync.txn \in Nat
      /\ sync.pc # "idle" => sync.txn \in Txn
  BY PublicationAssumption DEF TypeInv, TypeOK, SyncStates, Txn
<1>n. /\ ledger'["nas"] = ledger["nas"] /\ cur'["nas"] = cur["nas"]
      /\ [NoSync EXCEPT !.txn = sync.txn].pc = "idle"
  <2>1. NoSync \in SyncStates /\ [NoSync EXCEPT !.txn = sync.txn].pc = "idle"
    BY Blank DEF SyncStates
  <2> QED
    BY <1>t, <2>1 DEF Syncing, SyncStart, Probe, Stage, DeltaRefused, SyncBuild, Commit, AnswerLost,
       AnswerLostAgain, Answer, Cleanup, Ends, InstallLedger, InstallPrevious, InstallGeneration,
       SyncDies, Sites
<1>p. past \subseteq past'
  BY PastStays DEF Next
<1>0. /\ sync.pc \in Ongoing => \A a \in Attempt :
           /\ runs[sync.txn][a] = "generation" => ledger["nas"] = sync.ledger
           /\ runs[sync.txn][a] = "done" => OnNas
      /\ sync.pc \in Installed => OnNas
      /\ sync.pc \in {"keeping", "finishing"} /\ "overlap" \notin past => ledger["local"] = sync.ledger
  BY <1>p DEF Mirrored
<1>1. CASE \/ SyncStart \/ Probe \/ Stage \/ DeltaRefused \/ (\E c \in Contents : SyncBuild(c))
           \/ InstallGeneration \/ SyncDies \/ (Cleanup /\ Ends)
  <2>1. sync'.pc \in {"copied", "probed", "staged", "built", "idle"}
    <3>1. NoSync \in SyncStates
      BY Blank
    <3> QED
      BY <1>1, <1>t, <1>n, <3>1 DEF SyncStart, Probe, Stage, DeltaRefused, SyncBuild,
         InstallGeneration, SyncDies, Ends, SyncAt, SyncStates
  <2> QED
    BY <2>1 DEF Mirrored
<1>2. CASE Commit \/ AnswerLost
  <2>1. /\ sync'.pc = "committing" /\ UNCHANGED <<sync.txn, sync.ledger, sync.gen>> /\ sync.txn \in Txn
        /\ sync.pc = "staged" \/ sync.pc = "committing"
    BY <1>2, <1>t DEF Commit, AnswerLost, SyncStates
  <2>2. PICK b \in Attempt : runs' = [runs EXCEPT ![sync.txn][b] = "install"]
    BY <1>2 DEF Commit, AnswerLost, Attempt
  <2>3. \A a \in Attempt : runs'[sync.txn][a] \in {"generation", "done"} => runs'[sync.txn][a] = runs[sync.txn][a]
    BY <1>t, <2>1, <2>2
  <2>4. sync.pc = "staged" => \A a \in Attempt : runs[sync.txn][a] = "none"
    BY <1>t, <2>1 DEF RemoteInv, Begun
  <2>5. \A a \in Attempt :
          /\ runs'[sync.txn][a] = "generation" => ledger["nas"] = sync.ledger
          /\ runs'[sync.txn][a] = "done" => OnNas
    BY <1>0, <2>1, <2>3, <2>4
  <2> QED
    BY <1>n, <2>1, <2>5 DEF Mirrored, OnNas
<1>3. CASE AnswerLostAgain \/ Answer
  <2>1. /\ sync.pc = "committing" /\ UNCHANGED <<runs, sync.ledger, sync.gen, sync.txn>>
        /\ sync'.pc = "failed" \/ (sync'.pc = "committed" /\ runs[sync.txn][sync.try] = "done")
        /\ sync.try \in Attempt
    BY <1>3, <1>t DEF AnswerLostAgain, Answer, SyncAt, SyncStates, remoteVars
  <2>2. sync'.pc = "committed" => OnNas
    BY <1>0, <2>1
  <2> QED
    BY <1>0, <1>n, <2>1, <2>2 DEF Mirrored, OnNas
<1>4. CASE (Cleanup /\ SyncAt("installing")) \/ InstallLedger \/ InstallPrevious
  <2>1. /\ sync.pc \in {"committed", "failed", "installing", "keeping"}
        /\ UNCHANGED <<runs, sync.ledger, sync.gen, sync.txn>>
        /\ sync'.pc = "installing" => sync.pc = "committed"
        /\ sync'.pc \in {"installing", "keeping", "finishing"}
        /\ sync'.pc = "keeping" => sync.pc = "installing" /\ ledger'["local"] = sync.ledger
        /\ sync'.pc = "finishing" => sync.pc = "keeping" /\ UNCHANGED <<ledger, past>>
    <3>1. CASE Cleanup /\ SyncAt("installing")
      <4>1. /\ sync.pc \in {"committed", "failed"} /\ sync'.pc = "installing"
            /\ UNCHANGED <<runs, sync.ledger, sync.gen, sync.txn>>
        BY <1>t, <3>1 DEF Cleanup, SyncAt, SyncStates
      <4>2. sync.pc # "committed" => sync'.pc = "idle"
        BY <1>n, <3>1 DEF Cleanup, Ends
      <4> QED
        BY <4>1, <4>2
    <3>2. CASE InstallLedger
      BY <1>t, <3>2 DEF InstallLedger, SyncAt, SyncStates, Sites, remoteVars
    <3>3. CASE InstallPrevious
      BY <1>t, <3>3 DEF InstallPrevious, SyncAt, SyncStates, remoteVars
    <3> QED
      BY <1>4, <3>1, <3>2, <3>3
  <2>2. OnNas
    BY <1>0, <2>1
  <2>3. OnNas'
    BY <1>n, <2>1, <2>2 DEF OnNas
  <2>4. sync'.pc \in {"keeping", "finishing"} /\ "overlap" \notin past' => ledger'["local"] = sync'.ledger
    BY <1>0, <2>1
  <2> QED
    BY <2>1, <2>3, <2>4 DEF Mirrored, OnNas
<1> QED
  BY <1>1, <1>2, <1>3, <1>4 DEF Syncing, Cleanup

LEMMA MirroredStep ==
  ASSUME TypeInv, LeaseHeld, RemoteInv, Mirrored, [Next]_vars
  PROVE  Mirrored'
<1>1. CASE Running
  BY <1>1, MirroredRunning
<1>2. CASE Syncing
  BY <1>2, MirroredSyncing
<1>3. CASE Publisher
  <2>t. ledger \in [Sites -> Ledgers] /\ cur \in [Sites -> Manifests] /\ pub \in PubStates
    BY DEF TypeInv, TypeOK
  <2>1. UNCHANGED <<sync, runs>> /\ ledger'["nas"] = ledger["nas"] /\ cur'["nas"] = cur["nas"]
    BY <1>3, <2>t DEF Publisher, StartPublish, PublishLedger, PublishPrevious, PublishGeneration,
       PublisherDies, remoteVars, Sites
  <2>2. sync.pc # "idle" /\ "overlap" \notin past' => UNCHANGED ledger /\ "overlap" \notin past
    <3>1. CASE PublishLedger
      <4>1. pub.pc = "built" /\ pub.by \in {"engine", "evidence"}
        BY <2>t, <3>1 DEF PublishLedger, PubStates
      <4>2. sync.pc # "idle" => pub.by = "engine"
        BY <4>1 DEF LeaseHeld
      <4> QED
        BY <3>1, <4>2 DEF PublishLedger
    <3>2. CASE ~PublishLedger
      BY <1>3, <3>2 DEF Publisher, StartPublish, PublishPrevious, PublishGeneration, PublisherDies
    <3> QED
      BY <3>1, <3>2
  <2>3. past \subseteq past'
    BY <1>3, PastStays DEF Next
  <2> QED
    BY <2>1, <2>2, <2>3 DEF Mirrored, OnNas
<1>4. CASE UNCHANGED vars
  BY <1>4 DEF vars, Mirrored, OnNas
<1> QED
  BY <1>1, <1>2, <1>3, <1>4 DEF Next

\* The ledger the NAS must not be ahead of.
Base == IF sync.pc \in {"idle", "keeping", "finishing"} THEN ledger["local"] ELSE sync.ledger

NasServed == past \cap {"half", "late"} = {} =>
  /\ IsPrefix(ledger["nas"], Base)
  /\ cur["nas"] # None => Complete(cur["nas"], ledger["nas"])

\* A commit command installs what its sync staged.
LEMMA NasRunning ==
  ASSUME TypeInv, BuiltInv, RemoteInv, Mirrored, NasServed, Running
  PROVE  NasServed'
<1> SUFFICES ASSUME past' \cap {"half", "late"} = {}
             PROVE  /\ IsPrefix(ledger'["nas"], Base')
                    /\ cur'["nas"] # None => Complete(cur'["nas"], ledger'["nas"])
  BY DEF NasServed
<1>1. PICK t \in Txn, a \in Attempt :
        RunInstall(t, a) \/ RunKeep(t, a) \/ RunLedger(t, a) \/ RunGeneration(t, a)
  BY DEF Running
<1>2. /\ ledger \in [Sites -> Ledgers] /\ cur \in [Sites -> Manifests] /\ sync.ledger \in Ledgers
      /\ ledger["nas"] \in Ledgers /\ cur["nas"] \in Manifests
  BY DEF TypeInv, TypeOK, SyncStates, Sites
<1>3. UNCHANGED sync /\ past \subseteq past' /\ ledger'["local"] = ledger["local"]
  BY <1>1, <1>2 DEF RunInstall, RunKeep, RunLedger, RunGeneration, Replaced, LocalUnchanged, Sites
<1>4. /\ IsPrefix(ledger["nas"], Base) /\ Base' = Base
      /\ cur["nas"] # None => Complete(cur["nas"], ledger["nas"])
  BY <1>3 DEF NasServed, Base
<1>5. sync.pc \in {"keeping", "finishing"} => ledger["nas"] = sync.ledger
  BY <1>3 DEF Mirrored, OnNas, Installed
<1>6. CASE RunLedger(t, a) /\ "ledger" \in tmp[t]
  <2>1. t = sync.txn /\ sync.pc \in Ongoing /\ payload[t] = Plan
    BY <1>6, OwnFiles
  <2>2. ledger'["nas"] = sync.ledger /\ UNCHANGED cur
    BY <1>2, <1>6, <2>1 DEF RunLedger, Sites, Plan
  <2>3. CASE sync.pc \in {"keeping", "finishing"}
    BY <1>4, <1>5, <2>2, <2>3
  <2>4. CASE sync.pc \notin {"keeping", "finishing"}
    <3>1. Base = sync.ledger
      BY <2>1, <2>4 DEF Base, Ongoing
    <3>2. cur["nas"] # None => Complete(cur["nas"], sync.ledger)
      BY <1>2, <1>4, <3>1, CompleteGrows
    <3> QED
      BY <1>2, <1>4, <2>2, <3>1, <3>2, PrefixReflexive
  <2> QED
    BY <2>3, <2>4
<1>7. CASE RunGeneration(t, a) /\ "generation" \in tmp[t]
  <2>1. t = sync.txn /\ sync.pc \in Ongoing /\ payload[t] = Plan
    BY <1>7, OwnFiles
  <2>2. UNCHANGED ledger /\ cur'["nas"] = sync.gen /\ runs[t][a] = "generation"
    BY <1>2, <1>7, <2>1 DEF RunGeneration, Sites, Plan
  <2>3. ledger["nas"] = sync.ledger
    BY <1>3, <2>1, <2>2 DEF Mirrored
  <2>4. Complete(sync.gen, sync.ledger)
    BY <1>2, <2>1, PrefixReflexive DEF Complete, BuiltInv, Built, Ongoing
  <2> QED
    BY <1>4, <2>2, <2>3, <2>4
<1>8. CASE UNCHANGED <<ledger, cur>>
  BY <1>4, <1>8
<1> QED
  BY <1>1, <1>6, <1>7, <1>8 DEF RunInstall, RunKeep, RunLedger, RunGeneration

LEMMA NasSyncing ==
  ASSUME TypeInv, NasServed, Syncing
  PROVE  NasServed'
<1> SUFFICES ASSUME past' \cap {"half", "late"} = {}
             PROVE  /\ IsPrefix(ledger'["nas"], Base')
                    /\ cur'["nas"] # None => Complete(cur'["nas"], ledger'["nas"])
  BY DEF NasServed
<1>t. /\ ledger \in [Sites -> Ledgers] /\ cur \in [Sites -> Manifests]
      /\ sync \in SyncStates /\ sync.ledger \in Ledgers
      /\ ledger["nas"] \in Ledgers /\ ledger["local"] \in Ledgers
  BY DEF TypeInv, TypeOK, SyncStates, Sites
<1>p. past \subseteq past'
  BY PastStays DEF Next
<1>0. /\ IsPrefix(ledger["nas"], Base)
      /\ cur["nas"] # None => Complete(cur["nas"], ledger["nas"])
  BY <1>p DEF NasServed
<1>1. ledger'["nas"] = ledger["nas"] /\ cur'["nas"] = cur["nas"]
  BY <1>t DEF Syncing, SyncStart, Probe, Stage, DeltaRefused, SyncBuild, Commit, AnswerLost,
     AnswerLostAgain, Answer, Cleanup, Ends, InstallLedger, InstallPrevious, InstallGeneration,
     SyncDies, Sites
<1>n. NoSync \in SyncStates /\ [NoSync EXCEPT !.txn = sync.txn].pc = "idle"
  BY Blank DEF SyncStates
<1>2. IsPrefix(ledger["nas"], Base')
  <2>1. CASE SyncStart
    <3>1. sync.pc = "idle" /\ sync'.pc = "copied" /\ sync'.ledger = ledger["local"]
      BY <2>1, <1>n DEF SyncStart, SyncStates
    <3> QED
      BY <1>0, <3>1 DEF Base
  <2>2. ASSUME NEW c \in Contents, SyncBuild(c)
        PROVE  IsPrefix(ledger["nas"], Base')
    <3>1. PICK r \in Record : sync'.ledger = Appended(sync.ledger, r)
      BY <2>2, CopyContents
    <3>2. sync.pc = "copied"
      BY <2>2 DEF SyncBuild
    <3>3. sync'.pc = "built"
      BY <2>2, <1>t DEF SyncBuild, SyncStates
    <3>4. sync'.ledger \in Ledgers /\ IsPrefix(sync.ledger, sync'.ledger)
      BY <1>t, <3>1, AppendedGrows
    <3>5. IsPrefix(ledger["nas"], sync.ledger)
      BY <1>0, <3>2 DEF Base
    <3>6. Base' = sync'.ledger
      BY <3>3 DEF Base
    <3> QED
      BY <1>t, <3>4, <3>5, <3>6, PrefixTransitive
  <2>3. CASE Ends /\ UNCHANGED ledger
    <3>1. IsPrefix(ledger["nas"], ledger["local"])
      BY <2>3 DEF Ends
    <3>2. sync'.pc = "idle"
      BY <2>3, <1>n DEF Ends
    <3> QED
      BY <2>3, <3>1, <3>2 DEF Base
  <2>4. CASE InstallGeneration
    <3>1. sync.pc = "finishing" /\ sync'.pc = "idle" /\ UNCHANGED ledger
      BY <2>4, <1>n DEF InstallGeneration
    <3> QED
      BY <1>0, <3>1 DEF Base
  <2>5. CASE InstallLedger
    <3>1. sync.pc = "installing" /\ sync'.pc = "keeping" /\ ledger'["local"] = sync.ledger
      BY <2>5, <1>t DEF InstallLedger, SyncAt, SyncStates, Sites
    <3> QED
      BY <1>0, <3>1 DEF Base
  <2>6. CASE InstallPrevious
    <3>1. sync.pc = "keeping" /\ sync'.pc = "finishing" /\ UNCHANGED ledger
      BY <2>6, <1>t DEF InstallPrevious, SyncAt, SyncStates
    <3> QED
      BY <1>0, <3>1 DEF Base
  <2>7. CASE \/ Probe \/ Stage \/ DeltaRefused \/ Commit \/ AnswerLost \/ AnswerLostAgain \/ Answer
             \/ (Cleanup /\ SyncAt("installing"))
    <3>1. /\ sync.pc \notin {"idle", "keeping", "finishing"}
          /\ sync'.pc \notin {"idle", "keeping", "finishing"} /\ sync'.ledger = sync.ledger
      BY <2>7, <1>t DEF Probe, Stage, DeltaRefused, Commit, AnswerLost, AnswerLostAgain, Answer,
         Cleanup, SyncAt, SyncStates
    <3> QED
      BY <1>0, <3>1 DEF Base
  <2> QED
    BY <2>1, <2>2, <2>3, <2>4, <2>5, <2>6, <2>7 DEF Syncing, Cleanup, SyncDies
<1> QED
  BY <1>0, <1>1, <1>2

LEMMA NasServedStep ==
  ASSUME TypeInv, BuiltInv, RemoteInv, Mirrored, NasServed, [Next]_vars
  PROVE  NasServed'
<1>1. CASE Running
  BY <1>1, NasRunning
<1>2. CASE Syncing
  BY <1>2, NasSyncing
<1>3. CASE Publisher
  <2>t. /\ ledger["local"] \in Ledgers /\ ledger["nas"] \in Ledgers
        /\ pub \in PubStates /\ ledger \in [Sites -> Ledgers] /\ cur \in [Sites -> Manifests]
    BY DEF TypeInv, TypeOK, Sites
  <2>1. UNCHANGED <<sync, runs>> /\ ledger'["nas"] = ledger["nas"] /\ cur'["nas"] = cur["nas"]
    BY <1>3, <2>t DEF Publisher, StartPublish, PublishLedger, PublishPrevious, PublishGeneration,
       PublisherDies, remoteVars, Sites
  <2>2. ledger'["local"] \in Ledgers /\ IsPrefix(ledger["local"], ledger'["local"])
    <3>1. CASE PublishLedger
      <4> DEFINE r == [snap |-> pub.snap, at |-> pub.at, by |-> pub.by]
      <4>1. r \in Record
        BY <3>1, <2>t, PublicationAssumption DEF PublishLedger, TypeInv, TypeOK, Record, Writers, PubStates
      <4>2. ledger'["local"] = Appended(ledger["local"], r)
        BY <3>1, <2>t DEF PublishLedger, Sites
      <4> HIDE DEF r
      <4> QED
        BY <2>t, <4>1, <4>2, AppendedGrows
    <3>2. CASE ~PublishLedger
      <4>1. UNCHANGED ledger
        BY <1>3, <3>2 DEF Publisher, StartPublish, PublishPrevious, PublishGeneration, PublisherDies
      <4> QED
        BY <2>t, <4>1, PrefixReflexive
    <3> QED
      BY <3>1, <3>2
  <2>3. IsPrefix(ledger["nas"], Base) => IsPrefix(ledger["nas"], Base')
    BY <2>t, <2>1, <2>2, PrefixTransitive DEF Base
  <2>4. past \subseteq past'
    BY <1>3, PastStays DEF Next
  <2> QED
    BY <2>1, <2>3, <2>4 DEF NasServed
<1>4. CASE UNCHANGED vars
  BY <1>4 DEF vars, NasServed, Base
<1> QED
  BY <1>1, <1>2, <1>3, <1>4 DEF Next

\* A site that has a generation serves a complete one: the NAS until a sync has
\* ended between the two sites or a commit command replaced a file after its
\* sync, the local directory until an engine wrote during a sync.
THEOREM GenerationIsServed == Spec => []AlwaysServed
<1> DEFINE Inv == LocalInv /\ BuiltInv /\ LocalServed /\ RemoteInv /\ Mirrored /\ NasServed
<1>1. Init => Inv
  <2> SUFFICES ASSUME Init PROVE Inv
    OBVIOUS
  <2>1. TypeInv
    BY TypeInit
  <2>2. LocalInv /\ BuiltInv /\ LocalServed
    BY <2>1, EmptySeq DEF Init, LocalInv, LeaseHeld, CopyExtends, BuiltInv, TimelyInv, Built, Until,
       LocalServed, Sites, NoPub, NoSync
  <2>3. sync.pc = "idle" /\ \A t \in Txn, a \in Attempt : runs[t][a] = "none"
    BY DEF Init, NoSync
  <2>4. ledger["nas"] = <<>> /\ ledger["local"] = <<>> /\ cur["nas"] = None /\ <<>> \in Ledgers
    BY EmptySeq DEF Init, Sites, Ledgers
  <2>5. RemoteInv /\ Mirrored
    BY <2>3 DEF RemoteInv, Begun, Carried, Mirrored, Ongoing, Installed
  <2>6. NasServed
    BY <2>3, <2>4, PrefixReflexive DEF NasServed, Base
  <2> QED
    BY <2>2, <2>5, <2>6
<1>2. Inv /\ [Next]_vars => Inv'
  BY LocalStep, BuiltStep, LocalServedStep, RemoteStep, MirroredStep, NasServedStep DEF LocalInv
<1>3. Inv => AlwaysServed
  BY CompleteIsServed DEF AlwaysServed, LocalServed, NasServed, Sites
<1> QED
  BY <1>1, <1>2, <1>3, PTL DEF Spec

Agreement ==
  (/\ sync.pc = "finishing" /\ sync'.pc = "idle" /\ cur'["local"] = sync.gen
   /\ past \cap {"overlap", "late"} = {})
    => /\ ledger'["nas"] = ledger'["local"] /\ cur'["nas"] = cur'["local"]
       /\ Serves("nas")' = cur'["nas"]

LEMMA EndsAgreed ==
  ASSUME TypeInv, BuiltInv, Mirrored, [Next]_vars
  PROVE  Agreement
<1> SUFFICES ASSUME sync.pc = "finishing", sync'.pc = "idle", cur'["local"] = sync.gen,
                    past \cap {"overlap", "late"} = {}
             PROVE  /\ ledger'["nas"] = ledger'["local"] /\ cur'["nas"] = cur'["local"]
                    /\ Serves("nas")' = cur'["nas"]
  BY DEF Agreement
<1>t. /\ cur \in [Sites -> Manifests] /\ sync \in SyncStates /\ sync.ledger \in Ledgers
  BY DEF TypeInv, TypeOK, SyncStates
<1>1. InstallGeneration \/ SyncDies
  <2>1. CASE Publisher \/ Running \/ UNCHANGED vars
    <3>1. UNCHANGED sync
      BY <2>1 DEF Publisher, StartPublish, PublishLedger, PublishPrevious, PublishGeneration,
         PublisherDies, Running, RunInstall, RunKeep, RunLedger, RunGeneration, LocalUnchanged, vars
    <3> QED
      BY <3>1
  <2> QED
    BY <2>1 DEF Next, Syncing, SyncStart, Probe, Stage, DeltaRefused, SyncBuild, Commit, AnswerLost,
       AnswerLostAgain, Answer, Cleanup, InstallLedger, InstallPrevious
<1>2. UNCHANGED ledger /\ cur'["nas"] = cur["nas"]
  BY <1>1, <1>t DEF InstallGeneration, SyncDies, Sites
<1>3. ledger["nas"] = sync.ledger /\ cur["nas"] = sync.gen /\ ledger["local"] = sync.ledger
  BY DEF Mirrored, OnNas, Installed
<1>4. Complete(sync.gen, sync.ledger)
  BY <1>t, PrefixReflexive DEF Complete, BuiltInv, Built
<1> QED
  BY <1>2, <1>3, <1>4 DEF Serves

\* A sync that ends normally leaves the same generation on both sites over the
\* same ledger, complete and served on the NAS, unless an engine wrote during a
\* sync or a commit command replaced a file when its sync was over.
THEOREM SyncedSitesAreAgreed == Spec => SyncedSitesAgree
<1> DEFINE Inv == LocalInv /\ BuiltInv /\ RemoteInv /\ Mirrored
<1>1. Init => Inv
  <2> SUFFICES ASSUME Init PROVE Inv
    OBVIOUS
  <2>1. TypeInv
    BY TypeInit
  <2>2. LocalInv /\ BuiltInv
    BY <2>1, EmptySeq DEF Init, LocalInv, LeaseHeld, CopyExtends, BuiltInv, TimelyInv, Built, Until,
       Sites, NoPub, NoSync
  <2>3. sync.pc = "idle" /\ \A t \in Txn, a \in Attempt : runs[t][a] = "none"
    BY DEF Init, NoSync
  <2> QED
    BY <2>2, <2>3 DEF RemoteInv, Begun, Carried, Mirrored, Ongoing, Installed
<1>2. Inv /\ [Next]_vars => Inv'
  BY LocalStep, BuiltStep, RemoteStep, MirroredStep DEF LocalInv
<1>3. Inv /\ [Next]_vars => [Agreement]_vars
  BY EndsAgreed DEF LocalInv
<1> HIDE DEF Inv
<1>4. Spec => [][Agreement]_vars
  BY <1>1, <1>2, <1>3, PTL DEF Spec
<1> QED
  BY <1>4 DEF SyncedSitesAgree, Agreement

-----------------------------------------------------------------------------
(* Requests of the dashboard *)

LEMMA DivFacts ==
  ASSUME NEW a \in Nat, NEW d \in Nat \ {0}
  PROVE  /\ a \div d \in Nat /\ a % d \in 0..(d-1) /\ a = d * (a \div d) + (a % d)
  OBVIOUS
LEMMA DivMonotone ==
  ASSUME NEW a \in Nat, NEW b \in Nat, a <= b, NEW d \in Nat \ {0}
  PROVE  a \div d <= b \div d
<1> DEFINE x == a \div d
           y == b \div d
<1>1. x \in Nat /\ y \in Nat /\ a % d \in 0..(d-1) /\ b % d \in 0..(d-1)
      /\ a = d * x + (a % d) /\ b = d * y + (b % d)
  BY DivFacts
<1> HIDE DEF x, y
<1>2. ASSUME x > y PROVE FALSE
  <2>1. x >= y + 1 BY <1>1, <1>2
  <2>2. PICK k \in Nat : x = y + 1 + k BY <1>1, <2>1
  <2>3. d * x = d * y + d + d * k BY <1>1, <2>2
  <2>4. d * k \in Nat BY <2>2
  <2>5. d * y \in Nat /\ d * x \in Nat BY <1>1
  <2> QED BY <1>1, <2>3, <2>4, <2>5
<1> QED BY <1>1, <1>2 DEF x, y

\* A finite set of positions has its members in order, each of them once.
LEMMA AscendingOrders ==
  ASSUME NEW S, \A x \in S : x \in Nat, IsFiniteSet(S)
  PROVE  /\ Cardinality(S) \in Nat
         /\ Ascending(S) \in [1..Cardinality(S) -> S]
         /\ \A m, n \in 1..Cardinality(S) : m < n => Ascending(S)[m] < Ascending(S)[n]
         /\ \A x \in S : \E n \in 1..Cardinality(S) : Ascending(S)[n] = x
<1> DEFINE N == Cardinality(S)
           Below(x) == {y \in S : y < x}
           Place == [x \in S |-> Cardinality(Below(x)) + 1]
<1>0. \A x \in S : x \in Nat
  OBVIOUS
<1>1. N \in Nat /\ IsFiniteSet(1..N) /\ Cardinality(1..N) = N
  BY FS_CardinalityType, FS_Interval
<1>2. ASSUME NEW x \in S
      PROVE  IsFiniteSet(Below(x)) /\ Cardinality(Below(x)) \in Nat /\ Cardinality(Below(x)) < N
  <2>1. Below(x) \in SUBSET S /\ x \notin Below(x)
    OBVIOUS
  <2>2. IsFiniteSet(Below(x)) /\ Cardinality(Below(x)) <= N
        /\ (N = Cardinality(Below(x)) => S = Below(x))
    BY <2>1, FS_Subset
  <2>3. Cardinality(Below(x)) \in Nat
    BY <2>2, FS_CardinalityType
  <2> QED BY <1>1, <2>1, <2>2, <2>3
<1>3. ASSUME NEW x \in S, NEW y \in S, x < y
      PROVE  Cardinality(Below(x)) < Cardinality(Below(y))
  <2>1. Below(x) \in SUBSET Below(y) /\ x \in Below(y) /\ x \notin Below(x)
    <3>1. x \in Nat /\ y \in Nat /\ x < y
      BY <1>0, <1>3
    <3>2. ASSUME NEW z \in S, z < x PROVE z < y
      BY <1>0, <3>1, <3>2
    <3>3. Below(x) \subseteq Below(y)
      BY <3>2
    <3>4. x \in Below(y) /\ x \notin Below(x)
      BY <3>1
    <3> QED BY <3>3, <3>4
  <2>2. Cardinality(Below(x)) <= Cardinality(Below(y))
        /\ (Cardinality(Below(y)) = Cardinality(Below(x)) => Below(y) = Below(x))
    BY <1>2, <2>1, FS_Subset
  <2> HIDE DEF Below
  <2> QED BY <1>2, <2>1, <2>2
<1>4. Place \in [S -> 1..N]
  <2> HIDE DEF Below
  <2>1. \A x \in S : Cardinality(Below(x)) + 1 \in 1..N
    BY <1>1, <1>2
  <2> QED BY <2>1
<1>5. \A x, y \in S : x < y => Place[x] < Place[y]
  <2> HIDE DEF Below
  <2> QED BY <1>2, <1>3
<1> HIDE DEF Place
<1>6. Place \in Surjection(S, 1..N)
  <2>1. Place \in Injection(S, 1..N)
    <3>1. \A x, y \in S : Place[x] = Place[y] => x = y
      <4> SUFFICES ASSUME NEW x \in S, NEW y \in S, x # y PROVE Place[x] # Place[y]
        OBVIOUS
      <4>1. x < y \/ y < x
        BY <1>0
      <4>2. Place[x] \in Int /\ Place[y] \in Int
        BY <1>1, <1>4
      <4> QED BY <1>5, <4>1, <4>2
    <3> QED BY <1>4, <3>1 DEF Injection, IsInjective
  <2> QED BY <2>1, <1>1, FS_Injection
<1> DEFINE s == [n \in 1..N |-> CHOOSE x \in S : Place[x] = n]
<1>7. \A n \in 1..N : s[n] \in S /\ Place[s[n]] = n
  BY <1>6 DEF Surjection
<1>8. s \in [1..N -> S]
  BY <1>7
<1> HIDE DEF s
<1>9. \A m, n \in DOMAIN s : m < n => s[m] < s[n]
  <2> SUFFICES ASSUME NEW m \in 1..N, NEW n \in 1..N, m < n
               PROVE  s[m] < s[n]
    BY <1>8
  <2>1. /\ s[m] \in S /\ Place[s[m]] = m /\ m \in Nat
        /\ s[n] \in S /\ Place[s[n]] = n /\ n \in Nat
    BY <1>1, <1>7
  <2>2. s[m] \in Nat /\ s[n] \in Nat /\ s[m] # s[n] /\ ~ s[n] < s[m]
    BY <1>0, <1>5, <2>1
  <2> QED BY <2>1, <2>2
<1> DEFINE t == Ascending(S)
<1>10. t \in [1..N -> S] /\ \A m, n \in DOMAIN t : m < n => t[m] < t[n]
  <2> QED BY <1>8, <1>9 DEF Ascending
<1> HIDE DEF t
<1>11. t \in Surjection(1..N, S)
  <2>1. \A m, n \in 1..N : t[m] = t[n] => m = n
    <3> SUFFICES ASSUME NEW m \in 1..N, NEW n \in 1..N, m # n PROVE t[m] # t[n]
      OBVIOUS
    <3>1. t[m] \in S /\ t[n] \in S /\ m \in Nat /\ n \in Nat
      BY <1>1, <1>10
    <3>2. t[m] \in Nat /\ t[n] \in Nat /\ (m < n \/ n < m)
      BY <1>0, <3>1
    <3> QED BY <1>10, <3>2
  <2>2. t \in Injection(1..N, S)
    BY <1>10, <2>1 DEF Injection, IsInjective
  <2> QED BY <1>1, <2>2, FS_Injection
<1> QED BY <1>1, <1>10, <1>11 DEF Surjection, t

LEMMA FirstIsOne ==
  ASSUME NEW S, \A x \in S : x \in Nat, IsFiniteSet(S), S # {}
  PROVE  First(S) \in S
<1> DEFINE s == Ascending(S)
           N == Cardinality(S)
           least == s[1]
<1>0. /\ N \in Nat /\ s \in [1..N -> S]
      /\ \A i, j \in 1..N : i < j => s[i] < s[j]
      /\ \A k \in S : \E i \in 1..N : s[i] = k
  BY AscendingOrders
<1> HIDE DEF s, N
<1>3. least \in S /\ \A k \in S : least <= k
  <2> SUFFICES ASSUME NEW k \in S PROVE least \in S /\ least <= k
    OBVIOUS
  <2>1. PICK m \in 1..N : s[m] = k
    BY <1>0
  <2>2. 1 \in 1..N /\ (m = 1 \/ 1 < m)
    BY <1>0
  <2>3. s[1] \in S /\ s[1] \in Nat /\ k \in Nat
    BY <1>0, <2>2
  <2>4. m = 1 \/ s[1] < s[m]
    BY <1>0, <2>2
  <2> QED BY <2>1, <2>3, <2>4
<1> HIDE DEF least
<1> QED BY <1>3 DEF First

-----------------------------------------------------------------------------
(* What holds of the requests on the NAS, seen from what is on its way to   *)
(* them: the worker's claim, its files and the calls it has given up.       *)

Clear(i) == ran[i] \in {"never", "deferred"}
Unstarted == {"claimed", "execute"}
Ending == {"executed", "finish", "mark", "republish", "remark"}
Busy == Unstarted \cup {"executing"} \cup Ending

Shaped(q) == q \in Seq(Request) /\ \A j \in DOMAIN q : q[j].created <= now
Distinct(q) == \A j, k \in DOMAIN q : q[j].id = q[k].id => j = k
Sole(q) ==
  \A j, k \in DOMAIN q :
    IsActive(q[j]) /\ IsActive(q[k]) /\ q[j].target = q[k].target => j = k
QueuedIsClear(q) == \A j \in DOMAIN q : q[j].status = "queued" => Clear(q[j].id)

\* A call given up names a claim already issued; if it still counts and puts the
\* request back into the queue, the request was not executed.
LateIsKnown(q) ==
  \A c \in late, j \in DOMAIN q :
    c.mode = "finish" /\ c.claim.id = q[j].id =>
      /\ c.claim.token <= q[j].token
      /\ c.claim.token = q[j].token /\ c.result.status = "queued" => Clear(q[j].id)
ClaimsAreIssued(q) ==
  \A j \in DOMAIN q :
    /\ file[q[j].id].token <= q[j].token
    /\ pc \in Busy /\ held.id = q[j].id => held.token <= q[j].token

\* Until it starts to execute, the worker's request is running under its claim
\* or is over.
LeaseStands(q) ==
  pc \in Unstarted =>
    \/ Over(held)
    \/ \E j \in DOMAIN q : /\ q[j].id = held.id /\ q[j].token = held.token
                           /\ q[j].created = held.created /\ q[j].status = "running"

Sound(q) ==
  /\ Shaped(q) /\ Distinct(q) /\ Sole(q)
  /\ QueuedIsClear(q) /\ LateIsKnown(q) /\ ClaimsAreIssued(q) /\ LeaseStands(q)

\* What holds of the worker, its files and its calls by themselves.
WorkerTyped ==
  /\ OpTypeOK /\ held.created <= now
  /\ \A c \in late : c.mode = "finish" => c.result.status # "none"
  /\ \A i \in Id : file[i].result.status = "none" => file[i].result = NoResult
  /\ pc \in Ending => result.status # "none"
FilesAreClear ==
  \A i \in Id : /\ file[i].result.status = "queued" => Clear(i)
                /\ file[i].token = 0 => file[i] = NoFile
CallsHaveFiles ==
  /\ \A c \in late : c.mode = "finish" => file[c.claim.id].token > 0
  /\ pc \in Busy => held.token > 0
  /\ pc \in Busy \ {"claimed"} => file[held.id].token > 0
FreshClaim ==
  pc \in Unstarted =>
    /\ Clear(held.id)
    /\ \A c \in late : c.mode = "finish" /\ c.claim.id = held.id => c.claim.token < held.token
Executed ==
  /\ pc \in {"execute", "executing", "executed"} =>
       file[held.id] = [token |-> held.token, result |-> NoResult, published |-> FALSE]
  /\ pc = "executing" => ran[held.id] = "unknown"
  /\ pc \in Ending /\ result.status = "queued" => Clear(held.id)
  /\ pc = "republish" => held.token = file[held.id].token

WorkerInv == WorkerTyped /\ FilesAreClear /\ CallsHaveFiles /\ FreshClaim /\ Executed
OpInv == Sound(queue) /\ WorkerInv

-----------------------------------------------------------------------------
(* What each transaction does to a sound queue *)

\* A queue made of other places of a sound one, none twice, is sound if no
\* running request is left out.
LEMMA Thinned ==
  ASSUME NEW q, Sound(q), NEW t \in Seq(Request), NEW m \in [DOMAIN t -> DOMAIN q],
         \A n \in DOMAIN t : t[n] = q[m[n]],
         \A n, k \in DOMAIN t : m[n] = m[k] => n = k,
         \A j \in DOMAIN q : q[j].status = "running" => \E n \in DOMAIN t : m[n] = j
  PROVE  Sound(t)
<1> USE DEF Sound
<1>1. Shaped(t) /\ Distinct(t) /\ Sole(t)
  BY DEF Shaped, Distinct, Sole
<1>2. QueuedIsClear(t) /\ ClaimsAreIssued(t)
  BY DEF QueuedIsClear, ClaimsAreIssued
<1>3. LateIsKnown(t)
  BY DEF LateIsKnown
<1>4. LeaseStands(t)
  BY DEF LeaseStands
<1> QED BY <1>1, <1>2, <1>3, <1>4

LEMMA ExpiredIsSound ==
  ASSUME NEW q, Sound(q)
  PROVE  /\ Sound(Expired(q)) /\ DOMAIN Expired(q) = DOMAIN q
         /\ \A j \in DOMAIN q : /\ Expired(q)[j].id = q[j].id
                                /\ Expired(q)[j].target = q[j].target
                                /\ IsActive(Expired(q)[j]) => Expired(q)[j] = q[j]
<1> DEFINE t == Expired(q)
<1>1. q \in Seq(Request) /\ \A j \in DOMAIN q : q[j] \in Request
  BY DEF Sound, Shaped
<1>2. DOMAIN t = DOMAIN q
  BY DEF Expired
<1>3. \A j \in DOMAIN q :
        /\ t[j] \in Request /\ t[j].id = q[j].id /\ t[j].target = q[j].target
        /\ t[j].token = q[j].token /\ t[j].created = q[j].created
        /\ t[j] = q[j] \/ (~IsActive(t[j]) /\ Over(q[j]))
  BY <1>1 DEF Expired, Request, IsActive, Active, Status
<1>4. t \in Seq(Request)
  <2>1. Len(q) \in Nat /\ DOMAIN q = 1..Len(q)
    BY <1>1
  <2>2. t = [j \in 1..Len(q) |-> t[j]]
    BY <2>1 DEF Expired
  <2>3. \A j \in 1..Len(q) : t[j] \in Request
    BY <1>3, <2>1
  <2> HIDE DEF t
  <2> QED BY <2>1, <2>2, <2>3, IsASeq
<1> HIDE DEF t
<1> USE DEF Sound
<1>5. Shaped(t) /\ Distinct(t) /\ Sole(t)
  BY <1>2, <1>3, <1>4 DEF Shaped, Distinct, Sole
<1>6. QueuedIsClear(t) /\ ClaimsAreIssued(t)
  BY <1>2, <1>3 DEF QueuedIsClear, ClaimsAreIssued, IsActive, Active
<1>7. LateIsKnown(t)
  BY <1>2, <1>3 DEF LateIsKnown
<1>8. LeaseStands(t)
  BY <1>2, <1>3 DEF LeaseStands, Over
<1> QED BY <1>2, <1>3, <1>5, <1>6, <1>7, <1>8 DEF t
LEMMA TrimmedIsSound ==
  ASSUME NEW q, Sound(q), Keep \in Nat
  PROVE  /\ Sound(Trimmed(q))
         /\ \A n \in DOMAIN Trimmed(q) : \E j \in DOMAIN q : Trimmed(q)[n] = q[j]
<1> DEFINE live == {j \in DOMAIN q : IsActive(q[j])}
           over == DOMAIN q \ live
           recent == {j \in over : Cardinality({k \in over : k > j}) < Keep}
           first == Ascending(live)
           rest == Ascending(recent)
           a == Cardinality(live)
           b == Cardinality(recent)
           order == first \o rest
           t == [n \in DOMAIN order |-> q[order[n]]]
<1>1. q \in Seq(Request) /\ Len(q) \in Nat /\ DOMAIN q = 1..Len(q)
  BY DEF Sound, Shaped
<1>2. IsFiniteSet(DOMAIN q)
  BY <1>1, FS_Interval
<1>3. live \in SUBSET DOMAIN q /\ recent \in SUBSET DOMAIN q /\ live \cap recent = {}
  OBVIOUS
<1>4. \A j \in DOMAIN q : q[j].status = "running" => j \in live
  BY DEF IsActive, Active
<1> HIDE DEF live, recent
<1>5. IsFiniteSet(live) /\ IsFiniteSet(recent)
  BY <1>2, <1>3, FS_Subset
<1>6. (\A j \in live : j \in Nat) /\ (\A j \in recent : j \in Nat)
  BY <1>1, <1>3
<1>7. /\ a \in Nat /\ first \in [1..a -> live]
      /\ \A m, n \in 1..a : m < n => first[m] < first[n]
      /\ \A x \in live : \E n \in 1..a : first[n] = x
  BY <1>5, <1>6, AscendingOrders
<1>8. /\ b \in Nat /\ rest \in [1..b -> recent]
      /\ \A m, n \in 1..b : m < n => rest[m] < rest[n]
  BY <1>5, <1>6, AscendingOrders
<1> HIDE DEF first, rest, a, b
<1>9. first \in Seq(DOMAIN q) /\ rest \in Seq(DOMAIN q) /\ Len(first) = a /\ Len(rest) = b
  BY <1>3, <1>7, <1>8, SeqDef
<1>10. /\ order \in Seq(DOMAIN q) /\ Len(order) = a + b
       /\ \A n \in 1..(a + b) : order[n] = IF n <= a THEN first[n] ELSE rest[n - a]
  BY <1>9, ConcatProperties
<1> HIDE DEF order
<1>11. order \in [1..(a + b) -> DOMAIN q] /\ DOMAIN order = 1..(a + b)
  BY <1>10
<1>12. \A m, n \in 1..(a + b) : m < n => order[m] # order[n]
  <2> SUFFICES ASSUME NEW m \in 1..(a + b), NEW n \in 1..(a + b), m < n
               PROVE  order[m] # order[n]
    OBVIOUS
  <2>1. CASE n <= a
    <3>1. m \in 1..a /\ n \in 1..a
      BY <1>7, <1>8, <2>1
    <3>2. first[m] < first[n] /\ first[m] \in Nat /\ first[n] \in Nat
      BY <1>6, <1>7, <3>1
    <3> QED BY <1>10, <2>1, <3>1, <3>2
  <2>2. CASE m <= a /\ ~(n <= a)
    <3>1. m \in 1..a /\ n - a \in 1..b
      BY <1>7, <1>8, <2>2
    <3>2. first[m] \in live /\ rest[n - a] \in recent
      BY <1>7, <1>8, <3>1
    <3> QED BY <1>3, <1>10, <2>2, <3>2
  <2>3. CASE ~(m <= a)
    <3>1. m - a \in 1..b /\ n - a \in 1..b /\ m - a < n - a /\ ~(n <= a)
      BY <1>7, <1>8, <2>3
    <3>2. rest[m - a] < rest[n - a] /\ rest[m - a] \in Nat /\ rest[n - a] \in Nat
      BY <1>6, <1>8, <3>1
    <3> QED BY <1>10, <2>3, <3>1, <3>2
  <2> QED BY <1>7, <1>8, <2>1, <2>2, <2>3
<1>13. \A m, n \in 1..(a + b) : order[m] = order[n] => m = n
  <2> SUFFICES ASSUME NEW m \in 1..(a + b), NEW n \in 1..(a + b), m # n
               PROVE  order[m] # order[n]
    OBVIOUS
  <2>1. m < n \/ n < m
    BY <1>7, <1>8
  <2> QED BY <1>12, <2>1
<1>14. \A j \in live : \E n \in 1..(a + b) : order[n] = j
  <2> SUFFICES ASSUME NEW j \in live PROVE \E n \in 1..(a + b) : order[n] = j
    OBVIOUS
  <2>1. PICK n \in 1..a : first[n] = j
    BY <1>7
  <2>2. n \in 1..(a + b) /\ n <= a
    BY <1>7, <1>8
  <2> QED BY <1>10, <2>1, <2>2
<1>15. Trimmed(q) = t
  BY DEF Trimmed, live, recent, order, first, rest
<1>16. DOMAIN t = 1..(a + b) /\ t \in Seq(Request)
  <2>1. a + b \in Nat
    BY <1>7, <1>8
  <2>2. t = [n \in 1..(a + b) |-> q[order[n]]]
    BY <1>11
  <2>3. \A n \in 1..(a + b) : q[order[n]] \in Request
    BY <1>1, <1>11
  <2>4. [n \in 1..(a + b) |-> q[order[n]]] \in Seq(Request)
    BY <2>1, <2>3, IsASeq
  <2> QED BY <2>2, <2>4
<1>17. \A n \in 1..(a + b) : t[n] = q[order[n]]
  BY <1>11
<1> HIDE DEF t
<1>18. Sound(t)
  <2>1. t \in Seq(Request) /\ order \in [DOMAIN t -> DOMAIN q]
    BY <1>11, <1>16
  <2>2. \A n \in DOMAIN t : t[n] = q[order[n]]
    BY <1>16, <1>17
  <2>3. \A n, k \in DOMAIN t : order[n] = order[k] => n = k
    BY <1>13, <1>16
  <2>4. \A j \in DOMAIN q : q[j].status = "running" => \E n \in DOMAIN t : order[n] = j
    BY <1>4, <1>14, <1>16
  <2> QED BY <2>1, <2>2, <2>3, <2>4, Thinned
<1> QED BY <1>11, <1>15, <1>16, <1>17, <1>18
\* A finish call: its claim is known, and a request it puts back was not executed.
LEMMA FinishedIsSound ==
  ASSUME Sound(queue), NEW c, c.id \in Id, c.token \in Nat, NEW rs \in Result,
         rs.status # "none",
         rs.status = "queued" =>
           \A j \in DOMAIN queue : queue[j].id = c.id /\ queue[j].token = c.token => Clear(c.id),
         pc \in Unstarted /\ c.id = held.id => c.token < held.token,
         held.token \in Nat, DashboardOperationsAssumption
  PROVE  Sound(FinishedQueue(c, rs))
<1> DEFINE t == FinishedQueue(c, rs)
<1> SUFFICES ASSUME ~Refuses(c, rs) PROVE Sound(t)
  BY DEF FinishedQueue
<1>1. queue \in Seq(Request) /\ \A j \in DOMAIN queue : queue[j] \in Request
  BY DEF Sound, Shaped
<1>2. DOMAIN t = DOMAIN queue
  BY DEF FinishedQueue
<1>3. \A j \in DOMAIN queue :
        /\ t[j].id = queue[j].id /\ t[j].target = queue[j].target
        /\ t[j].token = queue[j].token /\ t[j].created = queue[j].created
        /\ IsActive(t[j]) => IsActive(queue[j])
        /\ \/ t[j] = queue[j]
           \/ /\ queue[j].id = c.id /\ queue[j].token = c.token
              /\ t[j].status = rs.status
  BY <1>1 DEF FinishedQueue, Finishes, Request, IsActive
<1>4. t \in Seq(Request)
  <2>1. Len(queue) \in Nat /\ DOMAIN queue = 1..Len(queue)
    BY <1>1
  <2>2. t = [j \in 1..Len(queue) |-> t[j]]
    BY <2>1 DEF FinishedQueue
  <2>3. \A j \in 1..Len(queue) : t[j] \in Request
    <3>0. rs.status # "unfit"
      BY DEF Refuses
    <3>1. rs.status \in Status /\ rs.at \in 0..(Horizon + Wait)
      BY <3>0 DEF Result, Status, Active
    <3> QED BY <1>1, <2>1, <3>1 DEF FinishedQueue, Request
  <2> HIDE DEF t
  <2> QED BY <2>1, <2>2, <2>3, IsASeq
<1> HIDE DEF t
<1> USE DEF Sound
<1>5. Shaped(t) /\ Distinct(t) /\ Sole(t)
  BY <1>2, <1>3, <1>4 DEF Shaped, Distinct, Sole
<1>6. QueuedIsClear(t) /\ ClaimsAreIssued(t)
  BY <1>2, <1>3 DEF QueuedIsClear, ClaimsAreIssued
<1>7. LateIsKnown(t)
  BY <1>2, <1>3 DEF LateIsKnown
<1>8. LeaseStands(t)
  BY <1>2, <1>3 DEF LeaseStands
<1> QED BY <1>5, <1>6, <1>7, <1>8

\* A claim takes the first request that waits; it is running under a new token.
LEMMA ClaimedIsSound ==
  ASSUME Sound(queue), DashboardOperationsAssumption, OpTypeOK, ClaimBounded
  PROVE  /\ Sound(ClaimedQueue)
         /\ LET q == Expired(queue)
                f == First(Claimable(q)) IN
            Claimable(q) # {} =>
              /\ f \in DOMAIN q /\ q[f] \in Request /\ q[f].status = "queued"
              /\ Sound(q) /\ DOMAIN ClaimedQueue = DOMAIN q
              /\ ClaimedQueue[f].id = q[f].id /\ ClaimedQueue[f].token = q[f].token + 1
              /\ ClaimedQueue[f].created = q[f].created /\ ClaimedQueue[f].status = "running"
              /\ \A j \in DOMAIN q \ {f} : ClaimedQueue[j] = q[j]
<1> DEFINE q == Expired(queue)
           f == First(Claimable(q))
           t == ClaimedQueue
<1>1. Sound(q)
  BY ExpiredIsSound
<1> HIDE DEF q
<1>2. q \in Seq(Request) /\ (\A j \in DOMAIN q : q[j] \in Request)
      /\ Len(q) \in Nat /\ DOMAIN q = 1..Len(q)
  BY <1>1 DEF Sound, Shaped
<1>3. CASE Claimable(q) = {}
  BY <1>1, <1>3 DEF ClaimedQueue, q
<1>4. CASE Claimable(q) # {}
  <2>1. f \in Claimable(q)
    <3>1. Claimable(q) \in SUBSET DOMAIN q
      BY DEF Claimable
    <3>2. IsFiniteSet(Claimable(q)) /\ \A j \in Claimable(q) : j \in Nat
      <4>1. IsFiniteSet(DOMAIN q)
        BY <1>2, FS_Interval
      <4>2. \A j \in DOMAIN q : j \in Nat
        BY <1>2
      <4> QED BY <3>1, <4>1, <4>2, FS_Subset
    <3> QED BY <1>4, <3>2, FirstIsOne
  <2>2. f \in DOMAIN q /\ q[f].status = "queued" /\ q[f] \in Request
    BY <1>2, <2>1 DEF Claimable
  <2>3. t = [q EXCEPT ![f].status = "running", ![f].token = @ + 1]
    BY <1>4 DEF ClaimedQueue, q
  <2>4. q[f].token + 1 \in 0..MaxClaims
    <3>1. q[f].token < MaxClaims
      BY <1>4 DEF ClaimBounded, q
    <3> QED BY <2>2, <3>1 DEF DashboardOperationsAssumption, Request
  <2> HIDE DEF f
  <2>5. /\ DOMAIN t = DOMAIN q
        /\ \A j \in DOMAIN q \ {f} : t[j] = q[j]
        /\ t[f] = [q[f] EXCEPT !.status = "running", !.token = @ + 1]
    BY <1>2, <2>2, <2>3
  <2>6. /\ t[f] \in Request /\ t[f].id = q[f].id /\ t[f].target = q[f].target
        /\ t[f].token = q[f].token + 1 /\ t[f].created = q[f].created
        /\ t[f].status = "running" /\ q[f].token \in Nat
    <3>1. /\ q[f].id \in Id /\ q[f].target \in Target /\ q[f].token \in 0..MaxClaims
          /\ q[f].created \in 0..Horizon /\ q[f].eligible \in 0..(Horizon + Wait)
          /\ q[f] = [id |-> q[f].id, target |-> q[f].target, status |-> q[f].status,
                     token |-> q[f].token, created |-> q[f].created,
                     eligible |-> q[f].eligible]
      BY <2>2 DEF Request
    <3>2. t[f] = [id |-> q[f].id, target |-> q[f].target, status |-> "running",
                  token |-> q[f].token + 1, created |-> q[f].created,
                  eligible |-> q[f].eligible]
      BY <2>5, <3>1
    <3>3. t[f] \in Request
      BY <2>4, <3>1, <3>2 DEF Request, Status, Active
    <3>4. q[f].token \in Nat
      BY <3>1 DEF DashboardOperationsAssumption
    <3> QED BY <3>2, <3>3, <3>4
  <2>7. t \in Seq(Request)
    <3>1. t = [j \in 1..Len(q) |-> t[j]]
      BY <1>2, <2>3
    <3>2. \A j \in 1..Len(q) : t[j] \in Request
      BY <1>2, <2>5, <2>6
    <3> HIDE DEF t
    <3> QED BY <1>2, <3>1, <3>2, IsASeq
  <2> HIDE DEF t
  <2>a. /\ Shaped(q) /\ Distinct(q) /\ Sole(q) /\ QueuedIsClear(q) /\ LateIsKnown(q)
        /\ ClaimsAreIssued(q) /\ LeaseStands(q)
    BY <1>1 DEF Sound
  <2>b. \A j \in DOMAIN q :
          /\ t[j].id = q[j].id /\ t[j].target = q[j].target /\ t[j].created = q[j].created
          /\ j # f => t[j] = q[j]
    BY <2>5, <2>6
  <2>8. Shaped(t) /\ Distinct(t)
    BY <2>a, <2>b, <2>5, <2>7 DEF Shaped, Distinct
  <2>9. Sole(t)
    BY <2>a, <2>b, <2>2, <2>5, <2>6 DEF Sole, IsActive, Active
  <2>10. QueuedIsClear(t)
    BY <2>a, <2>b, <2>2, <2>5, <2>6 DEF QueuedIsClear
  <2>c. \A j \in DOMAIN q : q[j].token \in Nat
    BY <1>2 DEF Request, DashboardOperationsAssumption
  <2>d. held.token \in Nat /\ \A j \in DOMAIN q : file[q[j].id].token \in Nat
    BY <1>2 DEF OpTypeOK, Request, DashboardOperationsAssumption
  <2>e. \A c \in late : c.mode = "finish" => c.claim.token \in Nat
    BY DEF OpTypeOK, Calls, Claim, DashboardOperationsAssumption
  <2>11. ClaimsAreIssued(t)
    <3>1. \A x \in DOMAIN q : t[x].token = q[x].token \/ t[x].token = q[x].token + 1
      BY <2>b, <2>6
    <3> SUFFICES ASSUME NEW j \in DOMAIN q
                 PROVE  /\ file[t[j].id].token <= t[j].token
                        /\ pc \in Busy /\ held.id = t[j].id => held.token <= t[j].token
      BY <2>5 DEF ClaimsAreIssued
    <3>2. /\ file[q[j].id].token <= q[j].token
          /\ pc \in Busy /\ held.id = q[j].id => held.token <= q[j].token
      BY <2>a DEF ClaimsAreIssued
    <3> QED BY <2>b, <2>c, <2>d, <3>1, <3>2
  <2>12. LateIsKnown(t)
    <3> SUFFICES ASSUME NEW c \in late, NEW j \in DOMAIN q,
                        c.mode = "finish", c.claim.id = t[j].id
                 PROVE  /\ c.claim.token <= t[j].token
                        /\ c.claim.token = t[j].token /\ c.result.status = "queued"
                             => Clear(t[j].id)
      BY <2>5 DEF LateIsKnown
    <3>1. /\ c.claim.token <= q[j].token
          /\ c.claim.token = q[j].token /\ c.result.status = "queued" => Clear(q[j].id)
      BY <2>a, <2>b DEF LateIsKnown
    <3>2. c.claim.token \in Nat /\ q[j].token \in Nat
      BY <2>c, <2>e
    <3>3. CASE j = f
      BY <2>b, <2>6, <3>1, <3>2, <3>3
    <3>4. CASE j # f
      BY <2>b, <3>1, <3>4
    <3> QED BY <3>3, <3>4
  <2>13. LeaseStands(t)
    BY <2>a, <2>b, <2>2, <2>5, <2>6 DEF LeaseStands
  <2>14. Sound(t)
    BY <2>7, <2>8, <2>9, <2>10, <2>11, <2>12, <2>13 DEF Sound
  <2> QED BY <1>1, <2>2, <2>5, <2>6, <2>14 DEF t, f, q
<1> QED BY <1>3, <1>4
LEMMA SoundStays ==
  ASSUME Sound(queue'), UNCHANGED <<now, late, file, pc, held, ran>>
  PROVE  Sound(queue)'
BY DEF Sound, Shaped, Distinct, Sole, QueuedIsClear, LateIsKnown, ClaimsAreIssued, LeaseStands,
   Clear, Over, Day, IsActive

\* Whatever the worker turns to, the queue stays sound if it holds no new claim.
LEMMA SoundWorker ==
  ASSUME Sound(queue), UNCHANGED <<now, queue, late, file, ran>>,
         \/ pc' \notin Busy
         \/ pc' \in Busy /\ pc \in Busy /\ held' = held /\ (pc' \in Unstarted => pc \in Unstarted)
  PROVE  Sound(queue)'
<1> USE DEF Sound
<1>1. (Shaped(queue) /\ Distinct(queue) /\ Sole(queue))'
  BY DEF Shaped, Distinct, Sole, IsActive
<1>2. QueuedIsClear(queue)' /\ LateIsKnown(queue)'
  BY DEF QueuedIsClear, LateIsKnown, Clear
<1>3. ClaimsAreIssued(queue)' /\ LeaseStands(queue)'
  BY DEF ClaimsAreIssued, LeaseStands, Over, Day, Busy
<1> QED BY <1>1, <1>2, <1>3

\* What has passed stays passed.
LEMMA OverLasts ==
  ASSUME DashboardOperationsAssumption, now \in Nat, held.created \in Nat, held.created <= now,
         now' = now + 1, held' = held, Over(held)
  PROVE  Over(held)'
<1> DEFINE c == held.created
<1>1. TTL \in Nat /\ DayLen \in Nat \ {0} /\ now' \in Nat /\ c' = c
  BY DEF DashboardOperationsAssumption
<1>2. CASE now >= c + TTL
  BY <1>1, <1>2 DEF Over
<1>3. CASE Day(c) # Day(now)
  <2>1. Day(c) <= Day(now) /\ Day(now) <= Day(now')
    BY <1>1, DivMonotone DEF Day
  <2>2. Day(c) \in Int /\ Day(now) \in Int /\ Day(now') \in Int
    BY <1>1, DivFacts DEF Day
  <2>3. Day(c) # Day(now')
    BY <1>3, <2>1, <2>2
  <2> QED BY <1>1, <2>3 DEF Over, Day
<1> QED BY <1>2, <1>3 DEF Over

LEMMA EnqueuedIsSound ==
  ASSUME Sound(queue), OpTypeOK, CallsHaveFiles, DashboardOperationsAssumption,
         NEW i \in Id, NEW target \in Target, Enqueue(i, target)
  PROVE  Sound(queue')
<1> DEFINE q == Expired(queue)
           kept == Trimmed(q)
           new == [id |-> i, target |-> target, status |-> "queued",
                   token |-> 0, created |-> now, eligible |-> 0]
           t == Append(kept, new)
<1>1. Sound(q)
  BY ExpiredIsSound
<1>2. Sound(kept) /\ \A n \in DOMAIN kept : \E j \in DOMAIN q : kept[n] = q[j]
  BY <1>1, TrimmedIsSound DEF DashboardOperationsAssumption
<1>3. CASE queue' = queue \/ queue' = q
  BY <1>1, <1>3
<1>4. CASE /\ queue' = t
           /\ \A j \in DOMAIN q : q[j].target = target => ~IsActive(q[j])
  <2>1. /\ i \notin Ids(queue) /\ file[i] = NoFile /\ ran[i] = "never"
        /\ pc = "claimed" => i # held.id
    BY DEF Enqueue
  <2>2. \A n \in DOMAIN kept : kept[n].id # i /\ (IsActive(kept[n]) => kept[n].target # target)
    BY <1>2, <1>4, <2>1, ExpiredIsSound DEF Ids
  <2> HIDE DEF kept, q
  <2>3. kept \in Seq(Request) /\ Len(kept) \in Nat /\ DOMAIN kept = 1..Len(kept)
        /\ \A n \in DOMAIN kept : kept[n] \in Request
    BY <1>2 DEF Sound, Shaped
  <2>4. new \in Request /\ new.created <= now
    BY DEF Request, Status, Active, OpTypeOK, DashboardOperationsAssumption
  <2>5. /\ t \in Seq(Request) /\ DOMAIN t = 1..(Len(kept) + 1)
        /\ \A n \in DOMAIN kept : t[n] = kept[n]
        /\ t[Len(kept) + 1] = new
    <3> HIDE DEF new
    <3>1. t \in Seq(Request) /\ Len(t) = Len(kept) + 1
          /\ (\A n \in 1..Len(kept) : t[n] = kept[n]) /\ t[Len(kept) + 1] = new
      BY <2>3, <2>4, AppendProperties
    <3>2. DOMAIN t = 1..(Len(kept) + 1)
      BY <3>1, LenProperties
    <3> HIDE DEF t
    <3> QED BY <2>3, <3>1, <3>2
  <2>6. \A n \in DOMAIN t : \/ n \in DOMAIN kept /\ t[n] = kept[n]
                            \/ n = Len(kept) + 1 /\ t[n] = new
    <3> HIDE DEF new, t
    <3> SUFFICES ASSUME NEW n \in DOMAIN t
                 PROVE  \/ n \in DOMAIN kept /\ t[n] = kept[n]
                        \/ n = Len(kept) + 1 /\ t[n] = new
      OBVIOUS
    <3>1. n \in 1..Len(kept) \/ n = Len(kept) + 1
      BY <2>3, <2>5
    <3> QED BY <2>3, <2>5, <3>1
  <2>7. \A n \in DOMAIN kept : n \in DOMAIN t
    BY <2>3, <2>5
  <2>8. /\ Shaped(kept) /\ Distinct(kept) /\ Sole(kept) /\ QueuedIsClear(kept)
        /\ LateIsKnown(kept) /\ ClaimsAreIssued(kept) /\ LeaseStands(kept)
    BY <1>2 DEF Sound
  <2>9. \A c \in late : c.mode = "finish" => c.claim.id # i
    BY <2>1 DEF CallsHaveFiles, NoFile
  <2>10. pc \in Busy => held.id # i
    BY <2>1 DEF CallsHaveFiles, NoFile
  <2>11. new.id = i /\ new.target = target /\ new.status = "queued" /\ new.token = 0
    OBVIOUS
  <2> HIDE DEF t, new
  <2>12. Shaped(t)
    BY <2>4, <2>5, <2>6, <2>8 DEF Shaped
  <2>13. Distinct(t)
    BY <2>2, <2>6, <2>8, <2>11 DEF Distinct
  <2>14. Sole(t)
    BY <2>2, <2>6, <2>8, <2>11 DEF Sole
  <2>15. QueuedIsClear(t)
    BY <2>1, <2>6, <2>8, <2>11 DEF QueuedIsClear, Clear
  <2>16. LateIsKnown(t)
    BY <2>6, <2>8, <2>9, <2>11 DEF LateIsKnown
  <2>17. ClaimsAreIssued(t)
    <3>1. file[i].token = 0
      BY <2>1 DEF NoFile
    <3> QED BY <2>6, <2>8, <2>10, <2>11, <3>1 DEF ClaimsAreIssued
  <2>18. LeaseStands(t)
    BY <2>5, <2>7, <2>8 DEF LeaseStands
  <2> QED BY <1>4, <2>12, <2>13, <2>14, <2>15, <2>16, <2>17, <2>18 DEF Sound
<1>5. \/ queue' = queue \/ queue' = q
      \/ queue' = t /\ \A j \in DOMAIN q : q[j].target = target => ~IsActive(q[j])
  BY DEF Enqueue
<1> QED BY <1>3, <1>4, <1>5
-----------------------------------------------------------------------------
(* Every action preserves the invariant *)

LEMMA ClockTicks ==
  ASSUME OpInv, DashboardOperationsAssumption, Tick
  PROVE  OpInv'
<1> USE DEF Tick, OpInv, WorkerInv, Sound
<1>1. now \in Nat /\ now' = now + 1 /\ now' \in 0..Horizon
  BY DEF WorkerTyped, OpTypeOK, DashboardOperationsAssumption
<1>2. held.created \in Nat
  BY DEF WorkerTyped, OpTypeOK, DashboardOperationsAssumption
<1>3. WorkerTyped'
  BY <1>1, <1>2 DEF WorkerTyped, OpTypeOK
<1>4. (FilesAreClear /\ CallsHaveFiles /\ FreshClaim /\ Executed)'
  BY DEF FilesAreClear, CallsHaveFiles, FreshClaim, Executed, Clear
<1>5. Shaped(queue)'
  <2>1. \A j \in DOMAIN queue : queue[j].created \in Nat /\ queue[j].created <= now
    <3> SUFFICES ASSUME NEW j \in DOMAIN queue
                 PROVE  queue[j].created \in Nat /\ queue[j].created <= now
      OBVIOUS
    <3>1. queue[j] \in Request /\ queue[j].created <= now
      BY DEF Shaped
    <3> QED BY <3>1 DEF Request, DashboardOperationsAssumption
  <2> QED BY <1>1, <2>1 DEF Shaped
<1>6. (Distinct(queue) /\ Sole(queue) /\ QueuedIsClear(queue))'
  BY DEF Distinct, Sole, QueuedIsClear, Clear, IsActive
<1>7. (LateIsKnown(queue) /\ ClaimsAreIssued(queue))'
  BY DEF LateIsKnown, ClaimsAreIssued, Clear
<1>8. LeaseStands(queue)'
  <2>1. Over(held) => Over(held)'
    BY <1>1, <1>2, OverLasts DEF WorkerTyped
  <2> QED BY <2>1 DEF LeaseStands
<1> QED BY <1>3, <1>4, <1>5, <1>6, <1>7, <1>8

\* The steps that only move the worker on.
LEMMA WorkerMoves ==
  ASSUME OpInv, DashboardOperationsAssumption, Start \/ AllSent \/ Crash
  PROVE  OpInv'
<1> USE DEF OpInv, WorkerInv
<1>1. /\ UNCHANGED <<now, queue, late, file, held, result, ran>>
      /\ pc' \in Steps /\ pc' \notin Busy
  BY DEF Start, AllSent, Crash, Steps, Busy, Unstarted, Ending
<1>2. Sound(queue)'
  BY <1>1, SoundWorker
<1>3. WorkerTyped'
  BY <1>1 DEF WorkerTyped, OpTypeOK, Busy
<1>4. (FilesAreClear /\ CallsHaveFiles /\ FreshClaim /\ Executed)'
  BY <1>1 DEF FilesAreClear, CallsHaveFiles, FreshClaim, Executed, Clear, Busy, Unstarted, Ending
<1> QED BY <1>2, <1>3, <1>4

LEMMA Resends ==
  ASSUME OpInv, DashboardOperationsAssumption, NEW i \in Id, Resend(i)
  PROVE  OpInv'
<1> USE DEF OpInv, WorkerInv
<1>1. /\ UNCHANGED <<now, queue, late, file, ran>> /\ pc' = "republish"
      /\ held' = [id |-> i, token |-> file[i].token, created |-> 0]
      /\ result' = IF file[i].result = NoResult THEN [status |-> "interrupted", at |-> 0]
                   ELSE file[i].result
  BY DEF Resend
<1>2. /\ now \in Nat /\ file[i] # NoFile /\ file[i].token \in 0..MaxClaims /\ file[i].result \in Result
      /\ file[i].token # 0
  BY DEF Resend, Unpublished, NoFile, WorkerTyped, OpTypeOK, FilesAreClear,
     DashboardOperationsAssumption
<1>3. WorkerTyped'
  <2>1. held' \in [id : Id, token : 0..MaxClaims, created : 0..Horizon] /\ held'.created <= now
    BY <1>1, <1>2 DEF DashboardOperationsAssumption
  <2>2. result' \in Result /\ result'.status # "none"
    BY <1>1, <1>2 DEF Result, WorkerTyped, DashboardOperationsAssumption
  <2> QED BY <1>1, <2>1, <2>2 DEF WorkerTyped, OpTypeOK, Steps
<1>4. (FilesAreClear /\ CallsHaveFiles /\ FreshClaim /\ Executed)'
  <2>1. result'.status = "queued" => Clear(i)
    BY <1>1 DEF FilesAreClear
  <2>2. file[i].token > 0
    BY <1>2 DEF DashboardOperationsAssumption
  <2> QED BY <1>1, <2>1, <2>2 DEF FilesAreClear, CallsHaveFiles, FreshClaim, Executed, Clear, Unstarted
<1>5. Sound(queue)'
  <2>1. (Shaped(queue) /\ Distinct(queue) /\ Sole(queue))'
    BY <1>1 DEF Sound, Shaped, Distinct, Sole, IsActive
  <2>2. (QueuedIsClear(queue) /\ LateIsKnown(queue) /\ LeaseStands(queue))'
    BY <1>1 DEF Sound, QueuedIsClear, LateIsKnown, LeaseStands, Clear, Unstarted
  <2>3. ClaimsAreIssued(queue)'
    BY <1>1 DEF Sound, ClaimsAreIssued
  <2> QED BY <2>1, <2>2, <2>3 DEF Sound
<1> QED BY <1>3, <1>4, <1>5
\* What the worker asks for by a finish call is fit to be applied.
LEMMA HeldIsFit ==
  ASSUME OpInv, DashboardOperationsAssumption, pc \in {"republish", "finish"}
  PROVE  Sound(FinishedQueue(held, result)) /\ Sound(FinishedQueue([id |-> held.id, token |-> held.token], result))
<1>1. /\ held.id \in Id /\ held.token \in Nat /\ result \in Result /\ result.status # "none"
      /\ result.status = "queued" => Clear(held.id)
      /\ pc \notin Unstarted /\ Sound(queue)
  BY DEF OpInv, WorkerInv, WorkerTyped, OpTypeOK, Executed, Ending, Unstarted,
     DashboardOperationsAssumption
<1>2. Sound(FinishedQueue(held, result))
  BY <1>1, FinishedIsSound
<1> DEFINE c == [id |-> held.id, token |-> held.token]
<1>3. c.id = held.id /\ c.token = held.token
  OBVIOUS
<1> HIDE DEF c
<1>4. Sound(FinishedQueue(c, result))
  BY <1>1, <1>3, FinishedIsSound
<1> QED BY <1>2, <1>4 DEF c

LEMMA ClaimAnswered ==
  ASSUME OpInv, DashboardOperationsAssumption, AnswerClaim
  PROVE  OpInv'
<1> USE DEF OpInv, WorkerInv
<1> DEFINE q == Expired(queue)
           f == First(Claimable(q))
<1>1. /\ ClaimBounded /\ queue' = ClaimedQueue /\ UNCHANGED <<now, late, file, result, ran>>
      /\ pc = "claim"
  BY DEF AnswerClaim
<1>2. /\ Sound(ClaimedQueue)
      /\ Claimable(q) # {} =>
           /\ f \in DOMAIN q /\ q[f] \in Request /\ q[f].status = "queued"
           /\ Sound(q) /\ DOMAIN ClaimedQueue = DOMAIN q
           /\ ClaimedQueue[f].id = q[f].id /\ ClaimedQueue[f].token = q[f].token + 1
           /\ ClaimedQueue[f].created = q[f].created /\ ClaimedQueue[f].status = "running"
           /\ \A j \in DOMAIN q \ {f} : ClaimedQueue[j] = q[j]
  BY <1>1, ClaimedIsSound DEF WorkerTyped
<1>3. CASE Claimable(q) = {}
  <2>1. pc' = "off" /\ held' = held
    BY <1>3 DEF AnswerClaim
  <2>2. Sound(queue)'
    BY <1>1, <1>2, <2>1 DEF Sound, Shaped, Distinct, Sole, QueuedIsClear, LateIsKnown,
       ClaimsAreIssued, LeaseStands, Clear, IsActive, Busy, Unstarted, Ending
  <2>3. WorkerTyped'
    BY <1>1, <1>2, <2>1 DEF WorkerTyped, OpTypeOK, Sound, Shaped, Steps, Ending
  <2>4. (FilesAreClear /\ CallsHaveFiles /\ FreshClaim /\ Executed)'
    BY <1>1, <2>1 DEF FilesAreClear, CallsHaveFiles, FreshClaim, Executed, Clear, Busy, Unstarted, Ending
  <2> QED BY <2>2, <2>3, <2>4
<1>4. CASE Claimable(q) # {}
  <2>1. /\ pc' = "claimed"
        /\ held' = [id |-> q[f].id, token |-> q[f].token + 1, created |-> q[f].created]
    BY <1>4 DEF AnswerClaim
  <2>2. /\ f \in DOMAIN q /\ q[f] \in Request /\ q[f].status = "queued"
        /\ Sound(q) /\ Sound(queue')
        /\ queue'[f].id = q[f].id /\ queue'[f].token = q[f].token + 1
        /\ queue'[f].created = q[f].created /\ queue'[f].status = "running"
        /\ f \in DOMAIN queue'
    BY <1>1, <1>2, <1>4
  <2> HIDE DEF q, f
  <2>3. /\ held'.id = queue'[f].id /\ held'.token = queue'[f].token
        /\ held'.created = queue'[f].created /\ held'.id = q[f].id
        /\ held'.id \in Id /\ held'.token \in Nat /\ held'.token > 0
        /\ q[f].token \in Nat /\ held'.token = q[f].token + 1
    BY <2>1, <2>2 DEF Request, DashboardOperationsAssumption
  <2>4. \A j \in DOMAIN queue' : queue'[j] \in Request /\ queue'[j].created <= now
    BY <2>2 DEF Sound, Shaped
  <2>5. WorkerTyped'
    <3>1. held' \in [id : Id, token : 0..MaxClaims, created : 0..Horizon] /\ held'.created <= now
      BY <2>1, <2>2, <2>3, <2>4 DEF Request
    <3>2. queue' \in Seq(Request)
      BY <2>2 DEF Sound, Shaped
    <3> QED BY <1>1, <2>1, <3>1, <3>2 DEF WorkerTyped, OpTypeOK, Steps, Ending
  <2>6. (FilesAreClear /\ CallsHaveFiles /\ Executed)'
    BY <1>1, <2>1, <2>3 DEF FilesAreClear, CallsHaveFiles, Executed, Clear, Busy, Unstarted, Ending
  <2>7. FreshClaim'
    <3>1. Clear(q[f].id)
      BY <2>2 DEF Sound, QueuedIsClear
    <3>2. \A c \in late : c.mode = "finish" /\ c.claim.id = q[f].id => c.claim.token <= q[f].token
      BY <2>2 DEF Sound, LateIsKnown
    <3>3. \A c \in late : c.mode = "finish" => c.claim.token \in Nat
      BY DEF WorkerTyped, OpTypeOK, Calls, Claim, DashboardOperationsAssumption
    <3> QED BY <1>1, <2>3, <3>1, <3>2, <3>3 DEF FreshClaim, Clear
  <2>8. Sound(queue)'
    <3>1. (Shaped(queue) /\ Distinct(queue) /\ Sole(queue) /\ QueuedIsClear(queue) /\ LateIsKnown(queue))'
      BY <1>1, <2>2 DEF Sound, Shaped, Distinct, Sole, QueuedIsClear, LateIsKnown, Clear, IsActive
    <3>2. ClaimsAreIssued(queue)'
      <4>1. \A j \in DOMAIN queue' : held'.id = queue'[j].id => j = f
        BY <2>2, <2>3 DEF Sound, Distinct
      <4> QED BY <1>1, <2>2, <2>3, <4>1 DEF Sound, ClaimsAreIssued
    <3>3. LeaseStands(queue)'
      BY <2>2, <2>3 DEF LeaseStands
    <3> QED BY <3>1, <3>2, <3>3 DEF Sound
  <2> QED BY <2>5, <2>6, <2>7, <2>8
<1> QED BY <1>3, <1>4
LEMMA FinishAnswered ==
  ASSUME OpInv, DashboardOperationsAssumption, AnswerFinish
  PROVE  OpInv'
<1> USE DEF OpInv, WorkerInv
<1>1. /\ pc \in {"republish", "finish"} /\ queue' = FinishedQueue(held, result)
      /\ UNCHANGED <<now, late, file, held, result, ran>>
      /\ pc' \in {"off", "mark", "remark"}
  BY DEF AnswerFinish
<1>2. Sound(queue')
  BY <1>1, HeldIsFit
<1>3. Sound(queue)'
  <2>1. (Shaped(queue) /\ Distinct(queue) /\ Sole(queue) /\ QueuedIsClear(queue) /\ LateIsKnown(queue))'
    BY <1>1, <1>2 DEF Sound, Shaped, Distinct, Sole, QueuedIsClear, LateIsKnown, Clear, IsActive
  <2>2. ClaimsAreIssued(queue)'
    BY <1>1, <1>2 DEF Sound, ClaimsAreIssued, Busy, Ending
  <2>3. LeaseStands(queue)'
    BY <1>1 DEF LeaseStands, Unstarted
  <2> QED BY <2>1, <2>2, <2>3 DEF Sound
<1>4. WorkerTyped'
  BY <1>1, <1>2 DEF WorkerTyped, OpTypeOK, Sound, Shaped, Steps, Ending
<1>5. (FilesAreClear /\ CallsHaveFiles /\ FreshClaim /\ Executed)'
  BY <1>1 DEF FilesAreClear, CallsHaveFiles, FreshClaim, Executed, Clear, Busy, Unstarted, Ending
<1> QED BY <1>3, <1>4, <1>5

\* The call is lost, is applied unseen, or stays on its way.
LEMMA CallUnanswered ==
  ASSUME OpInv, DashboardOperationsAssumption, NoAnswer
  PROVE  OpInv'
<1> USE DEF OpInv, WorkerInv
<1>1. /\ pc' = "off" /\ UNCHANGED <<now, file, held, result, ran>>
      /\ pc \in {"claim", "republish", "finish"} /\ (pc = "claim" => ClaimBounded)
  BY DEF NoAnswer, Call, NoCall
<1> DEFINE c == [id |-> held.id, token |-> held.token]
           finish == [mode |-> "finish", claim |-> c, result |-> result]
<1>2. /\ pc = "claim" => Call = [mode |-> "claim"]
      /\ pc # "claim" => Call = finish
  BY <1>1 DEF Call
<1>3. \/ Sound(queue') /\ late' = late
      \/ queue' = queue /\ late' = late
      \/ queue' = queue /\ late' = late \cup {Call}
  <2>1. CASE queue' = Applied(Call) /\ late' = late
    <3>1. CASE pc = "claim"
      BY <1>1, <1>2, <2>1, <3>1, ClaimedIsSound DEF Applied, WorkerTyped
    <3>2. CASE pc # "claim"
      <4>1. queue' = FinishedQueue(c, result)
        BY <1>2, <2>1, <3>2 DEF Applied
      <4> QED BY <1>1, <2>1, <3>2, <4>1, HeldIsFit
    <3> QED BY <3>1, <3>2
  <2> QED BY <2>1 DEF NoAnswer
<1>4. Sound(queue')
  BY <1>3
<1>5. Call.mode = "finish" =>
        /\ pc \in {"republish", "finish"} /\ Call = finish
        /\ result.status # "none" /\ (result.status = "queued" => Clear(held.id))
        /\ file[held.id].token > 0
  BY <1>1, <1>2 DEF WorkerTyped, Executed, CallsHaveFiles, Busy, Ending
<1>6. Call \in Calls
  BY <1>1, <1>2 DEF Calls, Claim, WorkerTyped, OpTypeOK
<1>7. \A e \in late' : e \in late \/ e = Call
  BY <1>3
<1>8. WorkerTyped'
  <2>1. queue' \in Seq(Request) /\ late' \subseteq Calls
    BY <1>4, <1>6, <1>7 DEF Sound, Shaped, WorkerTyped, OpTypeOK
  <2>2. \A e \in late' : e.mode = "finish" => e.result.status # "none"
    BY <1>5, <1>7 DEF WorkerTyped
  <2> QED BY <1>1, <2>1, <2>2 DEF WorkerTyped, OpTypeOK, Steps, Ending
<1>9. (FilesAreClear /\ FreshClaim /\ Executed)'
  BY <1>1 DEF FilesAreClear, FreshClaim, Executed, Clear, Unstarted, Ending
<1>10. CallsHaveFiles'
  BY <1>1, <1>5, <1>7 DEF CallsHaveFiles, Busy, Unstarted, Ending
<1>11. LateIsKnown(queue)'
  <2>1. CASE late' = late
    BY <1>1, <1>4, <2>1 DEF Sound, LateIsKnown, Clear
  <2>2. CASE queue' = queue /\ late' = late \cup {Call}
    <3>1. pc \in Busy /\ held' = held => \A j \in DOMAIN queue : held.id = queue[j].id => held.token <= queue[j].token
      BY DEF Sound, ClaimsAreIssued
    <3>2. Call.mode = "finish" => pc \in Busy
      BY <1>5 DEF Busy, Ending
    <3> QED BY <1>1, <1>5, <2>2, <3>1, <3>2 DEF Sound, LateIsKnown, Clear
  <2> QED BY <1>3, <2>1, <2>2
<1>12. (Shaped(queue) /\ Distinct(queue) /\ Sole(queue) /\ QueuedIsClear(queue))'
  BY <1>1, <1>4 DEF Sound, Shaped, Distinct, Sole, QueuedIsClear, Clear, IsActive
<1>13. (ClaimsAreIssued(queue) /\ LeaseStands(queue))'
  BY <1>1, <1>4 DEF Sound, ClaimsAreIssued, LeaseStands, Busy, Unstarted, Ending
<1> QED BY <1>8, <1>9, <1>10, <1>11, <1>12, <1>13 DEF Sound
LEMMA LateCallApplied ==
  ASSUME OpInv, DashboardOperationsAssumption, NEW call \in late, LateCall(call)
  PROVE  OpInv'
<1> USE DEF OpInv, WorkerInv
<1>1. /\ late' = late \ {call} /\ queue' = Applied(call)
      /\ UNCHANGED <<now, file, pc, held, result, ran>>
      /\ call.mode = "claim" => ClaimBounded
  BY DEF LateCall
<1>2. Sound(queue')
  <2>1. CASE call.mode = "claim"
    BY <1>1, <2>1, ClaimedIsSound DEF Applied, WorkerTyped
  <2>2. CASE call.mode # "claim"
    <3>1. call.mode = "finish" /\ call.claim \in Claim /\ call.result \in Result
      BY <2>2 DEF WorkerTyped, OpTypeOK, Calls
    <3> DEFINE c == call.claim
               rs == call.result
    <3>2. c.id \in Id /\ c.token \in Nat /\ rs.status # "none" /\ held.token \in Nat
      BY <3>1 DEF WorkerTyped, OpTypeOK, Claim, DashboardOperationsAssumption
    <3>3. rs.status = "queued" =>
            \A j \in DOMAIN queue : queue[j].id = c.id /\ queue[j].token = c.token => Clear(c.id)
      BY <3>1 DEF Sound, LateIsKnown
    <3>4. pc \in Unstarted /\ c.id = held.id => c.token < held.token
      BY <3>1 DEF FreshClaim
    <3>5. queue' = FinishedQueue(c, rs) /\ rs \in Result
      BY <1>1, <2>2, <3>1 DEF Applied
    <3> HIDE DEF c, rs
    <3> QED BY <3>2, <3>3, <3>4, <3>5, FinishedIsSound
  <2> QED BY <2>1, <2>2
<1>3. WorkerTyped'
  BY <1>1, <1>2 DEF WorkerTyped, OpTypeOK, Sound, Shaped
<1>4. (FilesAreClear /\ CallsHaveFiles /\ FreshClaim /\ Executed)'
  BY <1>1 DEF FilesAreClear, CallsHaveFiles, FreshClaim, Executed, Clear
<1>5. (Shaped(queue) /\ Distinct(queue) /\ Sole(queue) /\ QueuedIsClear(queue) /\ LateIsKnown(queue))'
  BY <1>1, <1>2 DEF Sound, Shaped, Distinct, Sole, QueuedIsClear, LateIsKnown, Clear, IsActive
<1>6. (ClaimsAreIssued(queue) /\ LeaseStands(queue))'
  BY <1>1, <1>2 DEF Sound, ClaimsAreIssued, LeaseStands, Over, Day
<1> QED BY <1>3, <1>4, <1>5, <1>6 DEF Sound

\* Every request in the queue has an id of the model.
LEMMA IdsOfQueue ==
  ASSUME Sound(queue)
  PROVE  \A j \in DOMAIN queue : queue[j].id \in Id
<1> SUFFICES ASSUME NEW j \in DOMAIN queue PROVE queue[j].id \in Id
  OBVIOUS
<1>1. queue[j] \in Request
  BY DEF Sound, Shaped
<1> QED BY <1>1 DEF Request

LEMMA ClaimSaved ==
  ASSUME OpInv, DashboardOperationsAssumption, SaveRunning
  PROVE  OpInv'
<1> USE DEF OpInv, WorkerInv
<1> DEFINE saved == [token |-> held.token, result |-> NoResult, published |-> FALSE]
<1>1. /\ pc = "claimed" /\ pc' = "execute" /\ file' = [file EXCEPT ![held.id] = saved]
      /\ UNCHANGED <<now, queue, late, held, result, ran>>
  BY DEF SaveRunning
<1>2. /\ held.id \in Id /\ held.token \in 0..MaxClaims /\ held.token \in Nat /\ held.token > 0
      /\ file \in [Id -> [token : 0..MaxClaims, result : Result, published : BOOLEAN]]
  BY <1>1 DEF WorkerTyped, OpTypeOK, CallsHaveFiles, Busy, Unstarted, DashboardOperationsAssumption
<1>3. saved \in [token : 0..MaxClaims, result : Result, published : BOOLEAN]
  BY <1>2 DEF Result, NoResult, DashboardOperationsAssumption
<1>4. /\ file' \in [Id -> [token : 0..MaxClaims, result : Result, published : BOOLEAN]]
      /\ file'[held.id] = saved /\ \A i \in Id \ {held.id} : file'[i] = file[i]
  BY <1>1, <1>2, <1>3
<1>5. saved.token = held.token /\ saved.result = NoResult /\ NoResult.status = "none"
  BY DEF NoResult
<1> HIDE DEF saved
<1>6. WorkerTyped'
  BY <1>1, <1>4, <1>5 DEF WorkerTyped, OpTypeOK, Steps, Ending
<1>7. FilesAreClear'
  BY <1>1, <1>2, <1>4, <1>5 DEF FilesAreClear, Clear
<1>8. CallsHaveFiles'
  <2>1. \A c \in late : c.mode = "finish" => c.claim.id \in Id
    BY DEF WorkerTyped, OpTypeOK, Calls, Claim
  <2> QED BY <1>1, <1>2, <1>4, <1>5, <2>1 DEF CallsHaveFiles
<1>9. (FreshClaim /\ Executed)'
  BY <1>1, <1>4 DEF FreshClaim, Executed, Clear, Unstarted, Ending, saved
<1>10. (Shaped(queue) /\ Distinct(queue) /\ Sole(queue) /\ QueuedIsClear(queue) /\ LateIsKnown(queue))'
  BY <1>1 DEF Sound, Shaped, Distinct, Sole, QueuedIsClear, LateIsKnown, Clear, IsActive
<1>11. (ClaimsAreIssued(queue) /\ LeaseStands(queue))'
  <2>1. \A j \in DOMAIN queue : queue[j].id \in Id
    BY IdsOfQueue
  <2> QED BY <1>1, <1>4, <1>5, <2>1 DEF Sound, ClaimsAreIssued, LeaseStands, Over, Day, Busy, Unstarted
<1> QED BY <1>6, <1>7, <1>8, <1>9, <1>10, <1>11 DEF Sound

\* The execution begins, or the request is refused or deferred before anything
\* can happen.
LEMMA ExecutionBegins ==
  ASSUME OpInv, DashboardOperationsAssumption, Execute
  PROVE  OpInv'
<1> USE DEF OpInv, WorkerInv
<1>1. pc = "execute" /\ UNCHANGED <<now, queue, late, file, held>> /\ held.id \in Id /\ now \in 0..Horizon
  BY DEF Execute, WorkerTyped, OpTypeOK
<1>2. CASE /\ ~Over(held) /\ ran' = [ran EXCEPT ![held.id] = "unknown"]
           /\ pc' = "executing" /\ result' = result
  <2>1. /\ ran'[held.id] = "unknown" /\ \A i \in Id \ {held.id} : ran'[i] = ran[i]
        /\ ran' \in [Id -> {"never", "unknown", "deferred", "done"}]
    BY <1>1, <1>2 DEF WorkerTyped, OpTypeOK
  <2>2. PICK k \in DOMAIN queue : /\ queue[k].id = held.id /\ queue[k].token = held.token
                                 /\ queue[k].status = "running"
    BY <1>1, <1>2 DEF Sound, LeaseStands, Unstarted
  <2>3. \A j \in DOMAIN queue : queue[j].id \in Id /\ (queue[j].id = held.id => j = k)
    BY <2>2, IdsOfQueue DEF Sound, Distinct
  <2>4. WorkerTyped'
    BY <1>1, <1>2, <2>1 DEF WorkerTyped, OpTypeOK, Steps, Ending
  <2>5. FilesAreClear'
    BY <1>1, <2>1 DEF FilesAreClear, Executed, Clear, NoResult
  <2>6. (CallsHaveFiles /\ FreshClaim /\ Executed)'
    BY <1>1, <1>2, <2>1 DEF CallsHaveFiles, FreshClaim, Executed, Busy, Unstarted, Ending
  <2>7. (Shaped(queue) /\ Distinct(queue) /\ Sole(queue))'
    BY <1>1 DEF Sound, Shaped, Distinct, Sole, IsActive
  <2>8. QueuedIsClear(queue)'
    BY <1>1, <2>1, <2>2, <2>3 DEF Sound, QueuedIsClear, Clear
  <2>9. LateIsKnown(queue)'
    <3> SUFFICES ASSUME NEW c \in late, NEW j \in DOMAIN queue,
                        c.mode = "finish", c.claim.id = queue[j].id
                 PROVE  /\ c.claim.token <= queue[j].token
                        /\ c.claim.token = queue[j].token /\ c.result.status = "queued"
                             => Clear(queue[j].id)'
      BY <1>1 DEF LateIsKnown, Clear
    <3>1. /\ c.claim.token <= queue[j].token
          /\ c.claim.token = queue[j].token /\ c.result.status = "queued" => Clear(queue[j].id)
      BY DEF Sound, LateIsKnown
    <3>2. CASE queue[j].id = held.id
      <4>1. c.claim.token < held.token /\ queue[j].token = held.token
        BY <1>1, <2>2, <2>3, <3>2 DEF FreshClaim, Unstarted
      <4>2. c.claim.token \in Nat /\ held.token \in Nat
        BY DEF WorkerTyped, OpTypeOK, Calls, Claim, DashboardOperationsAssumption
      <4> QED BY <3>1, <4>1, <4>2
    <3>3. CASE queue[j].id # held.id
      <4>1. ran'[queue[j].id] = ran[queue[j].id]
        BY <2>1, <2>3, <3>3
      <4> QED BY <1>1, <3>1, <4>1 DEF Clear
    <3> QED BY <3>2, <3>3
  <2>10. (ClaimsAreIssued(queue) /\ LeaseStands(queue))'
    BY <1>1, <1>2 DEF Sound, ClaimsAreIssued, LeaseStands, Busy, Unstarted
  <2> QED BY <2>4, <2>5, <2>6, <2>7, <2>8, <2>9, <2>10 DEF Sound
<1>3. CASE /\ result' \in {[status |-> "done", at |-> 0], [status |-> "queued", at |-> now + Wait]}
           /\ pc' = "executed" /\ ran' = ran
  <2>1. result' \in Result /\ result'.status # "none"
    BY <1>1, <1>3 DEF Result, DashboardOperationsAssumption
  <2>2. Clear(held.id)
    BY <1>1 DEF FreshClaim, Unstarted
  <2>3. Sound(queue)'
    BY <1>1, <1>3, SoundWorker DEF Busy, Unstarted, Ending
  <2>4. WorkerTyped'
    BY <1>1, <1>3, <2>1 DEF WorkerTyped, OpTypeOK, Steps
  <2>5. (FilesAreClear /\ CallsHaveFiles /\ FreshClaim /\ Executed)'
    BY <1>1, <1>3, <2>2 DEF FilesAreClear, CallsHaveFiles, FreshClaim, Executed, Clear,
       Busy, Unstarted, Ending
  <2> QED BY <2>3, <2>4, <2>5
<1> QED BY <1>2, <1>3 DEF Execute

LEMMA ExecutionReturns ==
  ASSUME OpInv, DashboardOperationsAssumption, Return
  PROVE  OpInv'
<1> USE DEF OpInv, WorkerInv
<1>1. /\ pc = "executing" /\ pc' = "executed" /\ UNCHANGED <<now, queue, late, file, held>>
      /\ held.id \in Id /\ now \in 0..Horizon /\ ran[held.id] = "unknown"
  BY DEF Return, WorkerTyped, OpTypeOK, Executed
<1>2. \/ /\ result' \in [status : {"done", "unfit"}, at : {0}]
         /\ ran' = [ran EXCEPT ![held.id] = "done"]
      \/ /\ result' = [status |-> "queued", at |-> now + Wait]
         /\ ran' = [ran EXCEPT ![held.id] = "deferred"]
  BY DEF Return
<1>2a. result' \in Result /\ result'.status # "none"
  BY <1>1, <1>2 DEF Result, DashboardOperationsAssumption
<1>2b. ran \in [Id -> {"never", "unknown", "deferred", "done"}]
  BY DEF WorkerTyped, OpTypeOK
<1>3. /\ result' \in Result /\ result'.status # "none"
      /\ ran' \in [Id -> {"never", "unknown", "deferred", "done"}]
      /\ ran'[held.id] \in {"done", "deferred"}
      /\ result'.status = "queued" => ran'[held.id] = "deferred"
      /\ \A i \in Id \ {held.id} : ran'[i] = ran[i]
  BY <1>1, <1>2, <1>2a, <1>2b
<1>4. \A i \in Id : Clear(i) => Clear(i)'
  BY <1>1, <1>3 DEF Clear
<1>5. WorkerTyped'
  BY <1>1, <1>3 DEF WorkerTyped, OpTypeOK, Steps
<1>6. (FilesAreClear /\ CallsHaveFiles /\ FreshClaim /\ Executed)'
  BY <1>1, <1>3, <1>4 DEF FilesAreClear, CallsHaveFiles, FreshClaim, Executed, Clear,
     Busy, Unstarted, Ending
<1>7. \A j \in DOMAIN queue : queue[j].id \in Id
  BY IdsOfQueue
<1>8. (Shaped(queue) /\ Distinct(queue) /\ Sole(queue))'
  BY <1>1 DEF Sound, Shaped, Distinct, Sole, IsActive
<1>9. QueuedIsClear(queue)'
  BY <1>1, <1>4, <1>7 DEF Sound, QueuedIsClear
<1>10. LateIsKnown(queue)'
  BY <1>1, <1>4, <1>7 DEF Sound, LateIsKnown
<1>11. (ClaimsAreIssued(queue) /\ LeaseStands(queue))'
  BY <1>1 DEF Sound, ClaimsAreIssued, LeaseStands, Busy, Unstarted, Ending
<1> QED BY <1>5, <1>6, <1>8, <1>9, <1>10, <1>11 DEF Sound

\* The result goes into the request's file, first unreported, then reported.
LEMMA ResultSaved ==
  ASSUME OpInv, DashboardOperationsAssumption, SaveResult \/ MarkPublished
  PROVE  OpInv'
<1> USE DEF OpInv, WorkerInv
<1>1. /\ pc \in Ending /\ UNCHANGED <<now, queue, late, held, result, ran>>
      /\ pc' \in {"finish", "off", "resend"} /\ (pc' = "finish" => pc = "executed")
  BY DEF SaveResult, MarkPublished, Ending
<1>2. /\ held.id \in Id /\ result \in Result /\ result.status # "none"
      /\ file \in [Id -> [token : 0..MaxClaims, result : Result, published : BOOLEAN]]
      /\ result.status = "queued" => Clear(held.id)
      /\ file[held.id].token > 0
  BY <1>1 DEF WorkerTyped, OpTypeOK, Executed, CallsHaveFiles, Busy, Unstarted, Ending
<1> DEFINE File == [token : 0..MaxClaims, result : Result, published : BOOLEAN]
           unmarked == [file[held.id] EXCEPT !.result = result]
           marked == [unmarked EXCEPT !.published = TRUE]
<1>a. /\ unmarked \in File /\ unmarked.token = file[held.id].token /\ unmarked.result = result
      /\ marked \in File /\ marked.token = file[held.id].token /\ marked.result = result
  <2>1. file[held.id] \in File
    BY <1>2
  <2>2. unmarked \in File /\ unmarked.token = file[held.id].token /\ unmarked.result = result
    BY <1>2, <2>1
  <2> HIDE DEF unmarked
  <2>3. marked \in File /\ marked.token = unmarked.token /\ marked.result = unmarked.result
    BY <2>2
  <2> QED BY <2>2, <2>3
<1>b. file' = [file EXCEPT ![held.id] = unmarked] \/ file' = [file EXCEPT ![held.id] = marked]
  <2>1. ASSUME SaveResult PROVE file' = [file EXCEPT ![held.id] = unmarked]
    BY <2>1 DEF SaveResult
  <2>2. ASSUME MarkPublished PROVE file' = [file EXCEPT ![held.id] = marked]
    BY <2>2, <1>2 DEF MarkPublished
  <2> QED BY <2>1, <2>2
<1> HIDE DEF unmarked, marked
<1>c. PICK saved \in File : /\ file' = [file EXCEPT ![held.id] = saved]
                           /\ saved.token = file[held.id].token /\ saved.result = result
  BY <1>a, <1>b
<1>3. /\ file'[held.id] = saved
      /\ \A i \in Id \ {held.id} : file'[i] = file[i]
  BY <1>2, <1>c
<1>4. file' \in [Id -> File]
  <2>1. file \in [Id -> File] /\ saved \in File
    BY <1>2, <1>c
  <2> HIDE DEF File
  <2> QED BY <1>c, <2>1
<1>d. \A i \in Id : file'[i].token = file[i].token
  BY <1>3, <1>c
<1>5. WorkerTyped'
  <2>1. pc' \in Steps
    BY <1>1 DEF Steps
  <2>2. \A i \in Id : file'[i].result = result \/ file'[i] = file[i]
    BY <1>3, <1>c
  <2>3. \A i \in Id : file'[i].result.status = "none" => file'[i].result = NoResult
    BY <1>2, <2>2 DEF WorkerTyped
  <2>4. OpTypeOK'
    BY <1>1, <1>4, <2>1 DEF WorkerTyped, OpTypeOK
  <2> HIDE DEF File
  <2> QED BY <1>1, <1>2, <2>3, <2>4 DEF WorkerTyped
<1>6. FilesAreClear'
  BY <1>1, <1>2, <1>3, <1>c DEF FilesAreClear, Clear
<1>7. CallsHaveFiles'
  <2>1. \A c \in late : c.mode = "finish" => c.claim.id \in Id
    BY DEF WorkerTyped, OpTypeOK, Calls, Claim
  <2>2. pc' \in Ending \/ pc' \in {"off", "resend"}
    BY <1>1 DEF Ending
  <2> QED BY <1>1, <1>2, <1>3, <1>c, <1>d, <2>1, <2>2 DEF CallsHaveFiles, Busy, Unstarted, Ending
<1>8. (FreshClaim /\ Executed)'
  BY <1>1, <1>2 DEF FreshClaim, Executed, Clear, Unstarted, Ending
<1>9. (Shaped(queue) /\ Distinct(queue) /\ Sole(queue) /\ QueuedIsClear(queue) /\ LateIsKnown(queue))'
  BY <1>1 DEF Sound, Shaped, Distinct, Sole, QueuedIsClear, LateIsKnown, Clear, IsActive
<1>10. (ClaimsAreIssued(queue) /\ LeaseStands(queue))'
  <2>1. \A j \in DOMAIN queue : queue[j].id \in Id
    BY IdsOfQueue
  <2> QED BY <1>1, <1>d, <2>1 DEF Sound, ClaimsAreIssued, LeaseStands, Busy, Unstarted, Ending
<1> QED BY <1>5, <1>6, <1>7, <1>8, <1>9, <1>10 DEF Sound

LEMMA Enqueued ==
  ASSUME OpInv, DashboardOperationsAssumption, NEW i \in Id, NEW target \in Target,
         Enqueue(i, target)
  PROVE  OpInv'
<1> USE DEF OpInv, WorkerInv
<1>1. UNCHANGED <<now, late, file, pc, held, result, ran>>
  BY DEF Enqueue
<1>2. Sound(queue')
  BY EnqueuedIsSound DEF WorkerTyped
<1>3. Sound(queue)'
  BY <1>1, <1>2, SoundStays
<1>4. WorkerTyped'
  BY <1>1, <1>2 DEF WorkerTyped, OpTypeOK, Sound, Shaped
<1>5. (FilesAreClear /\ CallsHaveFiles /\ FreshClaim /\ Executed)'
  BY <1>1 DEF FilesAreClear, CallsHaveFiles, FreshClaim, Executed, Clear
<1> QED BY <1>3, <1>4, <1>5

LEMMA OperationsInvariant == OpSpec => []OpInv
<1>1. OpInit => OpInv
  <2> SUFFICES ASSUME OpInit PROVE OpInv
    OBVIOUS
  <2> USE DEF OpInit, DashboardOperationsAssumption
  <2>1. queue \in Seq(Request) /\ DOMAIN queue = {}
    BY EmptySeq
  <2>2. NoFile \in [token : 0..MaxClaims, result : Result, published : BOOLEAN]
        /\ NoFile.result.status = "none" /\ NoFile.result = NoResult /\ NoResult \in Result
    BY DashboardOperationsAssumption DEF NoFile, NoResult, Result
  <2>3. WorkerTyped
    BY <2>1, <2>2, DashboardOperationsAssumption DEF WorkerTyped, OpTypeOK, Steps, Ending
  <2>4. FilesAreClear /\ CallsHaveFiles /\ FreshClaim /\ Executed
    BY <2>2 DEF FilesAreClear, CallsHaveFiles, FreshClaim, Executed, Busy, Unstarted, Ending
  <2>5. Sound(queue)
    BY <2>1 DEF Sound, Shaped, Distinct, Sole, QueuedIsClear, LateIsKnown, ClaimsAreIssued,
       LeaseStands, Unstarted
  <2> QED BY <2>3, <2>4, <2>5 DEF OpInv, WorkerInv
<1>2. OpInv /\ [OpNext]_opVars => OpInv'
  <2> SUFFICES ASSUME OpInv, [OpNext]_opVars PROVE OpInv'
    OBVIOUS
  <2> USE DashboardOperationsAssumption
  <2>1. ASSUME NEW i \in Id, Resend(i) PROVE OpInv'
    BY <2>1, Resends
  <2>2. ASSUME NEW i \in Id, NEW target \in Target, Enqueue(i, target) PROVE OpInv'
    BY <2>2, Enqueued
  <2>3. CASE Start \/ AllSent \/ Crash
    BY <2>3, WorkerMoves
  <2>4. CASE AnswerClaim
    BY <2>4, ClaimAnswered
  <2>5. CASE AnswerFinish
    BY <2>5, FinishAnswered
  <2>6. CASE NoAnswer
    BY <2>6, CallUnanswered
  <2>7. ASSUME NEW call \in late, LateCall(call) PROVE OpInv'
    BY <2>7, LateCallApplied
  <2>8. CASE SaveRunning
    BY <2>8, ClaimSaved
  <2>9. CASE Execute
    BY <2>9, ExecutionBegins
  <2>10. CASE Return
    BY <2>10, ExecutionReturns
  <2>11. CASE SaveResult \/ MarkPublished
    BY <2>11, ResultSaved
  <2>12. CASE Tick
    BY <2>12, ClockTicks
  <2>13. CASE UNCHANGED opVars
    BY <2>13 DEF opVars, OpInv, Sound, Shaped, Distinct, Sole, QueuedIsClear, LateIsKnown,
       ClaimsAreIssued, LeaseStands, Clear, Over, Day, IsActive, WorkerInv, WorkerTyped, OpTypeOK,
       FilesAreClear, CallsHaveFiles, FreshClaim, Executed, Unpublished
  <2> QED
    BY <2>1, <2>2, <2>3, <2>4, <2>5, <2>6, <2>7, <2>8, <2>9, <2>10, <2>11, <2>12, <2>13 DEF OpNext
<1> QED BY <1>1, <1>2, PTL DEF OpSpec

-----------------------------------------------------------------------------

\* A site account and action has at most one request that may still be executed,
\* for any number of requests and targets, whatever is lost, repeated or late.
THEOREM OneRequestIsActive == OpSpec => []OneActivePerTarget
<1>1. OpInv => OneActivePerTarget
  BY DEF OpInv, Sound, Sole, OneActivePerTarget
<1> QED BY <1>1, OperationsInvariant, PTL

\* An operation whose execution began and left no known outcome is never executed
\* again (process-dashboard-operations.mjs, claimOperation, finishOperation).
THEOREM NothingReexecutesBlindly == OpSpec => NoBlindReexecution
<1>1. OpInv => \A i \in Id : pc = "execute" /\ held.id = i => ran[i] \in {"never", "deferred"}
  BY DEF OpInv, WorkerInv, FreshClaim, Unstarted, Clear
<1>2. OpInv /\ [OpNext]_opVars =>
        [\A i \in Id : pc = "execute" /\ pc' = "executing" /\ held.id = i
                       => ran[i] \in {"never", "deferred"}]_opVars
  BY <1>1
<1> QED BY <1>2, OperationsInvariant, PTL DEF OpSpec, NoBlindReexecution

-----------------------------------------------------------------------------
(* What a step does to the requests: one that is over keeps its status; one  *)
(* that is active ends, is put back or waits; one that waits is claimed.     *)

Moved(r, s) ==
  \/ s.status = r.status /\ s.token = r.token
  \/ IsActive(r) /\ s.token = r.token /\ s.status # "running"
  \/ r.status = "queued" /\ s.status = "running" /\ s.token = r.token + 1
Moves(q, t) ==
  \A j \in DOMAIN t :
    \/ t[j].id \notin Ids(q) /\ t[j].token = 0
    \/ \E i \in DOMAIN q : q[i].id = t[j].id /\ Moved(q[i], t[j])

LEMMA ExpiredMoves ==
  ASSUME NEW q, Sound(q)
  PROVE  /\ DOMAIN Expired(q) = DOMAIN q
         /\ \A j \in DOMAIN q : Expired(q)[j].id = q[j].id /\ Moved(q[j], Expired(q)[j])
<1>1. \A j \in DOMAIN q : q[j] \in Request
  BY DEF Sound, Shaped
<1>2. ASSUME NEW j \in DOMAIN q
      PROVE  Expired(q)[j].id = q[j].id /\ Moved(q[j], Expired(q)[j])
  <2>1. CASE IsActive(q[j]) /\ Over(q[j])
    <3>1. Expired(q)[j] = [q[j] EXCEPT !.status = IF @ = "running" THEN "interrupted" ELSE "expired"]
      BY <2>1 DEF Expired
    <3>2. /\ Expired(q)[j].id = q[j].id /\ Expired(q)[j].token = q[j].token
          /\ Expired(q)[j].status \in {"interrupted", "expired"}
      BY <1>1, <3>1 DEF Request
    <3> QED BY <2>1, <3>2 DEF Moved
  <2>2. CASE ~(IsActive(q[j]) /\ Over(q[j]))
    <3>1. Expired(q)[j] = q[j]
      BY <2>2 DEF Expired
    <3> QED BY <3>1 DEF Moved
  <2> QED BY <2>1, <2>2
<1>3. DOMAIN Expired(q) = DOMAIN q
  BY DEF Expired
<1> QED BY <1>2, <1>3

LEMMA ClaimedMoves ==
  ASSUME Sound(queue), DashboardOperationsAssumption, OpTypeOK, ClaimBounded
  PROVE  Moves(queue, ClaimedQueue)
<1> DEFINE q == Expired(queue)
           f == First(Claimable(q))
<1>1. /\ DOMAIN q = DOMAIN queue
      /\ \A j \in DOMAIN queue : q[j].id = queue[j].id /\ Moved(queue[j], q[j])
  BY ExpiredMoves
<1>2. \A j \in DOMAIN queue : IsActive(q[j]) => q[j] = queue[j]
  BY ExpiredIsSound
<1>3. Claimable(q) = {} => ClaimedQueue = q
  BY DEF ClaimedQueue
<1>4. Claimable(q) # {} =>
        /\ f \in DOMAIN q /\ q[f].status = "queued" /\ DOMAIN ClaimedQueue = DOMAIN q
        /\ ClaimedQueue[f].id = q[f].id /\ ClaimedQueue[f].token = q[f].token + 1
        /\ ClaimedQueue[f].status = "running"
        /\ \A j \in DOMAIN q \ {f} : ClaimedQueue[j] = q[j]
  BY ClaimedIsSound
<1> HIDE DEF q, f
<1>5. CASE Claimable(q) = {}
  BY <1>1, <1>3, <1>5 DEF Moves
<1>6. CASE Claimable(q) # {}
  <2>1. q[f] = queue[f] /\ Moved(queue[f], ClaimedQueue[f])
    BY <1>1, <1>2, <1>4, <1>6 DEF IsActive, Active, Moved
  <2> QED BY <1>1, <1>4, <1>6, <2>1 DEF Moves
<1> QED BY <1>5, <1>6

LEMMA FinishedMoves ==
  ASSUME Sound(queue), NEW c, NEW rs \in Result
  PROVE  Moves(queue, FinishedQueue(c, rs))
<1>1. \A j \in DOMAIN queue : queue[j] \in Request
  BY DEF Sound, Shaped
<1>2. CASE Refuses(c, rs)
  BY <1>2 DEF FinishedQueue, Moves, Moved
<1>3. CASE ~Refuses(c, rs)
  <2> DEFINE t == FinishedQueue(c, rs)
  <2>1. DOMAIN t = DOMAIN queue
    BY <1>3 DEF FinishedQueue
  <2>2. ASSUME NEW j \in DOMAIN queue
        PROVE  t[j].id = queue[j].id /\ Moved(queue[j], t[j])
    <3>1. CASE j \in Finishes(c, rs)
      <4>1. t[j] = [queue[j] EXCEPT !.status = rs.status,
                                    !.eligible = IF rs.status = "queued" THEN rs.at ELSE @]
        BY <1>3, <3>1 DEF FinishedQueue
      <4>2. t[j].id = queue[j].id /\ t[j].token = queue[j].token /\ t[j].status = rs.status
        BY <1>1, <4>1 DEF Request
      <4>3. IsActive(queue[j]) /\ rs.status # "running"
        BY <3>1 DEF Finishes, Result
      <4> QED BY <4>2, <4>3 DEF Moved
    <3>2. CASE j \notin Finishes(c, rs)
      <4>1. t[j] = queue[j]
        BY <1>3, <3>2 DEF FinishedQueue
      <4> QED BY <4>1 DEF Moved
    <3> QED BY <3>1, <3>2
  <2> HIDE DEF t
  <2>3. Moves(queue, t)
    BY <2>1, <2>2 DEF Moves
  <2> QED BY <2>3 DEF t
<1> QED BY <1>2, <1>3

LEMMA EnqueuedMoves ==
  ASSUME OpInv, DashboardOperationsAssumption, NEW i \in Id, NEW target \in Target, Enqueue(i, target)
  PROVE  Moves(queue, queue')
<1> DEFINE q == Expired(queue)
           kept == Trimmed(q)
           new == [id |-> i, target |-> target, status |-> "queued",
                   token |-> 0, created |-> now, eligible |-> 0]
<1>1. Sound(queue) /\ Sound(q)
  BY ExpiredIsSound DEF OpInv
<1>2. Sound(kept) /\ \A n \in DOMAIN kept : \E j \in DOMAIN q : kept[n] = q[j]
  BY <1>1, TrimmedIsSound DEF DashboardOperationsAssumption
<1>3. /\ DOMAIN q = DOMAIN queue
      /\ \A j \in DOMAIN queue : q[j].id = queue[j].id /\ Moved(queue[j], q[j])
  BY <1>1, ExpiredMoves
<1>4. i \notin Ids(queue)
  BY DEF Enqueue
<1>5. queue' = queue \/ queue' = q \/ queue' = Append(kept, new)
  BY DEF Enqueue
<1> HIDE DEF q, kept
<1>6. CASE queue' = queue
  BY <1>6 DEF Moves, Moved
<1>7. CASE queue' = q
  BY <1>3, <1>7 DEF Moves
<1>8. CASE queue' = Append(kept, new)
  <2>1. new.id = i /\ new.token = 0
    OBVIOUS
  <2> HIDE DEF new
  <2>2. kept \in Seq(Request)
    BY <1>2 DEF Sound, Shaped
  <2>3. \A n \in DOMAIN queue' : queue'[n] = new \/ \E m \in DOMAIN kept : queue'[n] = kept[m]
    <3>1. Len(kept) \in Nat /\ DOMAIN kept = 1..Len(kept) /\ DOMAIN Append(kept, new) = 1..(Len(kept) + 1)
          /\ (\A n \in 1..Len(kept) : Append(kept, new)[n] = kept[n])
          /\ Append(kept, new)[Len(kept) + 1] = new
      BY <2>2
    <3>2. \A n \in 1..(Len(kept) + 1) : n \in 1..Len(kept) \/ n = Len(kept) + 1
      BY <3>1
    <3> QED BY <1>8, <3>1, <3>2
  <2> QED BY <1>2, <1>3, <1>4, <2>1, <2>3 DEF Moves
<1> QED BY <1>5, <1>6, <1>7, <1>8

LEMMA QueueMoves == OpInv /\ [OpNext]_opVars => Moves(queue, queue')
<1> SUFFICES ASSUME OpInv, [OpNext]_opVars PROVE Moves(queue, queue')
  OBVIOUS
<1> USE DashboardOperationsAssumption
<1>0. Sound(queue) /\ OpTypeOK /\ result \in Result /\ late \subseteq Calls
  BY DEF OpInv, WorkerInv, WorkerTyped, OpTypeOK
<1>1. CASE queue' = queue
  BY <1>1 DEF Moves, Moved
<1>2. ASSUME NEW i \in Id, NEW target \in Target, Enqueue(i, target) PROVE Moves(queue, queue')
  BY <1>2, EnqueuedMoves
<1>3. CASE AnswerClaim
  BY <1>0, <1>3, ClaimedMoves DEF AnswerClaim
<1>4. CASE AnswerFinish
  BY <1>0, <1>4, FinishedMoves DEF AnswerFinish
<1>5. ASSUME NEW call, call \in Calls, queue' = Applied(call), call.mode = "claim" => ClaimBounded
      PROVE  Moves(queue, queue')
  <2>1. CASE call.mode = "claim"
    BY <1>0, <1>5, <2>1, ClaimedMoves DEF Applied
  <2>2. CASE call.mode # "claim"
    <3>1. call.result \in Result
      BY <1>5, <2>2 DEF Calls
    <3> QED BY <1>0, <1>5, <2>2, <3>1, FinishedMoves DEF Applied
  <2> QED BY <2>1, <2>2
<1>6. CASE NoAnswer
  <2>1. Call \in Calls /\ (Call.mode = "claim" => ClaimBounded)
    <3>1. pc \in {"claim", "republish", "finish"} /\ (pc = "claim" => ClaimBounded)
      BY <1>6 DEF NoAnswer, Call, NoCall
    <3>2. CASE pc = "claim"
      BY <3>1, <3>2 DEF Call, Calls
    <3>3. CASE pc # "claim"
      <4>1. Call = [mode |-> "finish", claim |-> [id |-> held.id, token |-> held.token], result |-> result]
        BY <3>1, <3>3 DEF Call
      <4>2. held.id \in Id /\ held.token \in 0..MaxClaims
        BY <1>0 DEF OpTypeOK
      <4> QED BY <1>0, <4>1, <4>2 DEF Calls, Claim
    <3> QED BY <3>2, <3>3
  <2>2. queue' = Applied(Call) \/ queue' = queue
    BY <1>6 DEF NoAnswer
  <2> QED BY <1>1, <1>5, <2>1, <2>2
<1>7. ASSUME NEW call \in late, LateCall(call) PROVE Moves(queue, queue')
  BY <1>0, <1>5, <1>7 DEF LateCall
<1>8. \/ queue' = queue \/ AnswerClaim \/ AnswerFinish \/ NoAnswer
      \/ \E i \in Id : \E target \in Target : Enqueue(i, target)
      \/ \E call \in late : LateCall(call)
  BY DEF OpNext, opVars, Resend, Start, AllSent, SaveRunning, Execute, Return, SaveResult,
     MarkPublished, Crash, Tick
<1> QED BY <1>1, <1>2, <1>3, <1>4, <1>6, <1>7, <1>8

\* A request the dashboard has shown as done, interrupted or expired keeps that
\* status: no late or repeated report, and no claim, revives it, and no new
\* request takes its id.
THEOREM EndedStaysEnded == OpSpec => EndedIsFinal
<1>1. ASSUME OpInv, [OpNext]_opVars, NEW i \in DOMAIN queue, NEW j \in DOMAIN queue',
             queue[i].id = queue'[j].id, ~IsActive(queue[i])
      PROVE  queue'[j].status = queue[i].status
  <2>1. queue'[j].id \in Ids(queue)
    BY <1>1 DEF Ids
  <2>2. PICK k \in DOMAIN queue : queue[k].id = queue'[j].id /\ Moved(queue[k], queue'[j])
    BY <1>1, <2>1, QueueMoves DEF Moves
  <2>3. k = i
    BY <1>1, <2>2 DEF OpInv, Sound, Distinct
  <2> QED BY <1>1, <2>2, <2>3 DEF Moved, IsActive, Active
<1>2. OpInv /\ [OpNext]_opVars =>
        [\A i \in DOMAIN queue : \A j \in DOMAIN queue' :
           queue[i].id = queue'[j].id /\ ~IsActive(queue[i]) => queue'[j].status = queue[i].status]_opVars
  BY <1>1
<1> QED BY <1>2, OperationsInvariant, PTL DEF OpSpec, EndedIsFinal

-----------------------------------------------------------------------------
(* A worker that marks a result as reported has had it acknowledged: under   *)
(* that claim the request is over, or waits because the result said so.      *)

Settled(r, status) == r.status # "running" /\ (r.status = "queued" => status = "queued")
Reporting == {"finish", "mark", "republish", "remark"}
Recorded ==
  /\ pc \in Reporting => file[held.id].token = held.token
  /\ pc \in {"mark", "remark"} =>
       \A j \in DOMAIN queue :
         queue[j].id = held.id /\ queue[j].token = held.token => Settled(queue[j], result.status)

\* Nothing a transaction does unsettles a request whose claim is no newer.
LEMMA SettledStays ==
  ASSUME OpInv, NEW t, Moves(queue, t), NEW i \in Id, NEW token \in Nat, NEW status,
         token > 0,
         \A j \in DOMAIN queue : queue[j].id = i => token <= queue[j].token,
         \A j \in DOMAIN queue : queue[j].id = i /\ queue[j].token = token => Settled(queue[j], status)
  PROVE  \A j \in DOMAIN t : t[j].id = i /\ t[j].token = token => Settled(t[j], status)
<1> SUFFICES ASSUME NEW j \in DOMAIN t, t[j].id = i, t[j].token = token
             PROVE  Settled(t[j], status)
  OBVIOUS
<1>1. PICK k \in DOMAIN queue : queue[k].id = i /\ Moved(queue[k], t[j])
  BY DEF Moves
<1>2. queue[k].token \in Nat /\ token <= queue[k].token
  <2>1. queue[k] \in Request
    BY <1>1 DEF OpInv, Sound, Shaped
  <2> QED BY <1>1, <2>1, DashboardOperationsAssumption DEF Request
<1>3. t[j].token # queue[k].token + 1
  BY <1>2
<1>4. t[j].token = queue[k].token /\ Settled(queue[k], status)
  BY <1>1, <1>3 DEF Moved
<1> QED BY <1>1, <1>3, <1>4 DEF Moved, Settled, IsActive, Active

LEMMA MarksMoveOn ==
  ASSUME OpInv, Recorded, SaveRunning \/ SaveResult \/ MarkPublished
  PROVE  Recorded'
<1>1. held.id \in Id /\ file \in [Id -> [token : 0..MaxClaims, result : Result, published : BOOLEAN]]
  BY DEF OpInv, WorkerInv, WorkerTyped, OpTypeOK
<1>2. CASE SaveRunning \/ MarkPublished
  <2>1. pc' \in {"execute", "off", "resend"}
    BY <1>2 DEF SaveRunning, MarkPublished
  <2> QED BY <2>1 DEF Recorded, Reporting
<1>3. CASE SaveResult
  <2>1. /\ pc = "executed" /\ pc' = "finish" /\ held' = held
        /\ file' = [file EXCEPT ![held.id] = [@ EXCEPT !.result = result]]
    BY <1>3 DEF SaveResult
  <2>2. file'[held.id].token = file[held.id].token
    BY <1>1, <2>1
  <2>3. file[held.id].token = held.token
    BY <2>1 DEF OpInv, WorkerInv, Executed
  <2> QED BY <2>1, <2>2, <2>3 DEF Recorded
<1> QED BY <1>2, <1>3

LEMMA ReportsAreMarked ==
  ASSUME OpInv, Recorded, ReportedIsRecorded, SaveRunning \/ SaveResult \/ MarkPublished
  PROVE  ReportedIsRecorded'
<1>1. held.id \in Id /\ file \in [Id -> [token : 0..MaxClaims, result : Result, published : BOOLEAN]]
  BY DEF OpInv, WorkerInv, WorkerTyped, OpTypeOK
<1>2. queue' = queue
  BY DEF SaveRunning, SaveResult, MarkPublished
<1>3. \A i \in Id \ {held.id} : file'[i] = file[i]
  BY <1>1 DEF SaveRunning, SaveResult, MarkPublished
<1>4. CASE SaveRunning \/ SaveResult
  <2>1. ~file'[held.id].published
    <3>1. CASE SaveRunning
      <4>1. file'[held.id] = [token |-> held.token, result |-> NoResult, published |-> FALSE]
        BY <1>1, <3>1 DEF SaveRunning
      <4> QED BY <4>1
    <3>2. CASE SaveResult
      <4>1. file'[held.id] = [file[held.id] EXCEPT !.result = result]
        BY <1>1, <3>2 DEF SaveResult
      <4>2. file[held.id] = [token |-> held.token, result |-> NoResult, published |-> FALSE]
        BY <3>2 DEF SaveResult, OpInv, WorkerInv, Executed
      <4> QED BY <4>1, <4>2
    <3> QED BY <1>4, <3>1, <3>2
  <2> QED BY <1>2, <1>3, <2>1 DEF ReportedIsRecorded
<1>5. CASE MarkPublished
  <2>1. pc \in {"mark", "remark"}
    BY <1>5 DEF MarkPublished
  <2>2. file'[held.id].token = held.token /\ file'[held.id].result = result
    <3>1. file' = [file EXCEPT ![held.id] = [[@ EXCEPT !.result = result] EXCEPT !.published = TRUE]]
      BY <1>1, <1>5 DEF MarkPublished
    <3>2. file[held.id].token = held.token
      BY <2>1 DEF Recorded, Reporting
    <3> QED BY <1>1, <3>1, <3>2
  <2>3. \A j \in DOMAIN queue :
          queue[j].id = held.id /\ queue[j].token = held.token => Settled(queue[j], result.status)
    BY <2>1 DEF Recorded
  <2> QED BY <1>2, <1>3, <2>2, <2>3 DEF ReportedIsRecorded, Settled
<1> QED BY <1>4, <1>5

\* Whatever changes the queue leaves what was reported as it was reported.
LEMMA ReportsStand ==
  ASSUME OpInv, ReportedIsRecorded, Moves(queue, queue'), file' = file
  PROVE  ReportedIsRecorded'
<1> SUFFICES ASSUME NEW i \in Id, file[i].token > 0, file[i].published
             PROVE  \A j \in DOMAIN queue' :
                      queue'[j].id = i /\ queue'[j].token = file[i].token
                        => Settled(queue'[j], file[i].result.status)
  BY DEF ReportedIsRecorded, Settled
<1>1. file[i].token \in Nat
  BY DashboardOperationsAssumption DEF OpInv, WorkerInv, WorkerTyped, OpTypeOK
<1>2. \A j \in DOMAIN queue : queue[j].id = i => file[i].token <= queue[j].token
  BY DEF OpInv, Sound, ClaimsAreIssued
<1>3. \A j \in DOMAIN queue :
        queue[j].id = i /\ queue[j].token = file[i].token => Settled(queue[j], file[i].result.status)
  BY DEF ReportedIsRecorded, Settled
<1> DEFINE token == file[i].token
           status == file[i].result.status
<1> HIDE DEF token, status
<1>4. token \in Nat /\ token > 0
  BY <1>1 DEF token
<1>5. \A j \in DOMAIN queue : queue[j].id = i => token <= queue[j].token
  BY <1>2 DEF token
<1>6. \A j \in DOMAIN queue : queue[j].id = i /\ queue[j].token = token => Settled(queue[j], status)
  BY <1>3 DEF token, status
<1>7. \A j \in DOMAIN queue' : queue'[j].id = i /\ queue'[j].token = token => Settled(queue'[j], status)
  BY <1>4, <1>5, <1>6, SettledStays
<1> QED BY <1>7 DEF token, status

LEMMA AcknowledgedStands ==
  ASSUME OpInv, Recorded, Moves(queue, queue'), UNCHANGED <<file, pc, held, result>>
  PROVE  Recorded'
<1>1. CASE pc \notin {"mark", "remark"}
  BY <1>1 DEF Recorded
<1>2. CASE pc \in {"mark", "remark"}
  <2>1. held.id \in Id /\ held.token \in Nat /\ held.token > 0
    BY <1>2, DashboardOperationsAssumption
    DEF OpInv, WorkerInv, WorkerTyped, OpTypeOK, CallsHaveFiles, Busy, Ending
  <2>2. \A j \in DOMAIN queue : queue[j].id = held.id => held.token <= queue[j].token
    BY <1>2 DEF OpInv, Sound, ClaimsAreIssued, Busy, Ending
  <2>3. \A j \in DOMAIN queue :
          queue[j].id = held.id /\ queue[j].token = held.token => Settled(queue[j], result.status)
    BY <1>2 DEF Recorded
  <2> DEFINE i == held.id
             token == held.token
             status == result.status
  <2> HIDE DEF i, token, status
  <2>4. i \in Id /\ token \in Nat /\ token > 0
        /\ (\A j \in DOMAIN queue : queue[j].id = i => token <= queue[j].token)
        /\ (\A j \in DOMAIN queue : queue[j].id = i /\ queue[j].token = token => Settled(queue[j], status))
    BY <2>1, <2>2, <2>3 DEF i, token, status
  <2>5. \A j \in DOMAIN queue' : queue'[j].id = i /\ queue'[j].token = token => Settled(queue'[j], status)
    BY <2>4, SettledStays
  <2> QED BY <2>5 DEF Recorded, i, token, status, Settled
<1> QED BY <1>1, <1>2

LEMMA AnswerAcknowledges ==
  ASSUME OpInv, Recorded, AnswerFinish
  PROVE  Recorded'
<1>1. /\ pc \in {"republish", "finish"} /\ UNCHANGED <<file, held, result>>
      /\ queue' = FinishedQueue(held, result)
      /\ pc' = IF Refuses(held, result) THEN "off" ELSE IF pc = "finish" THEN "mark" ELSE "remark"
  BY DEF AnswerFinish
<1>2. file[held.id].token = held.token
  BY <1>1 DEF Recorded, Reporting
<1>3. CASE Refuses(held, result)
  BY <1>1, <1>3 DEF Recorded, Reporting
<1>4. CASE ~Refuses(held, result)
  <2>1. \A j \in DOMAIN queue : queue[j] \in Request
    BY DEF OpInv, Sound, Shaped
  <2>2. result.status # "running"
    BY DEF OpInv, WorkerInv, WorkerTyped, OpTypeOK, Result
  <2>3. DOMAIN queue' = DOMAIN queue
    BY <1>1, <1>4 DEF FinishedQueue
  <2>4. ASSUME NEW j \in DOMAIN queue, queue'[j].id = held.id, queue'[j].token = held.token
        PROVE  Settled(queue'[j], result.status)
    <3>1. CASE j \in Finishes(held, result)
      <4>1. queue'[j] = [queue[j] EXCEPT !.status = result.status,
                             !.eligible = IF result.status = "queued" THEN result.at ELSE @]
        BY <1>1, <1>4, <3>1 DEF FinishedQueue
      <4>2. queue'[j].status = result.status
        BY <2>1, <4>1 DEF Request
      <4> QED BY <2>2, <4>2 DEF Settled
    <3>2. CASE j \notin Finishes(held, result)
      <4>1. queue'[j] = queue[j]
        BY <1>1, <1>4, <3>2 DEF FinishedQueue
      <4> QED BY <2>4, <3>2, <4>1 DEF Finishes, IsActive, Active, Settled
    <3> QED BY <3>1, <3>2
  <2> QED BY <1>1, <1>2, <2>3, <2>4 DEF Recorded
<1> QED BY <1>3, <1>4

LEMMA RecordedKept == OpInv /\ Recorded /\ ReportedIsRecorded /\ [OpNext]_opVars => Recorded' /\ ReportedIsRecorded'
<1> SUFFICES ASSUME OpInv, Recorded, ReportedIsRecorded, [OpNext]_opVars
             PROVE  Recorded' /\ ReportedIsRecorded'
  OBVIOUS
<1>1. Moves(queue, queue')
  BY QueueMoves
<1>2. CASE SaveRunning \/ SaveResult \/ MarkPublished
  BY <1>2, MarksMoveOn, ReportsAreMarked
<1>3. CASE AnswerFinish
  <2>1. file' = file
    BY <1>3 DEF AnswerFinish
  <2> QED BY <1>1, <1>3, <2>1, AnswerAcknowledges, ReportsStand
<1>4. CASE UNCHANGED <<file, pc, held, result>>
  BY <1>1, <1>4, AcknowledgedStands, ReportsStand
<1>5. CASE file' = file /\ pc' \notin Reporting
  BY <1>1, <1>5, ReportsStand DEF Recorded, Reporting
<1>6. ASSUME NEW i \in Id, Resend(i) PROVE Recorded' /\ ReportedIsRecorded'
  <2>1. file' = file /\ pc' = "republish" /\ held'.id = i /\ held'.token = file[i].token
    BY <1>6 DEF Resend
  <2>2. Recorded'
    BY <2>1 DEF Recorded
  <2> QED BY <1>1, <2>1, <2>2, ReportsStand
<1>7. \/ SaveRunning \/ SaveResult \/ MarkPublished \/ AnswerFinish
      \/ UNCHANGED <<file, pc, held, result>>
      \/ file' = file /\ pc' \notin Reporting
      \/ \E i \in Id : Resend(i)
  BY DEF OpNext, opVars, Enqueue, Start, AllSent, AnswerClaim, NoAnswer, LateCall, Execute, Return,
     Crash, Tick, Reporting
<1> QED BY <1>2, <1>3, <1>4, <1>5, <1>6, <1>7

\* A result the worker takes for reported has reached the queue under its
\* claim: that request is no longer running, and waits only if it was deferred.
THEOREM ReportsReachTheQueue == OpSpec => []ReportedIsRecorded
<1>1. OpInit => Recorded /\ ReportedIsRecorded
  <2> SUFFICES ASSUME OpInit PROVE Recorded /\ ReportedIsRecorded
    OBVIOUS
  <2>1. DOMAIN queue = {} /\ pc = "off"
    BY EmptySeq DEF OpInit
  <2> QED BY <2>1 DEF Recorded, Reporting, ReportedIsRecorded
<1> QED BY <1>1, RecordedKept, OperationsInvariant, PTL DEF OpSpec

==============================================================================
