---------------------------- MODULE Publication ----------------------------
(***************************************************************************)
(* How a dashboard generation is published.  Locally, and on the NAS that  *)
(* serves the dashboard, a directory holds the status ledger, the current  *)
(* generation manifest and the previous one.  A manifest embeds a snapshot *)
(* and names, by length and digest, the ledger prefix it belongs to; a     *)
(* reader serves the current manifest if its prefix still matches, else    *)
(* the previous one.  The local directory is written by the engine, by the *)
(* evidence rebuild and by the NAS sync; the NAS one by commands the sync  *)
(* runs there over connections that fail, which does not stop a command:   *)
(* it runs on, or goes no further than it got.  A digest is modelled by    *)
(* the bytes it is of; the compatibility snapshot file, which no           *)
(* generation depends on, is left out.                                     *)
(***************************************************************************)
EXTENDS Naturals, Sequences, SequencesExt

CONSTANTS Contents,  \* what a snapshot can say
          None,      \* no manifest
          MaxBuilds, \* bound on the snapshots built
          MaxSyncs   \* bound on the syncs

ASSUME PublicationAssumption == MaxBuilds \in Nat /\ MaxSyncs \in Nat

VARIABLES
  ledger,   \* shadow-ledger.jsonl at each site
  cur,      \* dashboard-generation.json
  prev,     \* dashboard-generation.previous.json
  clock,    \* time, advanced by each build
  lease,    \* holder of shadow-publication.lock
  pub,      \* the publisher under v2-run.lock: engine or evidence rebuild
  sync,     \* the NAS sync
  payload,  \* what each transaction staged on the NAS
  tmp,      \* files of a transaction waiting under temporary names
  runs,     \* where each attempt at a transaction's commit command stands
  past      \* what has happened: an engine's record written during a sync
            \* ("overlap"), a sync that ended while the NAS was ahead ("half"),
            \* a file a commit command replaced when its sync was over ("late")

vars == <<ledger, cur, prev, clock, lease, pub, sync, payload, tmp, runs, past>>

remoteVars == <<payload, tmp, runs>>

Sites   == {"local", "nas"}
Writers == {"engine", "evidence", "sync"}
Txn     == 1..MaxSyncs
Attempt == 1..2
Files   == {"ledger", "generation"}

Record    == [snap : Contents, at : 1..MaxBuilds, by : Writers]
Ledgers   == Seq(Record)
Written   == [snap : Contents, at : 1..MaxBuilds, prefix : Ledgers]
Manifests == {None} \cup Written
Stages    == [ledger : Ledgers, gen : Manifests]
Payloads  == {None} \cup Stages

ASSUME NoneAssumption == None \notin Stages \cup Written

PubSteps  == {"idle", "built", "appended", "kept"}
SyncSteps == {"idle", "copied", "built", "probed", "staged", "committing",
              "committed", "failed", "installing", "keeping", "finishing"}
RunSteps  == {"none", "install", "keep", "ledger", "generation", "done", "failed"}

PubStates  == [pc : PubSteps, by : {"engine", "evidence"}, snap : Contents \cup {None},
               at : 0..MaxBuilds, gen : Manifests]
SyncStates == [pc : SyncSteps, txn : 0..MaxSyncs, ledger : Ledgers, gen : Manifests,
               mode : {"full", "delta"}, from : Nat, try : Attempt]

NoPub  == [pc |-> "idle", by |-> "engine", snap |-> None, at |-> 0, gen |-> None]
NoSync == [pc |-> "idle", txn |-> 0, ledger |-> <<>>, gen |-> None, mode |-> "full",
           from |-> 0, try |-> 1]

TypeOK ==
  /\ ledger \in [Sites -> Ledgers]
  /\ cur \in [Sites -> Manifests] /\ prev \in [Sites -> Manifests]
  /\ clock \in 0..MaxBuilds
  /\ lease \in {"free", "evidence", "sync"}
  /\ pub \in PubStates
  /\ pub.pc # "idle" => pub.snap \in Contents /\ pub.at > 0
  /\ sync \in SyncStates
  /\ sync.pc # "idle" => sync.txn > 0
  /\ payload \in [Txn -> Payloads]
  /\ tmp \in [Txn -> SUBSET Files]
  /\ runs \in [Txn -> [Attempt -> RunSteps]]
  /\ past \subseteq {"overlap", "half", "late"}

Init ==
  /\ ledger = [s \in Sites |-> <<>>]
  /\ cur = [s \in Sites |-> None] /\ prev = [s \in Sites |-> None]
  /\ clock = 0 /\ lease = "free"
  /\ pub = NoPub /\ sync = NoSync
  /\ payload = [t \in Txn |-> None]
  /\ tmp = [t \in Txn |-> {}]
  /\ runs = [t \in Txn |-> [a \in Attempt |-> "none"]]
  /\ past = {}

-----------------------------------------------------------------------------
(* The ledger and the manifest: shadow-ledger.mjs, dashboard-generation.mjs *)

\* appendLedgerRecord: the last state again adds nothing, an earlier state is
\* a new event unless it is an old observation replayed.
Appended(l, r) ==
  IF l # <<>> /\ ( \/ Last(l).snap = r.snap
                   \/ (\E i \in 1..Len(l) : l[i].snap = r.snap) /\ r.at <= Last(l).at )
  THEN l ELSE Append(l, r)

Receipts(g) == {i \in 1..Len(g.prefix) : g.prefix[i].snap = g.snap /\ g.prefix[i].at <= g.at}

\* A manifest is complete over a ledger that still starts with its prefix.
Complete(g, l) == g # None /\ IsPrefix(g.prefix, l) /\ Receipts(g) # {}

\* readDashboardGeneration
Serves(s) == IF Complete(cur[s], ledger[s]) THEN cur[s]
             ELSE IF Complete(prev[s], ledger[s]) THEN prev[s] ELSE None

Manifest(snap, at, l) == [snap |-> snap, at |-> at, prefix |-> l]

-----------------------------------------------------------------------------
(* The engine's publication and the evidence rebuild, under v2-run.lock *)

\* Mutant: the evidence rebuild does not take the publication lease.
StartPublishUnleased(by, c) ==
  /\ pub.pc = "idle" /\ clock < MaxBuilds
  /\ clock' = clock + 1
  /\ pub' = [pub EXCEPT !.pc = "built", !.by = by, !.snap = c, !.at = clock + 1]
  /\ UNCHANGED <<ledger, cur, prev, lease, sync, past>> /\ UNCHANGED remoteVars

StartPublish(by, c) ==
  /\ pub.pc = "idle" /\ clock < MaxBuilds
  /\ \/ by = "engine" /\ UNCHANGED lease
     \/ by = "evidence" /\ lease = "free" /\ lease' = "evidence"
  /\ clock' = clock + 1
  /\ pub' = [pub EXCEPT !.pc = "built", !.by = by, !.snap = c, !.at = clock + 1]
  /\ UNCHANGED <<ledger, cur, prev, sync, past>> /\ UNCHANGED remoteVars

\* Mutant: a lease is released without looking at its owner.
FreeAny == "free"

Free == IF lease = "evidence" THEN "free" ELSE lease

PublishLedger ==
  /\ pub.pc = "built"
  /\ ledger' = [ledger EXCEPT !["local"] =
                  Appended(@, [snap |-> pub.snap, at |-> pub.at, by |-> pub.by])]
  /\ pub' = [pub EXCEPT !.pc = "appended"]
  /\ past' = IF pub.by = "engine" /\ sync.pc # "idle" THEN past \cup {"overlap"} ELSE past
  /\ UNCHANGED <<cur, prev, clock, lease, sync>> /\ UNCHANGED remoteVars

\* commitDashboardGeneration up to the commit point: a manifest without its
\* receipt is refused, and only a complete manifest becomes the previous one.
PublishPrevious ==
  /\ pub.pc = "appended"
  /\ LET g == Manifest(pub.snap, pub.at, ledger["local"])
     IN IF Complete(g, ledger["local"])
        THEN /\ pub' = [pub EXCEPT !.pc = "kept", !.gen = g]
             /\ prev' = [prev EXCEPT !["local"] =
                           IF Complete(cur["local"], ledger["local"]) THEN cur["local"] ELSE @]
             /\ UNCHANGED lease
        ELSE pub' = NoPub /\ lease' = Free /\ UNCHANGED prev
  /\ UNCHANGED <<ledger, cur, clock, sync, past>> /\ UNCHANGED remoteVars

PublishGeneration ==
  /\ pub.pc = "kept"
  /\ cur' = [cur EXCEPT !["local"] = pub.gen]
  /\ pub' = NoPub /\ lease' = Free
  /\ UNCHANGED <<ledger, prev, clock, sync, past>> /\ UNCHANGED remoteVars

\* The publisher dies; a dead holder's leases are reclaimed.
PublisherDies ==
  /\ pub.pc # "idle"
  /\ pub' = NoPub /\ lease' = Free
  /\ UNCHANGED <<ledger, cur, prev, clock, sync, past>> /\ UNCHANGED remoteVars

-----------------------------------------------------------------------------
(* The sync up to its commit: Sync-NasShadow.ps1, shadow-run.mjs *)

SyncAt(step) == sync' = [sync EXCEPT !.pc = step]

\* Mutant: the canonical ledger is not copied.
SyncStartUncopied ==
  /\ sync.pc = "idle" /\ sync.txn < MaxSyncs /\ lease = "free"
  /\ lease' = "sync"
  /\ sync' = [NoSync EXCEPT !.pc = "copied", !.txn = sync.txn + 1]
  /\ UNCHANGED <<ledger, cur, prev, clock, pub, past>> /\ UNCHANGED remoteVars

\* Takes the lease and copies the canonical ledger.
SyncStart ==
  /\ sync.pc = "idle" /\ sync.txn < MaxSyncs /\ lease = "free"
  /\ lease' = "sync"
  /\ sync' = [NoSync EXCEPT !.pc = "copied", !.txn = sync.txn + 1, !.ledger = ledger["local"]]
  /\ UNCHANGED <<ledger, cur, prev, clock, pub, past>> /\ UNCHANGED remoteVars

\* shadow-run on the copies; the harvest fallback may have run an engine since.
SyncBuild(c) ==
  /\ sync.pc = "copied" /\ clock < MaxBuilds
  /\ clock' = clock + 1
  /\ LET l == Appended(sync.ledger, [snap |-> c, at |-> clock + 1, by |-> "sync"])
     IN sync' = [sync EXCEPT !.pc = "built", !.ledger = l, !.gen = Manifest(c, clock + 1, l)]
  /\ UNCHANGED <<ledger, cur, prev, lease, pub, past>> /\ UNCHANGED remoteVars

\* The preflight reads length and digest of the NAS ledger: a delta is sent if
\* it is a prefix of ours, everything if not, or if it is missing or unreadable.
Probe ==
  /\ sync.pc = "built"
  /\ \/ sync' = [sync EXCEPT !.pc = "probed", !.mode = "full"]
     \/ /\ ledger["nas"] # <<>> /\ IsPrefix(ledger["nas"], sync.ledger)
        /\ sync' = [sync EXCEPT !.pc = "probed", !.mode = "delta", !.from = Len(ledger["nas"])]
  /\ UNCHANGED <<ledger, cur, prev, clock, lease, pub, past>> /\ UNCHANGED remoteVars

Staged == IF sync.mode = "full" THEN sync.ledger
          ELSE ledger["nas"] \o SubSeq(sync.ledger, sync.from + 1, Len(sync.ledger))

\* Upload and extraction: what was assembled must have the local digest.
Stage ==
  /\ sync.pc = "probed" /\ Staged = sync.ledger
  /\ payload' = [payload EXCEPT ![sync.txn] = [ledger |-> Staged, gen |-> sync.gen]]
  /\ SyncAt("staged")
  /\ UNCHANGED <<ledger, cur, prev, clock, lease, pub, tmp, runs, past>>

\* A delta that does not extract is replaced by the complete ledger, once.
DeltaRefused ==
  /\ sync.pc = "probed" /\ sync.mode = "delta"
  /\ sync' = [sync EXCEPT !.mode = "full", !.from = 0]
  /\ UNCHANGED <<ledger, cur, prev, clock, lease, pub, past>> /\ UNCHANGED remoteVars

-----------------------------------------------------------------------------
(* The commit command on the NAS: one shell script for each attempt *)

Run(t, a, step) == runs' = [runs EXCEPT ![t][a] = step]
LocalUnchanged == UNCHANGED <<clock, lease, pub, sync>>

\* A file is replaced, which is noted when the command's sync is over.
Replaced(t) ==
  past' = IF sync.pc = "idle" \/ sync.txn # t THEN past \cup {"late"} ELSE past

\* The three files are copied beside their targets, from the stage.
RunInstall(t, a) ==
  /\ runs[t][a] = "install"
  /\ IF payload[t] # None
     THEN tmp' = [tmp EXCEPT ![t] = Files] /\ Run(t, a, "keep")
     ELSE Run(t, a, "failed") /\ UNCHANGED tmp
  /\ UNCHANGED <<ledger, cur, prev, payload, past>> /\ LocalUnchanged

\* Mutant: the current manifest is kept even when it is this transaction's.
RunKeepAlways(t, a) ==
  /\ runs[t][a] = "keep"
  /\ prev' = [prev EXCEPT !["nas"] = IF cur["nas"] # None THEN cur["nas"] ELSE @]
  /\ Run(t, a, "ledger")
  /\ UNCHANGED <<ledger, cur, payload, tmp, past>> /\ LocalUnchanged

\* Mutant: a previous manifest that exists is not replaced.
RunKeepOnce(t, a) ==
  /\ runs[t][a] = "keep"
  /\ prev' = [prev EXCEPT !["nas"] = IF @ = None THEN cur["nas"] ELSE @]
  /\ Run(t, a, "ledger")
  /\ UNCHANGED <<ledger, cur, payload, tmp, past>> /\ LocalUnchanged

\* The current manifest becomes the previous one, unless it is the staged one
\* already; a stage that is gone compares as different.
RunKeep(t, a) ==
  /\ runs[t][a] = "keep"
  /\ LET same == payload[t] # None /\ cur["nas"] = payload[t].gen
     IN prev' = [prev EXCEPT !["nas"] = IF cur["nas"] # None /\ ~same THEN cur["nas"] ELSE @]
  /\ Run(t, a, "ledger")
  /\ UNCHANGED <<ledger, cur, payload, tmp, past>> /\ LocalUnchanged

RunLedger(t, a) ==
  /\ runs[t][a] = "ledger"
  /\ IF "ledger" \in tmp[t]
     THEN /\ ledger' = [ledger EXCEPT !["nas"] = payload[t].ledger]
          /\ tmp' = [tmp EXCEPT ![t] = @ \ {"ledger"}]
          /\ Run(t, a, "generation") /\ Replaced(t)
     ELSE Run(t, a, "failed") /\ UNCHANGED <<ledger, tmp, past>>
  /\ UNCHANGED <<cur, prev, payload>> /\ LocalUnchanged

RunGeneration(t, a) ==
  /\ runs[t][a] = "generation"
  /\ IF "generation" \in tmp[t]
     THEN /\ cur' = [cur EXCEPT !["nas"] = payload[t].gen]
          /\ tmp' = [tmp EXCEPT ![t] = @ \ {"generation"}]
          /\ Run(t, a, "done") /\ Replaced(t)
     ELSE Run(t, a, "failed") /\ UNCHANGED <<cur, tmp, past>>
  /\ UNCHANGED <<ledger, prev, payload>> /\ LocalUnchanged

-----------------------------------------------------------------------------
(* The sync waits for the commit and installs locally *)

\* The sync ends: idle, without its lease, and it is noted when the NAS then
\* has a ledger the local one does not start with.
Ends ==
  /\ sync' = [NoSync EXCEPT !.txn = sync.txn] /\ lease' = "free"
  /\ past' = IF IsPrefix(ledger["nas"], ledger["local"]) THEN past ELSE past \cup {"half"}

Commit ==
  /\ sync.pc = "staged"
  /\ sync' = [sync EXCEPT !.pc = "committing", !.try = 1]
  /\ runs' = [runs EXCEPT ![sync.txn][1] = "install"]
  /\ UNCHANGED <<ledger, cur, prev, clock, lease, pub, payload, tmp, past>>

\* Mutant: the attempts are not counted.
AnswerLostForever ==
  /\ sync.pc = "committing"
  /\ sync' = [sync EXCEPT !.try = @ + 1]
  /\ runs' = [runs EXCEPT ![sync.txn][2] = "install"]
  /\ UNCHANGED <<ledger, cur, prev, clock, lease, pub, payload, tmp, past>>

\* A transport failure or a timeout: the command may have got anywhere, and
\* nothing stops it on the NAS.  It is sent once more.
AnswerLost ==
  /\ sync.pc = "committing" /\ sync.try = 1
  /\ sync' = [sync EXCEPT !.try = 2]
  /\ runs' = [runs EXCEPT ![sync.txn][2] = "install"]
  /\ UNCHANGED <<ledger, cur, prev, clock, lease, pub, payload, tmp, past>>

AnswerLostAgain ==
  /\ sync.pc = "committing" /\ sync.try = 2
  /\ SyncAt("failed")
  /\ UNCHANGED <<ledger, cur, prev, clock, lease, pub, past>> /\ UNCHANGED remoteVars

\* Mutant: the exit code of the command is not waited for.
AnswerIgnored ==
  /\ sync.pc = "committing"
  /\ SyncAt("committed")
  /\ UNCHANGED <<ledger, cur, prev, clock, lease, pub, past>> /\ UNCHANGED remoteVars

Answer ==
  /\ sync.pc = "committing"
  /\ \/ runs[sync.txn][sync.try] = "done" /\ SyncAt("committed")
     \/ runs[sync.txn][sync.try] = "failed" /\ SyncAt("failed")
  /\ UNCHANGED <<ledger, cur, prev, clock, lease, pub, past>> /\ UNCHANGED remoteVars

\* The cleanup command, which may itself be lost.
Cleanup ==
  /\ sync.pc \in {"committed", "failed"}
  /\ \/ payload' = [payload EXCEPT ![sync.txn] = None] /\ tmp' = [tmp EXCEPT ![sync.txn] = {}]
     \/ UNCHANGED <<payload, tmp>>
  /\ IF sync.pc = "committed"
     THEN SyncAt("installing") /\ UNCHANGED <<lease, past>>
     ELSE Ends
  /\ UNCHANGED <<ledger, cur, prev, clock, pub, runs>>

\* The local files are replaced in the same order.
InstallLedger ==
  /\ sync.pc = "installing"
  /\ ledger' = [ledger EXCEPT !["local"] = sync.ledger]
  /\ SyncAt("keeping")
  /\ UNCHANGED <<cur, prev, clock, lease, pub, past>> /\ UNCHANGED remoteVars

InstallPrevious ==
  /\ sync.pc = "keeping"
  /\ prev' = [prev EXCEPT !["local"] = IF cur["local"] # None THEN cur["local"] ELSE @]
  /\ SyncAt("finishing")
  /\ UNCHANGED <<ledger, cur, clock, lease, pub, past>> /\ UNCHANGED remoteVars

InstallGeneration ==
  /\ sync.pc = "finishing"
  /\ cur' = [cur EXCEPT !["local"] = sync.gen]
  /\ sync' = [NoSync EXCEPT !.txn = sync.txn] /\ lease' = "free"
  /\ UNCHANGED <<ledger, prev, clock, pub, past>> /\ UNCHANGED remoteVars

\* A sync that fails before its commit, or that is killed anywhere by the
\* scheduler's timeout; its lease is reclaimed.
SyncDies ==
  /\ sync.pc # "idle" /\ Ends
  /\ UNCHANGED <<ledger, cur, prev, clock, pub>> /\ UNCHANGED remoteVars

-----------------------------------------------------------------------------
Publisher ==
  \/ \E by \in {"engine", "evidence"}, c \in Contents : StartPublish(by, c)
  \/ PublishLedger \/ PublishPrevious \/ PublishGeneration \/ PublisherDies

Syncing ==
  \/ SyncStart \/ Probe \/ Stage \/ DeltaRefused
  \/ \E c \in Contents : SyncBuild(c)
  \/ Commit \/ AnswerLost \/ AnswerLostAgain \/ Answer \/ Cleanup
  \/ InstallLedger \/ InstallPrevious \/ InstallGeneration \/ SyncDies

Running == \E t \in Txn, a \in Attempt :
  RunInstall(t, a) \/ RunKeep(t, a) \/ RunLedger(t, a) \/ RunGeneration(t, a)

Next == Publisher \/ Syncing \/ Running

Spec == Init /\ [][Next]_vars

-----------------------------------------------------------------------------
(* Properties *)

\* A reader that starts afresh finds a complete generation at the site.
Served(s) == cur[s] # None => Serves(s) # None

\* Once a site has a generation a reader finds a complete one there, whatever
\* was interrupted and however commit commands run on beside the one sent after
\* them: on the NAS until a sync has ended between the two sites or a command
\* replaced a file after its sync, locally until an engine wrote during a sync
\* (dashboard-generation.mjs, 52-61).
AlwaysServed ==
  /\ past \cap {"half", "late"} = {} => Served("nas")
  /\ "overlap" \notin past => Served("local")

\* A commit sent again does not lose the previous generation: what is kept as
\* the previous one on the NAS is not the manifest of the newest transaction
\* that reached its end (Sync-ShadowPublication.ps1, 37-39).
RetryKeepsPrevious == \A t \in Txn :
  (/\ payload[t] # None /\ prev["nas"] = payload[t].gen
   /\ \E a \in Attempt : runs[t][a] = "done")
  => \E u \in Txn, a \in Attempt : u > t /\ runs[u][a] \notin {"none", "install"}

\* What the NAS serves never goes back in time (Sync-ShadowPublication.ps1, 33-40).
ServedMovesForward ==
  [][ (Serves("nas") # None /\ Serves("nas")' # None)
        => Serves("nas")'.at >= Serves("nas").at ]_vars

\* What the evidence rebuild recorded stays in the local ledger: its rebuild
\* does not race the sync (pt-evidence-repair.mjs, 131-134).
EvidenceIsKept ==
  [][ \A i \in 1..Len(ledger["local"]) : ledger["local"][i].by = "evidence"
        => \E j \in 1..Len(ledger["local"]') : ledger["local"]'[j] = ledger["local"][i] ]_vars

\* A sync that ends normally leaves the same generation on both sites, over
\* the same ledger, unless an engine wrote meanwhile or a commit command of an
\* earlier sync replaced a file (Sync-NasShadow.ps1, 316-323).
SyncedSitesAgree ==
  [][ (/\ sync.pc = "finishing" /\ sync'.pc = "idle" /\ cur'["local"] = sync.gen
       /\ past \cap {"overlap", "late"} = {})
        => /\ ledger'["nas"] = ledger'["local"] /\ cur'["nas"] = cur'["local"]
           /\ Serves("nas")' = cur'["nas"] ]_vars

\* The local ledger is append-only (observation/README.md, 52).
LedgerOnlyGrows == [][IsPrefix(ledger["local"], ledger'["local"])]_vars

\* Nothing but an engine that writes during a sync makes it lose a record.
GrowsUnlessOverlapped ==
  [][ "overlap" \notin past => IsPrefix(ledger["local"], ledger'["local"]) ]_vars
=============================================================================
