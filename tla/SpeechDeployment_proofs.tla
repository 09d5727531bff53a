---------------------- MODULE SpeechDeployment_proofs ----------------------
(***************************************************************************)
(* The speech service, and what is run before the services: migrations and *)
(* the provisioning of the models it loads.                                *)
(*                                                                         *)
(* Deployment, for every set of runs, migrators, components and            *)
(* invocations.  MigrationWhole needs what a migrator has not committed:   *)
(* its rows fit their schema and are the committed ones, and it holds the  *)
(* locks that keep them so or starts from no revision (MigrationsFit).     *)
(* PublishedIsVerified needs what each invocation owns, recorded or not,   *)
(* that nobody shares it, and that a manifest of its own was linked over a *)
(* complete set (ProvisionFits).                                           *)
(*                                                                         *)
(* The safety of SpeechRuntime for every number of requests and sessions,  *)
(* every concurrency and queue capacity, with and without CUDA.  The types *)
(* are inductive only together with the exact accounting of admissions and *)
(* slots; DeviceNotShared follows from it because a live thread belongs to *)
(* a worker that still holds its slot (ThreadsRun); WarmupAlone follows    *)
(* because nothing is admitted before the warm-up is over (WarmupFirst).   *)
(***************************************************************************)
EXTENDS SpeechRuntime, Deployment, FiniteSetTheorems, TLAPS

-----------------------------------------------------------------------------
(* Migrations: what every migrator and every lock is in *)

Versions == {"absent", "empty", "0001", "0002"}
Statuses == BaselineStatuses \cup HeadStatuses \cup {"absent"}

TableSets ==
    [exists : BOOLEAN, payload : {"result", "sanitized_result", "both"},
     digest : {"none", "result_sha256", "sanitized_result_sha256"},
     vocabulary : {"baseline", "head"}, unique : {"absent", "owned", "other"},
     runs : [Runs -> Statuses], events : [Runs -> Seq(Hashes)], analyses : SUBSET Runs]

\* The constraints hold of the rows.
RowsFit(t) ==
    /\ t \in TableSets
    /\ \A r \in Runs : t.runs[r] \in StatusesOf(t.vocabulary) \cup {"absent"}
    /\ t.unique = "owned" => HashesUnique(t)

MigrationPhases == {"idle", "begin", "plan", "create", "step", "done", "failed"}

DatabaseFits ==
    /\ db \in [version : Versions, tables : TableSets,
               faults : SUBSET (TableFaults \cup Tolerated \cup DatabaseFaults)]
    /\ RowsFit(db.tables)
    /\ db.tables.exists <=> db.version \in {"0001", "0002"}

LocksHeld ==
    /\ locks \in [version : Migrators \cup {Nobody}, readers : SUBSET Migrators,
                  tables : Migrators \cup {Nobody}]
    /\ \A m \in Migrators :
          /\ locks.version = m => migr[m].phase \in {"plan", "create", "step"}
          /\ m \in locks.readers \/ locks.tables = m => migr[m].phase = "step"

\* Whoever holds the version table found or made it; one that made none, and met
\* one it had not seen, goes on without the lock.
VersionHeld(m) == m \in locks.readers \/ locks.version = m

\* The rows are those that were there, in the words of the other schema.
RowsKept(old, new) ==
    old.exists /\ new.exists =>
        /\ old.analyses = {} /\ new.analyses = {} /\ new.events = old.events
        /\ \A r \in Runs : SameStatus(old.runs[r], new.runs[r])

\* What a migrator has done and not committed.
WorkFits(m) ==
    LET w == migr[m].work IN
    /\ RowsFit(w.tables)
    /\ migr[m].phase = "step" =>
          IF locks.tables = m
          THEN /\ w.version \in {"empty", "0001", "0002"}
               /\ w.tables.exists <=> w.version \in {"0001", "0002"}
               /\ migr[m].target = "head" => w.version # "empty"
               /\ migr[m].target = "head" /\ w.version = "0001" => ~ db.tables.exists
               /\ migr[m].target # "head" => w.version # "0002"
               /\ RowsKept(db.tables, w.tables)
          ELSE /\ VersionHeld(m) \/ db.version # "absent"
               /\ w.version = "empty" \/ (VersionHeld(m) /\ w.version = db.version)
               /\ w.version # "absent"

MigratorFits ==
    /\ migr \in [Migrators -> [phase : MigrationPhases, target : {"head", "0001", "base"},
                               work : [version : Versions, tables : TableSets]]]
    /\ \A m \in Migrators : WorkFits(m)

MigrationsFit == DatabaseFits /\ LocksHeld /\ MigratorFits
-----------------------------------------------------------------------------
(* Provisioning: what each invocation owns, and who linked the manifest *)

ScriptPhases ==
    {"idle", "download", "stage", "verified", "publish", "rename", "renamed", "link", "linked",
     "sync", "undo", "ended"}
ScriptSet ==
    [phase : ScriptPhases, selected : SUBSET Components, existing : SUBSET Components,
     missing : SUBSET Components, now : SUBSET Components, published : SUBSET Components,
     created : BOOLEAN, result : {"none", "refused", "partial", "complete", "failed", "killed"}]

Manifests ==
    {NoManifest, [by |-> Earlier, names |-> "reviewed"], [by |-> Earlier, names |-> "other"]}
        \cup {ManifestBy(i) : i \in Invocations}

DiskSet ==
    [target : [Components -> Targets], manifest : Manifests,
     staged : SUBSET (Invocations \X Components), drafts : SUBSET Invocations]

ProvisionTyped ==
    /\ disk \in DiskSet
    /\ script \in [Invocations -> ScriptSet]

\* Renamed into place by this invocation, recorded or not yet.
Owned(i) ==
    script[i].published \cup IF script[i].phase = "renamed" THEN script[i].now ELSE {}

InvocationFits(i) ==
    LET s == script[i] IN
    /\ s.phase = "idle" => s.existing = {} /\ Owned(i) = {}
    /\ \A c, d \in s.now : c = d
    \* What it found was reviewed, and what it owns is until it is taken back.
    /\ \A c \in s.existing : disk.target[c] \in {"reviewed", "partial", "absent"}
    /\ \A c \in Owned(i) : disk.target[c] \in {"reviewed", "partial"}
    /\ s.phase \notin {"undo", "ended"} => \A c \in Owned(i) : disk.target[c] = "reviewed"
    \* Its manifest is linked once the set is complete, and is known for its own.
    /\ s.phase = "link" => Complete(i) /\ i \in disk.drafts
    /\ s.phase = "linked" => disk.manifest = ManifestBy(i) /\ i \in disk.drafts
    /\ s.phase = "sync" => s.created
    /\ s.created => disk.manifest = ManifestBy(i)
    /\ disk.manifest = ManifestBy(i) =>
          /\ Complete(i)
          /\ s.phase \in {"linked", "sync", "undo", "ended"}
          /\ s.phase = "undo" => s.created \/ i \in disk.drafts

NobodyShares ==
    \A i, j \in Invocations : i # j => Owned(i) \cap Owned(j) = {}

\* The set of a manifest that was there before is nobody's, and unless it is whole
\* every invocation is refused.
EarlierStays ==
    disk.manifest = [by |-> Earlier, names |-> "reviewed"] =>
        /\ \A c \in Components, i \in Invocations : c \notin Owned(i)
        /\ (\E c \in Components : Lost(c)) =>
              \A i \in Invocations : script[i].phase \in {"idle", "ended"}

ManifestHolds ==
    disk.manifest.names = "reviewed" /\ disk.manifest.by # Earlier =>
        \A c \in Components : disk.target[c] = "reviewed" \/ Withdrawn(c)

ProvisionFits ==
    /\ ProvisionTyped /\ \A i \in Invocations : InvocationFits(i)
    /\ NobodyShares /\ EarlierStays /\ ManifestHolds

\* The manifest is by whom it is by.
LEMMA ManifestIs ==
    ASSUME ProvisionTyped, NEW i \in Invocations
    PROVE  /\ disk.manifest.by = i <=> disk.manifest = ManifestBy(i)
           /\ ManifestBy(i) # NoManifest /\ ManifestBy(i).names = "reviewed"
           /\ NoManifest.names = "nothing"
BY ProvisioningAssumption DEF ProvisionTyped, DiskSet, Manifests, ManifestBy, NoManifest

\* A step of one invocation that moves neither artifacts nor the manifest.
LEMMA QuietStep ==
    ASSUME ProvisionFits, ProvisionTyped', NEW i \in Invocations, InvocationFits(i)',
           disk'.target = disk.target, disk'.manifest = disk.manifest,
           Owned(i)' \subseteq Owned(i),
           script'[i].existing = script[i].existing \/ disk.manifest # ManifestBy(i),
           \/ script[i].phase \notin {"idle", "ended"} \/ script'[i].phase = "ended"
           \/ \A c \in Components : ~ Lost(c),
           \A j \in Invocations \ {i} :
              script'[j] = script[j] /\ (j \in disk.drafts => j \in disk'.drafts)
    PROVE  ProvisionFits'
<1>1. \A j \in Invocations \ {i} : Owned(j)' = Owned(j)
  BY DEF Owned
<1>2. ASSUME NEW j \in Invocations PROVE InvocationFits(j)'
  <2>1. CASE j = i
    BY <2>1
  <2>2. CASE j # i
    BY <1>1, <2>2 DEF ProvisionFits, InvocationFits, Complete
  <2> QED BY <2>1, <2>2
<1>3. NobodyShares'
  BY <1>1 DEF ProvisionFits, NobodyShares
<1>4. EarlierStays'
  <2>1. \A c : Lost(c)' = Lost(c)
    BY DEF Lost
  <2> QED BY <1>1, <2>1 DEF ProvisionFits, EarlierStays
<1>5. ManifestHolds'
  <2>1. SUFFICES ASSUME disk.manifest.names = "reviewed", disk.manifest.by # Earlier,
                        NEW c \in Components
                 PROVE  disk'.target[c] = "reviewed" \/ Withdrawn(c)'
    BY DEF ManifestHolds
  <2>2. disk.target[c] = "reviewed" \/ Withdrawn(c)
    BY <2>1 DEF ProvisionFits, ManifestHolds
  <2>3. ASSUME Withdrawn(c) PROVE Withdrawn(c)'
    <3>1. PICK j \in Invocations : disk.manifest.by = j /\ c \in script[j].existing
      BY <2>3 DEF Withdrawn
    <3>2. script'[j].existing = script[j].existing
      BY <3>1, ManifestIs DEF ProvisionFits
    <3> QED BY <2>3, <3>1, <3>2 DEF Withdrawn
  <2> QED BY <2>2, <2>3
<1> QED BY <1>2, <1>3, <1>4, <1>5 DEF ProvisionFits

LEMMA ProvisionInit == InitProvisioning => ProvisionFits
<1> SUFFICES ASSUME InitProvisioning PROVE ProvisionFits
  OBVIOUS
<1>1. ProvisionTyped
  BY DEF InitProvisioning, ProvisionTyped, NewScript, ScriptSet, ScriptPhases, Manifests, DiskSet
<1>2. \A i \in Invocations : script[i] = NewScript /\ Owned(i) = {}
  BY DEF InitProvisioning, Owned, NewScript
<1>3. \A i \in Invocations : disk.manifest # ManifestBy(i)
  BY <1>1, ManifestIs, ProvisioningAssumption DEF InitProvisioning, NoManifest
<1>4. \A i \in Invocations : InvocationFits(i)
  BY <1>2, <1>3 DEF InvocationFits, NewScript
<1>5. disk.manifest.by = Earlier /\ \A i \in Invocations : script[i].phase = "idle"
  BY <1>2 DEF InitProvisioning, NoManifest, NewScript
<1> QED BY <1>1, <1>2, <1>4, <1>5 DEF ProvisionFits, NobodyShares, EarlierStays, ManifestHolds

\* One invocation has moved.
LEMMA ScriptMoves ==
    ASSUME ProvisionTyped, NEW i \in Invocations, NEW s \in ScriptSet,
           script' = [script EXCEPT ![i] = s], disk' \in DiskSet
    PROVE  ProvisionTyped'
BY DEF ProvisionTyped

\* It is now in phase p, and keeps what it knows.
Goes(i, p) ==
    /\ ProvisionTyped' /\ script'[i].phase = p
    /\ script'[i].existing = script[i].existing /\ script'[i].missing = script[i].missing
    /\ script'[i].published = script[i].published /\ script'[i].now = script[i].now
    /\ script'[i].created = script[i].created
    /\ \A j \in Invocations \ {i} : script'[j] = script[j]

LEMMA PhaseGoes ==
    ASSUME ProvisionTyped, NEW i \in Invocations, NEW p \in ScriptPhases, Phase(i, p),
           disk' \in DiskSet
    PROVE  Goes(i, p)
<1>1. script' = [script EXCEPT ![i] = [script[i] EXCEPT !.phase = p]]
  BY DEF ProvisionTyped, Phase
<1>2. script[i] \in ScriptSet
  BY DEF ProvisionTyped
<1>3. [script[i] EXCEPT !.phase = p] \in ScriptSet
  BY <1>2 DEF ScriptSet
<1> QED BY <1>1, <1>2, <1>3, ScriptMoves DEF Goes, ProvisionTyped, ScriptSet

LEMMA StopGoes ==
    ASSUME ProvisionTyped, NEW i \in Invocations, NEW r, Stops(i, r), disk' \in DiskSet,
           r \in {"none", "refused", "partial", "complete", "failed", "killed"}
    PROVE  Goes(i, "ended")
<1>1. script' = [script EXCEPT ![i] = [script[i] EXCEPT !.phase = "ended", !.result = r]]
  BY DEF ProvisionTyped, Stops
<1>2. script[i] \in ScriptSet
  BY DEF ProvisionTyped
<1>3. [script[i] EXCEPT !.phase = "ended", !.result = r] \in ScriptSet
  BY <1>2 DEF ScriptSet, ScriptPhases
<1> QED BY <1>1, <1>2, <1>3, ScriptMoves DEF Goes, ProvisionTyped, ScriptSet

LEMMA StartFits ==
    ASSUME ProvisionFits, NEW i \in Invocations, NEW selected \in SUBSET Components,
           NEW arguments \in Arguments, Start(i, selected, arguments)
    PROVE  ProvisionFits'
<1> DEFINE missing == selected \ Present
<1>1. /\ script[i].phase = "idle" /\ UNCHANGED disk /\ disk' \in DiskSet
      /\ InvocationFits(i) /\ ProvisionTyped
  BY DEF Start, ProvisionFits, ProvisionTyped
<1>2. script[i].published = {} /\ disk.manifest # ManifestBy(i) /\ script[i].created = FALSE
  BY <1>1 DEF InvocationFits, Owned, ProvisionTyped, ScriptSet
<1>3. CASE /\ \A c \in Present : Verified(c, disk.target[c])
           /\ disk.manifest # NoManifest => Present = Components
           /\ script' = [script EXCEPT ![i].phase = "download", ![i].selected = selected,
                                       ![i].existing = Present, ![i].missing = missing]
  <2>1. ProvisionTyped'
    <3>1. script[i] \in ScriptSet /\ Present \in SUBSET Components
      BY <1>1 DEF ProvisionTyped, Present
    <3>2. script' = [script EXCEPT ![i] = [script[i] EXCEPT !.phase = "download",
                        !.selected = selected, !.existing = Present, !.missing = missing]]
      BY <1>1, <1>3 DEF ProvisionTyped
    <3>3. [script[i] EXCEPT !.phase = "download", !.selected = selected, !.existing = Present,
                            !.missing = missing] \in ScriptSet
      BY <3>1 DEF ScriptSet, ScriptPhases
    <3> QED BY <1>1, <3>2, <3>3, ScriptMoves
  <2>2. \A c \in Present : disk.target[c] = "reviewed"
    BY <1>3 DEF Verified, ReviewedContent, Marked
  <2>3. /\ script'[i].phase = "download" /\ script'[i].existing = Present
        /\ script'[i].published = {} /\ script'[i].now = script[i].now
        /\ script'[i].created = FALSE
        /\ \A j \in Invocations \ {i} : script'[j] = script[j]
    BY <1>1, <1>2, <1>3 DEF ProvisionTyped, ScriptSet
  <2>4. Owned(i)' = {}
    BY <2>3 DEF Owned
  <2>5. InvocationFits(i)'
    BY <1>1, <1>2, <2>2, <2>3, <2>4 DEF InvocationFits
  <2>6. \A c \in Components : ~ Lost(c)
    BY <1>3, <2>2 DEF Lost, NoManifest
  <2> QED BY <1>1, <1>2, <2>1, <2>3, <2>4, <2>5, <2>6, QuietStep
<1>4. CASE Stops(i, "refused")
  <2>1. Goes(i, "ended")
    BY <1>1, <1>4, StopGoes
  <2>2. Owned(i)' = {}
    BY <1>2, <2>1 DEF Owned, Goes
  <2>3. InvocationFits(i)'
    BY <1>1, <1>2, <2>1, <2>2 DEF InvocationFits, Goes
  <2> QED BY <1>1, <1>2, <2>1, <2>2, <2>3, QuietStep DEF Goes
<1> QED BY <1>3, <1>4 DEF Start

\* Only the phase of an invocation changes, and neither artifacts nor manifest.
LEMMA GoesFits ==
    ASSUME ProvisionFits, NEW i \in Invocations, NEW p, Goes(i, p),
           p \notin {"idle", "renamed"},
           disk'.target = disk.target, disk'.manifest = disk.manifest,
           disk'.drafts \cup {i} = disk.drafts \cup {i},
           p = "link" => Complete(i) /\ i \in disk'.drafts,
           p = "linked" => disk.manifest = ManifestBy(i) /\ i \in disk'.drafts,
           p = "sync" => script[i].created,
           script[i].phase \in {"undo", "ended"} => p \in {"undo", "ended"},
           script[i].phase \in {"idle", "ended"} => p = "ended",
           disk.manifest = ManifestBy(i) =>
              \/ p \in {"linked", "sync", "ended"}
              \/ p = "undo" /\ (script[i].created \/ i \in disk'.drafts)
    PROVE  ProvisionFits'
<1>1. InvocationFits(i)
  BY DEF ProvisionFits
<1>2. /\ ProvisionTyped' /\ script'[i].phase = p
      /\ script'[i].existing = script[i].existing /\ script'[i].published = script[i].published
      /\ script'[i].now = script[i].now /\ script'[i].created = script[i].created
      /\ \A j \in Invocations \ {i} : script'[j] = script[j]
  BY DEF Goes
<1>3. Owned(i)' \subseteq Owned(i) /\ Complete(i)' = Complete(i)
  BY <1>2 DEF Owned, Complete
<1>4. /\ \A c, d \in script'[i].now : c = d
      /\ \A c \in script'[i].existing : disk'.target[c] \in {"reviewed", "partial", "absent"}
  BY <1>1, <1>2 DEF InvocationFits
<1>5. \A c \in Owned(i)' : disk'.target[c] \in {"reviewed", "partial"}
  BY <1>1, <1>3 DEF InvocationFits
<1>6. p \notin {"undo", "ended"} => \A c \in Owned(i)' : disk'.target[c] = "reviewed"
  BY <1>1, <1>3 DEF InvocationFits
<1>7. /\ script'[i].created => disk'.manifest = ManifestBy(i)
      /\ disk'.manifest = ManifestBy(i) =>
          /\ Complete(i)' /\ p \in {"linked", "sync", "undo", "ended"}
          /\ p = "undo" => script'[i].created \/ i \in disk'.drafts
  BY <1>1, <1>2, <1>3 DEF InvocationFits
<1>8. InvocationFits(i)'
  BY <1>2, <1>3, <1>4, <1>5, <1>6, <1>7 DEF InvocationFits
<1>9. \A j \in Invocations \ {i} : j \in disk.drafts => j \in disk'.drafts
  OBVIOUS
<1> QED BY <1>2, <1>3, <1>8, <1>9, QuietStep

\* What phases say of the manifest.
LEMMA PhasesSay ==
    ASSUME ProvisionFits, NEW i \in Invocations
    PROVE  /\ InvocationFits(i) /\ ProvisionTyped
           /\ disk \in DiskSet /\ script[i] \in ScriptSet
           /\ script[i].phase \notin {"linked", "sync", "undo", "ended"} =>
                 disk.manifest # ManifestBy(i) /\ script[i].created = FALSE
<1>1. InvocationFits(i) /\ ProvisionTyped
  BY DEF ProvisionFits
<1>2. disk \in DiskSet /\ script[i] \in ScriptSet /\ script[i].created \in BOOLEAN
  BY <1>1 DEF ProvisionTyped, ScriptSet
<1> QED BY <1>1, <1>2 DEF InvocationFits

\* Steps of a run that only go on, or end it.
LEMMA GoingOnFits ==
    ASSUME ProvisionFits, NEW i \in Invocations,
           Download(i) \/ Normalize(i) \/ Look(i) \/ Interrupt(i) \/ Kill(i)
    PROVE  ProvisionFits'
<1>1. /\ InvocationFits(i) /\ ProvisionTyped /\ disk \in DiskSet
      /\ UNCHANGED disk /\ disk' \in DiskSet
  BY PhasesSay DEF Download, Normalize, Look, Interrupt, Kill
<1>2. CASE Kill(i)
  <2>1. Goes(i, "ended")
    BY <1>1, <1>2, StopGoes DEF Kill
  <2> QED BY <1>1, <2>1, GoesFits
<1>3. ASSUME NEW p \in {"stage", "undo", "publish", "rename"}, Phase(i, p),
             script[i].phase \notin {"undo", "ended"},
             script[i].phase \notin {"linked", "sync"} \/ p = "undo", script[i].phase # "idle"
      PROVE  ProvisionFits'
  <2>1. Goes(i, p)
    <3>1. p \in ScriptPhases
      BY DEF ScriptPhases
    <3> QED BY <1>1, <1>3, <3>1, PhaseGoes
  <2>2. disk.manifest = ManifestBy(i) =>
           p = "undo" /\ (script[i].created \/ i \in disk.drafts)
    BY <1>1, <1>3 DEF InvocationFits
  <2> QED BY <1>1, <1>3, <2>1, <2>2, GoesFits
<1>4. CASE Download(i) \/ Normalize(i) \/ Look(i)
  <2>1. script[i].phase \in {"download", "verified", "publish"}
    BY <1>4 DEF Download, Normalize, Look
  <2>2. \E p \in {"stage", "undo", "publish", "rename"} : Phase(i, p)
    BY <1>4 DEF Download, Normalize, Look
  <2> QED BY <1>3, <2>1, <2>2
<1>5. CASE Interrupt(i)
  BY <1>3, <1>5 DEF Interrupt
<1> QED BY <1>2, <1>4, <1>5

\* A directory is staged beside the others; what is published stays.
LEMMA StageFits ==
    ASSUME ProvisionFits, NEW i \in Invocations, NEW c \in Components, NEW content,
           Stage(i, c, content)
    PROVE  ProvisionFits'
<1>1. /\ InvocationFits(i) /\ ProvisionTyped /\ disk \in DiskSet /\ script[i] \in ScriptSet
      /\ script[i].phase = "stage"
      /\ disk.manifest # ManifestBy(i) /\ script[i].created = FALSE
  BY PhasesSay DEF Stage
<1>2. PICK p \in {"verified", "undo"} : script' = [script EXCEPT ![i].now = {c}, ![i].phase = p]
  BY DEF Stage
<1>3. /\ disk' = [disk EXCEPT !.staged = @ \cup {<<i, c>>}] /\ disk' \in DiskSet
      /\ disk'.target = disk.target /\ disk'.manifest = disk.manifest
      /\ disk'.drafts = disk.drafts
  BY <1>1 DEF Stage, DiskSet
<1>4. script' = [script EXCEPT ![i] = [script[i] EXCEPT !.now = {c}, !.phase = p]]
  BY <1>1, <1>2 DEF ProvisionTyped
<1>5. [script[i] EXCEPT !.now = {c}, !.phase = p] \in ScriptSet
  BY <1>1 DEF ScriptSet, ScriptPhases
<1>6. ProvisionTyped'
  BY <1>1, <1>3, <1>4, <1>5, ScriptMoves
<1>7. /\ script'[i].phase = p /\ script'[i].now = {c}
      /\ script'[i].existing = script[i].existing /\ script'[i].published = script[i].published
      /\ script'[i].created = FALSE
      /\ \A j \in Invocations \ {i} : script'[j] = script[j]
  BY <1>1, <1>4 DEF ProvisionTyped, ScriptSet
<1>8. Owned(i)' = Owned(i)
  BY <1>1, <1>7 DEF Owned
<1>9. InvocationFits(i)'
  BY <1>1, <1>3, <1>7, <1>8 DEF InvocationFits
<1> QED BY <1>1, <1>3, <1>6, <1>7, <1>8, <1>9, QuietStep

LEMMA RecordedFits ==
    ASSUME ProvisionFits, NEW i \in Invocations, Recorded(i)
    PROVE  ProvisionFits'
<1>1. /\ InvocationFits(i) /\ ProvisionTyped /\ script[i] \in ScriptSet
      /\ script[i].phase = "renamed" /\ UNCHANGED disk /\ disk' \in DiskSet
      /\ disk.manifest # ManifestBy(i) /\ script[i].created = FALSE
  BY PhasesSay DEF Recorded
<1> DEFINE p == script[i].published \cup script[i].now
<1>2. script' = [script EXCEPT ![i] = [script[i] EXCEPT !.published = p, !.now = {},
                                                        !.phase = "stage"]]
  BY <1>1 DEF Recorded, ProvisionTyped
<1>3. [script[i] EXCEPT !.published = p, !.now = {}, !.phase = "stage"] \in ScriptSet
  BY <1>1 DEF ScriptSet, ScriptPhases
<1>4. ProvisionTyped'
  BY <1>1, <1>2, <1>3, ScriptMoves
<1>5. /\ script'[i].phase = "stage" /\ script'[i].now = {} /\ script'[i].published = p
      /\ script'[i].existing = script[i].existing /\ script'[i].created = FALSE
      /\ \A j \in Invocations \ {i} : script'[j] = script[j]
  BY <1>1, <1>2 DEF ProvisionTyped, ScriptSet
<1>6. Owned(i)' = Owned(i)
  BY <1>1, <1>5 DEF Owned
<1>7. InvocationFits(i)'
  BY <1>1, <1>5, <1>6 DEF InvocationFits
<1> QED BY <1>1, <1>4, <1>5, <1>6, <1>7, QuietStep
\* The end of the list: no manifest is written for a set in parts.
LEMMA WriteFits ==
    ASSUME ProvisionFits, NEW i \in Invocations, WriteOrVerify(i)
    PROVE  ProvisionFits'
<1>1. /\ InvocationFits(i) /\ ProvisionTyped /\ disk \in DiskSet /\ script[i].phase = "stage"
      /\ disk.manifest # ManifestBy(i)
  BY PhasesSay DEF WriteOrVerify
<1>2. CASE UNCHANGED disk /\ (Stops(i, "partial") \/ Stops(i, "complete") \/ Phase(i, "undo"))
  <2>1. PICK p \in {"ended", "undo"} : Goes(i, p)
    <3>1. "undo" \in ScriptPhases /\ disk' \in DiskSet
      BY <1>1, <1>2 DEF ScriptPhases
    <3> QED BY <1>1, <1>2, <3>1, StopGoes, PhaseGoes
  <2> QED BY <1>1, <1>2, <2>1, GoesFits
<1>3. CASE /\ Complete(i) /\ disk' = [disk EXCEPT !.drafts = @ \cup {i}] /\ Phase(i, "link")
  <2>1. /\ disk' \in DiskSet /\ disk'.target = disk.target /\ disk'.manifest = disk.manifest
        /\ disk'.drafts = disk.drafts \cup {i}
    BY <1>1, <1>3 DEF DiskSet
  <2>2. Goes(i, "link")
    <3>1. "link" \in ScriptPhases
      BY DEF ScriptPhases
    <3> QED BY <1>1, <1>3, <2>1, <3>1, PhaseGoes
  <2> QED BY <1>1, <1>3, <2>1, <2>2, GoesFits
<1> QED BY <1>2, <1>3 DEF WriteOrVerify

\* Its own is recorded.
LEMMA LinkedFits ==
    ASSUME ProvisionFits, NEW i \in Invocations, Linked(i)
    PROVE  ProvisionFits'
<1>1. /\ InvocationFits(i) /\ ProvisionTyped /\ script[i] \in ScriptSet
      /\ script[i].phase = "linked" /\ disk.manifest = ManifestBy(i)
      /\ UNCHANGED disk /\ disk' \in DiskSet
  BY PhasesSay DEF Linked, InvocationFits
<1>2. script' = [script EXCEPT ![i] = [script[i] EXCEPT !.created = TRUE, !.phase = "sync"]]
  BY <1>1 DEF Linked, ProvisionTyped
<1>3. [script[i] EXCEPT !.created = TRUE, !.phase = "sync"] \in ScriptSet
  BY <1>1 DEF ScriptSet, ScriptPhases
<1>4. ProvisionTyped'
  BY <1>1, <1>2, <1>3, ScriptMoves
<1>5. /\ script'[i].phase = "sync" /\ script'[i].created = TRUE
      /\ script'[i].now = script[i].now /\ script'[i].published = script[i].published
      /\ script'[i].existing = script[i].existing
      /\ \A j \in Invocations \ {i} : script'[j] = script[j]
  BY <1>1, <1>2 DEF ProvisionTyped, ScriptSet
<1>6. Owned(i)' = Owned(i) /\ Complete(i)' = Complete(i)
  BY <1>1, <1>5 DEF Owned, Complete
<1>7. InvocationFits(i)'
  BY <1>1, <1>5, <1>6 DEF InvocationFits
<1> QED BY <1>1, <1>4, <1>5, <1>6, <1>7, QuietStep

LEMMA CommitFits ==
    ASSUME ProvisionFits, NEW i \in Invocations, Commit(i)
    PROVE  ProvisionFits'
<1>1. /\ InvocationFits(i) /\ ProvisionTyped /\ disk \in DiskSet
      /\ script[i].phase = "sync" /\ script[i].created
  BY PhasesSay DEF Commit, InvocationFits
<1>2. CASE Stops(i, "complete") /\ disk' = [disk EXCEPT !.drafts = @ \ {i}]
  <2>1. /\ disk' \in DiskSet /\ disk'.target = disk.target /\ disk'.manifest = disk.manifest
        /\ disk'.drafts = disk.drafts \ {i}
    BY <1>1, <1>2 DEF DiskSet
  <2>2. Goes(i, "ended")
    BY <1>1, <1>2, <2>1, StopGoes
  <2> QED BY <1>1, <2>1, <2>2, GoesFits
<1>3. CASE Phase(i, "undo") /\ UNCHANGED disk
  <2>1. Goes(i, "undo")
    <3>1. "undo" \in ScriptPhases /\ disk' \in DiskSet
      BY <1>1, <1>3 DEF ScriptPhases
    <3> QED BY <1>1, <1>3, <3>1, PhaseGoes
  <2> QED BY <1>1, <1>3, <2>1, GoesFits
<1> QED BY <1>2, <1>3 DEF Commit

\* The manifest names a set of which everything was found reviewed, and may have
\* been taken back since, or is this invocation's own.
LEMMA LinkFits ==
    ASSUME ProvisionFits, NEW i \in Invocations, Link(i)
    PROVE  ProvisionFits'
<1>1. /\ InvocationFits(i) /\ ProvisionTyped /\ disk \in DiskSet
      /\ script[i].phase = "link" /\ Complete(i) /\ i \in disk.drafts
      /\ disk.manifest # ManifestBy(i) /\ script[i].created = FALSE
  BY PhasesSay DEF Link, InvocationFits
<1>2. CASE Phase(i, "undo") /\ UNCHANGED disk
  <2>1. Goes(i, "undo")
    <3>1. "undo" \in ScriptPhases /\ disk' \in DiskSet
      BY <1>1, <1>2 DEF ScriptPhases
    <3> QED BY <1>1, <1>2, <3>1, PhaseGoes
  <2> QED BY <1>1, <1>2, <2>1, GoesFits
<1>3. CASE /\ disk.manifest = NoManifest
           /\ disk' = [disk EXCEPT !.manifest = ManifestBy(i)] /\ Phase(i, "linked")
  <2>1. /\ disk' \in DiskSet /\ disk'.target = disk.target /\ disk'.manifest = ManifestBy(i)
        /\ disk'.drafts = disk.drafts
    BY <1>1, <1>3 DEF DiskSet, Manifests
  <2>2. Goes(i, "linked")
    <3>1. "linked" \in ScriptPhases
      BY DEF ScriptPhases
    <3> QED BY <1>1, <1>3, <2>1, <3>1, PhaseGoes
  <2>3. /\ ProvisionTyped' /\ script'[i].phase = "linked"
        /\ script'[i].existing = script[i].existing /\ script'[i].published = script[i].published
        /\ script'[i].now = script[i].now /\ script'[i].created = FALSE
        /\ \A j \in Invocations \ {i} : script'[j] = script[j]
    BY <1>1, <2>2 DEF Goes
  <2>4. /\ Owned(i)' = Owned(i) /\ Complete(i)'
        /\ \A j \in Invocations \ {i} : Owned(j)' = Owned(j) /\ Complete(j)' = Complete(j)
    BY <1>1, <2>3 DEF Owned, Complete
  <2>5. /\ disk'.manifest.by = i /\ disk'.manifest.names = "reviewed"
        /\ \A j \in Invocations : disk.manifest # ManifestBy(j)
        /\ \A j \in Invocations \ {i} : disk'.manifest # ManifestBy(j)
    BY <1>1, <1>3, <2>1, ManifestIs DEF ManifestBy
  <2>6. InvocationFits(i)'
    BY <1>1, <2>1, <2>3, <2>4 DEF InvocationFits
  <2>7. ASSUME NEW j \in Invocations \ {i} PROVE InvocationFits(j)'
    <3>1. InvocationFits(j) /\ disk.manifest # ManifestBy(j)
      BY <2>5 DEF ProvisionFits
    <3> QED BY <2>1, <2>3, <2>4, <2>5, <3>1 DEF InvocationFits
  <2>8. NobodyShares' /\ EarlierStays'
    <3>1. NobodyShares'
      BY <2>4 DEF ProvisionFits, NobodyShares
    <3>2. disk'.manifest.by # Earlier
      BY <2>5, ProvisioningAssumption
    <3> QED BY <3>1, <3>2 DEF EarlierStays
  <2>9. ManifestHolds'
    <3>1. SUFFICES ASSUME NEW c \in Components
                   PROVE  disk'.target[c] = "reviewed" \/ Withdrawn(c)'
      BY DEF ManifestHolds
    <3>2. c \in script[i].existing \/ c \in Owned(i)
      BY <1>1 DEF Complete, Owned
    <3>3. CASE c \in Owned(i)
      BY <1>1, <2>1, <3>3 DEF InvocationFits
    <3>4. CASE c \in script[i].existing
      <4>1. disk.target[c] \in {"reviewed", "partial", "absent"}
        BY <1>1, <3>4 DEF InvocationFits
      <4> QED BY <2>1, <2>3, <2>5, <3>4, <4>1 DEF Withdrawn
    <3> QED BY <3>2, <3>3, <3>4
  <2> QED BY <2>3, <2>6, <2>7, <2>8, <2>9 DEF ProvisionFits
<1> QED BY <1>2, <1>3 DEF Link

\* A directory that was nobody's is now this invocation's.
LEMMA RenameFits ==
    ASSUME ProvisionFits, NEW i \in Invocations, NEW c \in Components, Rename(i, c)
    PROVE  ProvisionFits'
<1>1. /\ InvocationFits(i) /\ ProvisionTyped /\ disk \in DiskSet
      /\ script[i].phase = "rename" /\ c \in script[i].now
      /\ disk.manifest # ManifestBy(i) /\ script[i].created = FALSE
  BY PhasesSay DEF Rename
<1>2. CASE Phase(i, "undo") /\ UNCHANGED disk
  <2>1. Goes(i, "undo")
    <3>1. "undo" \in ScriptPhases /\ disk' \in DiskSet
      BY <1>1, <1>2 DEF ScriptPhases
    <3> QED BY <1>1, <1>2, <3>1, PhaseGoes
  <2> QED BY <1>1, <1>2, <2>1, GoesFits
<1>3. CASE /\ disk.target[c] = "absent"
           /\ disk' = [disk EXCEPT !.target[c] = "reviewed", !.staged = @ \ {<<i, c>>}]
           /\ Phase(i, "renamed")
  <2>1. /\ disk' \in DiskSet /\ disk'.target = [disk.target EXCEPT ![c] = "reviewed"]
        /\ disk'.manifest = disk.manifest /\ disk'.drafts = disk.drafts
    BY <1>1, <1>3 DEF DiskSet, Targets
  <2>2. /\ disk'.target[c] = "reviewed"
        /\ \A d \in Components \ {c} : disk'.target[d] = disk.target[d]
    BY <1>1, <2>1 DEF DiskSet
  <2>3. Goes(i, "renamed")
    <3>1. "renamed" \in ScriptPhases
      BY DEF ScriptPhases
    <3> QED BY <1>1, <1>3, <2>1, <3>1, PhaseGoes
  <2>4. /\ ProvisionTyped' /\ script'[i].phase = "renamed"
        /\ script'[i].existing = script[i].existing /\ script'[i].published = script[i].published
        /\ script'[i].now = script[i].now /\ script'[i].created = FALSE
        /\ \A j \in Invocations \ {i} : script'[j] = script[j]
    BY <1>1, <2>3 DEF Goes
  <2>5. /\ script[i].now = {c} /\ \A j \in Invocations : c \notin Owned(j)
        /\ \A j \in Invocations : Owned(j) \subseteq Components
        /\ \A j \in Invocations : script[j].existing \subseteq Components
    <3>1. script[i].now = {c}
      BY <1>1 DEF InvocationFits
    <3>2. \A j \in Invocations : c \notin Owned(j)
      BY <1>3 DEF ProvisionFits, InvocationFits
    <3>3. ASSUME NEW j \in Invocations
          PROVE  Owned(j) \subseteq Components /\ script[j].existing \subseteq Components
      <4>1. script[j] \in ScriptSet
        BY <1>1 DEF ProvisionTyped
      <4> QED BY <4>1 DEF ScriptSet, Owned
    <3> QED BY <3>1, <3>2, <3>3
  <2>6. /\ Owned(i)' = Owned(i) \cup {c} /\ Complete(i)' = Complete(i)
        /\ \A j \in Invocations \ {i} : Owned(j)' = Owned(j) /\ Complete(j)' = Complete(j)
    BY <1>1, <2>4, <2>5 DEF Owned, Complete
  <2>7. InvocationFits(i)'
    BY <1>1, <2>1, <2>2, <2>4, <2>5, <2>6 DEF InvocationFits
  <2>8. ASSUME NEW j \in Invocations \ {i} PROVE InvocationFits(j)'
    <3>1. InvocationFits(j)
      BY DEF ProvisionFits
    <3> QED BY <2>1, <2>2, <2>4, <2>5, <2>6, <3>1 DEF InvocationFits
  <2>9. NobodyShares'
    BY <2>5, <2>6 DEF ProvisionFits, NobodyShares
  <2>10. EarlierStays'
    <3>1. disk.manifest # [by |-> Earlier, names |-> "reviewed"]
      BY <1>1, <1>3 DEF ProvisionFits, EarlierStays, Lost
    <3> QED BY <2>1, <3>1 DEF EarlierStays
  <2>11. ManifestHolds'
    <3>1. SUFFICES ASSUME disk.manifest.names = "reviewed", disk.manifest.by # Earlier,
                          NEW d \in Components, d # c
                   PROVE  disk'.target[d] = "reviewed" \/ Withdrawn(d)'
      BY <2>1, <2>2 DEF ManifestHolds
    <3>2. disk.target[d] = "reviewed" \/ Withdrawn(d)
      BY <3>1 DEF ProvisionFits, ManifestHolds
    <3>3. \A j \in Invocations : script'[j].existing = script[j].existing
      BY <2>4
    <3> QED BY <2>1, <2>2, <3>1, <3>2, <3>3 DEF Withdrawn
  <2> QED BY <2>4, <2>7, <2>8, <2>9, <2>10, <2>11 DEF ProvisionFits
<1> QED BY <1>2, <1>3 DEF Rename
\* What this invocation published is taken back.  Whoever has linked a manifest
\* found it there, for nobody else has published it.
LEMMA TakenBack ==
    ASSUME ProvisionFits, ProvisionTyped', NEW i \in Invocations, NEW c \in Owned(i),
           script[i].phase = "undo", disk.manifest # ManifestBy(i),
           NEW v \in {"partial", "absent"},
           disk'.target = [disk.target EXCEPT ![c] = v],
           disk'.manifest = disk.manifest, disk'.drafts = disk.drafts,
           script'[i].phase = "undo", script'[i].existing = script[i].existing,
           script'[i].now = script[i].now, script'[i].created = script[i].created,
           \A j \in Invocations \ {i} : script'[j] = script[j],
           Owned(i)' \subseteq Owned(i), v = "absent" => c \notin Owned(i)'
    PROVE  ProvisionFits'
<1>1. /\ InvocationFits(i) /\ ProvisionTyped /\ disk \in DiskSet /\ script[i].created = FALSE
      /\ NobodyShares /\ EarlierStays /\ ManifestHolds
  BY PhasesSay DEF ProvisionFits, InvocationFits, ScriptSet
<1>2. /\ \A j \in Invocations : Owned(j) \subseteq Components
      /\ \A j \in Invocations : script[j].existing \subseteq Components
  <2>1. ASSUME NEW j \in Invocations
        PROVE  Owned(j) \subseteq Components /\ script[j].existing \subseteq Components
    <3>1. script[j] \in ScriptSet
      BY <1>1 DEF ProvisionTyped
    <3> QED BY <3>1 DEF ScriptSet, Owned
  <2> QED BY <2>1
<1>3. /\ c \in Components /\ disk'.target[c] = v
      /\ \A d \in Components \ {c} : disk'.target[d] = disk.target[d]
  BY <1>1, <1>2 DEF DiskSet
<1>4. \A j \in Invocations \ {i} :
         c \notin Owned(j) /\ Owned(j)' = Owned(j) /\ Complete(j)' = Complete(j)
  BY <1>1 DEF NobodyShares, Owned, Complete
<1>5. InvocationFits(i)'
  <2>1. \A d \in script'[i].existing : disk'.target[d] \in {"reviewed", "partial", "absent"}
    BY <1>1, <1>2, <1>3 DEF InvocationFits
  <2>2. \A d \in Owned(i)' : disk'.target[d] \in {"reviewed", "partial"}
    BY <1>1, <1>2, <1>3 DEF InvocationFits
  <2>3. \A d, e \in script'[i].now : d = e
    BY <1>1 DEF InvocationFits
  <2> QED BY <1>1, <2>1, <2>2, <2>3 DEF InvocationFits
<1>6. ASSUME NEW j \in Invocations \ {i} PROVE InvocationFits(j)'
  <2>1. InvocationFits(j)
    BY DEF ProvisionFits
  <2>2. \A d \in script'[j].existing : disk'.target[d] \in {"reviewed", "partial", "absent"}
    BY <1>2, <1>3, <2>1 DEF InvocationFits
  <2>3. \A d \in Owned(j) : disk'.target[d] = disk.target[d]
    BY <1>2, <1>3, <1>4
  <2> QED BY <1>4, <2>1, <2>2, <2>3 DEF InvocationFits
<1>7. NobodyShares'
  BY <1>1, <1>4 DEF NobodyShares
<1>8. disk.manifest # [by |-> Earlier, names |-> "reviewed"]
  BY <1>1, <1>3 DEF EarlierStays
<1>9. EarlierStays'
  BY <1>8 DEF EarlierStays
<1>10. ManifestHolds'
  <2> SUFFICES ASSUME disk.manifest.names = "reviewed", disk.manifest.by # Earlier,
                      NEW d \in Components
               PROVE  disk'.target[d] = "reviewed" \/ Withdrawn(d)'
    BY DEF ManifestHolds
  <2>1. disk.target[d] = "reviewed" \/ Withdrawn(d)
    BY <1>1 DEF ManifestHolds
  <2>2. \A j \in Invocations : script'[j].existing = script[j].existing
    OBVIOUS
  <2>3. CASE d # c
    BY <1>3, <2>1, <2>2, <2>3 DEF Withdrawn
  <2>4. CASE d = c
    <3>1. PICK j \in Invocations \ {i} : disk.manifest = ManifestBy(j)
      <4>1. disk.manifest \in Manifests
        BY <1>1 DEF DiskSet
      <4> QED BY <1>8, <4>1 DEF Manifests, NoManifest
    <3>2. c \in script[j].existing
      <4>1. Complete(j) /\ c \notin Owned(j)
        BY <1>4, <3>1 DEF ProvisionFits, InvocationFits
      <4> QED BY <1>3, <4>1 DEF Complete, Owned
    <3>3. disk'.manifest.by = j
      BY <3>1 DEF ManifestBy
    <3> QED BY <1>3, <2>2, <2>4, <3>2, <3>3 DEF Withdrawn
  <2> QED BY <2>3, <2>4
<1> QED BY <1>5, <1>6, <1>7, <1>9, <1>10 DEF ProvisionFits

\* The manifest was its own: no other invocation counts on it.
LEMMA ManifestTakenBack ==
    ASSUME ProvisionFits, NEW i \in Invocations, script[i].phase = "undo",
           disk.manifest = ManifestBy(i),
           disk' = [disk EXCEPT !.manifest = NoManifest],
           script' = [script EXCEPT ![i].created = FALSE]
    PROVE  ProvisionFits'
<1>1. InvocationFits(i) /\ ProvisionTyped /\ disk \in DiskSet /\ script[i] \in ScriptSet
  BY PhasesSay
<1>2. /\ disk' \in DiskSet /\ disk'.target = disk.target /\ disk'.manifest = NoManifest
      /\ disk'.drafts = disk.drafts
  BY <1>1 DEF DiskSet, Manifests
<1>3. script' = [script EXCEPT ![i] = [script[i] EXCEPT !.created = FALSE]]
  BY <1>1 DEF ProvisionTyped
<1>4. [script[i] EXCEPT !.created = FALSE] \in ScriptSet
  BY <1>1 DEF ScriptSet
<1>5. ProvisionTyped'
  BY <1>1, <1>2, <1>3, <1>4, ScriptMoves
<1>6. /\ script'[i].phase = "undo" /\ script'[i].created = FALSE
      /\ script'[i].existing = script[i].existing /\ script'[i].published = script[i].published
      /\ script'[i].now = script[i].now
      /\ \A j \in Invocations \ {i} : script'[j] = script[j]
  BY <1>1, <1>3 DEF ProvisionTyped, ScriptSet
<1>7. \A j \in Invocations : Owned(j)' = Owned(j)
  BY <1>1, <1>6 DEF Owned
<1>8. /\ \A j \in Invocations \ {i} : disk.manifest # ManifestBy(j)
      /\ \A j \in Invocations : disk'.manifest # ManifestBy(j)
      /\ disk'.manifest.names # "reviewed"
  BY <1>1, <1>2, ManifestIs DEF ManifestBy
<1>9. InvocationFits(i)'
  BY <1>1, <1>2, <1>6, <1>7, <1>8 DEF InvocationFits
<1>10. ASSUME NEW j \in Invocations \ {i} PROVE InvocationFits(j)'
  <2>1. InvocationFits(j) /\ disk.manifest # ManifestBy(j) /\ Complete(j)' = Complete(j)
    BY <1>6, <1>8 DEF ProvisionFits, Complete
  <2> QED BY <1>2, <1>6, <1>7, <1>8, <2>1 DEF InvocationFits
<1>11. NobodyShares'
  BY <1>7 DEF ProvisionFits, NobodyShares
<1> QED BY <1>5, <1>8, <1>9, <1>10, <1>11 DEF ProvisionFits, EarlierStays, ManifestHolds

LEMMA UndoFits ==
    ASSUME ProvisionFits, NEW i \in Invocations, Undo(i)
    PROVE  ProvisionFits'
<1>1. /\ InvocationFits(i) /\ ProvisionTyped /\ disk \in DiskSet /\ script[i] \in ScriptSet
      /\ script[i].phase = "undo"
  BY PhasesSay DEF Undo
<1>2. OwnManifest(i) <=> disk.manifest = ManifestBy(i)
  BY <1>1, ManifestIs DEF InvocationFits, OwnManifest
<1>3. CASE disk' = [disk EXCEPT !.staged = @ \ Staging(i)] /\ UNCHANGED script
  <2>1. /\ disk' \in DiskSet /\ disk'.target = disk.target /\ disk'.manifest = disk.manifest
        /\ disk'.drafts = disk.drafts
    BY <1>1, <1>3 DEF DiskSet
  <2>2. Goes(i, "undo")
    BY <1>1, <1>3, <2>1 DEF Goes, ProvisionTyped
  <2>3. disk.manifest = ManifestBy(i) => script[i].created \/ i \in disk'.drafts
    BY <1>1, <2>1 DEF InvocationFits
  <2> QED BY <1>1, <2>1, <2>2, <2>3, GoesFits
<1>4. CASE /\ OwnManifest(i)
           /\ disk' = [disk EXCEPT !.manifest = NoManifest]
           /\ script' = [script EXCEPT ![i].created = FALSE]
  BY <1>1, <1>2, <1>4, ManifestTakenBack
<1>5. CASE ~ OwnManifest(i) /\ disk' = [disk EXCEPT !.drafts = @ \ {i}] /\ UNCHANGED script
  <2>1. /\ disk' \in DiskSet /\ disk'.target = disk.target /\ disk'.manifest = disk.manifest
        /\ disk'.drafts = disk.drafts \ {i}
    BY <1>1, <1>5 DEF DiskSet
  <2>2. Goes(i, "undo")
    BY <1>1, <1>5, <2>1 DEF Goes, ProvisionTyped
  <2> QED BY <1>1, <1>2, <1>5, <2>1, <2>2, GoesFits
<1>6. ASSUME NEW c \in script[i].published, ~ OwnManifest(i),
             disk' = [disk EXCEPT !.target[c] = "partial"], UNCHANGED script
      PROVE  ProvisionFits'
  <2>1. c \in Owned(i) /\ c \in Components /\ Owned(i)' = Owned(i)
    BY <1>1, <1>6 DEF Owned, ScriptSet
  <2>2. /\ disk' \in DiskSet /\ disk'.target = [disk.target EXCEPT ![c] = "partial"]
        /\ disk'.manifest = disk.manifest /\ disk'.drafts = disk.drafts
    BY <1>1, <1>6, <2>1 DEF DiskSet, Targets
  <2>3. ProvisionTyped'
    BY <1>1, <1>6, <2>2 DEF ProvisionTyped
  <2> QED BY <1>1, <1>2, <1>6, <2>1, <2>2, <2>3, TakenBack
<1>7. ASSUME NEW c \in script[i].published, ~ OwnManifest(i),
             disk' = [disk EXCEPT !.target[c] = "absent"],
             script' = [script EXCEPT ![i].published = @ \ {c}]
      PROVE  ProvisionFits'
  <2>1. c \in Owned(i) /\ c \in Components
    BY <1>1 DEF Owned, ScriptSet
  <2>2. /\ disk' \in DiskSet /\ disk'.target = [disk.target EXCEPT ![c] = "absent"]
        /\ disk'.manifest = disk.manifest /\ disk'.drafts = disk.drafts
    BY <1>1, <1>7, <2>1 DEF DiskSet, Targets
  <2>3. script' = [script EXCEPT ![i] = [script[i] EXCEPT !.published = @ \ {c}]]
    BY <1>1, <1>7 DEF ProvisionTyped
  <2>4. [script[i] EXCEPT !.published = @ \ {c}] \in ScriptSet
    BY <1>1 DEF ScriptSet
  <2>5. ProvisionTyped'
    BY <1>1, <2>2, <2>3, <2>4, ScriptMoves
  <2>6. /\ script'[i].phase = "undo" /\ script'[i].created = script[i].created
        /\ script'[i].existing = script[i].existing
        /\ script'[i].published = script[i].published \ {c}
        /\ script'[i].now = script[i].now
        /\ \A j \in Invocations \ {i} : script'[j] = script[j]
    BY <1>1, <2>3 DEF ProvisionTyped, ScriptSet
  <2>7. Owned(i)' \subseteq Owned(i) /\ c \notin Owned(i)'
    BY <1>1, <2>6 DEF Owned
  <2> QED BY <1>1, <1>2, <1>7, <2>1, <2>2, <2>5, <2>6, <2>7, TakenBack
<1>8. CASE ~ OwnManifest(i) /\ Stops(i, "failed") /\ UNCHANGED disk
  <2>1. Goes(i, "ended")
    BY <1>1, <1>8, StopGoes
  <2> QED BY <1>1, <1>8, <2>1, GoesFits
<1> QED BY <1>3, <1>4, <1>5, <1>6, <1>7, <1>8 DEF Undo

LEMMA ScriptStepFits ==
    ASSUME ProvisionFits, ScriptStep
    PROVE  ProvisionFits'
<1>1. PICK i \in Invocations :
        \/ \E selected \in SUBSET Components, arguments \in Arguments :
              Start(i, selected, arguments)
        \/ Download(i) \/ Normalize(i) \/ Look(i) \/ WriteOrVerify(i) \/ Link(i) \/ Linked(i)
        \/ Recorded(i) \/ Commit(i)
        \/ \E c \in Components, content \in {"reviewed", "other"} : Stage(i, c, content)
        \/ \E c \in Components : Rename(i, c)
        \/ Interrupt(i) \/ Undo(i) \/ Kill(i)
  BY DEF ScriptStep
<1> QED BY <1>1, StartFits, GoingOnFits, StageFits, RecordedFits, WriteFits, LinkFits, LinkedFits,
           CommitFits, RenameFits, UndoFits
\* Most steps leave artifacts, manifest and results.
Calm(i) ==
    /\ disk'.target = disk.target /\ disk'.manifest = disk.manifest
    /\ \A j \in Invocations : script'[j].result \in {script[j].result, "refused", "partial",
                                                     "failed", "killed"}

\* A manifest holds what it names as long as nobody takes back its artifacts.
LEMMA NamesHold ==
    ASSUME ProvisionFits, ProvisionFits', NEW c \in Components,
           disk'.manifest.names = "reviewed",
           disk'.manifest.by = Earlier => disk.manifest = disk'.manifest,
           \/ disk'.target[c] \in {"reviewed", disk.target[c]}
           \/ \E i \in Invocations : c \in Owned(i)
    PROVE  disk'.target[c] = "reviewed" \/ Withdrawn(c)' \/ Lost(c)
<1>1. CASE disk'.manifest.by # Earlier
  BY <1>1 DEF ProvisionFits, ManifestHolds
<1>2. CASE disk'.manifest.by = Earlier
  <2>1. disk.manifest = [by |-> Earlier, names |-> "reviewed"]
    <3>1. disk.manifest \in Manifests
      BY DEF ProvisionFits, ProvisionTyped, DiskSet
    <3> QED BY <1>2, <3>1, ProvisioningAssumption DEF Manifests, NoManifest, ManifestBy
  <2>2. \A i \in Invocations : c \notin Owned(i)
    BY <2>1 DEF ProvisionFits, EarlierStays
  <2> QED BY <2>1, <2>2 DEF Lost
<1> QED BY <1>1, <1>2

LEMMA CalmPublishes ==
    ASSUME ProvisionFits, ProvisionFits', NEW i \in Invocations, Calm(i)
    PROVE  PublishedStep
<1>1. \A c \in Components : disk'.manifest.names = "reviewed" =>
         disk'.target[c] = "reviewed" \/ Withdrawn(c)' \/ Lost(c)
  BY NamesHold DEF Calm
<1> QED BY <1>1 DEF Calm, PublishedStep

LEMMA CalmSteps ==
    ASSUME ProvisionFits, NEW i \in Invocations,
           \/ \E selected \in SUBSET Components, arguments \in Arguments :
                 Start(i, selected, arguments)
           \/ Download(i) \/ Normalize(i) \/ Look(i) \/ Linked(i) \/ Recorded(i)
           \/ \E c \in Components, content \in {"reviewed", "other"} : Stage(i, c, content)
           \/ Interrupt(i) \/ Kill(i)
    PROVE  Calm(i)
<1>1. ProvisionTyped /\ disk \in DiskSet
  BY PhasesSay
<1>2. ASSUME NEW selected \in SUBSET Components, NEW arguments \in Arguments,
             Start(i, selected, arguments)
      PROVE  Calm(i)
  <2>1. UNCHANGED disk
    BY <1>2 DEF Start
  <2>2. ASSUME NEW missing,
               script' = [script EXCEPT ![i].phase = "download", ![i].selected = selected,
                                        ![i].existing = Present, ![i].missing = missing]
        PROVE  \A j \in Invocations : script'[j].result = script[j].result
    <3>1. script' = [script EXCEPT ![i] = [script[i] EXCEPT !.phase = "download",
                        !.selected = selected, !.existing = Present, !.missing = missing]]
      BY <1>1, <2>2 DEF ProvisionTyped
    <3> QED BY <1>1, <3>1 DEF ProvisionTyped, ScriptSet
  <2>3. Stops(i, "refused") =>
           \A j \in Invocations : script'[j].result \in {script[j].result, "refused"}
    BY <1>1 DEF Stops, ProvisionTyped, ScriptSet
  <2> QED BY <1>2, <2>1, <2>2, <2>3 DEF Start, Calm
<1>3. CASE Download(i) \/ Normalize(i) \/ Look(i) \/ Interrupt(i) \/ Kill(i)
  <2>1. UNCHANGED disk
    BY <1>3 DEF Download, Normalize, Look, Interrupt, Kill
  <2>2. (\E p : Phase(i, p)) \/ Stops(i, "killed")
    BY <1>3 DEF Download, Normalize, Look, Interrupt, Kill
  <2>3. ASSUME NEW p, Phase(i, p) PROVE \A j \in Invocations : script'[j].result = script[j].result
    BY <1>1, <2>3 DEF Phase, ProvisionTyped, ScriptSet
  <2>4. Stops(i, "killed") =>
           \A j \in Invocations : script'[j].result \in {script[j].result, "killed"}
    BY <1>1 DEF Stops, ProvisionTyped, ScriptSet
  <2> QED BY <2>1, <2>2, <2>3, <2>4 DEF Calm
<1>4. CASE Linked(i) \/ Recorded(i)
  BY <1>1, <1>4 DEF Linked, Recorded, Calm, ProvisionTyped, ScriptSet
<1>5. ASSUME NEW c \in Components, NEW content \in {"reviewed", "other"}, Stage(i, c, content)
      PROVE  Calm(i)
  BY <1>1, <1>5 DEF Stage, Calm, ProvisionTyped, DiskSet, ScriptSet
<1> QED BY <1>2, <1>3, <1>4, <1>5

\* Success is told of a reviewed manifest only.
LEMMA SuccessPublishes ==
    ASSUME ProvisionFits, ProvisionFits', NEW i \in Invocations, WriteOrVerify(i) \/ Commit(i)
    PROVE  PublishedStep
<1>1. /\ InvocationFits(i) /\ ProvisionTyped /\ disk \in DiskSet
      /\ ManifestBy(i).names = "reviewed" /\ NoManifest.names = "nothing"
  BY PhasesSay, ManifestIs
<1>2. disk'.target = disk.target /\ disk'.manifest = disk.manifest
  BY <1>1 DEF WriteOrVerify, Commit, DiskSet
<1>3. ASSUME NEW j \in Invocations, script[j].result # "complete",
             script'[j].result = "complete"
      PROVE  disk'.manifest.names = "reviewed"
  <2>1. CASE WriteOrVerify(i)
    <3>1. disk.manifest.names = "reviewed" \/ ~ Stops(i, "complete")
      BY <2>1, <1>3, <1>1 DEF WriteOrVerify, Stops, Phase, ProvisionTyped, ScriptSet
    <3>2. Stops(i, "complete")
      BY <2>1, <1>3, <1>1 DEF WriteOrVerify, Stops, Phase, ProvisionTyped, ScriptSet
    <3> QED BY <1>2, <3>1, <3>2
  <2>2. CASE Commit(i)
    BY <1>1, <1>2, <2>2 DEF Commit, InvocationFits
  <2> QED BY <2>1, <2>2
<1>4. \A c \in Components : disk'.manifest.names = "reviewed" =>
         disk'.target[c] = "reviewed" \/ Withdrawn(c)' \/ Lost(c)
  BY <1>2, NamesHold
<1>5. \A c \in Components : ~ Lost(c)
  <2>1. script[i].phase \in {"stage", "sync"}
    BY DEF WriteOrVerify, Commit
  <2> QED BY <2>1 DEF ProvisionFits, EarlierStays, Lost
<1>6. disk'.manifest.names = "reviewed" =>
         Servable' \/ \E c \in Components : Withdrawn(c)'
  BY <1>1, <1>4, <1>5 DEF Servable
<1> QED BY <1>2, <1>3, <1>4, <1>6 DEF PublishedStep

LEMMA ScriptPublishes ==
    ASSUME ProvisionFits, ProvisionFits', ScriptStep
    PROVE  PublishedStep
<1>1. PICK i \in Invocations :
        \/ \E selected \in SUBSET Components, arguments \in Arguments :
              Start(i, selected, arguments)
        \/ Download(i) \/ Normalize(i) \/ Look(i) \/ WriteOrVerify(i) \/ Link(i) \/ Linked(i)
        \/ Recorded(i) \/ Commit(i)
        \/ \E c \in Components, content \in {"reviewed", "other"} : Stage(i, c, content)
        \/ \E c \in Components : Rename(i, c)
        \/ Interrupt(i) \/ Undo(i) \/ Kill(i)
  BY DEF ScriptStep
<1>2. /\ InvocationFits(i) /\ ProvisionTyped /\ disk \in DiskSet /\ script[i] \in ScriptSet
  BY PhasesSay
<1>3. ASSUME disk'.manifest.by = Earlier =>
                disk.manifest = disk'.manifest \/ disk'.manifest = NoManifest,
             \A c \in Components : \/ disk'.target[c] \in {"reviewed", disk.target[c]}
                                   \/ c \in Owned(i)
      PROVE  \A c \in Components : disk'.manifest.names = "reviewed" =>
                disk'.target[c] = "reviewed" \/ Withdrawn(c)' \/ Lost(c)
  <2>1. NoManifest.names = "nothing"
    BY DEF NoManifest
  <2> QED BY <1>3, <2>1, NamesHold
<1>4. CASE Link(i)
  <2>1. /\ disk'.target = disk.target /\ disk.manifest \in {NoManifest, disk'.manifest}
        /\ disk'.manifest.by = Earlier => disk.manifest = disk'.manifest
    BY <1>2, <1>4, ProvisioningAssumption DEF Link, DiskSet, ManifestBy
  <2>2. \A j \in Invocations : script'[j].result = script[j].result
    BY <1>2, <1>4 DEF Link, Phase, ProvisionTyped, ScriptSet
  <2> QED BY <1>3, <2>1, <2>2 DEF PublishedStep
<1>5. ASSUME NEW c \in Components, Rename(i, c) PROVE PublishedStep
  <2>1. /\ disk'.manifest = disk.manifest
        /\ \A d \in Components : /\ disk.target[d] \in {"absent", disk'.target[d]}
                                 /\ disk'.target[d] \in {"reviewed", disk.target[d]}
    BY <1>2, <1>5 DEF Rename, DiskSet
  <2>2. \A j \in Invocations : script'[j].result = script[j].result
    BY <1>2, <1>5 DEF Rename, Phase, ProvisionTyped, ScriptSet
  <2> QED BY <1>3, <2>1, <2>2 DEF PublishedStep
<1>6. CASE Undo(i)
  <2>1. script[i].phase = "undo"
    BY <1>6 DEF Undo
  <2>2. \A j \in Invocations : script'[j].result \in {script[j].result, "failed"}
    BY <1>2, <1>6 DEF Undo, Stops, ProvisionTyped, ScriptSet
  <2>3. OwnManifest(i) => disk.manifest.by = i
    BY <1>2, ManifestIs DEF InvocationFits, OwnManifest
  <2>4. disk'.manifest = disk.manifest \/ (OwnManifest(i) /\ disk'.manifest = NoManifest)
    BY <1>2, <1>6 DEF Undo, DiskSet
  <2>5. \A c \in Components :
           disk'.target[c] = disk.target[c] \/ c \in script[i].published
    BY <1>2, <1>6 DEF Undo, DiskSet
  <2>6. script[i].published \subseteq Owned(i)
    BY DEF Owned
  <2>7. \A c \in Components : disk'.manifest.names = "reviewed" =>
           disk'.target[c] = "reviewed" \/ Withdrawn(c)' \/ Lost(c)
    BY <1>3, <2>4, <2>5, <2>6
  <2> QED BY <2>1, <2>2, <2>3, <2>4, <2>5, <2>7 DEF PublishedStep
<1>7. CASE WriteOrVerify(i) \/ Commit(i)
  BY <1>7, SuccessPublishes
<1> QED BY <1>1, <1>4, <1>5, <1>6, <1>7, CalmSteps, CalmPublishes
-----------------------------------------------------------------------------
(* What the revisions do to rows *)

LEMMA FirstRows == RowsFit(NoTables) /\ RowsFit(Foundation)
<1>1. <<>> \in Seq(Hashes)
  OBVIOUS
<1>2. Foundation \in TableSets
  BY <1>1 DEF Foundation, TableSets, Statuses
<1>3. NoTables = [Foundation EXCEPT !.exists = FALSE] /\ NoTables \in TableSets
  BY <1>2 DEF NoTables, TableSets
<1>4. /\ Foundation.unique = "absent" /\ NoTables.unique = "absent"
      /\ \A r \in Runs : Foundation.runs[r] = "absent" /\ NoTables.runs[r] = "absent"
  BY <1>3 DEF Foundation
<1> QED BY <1>2, <1>3, <1>4 DEF RowsFit

\* The fields of an upgraded schema; its rows are those it had.
LEMMA UpgradedFields ==
    ASSUME NEW t \in TableSets
    PROVE  /\ Upgraded(t) \in TableSets
           /\ Upgraded(t).exists = t.exists /\ Upgraded(t).analyses = t.analyses
           /\ Upgraded(t).events = t.events
           /\ Upgraded(t).payload = "sanitized_result"
           /\ Upgraded(t).digest = "sanitized_result_sha256"
           /\ Upgraded(t).vocabulary = "head" /\ Upgraded(t).unique = "owned"
           /\ \A r \in Runs : /\ Upgraded(t).runs[r] \in HeadStatuses \cup {"absent"}
                              /\ SameStatus(t.runs[r], Upgraded(t).runs[r])
<1> DEFINE u == UpgradeAnalyses(t)
           v == WithStatuses(u, "head")
           runs == [r \in Runs |-> Renamed(Renamed(v.runs[r], "pending", "queued"),
                                           "running", "processing")]
           w == [v EXCEPT !.runs = runs]
<1>1. /\ u \in TableSets /\ u.exists = t.exists /\ u.analyses = t.analyses /\ u.events = t.events
      /\ u.runs = t.runs /\ u.payload = "sanitized_result"
      /\ u.digest = "sanitized_result_sha256"
  BY DEF UpgradeAnalyses, TableSets
<1> HIDE DEF u
<1>2. /\ v \in TableSets /\ v.exists = t.exists /\ v.analyses = t.analyses /\ v.events = t.events
      /\ v.runs = t.runs /\ v.payload = "sanitized_result"
      /\ v.digest = "sanitized_result_sha256" /\ v.vocabulary = "head"
  BY <1>1 DEF WithStatuses, TableSets
<1>3. Upgraded(t) = [w EXCEPT !.unique = "owned"]
  BY DEF Upgraded, UpgradeRuns, u
<1> HIDE DEF v
<1>4. \A r \in Runs : t.runs[r] \in Statuses
  BY DEF TableSets
<1>5. \A r \in Runs : /\ runs[r] \in HeadStatuses \cup {"absent"}
                      /\ SameStatus(t.runs[r], runs[r])
  BY <1>2, <1>4 DEF Renamed, Statuses, BaselineStatuses, HeadStatuses, SameStatus
<1>6. runs \in [Runs -> Statuses]
  BY <1>5 DEF Statuses
<1> HIDE DEF runs
<1>7. /\ w \in TableSets /\ w.exists = t.exists /\ w.analyses = t.analyses /\ w.events = t.events
      /\ w.runs = runs /\ w.payload = "sanitized_result"
      /\ w.digest = "sanitized_result_sha256" /\ w.vocabulary = "head"
  BY <1>2, <1>6 DEF TableSets
<1> HIDE DEF w
<1>8. /\ Upgraded(t) \in TableSets /\ Upgraded(t).unique = "owned"
      /\ Upgraded(t).exists = w.exists /\ Upgraded(t).analyses = w.analyses
      /\ Upgraded(t).events = w.events /\ Upgraded(t).runs = w.runs
      /\ Upgraded(t).payload = w.payload /\ Upgraded(t).digest = w.digest
      /\ Upgraded(t).vocabulary = w.vocabulary
  BY <1>3, <1>7 DEF TableSets
<1> QED BY <1>5, <1>7, <1>8

LEMMA UpgradedRows ==
    ASSUME NEW t, RowsFit(t), EventUniqueOwned(t) \/ HashesUnique(t)
    PROVE  RowsFit(Upgraded(t))
<1>1. HashesUnique(t)
  BY DEF RowsFit, EventUniqueOwned
<1>2. HashesUnique(Upgraded(t))
  BY <1>1, UpgradedFields DEF RowsFit, HashesUnique
<1> QED BY <1>2, UpgradedFields DEF RowsFit, StatusesOf

\* The same, back.
LEMMA DowngradedFields ==
    ASSUME NEW t, RowsFit(t), t.vocabulary = "head"
    PROVE  /\ RowsFit(Downgraded(t))
           /\ Downgraded(t).exists = t.exists /\ Downgraded(t).analyses = t.analyses
           /\ Downgraded(t).events = t.events
           /\ \A r \in Runs : SameStatus(t.runs[r], Downgraded(t).runs[r])
<1> DEFINE u == DowngradeAnalyses(t)
           v == WithStatuses(u, "baseline")
           runs == [r \in Runs |-> Renamed(Renamed(v.runs[r], "queued", "pending"),
                                           "processing", "running")]
           w == [v EXCEPT !.runs = runs]
<1>1. /\ u \in TableSets /\ u.exists = t.exists /\ u.analyses = t.analyses /\ u.events = t.events
      /\ u.runs = t.runs
  BY DEF DowngradeAnalyses, TableSets, RowsFit
<1> HIDE DEF u
<1>2. /\ v \in TableSets /\ v.exists = t.exists /\ v.analyses = t.analyses /\ v.events = t.events
      /\ v.runs = t.runs /\ v.vocabulary = "baseline"
  BY <1>1 DEF WithStatuses, TableSets
<1>3. Downgraded(t) = [w EXCEPT !.unique = "absent"]
  BY DEF Downgraded, DowngradeRuns, u
<1> HIDE DEF v
<1>4. \A r \in Runs : t.runs[r] \in HeadStatuses \cup {"absent"}
  BY DEF RowsFit, StatusesOf
<1>5. \A r \in Runs : /\ runs[r] \in BaselineStatuses \cup {"absent"}
                      /\ SameStatus(t.runs[r], runs[r])
  BY <1>2, <1>4 DEF Renamed, BaselineStatuses, HeadStatuses, SameStatus
<1>6. runs \in [Runs -> Statuses]
  BY <1>5 DEF Statuses
<1> HIDE DEF runs
<1>7. /\ w \in TableSets /\ w.exists = t.exists /\ w.analyses = t.analyses /\ w.events = t.events
      /\ w.runs = runs /\ w.vocabulary = "baseline"
  BY <1>2, <1>6 DEF TableSets
<1> HIDE DEF w
<1>8. /\ Downgraded(t) \in TableSets /\ Downgraded(t).unique = "absent"
      /\ Downgraded(t).exists = w.exists /\ Downgraded(t).analyses = w.analyses
      /\ Downgraded(t).events = w.events /\ Downgraded(t).runs = w.runs
      /\ Downgraded(t).vocabulary = w.vocabulary
  BY <1>3, <1>7 DEF TableSets
<1> QED BY <1>5, <1>7, <1>8 DEF RowsFit, StatusesOf
-----------------------------------------------------------------------------
(* One migrator, under its locks *)

MigratorSet ==
    [phase : MigrationPhases, target : {"head", "0001", "base"},
     work : [version : Versions, tables : TableSets]]

\* Goto moves its phase and its work, and nobody else.
LEMMA GotoMoves ==
    ASSUME MigratorFits, NEW m \in Migrators, NEW p \in MigrationPhases,
           NEW w \in [version : Versions, tables : TableSets], Goto(m, p, w)
    PROVE  /\ migr' \in [Migrators -> MigratorSet]
           /\ migr'[m].phase = p /\ migr'[m].work = w /\ migr'[m].target = migr[m].target
           /\ \A n \in Migrators \ {m} : migr'[n] = migr[n]
<1>1. migr \in [Migrators -> MigratorSet] /\ migr[m] \in MigratorSet
  BY DEF MigratorFits, MigratorSet
<1>2. migr' = [migr EXCEPT ![m] = [migr[m] EXCEPT !.phase = p, !.work = w]]
  BY <1>1 DEF Goto
<1>3. [migr[m] EXCEPT !.phase = p, !.work = w] \in MigratorSet
  BY <1>1 DEF MigratorSet
<1> QED BY <1>1, <1>2, <1>3 DEF MigratorSet

LEMMA BlankFits == Blank \in [version : Versions, tables : TableSets] /\ RowsFit(Blank.tables)
BY FirstRows DEF Blank, RowsFit, Versions

\* The others keep what fits them while the database and their locks stay.
LEMMA OthersFit ==
    ASSUME MigrationsFit, NEW m \in Migrators, UNCHANGED db,
           \A n \in Migrators \ {m} :
              /\ migr'[n] = migr[n] /\ (locks'.tables = n <=> locks.tables = n)
              /\ VersionHeld(n)' <=> VersionHeld(n)
    PROVE  \A n \in Migrators \ {m} : WorkFits(n)'
BY DEF MigrationsFit, MigratorFits, WorkFits

\* Rolled back.
LEMMA FailsFits ==
    ASSUME MigrationsFit, NEW m \in Migrators, Fails(m)
    PROVE  MigrationsFit'
<1>1. /\ DatabaseFits /\ LocksHeld /\ MigratorFits /\ UNCHANGED db
      /\ Goto(m, "failed", Blank) /\ "failed" \in MigrationPhases
      /\ locks' = [version |-> IF locks.version = m THEN Nobody ELSE locks.version,
                   readers |-> locks.readers \ {m},
                   tables |-> IF locks.tables = m THEN Nobody ELSE locks.tables]
  BY DEF MigrationsFit, Fails, End, MigrationPhases
<1>2. /\ migr' \in [Migrators -> MigratorSet]
      /\ migr'[m].phase = "failed" /\ migr'[m].work = Blank
      /\ \A n \in Migrators \ {m} : migr'[n] = migr[n]
  BY <1>1, BlankFits, GotoMoves
<1>3. LocksHeld'
  BY <1>1, <1>2, MigrationsAssumption DEF LocksHeld
<1>4. \A n \in Migrators \ {m} : WorkFits(n)'
  <2>1. \A n \in Migrators \ {m} :
           /\ locks'.tables = n <=> locks.tables = n
           /\ VersionHeld(n)' <=> VersionHeld(n)
    BY <1>1, MigrationsAssumption DEF VersionHeld
  <2> QED BY <1>1, <1>2, <2>1, OthersFit
<1>5. WorkFits(m)'
  BY <1>2, BlankFits DEF WorkFits
<1>6. DatabaseFits'
  BY <1>1 DEF DatabaseFits
<1> QED BY <1>2, <1>3, <1>4, <1>5, <1>6 DEF MigrationsFit, MigratorFits, MigratorSet

\* What a step of one that goes on has to show.
LEMMA OnFits ==
    ASSUME MigrationsFit, NEW m \in Migrators, NEW p \in MigrationPhases,
           NEW w, w \in [version : Versions, tables : TableSets],
           Goto(m, p, w), UNCHANGED db, LocksHeld', WorkFits(m)',
           \A n \in Migrators \ {m} :
              (locks'.tables = n <=> locks.tables = n) /\ (VersionHeld(n)' <=> VersionHeld(n))
    PROVE  MigrationsFit'
<1>1. /\ migr' \in [Migrators -> MigratorSet]
      /\ \A n \in Migrators \ {m} : migr'[n] = migr[n]
  BY GotoMoves DEF MigrationsFit
<1>2. \A n \in Migrators \ {m} : WorkFits(n)'
  BY <1>1, OthersFit
<1> QED BY <1>1, <1>2 DEF MigrationsFit, MigratorFits, DatabaseFits, MigratorSet

LEMMA ConnectFits ==
    ASSUME MigrationsFit, NEW m \in Migrators, NEW target \in {"head", "0001", "base"},
           Connect(m, target)
    PROVE  MigrationsFit'
<1>1. /\ migr \in [Migrators -> MigratorSet] /\ migr[m] \in MigratorSet
      /\ migr[m].phase \in {"idle", "done", "failed"} /\ UNCHANGED <<db, locks>>
      /\ DatabaseFits /\ LocksHeld /\ WorkFits(m)
  BY DEF MigrationsFit, MigratorFits, MigratorSet, Connect
<1>2. migr' = [migr EXCEPT ![m] = [migr[m] EXCEPT !.phase = "begin", !.target = target]]
  BY <1>1 DEF Connect
<1>3. [migr[m] EXCEPT !.phase = "begin", !.target = target] \in MigratorSet
  BY <1>1 DEF MigratorSet, MigrationPhases
<1>4. /\ migr' \in [Migrators -> MigratorSet]
      /\ migr'[m].phase = "begin" /\ migr'[m].work = migr[m].work
      /\ \A n \in Migrators \ {m} : migr'[n] = migr[n]
  BY <1>1, <1>2, <1>3 DEF MigratorSet
<1>5. LocksHeld'
  BY <1>1, <1>4 DEF LocksHeld
<1>6. \A n \in Migrators \ {m} : WorkFits(n)'
  BY <1>1, <1>4, OthersFit DEF VersionHeld
<1>7. WorkFits(m)'
  BY <1>1, <1>4 DEF WorkFits, VersionHeld
<1> QED BY <1>1, <1>4, <1>5, <1>6, <1>7 DEF MigrationsFit, MigratorFits, DatabaseFits, MigratorSet

LEMMA BeginFits ==
    ASSUME MigrationsFit, NEW m \in Migrators, Begin(m)
    PROVE  MigrationsFit'
<1>1. LocksHeld /\ MigratorFits /\ migr[m].phase = "begin" /\ "plan" \in MigrationPhases
  BY DEF MigrationsFit, Begin, MigrationPhases
<1>2. ASSUME Goto(m, "plan", Blank), UNCHANGED db,
             UNCHANGED locks \/ (VersionFree(m) /\ locks' = [locks EXCEPT !.version = m])
      PROVE  MigrationsFit'
  <2>1. /\ migr'[m].phase = "plan" /\ migr'[m].work = Blank
        /\ \A n \in Migrators \ {m} : migr'[n] = migr[n]
    BY <1>1, <1>2, BlankFits, GotoMoves
  <2>2. LocksHeld'
    BY <1>1, <1>2, <2>1, MigrationsAssumption DEF LocksHeld, VersionFree
  <2>3. WorkFits(m)'
    BY <2>1, BlankFits DEF WorkFits
  <2>4. \A n \in Migrators \ {m} :
           (locks'.tables = n <=> locks.tables = n) /\ (VersionHeld(n)' <=> VersionHeld(n))
    BY <1>1, <1>2, MigrationsAssumption DEF LocksHeld, VersionFree, VersionHeld
  <2> QED BY <1>1, <1>2, <2>2, <2>3, <2>4, BlankFits, OnFits
<1>3. CASE /\ SafeOperators /\ VersionTableExists
           /\ VersionFree(m) /\ SafeVersionTable /\ KnownRevision
           /\ Goto(m, "plan", Blank)
           /\ locks' = [locks EXCEPT !.version = m]
           /\ UNCHANGED db
  BY <1>2, <1>3
<1>4. CASE /\ SafeOperators /\ ~ VersionTableExists /\ SafeBootstrapSchema
           /\ Goto(m, "plan", Blank)
           /\ UNCHANGED <<db, locks>>
  BY <1>2, <1>4
<1>5. CASE Fails(m)
  BY <1>5, FailsFits
<1> QED BY <1>3, <1>4, <1>5 DEF Begin

LEMMA PlanFits ==
    ASSUME MigrationsFit, NEW m \in Migrators, Plan(m)
    PROVE  MigrationsFit'
<1>1. /\ LocksHeld /\ MigratorFits /\ DatabaseFits /\ migr[m].phase = "plan" /\ UNCHANGED db
      /\ "create" \in MigrationPhases /\ "step" \in MigrationPhases /\ locks.tables # m
  BY DEF MigrationsFit, Plan, MigrationPhases, LocksHeld
<1>2. CASE Goto(m, "create", Blank) /\ UNCHANGED locks
  <2>1. /\ migr'[m].phase = "create" /\ migr'[m].work = Blank
        /\ \A n \in Migrators \ {m} : migr'[n] = migr[n]
    BY <1>1, <1>2, BlankFits, GotoMoves
  <2>2. LocksHeld'
    BY <1>1, <1>2, <2>1 DEF LocksHeld
  <2>3. WorkFits(m)'
    BY <2>1, BlankFits DEF WorkFits
  <2>4. \A n \in Migrators \ {m} :
           (locks'.tables = n <=> locks.tables = n) /\ (VersionHeld(n)' <=> VersionHeld(n))
    BY <1>2 DEF VersionHeld
  <2> QED BY <1>1, <1>2, <2>2, <2>3, <2>4, BlankFits, OnFits
<1>3. CASE /\ VersionTableExists
           /\ Goto(m, "step", [Blank EXCEPT !.version = db.version])
           /\ locks' = [locks EXCEPT !.readers = @ \cup {m}]
  <2> DEFINE w == [Blank EXCEPT !.version = db.version]
  <2>1. /\ w \in [version : Versions, tables : TableSets]
        /\ w.version = db.version /\ w.tables = Blank.tables
    BY <1>1, BlankFits DEF DatabaseFits
  <2>2. Goto(m, "step", w)
    BY <1>3
  <2> HIDE DEF w
  <2>3. /\ migr'[m].phase = "step" /\ migr'[m].work = w
        /\ \A n \in Migrators \ {m} : migr'[n] = migr[n]
    BY <1>1, <2>1, <2>2, GotoMoves
  <2>4. /\ locks'.tables = locks.tables /\ VersionHeld(m)'
        /\ \A n \in Migrators \ {m} : VersionHeld(n)' <=> VersionHeld(n)
    BY <1>1, <1>3 DEF LocksHeld, VersionHeld
  <2>5. LocksHeld'
    BY <1>1, <1>3, <2>3 DEF LocksHeld
  <2>6. WorkFits(m)'
    BY <1>1, <1>3, <2>1, <2>3, <2>4, BlankFits DEF WorkFits, VersionTableExists
  <2> QED BY <1>1, <2>1, <2>2, <2>4, <2>5, <2>6, OnFits
<1> QED BY <1>2, <1>3 DEF Plan

LEMMA CreateFits ==
    ASSUME MigrationsFit, NEW m \in Migrators, Create(m)
    PROVE  MigrationsFit'
<1>1. /\ LocksHeld /\ MigratorFits /\ DatabaseFits /\ migr[m].phase = "create"
      /\ "step" \in MigrationPhases /\ locks.tables # m
  BY DEF MigrationsFit, Create, MigrationPhases, LocksHeld
<1>2. CASE /\ Goto(m, "step", [Blank EXCEPT !.version = "empty"]) /\ UNCHANGED db
           /\ \/ /\ ~ VersionTableExists /\ VersionFree(m)
                 /\ locks' = [locks EXCEPT !.version = m]
              \/ VersionTableExists /\ UNCHANGED locks
  <2> DEFINE w == [Blank EXCEPT !.version = "empty"]
  <2>1. /\ w \in [version : Versions, tables : TableSets]
        /\ w.version = "empty" /\ w.tables = Blank.tables
    BY <1>1, BlankFits DEF Versions
  <2>2. Goto(m, "step", w)
    BY <1>2
  <2> HIDE DEF w
  <2>3. /\ migr'[m].phase = "step" /\ migr'[m].work = w
        /\ \A n \in Migrators \ {m} : migr'[n] = migr[n]
    BY <1>1, <2>1, <2>2, GotoMoves
  <2>4. /\ locks'.tables = locks.tables
        /\ \A n \in Migrators \ {m} : VersionHeld(n)' <=> VersionHeld(n)
    BY <1>1, <1>2, MigrationsAssumption DEF LocksHeld, VersionFree, VersionHeld
  <2>5. LocksHeld'
    BY <1>1, <1>2, <2>3, MigrationsAssumption DEF LocksHeld, VersionFree
  <2>6. WorkFits(m)'
    <3>1. db'.version = db.version /\ (VersionHeld(m)' \/ db.version # "absent")
      BY <1>1, <1>2 DEF LocksHeld, VersionHeld, VersionTableExists
    <3> QED BY <1>1, <2>1, <2>3, <2>4, <3>1, BlankFits DEF WorkFits, VersionHeld
  <2> QED BY <1>1, <1>2, <2>1, <2>2, <2>4, <2>5, <2>6, OnFits
<1>3. CASE Fails(m)
  BY <1>3, FailsFits
<1> QED BY <1>2, <1>3 DEF Create

\* A revision that went through: the tables are its own from here on.
LEMMA RevisedFits ==
    ASSUME MigrationsFit, NEW m \in Migrators, NEW to \in Versions, NEW t, RowsFit(t),
           migr[m].phase = "step", TablesFree(m), UNCHANGED db,
           Goto(m, "step", [version |-> to, tables |-> t]), locks' = [locks EXCEPT !.tables = m],
           to # "absent", t.exists <=> to \in {"0001", "0002"},
           IF migr[m].target = "head" THEN to # "empty" /\ (to = "0001" => ~ db.tables.exists)
                                      ELSE to # "0002",
           RowsKept(db.tables, t)
    PROVE  MigrationsFit'
<1> DEFINE w == [version |-> to, tables |-> t]
<1>1. LocksHeld /\ MigratorFits /\ "step" \in MigrationPhases
  BY DEF MigrationsFit, MigrationPhases
<1>2. w \in [version : Versions, tables : TableSets] /\ w.version = to /\ w.tables = t
  BY DEF RowsFit
<1>3. Goto(m, "step", w)
  OBVIOUS
<1> HIDE DEF w
<1>4. /\ migr'[m].phase = "step" /\ migr'[m].work = w /\ migr'[m].target = migr[m].target
      /\ \A n \in Migrators \ {m} : migr'[n] = migr[n]
  BY <1>1, <1>2, <1>3, GotoMoves
<1>5. /\ locks'.tables = m /\ locks'.version = locks.version /\ locks'.readers = locks.readers
      /\ \A n \in Migrators \ {m} :
            (locks'.tables = n <=> locks.tables = n) /\ (VersionHeld(n)' <=> VersionHeld(n))
  BY <1>1, MigrationsAssumption DEF LocksHeld, TablesFree, VersionHeld
<1>6. LocksHeld'
  BY <1>1, <1>4, <1>5, MigrationsAssumption DEF LocksHeld
<1>7. WorkFits(m)'
  BY <1>2, <1>4, <1>5 DEF WorkFits, Versions
<1> QED BY <1>1, <1>2, <1>3, <1>5, <1>6, <1>7, OnFits

\* What a migrator sees at a revision: the tables of the version the database is at.
LEMMA SeenFits ==
    ASSUME MigrationsFit, NEW m \in Migrators, migr[m].phase = "step"
    PROVE  /\ RowsFit(Seen(m)) /\ Revision(m) \in {"empty", "0001", "0002"}
           /\ migr[m].work.version # "empty" => Revision(m) = migr[m].work.version
           /\ Seen(m).exists <=> Revision(m) \in {"0001", "0002"}
           /\ locks.tables # m => Seen(m) = db.tables
           /\ locks.tables = m => RowsKept(db.tables, Seen(m))
BY DEF MigrationsFit, MigratorFits, DatabaseFits, WorkFits, Seen, Versions,
       Revision, VersionTableExists

LEMMA FoundationFits ==
    ASSUME MigrationsFit, NEW m \in Migrators, Foundation0001(m)
    PROVE  MigrationsFit'
<1>1. /\ migr[m].phase = "step" /\ migr[m].work.version = "empty" /\ TablesFree(m)
      /\ migr[m].target = "head" /\ DatabaseFits /\ WorkFits(m)
  BY DEF Foundation0001, Revise, MigrationsFit, MigratorFits
<1>2. CASE /\ ~ Seen(m).exists
           /\ Goto(m, "step", [version |-> "0001", tables |-> Foundation])
           /\ locks' = [locks EXCEPT !.tables = m] /\ UNCHANGED db
  <2>1. ~ db.tables.exists
    BY <1>1, <1>2 DEF WorkFits, Seen
  <2>2. RowsFit(Foundation) /\ Foundation.exists /\ RowsKept(db.tables, Foundation)
    BY <2>1, FirstRows DEF Foundation, RowsKept
  <2> QED BY <1>1, <1>2, <2>1, <2>2, RevisedFits DEF Versions
<1>3. CASE Fails(m)
  BY <1>3, FailsFits
<1> QED BY <1>2, <1>3 DEF Foundation0001, Revise

LEMMA UpgradeFits ==
    ASSUME MigrationsFit, NEW m \in Migrators, Upgrade0002(m)
    PROVE  MigrationsFit'
<1>1. /\ migr[m].phase = "step" /\ migr[m].work.version = "0001" /\ TablesFree(m)
      /\ migr[m].target = "head" /\ DatabaseFits /\ WorkFits(m)
  BY DEF Upgrade0002, Revise, MigrationsFit, MigratorFits
<1>2. CASE /\ MayUpgrade(Seen(m)) /\ (EventUniqueOwned(Seen(m)) \/ HashesUnique(Seen(m)))
           /\ Goto(m, "step", [version |-> "0002", tables |-> Upgraded(Seen(m))])
           /\ locks' = [locks EXCEPT !.tables = m] /\ UNCHANGED db
  <2> DEFINE s == Seen(m)
             t == Upgraded(s)
  <2>1. /\ RowsFit(s) /\ s.exists /\ s.analyses = {} /\ (EventUniqueOwned(s) \/ HashesUnique(s))
        /\ locks.tables # m => s = db.tables
        /\ Goto(m, "step", [version |-> "0002", tables |-> t])
    BY <1>1, <1>2, SeenFits DEF MayUpgrade, Empty
  <2>2. locks.tables = m => ~ db.tables.exists
    BY <1>1 DEF WorkFits
  <2> HIDE DEF s
  <2>3. /\ RowsFit(t) /\ t.exists = s.exists /\ t.analyses = s.analyses /\ t.events = s.events
        /\ \A r \in Runs : SameStatus(s.runs[r], t.runs[r])
    BY <2>1, UpgradedFields, UpgradedRows DEF RowsFit
  <2> HIDE DEF t
  <2>4. RowsKept(db.tables, t)
    BY <2>1, <2>2, <2>3 DEF RowsKept
  <2> QED BY <1>1, <1>2, <2>1, <2>3, <2>4, RevisedFits DEF Versions
<1>3. CASE Fails(m)
  BY <1>3, FailsFits
<1> QED BY <1>2, <1>3 DEF Upgrade0002, Revise

LEMMA DowngradeFits ==
    ASSUME MigrationsFit, NEW m \in Migrators, Downgrade0002(m)
    PROVE  MigrationsFit'
<1>1. /\ migr[m].phase = "step" /\ migr[m].work.version = "0002" /\ TablesFree(m)
      /\ migr[m].target # "head" /\ DatabaseFits /\ WorkFits(m)
  BY DEF Downgrade0002, Revise, MigrationsFit, MigratorFits
<1>2. CASE /\ MayDowngrade(Seen(m))
           /\ Goto(m, "step", [version |-> "0001", tables |-> Downgraded(Seen(m))])
           /\ locks' = [locks EXCEPT !.tables = m] /\ UNCHANGED db
  <2> DEFINE s == Seen(m)
             t == Downgraded(s)
  <2>1. /\ RowsFit(s) /\ s.exists /\ s.analyses = {} /\ s.vocabulary = "head"
        /\ locks.tables # m => s = db.tables
        /\ Goto(m, "step", [version |-> "0001", tables |-> t])
    BY <1>1, <1>2, SeenFits DEF MayDowngrade, Empty, HeadShape, ChecksValid, RunChecks
  <2>2. locks.tables # m
    BY <1>1 DEF WorkFits
  <2> HIDE DEF s
  <2>3. /\ RowsFit(t) /\ t.exists = s.exists /\ t.analyses = s.analyses /\ t.events = s.events
        /\ \A r \in Runs : SameStatus(s.runs[r], t.runs[r])
    BY <2>1, DowngradedFields
  <2> HIDE DEF t
  <2>4. RowsKept(db.tables, t)
    BY <2>1, <2>2, <2>3 DEF RowsKept
  <2> QED BY <1>1, <1>2, <2>1, <2>3, <2>4, RevisedFits DEF Versions
<1>3. CASE Fails(m)
  BY <1>3, FailsFits
<1> QED BY <1>2, <1>3 DEF Downgrade0002, Revise

LEMMA DropFits ==
    ASSUME MigrationsFit, NEW m \in Migrators, Drop0001(m)
    PROVE  MigrationsFit'
<1>1. /\ migr[m].phase = "step" /\ TablesFree(m) /\ migr[m].target = "base"
  BY DEF Drop0001, Revise
<1>2. CASE /\ Goto(m, "step", [version |-> "empty", tables |-> NoTables])
           /\ locks' = [locks EXCEPT !.tables = m] /\ UNCHANGED db
  <2>1. RowsFit(NoTables) /\ ~ NoTables.exists /\ RowsKept(db.tables, NoTables)
    BY FirstRows DEF NoTables, Foundation, RowsKept
  <2> QED BY <1>1, <1>2, <2>1, RevisedFits DEF Versions
<1>3. CASE Fails(m)
  BY <1>3, FailsFits
<1> QED BY <1>2, <1>3 DEF Drop0001, Revise

\* The commit: no other migrator holds the version table, so the work of one that has
\* not locked the tables starts from no revision.
LEMMA FinishFits ==
    ASSUME MigrationsFit, NEW m \in Migrators, Finish(m)
    PROVE  MigrationsFit'
<1>1. /\ DatabaseFits /\ LocksHeld /\ MigratorFits /\ migr[m].phase = "step" /\ VersionFree(m)
      /\ "done" \in MigrationPhases
  BY DEF MigrationsFit, Finish, MigrationPhases
<1>2. CASE End(m, "done") /\ db' = [db EXCEPT !.version = Revision(m), !.tables = Seen(m)]
  <2>1. /\ locks' = [version |-> IF locks.version = m THEN Nobody ELSE locks.version,
                     readers |-> locks.readers \ {m},
                     tables |-> IF locks.tables = m THEN Nobody ELSE locks.tables]
        /\ Goto(m, "done", Blank)
    BY <1>2 DEF End
  <2>2. /\ migr' \in [Migrators -> MigratorSet]
        /\ migr'[m].phase = "done" /\ migr'[m].work = Blank
        /\ \A n \in Migrators \ {m} : migr'[n] = migr[n]
    BY <1>1, <2>1, BlankFits, GotoMoves
  <2>3. LocksHeld'
    BY <1>1, <2>1, <2>2, MigrationsAssumption DEF LocksHeld
  <2>4. /\ RowsFit(Seen(m)) /\ Revision(m) \in {"empty", "0001", "0002"}
        /\ Seen(m).exists <=> Revision(m) \in {"0001", "0002"}
        /\ locks.tables # m => Seen(m) = db.tables
    BY <1>1, SeenFits
  <2>5. \A n \in Migrators \ {m} : WorkFits(n)'
    <3>1. TAKE n \in Migrators \ {m}
    <3>2. /\ ~ VersionHeld(n) /\ ~ VersionHeld(n)'
          /\ locks'.tables = n <=> locks.tables = n
      BY <1>1, <2>1, MigrationsAssumption DEF VersionFree, VersionHeld
    <3>3. db'.version = Revision(m) /\ db'.tables = Seen(m)
      BY <1>1, <1>2 DEF DatabaseFits
    <3>4. WorkFits(n) /\ migr'[n] = migr[n]
      BY <1>1, <2>2 DEF MigratorFits
    <3>5. locks.tables = n => db'.tables = db.tables
      BY <2>4, <3>3
    <3> QED BY <2>4, <3>2, <3>3, <3>4, <3>5 DEF WorkFits, VersionHeld
  <2>6. WorkFits(m)'
    BY <2>2, BlankFits DEF WorkFits
  <2>7. DatabaseFits'
    BY <1>1, <1>2, <2>4 DEF DatabaseFits, RowsFit, Versions
  <2> QED BY <2>2, <2>3, <2>5, <2>6, <2>7 DEF MigrationsFit, MigratorFits, MigratorSet
<1>3. CASE Fails(m)
  BY <1>3, FailsFits
<1> QED BY <1>2, <1>3 DEF Finish

LEMMA MigratorStepFits ==
    ASSUME MigrationsFit, MigratorStep
    PROVE  MigrationsFit'
<1> PICK m \in Migrators :
        \/ \E target \in {"head", "0001", "base"} : Connect(m, target)
        \/ Begin(m) \/ Plan(m) \/ Create(m)
        \/ Foundation0001(m) \/ Upgrade0002(m) \/ Downgrade0002(m) \/ Drop0001(m)
        \/ Finish(m) \/ Crash(m)
  BY DEF MigratorStep
<1>1. CASE \E target \in {"head", "0001", "base"} : Connect(m, target)
  BY <1>1, ConnectFits
<1>2. CASE Begin(m) \/ Plan(m) \/ Create(m)
  BY <1>2, BeginFits, PlanFits, CreateFits
<1>3. CASE Foundation0001(m) \/ Upgrade0002(m) \/ Downgrade0002(m) \/ Drop0001(m)
  BY <1>3, FoundationFits, UpgradeFits, DowngradeFits, DropFits
<1>4. CASE Finish(m)
  BY <1>4, FinishFits
<1>5. CASE Crash(m)
  BY <1>5, FailsFits DEF Crash
<1> QED BY <1>1, <1>2, <1>3, <1>4, <1>5
-----------------------------------------------------------------------------
(* The application and the operator *)

\* While no migrator holds the tables, rows that fit may be stored.
LEMMA StoredFits ==
    ASSUME MigrationsFit, Writable, NEW t, RowsFit(t), t.exists,
           db' = [db EXCEPT !.tables = t], UNCHANGED <<locks, migr>>
    PROVE  MigrationsFit'
<1>1. DatabaseFits /\ LocksHeld /\ MigratorFits
  BY DEF MigrationsFit
<1>2. db'.tables = t /\ db'.version = db.version /\ DatabaseFits'
  BY <1>1 DEF DatabaseFits, RowsFit, Writable
<1>3. \A n \in Migrators : WorkFits(n)'
  BY <1>1, <1>2, MigrationsAssumption DEF MigratorFits, WorkFits, VersionHeld, Writable
<1> QED BY <1>1, <1>2, <1>3 DEF MigrationsFit, LocksHeld, MigratorFits

LEMMA StoreRunFits ==
    ASSUME MigrationsFit, NEW r \in Runs, NEW s \in BaselineStatuses \cup HeadStatuses,
           StoreRun(r, s), UNCHANGED <<locks, migr>>
    PROVE  MigrationsFit'
<1> DEFINE runs == [db.tables.runs EXCEPT ![r] = s]
           t == [db.tables EXCEPT !.runs = runs]
<1>1. /\ RowsFit(db.tables) /\ db.tables \in TableSets /\ db.tables.runs \in [Runs -> Statuses]
      /\ db \in [version : Versions, tables : TableSets,
                 faults : SUBSET (TableFaults \cup Tolerated \cup DatabaseFaults)]
  BY DEF MigrationsFit, DatabaseFits, TableSets
<1>2. runs \in [Runs -> Statuses]
  BY <1>1 DEF Statuses
<1>3. /\ t \in TableSets /\ t.runs = runs /\ t.exists = db.tables.exists
      /\ t.events = db.tables.events /\ t.vocabulary = db.tables.vocabulary
      /\ t.unique = db.tables.unique
  BY <1>1, <1>2 DEF TableSets
<1>4. \A q \in Runs : runs[q] \in StatusesOf(db.tables.vocabulary) \cup {"absent"}
  BY <1>1 DEF StoreRun, RowsFit
<1>5. db' = [db EXCEPT !.tables = t]
  BY <1>1 DEF StoreRun
<1> HIDE DEF runs, t
<1>6. RowsFit(t) /\ t.exists
  BY <1>1, <1>3, <1>4 DEF RowsFit, HashesUnique, StoreRun, Writable
<1> QED BY <1>5, <1>6, StoredFits DEF StoreRun

LEMMA StoreEventFits ==
    ASSUME MigrationsFit, NEW r \in Runs, NEW h \in Hashes,
           StoreEvent(r, h), UNCHANGED <<locks, migr>>
    PROVE  MigrationsFit'
<1> DEFINE chain == Append(db.tables.events[r], h)
           events == [db.tables.events EXCEPT ![r] = chain]
           t == [db.tables EXCEPT !.events = events]
<1>1. /\ RowsFit(db.tables) /\ db.tables \in TableSets
      /\ db.tables.events \in [Runs -> Seq(Hashes)] /\ db.tables.events[r] \in Seq(Hashes)
      /\ db \in [version : Versions, tables : TableSets,
                 faults : SUBSET (TableFaults \cup Tolerated \cup DatabaseFaults)]
  BY DEF MigrationsFit, DatabaseFits, TableSets
<1>2. chain \in Seq(Hashes) /\ events \in [Runs -> Seq(Hashes)]
  BY <1>1
<1>3. /\ t \in TableSets /\ t.events = events /\ t.exists = db.tables.exists
      /\ t.runs = db.tables.runs /\ t.vocabulary = db.tables.vocabulary
      /\ t.unique = db.tables.unique
  BY <1>1, <1>2 DEF TableSets
<1>4. db' = [db EXCEPT !.tables = t]
  BY <1>1 DEF StoreEvent
<1>5. ASSUME db.tables.unique = "owned"
      PROVE  HashesUnique(t)
  <2>1. HashesUnique(db.tables)
    BY <1>1, <1>5 DEF RowsFit
  <2>2. \A k \in DOMAIN db.tables.events[r] : db.tables.events[r][k] # h
    BY <1>5 DEF StoreEvent
  <2>3. \A j, k \in DOMAIN chain : chain[j] = chain[k] => j = k
    <3> SUFFICES ASSUME NEW j \in DOMAIN chain, NEW k \in DOMAIN chain, chain[j] = chain[k]
                 PROVE  j = k
      OBVIOUS
    <3> DEFINE old == db.tables.events[r]
    <3>1. /\ DOMAIN old = 1..Len(old) /\ Len(old) \in Nat /\ DOMAIN chain = 1..(Len(old) + 1)
          /\ chain[Len(old) + 1] = h /\ \A i \in DOMAIN old : chain[i] = old[i]
      BY <1>1
    <3>2. \A a, b \in DOMAIN old : old[a] = old[b] => a = b
      BY <2>1 DEF HashesUnique
    <3> HIDE DEF chain, old
    <3>3. \A a \in DOMAIN old : old[a] # h
      BY <2>2 DEF old
    <3>4. \A a \in DOMAIN chain : a \in DOMAIN old \/ a = Len(old) + 1
      BY <3>1
    <3> QED BY <3>1, <3>2, <3>3, <3>4
  <2>4. events[r] = chain /\ \A q \in Runs \ {r} : events[q] = db.tables.events[q]
    BY <1>1
  <2> HIDE DEF chain, events, t
  <2> QED BY <1>3, <2>1, <2>3, <2>4 DEF HashesUnique
<1> HIDE DEF chain, events, t
<1>6. RowsFit(t) /\ t.exists
  BY <1>1, <1>3, <1>5 DEF RowsFit, StoreEvent, Writable
<1> QED BY <1>4, <1>6, StoredFits DEF StoreEvent

LEMMA AnalysesFit ==
    ASSUME MigrationsFit, Writable, NEW a \in SUBSET Runs,
           db' = [db EXCEPT !.tables.analyses = a], UNCHANGED <<locks, migr>>
    PROVE  MigrationsFit'
<1> DEFINE t == [db.tables EXCEPT !.analyses = a]
<1>1. /\ RowsFit(db.tables) /\ db.tables \in TableSets
      /\ db \in [version : Versions, tables : TableSets,
                 faults : SUBSET (TableFaults \cup Tolerated \cup DatabaseFaults)]
  BY DEF MigrationsFit, DatabaseFits
<1>2. /\ t \in TableSets /\ t.exists = db.tables.exists /\ t.events = db.tables.events
      /\ t.runs = db.tables.runs /\ t.vocabulary = db.tables.vocabulary
      /\ t.unique = db.tables.unique
  BY <1>1 DEF TableSets
<1>3. db' = [db EXCEPT !.tables = t]
  BY <1>1
<1> HIDE DEF t
<1>4. RowsFit(t) /\ t.exists
  BY <1>1, <1>2 DEF RowsFit, HashesUnique, Writable
<1> QED BY <1>3, <1>4, StoredFits

LEMMA AlterFits ==
    ASSUME MigrationsFit, NEW f \in TableFaults \cup Tolerated \cup DatabaseFaults, Alter(f),
           UNCHANGED <<locks, migr>>
    PROVE  MigrationsFit'
<1>1. DatabaseFits /\ LocksHeld /\ MigratorFits
  BY DEF MigrationsFit
<1>2. DatabaseFits' /\ db'.tables = db.tables /\ db'.version = db.version
  BY <1>1 DEF DatabaseFits, Alter
<1>3. \A n \in Migrators : WorkFits(n)'
  BY <1>1, <1>2 DEF MigratorFits, WorkFits, VersionHeld
<1> QED BY <1>1, <1>2, <1>3 DEF MigrationsFit, LocksHeld, MigratorFits

LEMMA EnvironmentFits ==
    ASSUME MigrationsFit, Environment
    PROVE  MigrationsFit'
<1>1. db.tables.analyses \in SUBSET Runs
  BY DEF MigrationsFit, DatabaseFits, TableSets
<1>2. \A r \in Runs : StoreAnalysis(r) =>
         Writable /\ db' = [db EXCEPT !.tables.analyses = db.tables.analyses \cup {r}]
  BY DEF StoreAnalysis
<1>3. UNCHANGED <<locks, migr>>
  BY DEF Environment
<1>4. ASSUME NEW r \in Runs, StoreAnalysis(r)
      PROVE  MigrationsFit'
  <2> DEFINE a == db.tables.analyses \cup {r}
  <2>1. a \in SUBSET Runs /\ Writable /\ db' = [db EXCEPT !.tables.analyses = a]
    BY <1>1, <1>2, <1>4
  <2> HIDE DEF a
  <2> QED BY <1>3, <2>1, AnalysesFit
<1>5. Export => MigrationsFit'
  BY <1>3, AnalysesFit DEF Export
<1> QED BY <1>3, <1>4, <1>5, StoreRunFits, StoreEventFits, AlterFits DEF Environment
-----------------------------------------------------------------------------
(* From the first step on, and the two properties *)

LEMMA AppliedFits == \A t \in Applied : RowsFit(t) /\ t.exists
<1> SUFFICES ASSUME NEW t \in Applied
             PROVE  RowsFit(t) /\ t.exists
  OBVIOUS
<1>1. Foundation \in TableSets
  BY FirstRows DEF RowsFit
<1>2. /\ t \in TableSets /\ t.exists /\ t.runs = Foundation.runs /\ t.events = Foundation.events
  <2>1. CASE t \in {[Foundation EXCEPT !.digest = d, !.unique = u] :
                       d \in {"none", "result_sha256"}, u \in {"absent", "owned", "other"}}
    <3> PICK d \in {"none", "result_sha256"}, u \in {"absent", "owned", "other"} :
           t = [Foundation EXCEPT !.digest = d, !.unique = u]
      BY <2>1
    <3> QED BY <1>1 DEF TableSets, Foundation
  <2>2. CASE t \in {[Foundation EXCEPT !.payload = "sanitized_result", !.digest = d,
                                        !.unique = "owned", !.vocabulary = v] :
                       d \in {"none", "sanitized_result_sha256", "result_sha256"},
                       v \in {"baseline", "head"}}
    <3> PICK d \in {"none", "sanitized_result_sha256", "result_sha256"},
             v \in {"baseline", "head"} :
           t = [Foundation EXCEPT !.payload = "sanitized_result", !.digest = d,
                                  !.unique = "owned", !.vocabulary = v]
      BY <2>2
    <3> QED BY <1>1 DEF TableSets, Foundation
  <2>3. CASE t = [Foundation EXCEPT !.payload = "both"]
    BY <1>1, <2>3 DEF TableSets, Foundation
  <2> QED BY <2>1, <2>2, <2>3 DEF Applied
<1>3. /\ \A r \in Runs : t.runs[r] = "absent"
      /\ \A r \in Runs : t.events[r] = <<>>
  BY <1>2 DEF Foundation
<1> QED BY <1>2, <1>3 DEF RowsFit, HashesUnique

LEMMA MigrationInit == InitMigrations => MigrationsFit
<1> SUFFICES ASSUME InitMigrations
             PROVE  MigrationsFit
  OBVIOUS
<1>1. /\ locks = [version |-> Nobody, readers |-> {}, tables |-> Nobody]
      /\ migr = [m \in Migrators |-> [phase |-> "idle", target |-> "head", work |-> Blank]]
  BY DEF InitMigrations
<1>2. DatabaseFits
  <2>1. CASE db \in [version : {"absent"}, tables : {NoTables}, faults : {{}}]
    BY <2>1, FirstRows DEF DatabaseFits, RowsFit, NoTables, Foundation, Versions
  <2>2. CASE db \in [version : {"0001"}, tables : Applied, faults : {{}}]
    BY <2>2, AppliedFits DEF DatabaseFits, RowsFit, Versions
  <2> QED BY <2>1, <2>2 DEF InitMigrations
<1>3. LocksHeld
  BY <1>1, MigrationsAssumption DEF LocksHeld
<1>4. MigratorFits
  BY <1>1, BlankFits DEF MigratorFits, WorkFits, MigrationPhases
<1> QED BY <1>2, <1>3, <1>4 DEF MigrationsFit

\* Nobody reports success and the schema stays, unless a migrator commits.
LEMMA NotDone ==
    ASSUME MigrationsFit, UNCHANGED db,
           \A n \in Migrators : migr'[n].phase = "done" => migr[n].phase = "done"
    PROVE  WholeStep
BY DEF WholeStep

LEMMA StepsWhole ==
    ASSUME MigrationsFit, NEW m \in Migrators,
           \/ Fails(m)
           \/ UNCHANGED db /\ \E p \in MigrationPhases \ {"done"} : \E w : Goto(m, p, w)
    PROVE  WholeStep
<1>1. PICK p \in MigrationPhases \ {"done"} : \E w : Goto(m, p, w)
  BY DEF Fails, End, MigrationPhases
<1>2. PICK w : Goto(m, p, w)
  BY <1>1
<1>3. migr \in [Migrators -> MigratorSet] /\ migr[m] \in MigratorSet
  BY DEF MigrationsFit, MigratorFits, MigratorSet
<1>4. migr' = [migr EXCEPT ![m] = [migr[m] EXCEPT !.phase = p, !.work = w]]
  BY <1>2, <1>3 DEF Goto
<1>5. [migr[m] EXCEPT !.phase = p, !.work = w].phase = p
  BY <1>3 DEF MigratorSet
<1>6. \A n \in Migrators : migr'[n].phase = "done" => migr[n].phase = "done"
  BY <1>3, <1>4, <1>5
<1>7. UNCHANGED db
  BY DEF Fails
<1> QED BY <1>6, <1>7, NotDone

\* What the last checks leave of the operator's alterations.
LEMMA HeadIsClean ==
    ASSUME MigrationsFit, NEW t, HeadContract(t), SafeVersionTable, KnownRevision
    PROVE  db.faults \subseteq Tolerated \cup {"operator", "open_schema"}
<1>1. db.faults \subseteq TableFaults \cup Tolerated \cup DatabaseFaults
  BY DEF MigrationsFit, DatabaseFits
<1>2. \A f \in TableFaults : f \notin db.faults
  BY DEF HeadContract, Guarded, HeadShape, StaticSchema, OrdinaryUnprotected, InboundContract,
         NoActiveTriggers, NoCustomChecks, TrustedExpressions, ChecksValid, RunChecks, EventChecks,
         AnalysisChecks, ColumnsMatch, OwnKeys, IndexesMatch, AllIndexesTrusted, None, TableFaults
<1>3. \A f \in {"version_table", "version_key", "version_rows"} : f \notin db.faults
  BY DEF SafeVersionTable, OrdinaryVersionTable, OrdinaryVersionKey, KnownRevision, None
<1> QED BY <1>1, <1>2, <1>3 DEF DatabaseFaults

LEMMA FinishWhole ==
    ASSUME MigrationsFit, MigrationsFit', NEW m \in Migrators, Finish(m)
    PROVE  WholeStep
<1>1. CASE Fails(m)
  BY <1>1, StepsWhole
<1>2. CASE /\ SafeVersionTable /\ KnownRevision
           /\ Revision(m) = "0002" => HeadContract(Seen(m))
           /\ db' = [db EXCEPT !.version = Revision(m), !.tables = Seen(m)]
           /\ End(m, "done")
  <2> DEFINE s == Seen(m)
  <2>1. /\ migr[m].phase = "step" /\ Planned(m)
        /\ DatabaseFits /\ MigratorFits /\ WorkFits(m) /\ "done" \in MigrationPhases
    BY DEF Finish, MigrationsFit, MigratorFits, MigrationPhases
  <2>2. /\ migr'[m].phase = "done"
        /\ \A n \in Migrators \ {m} : migr'[n] = migr[n]
    BY <1>2, <2>1, BlankFits, GotoMoves DEF End
  <2>3. /\ db'.version = Revision(m) /\ db'.tables = s /\ db'.faults = db.faults
    BY <1>2, <2>1 DEF DatabaseFits
  <2>4. ASSUME migr[m].target = "head"
        PROVE  /\ Schema(db') = <<"0002", TRUE, "sanitized_result", "sanitized_result_sha256",
                                  "head", "owned">>
               /\ db'.faults \subseteq Tolerated \cup {"operator", "open_schema"}
               /\ \A r \in Runs : db'.tables.runs[r] \in HeadStatuses \cup {"absent"}
               /\ HashesUnique(db'.tables)
    <3>1. Revision(m) = "0002" /\ HeadContract(s)
      BY <1>2, <2>1, <2>4, SeenFits DEF Planned
    <3>2. /\ RowsFit(s) /\ s.exists
      BY <2>1, <3>1, SeenFits
    <3> HIDE DEF s
    <3>3. /\ s.payload = "sanitized_result" /\ s.digest = "sanitized_result_sha256"
          /\ s.vocabulary = "head" /\ s.unique = "owned" /\ s.exists = TRUE
      BY <3>1, <3>2 DEF HeadContract, HeadShape, ChecksValid, RunChecks, EventUniqueOwned, RowsFit,
                        TableSets
    <3>4. Schema(db') = <<"0002", TRUE, "sanitized_result", "sanitized_result_sha256",
                          "head", "owned">>
      BY <2>3, <3>1, <3>3 DEF Schema
    <3>5. db'.faults \subseteq Tolerated \cup {"operator", "open_schema"}
      BY <1>2, <2>3, <3>1, HeadIsClean
    <3> QED BY <2>3, <3>2, <3>3, <3>4, <3>5 DEF RowsFit, StatusesOf
  <2>5. ASSUME Schema(db') # Schema(db), db.tables.exists, db'.tables.exists
        PROVE  RowsKept(db.tables, s)
    <3>1. CASE locks.tables = m
      BY <2>1, <3>1, SeenFits
    <3>2. CASE locks.tables # m
      <4>1. s = db.tables
        BY <2>1, <3>2, SeenFits
      <4>2. db.version # "absent"
        BY <2>1, <2>5 DEF DatabaseFits
      <4>3. db'.version = db.version
        BY <2>3, <3>2, <4>2 DEF Revision, VersionTableExists
      <4> QED BY <2>3, <2>5, <4>1, <4>3 DEF Schema
    <3> QED BY <3>1, <3>2
  <2> HIDE DEF s
  <2>6. migr[m].phase # "done"
    BY <2>1
  <2> QED BY <2>2, <2>3, <2>4, <2>5, <2>6 DEF WholeStep, RowsKept
<1> QED BY <1>1, <1>2 DEF Finish

LEMMA MigratorWhole ==
    ASSUME MigrationsFit, MigrationsFit', MigratorStep
    PROVE  WholeStep
<1> PICK m \in Migrators :
        \/ \E target \in {"head", "0001", "base"} : Connect(m, target)
        \/ Begin(m) \/ Plan(m) \/ Create(m)
        \/ Foundation0001(m) \/ Upgrade0002(m) \/ Downgrade0002(m) \/ Drop0001(m)
        \/ Finish(m) \/ Crash(m)
  BY DEF MigratorStep
<1>1. ASSUME NEW target \in {"head", "0001", "base"}, Connect(m, target)
      PROVE  WholeStep
  <2>1. migr \in [Migrators -> MigratorSet] /\ migr[m] \in MigratorSet /\ UNCHANGED db
    BY <1>1 DEF MigrationsFit, MigratorFits, MigratorSet, Connect
  <2>2. migr' = [migr EXCEPT ![m] = [migr[m] EXCEPT !.phase = "begin", !.target = target]]
    BY <1>1, <2>1 DEF Connect
  <2>3. [migr[m] EXCEPT !.phase = "begin", !.target = target].phase = "begin"
    BY <2>1 DEF MigratorSet
  <2>4. \A n \in Migrators : migr'[n].phase = "done" => migr[n].phase = "done"
    BY <2>1, <2>2, <2>3
  <2> QED BY <2>1, <2>4, NotDone
<1>2. CASE Begin(m)
  BY <1>2, StepsWhole DEF Begin, MigrationPhases
<1>3. CASE Plan(m)
  BY <1>3, StepsWhole DEF Plan, MigrationPhases
<1>4. CASE Create(m)
  BY <1>4, StepsWhole DEF Create, MigrationPhases
<1>5. CASE Foundation0001(m)
  BY <1>5, StepsWhole DEF Foundation0001, Revise, MigrationPhases
<1>6. CASE Upgrade0002(m)
  BY <1>6, StepsWhole DEF Upgrade0002, Revise, MigrationPhases
<1>7. CASE Downgrade0002(m)
  BY <1>7, StepsWhole DEF Downgrade0002, Revise, MigrationPhases
<1>8. CASE Drop0001(m)
  BY <1>8, StepsWhole DEF Drop0001, Revise, MigrationPhases
<1>9. CASE Finish(m)
  BY <1>9, FinishWhole
<1>10. CASE Crash(m)
  BY <1>10, StepsWhole DEF Crash
<1> QED BY <1>1, <1>2, <1>3, <1>4, <1>5, <1>6, <1>7, <1>8, <1>9, <1>10

LEMMA EnvironmentWhole ==
    ASSUME MigrationsFit, Environment
    PROVE  WholeStep
<1>1. /\ db.tables \in TableSets
      /\ db \in [version : Versions, tables : TableSets,
                 faults : SUBSET (TableFaults \cup Tolerated \cup DatabaseFaults)]
  BY DEF MigrationsFit, DatabaseFits
<1>2. ASSUME NEW r \in Runs, NEW s, StoreRun(r, s)
      PROVE  Schema(db') = Schema(db)
  BY <1>1, <1>2 DEF StoreRun, Schema, TableSets
<1>3. ASSUME NEW r \in Runs, NEW h, StoreEvent(r, h)
      PROVE  Schema(db') = Schema(db)
  BY <1>1, <1>3 DEF StoreEvent, Schema, TableSets
<1>4. ASSUME NEW r \in Runs, StoreAnalysis(r)
      PROVE  Schema(db') = Schema(db)
  BY <1>1, <1>4 DEF StoreAnalysis, Schema, TableSets
<1>5. ASSUME Export
      PROVE  Schema(db') = Schema(db)
  BY <1>1, <1>5 DEF Export, Schema, TableSets
<1>6. ASSUME NEW f, Alter(f)
      PROVE  Schema(db') = Schema(db)
  BY <1>1, <1>6 DEF Alter, Schema
<1>7. Schema(db') = Schema(db) /\ UNCHANGED migr
  BY <1>2, <1>3, <1>4, <1>5, <1>6 DEF Environment
<1> QED BY <1>7 DEF WholeStep
\* One part moves, the other rests.
LEMMA StepFits ==
    ASSUME MigrationsFit, ProvisionFits, [DeploymentStep]_deploymentVars
    PROVE  MigrationsFit' /\ ProvisionFits'
<1>1. CASE UNCHANGED migrationVars /\ UNCHANGED provisionVars
  <2>1. MigrationsFit'
    BY <1>1 DEF migrationVars, MigrationsFit, DatabaseFits, LocksHeld, MigratorFits, WorkFits,
                VersionHeld
  <2>2. \A i \in Invocations : InvocationFits(i) => InvocationFits(i)'
    BY <1>1 DEF provisionVars, InvocationFits, Owned, Complete
  <2>3. ProvisionTyped' /\ NobodyShares' /\ EarlierStays' /\ ManifestHolds'
    BY <1>1 DEF provisionVars, ProvisionFits, ProvisionTyped, NobodyShares, EarlierStays,
                ManifestHolds, Withdrawn, Lost, Owned
  <2> QED BY <2>1, <2>2, <2>3 DEF ProvisionFits
<1>2. CASE (MigratorStep \/ Environment) /\ UNCHANGED provisionVars
  <2>1. MigrationsFit'
    BY <1>2, MigratorStepFits, EnvironmentFits
  <2>2. \A i \in Invocations : InvocationFits(i) => InvocationFits(i)'
    BY <1>2 DEF provisionVars, InvocationFits, Owned, Complete
  <2>3. ProvisionTyped' /\ NobodyShares' /\ EarlierStays' /\ ManifestHolds'
    BY <1>2 DEF provisionVars, ProvisionFits, ProvisionTyped, NobodyShares, EarlierStays,
                ManifestHolds, Withdrawn, Lost, Owned
  <2> QED BY <2>1, <2>2, <2>3 DEF ProvisionFits
<1>3. CASE ScriptStep /\ UNCHANGED migrationVars
  <2>1. MigrationsFit'
    BY <1>3 DEF migrationVars, MigrationsFit, DatabaseFits, LocksHeld, MigratorFits, WorkFits,
                VersionHeld
  <2> QED BY <1>3, <2>1, ScriptStepFits
<1> QED BY <1>1, <1>2, <1>3 DEF DeploymentStep, deploymentVars, migrationVars, provisionVars

\* Under every interleaving of migrators, application, operator and provisioning runs,
\* each killed anywhere: the schema is that of the recorded version and the rows fit it,
\* open work is under the locks that protect it, what an invocation owns is whole and
\* nobody else's, and a manifest names a complete set.
THEOREM DeploymentInvariant == DeploymentSpec => [](MigrationsFit /\ ProvisionFits)
<1>1. InitDeployment => MigrationsFit /\ ProvisionFits
  BY MigrationInit, ProvisionInit DEF InitDeployment
<1>2. MigrationsFit /\ ProvisionFits /\ [DeploymentStep]_deploymentVars
         => MigrationsFit' /\ ProvisionFits'
  BY StepFits
<1> QED BY <1>1, <1>2, PTL DEF DeploymentSpec

\* A migration is whole or did not happen (storage/migrations): the head it reports is
\* the head, version and schema change only at a commit, and rows survive it.
THEOREM MigrationsAreWhole == DeploymentSpec => MigrationWhole
<1>1. MigrationsFit /\ MigrationsFit' /\ [DeploymentStep]_deploymentVars
         => [WholeStep]_<<db, locks, migr>>
  BY MigratorWhole, EnvironmentWhole DEF DeploymentStep, deploymentVars, migrationVars
<1> QED BY <1>1, DeploymentInvariant, PTL DEF DeploymentSpec, MigrationWhole

\* A published manifest is verified (scripts/provision_speech_models.py): it names
\* reviewed artifacts, and no invocation removes what another has published.
THEOREM PublishedSetsAreVerified == DeploymentSpec => PublishedIsVerified
<1>1. ProvisionFits /\ ProvisionFits' /\ [DeploymentStep]_deploymentVars
         => [PublishedStep]_<<disk, pinned, script>>
  BY ScriptPublishes DEF DeploymentStep, deploymentVars, provisionVars
<1> QED BY <1>1, DeploymentInvariant, PTL DEF DeploymentSpec, PublishedIsVerified
-----------------------------------------------------------------------------
(* The speech service *)

USE RequestsAssumption, StreamsAssumption, DisjointAssumption,
    MaxConcurrencyAssumption, QueueCapacityAssumption, CudaAssumption

\* A thread is alive exactly while its worker awaits it inside the slot.
ThreadsRun == threads = {r \in Requests : worker[r] = "running"}

\* A body is uploaded before there is a worker.
UploadFirst == \A r \in Requests : client[r] = "uploading" => worker[r] = "none"

\* No worker exists before the warm-up is over.
WarmupFirst ==
    /\ ~Cuda => warmup = "over"
    /\ warmed => warmup = "over"
    /\ warmup # "over" => \A r \in Requests : worker[r] = "none"

IInv == /\ TypeOK /\ AdmissionExact /\ SlotsExact
        /\ ThreadsRun /\ UploadFirst /\ WarmupFirst

-----------------------------------------------------------------------------
(* The accounting, independent of which action does it *)

\* Admissions and slots are finite sets.
LEMMA HoldersFinite ==
    /\ IsFiniteSet(Admitted) /\ Cardinality(Admitted) \in Nat
    /\ IsFiniteSet(SlotHolders) /\ Cardinality(SlotHolders) \in Nat
<1>1. IsFiniteSet(Requests \cup Streams)
  BY FS_Union
<1>2. Admitted \subseteq Requests \cup Streams /\ SlotHolders \subseteq Requests \cup Streams
  BY DEF Admitted, SlotHolders
<1> QED BY <1>1, <1>2, FS_Subset, FS_CardinalityType

\* _reserve_slot: the counter follows the set.
LEMMA AdmissionComes ==
    ASSUME TypeOK, AdmissionExact, NEW x, x \notin Admitted,
           outstanding < Capacity, outstanding' = outstanding + 1,
           Admitted' = Admitted \cup {x}
    PROVE  AdmissionExact' /\ outstanding' \in 0 .. Capacity
<1>1. Cardinality(Admitted') = Cardinality(Admitted) + 1
  BY HoldersFinite, FS_AddElement
<1> QED BY <1>1 DEF TypeOK, AdmissionExact, Capacity

\* _release_slot: the counter follows the set and never falls below zero.
LEMMA AdmissionGoes ==
    ASSUME TypeOK, AdmissionExact, NEW x, x \in Admitted,
           outstanding' = outstanding - 1, Admitted' = Admitted \ {x}
    PROVE  AdmissionExact' /\ outstanding' \in 0 .. Capacity
<1>1. Cardinality(Admitted') = Cardinality(Admitted) - 1
  BY HoldersFinite, FS_RemoveElement
<1>2. Cardinality(Admitted) > 0
  BY HoldersFinite, FS_EmptySet, FS_CardinalityType
<1> QED BY <1>1, <1>2 DEF TypeOK, AdmissionExact, Capacity

\* The semaphore is acquired.
LEMMA SlotTaken ==
    ASSUME TypeOK, SlotsExact, NEW x, x \notin SlotHolders,
           slots > 0, slots' = slots - 1, SlotHolders' = SlotHolders \cup {x}
    PROVE  SlotsExact' /\ slots' \in 0 .. MaxConcurrency
<1>1. Cardinality(SlotHolders') = Cardinality(SlotHolders) + 1
  BY HoldersFinite, FS_AddElement
<1> QED BY <1>1, HoldersFinite DEF TypeOK, SlotsExact

\* The semaphore is released by somebody who holds it.
LEMMA SlotReturned ==
    ASSUME TypeOK, SlotsExact, NEW x, x \in SlotHolders,
           slots' = slots + 1, SlotHolders' = SlotHolders \ {x}
    PROVE  SlotsExact' /\ slots' \in 0 .. MaxConcurrency
<1>1. Cardinality(SlotHolders') = Cardinality(SlotHolders) - 1
  BY HoldersFinite, FS_RemoveElement
<1>2. Cardinality(SlotHolders) > 0
  BY HoldersFinite, FS_EmptySet, FS_CardinalityType
<1> QED BY <1>1, <1>2, HoldersFinite DEF TypeOK, SlotsExact

\* Neither moves.
LEMMA AccountsStay ==
    ASSUME TypeOK, AdmissionExact, SlotsExact
    PROVE  /\ Admitted' = Admitted /\ outstanding' = outstanding
                => AdmissionExact' /\ outstanding' \in 0 .. Capacity
           /\ SlotHolders' = SlotHolders /\ slots' = slots
                => SlotsExact' /\ slots' \in 0 .. MaxConcurrency
BY DEF TypeOK, AdmissionExact, SlotsExact

\* A change of worker r alone moves at most r in and out of the two sets.
LEMMA WorkerMoves ==
    ASSUME TypeOK, NEW r \in Requests, NEW w \in {"none", "queued", "loading",
               "running", "succeeded", "failed", "releasing"},
           worker' = [worker EXCEPT ![r] = w], UNCHANGED stream
    PROVE  /\ r \in Admitted <=> worker[r] # "none"
           /\ r \in SlotHolders <=> worker[r] \in {"loading", "running"}
           /\ Admitted' = IF w = "none" THEN Admitted \ {r} ELSE Admitted \cup {r}
           /\ SlotHolders' = IF w \in {"loading", "running"}
                             THEN SlotHolders \cup {r} ELSE SlotHolders \ {r}
BY DEF TypeOK, Admitted, SlotHolders, HasSlot

\* A change of session s alone moves at most s in and out of the two sets.
LEMMA StreamMoves ==
    ASSUME TypeOK, NEW s \in Streams, NEW t \in {"idle", "waiting", "opening",
               "open", "finishing", "finished", "closing"},
           stream' = [stream EXCEPT ![s] = t], UNCHANGED worker
    PROVE  /\ s \in Admitted <=> HasSlot(s) \/ stream[s] = "waiting"
           /\ s \in SlotHolders <=> HasSlot(s)
           /\ Admitted' = IF t \in {"waiting", "opening", "open", "finishing", "closing"}
                          THEN Admitted \cup {s} ELSE Admitted \ {s}
           /\ SlotHolders' = IF t \in {"opening", "open", "finishing", "closing"}
                             THEN SlotHolders \cup {s} ELSE SlotHolders \ {s}
BY DEF TypeOK, Admitted, SlotHolders, HasSlot

-----------------------------------------------------------------------------
(* Initial state, and the actions one by one *)

\* Initially nobody holds anything and the invariant is true.
LEMMA InitIInv == Init => IInv
<1> SUFFICES ASSUME Init PROVE IInv
  OBVIOUS
<1>1. Admitted = {} /\ SlotHolders = {}
  BY DEF Init, Admitted, SlotHolders, HasSlot
<1>2. Cardinality(Admitted) = 0 /\ Cardinality(SlotHolders) = 0
  BY <1>1, FS_EmptySet
<1>3. TypeOK
  <2>1. outstanding \in 0 .. Capacity /\ slots \in 0 .. MaxConcurrency
    BY DEF Init, Capacity
  <2>2. engine \in BOOLEAN /\ warmed \in BOOLEAN /\ fatal \in BOOLEAN
    BY Zenon DEF Init
  <2>3. warmup \in {"pending", "running", "abandoned", "over"}
    BY Zenon DEF Init
  <2>4. /\ client \in [Requests -> {"idle", "uploading", "waiting", "gone"}]
        /\ worker \in [Requests -> {"none", "queued", "loading", "running",
                                    "succeeded", "failed", "releasing"}]
        /\ threads \subseteq Requests
        /\ stream \in [Streams -> {"idle", "waiting", "opening", "open",
                                   "finishing", "finished", "closing"}]
    BY DEF Init
  <2> QED BY <2>1, <2>2, <2>3, <2>4 DEF TypeOK
<1>4. AdmissionExact /\ SlotsExact
  BY <1>2 DEF Init, AdmissionExact, SlotsExact
<1>5. ThreadsRun /\ UploadFirst /\ WarmupFirst
  BY DEF Init, ThreadsRun, UploadFirst, WarmupFirst
<1> QED BY <1>3, <1>4, <1>5 DEF IInv

\* What the handler does before it submits, and when it stops waiting.
LEMMA HandlerKeeps ==
    ASSUME IInv, NEW r \in Requests, Upload(r) \/ Reject(r)
    PROVE  IInv' /\ UNCHANGED Admitted
<1>1. Admitted' = Admitted /\ SlotHolders' = SlotHolders
  BY DEF Upload, Reject, Admitted, SlotHolders, HasSlot
<1>2. TypeOK'
  BY DEF Upload, Reject, IInv, TypeOK, lifetime
<1>3. AdmissionExact' /\ SlotsExact'
  BY <1>1, AccountsStay DEF Upload, Reject, IInv
<1> QED BY <1>1, <1>2, <1>3
        DEF Upload, Reject, IInv, TypeOK, ThreadsRun, UploadFirst, WarmupFirst, lifetime

\* Admission of a request: one admission more, no slot yet.
LEMMA SubmitKeeps ==
    ASSUME IInv, NEW r \in Requests, Submit(r)
    PROVE  IInv' /\ r \notin Admitted /\ Admitted' = Admitted \cup {r}
<1>1. worker[r] = "none" /\ warmup = "over"
  BY DEF Submit, Ready, IInv, UploadFirst, WarmupFirst
<1>2. /\ r \notin Admitted /\ r \notin SlotHolders
      /\ Admitted' = Admitted \cup {r} /\ SlotHolders' = SlotHolders \ {r}
  BY <1>1, WorkerMoves DEF Submit, IInv
<1>3. /\ AdmissionExact' /\ outstanding' \in 0 .. Capacity
      /\ SlotsExact'
  BY <1>2, AdmissionComes, AccountsStay DEF Submit, IInv
<1>4. TypeOK'
  BY <1>3 DEF Submit, IInv, TypeOK, lifetime
<1>5. ThreadsRun' /\ UploadFirst' /\ WarmupFirst'
  BY <1>1 DEF Submit, IInv, TypeOK, ThreadsRun, UploadFirst, WarmupFirst, lifetime
<1> QED BY <1>2, <1>3, <1>4, <1>5 DEF IInv

\* The worker on its way to the device.
LEMMA TakeSlotKeeps ==
    ASSUME IInv, NEW r \in Requests, TakeSlot(r)
    PROVE  IInv' /\ UNCHANGED Admitted
<1>1. /\ r \in Admitted /\ r \notin SlotHolders
      /\ Admitted' = Admitted \cup {r} /\ SlotHolders' = SlotHolders \cup {r}
  BY WorkerMoves DEF TakeSlot, IInv
<1>2. /\ AdmissionExact'
      /\ SlotsExact' /\ slots' \in 0 .. MaxConcurrency
  BY <1>1, SlotTaken, AccountsStay DEF TakeSlot, IInv
<1>3. TypeOK'
  BY <1>2 DEF TakeSlot, IInv, TypeOK, lifetime
<1>4. ThreadsRun' /\ UploadFirst' /\ WarmupFirst'
  BY DEF TakeSlot, IInv, TypeOK, ThreadsRun, UploadFirst, WarmupFirst, lifetime
<1> QED BY <1>1, <1>2, <1>3, <1>4 DEF IInv

\* The engine is there and the thread starts, or the slot goes back.
LEMMA LoadKeeps ==
    ASSUME IInv, NEW r \in Requests, Load(r)
    PROVE  IInv' /\ UNCHANGED Admitted
<1>1. r \in Admitted /\ r \in SlotHolders /\ worker[r] = "loading"
  BY DEF Load, IInv, Admitted, SlotHolders
<1>2. CASE /\ worker' = [worker EXCEPT ![r] = "running"]
           /\ threads' = threads \cup {r}
           /\ engine' = TRUE
           /\ slots' = slots
  <2>1. Admitted' = Admitted \cup {r} /\ SlotHolders' = SlotHolders \cup {r}
    BY <1>2, WorkerMoves DEF Load, IInv
  <2>2. /\ AdmissionExact' /\ SlotsExact'
    BY <1>1, <1>2, <2>1, AccountsStay DEF Load, IInv
  <2>3. TypeOK'
    BY <1>2 DEF Load, IInv, TypeOK
  <2>4. ThreadsRun' /\ UploadFirst' /\ WarmupFirst'
    BY <1>1, <1>2 DEF Load, IInv, TypeOK, ThreadsRun, UploadFirst, WarmupFirst
  <2> QED BY <1>1, <2>1, <2>2, <2>3, <2>4 DEF IInv
<1>3. CASE /\ worker' = [worker EXCEPT ![r] = "failed"]
           /\ slots' = slots + 1
           /\ UNCHANGED <<threads, engine>>
  <2>1. Admitted' = Admitted \cup {r} /\ SlotHolders' = SlotHolders \ {r}
    BY <1>3, WorkerMoves DEF Load, IInv
  <2>2. /\ AdmissionExact'
        /\ SlotsExact' /\ slots' \in 0 .. MaxConcurrency
    BY <1>1, <1>3, <2>1, SlotReturned, AccountsStay DEF Load, IInv
  <2>3. TypeOK'
    BY <1>3, <2>2 DEF Load, IInv, TypeOK
  <2>4. ThreadsRun' /\ UploadFirst' /\ WarmupFirst'
    BY <1>1, <1>3 DEF Load, IInv, TypeOK, ThreadsRun, UploadFirst, WarmupFirst
  <2> QED BY <1>1, <2>1, <2>2, <2>3, <2>4 DEF IInv
<1> QED BY <1>2, <1>3 DEF Load

\* The thread of a worker ends and async with gives the slot back.
LEMMA ThreadEndsKeeps ==
    ASSUME IInv, NEW r \in Requests, ThreadEnds(r)
    PROVE  IInv' /\ UNCHANGED Admitted
<1>1. worker[r] = "running" /\ r \in Admitted /\ r \in SlotHolders
  BY DEF ThreadEnds, IInv, ThreadsRun, Admitted, SlotHolders
<1>2. PICK e \in {"succeeded", "failed"} : worker' = [worker EXCEPT ![r] = e]
  BY <1>1 DEF ThreadEnds
<1>3. Admitted' = Admitted \cup {r} /\ SlotHolders' = SlotHolders \ {r}
  BY <1>2, WorkerMoves DEF ThreadEnds, IInv
<1>4. /\ AdmissionExact'
      /\ SlotsExact' /\ slots' \in 0 .. MaxConcurrency
  BY <1>1, <1>3, SlotReturned, AccountsStay DEF ThreadEnds, IInv
<1>5. TypeOK'
  BY <1>2, <1>4 DEF ThreadEnds, IInv, TypeOK, lifetime
<1>6. ThreadsRun' /\ UploadFirst' /\ WarmupFirst'
  BY <1>1, <1>2 DEF ThreadEnds, IInv, TypeOK, ThreadsRun, UploadFirst, WarmupFirst, lifetime
<1> QED BY <1>1, <1>3, <1>4, <1>5, <1>6 DEF IInv

\* The admission comes back: with the answer or by the release task.
LEMMA WorkerGone ==
    ASSUME IInv, NEW r \in Requests, worker[r] \in {"succeeded", "releasing"},
           worker' = [worker EXCEPT ![r] = "none"],
           client' = [client EXCEPT ![r] = "idle"],
           outstanding' = outstanding - 1,
           UNCHANGED <<threads, stream, slots, lifetime>>
    PROVE  IInv' /\ r \in Admitted /\ Admitted' = Admitted \ {r}
<1>1. /\ r \in Admitted /\ r \notin SlotHolders
      /\ Admitted' = Admitted \ {r} /\ SlotHolders' = SlotHolders \ {r}
  BY WorkerMoves DEF IInv
<1>2. /\ AdmissionExact' /\ outstanding' \in 0 .. Capacity
      /\ SlotsExact'
  BY <1>1, AdmissionGoes, AccountsStay DEF IInv
<1>3. TypeOK'
  BY <1>2 DEF IInv, TypeOK, lifetime
<1>4. ThreadsRun' /\ UploadFirst' /\ WarmupFirst'
  BY DEF IInv, TypeOK, ThreadsRun, UploadFirst, WarmupFirst, lifetime
<1> QED BY <1>1, <1>2, <1>3, <1>4 DEF IInv

\* The worker's end is noticed, or the handler stops waiting for it.
LEMMA WorkerNoticed ==
    ASSUME IInv, NEW r \in Requests, NEW w \in {worker[r], "releasing"},
           w # worker[r] => worker[r] \in {"succeeded", "failed"},
           worker' = [worker EXCEPT ![r] = w],
           client' = [client EXCEPT ![r] = "gone"],
           UNCHANGED <<threads, stream, outstanding, slots, lifetime>>
    PROVE  IInv' /\ UNCHANGED Admitted
<1>1. w \in {"none", "queued", "loading", "running", "succeeded", "failed", "releasing"}
  BY DEF IInv, TypeOK
<1>2. Admitted' = Admitted /\ SlotHolders' = SlotHolders
  <2>1. /\ r \in Admitted <=> worker[r] # "none"
        /\ Admitted' = IF w = "none" THEN Admitted \ {r} ELSE Admitted \cup {r}
        /\ r \in SlotHolders <=> worker[r] \in {"loading", "running"}
        /\ SlotHolders' = IF w \in {"loading", "running"}
                          THEN SlotHolders \cup {r} ELSE SlotHolders \ {r}
    BY <1>1, WorkerMoves DEF IInv
  <2>2. /\ w = "none" <=> worker[r] = "none"
        /\ w \in {"loading", "running"} <=> worker[r] \in {"loading", "running"}
    OBVIOUS
  <2>3. Admitted' = Admitted
    BY <2>1, <2>2
  <2>4. SlotHolders' = SlotHolders
    BY <2>1, <2>2
  <2> QED BY <2>3, <2>4
<1>3. AdmissionExact' /\ SlotsExact'
  BY <1>2, AccountsStay DEF IInv
<1>4. TypeOK'
  BY <1>1 DEF IInv, TypeOK, lifetime
<1>5. ThreadsRun' /\ UploadFirst' /\ WarmupFirst'
  BY <1>1 DEF IInv, TypeOK, ThreadsRun, UploadFirst, WarmupFirst, lifetime
<1> QED BY <1>2, <1>3, <1>4, <1>5 DEF IInv

\* A session moves between phases that hold the same places.
LEMMA SessionStays ==
    ASSUME IInv, NEW s \in Streams,
           NEW t \in {"idle", "waiting", "opening", "open", "finishing", "finished", "closing"},
           t \in {"opening", "open", "finishing", "closing"} <=> HasSlot(s),
           t = "waiting" <=> stream[s] = "waiting",
           stream' = [stream EXCEPT ![s] = t],
           UNCHANGED <<batch, outstanding, slots, lifetime>>
    PROVE  IInv' /\ UNCHANGED Admitted
<1>1. Admitted' = Admitted /\ SlotHolders' = SlotHolders
  <2>1. UNCHANGED worker
    BY DEF batch
  <2>2. /\ s \in Admitted <=> HasSlot(s) \/ stream[s] = "waiting"
        /\ s \in SlotHolders <=> HasSlot(s)
        /\ Admitted' = IF t \in {"waiting", "opening", "open", "finishing", "closing"}
                       THEN Admitted \cup {s} ELSE Admitted \ {s}
        /\ SlotHolders' = IF t \in {"opening", "open", "finishing", "closing"}
                          THEN SlotHolders \cup {s} ELSE SlotHolders \ {s}
    BY <2>1, StreamMoves DEF IInv
  <2>3. t \in {"waiting", "opening", "open", "finishing", "closing"} <=>
           HasSlot(s) \/ stream[s] = "waiting"
    OBVIOUS
  <2>4. Admitted' = Admitted
    BY <2>2, <2>3
  <2>5. SlotHolders' = SlotHolders
    BY <2>2
  <2> QED BY <2>4, <2>5
<1>2. AdmissionExact' /\ SlotsExact'
  BY <1>1, AccountsStay DEF IInv
<1>3. TypeOK'
  BY DEF IInv, TypeOK, batch, lifetime
<1> QED BY <1>1, <1>2, <1>3
        DEF IInv, ThreadsRun, UploadFirst, WarmupFirst, batch, lifetime

\* Admission of a session.
LEMMA OpenStreamKeeps ==
    ASSUME IInv, NEW s \in Streams, OpenStream(s)
    PROVE  IInv' /\ s \notin Admitted /\ Admitted' = Admitted \cup {s}
<1>1. UNCHANGED worker /\ stream[s] = "idle" /\ ~HasSlot(s)
  BY DEF OpenStream, batch, HasSlot
<1>2. /\ s \notin Admitted /\ s \notin SlotHolders
      /\ Admitted' = Admitted \cup {s} /\ SlotHolders' = SlotHolders \ {s}
  BY <1>1, StreamMoves DEF OpenStream, IInv
<1>3. /\ AdmissionExact' /\ outstanding' \in 0 .. Capacity
      /\ SlotsExact'
  BY <1>2, AdmissionComes, AccountsStay DEF OpenStream, IInv
<1>4. TypeOK'
  BY <1>3 DEF OpenStream, IInv, TypeOK, batch, lifetime
<1> QED BY <1>2, <1>3, <1>4
        DEF OpenStream, IInv, ThreadsRun, UploadFirst, WarmupFirst, batch, lifetime

\* A session takes its model slot.
LEMMA StreamTakesSlotKeeps ==
    ASSUME IInv, NEW s \in Streams, StreamTakesSlot(s)
    PROVE  IInv' /\ UNCHANGED Admitted
<1>1. UNCHANGED worker /\ stream[s] = "waiting" /\ ~HasSlot(s)
  BY DEF StreamTakesSlot, batch, HasSlot
<1>2. /\ s \in Admitted /\ s \notin SlotHolders
      /\ Admitted' = Admitted \cup {s} /\ SlotHolders' = SlotHolders \cup {s}
  BY <1>1, StreamMoves DEF StreamTakesSlot, IInv
<1>3. /\ AdmissionExact'
      /\ SlotsExact' /\ slots' \in 0 .. MaxConcurrency
  BY <1>2, SlotTaken, AccountsStay DEF StreamTakesSlot, IInv
<1>4. TypeOK'
  BY <1>3 DEF StreamTakesSlot, IInv, TypeOK, batch, lifetime
<1> QED BY <1>2, <1>3, <1>4
        DEF StreamTakesSlot, IInv, ThreadsRun, UploadFirst, WarmupFirst, batch, lifetime

\* A session that ends gives back its admission, and its slot if it has one.
LEMMA SessionGone ==
    ASSUME IInv, NEW s \in Streams, HasSlot(s) \/ stream[s] = "waiting",
           NEW t \in {"idle", "finished"}, stream' = [stream EXCEPT ![s] = t],
           slots' = IF HasSlot(s) THEN slots + 1 ELSE slots,
           outstanding' = outstanding - 1, UNCHANGED <<batch, lifetime>>
    PROVE  IInv' /\ s \in Admitted /\ Admitted' = Admitted \ {s}
<1>1. UNCHANGED worker
  BY DEF batch
<1>2. /\ s \in Admitted /\ (s \in SlotHolders <=> HasSlot(s))
      /\ Admitted' = Admitted \ {s} /\ SlotHolders' = SlotHolders \ {s}
  BY <1>1, StreamMoves DEF IInv
<1>3. AdmissionExact' /\ outstanding' \in 0 .. Capacity
  BY <1>2, AdmissionGoes DEF IInv
<1>4. SlotsExact' /\ slots' \in 0 .. MaxConcurrency
  <2>1. CASE HasSlot(s)
    BY <1>2, <2>1, SlotReturned DEF IInv
  <2>2. CASE ~HasSlot(s)
    <3>1. SlotHolders' = SlotHolders /\ slots' = slots
      BY <1>2, <2>2
    <3> QED BY <3>1, AccountsStay DEF IInv
  <2> QED BY <2>1, <2>2
<1>5. TypeOK'
  BY <1>3, <1>4 DEF IInv, TypeOK, batch, lifetime
<1> QED BY <1>2, <1>3, <1>4, <1>5
        DEF IInv, ThreadsRun, UploadFirst, WarmupFirst, batch, lifetime

\* The warm-up touches neither admissions nor slots.
LEMMA WarmupKeeps ==
    ASSUME IInv, WarmupStarts \/ WarmupSucceeds \/ WarmupFails \/ AbandonedWarmupEnds
    PROVE  IInv' /\ UNCHANGED Admitted
<1> DEFINE Step == WarmupStarts \/ WarmupSucceeds \/ WarmupFails \/ AbandonedWarmupEnds
<1>0. Step
  OBVIOUS
<1>1. UNCHANGED <<client, worker, threads, stream, outstanding, slots>>
  BY <1>0 DEF WarmupStarts, WarmupSucceeds, WarmupFails, AbandonedWarmupEnds, batch
<1>2. engine' \in BOOLEAN /\ fatal' \in BOOLEAN /\ warmed' \in BOOLEAN
  BY <1>0 DEF WarmupStarts, WarmupSucceeds, WarmupFails, AbandonedWarmupEnds, IInv, TypeOK
<1>3. /\ warmup # "over"
      /\ warmup' \in {"pending", "running", "abandoned", "over"}
  BY <1>0 DEF WarmupStarts, WarmupSucceeds, WarmupFails, AbandonedWarmupEnds
<1>4. warmed' = warmed \/ warmup' = "over"
  BY <1>0 DEF WarmupStarts, WarmupSucceeds, WarmupFails, AbandonedWarmupEnds
<1>5. /\ ~Cuda => warmup' = "over"
      /\ warmed' => warmup' = "over"
      /\ warmup' # "over" => \A r \in Requests : worker'[r] = "none"
  BY <1>1, <1>3, <1>4 DEF IInv, WarmupFirst
<1>6. Admitted' = Admitted /\ SlotHolders' = SlotHolders
  BY <1>1 DEF Admitted, SlotHolders, HasSlot
<1>7. AdmissionExact' /\ SlotsExact'
  BY <1>1, <1>6, AccountsStay DEF IInv
<1>8. TypeOK'
  BY <1>1, <1>2, <1>3 DEF IInv, TypeOK
<1>9. ThreadsRun' /\ UploadFirst' /\ WarmupFirst'
  BY <1>1, <1>5 DEF IInv, ThreadsRun, UploadFirst, WarmupFirst
<1> QED BY <1>6, <1>7, <1>8, <1>9 DEF IInv

-----------------------------------------------------------------------------
\* Every step keeps the invariant, and admits one client, dismisses one, or
\* leaves the admissions alone.
LEMMA NextKeeps ==
    ASSUME IInv, Next
    PROVE  /\ IInv'
           /\ \/ UNCHANGED Admitted
              \/ \E c \in (Requests \cup Streams) \ Admitted : Admitted' = Admitted \cup {c}
              \/ \E c \in Admitted : Admitted' = Admitted \ {c}
<1> DEFINE Effect ==
      /\ IInv'
      /\ \/ UNCHANGED Admitted
         \/ \E c \in (Requests \cup Streams) \ Admitted : Admitted' = Admitted \cup {c}
         \/ \E c \in Admitted : Admitted' = Admitted \ {c}
<1> SUFFICES Effect
  OBVIOUS
<1>1. ASSUME NEW r \in Requests, Upload(r) \/ Reject(r) PROVE Effect
  BY <1>1, HandlerKeeps
<1>2. ASSUME NEW r \in Requests, Submit(r) PROVE Effect
  BY <1>2, SubmitKeeps
<1>3. ASSUME NEW r \in Requests, TakeSlot(r) \/ Load(r) \/ ThreadEnds(r) PROVE Effect
  BY <1>3, TakeSlotKeeps, LoadKeeps, ThreadEndsKeeps
<1>4. ASSUME NEW r \in Requests, Answer(r) PROVE Effect
  <2>1. CASE /\ worker[r] = "succeeded"
             /\ client' = [client EXCEPT ![r] = "idle"]
             /\ worker' = [worker EXCEPT ![r] = "none"]
             /\ outstanding' = outstanding - 1
    BY <1>4, <2>1, WorkerGone DEF Answer
  <2>2. CASE /\ worker[r] = "failed"
             /\ client' = [client EXCEPT ![r] = "gone"]
             /\ worker' = [worker EXCEPT ![r] = "releasing"]
             /\ UNCHANGED outstanding
    BY <1>4, <2>2, WorkerNoticed DEF Answer
  <2> QED BY <1>4, <2>1, <2>2 DEF Answer
<1>5. ASSUME NEW r \in Requests, ReleaseTask(r) PROVE Effect
  BY <1>5, WorkerGone DEF ReleaseTask
<1>s. ASSUME NEW s \in Streams, OpenStream(s) \/ StreamTakesSlot(s) PROVE Effect
  BY <1>s, OpenStreamKeeps, StreamTakesSlotKeeps
<1>6. ASSUME NEW s \in Streams,
             StreamOpened(s) \/ FinishStream(s) \/ CloseStream(s) \/ HandlerLeaves(s)
      PROVE  Effect
  BY <1>6, SessionStays
     DEF StreamOpened, FinishStream, CloseStream, HandlerLeaves, HasSlot
<1>7. ASSUME NEW s \in Streams, OpenFails(s) \/ StreamClosed(s) PROVE Effect
  <2>1. PICK t \in {"idle", "finished"} : stream' = [stream EXCEPT ![s] = t]
    BY <1>7 DEF OpenFails, StreamClosed
  <2>2. /\ HasSlot(s) \/ stream[s] = "waiting"
        /\ slots' = IF HasSlot(s) THEN slots + 1 ELSE slots
        /\ outstanding' = outstanding - 1
        /\ UNCHANGED <<batch, lifetime>>
    BY <1>7 DEF OpenFails, StreamClosed, HasSlot
  <2> QED BY <2>1, <2>2, SessionGone
<1>8. ASSUME NEW r \in Requests, Expire(r) \/ Callback(r) PROVE Effect
  <2> DEFINE w == IF worker[r] \in {"succeeded", "failed"} THEN "releasing" ELSE worker[r]
  <2>1. /\ worker' = [worker EXCEPT ![r] = w]
        /\ client' = [client EXCEPT ![r] = "gone"]
        /\ UNCHANGED <<threads, stream, outstanding, slots, lifetime>>
    BY <1>8 DEF Expire, Callback, IInv, TypeOK
  <2>2. /\ w \in {worker[r], "releasing"}
        /\ w # worker[r] => worker[r] \in {"succeeded", "failed"}
    OBVIOUS
  <2> HIDE DEF w
  <2> QED BY <2>1, <2>2, WorkerNoticed
<1>9. ASSUME WarmupStarts \/ WarmupSucceeds \/ WarmupFails \/ AbandonedWarmupEnds
      PROVE  Effect
  BY <1>9, WarmupKeeps
<1> HIDE DEF Effect
<1> QED BY <1>1, <1>2, <1>3, <1>4, <1>5, <1>6, <1>7, <1>8, <1>9, <1>s DEF Next

\* Every step keeps the invariant.
LEMMA NextIInv == IInv /\ [Next]_vars => IInv'
<1>1. ASSUME IInv, UNCHANGED vars PROVE IInv'
  BY <1>1 DEF vars, IInv, TypeOK, AdmissionExact, SlotsExact, Admitted, SlotHolders,
              HasSlot, ThreadsRun, UploadFirst, WarmupFirst
<1> QED BY <1>1, NextKeeps

-----------------------------------------------------------------------------
\* In every behaviour the inductive invariant holds.
THEOREM Invariance == Spec => []IInv
<1>1. Init => IInv
  BY InitIInv
<1>2. IInv /\ [Next]_vars => IInv'
  BY NextIInv
<1> QED BY <1>1, <1>2, PTL DEF Spec

\* Handlers, workers, sessions and counters stay in their types: the admission
\* counter within the queue, the semaphore within the concurrency.
THEOREM TypeCorrect == Spec => []TypeOK
<1>1. IInv => TypeOK
  BY DEF IInv
<1> QED BY <1>1, Invariance, PTL

\* Every admission and every model slot of the speech service is given back
\* exactly once.
THEOREM CountersAreExact == Spec => []CountersExact
<1>1. IInv => CountersExact
  BY DEF IInv, CountersExact
<1> QED BY <1>1, Invariance, PTL

\* Threads of abandoned requests included, the device is never over-committed.
THEOREM DeviceIsNotShared == Spec => []DeviceNotShared
<1>1. ASSUME IInv PROVE DeviceNotShared
  <2> DEFINE Busy == threads \cup {s \in Streams : HasSlot(s)}
  <2>1. Busy \subseteq SlotHolders
    BY <1>1 DEF IInv, ThreadsRun, SlotHolders
  <2>2. IsFiniteSet(SlotHolders) /\ Cardinality(SlotHolders) \in Nat
    BY HoldersFinite
  <2>3. Cardinality(Busy) <= Cardinality(SlotHolders) /\ Cardinality(Busy) \in Nat
    BY <2>1, <2>2, FS_Subset, FS_CardinalityType
  <2>4. Cardinality(SlotHolders) <= MaxConcurrency
    BY <1>1, <2>2 DEF IInv, TypeOK, SlotsExact
  <2> QED BY <2>2, <2>3, <2>4 DEF DeviceNotShared
<1> QED BY <1>1, Invariance, PTL

\* No inference runs beside the thread that loads the models.
THEOREM WarmupIsAlone == Spec => []WarmupAlone
<1>1. IInv => WarmupAlone
  BY DEF IInv, ThreadsRun, WarmupFirst, WarmupAlone
<1> QED BY <1>1, Invariance, PTL

-----------------------------------------------------------------------------
\* Every step of the service is a step of the pool or leaves the admissions
\* alone.
LEMMA StepSimulation == IInv /\ [Next]_vars => [Pool!Next]_Admitted
<1> SUFFICES ASSUME IInv, [Next]_vars PROVE Pool!Next \/ UNCHANGED Admitted
  OBVIOUS
<1>1. CASE UNCHANGED vars
  BY <1>1 DEF vars, Admitted, HasSlot
<1>2. CASE Next
  <2>1. Admitted \subseteq Requests \cup Streams
    BY DEF Admitted
  <2>2. ASSUME NEW c \in Admitted, Admitted' = Admitted \ {c} PROVE Pool!Next
    <3>1. Pool!Leave(c) /\ c \in Requests \cup Streams
      BY <2>1, <2>2 DEF Pool!Leave
    <3> QED BY <3>1 DEF Pool!Next, Pool!Exit
  <2>3. ASSUME NEW c \in (Requests \cup Streams) \ Admitted, Admitted' = Admitted \cup {c}
        PROVE  Pool!Next
    <3>1. Cardinality(Admitted') = Cardinality(Admitted) + 1
      BY <2>3, HoldersFinite, FS_AddElement
    <3>2. Cardinality(Admitted') <= Capacity
      <4>1. IInv'
        BY <1>2, NextKeeps
      <4>2. outstanding' = Cardinality(Admitted') /\ outstanding' \in 0 .. Capacity
        BY <4>1 DEF IInv, TypeOK, AdmissionExact
      <4> QED BY <4>2 DEF Capacity
    <3>3. Cardinality(Admitted) < Capacity
      BY <3>1, <3>2, HoldersFinite DEF Capacity
    <3>4. Pool!Cardinality(Admitted) = Cardinality(Admitted)
      BY DEF Pool!Cardinality, Cardinality
    <3>5. Pool!Enter(c)
      BY <2>3, <3>3, <3>4 DEF Pool!Enter
    <3> QED BY <3>5 DEF Pool!Next
  <2> QED BY <1>2, <2>2, <2>3, NextKeeps
<1> QED BY <1>1, <1>2

\* The speech service implements the bounded pool: under every interleaving of
\* answers, timeouts, abandoned workers and closed sessions.
THEOREM SpeechIsBoundedPool == Spec => Pool!Safety
<1>1. Init => Pool!Init
  BY DEF Init, Pool!Init, Admitted, HasSlot
<1>2. IInv /\ [Next]_vars => [Pool!Next]_Admitted
  BY StepSimulation
<1> QED BY <1>1, <1>2, Invariance, PTL DEF Spec, Pool!Safety
=============================================================================
