----------------------------- MODULE Migrations -----------------------------
(***************************************************************************)
(* The database migrations: migrators (storage/migrations/env.py) run the  *)
(* two revisions of versions/ against a database that the application      *)
(* writes and its operator alters.  Each works in one transaction: what it *)
(* did shows to the others when it commits, and a failure or a crash       *)
(* leaves nothing.  Of PostgreSQL only the locks, the constraints and the  *)
(* atomic commit are kept.                                                 *)
(***************************************************************************)
EXTENDS Naturals, Sequences, FiniteSets

CONSTANTS Runs,        \* identifiers of stored runs
          Hashes,      \* hashes of run events
          Migrators,   \* processes that run alembic
          Nobody,      \* holds a free lock
          MaxEvents,   \* bound on the events of a run
          MaxFaults    \* bound on what the operator altered at a time

ASSUME MigrationsAssumption == Nobody \notin Migrators

VARIABLES db,      \* what is committed: version table, managed tables, faults
          locks,   \* who locked the version table and the managed tables
          migr     \* each migrator: phase, target and its uncommitted work

migrationVars == <<db, locks, migr>>

-----------------------------------------------------------------------------
\* The managed tables: runs, run_events and analyses, and what differs between
\* the schemas an applied foundation may have.
BaselineStatuses == {"pending", "running", "completed", "failed"}
HeadStatuses == {"queued", "processing", "completed", "failed"}
StatusesOf(vocabulary) == IF vocabulary = "head" THEN HeadStatuses ELSE BaselineStatuses

Foundation ==
    [exists |-> TRUE, payload |-> "result", digest |-> "result_sha256",
     vocabulary |-> "baseline", unique |-> "absent",
     runs |-> [r \in Runs |-> "absent"], events |-> [r \in Runs |-> <<>>], analyses |-> {}]
NoTables == [Foundation EXCEPT !.exists = FALSE]

\* Foundations that were applied: as 0001 makes them, without the digest, already
\* converged, with both payload columns, or with the name of the unique taken.
Applied ==
    {[Foundation EXCEPT !.digest = d, !.unique = u] :
        d \in {"none", "result_sha256"}, u \in {"absent", "owned", "other"}}
    \cup {[Foundation EXCEPT !.payload = "sanitized_result", !.digest = d, !.unique = "owned",
                             !.vocabulary = v] :
             d \in {"none", "sanitized_result_sha256", "result_sha256"}, v \in {"baseline", "head"}}
    \cup {[Foundation EXCEPT !.payload = "both"]}

\* What an operator may have altered, by the check that looks at it.
TableFaults == {"relation", "inbound", "trigger", "custom_check", "expression", "run_check",
                "event_check", "analysis_check", "column", "key", "index", "unsafe_index"}
Tolerated == {"custom_event_check", "extra_index"}
DatabaseFaults == {"operator", "open_schema", "version_table", "version_key", "version_rows"}

\* What the catalogs are read for.
None(faults) == db.faults \cap faults = {}

\* The uncommitted work of a migrator that has none.
Blank == [version |-> "absent", tables |-> NoTables]

InitMigrations ==
    /\ db \in [version : {"absent"}, tables : {NoTables}, faults : {{}}]
                \cup [version : {"0001"}, tables : Applied, faults : {{}}]
    /\ locks = [version |-> Nobody, readers |-> {}, tables |-> Nobody]
    /\ migr = [m \in Migrators |-> [phase |-> "idle", target |-> "head", work |-> Blank]]

-----------------------------------------------------------------------------
\* Revision 0002: what it requires of the tables it is about to change.
OrdinaryUnprotected(t) == t.exists /\ None({"relation"})
EventUniqueOwned(t) == t.unique = "owned"
EventUniqueContract(t) == t.unique # "other"
InboundContract == None({"inbound"})
NoActiveTriggers == None({"trigger"})
\* A custom CHECK on run_events is kept: its rows are not changed.
NoCustomChecks == None({"custom_check"})
TrustedExpressions == None({"expression"})

\* Every managed CHECK as it is written, under one of its two names, with the status
\* vocabulary of the shape.
RunChecks(t, head) == None({"run_check"}) /\ t.vocabulary = (IF head THEN "head" ELSE "baseline")
EventChecks == None({"event_check"})
AnalysisChecks == None({"analysis_check"})
ChecksValid(t, head) == RunChecks(t, head) /\ EventChecks /\ AnalysisChecks

ColumnsMatch == None({"column"})
OwnKeys == None({"key"})
KeysMatch(t, head) == OwnKeys /\ (head => EventUniqueOwned(t))

DigestOf(payload) == IF payload = "result" THEN "result_sha256" ELSE "sanitized_result_sha256"
UpgradeShape(t) ==
    /\ t.payload # "both"
    /\ t.digest \in {"none", DigestOf(t.payload)}
    /\ ColumnsMatch /\ OwnKeys
    /\ ChecksValid(t, t.payload = "sanitized_result")
HeadShape(t) ==
    /\ t.payload = "sanitized_result" /\ t.digest = "sanitized_result_sha256"
    /\ ColumnsMatch /\ OwnKeys
    /\ ChecksValid(t, TRUE)

IndexesMatch == None({"index"})
AllIndexesTrusted == None({"unsafe_index"})
StaticSchema(t, head) ==
    ColumnsMatch /\ KeysMatch(t, head) /\ IndexesMatch /\ AllIndexesTrusted

Guarded(t) ==
    /\ OrdinaryUnprotected(t) /\ EventUniqueContract(t) /\ InboundContract /\ NoActiveTriggers
    /\ NoCustomChecks /\ TrustedExpressions

\* A mutant: only the legacy payload is looked for.
EmptyLegacy(t) == t.payload = "result" => t.analyses = {}
Empty(t) == t.analyses = {}

MayUpgrade(t) ==
    /\ Empty(t) /\ Guarded(t) /\ UpgradeShape(t)
    /\ StaticSchema(t, t.payload = "sanitized_result")
MayDowngrade(t) == Empty(t) /\ Guarded(t) /\ HeadShape(t) /\ StaticSchema(t, TRUE)
HeadContract(t) == Guarded(t) /\ HeadShape(t) /\ StaticSchema(t, TRUE) /\ EventUniqueOwned(t)

\* What it does to them.
UpgradeAnalyses(t) ==
    [t EXCEPT !.payload = "sanitized_result", !.digest = "sanitized_result_sha256"]
Renamed(status, from, to) == IF status = from THEN to ELSE status
WithStatuses(t, vocabulary) == [t EXCEPT !.vocabulary = vocabulary]
UpgradeRuns(t) ==
    [WithStatuses(t, "head") EXCEPT
              !.runs = [r \in Runs |-> Renamed(Renamed(@[r], "pending", "queued"),
                                               "running", "processing")]]
DowngradeAnalyses(t) == [t EXCEPT !.payload = "result", !.digest = "result_sha256"]
DowngradeRuns(t) ==
    [WithStatuses(t, "baseline") EXCEPT
              !.runs = [r \in Runs |-> Renamed(Renamed(@[r], "queued", "pending"),
                                               "processing", "running")]]

HashesUnique(t) ==
    \A r \in Runs : \A j, k \in DOMAIN t.events[r] : t.events[r][j] = t.events[r][k] => j = k

Upgraded(t) == [UpgradeRuns(UpgradeAnalyses(t)) EXCEPT !.unique = "owned"]
Downgraded(t) == [DowngradeRuns(DowngradeAnalyses(t)) EXCEPT !.unique = "absent"]

-----------------------------------------------------------------------------
\* A migrator: its transaction, from the checks of env.py to the commit.
Goto(m, phase, work) == migr' = [migr EXCEPT ![m].phase = phase, ![m].work = work]

\* Rolled back, or committed.
End(m, phase) ==
    /\ Goto(m, phase, Blank)
    /\ locks' = [version |-> IF locks.version = m THEN Nobody ELSE locks.version,
                 readers |-> locks.readers \ {m},
                 tables |-> IF locks.tables = m THEN Nobody ELSE locks.tables]
Fails(m) == End(m, "failed") /\ UNCHANGED db

Connect(m, target) ==
    /\ migr[m].phase \in {"idle", "done", "failed"}
    /\ migr' = [migr EXCEPT ![m].phase = "begin", ![m].target = target]
    /\ UNCHANGED <<db, locks>>

VersionFree(m) == locks.version \in {Nobody, m} /\ locks.readers \subseteq {m}
TablesFree(m) == locks.tables \in {Nobody, m}

VersionTableExists == db.version # "absent"
SafeOperators == None({"operator"})
SafeBootstrapSchema == None({"open_schema"})
OrdinaryVersionTable == None({"version_table"})
OrdinaryVersionKey == None({"version_key"})
SafeVersionTable == OrdinaryVersionTable /\ OrdinaryVersionKey
KnownRevision == None({"version_rows"})

\* The checks before alembic reads its table; a fresh database has none to lock.
Begin(m) ==
    /\ migr[m].phase = "begin"
    /\ \/ /\ SafeOperators /\ VersionTableExists
          /\ VersionFree(m) /\ SafeVersionTable /\ KnownRevision
          /\ Goto(m, "plan", Blank)
          /\ locks' = [locks EXCEPT !.version = m]
          /\ UNCHANGED db
       \/ /\ SafeOperators /\ ~ VersionTableExists /\ SafeBootstrapSchema
          /\ Goto(m, "plan", Blank)
          /\ UNCHANGED <<db, locks>>
       \/ /\ SafeOperators => IF VersionTableExists THEN ~ (SafeVersionTable /\ KnownRevision)
                                                    ELSE ~ SafeBootstrapSchema
          /\ Fails(m)

\* Alembic reads the revision, or makes its table where it sees none.
Plan(m) ==
    /\ migr[m].phase = "plan"
    /\ IF ~ VersionTableExists
       THEN Goto(m, "create", Blank) /\ UNCHANGED locks
       ELSE /\ locks.version \in {Nobody, m}
            /\ Goto(m, "step", [Blank EXCEPT !.version = db.version])
            /\ locks' = [locks EXCEPT !.readers = @ \cup {m}]
    /\ UNCHANGED db

\* Where another migrator's table came first, the two clash; or alembic finds it,
\* and goes on from the revision it had read, which is none.
Create(m) ==
    /\ migr[m].phase = "create"
    /\ \/ /\ ~ VersionTableExists /\ VersionFree(m)
          /\ Goto(m, "step", [Blank EXCEPT !.version = "empty"])
          /\ locks' = [locks EXCEPT !.version = m]
          /\ UNCHANGED db
       \/ VersionTableExists /\ Fails(m)
       \/ /\ VersionTableExists
          /\ Goto(m, "step", [Blank EXCEPT !.version = "empty"])
          /\ UNCHANGED <<db, locks>>

\* The tables as the transaction sees them once it holds their lock.
Seen(m) == IF locks.tables = m THEN migr[m].work.tables ELSE db.tables

\* One revision: it locks the tables, checks them and changes them, or fails.
Revise(m, from, allowed, to, tables) ==
    /\ migr[m].phase = "step" /\ migr[m].work.version = from /\ TablesFree(m)
    /\ \/ /\ allowed
          /\ Goto(m, "step", [version |-> to, tables |-> tables])
          /\ locks' = [locks EXCEPT !.tables = m]
          /\ UNCHANGED db
       \/ ~ allowed /\ Fails(m)

Foundation0001(m) ==
    migr[m].target = "head" /\ Revise(m, "empty", ~ Seen(m).exists, "0001", Foundation)
Upgrade0002(m) ==
    /\ migr[m].target = "head"
    /\ Revise(m, "0001", MayUpgrade(Seen(m)) /\ (EventUniqueOwned(Seen(m)) \/ HashesUnique(Seen(m))),
              "0002", Upgraded(Seen(m)))
Downgrade0002(m) ==
    /\ migr[m].target # "head"
    /\ Revise(m, "0002", MayDowngrade(Seen(m)), "0001", Downgraded(Seen(m)))
Drop0001(m) ==
    migr[m].target = "base" /\ Revise(m, "0001", Seen(m).exists, "empty", NoTables)

Planned(m) ==
    CASE migr[m].target = "head" -> migr[m].work.version = "0002"
      [] migr[m].target = "base" -> migr[m].work.version = "empty"
      [] OTHER                   -> migr[m].work.version \in {"0001", "empty"}

\* What the version table holds: what its revisions recorded, or what is committed.
Revision(m) ==
    IF locks.tables = m \/ ~ VersionTableExists THEN migr[m].work.version ELSE db.version

\* The checks after alembic ran, under the locks it still holds, and the commit.
Finish(m) ==
    /\ migr[m].phase = "step" /\ Planned(m) /\ VersionFree(m)
    /\ Revision(m) = "0002" => TablesFree(m)
    /\ IF /\ SafeVersionTable /\ KnownRevision
          /\ Revision(m) = "0002" => HeadContract(Seen(m))
          /\ migr[m].target = "0001" => migr[m].work.version # "empty"
       THEN /\ db' = [db EXCEPT !.version = Revision(m), !.tables = Seen(m)]
            /\ End(m, "done")
       ELSE Fails(m)

\* The connection or the process is lost, or the server ends a deadlock.
Crash(m) == migr[m].phase \in {"begin", "plan", "create", "step"} /\ Fails(m)

MigratorStep ==
    \E m \in Migrators :
        \/ \E target \in {"head", "0001", "base"} : Connect(m, target)
        \/ Begin(m) \/ Plan(m) \/ Create(m)
        \/ Foundation0001(m) \/ Upgrade0002(m) \/ Downgrade0002(m) \/ Drop0001(m)
        \/ Finish(m) \/ Crash(m)

-----------------------------------------------------------------------------
\* The application of either schema: its transactions wait for the lock, and the
\* constraints decide what they may store.
Writable == db.tables.exists /\ locks.tables = Nobody
StoreRun(r, status) ==
    /\ Writable /\ db.tables.runs[r] # status /\ status \in StatusesOf(db.tables.vocabulary)
    /\ db' = [db EXCEPT !.tables.runs[r] = status]
StoreEvent(r, h) ==
    /\ Writable /\ db.tables.runs[r] # "absent" /\ Len(db.tables.events[r]) < MaxEvents
    /\ db.tables.unique = "owned" => \A k \in DOMAIN db.tables.events[r] : db.tables.events[r][k] # h
    /\ db' = [db EXCEPT !.tables.events[r] = Append(@, h)]
StoreAnalysis(r) ==
    /\ Writable /\ db.tables.runs[r] # "absent"
    /\ db' = [db EXCEPT !.tables.analyses = @ \cup {r}]

\* The operator exports the analyses, alters the database, or undoes that.
Export == Writable /\ db' = [db EXCEPT !.tables.analyses = {}]
Alter(f) ==
    /\ f \in TableFaults \cup Tolerated => Writable
    /\ f \in {"version_table", "version_key", "version_rows"} =>
          VersionTableExists /\ locks.version = Nobody /\ locks.readers = {}
    /\ \/ f \in db.faults /\ db' = [db EXCEPT !.faults = @ \ {f}]
       \/ /\ f \notin db.faults /\ Cardinality(db.faults) < MaxFaults
          /\ db' = [db EXCEPT !.faults = @ \cup {f}]

Environment ==
    /\ \/ \E r \in Runs, s \in BaselineStatuses \cup HeadStatuses : StoreRun(r, s)
       \/ \E r \in Runs, h \in Hashes : StoreEvent(r, h)
       \/ \E r \in Runs : StoreAnalysis(r)
       \/ Export
       \/ \E f \in TableFaults \cup Tolerated \cup DatabaseFaults : Alter(f)
    /\ UNCHANGED <<locks, migr>>

-----------------------------------------------------------------------------
\* The part of the database that only a migration changes.
Schema(d) == <<d.version, d.tables.exists, d.tables.payload, d.tables.digest,
               d.tables.vocabulary, d.tables.unique>>

\* Statuses that are the same in both vocabularies are compared as they are.
SameStatus(s, t) == s = t \/ <<s, t>> \in
    {<<"pending", "queued">>, <<"running", "processing">>,
     <<"queued", "pending">>, <<"processing", "running">>}

\* Whoever migrates, writes, alters or crashes meanwhile: a migration to the head
\* that reports success leaves, at that moment, the version and the whole schema of
\* the head, with rows that fit it; version and schema change in no other step than
\* the commit of a successful migration; and one that keeps the tables keeps every
\* run and event, and has not touched an analysis.
WholeStep ==
    /\ \A m \in Migrators :
          migr[m].phase # "done" /\ migr'[m].phase = "done" /\ migr[m].target = "head" =>
             /\ Schema(db') = <<"0002", TRUE, "sanitized_result", "sanitized_result_sha256",
                                "head", "owned">>
             /\ db'.faults \subseteq Tolerated \cup {"operator", "open_schema"}
             /\ \A r \in Runs : db'.tables.runs[r] \in HeadStatuses \cup {"absent"}
             /\ HashesUnique(db'.tables)
    /\ Schema(db') # Schema(db) =>
          /\ \E m \in Migrators : migr[m].phase # "done" /\ migr'[m].phase = "done"
          /\ db.tables.exists /\ db'.tables.exists =>
                /\ db.tables.analyses = {} /\ db'.tables.analyses = {}
                /\ db'.tables.events = db.tables.events
                /\ \A r \in Runs : SameStatus(db.tables.runs[r], db'.tables.runs[r])
MigrationWhole == [][WholeStep]_<<db, locks, migr>>
=============================================================================
