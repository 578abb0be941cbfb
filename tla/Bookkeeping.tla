----------------------------- MODULE Bookkeeping -----------------------------
(***************************************************************************)
(* What the server writes to PostgreSQL besides the graph: its start       *)
(* (cmd/server/main.go: pool, migrations, schema version), the snapshot    *)
(* records and audit entries of Create and Delete, the sync logs, and the  *)
(* tool cmd/migrate-data, which registers archives that have no record.    *)
(* The server may stop at any step, PostgreSQL may be away for a while, and*)
(* the tool may run beside the server.                                     *)
(*                                                                         *)
(* The graph appears as the number of the last completed write, archives   *)
(* as files that are cut short or whole.                                   *)
(***************************************************************************)
EXTENDS AuditLog

CONSTANTS Procs,        \* goroutines of the server
          Names,        \* names of snapshots
          Versions,     \* results of computeSchemaVersion, by ontology
          MaxInteger,   \* the largest value of PostgreSQL's INTEGER
          Jobs,         \* the operations the goroutines call
          MaxCalls, MaxBoots, MaxOutages   \* bounds

ASSUME BookkeepingAssumption ==
    /\ Versions \subseteq Nat /\ Versions # {} /\ MaxInteger \in Nat
    /\ Names # {}
    /\ Jobs \subseteq {"create", "delete", "sync"}
    /\ MaxCalls \in Nat /\ MaxBoots \in Nat /\ MaxOutages \in Nat

VARIABLES pgUp, outages,
          migrated,     \* the tables exist
          server,       \* "down", "connecting", "versioning" or "up"
          pool,         \* pgPool is not nil
          boots,
          ontology,     \* computeSchemaVersion of the loaded ontology
          versions,     \* the table schema_versions
          files,        \* files[n]: "none", "part" or "whole" archive
          rows,         \* the table snapshots: who wrote the record of n, or
                        \* why there is none
          pc, arg,      \* pc[p], arg[p]: step and snapshot of the call of p
          started,      \* started[p]: when the FullSync of p began
          clock, calls,
          holder,       \* the holder of the GraphLock's write side
          live,         \* number of the last completed write of the graph
          logs,         \* the table sync_logs, in the order of its ids
          tool,         \* the migration: its step, files to do, and the
                        \* names behind its statistics
          excused       \* audit entries hit by an outage or a stop

startVars == <<server, pool, boots, ontology>>
tables    == <<versions, rows, logs>>
pgVars    == <<pgUp, outages, migrated>>
syncVars  == <<started, clock, holder, live>>
vars == <<auditVars, startVars, tables, pgVars, syncVars, files, pc, arg, calls,
          tool, excused>>

Nobody    == "nobody"
ASSUME NobodyAssumption == Nobody \notin Procs

Reachable == pgUp /\ migrated
Absent    == {"none", "deleted"}

Init ==
    /\ AuditInit
    /\ pgUp = TRUE /\ outages = 0 /\ migrated = FALSE
    /\ server = "down" /\ pool = FALSE /\ boots = 0
    /\ ontology = CHOOSE v \in Versions : TRUE
    /\ versions = {} /\ logs = <<>>
    /\ files \in [Names -> {"none", "whole"}]
    /\ rows = [n \in Names |-> "none"]
    /\ pc = [p \in Procs |-> "idle"] /\ arg = [p \in Procs |-> CHOOSE n \in Names : TRUE]
    /\ started = [p \in Procs |-> 0] /\ clock = 0 /\ calls = 0
    /\ holder = Nobody /\ live = 0
    /\ tool = [at |-> "waiting", todo |-> {}, name |-> Nobody,
               scanned |-> {}, created |-> {}, skipped |-> {}, failed |-> {}]
    /\ excused = {}

-----------------------------------------------------------------------------
(* The start of the server. *)

\* NewPGPool pings; without an answer the server goes on without a pool.
Start ==
    /\ server = "down" /\ boots < MaxBoots
    /\ boots' = boots + 1
    /\ ontology' \in Versions
    /\ pool' = pgUp
    /\ server' = IF pgUp THEN "connecting" ELSE "up"
    /\ UNCHANGED <<auditVars, tables, pgVars, syncVars, files, pc, arg, calls, tool, excused>>

\* RunMigrations: a failure is logged, and the pool is used all the same.
Migrate ==
    /\ server = "connecting"
    /\ migrated' = (migrated \/ pgUp)
    /\ server' = "versioning"
    /\ UNCHANGED <<auditVars, tables, pgUp, outages, pool, boots, ontology, syncVars,
                   files, pc, arg, calls, tool, excused>>

\* Latest is the row of the largest version; its error is ignored, so the
\* INSERT is tried then too, and it fails when the version is there already
\* or too large.
Latest == {v \in versions : Reachable /\ \A w \in versions : v >= w}

\* Mutant: only a larger hash counts as a change.
RecordVersionNewer ==
    /\ server = "versioning"
    /\ versions' = IF /\ Reachable /\ ontology <= MaxInteger
                      /\ \A v \in Latest : v < ontology
                   THEN versions \cup {ontology} ELSE versions
    /\ server' = "up"
    /\ UNCHANGED <<auditVars, rows, logs, pgVars, pool, boots, ontology, syncVars,
                   files, pc, arg, calls, tool, excused>>
RecordVersion ==
    /\ server = "versioning"
    /\ versions' = IF ontology \notin Latest /\ Reachable /\ ontology <= MaxInteger
                   THEN versions \cup {ontology} ELSE versions
    /\ server' = "up"
    /\ UNCHANGED <<auditVars, rows, logs, pgVars, pool, boots, ontology, syncVars,
                   files, pc, arg, calls, tool, excused>>

Stop ==
    /\ server # "down"
    /\ server' = "down" /\ pool' = FALSE
    /\ AuditLost
    /\ excused' = excused \cup flying
    /\ pc' = [p \in Procs |-> "idle"]
    /\ holder' = Nobody
    /\ UNCHANGED <<boots, ontology, tables, pgVars, started, clock, live, files,
                   arg, calls, tool>>

PgDown ==
    /\ pgUp /\ outages < MaxOutages
    /\ pgUp' = FALSE /\ outages' = outages + 1
    /\ excused' = excused \cup flying
    /\ UNCHANGED <<auditVars, startVars, tables, migrated, syncVars, files, pc, arg, calls, tool>>

PgUp ==
    /\ ~pgUp
    /\ pgUp' = TRUE
    /\ UNCHANGED <<auditVars, startVars, tables, outages, migrated, syncVars, files, pc, arg,
                   calls, tool, excused>>

-----------------------------------------------------------------------------
(* Snapshots and their audit entries. *)

Call(p, job, n) ==
    /\ server = "up" /\ pc[p] = "idle" /\ calls < MaxCalls
    /\ calls' = calls + 1
    /\ pc' = [pc EXCEPT ![p] = job]
    /\ arg' = [arg EXCEPT ![p] = n]
    /\ UNCHANGED <<auditVars, startVars, tables, pgVars, syncVars, files, tool, excused>>

CreateFile(p) ==
    /\ pc[p] = "create" /\ holder = Nobody
    /\ files' = [files EXCEPT ![arg[p]] = "part"]
    /\ pc' = [pc EXCEPT ![p] = "flush"]
    /\ UNCHANGED <<auditVars, startVars, tables, pgVars, syncVars, arg, calls, tool, excused>>

CreateFlush(p) ==
    /\ pc[p] = "flush"
    /\ files' = [files EXCEPT ![arg[p]] = "whole"]
    /\ pc' = [pc EXCEPT ![p] = "insert"]
    /\ UNCHANGED <<auditVars, startVars, tables, pgVars, syncVars, arg, calls, tool, excused>>

\* repo.Create: its failure, a name that has a record too, is only logged.
CreateRow(p) ==
    /\ pc[p] = "insert"
    /\ rows' = IF pool /\ Reachable /\ rows[arg[p]] \in Absent
               THEN [rows EXCEPT ![arg[p]] = "server"] ELSE rows
    /\ pc' = [pc EXCEPT ![p] = "created"]
    /\ UNCHANGED <<auditVars, startVars, versions, logs, pgVars, syncVars, files, arg,
                   calls, tool, excused>>

\* Delete removes the record and leaves the archive.
DeleteRow(p) ==
    /\ pc[p] = "delete"
    /\ rows' = IF pool /\ Reachable /\ rows[arg[p]] # "none"
               THEN [rows EXCEPT ![arg[p]] = "deleted"] ELSE rows
    /\ pc' = [pc EXCEPT ![p] = "deleted"]
    /\ UNCHANGED <<auditVars, startVars, versions, logs, pgVars, syncVars, files, arg,
                   calls, tool, excused>>

\* The deferred Record; a goroutine that starts without tables is excused.
Audit(p) ==
    /\ pc[p] \in {"created", "deleted"}
    /\ Record(IF pc[p] = "created" THEN "create" ELSE "delete", arg[p], pool)
    /\ excused' = IF pool /\ Reachable THEN excused
                  ELSE excused \cup {recorded'[Len(recorded')]}
    /\ pc' = [pc EXCEPT ![p] = "idle"]
    /\ UNCHANGED <<startVars, tables, pgVars, syncVars, files, arg, calls, tool>>

PersistEntry(e) ==
    /\ Reachable /\ Persist(e)
    /\ UNCHANGED <<startVars, tables, pgVars, syncVars, files, pc, arg, calls, tool, excused>>

GiveUpEntry(e) ==
    /\ ~Reachable /\ GiveUp(e)
    /\ UNCHANGED <<startVars, tables, pgVars, syncVars, files, pc, arg, calls, tool, excused>>

-----------------------------------------------------------------------------
(* FullSync as far as its log is concerned. *)

\* start is taken before the lock is asked for.
SyncBegin(p) ==
    /\ pc[p] = "sync"
    /\ clock' = clock + 1 /\ started' = [started EXCEPT ![p] = clock + 1]
    /\ pc' = [pc EXCEPT ![p] = "lock"]
    /\ UNCHANGED <<auditVars, startVars, tables, pgVars, holder, live, files, arg, calls,
                   tool, excused>>

SyncLock(p) ==
    /\ pc[p] = "lock" /\ holder = Nobody
    /\ \A q \in Procs : pc[q] \notin {"flush", "insert"}
    /\ holder' = p
    /\ pc' = [pc EXCEPT ![p] = "write"]
    /\ UNCHANGED <<auditVars, startVars, tables, pgVars, started, clock, live, files, arg,
                   calls, tool, excused>>

\* ClearDB, collection and BulkCreate, which may fail: a failed log then.
SyncWrite(p) ==
    /\ pc[p] = "write"
    /\ \/ live' = live + 1 /\ pc' = [pc EXCEPT ![p] = "success"]
       \/ UNCHANGED live /\ pc' = [pc EXCEPT ![p] = "failed"]
    /\ UNCHANGED <<auditVars, startVars, tables, pgVars, started, clock, holder, files, arg,
                   calls, tool, excused>>

\* Mutant: the log is written after the deferred Unlock.
SyncLogUnlocked(p) ==
    \/ /\ pc[p] \in {"success", "failed"} /\ holder = p
       /\ holder' = Nobody
       /\ UNCHANGED <<auditVars, startVars, tables, pgVars, started, clock, live, files, pc,
                      arg, calls, tool, excused>>
    \/ /\ pc[p] \in {"success", "failed"} /\ holder # p
       /\ logs' = Append(logs, [status |-> pc[p], start |-> started[p], write |-> live])
       /\ pc' = [pc EXCEPT ![p] = "idle"]
       /\ UNCHANGED <<auditVars, startVars, versions, rows, pgVars, started, clock, live,
                      holder, files, arg, calls, tool, excused>>

\* recordSyncLog under the lock, with the caller's context: lost when that is
\* cancelled, when there is no repository, and when PostgreSQL is away.
SyncLog(p) ==
    /\ pc[p] \in {"success", "failed"}
    /\ logs' \in {logs} \cup
         IF pool /\ Reachable
         THEN {Append(logs, [status |-> pc[p], start |-> started[p], write |-> live])}
         ELSE {}
    /\ holder' = Nobody
    /\ pc' = [pc EXCEPT ![p] = "idle"]
    /\ UNCHANGED <<auditVars, startVars, versions, rows, pgVars, started, clock, live, files,
                   arg, calls, tool, excused>>

-----------------------------------------------------------------------------
(* cmd/migrate-data. *)

\* The tool exits when it finds no PostgreSQL; the walk sees the files that
\* exist when it comes to the directory.
ToolStart ==
    /\ tool.at = "waiting" /\ pgUp
    /\ migrated' = TRUE
    /\ tool' = [tool EXCEPT !.at = "walk", !.todo = {n \in Names : files[n] # "none"}]
    /\ UNCHANGED <<auditVars, startVars, tables, pgUp, outages, syncVars, files, pc, arg,
                   calls, excused>>

\* ImportMetaOnly reads the first document, which a file cut short may have.
ToolRead(n) ==
    /\ tool.at = "walk" /\ n \in tool.todo
    /\ \/ tool' = [tool EXCEPT !.at = "insert", !.name = n, !.todo = @ \ {n},
                               !.scanned = @ \cup {n}]
       \/ /\ files[n] = "part"
          /\ tool' = [tool EXCEPT !.todo = @ \ {n}, !.scanned = @ \cup {n},
                                  !.failed = @ \cup {n}]
    /\ UNCHANGED <<auditVars, startVars, tables, pgVars, syncVars, files, pc, arg, calls,
                   excused>>

\* Mutant: an existing record is overwritten.
ToolInsertOver ==
    /\ tool.at = "insert"
    /\ rows' = IF pgUp THEN [rows EXCEPT ![tool.name] = "tool"] ELSE rows
    /\ tool' = IF pgUp THEN [tool EXCEPT !.at = "walk", !.created = @ \cup {tool.name}]
               ELSE [tool EXCEPT !.at = "walk", !.failed = @ \cup {tool.name}]
    /\ UNCHANGED <<auditVars, startVars, versions, logs, pgVars, syncVars, files, pc, arg,
                   calls, excused>>

ToolInsert ==
    /\ tool.at = "insert"
    /\ \/ /\ pgUp /\ rows[tool.name] \in Absent
          /\ rows' = [rows EXCEPT ![tool.name] = "tool"]
          /\ tool' = [tool EXCEPT !.at = "walk", !.created = @ \cup {tool.name}]
       \/ /\ pgUp /\ rows[tool.name] \notin Absent
          /\ tool' = [tool EXCEPT !.at = "walk", !.skipped = @ \cup {tool.name}]
          /\ UNCHANGED rows
       \/ /\ ~pgUp
          /\ tool' = [tool EXCEPT !.at = "walk", !.failed = @ \cup {tool.name}]
          /\ UNCHANGED rows
    /\ UNCHANGED <<auditVars, startVars, versions, logs, pgVars, syncVars, files, pc, arg,
                   calls, excused>>

ToolDone ==
    /\ tool.at = "walk" /\ tool.todo = {}
    /\ tool' = [tool EXCEPT !.at = "done"]
    /\ UNCHANGED <<auditVars, startVars, tables, pgVars, syncVars, files, pc, arg, calls,
                   excused>>
-----------------------------------------------------------------------------
ServerStep(p) ==
    \/ \E job \in Jobs, n \in Names : Call(p, job, n)
    \/ CreateFile(p) \/ CreateFlush(p) \/ CreateRow(p) \/ DeleteRow(p) \/ Audit(p)
    \/ SyncBegin(p) \/ SyncLock(p) \/ SyncWrite(p) \/ SyncLog(p)

Goroutine == \E e \in flying : PersistEntry(e) \/ GiveUpEntry(e)

Migration == ToolStart \/ (\E n \in Names : ToolRead(n)) \/ ToolInsert \/ ToolDone

Next ==
    \/ Start \/ Migrate \/ RecordVersion \/ Stop
    \/ PgDown \/ PgUp
    \/ \E p \in Procs : ServerStep(p)
    \/ Goroutine
    \/ Migration

Spec == Init /\ [][Next]_vars

-----------------------------------------------------------------------------
TypeOK ==
    /\ server \in {"down", "connecting", "versioning", "up"}
    /\ pool \in BOOLEAN /\ pgUp \in BOOLEAN /\ migrated \in BOOLEAN
    /\ versions \subseteq Versions \cap (0..MaxInteger)
    /\ files \in [Names -> {"none", "part", "whole"}]
    /\ rows \in [Names -> {"none", "deleted", "server", "tool"}]
    /\ holder \in Procs \cup {Nobody}
    /\ holder # Nobody => pc[holder] \in {"write", "success", "failed"}
    /\ flying \cup auditRows \cup excused \subseteq ToSet(recorded)
    /\ flying \cap auditRows = {}

\* Every operation's audit entry is in the table or on its way, unless the
\* server had no pool or an outage or a stop came between the operation and
\* its row: nothing else, eviction above all, loses an entry.
AuditComplete == ToSet(recorded) \subseteq auditRows \cup flying \cup excused

\* What Query and Recent show is the newest MaxEntries of this process, and
\* every entry of that window that the table shows.
AuditReads == WindowKept /\ MemoryAhead({"create", "delete"}, Names)

\* The trail of the snapshot operations has no hole, neither in memory nor in
\* the table.
AuditTrail == AuditComplete /\ AuditReads

\* A server that came up with a pool and without an outage has its ontology's
\* version on record if and only if PostgreSQL's INTEGER holds it, also when an
\* earlier ontology's hash is larger.  computeSchemaVersion yields any number of
\* 32 bits and INTEGER has 31, so every other ontology has no record ever.
VersionRecorded ==
    server = "up" /\ pool /\ outages = 0
        => (ontology \in versions <=> ontology <= MaxInteger)

\* Does not hold: such a server has its version on record, whatever it is.  The
\* INSERT of a number beyond INTEGER fails, and the failure is only logged.
EveryVersionRecorded ==
    server = "up" /\ pool /\ outages = 0 => ontology \in versions

\* The sync logs of successful runs have the order of the writes they report:
\* a later row never describes an earlier state of the graph.
LogsFollowWrites ==
    \A i, j \in DOMAIN logs :
        i < j /\ logs[i].status = "success" /\ logs[j].status = "success"
            => logs[i].write < logs[j].write

\* What the tool's statistics add up to: every file it scanned is counted
\* once, and a name it created or skipped has had a record since.
MigrationAdds ==
    /\ tool.at \in {"walk", "done"} =>
          tool.scanned = tool.created \cup tool.skipped \cup tool.failed
    /\ tool.created \cap tool.skipped = {} /\ tool.created \cap tool.failed = {}
    /\ \A n \in tool.created \cup tool.skipped : rows[n] # "none"

\* The tool accounts for every archive and never takes over a record of the
\* server, which may create and delete snapshots while it runs.
MigrationFaithful ==
    /\ []MigrationAdds
    /\ [][\A n \in Names : rows[n] = "server" => rows'[n] # "tool"]_vars
=============================================================================
