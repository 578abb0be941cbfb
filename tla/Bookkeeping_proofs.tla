------------------------- MODULE Bookkeeping_proofs -------------------------
(***************************************************************************)
(* The records in PostgreSQL, for any number of goroutines, snapshots,     *)
(* restarts and outages: the schema version is on record, the sync logs    *)
(* follow the order of the writes, no audit entry is lost but to an outage *)
(* or a stop, and the migration tool accounts for every archive and takes  *)
(* over no record of the server.                                           *)
(***************************************************************************)
EXTENDS Bookkeeping, FiniteSetTheorems, SequenceTheorems, TLAPS

Steps == {"idle", "create", "flush", "insert", "created", "delete", "deleted",
          "sync", "lock", "write", "success", "failed"}

SyncLogs == [status : {"success", "failed"}, start : Nat, write : Nat]

Statistics == [at : {"waiting", "walk", "insert", "done"}, todo : SUBSET Names,
               name : Names \cup {Nobody}, scanned : SUBSET Names, created : SUBSET Names,
               skipped : SUBSET Names, failed : SUBSET Names]

\* The tables and what the writers of them hold.
RecordTypes ==
    /\ rows \in [Names -> {"none", "deleted", "server", "tool"}]
    /\ pc \in [Procs -> Steps] /\ arg \in [Procs -> Names]
    /\ started \in [Procs -> Nat] /\ clock \in Nat /\ live \in Nat
    /\ logs \in Seq(SyncLogs)
    /\ outages \in Nat
    /\ tool \in Statistics

\* Every version on record fits INTEGER.  Without an outage PostgreSQL answers,
\* so a server that has a pool and got as far as the version has the tables, and
\* one that is up has its version if it fits.
StartedWell ==
    /\ \A v \in versions : v <= MaxInteger
    /\ outages = 0 =>
         /\ pgUp
         /\ pool /\ server \in {"versioning", "up"} => migrated
         /\ pool /\ server = "up" /\ ontology <= MaxInteger => ontology \in versions

\* Who has written, or failed to, holds the lock until the log is written, and
\* what was logged before is older than its write.
LogsUnderLock ==
    /\ \A p \in Procs : pc[p] \in {"write", "success", "failed"} => holder = p
    /\ \A i \in DOMAIN logs : logs[i].status = "success" =>
         /\ logs[i].write <= live
         /\ \A p \in Procs : pc[p] = "success" => logs[i].write < live
    /\ LogsFollowWrites

\* The tool's books at every step; the name in hand is counted when its record
\* is tried.
Counted == tool.created \cup tool.skipped \cup tool.failed
ToolBooks ==
    /\ tool.at = "waiting" => tool.scanned = {} /\ tool.todo = {}
    /\ tool.todo \cap tool.scanned = {}
    /\ tool.scanned = Counted \cup (IF tool.at = "insert" THEN {tool.name} ELSE {})
    /\ tool.at = "insert" => tool.name \in Names \ Counted
    /\ tool.created \cap tool.skipped = {} /\ tool.created \cap tool.failed = {}
    /\ \A n \in tool.created \cup tool.skipped : rows[n] # "none"

Books == RecordTypes /\ StartedWell /\ LogsUnderLock /\ ToolBooks

Entry == [at : Nat, action : {"create", "delete"}, snapshot : Names]

\* The list s is what was recorded in r after the first b, or the last n of it.
WindowOf(s, r, b, n) ==
    /\ s \in Seq(Entry)
    /\ Len(s) = IF Len(r) - b > n THEN n ELSE Len(r) - b
    /\ \A i \in 1..Len(s) : s[i] = r[Len(r) - Len(s) + i]

\* The list in memory is the end of what this process recorded.
Window == WindowOf(entries, recorded, booted, MaxEntries)

\* Entries are numbered, and one on its way is excused when there is nobody to
\* take it.
AuditInv ==
    /\ recorded \in Seq(Entry) /\ booted \in 0..Len(recorded)
    /\ \A i \in 1..Len(recorded) : recorded[i].at = i
    /\ flying \cup auditRows \subseteq ToSet(recorded)
    /\ AuditComplete
    /\ ~Reachable => flying \subseteq excused
    /\ Window

-----------------------------------------------------------------------------
(* The types, and the frames: which steps touch what.                       *)

\* At the start nothing is written and nobody works.
LEMMA BooksInit == Init => Books
<1> SUFFICES ASSUME Init PROVE Books
  OBVIOUS
<1> USE BookkeepingAssumption DEF Init
<1>1. RecordTypes
  BY EmptySeq DEF RecordTypes, Steps, Statistics, Nobody
<1>2. StartedWell /\ LogsUnderLock /\ ToolBooks
  BY DEF StartedWell, LogsUnderLock, LogsFollowWrites, ToolBooks, Counted
<1>3. QED
  BY <1>1, <1>2 DEF Books

\* A step of a goroutine of the server.
LEMMA TypesOfServer ==
    ASSUME RecordTypes, NEW p \in Procs, ServerStep(p)
    PROVE  RecordTypes'
<1> USE DEF RecordTypes, Steps, syncVars, tables, pgVars, auditVars, startVars
<1>1. ASSUME NEW job \in Jobs, NEW n \in Names, Call(p, job, n) PROVE RecordTypes'
  BY <1>1, BookkeepingAssumption DEF Call
<1>2. CASE CreateFile(p)
  BY <1>2 DEF CreateFile
<1>3. CASE CreateFlush(p)
  BY <1>3 DEF CreateFlush
<1>4. CASE CreateRow(p)
  BY <1>4 DEF CreateRow
<1>5. CASE DeleteRow(p)
  BY <1>5 DEF DeleteRow
<1>6. CASE Audit(p)
  BY <1>6 DEF Audit
<1>7. CASE SyncBegin(p)
  BY <1>7 DEF SyncBegin
<1>8. CASE SyncLock(p)
  BY <1>8 DEF SyncLock
<1>9. CASE SyncWrite(p)
  <2>1. \/ live' = live + 1 /\ pc' = [pc EXCEPT ![p] = "success"]
        \/ live' = live /\ pc' = [pc EXCEPT ![p] = "failed"]
    BY <1>9 DEF SyncWrite
  <2>2. UNCHANGED <<rows, arg, started, clock, logs, outages, tool>>
    BY <1>9 DEF SyncWrite
  <2>3. live' \in Nat
    BY <2>1
  <2>5. pc' \in [Procs -> Steps]
    BY <2>1, Zenon
  <2>4. QED
    BY <2>2, <2>3, <2>5
<1>10. CASE SyncLog(p)
  <2>1. /\ pc[p] \in {"success", "failed"} /\ pc' \in [Procs -> Steps]
        /\ UNCHANGED <<rows, arg, started, clock, live, outages, tool>>
    BY <1>10 DEF SyncLog
  <2> PICK row : row = [status |-> pc[p], start |-> started[p], write |-> live]
    OBVIOUS
  <2>2. row \in SyncLogs
    BY <2>1 DEF SyncLogs
  <2>3. Append(logs, row) \in Seq(SyncLogs)
    BY <2>2, AppendProperties
  <2>4. logs' = logs \/ logs' = Append(logs, row)
    BY <1>10 DEF SyncLog
  <2>5. logs' \in Seq(SyncLogs)
    BY <2>3, <2>4
  <2>6. QED
    BY <2>1, <2>5
<1>11. QED
  BY <1>1, <1>2, <1>3, <1>4, <1>5, <1>6, <1>7, <1>8, <1>9, <1>10 DEF ServerStep

\* Every step keeps the types of the records.
LEMMA TypesKept == RecordTypes /\ ToolBooks /\ [Next]_vars => RecordTypes'
<1> SUFFICES ASSUME RecordTypes, ToolBooks, [Next]_vars PROVE RecordTypes'
  OBVIOUS
<1>1. ASSUME NEW p \in Procs, ServerStep(p) PROVE RecordTypes'
  BY <1>1, TypesOfServer
<1>2. CASE Start \/ Migrate \/ RecordVersion \/ PgDown \/ PgUp \/ Stop \/ UNCHANGED vars
  BY <1>2 DEF RecordTypes, Steps, syncVars, tables, pgVars, startVars, vars, Start, Migrate,
              RecordVersion, PgDown, PgUp, Stop
<1>3. ASSUME NEW e \in flying, PersistEntry(e) \/ GiveUpEntry(e) PROVE RecordTypes'
  BY <1>3 DEF RecordTypes, syncVars, tables, pgVars, PersistEntry, GiveUpEntry
<1>4. CASE Migration
  <2> USE DEF RecordTypes, syncVars, tables, pgVars
  <2>1. CASE ToolStart
    <3> PICK todo \in SUBSET Names : todo = {n \in Names : files[n] # "none"}
      OBVIOUS
    <3>1. tool' = [tool EXCEPT !.at = "walk", !.todo = todo]
      BY <2>1 DEF ToolStart
    <3>2. tool' \in Statistics
      BY <3>1 DEF Statistics
    <3>3. QED
      BY <2>1, <3>2 DEF ToolStart
  <2>2. ASSUME NEW n \in Names, ToolRead(n) PROVE RecordTypes'
    <3>0. n \in Names /\ tool.scanned \cup {n} \in SUBSET Names /\ tool.todo \ {n} \in SUBSET Names
          /\ tool.failed \cup {n} \in SUBSET Names
      BY DEF Statistics
    <3> PICK scanned \in SUBSET Names, todo \in SUBSET Names, failed \in SUBSET Names :
           scanned = tool.scanned \cup {n} /\ todo = tool.todo \ {n} /\ failed = tool.failed \cup {n}
      BY <3>0
    <3>4. \/ tool' = [tool EXCEPT !.at = "insert", !.name = n, !.todo = todo, !.scanned = scanned]
          \/ tool' = [tool EXCEPT !.todo = todo, !.scanned = scanned, !.failed = failed]
      BY <2>2 DEF ToolRead
    <3>1. tool' \in Statistics
      BY <3>4 DEF Statistics
    <3>2. QED
      BY <2>2, <3>1 DEF ToolRead
  <2>3. CASE ToolInsert
    <3>0. tool.name \in Names
      BY <2>3 DEF ToolInsert, ToolBooks
    <3> PICK created \in SUBSET Names, skipped \in SUBSET Names, failed \in SUBSET Names :
           /\ created = tool.created \cup {tool.name} /\ skipped = tool.skipped \cup {tool.name}
           /\ failed = tool.failed \cup {tool.name}
      BY <3>0 DEF Statistics
    <3>4. \/ tool' = [tool EXCEPT !.at = "walk", !.created = created]
          \/ tool' = [tool EXCEPT !.at = "walk", !.skipped = skipped]
          \/ tool' = [tool EXCEPT !.at = "walk", !.failed = failed]
      BY <2>3 DEF ToolInsert
    <3>1. tool' \in Statistics
      BY <3>4 DEF Statistics
    <3>2. rows' \in [Names -> {"none", "deleted", "server", "tool"}]
      BY <2>3 DEF ToolInsert
    <3>3. QED
      BY <2>3, <3>1, <3>2 DEF ToolInsert
  <2>4. CASE ToolDone
    <3>1. tool' \in Statistics
      BY <2>4 DEF ToolDone, Statistics
    <3>2. QED
      BY <2>4, <3>1 DEF ToolDone
  <2>5. QED
    BY <1>4, <2>1, <2>2, <2>3, <2>4 DEF Migration
<1>5. QED
  BY <1>1, <1>2, <1>3, <1>4 DEF Next, Goroutine

-----------------------------------------------------------------------------
(* The start of the server.                                                 *)

\* Every step keeps what a server has found by the time it is up.
LEMMA StartedKept == RecordTypes /\ StartedWell /\ [Next]_vars => StartedWell'
<1> SUFFICES ASSUME RecordTypes, StartedWell, [Next]_vars PROVE StartedWell'
  OBVIOUS
<1>0. outages \in Nat
  BY DEF RecordTypes
<1>9. CASE Start
  <2>1. UNCHANGED <<pgVars, versions>> /\ pool' = pgUp /\ (pgUp => server' = "connecting")
    BY <1>9 DEF Start, tables
  <2>2. QED
    BY <2>1 DEF StartedWell, pgVars
<1>10. CASE Migrate
  BY <1>10 DEF StartedWell, Migrate, tables
<1>11. CASE Stop
  BY <1>11 DEF StartedWell, Stop, pgVars, tables
<1>12. CASE PgUp
  BY <1>12 DEF StartedWell, PgUp, startVars, tables
<1>13. CASE ToolStart
  BY <1>13 DEF StartedWell, ToolStart, startVars, tables
<1>2. CASE PgDown
  BY <1>0, <1>2 DEF StartedWell, PgDown, tables
<1>3. CASE RecordVersion
  <2>1. UNCHANGED <<pgVars, pool, ontology>> /\ versions \subseteq versions'
    BY <1>3 DEF RecordVersion
  <2>2. ontology \notin Latest /\ Reachable /\ ontology <= MaxInteger => ontology \in versions'
    BY <1>3 DEF RecordVersion
  <2>3. ontology \in Latest => ontology \in versions
    BY DEF Latest
  <2>4. server = "versioning"
    BY <1>3 DEF RecordVersion
  <2>5. \A v \in versions' : v <= MaxInteger
    BY <1>3 DEF RecordVersion, StartedWell
  <2>6. QED
    BY <2>1, <2>2, <2>3, <2>4, <2>5 DEF StartedWell, pgVars, Reachable
<1>4. CASE UNCHANGED <<startVars, versions, pgVars>>
  BY <1>4 DEF StartedWell, startVars, pgVars
<1>5. ASSUME NEW p \in Procs, ServerStep(p) PROVE UNCHANGED <<startVars, versions, pgVars>>
  BY <1>5 DEF ServerStep, Call, CreateFile, CreateFlush, CreateRow, DeleteRow, Audit, SyncBegin,
              SyncLock, SyncWrite, SyncLog, startVars, pgVars, tables
<1>6. ASSUME NEW e \in flying, PersistEntry(e) \/ GiveUpEntry(e)
      PROVE  UNCHANGED <<startVars, versions, pgVars>>
  BY <1>6 DEF PersistEntry, GiveUpEntry, startVars, pgVars, tables
<1>7. ASSUME ToolInsert \/ ToolDone \/ (\E n \in Names : ToolRead(n)) \/ UNCHANGED vars
      PROVE  UNCHANGED <<startVars, versions, pgVars>>
  BY <1>7 DEF ToolInsert, ToolDone, ToolRead, vars, startVars, pgVars, tables
<1>8. QED
  BY <1>2, <1>3, <1>4, <1>5, <1>6, <1>7, <1>9, <1>10, <1>11, <1>12, <1>13
     DEF Next, Goroutine, Migration

-----------------------------------------------------------------------------
(* The sync logs.                                                           *)

\* Steps that leave the syncs alone.
LEMMA LogsFrame ==
    ASSUME LogsUnderLock, UNCHANGED <<logs, live, holder>>,
           \A p \in Procs : pc'[p] \in {"write", "success", "failed"} => pc[p] = pc'[p]
    PROVE  LogsUnderLock'
BY DEF LogsUnderLock, LogsFollowWrites

\* A log that is written reports the last write, and nobody else is at one.
LEMMA LogWritten ==
    ASSUME RecordTypes, LogsUnderLock, NEW p \in Procs, SyncLog(p)
    PROVE  LogsUnderLock'
<1>1. /\ pc[p] \in {"success", "failed"} /\ pc' = [pc EXCEPT ![p] = "idle"]
      /\ live' = live /\ holder' = Nobody
  BY DEF SyncLog
<1>2. \A q \in Procs : pc'[q] \notin {"write", "success", "failed"}
  <2>1. \A q \in Procs : q # p => pc[q] \notin {"write", "success", "failed"}
    BY <1>1 DEF LogsUnderLock
  <2>2. QED
    BY <1>1, <2>1 DEF RecordTypes
<1>3. CASE logs' = logs
  BY <1>1, <1>2, <1>3 DEF LogsUnderLock, LogsFollowWrites
<1>4. CASE logs' = Append(logs, [status |-> pc[p], start |-> started[p], write |-> live])
  <2> PICK row : row = [status |-> pc[p], start |-> started[p], write |-> live]
    OBVIOUS
  <2>1. row \in SyncLogs /\ row.write = live /\ row.status = pc[p] /\ live \in Nat
    BY <1>1 DEF SyncLogs, RecordTypes
  <2>2. logs \in Seq(SyncLogs) /\ logs' = Append(logs, row)
    BY <1>4 DEF RecordTypes
  <2>3. /\ DOMAIN logs = 1..Len(logs) /\ DOMAIN logs' = 1..(Len(logs) + 1) /\ Len(logs) \in Nat
        /\ \A i \in 1..Len(logs) : logs'[i] = logs[i]
        /\ logs'[Len(logs) + 1] = row
    <3>1. logs' \in Seq(SyncLogs) /\ Len(logs') = Len(logs) + 1
      BY <2>1, <2>2, AppendProperties
    <3>2. DOMAIN logs' = 1..Len(logs') /\ DOMAIN logs = 1..Len(logs) /\ Len(logs) \in Nat
      BY <2>2, <3>1, LenProperties
    <3>3. QED
      BY <2>1, <2>2, <3>1, <3>2, AppendProperties
  <2>4. \A i \in DOMAIN logs' : logs'[i].status = "success" => logs'[i].write <= live'
    BY <1>1, <2>1, <2>3 DEF LogsUnderLock
  <2>5. LogsFollowWrites'
    <3> SUFFICES ASSUME NEW i \in DOMAIN logs', NEW j \in DOMAIN logs',
                        i < j, logs'[i].status = "success", logs'[j].status = "success"
                 PROVE  logs'[i].write < logs'[j].write
      BY DEF LogsFollowWrites
    <3>1. i \in DOMAIN logs /\ logs'[i] = logs[i]
      BY <2>3
    <3>2. CASE j \in DOMAIN logs
      BY <2>3, <3>1, <3>2 DEF LogsUnderLock, LogsFollowWrites
    <3>3. CASE j \notin DOMAIN logs
      <4>1. j = Len(logs) + 1 /\ logs'[j] = row
        BY <2>3, <3>3
      <4>2. pc[p] = "success"
        BY <2>1, <4>1
      <4>3. QED
        BY <2>1, <3>1, <4>1, <4>2 DEF LogsUnderLock
    <3>4. QED
      BY <3>2, <3>3
  <2>6. QED
    BY <1>1, <1>2, <2>4, <2>5 DEF LogsUnderLock
<1>5. QED
  BY <1>3, <1>4 DEF SyncLog

\* Every step keeps the logs in the order of the writes under the lock.
LEMMA LogsKept == RecordTypes /\ LogsUnderLock /\ [Next]_vars => LogsUnderLock'
<1> SUFFICES ASSUME RecordTypes, LogsUnderLock, [Next]_vars PROVE LogsUnderLock'
  OBVIOUS
<1>0. pc \in [Procs -> Steps] /\ live \in Nat
  BY DEF RecordTypes
<1>1. ASSUME NEW p \in Procs,
             \/ \E job \in Jobs, n \in Names : Call(p, job, n)
             \/ CreateFile(p) \/ CreateFlush(p) \/ CreateRow(p) \/ DeleteRow(p)
             \/ Audit(p) \/ SyncBegin(p)
      PROVE  LogsUnderLock'
  <2>1. UNCHANGED <<logs, live, holder>>
    BY <1>1 DEF Call, CreateFile, CreateFlush, CreateRow, DeleteRow, Audit, SyncBegin, syncVars,
                tables
  <2>2. PICK s \in Steps \ {"write", "success", "failed"} : pc' = [pc EXCEPT ![p] = s]
    BY <1>1, BookkeepingAssumption
       DEF Call, CreateFile, CreateFlush, CreateRow, DeleteRow, Audit, SyncBegin, Steps
  <2>3. QED
    BY <1>0, <2>1, <2>2, LogsFrame
<1>2. ASSUME NEW p \in Procs, SyncLock(p) PROVE LogsUnderLock'
  <2>1. /\ pc' = [pc EXCEPT ![p] = "write"] /\ holder' = p /\ holder = Nobody
        /\ UNCHANGED <<logs, live>>
    BY <1>2 DEF SyncLock, tables
  <2>2. \A q \in Procs : pc[q] \notin {"write", "success", "failed"}
    BY <2>1, NobodyAssumption DEF LogsUnderLock
  <2>3. QED
    BY <1>0, <2>1, <2>2 DEF LogsUnderLock, LogsFollowWrites
<1>3. ASSUME NEW p \in Procs, SyncWrite(p) PROVE LogsUnderLock'
  <2>1. pc[p] = "write" /\ UNCHANGED <<logs, holder>> /\ holder = p
    BY <1>3 DEF SyncWrite, tables, LogsUnderLock
  <2>2. \A q \in Procs : pc[q] \in {"write", "success", "failed"} => q = p
    BY <2>1 DEF LogsUnderLock
  <2>3. \A i \in DOMAIN logs : logs[i] \in SyncLogs
    BY ElementOfSeq, LenProperties DEF RecordTypes
  <2>4. \A i \in DOMAIN logs : logs[i].write \in Nat
    BY <2>3 DEF SyncLogs
  <2>5. CASE live' = live + 1 /\ pc' = [pc EXCEPT ![p] = "success"]
    BY <1>0, <2>1, <2>2, <2>4, <2>5 DEF LogsUnderLock, LogsFollowWrites
  <2>6. CASE live' = live /\ pc' = [pc EXCEPT ![p] = "failed"]
    BY <1>0, <2>1, <2>2, <2>4, <2>6 DEF LogsUnderLock, LogsFollowWrites
  <2>7. QED
    BY <1>3, <2>5, <2>6 DEF SyncWrite
<1>4. ASSUME NEW p \in Procs, SyncLog(p) PROVE LogsUnderLock'
  BY <1>4, LogWritten
<1>5. CASE Stop
  BY <1>5 DEF Stop, LogsUnderLock, LogsFollowWrites, tables
<1>6. CASE UNCHANGED <<logs, live, holder, pc>>
  BY <1>6, LogsFrame
<1>7. ASSUME NEW e \in flying, PersistEntry(e) \/ GiveUpEntry(e)
      PROVE  UNCHANGED <<logs, live, holder, pc>>
  BY <1>7 DEF PersistEntry, GiveUpEntry, syncVars, tables
<1>8. ASSUME Migration \/ Start \/ Migrate \/ RecordVersion \/ PgDown \/ PgUp \/ UNCHANGED vars
      PROVE  UNCHANGED <<logs, live, holder, pc>>
  BY <1>8 DEF Migration, ToolStart, ToolInsert, ToolDone, ToolRead, Start, Migrate, RecordVersion,
              PgDown, PgUp, vars, syncVars, tables
<1>9. QED
  BY <1>1, <1>2, <1>3, <1>4, <1>5, <1>6, <1>7, <1>8 DEF Next, ServerStep, Goroutine

-----------------------------------------------------------------------------
(* The migration tool.                                                      *)

\* A record that is there stays, if only as a deleted one.
LEMMA BooksFrame ==
    ASSUME ToolBooks, tool' = tool, \A n \in Names : rows[n] # "none" => rows'[n] # "none",
           RecordTypes
    PROVE  ToolBooks'
BY DEF ToolBooks, Counted, RecordTypes, Statistics

\* The books of the tool, step by step, beside a server that writes and
\* removes records of its own.
LEMMA ToolKept == RecordTypes /\ ToolBooks /\ [Next]_vars => ToolBooks'
<1> SUFFICES ASSUME RecordTypes, ToolBooks, [Next]_vars PROVE ToolBooks'
  OBVIOUS
<1>0. /\ rows \in [Names -> {"none", "deleted", "server", "tool"}] /\ arg \in [Procs -> Names]
      /\ tool \in Statistics
  BY DEF RecordTypes
<1>1. ASSUME NEW p \in Procs, ServerStep(p) PROVE ToolBooks'
  <2>1. tool' = tool
    BY <1>1 DEF ServerStep, Call, CreateFile, CreateFlush, CreateRow, DeleteRow, Audit, SyncBegin,
                SyncLock, SyncWrite, SyncLog
  <2>2. CASE CreateRow(p)
    BY <1>0, <2>1, <2>2, BooksFrame DEF CreateRow
  <2>3. CASE DeleteRow(p)
    BY <1>0, <2>1, <2>3, BooksFrame DEF DeleteRow
  <2>4. CASE ~CreateRow(p) /\ ~DeleteRow(p)
    <3>1. rows' = rows
      BY <1>1, <2>4 DEF ServerStep, Call, CreateFile, CreateFlush, Audit, SyncBegin, SyncLock,
                        SyncWrite, SyncLog, tables
    <3>2. QED
      BY <2>1, <3>1, BooksFrame
  <2>5. QED
    BY <2>2, <2>3, <2>4
<1>2. ASSUME ToolStart PROVE ToolBooks'
  <2> PICK todo : todo = {n \in Names : files[n] # "none"}
    OBVIOUS
  <2>1. /\ tool' = [tool EXCEPT !.at = "walk", !.todo = todo] /\ tool.at = "waiting"
        /\ rows' = rows
    BY <1>2 DEF ToolStart, tables
  <2>2. /\ tool'.at = "walk" /\ tool'.scanned = tool.scanned /\ tool'.created = tool.created
        /\ tool'.skipped = tool.skipped /\ tool'.failed = tool.failed
    BY <1>0, <2>1 DEF Statistics
  <2>3. QED
    BY <2>1, <2>2 DEF ToolBooks, Counted
<1>3. ASSUME NEW n \in Names, ToolRead(n) PROVE ToolBooks'
  <2>0. tool.at = "walk" /\ n \in tool.todo /\ rows' = rows
    BY <1>3 DEF ToolRead, tables
  <2>1. CASE tool' = [tool EXCEPT !.at = "insert", !.name = n, !.todo = @ \ {n},
                                  !.scanned = @ \cup {n}]
    <3>1. /\ tool'.at = "insert" /\ tool'.name = n /\ tool'.todo = tool.todo \ {n}
          /\ tool'.scanned = tool.scanned \cup {n} /\ tool'.created = tool.created
          /\ tool'.skipped = tool.skipped /\ tool'.failed = tool.failed
      BY <1>0, <2>1 DEF Statistics
    <3>2. QED
      BY <2>0, <3>1 DEF ToolBooks, Counted
  <2>2. CASE tool' = [tool EXCEPT !.todo = @ \ {n}, !.scanned = @ \cup {n},
                                  !.failed = @ \cup {n}]
    <3>1. /\ tool'.at = "walk" /\ tool'.todo = tool.todo \ {n}
          /\ tool'.scanned = tool.scanned \cup {n} /\ tool'.created = tool.created
          /\ tool'.skipped = tool.skipped /\ tool'.failed = tool.failed \cup {n}
      BY <1>0, <2>0, <2>2 DEF Statistics
    <3>2. QED
      BY <2>0, <3>1 DEF ToolBooks, Counted
  <2>3. QED
    BY <1>3, <2>1, <2>2 DEF ToolRead
<1>4. ASSUME ToolInsert PROVE ToolBooks'
  <2>0. tool.at = "insert"
    BY <1>4 DEF ToolInsert
  <2>1. CASE /\ rows[tool.name] \in Absent /\ rows' = [rows EXCEPT ![tool.name] = "tool"]
             /\ tool' = [tool EXCEPT !.at = "walk", !.created = @ \cup {tool.name}]
    <3>1. /\ tool'.at = "walk" /\ tool'.todo = tool.todo
          /\ tool'.scanned = tool.scanned /\ tool'.created = tool.created \cup {tool.name}
          /\ tool'.skipped = tool.skipped /\ tool'.failed = tool.failed
      BY <1>0, <2>1 DEF Statistics
    <3>2. \A n \in tool'.created \cup tool'.skipped : rows'[n] # "none"
      BY <1>0, <2>0, <2>1, <3>1 DEF ToolBooks, Statistics
    <3>3. QED
      BY <2>0, <3>1, <3>2 DEF ToolBooks, Counted
  <2>2. CASE /\ rows[tool.name] \notin Absent /\ rows' = rows
             /\ tool' = [tool EXCEPT !.at = "walk", !.skipped = @ \cup {tool.name}]
    <3>1. /\ tool'.at = "walk" /\ tool'.todo = tool.todo
          /\ tool'.scanned = tool.scanned /\ tool'.created = tool.created
          /\ tool'.skipped = tool.skipped \cup {tool.name} /\ tool'.failed = tool.failed
      BY <1>0, <2>2 DEF Statistics
    <3>2. QED
      BY <2>0, <2>2, <3>1 DEF ToolBooks, Counted, Absent
  <2>3. CASE /\ rows' = rows
             /\ tool' = [tool EXCEPT !.at = "walk", !.failed = @ \cup {tool.name}]
    <3>1. /\ tool'.at = "walk" /\ tool'.todo = tool.todo
          /\ tool'.scanned = tool.scanned /\ tool'.created = tool.created
          /\ tool'.skipped = tool.skipped /\ tool'.failed = tool.failed \cup {tool.name}
      BY <1>0, <2>3 DEF Statistics
    <3>2. QED
      BY <2>0, <2>3, <3>1 DEF ToolBooks, Counted
  <2>4. QED
    BY <1>4, <2>1, <2>2, <2>3 DEF ToolInsert
<1>5. ASSUME ToolDone PROVE ToolBooks'
  <2>1. tool' = [tool EXCEPT !.at = "done"] /\ rows' = rows /\ tool.at = "walk"
    BY <1>5 DEF ToolDone, tables
  <2>2. /\ tool'.at = "done" /\ tool'.todo = tool.todo
        /\ tool'.scanned = tool.scanned /\ tool'.created = tool.created
        /\ tool'.skipped = tool.skipped /\ tool'.failed = tool.failed
    BY <1>0, <2>1 DEF Statistics
  <2>3. QED
    BY <2>1, <2>2 DEF ToolBooks, Counted
<1>6. CASE UNCHANGED <<tool, rows>>
  BY <1>6, BooksFrame
<1>7. ASSUME Start \/ Migrate \/ RecordVersion \/ Stop \/ PgDown \/ PgUp \/ UNCHANGED vars
      PROVE  UNCHANGED <<tool, rows>>
  BY <1>7 DEF Start, Migrate, RecordVersion, Stop, PgDown, PgUp, vars, tables
<1>8. ASSUME NEW e \in flying, PersistEntry(e) \/ GiveUpEntry(e) PROVE UNCHANGED <<tool, rows>>
  BY <1>8 DEF PersistEntry, GiveUpEntry, tables
<1>9. QED
  BY <1>1, <1>2, <1>3, <1>4, <1>5, <1>6, <1>7, <1>8 DEF Next, Migration, Goroutine

\* The invariant of the books holds of every run.
LEMMA BooksSafe == Spec => []Books
<1>1. Init => Books
  BY BooksInit
<1>2. Books /\ [Next]_vars => Books'
  BY TypesKept, StartedKept, LogsKept, ToolKept DEF Books
<1>3. QED
  BY <1>1, <1>2, PTL DEF Spec

\* A server that came up with a pool and without an outage has its version on
\* record exactly if it fits PostgreSQL's INTEGER, which half of the numbers that
\* computeSchemaVersion may yield do, whichever ontologies and hashes came before.
THEOREM VersionsAreRecorded == Spec => []VersionRecorded
<1>1. Books => VersionRecorded
  BY DEF Books, StartedWell, VersionRecorded
<1>2. QED
  BY <1>1, BooksSafe, PTL

\* A later row of sync_logs never reports an earlier write than a row before
\* it: FullSync writes its log before it lets go of the lock.
THEOREM LogsAreInOrder == Spec => []LogsFollowWrites
<1>1. Books => LogsFollowWrites
  BY DEF Books, LogsUnderLock
<1>2. QED
  BY <1>1, BooksSafe, PTL

\* The tool's statistics cover what it scanned, and a record that the server
\* wrote never becomes one of the tool.
THEOREM MigrationIsFaithful == Spec => MigrationFaithful
<1>1. Books => MigrationAdds
  BY DEF Books, ToolBooks, MigrationAdds, Counted
<1>2. Books /\ [Next]_vars
        => [\A n \in Names : rows[n] = "server" => rows'[n] # "tool"]_vars
  <2> SUFFICES ASSUME Books, Next, NEW n \in Names, rows[n] = "server" PROVE rows'[n] # "tool"
    OBVIOUS
  <2>0. rows \in [Names -> {"none", "deleted", "server", "tool"}]
    BY DEF Books, RecordTypes
  <2>1. ASSUME NEW p \in Procs, ServerStep(p) PROVE rows'[n] # "tool"
    BY <2>0, <2>1 DEF ServerStep, Call, CreateFile, CreateFlush, CreateRow, DeleteRow, Audit,
                      SyncBegin, SyncLock, SyncWrite, SyncLog, tables
  <2>2. CASE ToolInsert
    BY <2>0, <2>2 DEF ToolInsert, Absent
  <2>3. ASSUME \/ ToolStart \/ ToolDone \/ \E m \in Names : ToolRead(m)
               \/ Start \/ Migrate \/ RecordVersion \/ Stop \/ PgDown \/ PgUp
        PROVE  rows'[n] # "tool"
    BY <2>3 DEF ToolStart, ToolDone, ToolRead, Start, Migrate, RecordVersion, Stop, PgDown, PgUp,
                tables
  <2>4. ASSUME NEW e \in flying, PersistEntry(e) \/ GiveUpEntry(e) PROVE rows'[n] # "tool"
    BY <2>4 DEF PersistEntry, GiveUpEntry, tables
  <2>5. QED
    BY <2>1, <2>2, <2>3, <2>4 DEF Next, Migration, Goroutine
<1>3. QED
  BY <1>1, <1>2, BooksSafe, PTL DEF Spec, MigrationFaithful

-----------------------------------------------------------------------------
(* The audit log.                                                           *)

\* What a FIFO eviction keeps.
LEMMA NewestElements ==
    ASSUME NEW S, NEW s \in Seq(S), NEW n \in Nat
    PROVE  /\ Newest(s, n) \in Seq(S)
           /\ Len(Newest(s, n)) = IF Len(s) > n THEN n ELSE Len(s)
           /\ \A i \in 1..Len(Newest(s, n)) :
                Newest(s, n)[i] = s[Len(s) - Len(Newest(s, n)) + i]
<1>0. Len(s) \in Nat /\ \A i \in 1..Len(s) : s[i] \in S
  BY LenProperties, ElementOfSeq
<1>1. CASE Len(s) > n
  <2>1. Newest(s, n) = SubSeq(s, Len(s) - n + 1, Len(s))
    BY <1>1 DEF Newest
  <2>2. \A i \in (Len(s) - n + 1)..Len(s) : s[i] \in S
    BY <1>0, <1>1
  <2>3. /\ SubSeq(s, Len(s) - n + 1, Len(s)) \in Seq(S)
        /\ Len(SubSeq(s, Len(s) - n + 1, Len(s))) = n
        /\ \A i \in 1..n : SubSeq(s, Len(s) - n + 1, Len(s))[i] = s[Len(s) - n + i]
    <3>0. Len(s) \in Nat /\ Len(s) - n + 1 \in Int
      BY <1>0
    <3> PICK m \in Int : m = Len(s) - n + 1
      BY <3>0, Zenon
    <3>1. /\ SubSeq(s, m, Len(s)) \in Seq(S)
          /\ Len(SubSeq(s, m, Len(s))) = IF m <= Len(s) THEN Len(s) - m + 1 ELSE 0
          /\ \A i \in 1..(Len(s) - m + 1) : SubSeq(s, m, Len(s))[i] = s[m + i - 1]
      BY <1>0, <2>2, SubSeqProperties
    <3>2. Len(s) - m + 1 = n /\ (m <= Len(s) \/ n = 0) /\ \A i \in 1..n : m + i - 1 = Len(s) - n + i
      BY <1>0
    <3>3. Len(SubSeq(s, m, Len(s))) = n
      BY <1>0, <3>1, <3>2
    <3>4. QED
      BY <3>1, <3>2, <3>3
  <2>4. QED
    BY <1>1, <2>1, <2>3
<1>2. CASE ~(Len(s) > n)
  <2>1. Newest(s, n) = s
    BY <1>2 DEF Newest
  <2>2. \A i \in 1..Len(s) : Len(s) - Len(s) + i = i
    BY <1>0
  <2>3. QED
    BY <1>2, <2>1, <2>2
<1>3. QED
  BY <1>1, <1>2

\* A window moves on with what is appended and evicted.
LEMMA WindowMoves ==
    ASSUME NEW s \in Seq(Entry), NEW r \in Seq(Entry), NEW b \in 0..Len(r), NEW n \in Nat \ {0},
           WindowOf(s, r, b, n), NEW e \in Entry
    PROVE  WindowOf(Newest(Append(s, e), n), Append(r, e), b, n)
<1>0. Len(s) \in Nat /\ Len(r) \in Nat /\ Len(s) <= Len(r) /\ Len(s) <= n
  BY LenProperties DEF WindowOf
<1> PICK t \in Seq(Entry) : t = Append(s, e)
  BY AppendProperties
<1> PICK q \in Seq(Entry) : q = Append(r, e)
  BY AppendProperties
<1>1. /\ Len(t) = Len(s) + 1 /\ \A i \in 1..Len(s) : t[i] = s[i]
      /\ t[Len(s) + 1] = e
      /\ Len(q) = Len(r) + 1 /\ \A i \in 1..Len(r) : q[i] = r[i]
      /\ q[Len(r) + 1] = e
  BY AppendProperties
<1> PICK w \in Seq(Entry) : w = Newest(t, n)
  BY NewestElements
<1>2. /\ Len(w) = IF Len(t) > n THEN n ELSE Len(t)
      /\ \A i \in 1..Len(w) : w[i] = t[Len(t) - Len(w) + i]
  BY NewestElements
<1>3. Len(w) = IF Len(q) - b > n THEN n ELSE Len(q) - b
  BY <1>0, <1>1, <1>2 DEF WindowOf
<1>4. ASSUME NEW i \in 1..Len(w) PROVE w[i] = q[Len(q) - Len(w) + i]
  <2> PICK ls \in Nat, lr \in Nat, lw \in Nat : ls = Len(s) /\ lr = Len(r) /\ lw = Len(w)
    BY <1>0, LenProperties
  <2>0. lw <= ls + 1 /\ ls <= lr /\ i \in 1..lw /\ Len(t) = ls + 1 /\ Len(q) = lr + 1
    BY <1>0, <1>1, <1>2
  <2>1. ls + 1 - lw + i \in 1..(ls + 1) /\ lr + 1 - lw + i \in 1..(lr + 1)
    BY <2>0
  <2>2. w[i] = t[ls + 1 - lw + i]
    <3>1. w[i] = t[Len(t) - Len(w) + i]
      BY <1>2, Zenon
    <3>2. Len(t) - Len(w) + i = ls + 1 - lw + i
      BY <2>0
    <3>3. QED
      BY <3>1, <3>2, Zenon
  <2>3. CASE i = lw
    <3>1. ls + 1 - lw + i = ls + 1 /\ lr + 1 - lw + i = lr + 1
      BY <2>3
    <3>2. QED
      BY <1>1, <2>0, <2>2, <3>1
  <2>4. CASE i # lw
    <3>0. ls + 1 - lw + i \in 1..ls
      <4>1. i < lw
        BY <2>0, <2>4
      <4>2. QED
        BY <2>1, <4>1
    <3> PICK j \in 1..ls : j = ls + 1 - lw + i
      BY <3>0, Zenon
    <3>1. lr - ls + j \in 1..lr /\ lr + 1 - lw + i = lr - ls + j
      BY <2>0
    <3>2. t[j] = s[j] /\ s[j] = r[lr - ls + j]
      BY <1>1 DEF WindowOf
    <3>3. q[lr - ls + j] = r[lr - ls + j]
      BY <1>1, <3>1
    <3>4. w[i] = q[lr + 1 - lw + i]
      BY <2>2, <3>1, <3>2, <3>3
    <3>5. QED
      BY <2>0, <3>4
  <2>5. QED
    BY <2>3, <2>4
<1>5. QED
  BY <1>3, <1>4 DEF WindowOf

\* The set of a sequence grows by what is appended.
LEMMA AppendToSet ==
    ASSUME NEW S, NEW s \in Seq(S), NEW e \in S
    PROVE  ToSet(Append(s, e)) = ToSet(s) \cup {e}
<1>1. /\ DOMAIN s = 1..Len(s) /\ Len(s) \in Nat
      /\ DOMAIN Append(s, e) = 1..(Len(s) + 1)
  BY LenProperties, AppendProperties
<1>2. /\ \A i \in 1..Len(s) : Append(s, e)[i] = s[i]
      /\ Append(s, e)[Len(s) + 1] = e
  BY AppendProperties
<1>3. QED
  BY <1>1, <1>2 DEF ToSet

\* The invariant of the audit log holds at the start.
LEMMA AuditStart == Init => AuditInv
<1> SUFFICES ASSUME Init PROVE AuditInv
  OBVIOUS
<1>1. /\ entries = <<>> /\ flying = {} /\ auditRows = {} /\ recorded = <<>> /\ booted = 0
      /\ excused = {}
  BY DEF Init, AuditInit
<1>2. Len(<<>>) = 0 /\ <<>> \in Seq(Entry) /\ ToSet(<<>>) = {}
  BY EmptySeq DEF ToSet
<1>3. QED
  BY <1>1, <1>2, AuditAssumption DEF AuditInv, AuditComplete, Window, WindowOf

\* Record: the entry enters the list, the record of all, and what is on its way
\* or excused.
LEMMA AuditRecorded ==
    ASSUME AuditInv, RecordTypes, NEW p \in Procs, Audit(p)
    PROVE  AuditInv'
<1> PICK action \in {"create", "delete"} :
       action = IF pc[p] = "created" THEN "create" ELSE "delete"
  OBVIOUS
<1> PICK e : e = [at |-> Len(recorded) + 1, action |-> action, snapshot |-> arg[p]]
  OBVIOUS
<1>1. /\ entries' = Newest(Append(entries, e), MaxEntries)
      /\ recorded' = Append(recorded, e)
      /\ flying' = IF pool THEN flying \cup {e} ELSE flying
      /\ UNCHANGED <<auditRows, booted, pgUp, migrated>>
      /\ excused' = IF pool /\ Reachable THEN excused ELSE excused \cup {recorded'[Len(recorded')]}
  BY DEF Audit, Record, pgVars
<1>2. recorded \in Seq(Entry) /\ entries \in Seq(Entry) /\ Len(recorded) \in Nat
      /\ Len(entries) \in Nat
  BY LenProperties DEF AuditInv, Window, WindowOf
<1>3. e \in Entry /\ e.at = Len(recorded) + 1
  BY <1>2 DEF Entry, RecordTypes
<1>4. /\ recorded' \in Seq(Entry) /\ Len(recorded') = Len(recorded) + 1
      /\ \A i \in 1..Len(recorded) : recorded'[i] = recorded[i]
      /\ recorded'[Len(recorded) + 1] = e
      /\ ToSet(recorded') = ToSet(recorded) \cup {e}
  BY <1>1, <1>2, <1>3, AppendProperties, AppendToSet
<1>5. booted' \in 0..Len(recorded') /\ \A i \in 1..Len(recorded') : recorded'[i].at = i
  BY <1>1, <1>2, <1>3, <1>4 DEF AuditInv
<1>6. excused' = IF pool /\ Reachable THEN excused ELSE excused \cup {e}
  BY <1>1, <1>4
<1>7. /\ (flying \cup auditRows)' \subseteq ToSet(recorded')
      /\ AuditComplete' /\ (~Reachable => flying \subseteq excused)'
  BY <1>1, <1>4, <1>6 DEF AuditInv, AuditComplete, Reachable
<1>8. Window'
  <2>1. WindowOf(Newest(Append(entries, e), MaxEntries), Append(recorded, e), booted, MaxEntries)
    BY <1>2, <1>3, AuditAssumption, WindowMoves DEF AuditInv, Window
  <2>2. QED
    BY <1>1, <2>1 DEF Window
<1>9. QED
  BY <1>4, <1>5, <1>7, <1>8 DEF AuditInv

\* The other steps: entries arrive or are given up, PostgreSQL comes and goes,
\* the process ends.
LEMMA AuditKept == AuditInv /\ RecordTypes /\ [Next]_vars => AuditInv'
<1> SUFFICES ASSUME AuditInv, RecordTypes, [Next]_vars PROVE AuditInv'
  OBVIOUS
<1>0. /\ recorded \in Seq(Entry) /\ Len(recorded) \in Nat /\ entries \in Seq(Entry)
  BY LenProperties DEF AuditInv, Window, WindowOf
<1>1. ASSUME NEW p \in Procs, Audit(p) PROVE AuditInv'
  BY <1>1, AuditRecorded
<1>2. ASSUME NEW e \in flying, PersistEntry(e) PROVE AuditInv'
  <2>1. /\ auditRows' = auditRows \cup {e} /\ flying' = flying \ {e}
        /\ UNCHANGED <<entries, recorded, booted, excused, pgUp, migrated>>
    BY <1>2 DEF PersistEntry, Persist, pgVars
  <2>2. (flying \cup auditRows)' \subseteq ToSet(recorded) /\ AuditComplete'
    BY <2>1 DEF AuditInv, AuditComplete
  <2>3. QED
    BY <2>1, <2>2 DEF AuditInv, Window, Reachable
<1>3. ASSUME NEW e \in flying, GiveUpEntry(e) PROVE AuditInv'
  <2>1. /\ auditRows' \in {auditRows, auditRows \cup {e}} /\ flying' = flying \ {e} /\ ~Reachable
        /\ UNCHANGED <<entries, recorded, booted, excused, pgUp, migrated>>
    BY <1>3 DEF GiveUpEntry, GiveUp, pgVars
  <2>2. (flying \cup auditRows)' \subseteq ToSet(recorded) /\ AuditComplete'
    BY <2>1 DEF AuditInv, AuditComplete
  <2>3. QED
    BY <2>1, <2>2 DEF AuditInv, Window, Reachable
<1>4. CASE Stop
  <2>1. /\ entries' = <<>> /\ flying' = {} /\ booted' = Len(recorded)
        /\ UNCHANGED <<auditRows, recorded>> /\ excused' = excused \cup flying
    BY <1>4 DEF Stop, AuditLost
  <2>2. Len(<<>>) = 0 /\ <<>> \in Seq(Entry)
    BY EmptySeq
  <2>3. Window'
    BY <1>0, <2>1, <2>2, AuditAssumption DEF Window, WindowOf
  <2>4. AuditComplete'
    BY <2>1 DEF AuditInv, AuditComplete
  <2>5. QED
    BY <1>0, <2>1, <2>3, <2>4 DEF AuditInv
<1>5. CASE PgDown
  <2>1. UNCHANGED auditVars /\ excused' = excused \cup flying
    BY <1>5 DEF PgDown
  <2>2. AuditComplete'
    BY <2>1 DEF AuditInv, AuditComplete, auditVars
  <2>3. QED
    BY <2>1, <2>2 DEF AuditInv, Window, auditVars
<1>6. CASE UNCHANGED <<auditVars, excused>> /\ (~Reachable' => ~Reachable)
  BY <1>6 DEF AuditInv, AuditComplete, Window, auditVars
<1>10. ASSUME Migrate PROVE UNCHANGED <<auditVars, excused>> /\ (~Reachable' => ~Reachable)
  BY <1>10, Zenon DEF Migrate, Reachable
<1>11. ASSUME PgUp \/ ToolStart
       PROVE  UNCHANGED <<auditVars, excused>> /\ (~Reachable' => ~Reachable)
  BY <1>11 DEF PgUp, ToolStart, Reachable
<1>7. ASSUME \/ Start \/ RecordVersion \/ ToolInsert \/ ToolDone
             \/ \E n \in Names : ToolRead(n)
             \/ UNCHANGED vars
      PROVE  UNCHANGED <<auditVars, excused>> /\ (~Reachable' => ~Reachable)
  <2>1. UNCHANGED <<auditVars, excused, pgUp, migrated>>
    BY <1>7 DEF Start, RecordVersion, ToolRead, ToolInsert, ToolDone, vars, pgVars
  <2>2. QED
    BY <2>1 DEF Reachable
<1>8. ASSUME NEW p \in Procs,
             \/ \E job \in Jobs, n \in Names : Call(p, job, n)
             \/ CreateFile(p) \/ CreateFlush(p) \/ CreateRow(p) \/ DeleteRow(p)
             \/ SyncBegin(p) \/ SyncLock(p) \/ SyncWrite(p) \/ SyncLog(p)
      PROVE  UNCHANGED <<auditVars, excused>> /\ (~Reachable' => ~Reachable)
  BY <1>8 DEF Call, CreateFile, CreateFlush, CreateRow, DeleteRow, SyncBegin, SyncLock, SyncWrite,
              SyncLog, pgVars, Reachable
<1>9. QED
  BY <1>1, <1>2, <1>3, <1>4, <1>5, <1>6, <1>7, <1>8, <1>10, <1>11
     DEF Next, Goroutine, ServerStep, Migration

\* The invariant of the audit log holds of every run.
LEMMA AuditSafe == Spec => [](AuditInv /\ RecordTypes)
<1>1. Init => AuditInv
  BY AuditStart
<1>2. AuditInv /\ Books /\ [Next]_vars => AuditInv'
  BY AuditKept DEF Books
<1>3. Books => RecordTypes
  BY DEF Books
<1>4. QED
  BY <1>1, <1>2, <1>3, BooksSafe, PTL DEF Spec

\* Every operation's entry is in the table, on its way, or excused by an outage,
\* a stop or a server without a pool, for any size of the list in memory.
THEOREM AuditIsComplete == Spec => []AuditComplete
<1>1. AuditInv => AuditComplete
  BY DEF AuditInv
<1>2. QED
  BY <1>1, AuditSafe, PTL

\* Reading a window: it is what an eviction leaves of the process's entries,
\* and every end of it is an end of all that was recorded.
LEMMA WindowReads ==
    ASSUME NEW s \in Seq(Entry), NEW r \in Seq(Entry), NEW b \in 0..Len(r), NEW n \in Nat \ {0},
           WindowOf(s, r, b, n)
    PROVE  s = Newest(SubSeq(r, b + 1, Len(r)), n)
<1>0. Len(s) \in Nat /\ Len(r) \in Nat /\ Len(s) <= Len(r)
  BY LenProperties DEF WindowOf
<1> PICK ls \in Nat, lr \in Nat : ls = Len(s) /\ lr = Len(r)
  BY <1>0
<1>1. \A i \in (b + 1)..lr : r[i] \in Entry
  BY ElementOfSeq
<1>2. /\ SubSeq(r, b + 1, lr) \in Seq(Entry)
      /\ Len(SubSeq(r, b + 1, lr)) = IF b + 1 <= lr THEN lr - (b + 1) + 1 ELSE 0
      /\ \A i \in 1..(lr - (b + 1) + 1) : SubSeq(r, b + 1, lr)[i] = r[(b + 1) + i - 1]
  BY <1>1, SubSeqProperties
<1> PICK u \in Seq(Entry) : u = SubSeq(r, b + 1, lr)
  BY <1>2
<1>3. Len(u) = lr - b
  BY <1>2
<1>4. \A i \in 1..(lr - b) : u[i] = r[b + i]
  <2> TAKE i \in 1..(lr - b)
  <2>1. i \in 1..(lr - (b + 1) + 1) /\ (b + 1) + i - 1 = b + i
    OBVIOUS
  <2>2. QED
    BY <1>2, <2>1
<1>5. PICK w \in Seq(Entry) :
        /\ w = Newest(u, n)
        /\ Len(w) = IF Len(u) > n THEN n ELSE Len(u)
        /\ \A i \in 1..Len(w) : w[i] = u[Len(u) - Len(w) + i]
  <2>1. \A v \in Seq(Entry) :
          /\ Newest(v, n) \in Seq(Entry)
          /\ Len(Newest(v, n)) = IF Len(v) > n THEN n ELSE Len(v)
          /\ \A i \in 1..Len(Newest(v, n)) :
               Newest(v, n)[i] = v[Len(v) - Len(Newest(v, n)) + i]
    BY NewestElements
  <2>2. QED
    BY <2>1, Zenon
<1>6. Len(w) = ls /\ Len(s) = ls
  BY <1>3, <1>5 DEF WindowOf
<1>7. ASSUME NEW i \in 1..ls PROVE s[i] = w[i]
  <2>1. w[i] = u[(lr - b) - ls + i]
    <3>1. w[i] = u[Len(u) - Len(w) + i]
      BY <1>5, <1>6
    <3>2. QED
      BY <1>3, <1>6, <3>1
  <2>6. ls <= lr - b
    BY <1>3, <1>5, <1>6
  <2>2. (lr - b) - ls + i \in 1..(lr - b)
    BY <2>6
  <2> PICK j \in 1..(lr - b) : j = (lr - b) - ls + i
    BY <2>2, Zenon
  <2>3. u[j] = r[b + j] /\ b + j = lr - ls + i
    BY <1>4
  <2>4. s[i] = r[lr - ls + i]
    BY <1>6 DEF WindowOf
  <2>5. QED
    BY <2>1, <2>3, <2>4
<1>8. s = w
  BY <1>6, <1>7, SeqEqual
<1>9. QED
  BY <1>5, <1>8

\* The newest of a suffix are a suffix.
LEMMA WindowSuffix ==
    ASSUME NEW s \in Seq(Entry), NEW r \in Seq(Entry), Len(s) <= Len(r),
           \A i \in 1..Len(s) : s[i] = r[Len(r) - Len(s) + i], NEW n \in Nat
    PROVE  IsSuffix(Newest(s, n), r)
<1>0. Len(s) \in Nat /\ Len(r) \in Nat
  BY LenProperties
<1> PICK w \in Seq(Entry) : w = Newest(s, n)
  BY NewestElements
<1>1. /\ Len(w) = IF Len(s) > n THEN n ELSE Len(s)
      /\ \A i \in 1..Len(w) : w[i] = s[Len(s) - Len(w) + i]
  BY NewestElements
<1> PICK ls \in Nat, lr \in Nat, lw \in Nat : ls = Len(s) /\ lr = Len(r) /\ lw = Len(w)
  BY <1>0, LenProperties
<1>2. lw <= ls /\ ls <= lr
  BY <1>1
<1>3. ASSUME NEW i \in 1..lw PROVE w[i] = r[lr - lw + i]
  <2>1. w[i] = s[ls - lw + i]
    BY <1>1
  <2>2. ls - lw + i \in 1..ls
    BY <1>2
  <2> PICK j \in 1..ls : j = ls - lw + i
    BY <2>2, Zenon
  <2>3. s[j] = r[lr - ls + j]
    OBVIOUS
  <2>4. lr - ls + j = lr - lw + i
    BY <1>2
  <2>5. QED
    BY <2>1, <2>3, <2>4
<1>4. ASSUME NEW i \in 1..lw PROVE Reverse(w)[i] = Reverse(r)[i]
  <2>1. Reverse(w)[i] = w[(lw - i) + 1] /\ Reverse(r)[i] = r[(lr - i) + 1]
    BY <1>2 DEF Reverse
  <2>2. (lw - i) + 1 \in 1..lw /\ lr - lw + ((lw - i) + 1) = (lr - i) + 1
    BY <1>2
  <2>3. QED
    BY <1>3, <2>1, <2>2
<1>5. /\ Reverse(w) \in Seq(Entry) /\ Len(Reverse(w)) = lw
      /\ Reverse(r) \in Seq(Entry) /\ Len(Reverse(r)) = lr
  <2>1. \A i \in 1..lw : w[(lw - i) + 1] \in Entry
    BY ElementOfSeq
  <2>2. \A i \in 1..lr : r[(lr - i) + 1] \in Entry
    BY ElementOfSeq
  <2>3. QED
    BY <2>1, <2>2 DEF Reverse
<1>6. SubSeq(Reverse(w), 1, lw) = SubSeq(Reverse(r), 1, lw)
  <2> PICK x \in Seq(Entry), y \in Seq(Entry) : x = Reverse(w) /\ y = Reverse(r)
    BY <1>5
  <2>1. \A i \in 1..lw : x[i] \in Entry /\ y[i] \in Entry
    BY <1>2, <1>5, ElementOfSeq
  <2>2. /\ SubSeq(x, 1, lw) \in Seq(Entry)
        /\ Len(SubSeq(x, 1, lw)) = IF 1 <= lw THEN lw - 1 + 1 ELSE 0
        /\ \A i \in 1..(lw - 1 + 1) : SubSeq(x, 1, lw)[i] = x[1 + i - 1]
    BY <2>1, SubSeqProperties
  <2>3. /\ SubSeq(y, 1, lw) \in Seq(Entry)
        /\ Len(SubSeq(y, 1, lw)) = IF 1 <= lw THEN lw - 1 + 1 ELSE 0
        /\ \A i \in 1..(lw - 1 + 1) : SubSeq(y, 1, lw)[i] = y[1 + i - 1]
    BY <2>1, SubSeqProperties
  <2>4. \A i \in 1..lw : SubSeq(x, 1, lw)[i] = SubSeq(y, 1, lw)[i]
    BY <1>4, <2>2, <2>3
  <2>5. Len(SubSeq(x, 1, lw)) = lw /\ Len(SubSeq(y, 1, lw)) = lw
    BY <2>2, <2>3
  <2>6. QED
    BY <2>2, <2>3, <2>4, <2>5, SeqEqual
<1>7. QED
  BY <1>2, <1>5, <1>6 DEF IsSuffix, IsPrefix

\* The list in memory is the newest MaxEntries of what this process recorded,
\* and what Recent answers is the end of the whole trail, for any size.
THEOREM WindowIsKept == Spec => []WindowKept
<1>1. AuditInv => WindowKept
  <2> SUFFICES ASSUME AuditInv PROVE WindowKept
    OBVIOUS
  <2>1. /\ recorded \in Seq(Entry) /\ entries \in Seq(Entry) /\ booted \in 0..Len(recorded)
        /\ WindowOf(entries, recorded, booted, MaxEntries)
    BY DEF AuditInv, Window, WindowOf
  <2>2. entries = Newest(SubSeq(recorded, booted + 1, Len(recorded)), MaxEntries)
    BY <2>1, AuditAssumption, WindowReads
  <2>3. Len(entries) <= Len(recorded) /\ Len(recorded) \in Nat
    BY <2>1, LenProperties, AuditAssumption DEF WindowOf
  <2>4. ASSUME NEW n \in 1..Len(recorded) PROVE IsSuffix(Recent(n), recorded)
    <3>1. n \in Nat /\ Recent(n) = Newest(entries, n)
      BY <2>3 DEF Recent
    <3>2. QED
      BY <2>1, <2>3, <3>1, WindowSuffix DEF WindowOf
  <2>5. QED
    BY <2>2, <2>4 DEF WindowKept
<1>2. QED
  BY <1>1, AuditSafe, PTL

\* An entry of the table that is as new as the oldest one in memory is in
\* memory too: the table is never ahead of what Query searches.
THEOREM MemoryIsAhead ==
    Spec => [](\A e \in auditRows : entries # <<>> /\ e.at >= entries[1].at => e \in ToSet(entries))
<1>1. ASSUME AuditInv, NEW e \in auditRows, entries # <<>>, e.at >= entries[1].at
      PROVE  e \in ToSet(entries)
  <2>1. /\ recorded \in Seq(Entry) /\ entries \in Seq(Entry) /\ booted \in 0..Len(recorded)
        /\ WindowOf(entries, recorded, booted, MaxEntries) /\ e \in ToSet(recorded)
    BY <1>1 DEF AuditInv, Window, WindowOf
  <2>2. DOMAIN recorded = 1..Len(recorded) /\ DOMAIN entries = 1..Len(entries)
    BY <2>1, LenProperties
  <2> PICK ls \in Nat \ {0}, lr \in Nat : ls = Len(entries) /\ lr = Len(recorded)
    BY <1>1, <2>1, EmptySeq, LenProperties
  <2>3. PICK i \in 1..lr : e = recorded[i] /\ e.at = i
    BY <1>1, <2>1, <2>2 DEF ToSet, AuditInv
  <2>4. ls <= lr
    BY <2>1, AuditAssumption DEF WindowOf
  <2>5. entries[1].at = lr - ls + 1
    <3>1. 1 \in 1..ls /\ lr - ls + 1 \in 1..lr
      BY <2>4
    <3>2. entries[1] = recorded[lr - ls + 1]
      BY <2>1, <3>1 DEF WindowOf
    <3>3. QED
      BY <1>1, <3>1, <3>2 DEF AuditInv
  <2>6. i - (lr - ls) \in 1..ls
    BY <1>1, <2>3, <2>4, <2>5
  <2> PICK j \in 1..ls : j = i - (lr - ls)
    BY <2>6, Zenon
  <2>7. entries[j] = recorded[lr - ls + j]
    BY <2>1, <2>4 DEF WindowOf
  <2>9. lr - ls + j = i
    BY <2>3, <2>4
  <2>8. QED
    BY <2>2, <2>3, <2>7, <2>9 DEF ToSet
<1>2. AuditInv
        => \A e \in auditRows : entries # <<>> /\ e.at >= entries[1].at => e \in ToSet(entries)
  BY <1>1
<1>3. QED
  BY <1>2, AuditSafe, PTL

\* Induction over an interval, from the pigeonhole principle: if D has 0 and
\* with each number below n the next one, but not n, then going one up in D is
\* an injection of 0 .. n into 1 .. n.
LEMMA Climbed ==
    ASSUME NEW n \in Nat, NEW D, 0 \in D, \A k \in 0 .. n - 1 : k \in D => k + 1 \in D
    PROVE  n \in D
<1> SUFFICES ASSUME n \notin D PROVE FALSE
  OBVIOUS
<1> DEFINE f == [x \in 0 .. n |-> IF x \in D THEN x + 1 ELSE x]
<1>1. f \in [0 .. n -> 1 .. n]
  <2> SUFFICES ASSUME NEW x \in 0 .. n
               PROVE  (IF x \in D THEN x + 1 ELSE x) \in 1 .. n
    OBVIOUS
  <2>1. x \in D => x # n
    OBVIOUS
  <2>2. x \notin D => x # 0
    OBVIOUS
  <2>3. QED
    BY <2>1, <2>2
<1>2. /\ IsFiniteSet(0 .. n) /\ IsFiniteSet(1 .. n)
      /\ Cardinality(1 .. n) < Cardinality(0 .. n)
  <2>1. 0 \in Int /\ 1 \in Int /\ n \in Int
    OBVIOUS
  <2>2. IsFiniteSet(0 .. n) /\ Cardinality(0 .. n) = IF 0 > n THEN 0 ELSE n - 0 + 1
    BY <2>1, FS_Interval
  <2>3. IsFiniteSet(1 .. n) /\ Cardinality(1 .. n) = IF 1 > n THEN 0 ELSE n - 1 + 1
    BY <2>1, FS_Interval
  <2>4. QED
    BY <2>2, <2>3
<1>3. \A x \in 0 .. n : f[x] = IF x \in D THEN x + 1 ELSE x
  OBVIOUS
<1>4. PICK x, y \in 0 .. n : x # y /\ f[x] = f[y]
  <2> HIDE DEF f
  <2>1. QED
    BY <1>1, <1>2, FS_PigeonHole
<1>5. QED
  <2> HIDE DEF f
  <2>1. (x \in D /\ y \notin D) \/ (x \notin D /\ y \in D)
    BY <1>3, <1>4
  <2>2. x \in Int /\ y \in Int
    OBVIOUS
  <2>3. ASSUME x \in D, y \notin D PROVE FALSE
    BY <1>3, <1>4, <2>2, <2>3
  <2>4. ASSUME y \in D, x \notin D PROVE FALSE
    BY <1>3, <1>4, <2>2, <2>4
  <2>5. QED
    BY <2>1, <2>3, <2>4

\* The values of a loop over 1 .. n, from x on; F[i] is what its body makes of
\* a value in S at i.
Body(F, n, S) == F \in [1 .. n -> [S -> S]]

Values(g, F, n, S, x) ==
    g \in [0 .. n -> S] /\ g[0] = x /\ \A i \in 1 .. n : g[i] = F[i][g[i - 1]]

\* A loop whose body is defined on every value has its values.
LEMMA Iterated ==
    ASSUME NEW n \in Nat, NEW S, NEW x \in S, NEW F, Body(F, n, S)
    PROVE  \E g : Values(g, F, n, S, x)
<1> USE DEF Body
<1> DEFINE Good(k, g) == g[0] = x /\ \A i \in 1 .. k : g[i] = F[i][g[i - 1]]
           D == {k \in 0 .. n : \E g \in [0 .. k -> S] : Good(k, g)}
<1>1. 0 \in D
  <2> DEFINE g == [i \in 0 .. 0 |-> x]
  <2>1. g \in [0 .. 0 -> S] /\ Good(0, g)
    OBVIOUS
  <2> HIDE DEF g
  <2>2. QED
    BY <2>1
<1>2. ASSUME NEW k \in 0 .. n - 1, k \in D PROVE k + 1 \in D
  <2>1. PICK g \in [0 .. k -> S] : Good(k, g)
    BY <1>2
  <2>2. k \in Nat /\ k + 1 \in 1 .. n /\ k + 1 \in 0 .. n
    OBVIOUS
  <2> DEFINE y == F[k + 1][g[k]]
             h == [i \in 0 .. k + 1 |-> IF i = k + 1 THEN y ELSE g[i]]
  <2>3. y \in S
    <3>1. g[k] \in S
      BY <2>1, <2>2
    <3>2. F[k + 1] \in [S -> S]
      BY <2>2
    <3>3. QED
      BY <3>1, <3>2
  <2>4. h \in [0 .. k + 1 -> S]
    <3> HIDE DEF y
    <3> SUFFICES ASSUME NEW i \in 0 .. k + 1 PROVE (IF i = k + 1 THEN y ELSE g[i]) \in S
      OBVIOUS
    <3>1. i # k + 1 => i \in 0 .. k
      BY <2>2
    <3>2. QED
      BY <2>1, <2>3, <3>1
  <2>5. /\ h[k + 1] = y
        /\ \A i \in 0 .. k : h[i] = g[i]
    <3> HIDE DEF y
    <3>1. \A i \in 0 .. k : i \in 0 .. k + 1 /\ i # k + 1
      BY <2>2
    <3>2. k + 1 \in 0 .. k + 1
      BY <2>2
    <3>3. QED
      BY <3>1, <3>2
  <2>6. Good(k + 1, h)
    <3>1. h[0] = x
      BY <2>1, <2>2, <2>5
    <3>2. ASSUME NEW i \in 1 .. k + 1 PROVE h[i] = F[i][h[i - 1]]
      <4> HIDE DEF h
      <4>1. CASE i = k + 1
        <5>1. i - 1 = k /\ k \in 0 .. k
          BY <2>2, <4>1
        <5>2. QED
          BY <2>5, <4>1, <5>1
      <4>2. CASE i # k + 1
        <5>1. i \in 1 .. k /\ i \in 0 .. k /\ i - 1 \in 0 .. k
          BY <2>2, <4>2
        <5>2. QED
          BY <2>1, <2>5, <5>1
      <4>3. QED
        BY <4>1, <4>2
    <3>3. QED
      BY <3>1, <3>2
  <2>7. QED
    BY <2>2, <2>4, <2>6
<1>3. n \in D
  <2> HIDE DEF D
  <2>1. QED
    BY <1>1, <1>2, Climbed
<1>4. QED
  BY <1>3 DEF Values

\* What the loop of Query has after the first i entries.
Loop(g, f) ==
    g = [i \in 0 .. Len(entries) |->
            IF i = 0 THEN <<>>
            ELSE IF Matches(entries[i], f) THEN Append(g[i - 1], entries[i])
            ELSE g[i - 1]]

\* The recursive function of Query is one that satisfies its equation.
LEMMA LoopRuns ==
    ASSUME NEW S, entries \in Seq(S), NEW f
    PROVE  \E g : Loop(g, f) /\ Query(f) = g[Len(entries)]
<1> DEFINE n == Len(entries)
           F == [i \in 1 .. n |-> [s \in Seq(S) |->
                    IF Matches(entries[i], f) THEN Append(s, entries[i]) ELSE s]]
<1>1. n \in Nat /\ \A i \in 1 .. n : entries[i] \in S
  OBVIOUS
<1>2. F \in [1 .. n -> [Seq(S) -> Seq(S)]]
  <2>1. ASSUME NEW i \in 1 .. n, NEW s \in Seq(S)
        PROVE  (IF Matches(entries[i], f) THEN Append(s, entries[i]) ELSE s) \in Seq(S)
    BY <1>1
  <2>2. QED
    BY <2>1
<1>3. <<>> \in Seq(S)
  OBVIOUS
<1>4. \A i \in 1 .. n : \A s \in Seq(S) :
         F[i][s] = IF Matches(entries[i], f) THEN Append(s, entries[i]) ELSE s
  OBVIOUS
<1>5. PICK g \in [0 .. n -> Seq(S)] : g[0] = <<>> /\ \A i \in 1 .. n : g[i] = F[i][g[i - 1]]
  <2> DEFINE none == <<>>
             T == Seq(S)
  <2>1. n \in Nat /\ none \in T /\ Body(F, n, T)
    BY <1>1, <1>2, <1>3 DEF Body
  <2>2. \E g : Values(g, F, n, T, none)
    <3> HIDE DEF n, F, none, T
    <3>1. QED
      BY <2>1, Iterated
  <2> HIDE DEF F
  <2>3. QED
    BY <2>2 DEF Values
<1>6. \A i \in 0 .. n : g[i] = IF i = 0 THEN <<>>
                              ELSE IF Matches(entries[i], f) THEN Append(g[i - 1], entries[i])
                              ELSE g[i - 1]
  <2> HIDE DEF F, n
  <2> SUFFICES ASSUME NEW i \in 0 .. n, i # 0
               PROVE  g[i] = IF Matches(entries[i], f) THEN Append(g[i - 1], entries[i])
                             ELSE g[i - 1]
    BY <1>5
  <2>1. i \in 1 .. n /\ i - 1 \in 0 .. n
    BY <1>1
  <2>2. QED
    BY <1>4, <1>5, <2>1
<1>7. Loop(g, f)
  <2> HIDE DEF F, n
  <2>1. g = [i \in 0 .. n |-> g[i]]
    BY <1>5
  <2>2. QED
    BY <1>6, <2>1 DEF Loop, n
<1> DEFINE h == CHOOSE h : Loop(h, f)
<1>8. Loop(h, f) /\ Query(f) = h[n]
  <2>1. Query(f) = h[n]
    BY DEF Query, Loop
  <2>2. Loop(h, f)
    BY <1>7
  <2>3. QED
    BY <2>1, <2>2
<1>9. QED
  BY <1>8

\* Query answers what matches of the list, and nothing else.
LEMMA QueryFinds ==
    ASSUME NEW S, entries \in Seq(S), NEW f
    PROVE  ToSet(Query(f)) = {e \in ToSet(entries) : Matches(e, f)}
<1> DEFINE n == Len(entries)
           Found(k) == {e \in {entries[i] : i \in 1 .. k} : Matches(e, f)}
<1>1. n \in Nat /\ DOMAIN entries = 1 .. n /\ \A i \in 1 .. n : entries[i] \in S
  OBVIOUS
<1>2. PICK g : Loop(g, f) /\ Query(f) = g[n]
  BY LoopRuns
<1> DEFINE D == {k \in 0 .. n : g[k] \in Seq(S) /\ ToSet(g[k]) = Found(k)}
<1>3. 0 \in D
  <2>1. g[0] = <<>> /\ 0 \in 0 .. n
    BY <1>1, <1>2 DEF Loop
  <2>2. Found(0) = {} /\ ToSet(<<>>) = {} /\ <<>> \in Seq(S)
    BY DEF ToSet
  <2>3. QED
    BY <2>1, <2>2
<1>4. ASSUME NEW k \in 0 .. n - 1, k \in D PROVE k + 1 \in D
  <2>1. k \in Nat /\ k + 1 \in 1 .. n /\ k + 1 \in 0 .. n /\ (k + 1) - 1 = k /\ k + 1 # 0
    BY <1>1
  <2>2. g[k] \in Seq(S) /\ ToSet(g[k]) = Found(k)
    BY <1>4
  <2> DEFINE e == entries[k + 1]
  <2>3. g[k + 1] = IF Matches(e, f) THEN Append(g[k], e) ELSE g[k]
    BY <1>2, <2>1 DEF Loop
  <2>4. e \in S
    BY <1>1, <2>1
  <2>5. Found(k + 1) = IF Matches(e, f) THEN Found(k) \cup {e} ELSE Found(k)
    <3>1. 1 .. k + 1 = 1 .. k \cup {k + 1}
      BY <2>1
    <3>2. {entries[i] : i \in 1 .. k + 1} = {entries[i] : i \in 1 .. k} \cup {e}
      BY <3>1
    <3>3. QED
      BY <3>2
  <2> HIDE DEF e, Found
  <2>6. CASE Matches(e, f)
    <3>1. Append(g[k], e) \in Seq(S) /\ ToSet(Append(g[k], e)) = Found(k) \cup {e}
      BY <2>2, <2>4, AppendToSet
    <3>2. QED
      BY <2>1, <2>3, <2>5, <2>6, <3>1
  <2>7. CASE ~Matches(e, f)
    BY <2>1, <2>2, <2>3, <2>5, <2>7
  <2>8. QED
    BY <2>6, <2>7
<1>5. n \in D
  <2> HIDE DEF D, n
  <2>1. QED
    BY <1>1, <1>3, <1>4, Climbed
<1>6. QED
  BY <1>1, <1>2, <1>5 DEF ToSet

\* The trail has no hole: no entry is lost but to an outage or a stop, the
\* list in memory is the newest of what this process recorded, and whoever
\* asks it with a filter finds every entry of that window the table has for
\* the same filter.
THEOREM TrailIsComplete == Spec => []AuditTrail
<1>1. ASSUME AuditInv,
             \A e \in auditRows : entries # <<>> /\ e.at >= entries[1].at => e \in ToSet(entries)
      PROVE  MemoryAhead({"create", "delete"}, Names)
  <2> SUFFICES ASSUME NEW f, NEW e \in RowsQuery(f), entries # <<>>, e.at >= entries[1].at
               PROVE  e \in ToSet(Query(f))
    BY DEF MemoryAhead
  <2>1. e \in auditRows /\ Matches(e, f)
    BY DEF RowsQuery
  <2>2. entries \in Seq(Entry)
    BY <1>1 DEF AuditInv, Window, WindowOf
  <2>3. QED
    BY <1>1, <2>1, <2>2, QueryFinds
<1>2. AuditInv /\ WindowKept
        /\ (\A e \in auditRows : entries # <<>> /\ e.at >= entries[1].at => e \in ToSet(entries))
        /\ AuditComplete
        => AuditTrail
  BY <1>1 DEF AuditTrail, AuditReads
<1>3. QED
  BY <1>2, AuditSafe, AuditIsComplete, WindowIsKept, MemoryIsAhead, PTL
=============================================================================
