----------------------------- MODULE Repositories -----------------------------
(***************************************************************************)
(* The four record stores of internal/repository that have an              *)
(* implementation on PostgreSQL and one in memory: snapshots, connector    *)
(* configurations, sync logs and schema versions.  Both implementations    *)
(* are driven by the same sequence of writing calls.  The reading calls    *)
(* change nothing: each is an operator, and a property compares what the   *)
(* two answer.  A table is a set of rows, as SQL has it, and the memory    *)
(* keeps Go's maps and slices.                                             *)
(*                                                                         *)
(* Every call is one statement, or runs under the store's mutex, so calls  *)
(* do not overlap.  Ids are left out, except where two rows may be equal:  *)
(* a failed INSERT uses up a number of a sequence, so they differ anyway.  *)
(***************************************************************************)
EXTENDS Naturals, Sequences, FiniteSets, FiniteSetsExt, SequencesExt

CONSTANTS Names,        \* names of snapshots and connectors
          Times,        \* points in time a caller may write, microseconds or more apart: numbers
          Statuses,     \* values of the status column
          SyncTypes,    \* "full", "incremental"
          Versions,     \* schema versions a caller may record
          MaxInteger,   \* the largest value of PostgreSQL's INTEGER
          MaxCalls      \* bound: calls of a behaviour

NoPing == 0

ASSUME RepositoryAssumption ==
    /\ Times \subseteq Nat \ {NoPing}
    /\ Versions \subseteq Nat
    /\ MaxInteger \in Nat /\ MaxCalls \in Nat

VARIABLES pg,           \* the tables
          mem,          \* the maps and slices of the in-memory implementations
          answer,       \* the store of the last call and what it returned, from each
          cleared,      \* names upserted since their last ping was recorded
          refused,      \* stores that were given a value PostgreSQL does not take
          calls

vars == <<pg, mem, answer, cleared, refused, calls>>

Named(rows, n) == {r \in rows : r.name = n}
Without(f, n)  == [x \in DOMAIN f \ {n} |-> f[x]]
With(f, n, v)  == [x \in DOMAIN f \cup {n} |-> IF x = n THEN v ELSE f[x]]

-----------------------------------------------------------------------------
(* Snapshots. *)

PgSnapshotCreate(rows, n, at) ==
    IF Named(rows, n) # {} THEN rows
    ELSE rows \cup {[name |-> n, at |-> at, status |-> "active"]}
MemSnapshotCreate(records, n, at) ==
    IF n \in DOMAIN records THEN records
    ELSE With(records, n, [name |-> n, at |-> at, status |-> "active"])

PgDelete(rows, n)     == rows \ Named(rows, n)
MemDelete(records, n) == Without(records, n)

PgSetStatus(rows, n, st) ==
    {IF r.name = n THEN [r EXCEPT !.status = st] ELSE r : r \in rows}
MemSetStatus(records, n, st) ==
    IF n \in DOMAIN records THEN [records EXCEPT ![n].status = st] ELSE records

PgGetByName(rows, n)     == Named(rows, n)
MemGetByName(records, n) == IF n \in DOMAIN records THEN {records[n]} ELSE {}

\* ORDER BY at DESC leaves the order of equal times open, and so do sort.Slice
\* and the map it starts from: the set of the lists a call may return.
PgSnapshotList(rows) ==
    {s \in SetToSeqs(rows) : \A i, j \in DOMAIN s : i < j => s[i].at >= s[j].at}
Sorts(s, key) ==
    {[i \in DOMAIN s |-> s[p[i]]] : p \in
        {p \in SetToSeqs(DOMAIN s) :
           \A i \in 1..(Len(s) - 1) : s[p[i]][key] >= s[p[i + 1]][key]}}
MemSnapshotList(records) ==
    Sorts(SetToSeq({records[n] : n \in DOMAIN records}), "at")

-----------------------------------------------------------------------------
(* Connector configurations.  The statement of Upsert does not name        *)
(* last_ping; the map's Upsert stores the whole record of the caller, whose*)
(* LastPing the server never sets.                                         *)

PgUpsert(rows, n, st) ==
    IF Named(rows, n) = {} THEN rows \cup {[name |-> n, status |-> st, ping |-> NoPing]}
    ELSE PgSetStatus(rows, n, st)
MemUpsert(records, n, st) ==
    With(records, n, [name |-> n, status |-> st, ping |-> NoPing])

PgSetPing(rows, n, t) ==
    {IF r.name = n THEN [r EXCEPT !.ping = t] ELSE r : r \in rows}
MemSetPing(records, n, t) ==
    IF n \in DOMAIN records THEN [records EXCEPT ![n].ping = t] ELSE records

PgConnectorList(rows)     == rows
MemConnectorList(records) == {records[n] : n \in DOMAIN records}

-----------------------------------------------------------------------------
(* Sync logs. *)

PgLogCreate(rows, ty, at) ==
    rows \cup {[id |-> Cardinality(rows) + 1, type |-> ty, at |-> at]}
MemLogCreate(records, ty, at) == Append(records, [type |-> ty, at |-> at])

Row(r) == [type |-> r.type, at |-> r.at]

\* The lists SELECT ... ORDER BY started_at DESC LIMIT may return: as many
\* rows as asked for, in order, and none left out is newer than one returned.
PgNewest(rows, limit) ==
    LET n == IF limit > 0 /\ limit < Cardinality(rows) THEN limit ELSE Cardinality(rows)
    IN  {[i \in DOMAIN s |-> Row(s[i])] :
           s \in {s \in UNION {SetToSeqs(part) : part \in kSubset(n, rows)} :
                    /\ \A i, j \in DOMAIN s : i < j => s[i].at >= s[j].at
                    /\ \A i \in DOMAIN s, r \in rows :
                          r.at > s[i].at => r \in ToSet(s)}}
PgLogList(rows, limit)           == PgNewest(rows, limit)
PgLogListByType(rows, ty, limit) == PgNewest({r \in rows : r.type = ty}, limit)
PgLogCount(rows)                 == Cardinality(rows)

\* The loop of ListByType.
OfType(records, ty) ==
    LET filtered[i \in 0 .. Len(records)] ==
            IF i = 0 THEN <<>>
            ELSE IF records[i].type = ty THEN Append(filtered[i - 1], records[i])
            ELSE filtered[i - 1]
    IN filtered[Len(records)]

Cut(s, limit) == IF limit > 0 /\ Len(s) > limit THEN SubSeq(s, 1, limit) ELSE s
MemLogList(records, limit) == {Cut(s, limit) : s \in Sorts(records, "at")}
\* Mutant: the limit is applied before the filter.
MemLogListByTypeCut(records, ty, limit) ==
    {OfType(s, ty) : s \in MemLogList(records, limit)}
MemLogListByType(records, ty, limit) == MemLogList(OfType(records, ty), limit)
MemLogCount(records) == Len(records)

-----------------------------------------------------------------------------
(* Schema versions: a UNIQUE INTEGER column, and a slice of Go ints. *)

PgVersionCreate(rows, v) == rows \cup {v}
MemVersionCreate(records, v) == Append(records, v)

PgLatest(rows) == IF rows = {} THEN {} ELSE {Max(rows)}
MemLatest(records) ==
    LET latest[i \in 0 .. Len(records)] ==
            IF i = 0 THEN {}
            ELSE IF \A l \in latest[i - 1] : records[i] > l THEN {records[i]}
            ELSE latest[i - 1]
    IN latest[Len(records)]

-----------------------------------------------------------------------------
Init ==
    /\ pg  = [snapshots |-> {}, connectors |-> {}, logs |-> {}, versions |-> {}]
    /\ mem = [snapshots |-> <<>>, connectors |-> <<>>, logs |-> <<>>, versions |-> <<>>]
    /\ answer = [store |-> "none", pg |-> "ok", mem |-> "ok"]
    /\ cleared = {} /\ refused = {}
    /\ calls = 0

Answers(store, p, m) == answer' = [store |-> store, pg |-> p, mem |-> m]
Called        == calls < MaxCalls /\ calls' = calls + 1

Exists(table, n)    == IF Named(table, n) # {} THEN "exists" ELSE "ok"
Present(records, n) == IF n \in DOMAIN records THEN "exists" ELSE "ok"
Rows(table, n)      == IF Named(table, n) = {} THEN "not found" ELSE "ok"
\* Mutant: deleting or updating nothing succeeds.
FoundAlways(records, n) == "ok"
Found(records, n)   == IF n \in DOMAIN records THEN "ok" ELSE "not found"

CreateSnapshot(n, at) ==
    /\ Called
    /\ pg'  = [pg EXCEPT !.snapshots = PgSnapshotCreate(@, n, at)]
    /\ mem' = [mem EXCEPT !.snapshots = MemSnapshotCreate(@, n, at)]
    /\ Answers("snapshots", Exists(pg.snapshots, n), Present(mem.snapshots, n))
    /\ UNCHANGED <<cleared, refused>>

DeleteSnapshot(n) ==
    /\ Called
    /\ pg'  = [pg EXCEPT !.snapshots = PgDelete(@, n)]
    /\ mem' = [mem EXCEPT !.snapshots = MemDelete(@, n)]
    /\ Answers("snapshots", Rows(pg.snapshots, n), Found(mem.snapshots, n))
    /\ UNCHANGED <<cleared, refused>>

UpdateSnapshotStatus(n, st) ==
    /\ Called
    /\ pg'  = [pg EXCEPT !.snapshots = PgSetStatus(@, n, st)]
    /\ mem' = [mem EXCEPT !.snapshots = MemSetStatus(@, n, st)]
    /\ Answers("snapshots", Rows(pg.snapshots, n), Found(mem.snapshots, n))
    /\ UNCHANGED <<cleared, refused>>

Upsert(n, st) ==
    /\ Called
    /\ pg'  = [pg EXCEPT !.connectors = PgUpsert(@, n, st)]
    /\ mem' = [mem EXCEPT !.connectors = MemUpsert(@, n, st)]
    /\ Answers("connectors", "ok", "ok")
    /\ cleared' = cleared \cup {n}
    /\ UNCHANGED refused

UpdateConnectorStatus(n, st) ==
    /\ Called
    /\ pg'  = [pg EXCEPT !.connectors = PgSetStatus(@, n, st)]
    /\ mem' = [mem EXCEPT !.connectors = MemSetStatus(@, n, st)]
    /\ Answers("connectors", Rows(pg.connectors, n), Found(mem.connectors, n))
    /\ UNCHANGED <<cleared, refused>>

UpdateLastPing(n, t) ==
    /\ Called
    /\ pg'  = [pg EXCEPT !.connectors = PgSetPing(@, n, t)]
    /\ mem' = [mem EXCEPT !.connectors = MemSetPing(@, n, t)]
    /\ Answers("connectors", Rows(pg.connectors, n), Found(mem.connectors, n))
    /\ cleared' = cleared \ {n}
    /\ UNCHANGED refused

DeleteConnector(n) ==
    /\ Called
    /\ pg'  = [pg EXCEPT !.connectors = PgDelete(@, n)]
    /\ mem' = [mem EXCEPT !.connectors = MemDelete(@, n)]
    /\ Answers("connectors", Rows(pg.connectors, n), Found(mem.connectors, n))
    /\ cleared' = cleared \ {n}
    /\ UNCHANGED refused

CreateLog(ty, at) ==
    /\ Called
    /\ pg'  = [pg EXCEPT !.logs = PgLogCreate(@, ty, at)]
    /\ mem' = [mem EXCEPT !.logs = MemLogCreate(@, ty, at)]
    /\ Answers("logs", "ok", "ok")
    /\ UNCHANGED <<cleared, refused>>

CreateVersion(v) ==
    /\ Called
    /\ v <= MaxInteger
    /\ pg'  = [pg EXCEPT !.versions = PgVersionCreate(@, v)]
    /\ mem' = [mem EXCEPT !.versions = MemVersionCreate(@, v)]
    /\ Answers("versions", IF v \in pg.versions THEN "duplicate" ELSE "ok", "ok")
    /\ UNCHANGED <<cleared, refused>>

-----------------------------------------------------------------------------
(* A value that a column does not take: no Config or EntityTypes of a        *)
(* connector, no EntityTypes or RelationTypes of a schema version (a nil     *)
(* []byte is NULL, the columns are NOT NULL), text that is no JSON or longer *)
(* than its VARCHAR, a number beyond INTEGER.  The statement fails and       *)
(* changes nothing, and the memory takes the value like any other.           *)

Refuse(store) ==
    /\ Called
    /\ refused' = refused \cup {store}
    /\ UNCHANGED <<pg, cleared>>

\* An UPDATE of no row may be planned without a look at the value.
Refusals(rows, n) == {"refused"} \cup IF Named(rows, n) = {} THEN {"not found"} ELSE {}

RefuseSnapshot(n, at) ==
    /\ Refuse("snapshots")
    /\ mem' = [mem EXCEPT !.snapshots = MemSnapshotCreate(@, n, at)]
    /\ Answers("snapshots", "refused", Present(mem.snapshots, n))

RefuseSnapshotStatus(n, st) ==
    /\ Refuse("snapshots")
    /\ mem' = [mem EXCEPT !.snapshots = MemSetStatus(@, n, st)]
    /\ \E a \in Refusals(pg.snapshots, n) :
          Answers("snapshots", a, Found(mem.snapshots, n))

RefuseUpsert(n, st) ==
    /\ Refuse("connectors")
    /\ mem' = [mem EXCEPT !.connectors = MemUpsert(@, n, st)]
    /\ Answers("connectors", "refused", "ok")

RefuseConnectorStatus(n, st) ==
    /\ Refuse("connectors")
    /\ mem' = [mem EXCEPT !.connectors = MemSetStatus(@, n, st)]
    /\ \E a \in Refusals(pg.connectors, n) :
          Answers("connectors", a, Found(mem.connectors, n))

RefuseLog(ty, at) ==
    /\ Refuse("logs")
    /\ mem' = [mem EXCEPT !.logs = MemLogCreate(@, ty, at)]
    /\ Answers("logs", "refused", "ok")

RefuseVersion(v) ==
    /\ Refuse("versions")
    /\ mem' = [mem EXCEPT !.versions = MemVersionCreate(@, v)]
    /\ Answers("versions", "refused", "ok")

Next ==
    \/ \E n \in Names :
          \/ \E at \in Times :
                CreateSnapshot(n, at) \/ RefuseSnapshot(n, at) \/ UpdateLastPing(n, at)
          \/ \E st \in Statuses :
                \/ UpdateSnapshotStatus(n, st) \/ RefuseSnapshotStatus(n, st)
                \/ Upsert(n, st) \/ RefuseUpsert(n, st)
                \/ UpdateConnectorStatus(n, st) \/ RefuseConnectorStatus(n, st)
          \/ DeleteSnapshot(n)
          \/ DeleteConnector(n)
    \/ \E ty \in SyncTypes, at \in Times : CreateLog(ty, at) \/ RefuseLog(ty, at)
    \/ \E v \in Versions : CreateVersion(v) \/ RefuseVersion(v)

Spec == Init /\ [][Next]_vars

-----------------------------------------------------------------------------
TypeOK ==
    /\ pg.snapshots \subseteq [name : Names, at : Times, status : Statuses]
    /\ pg.connectors \subseteq [name : Names, status : Statuses, ping : Times \cup {NoPing}]
    /\ pg.logs \subseteq [id : 1..MaxCalls, type : SyncTypes, at : Times]
    /\ pg.versions \subseteq Versions \cap (0..MaxInteger)
    /\ DOMAIN mem.snapshots \subseteq Names /\ DOMAIN mem.connectors \subseteq Names
    /\ \A t \in {pg.snapshots, pg.connectors}, n \in Names : Cardinality(Named(t, n)) <= 1
    /\ cleared \subseteq Names
    /\ refused \subseteq {"snapshots", "connectors", "logs", "versions"}
    /\ calls \in 0..MaxCalls

\* The same lists are possible for List, whatever ties do, and GetByName finds
\* the same record.
SnapshotsAgree ==
    /\ PgSnapshotList(pg.snapshots) = MemSnapshotList(mem.snapshots)
    /\ \A n \in Names : PgGetByName(pg.snapshots, n) = MemGetByName(mem.snapshots, n)

\* For every limit and type, although one sorts and cuts a filtered copy and
\* the other is a declarative query.
SyncLogsAgree ==
    /\ PgLogCount(pg.logs) = MemLogCount(mem.logs)
    /\ \A limit \in 0..MaxCalls :
          /\ PgLogList(pg.logs, limit) = MemLogList(mem.logs, limit)
          /\ \A ty \in SyncTypes : PgLogListByType(pg.logs, ty, limit)
                                     = MemLogListByType(mem.logs, ty, limit)

\* But for one difference: an Upsert keeps the last ping in PostgreSQL and
\* forgets it in memory.
ConnectorsAgree ==
    MemConnectorList(mem.connectors) =
        {[r EXCEPT !.ping = IF r.name \in cleared THEN NoPing ELSE @] :
           r \in PgConnectorList(pg.connectors)}

\* Although the slice takes duplicates the UNIQUE column refuses.
LatestAgree == PgLatest(pg.versions) = MemLatest(mem.versions)

\* After any sequence of calls the reads of the two implementations of a store
\* may give the same answers, unless it was given a value that PostgreSQL's
\* columns do not take and the memory does.
ReadsAgree ==
    /\ "snapshots" \in refused \/ SnapshotsAgree
    /\ "logs" \in refused \/ SyncLogsAgree
    /\ "connectors" \in refused \/ ConnectorsAgree
    /\ "versions" \in refused \/ LatestAgree

\* As long as a store is given no such value, a caller cannot tell from the
\* errors which implementation it has, except by recording a version twice.
AnswersAgree ==
    \/ answer.pg = answer.mem
    \/ answer.store \in refused
    \/ answer.store = "versions" /\ answer.pg = "duplicate" /\ answer.mem = "ok"

\* Does not hold: nobody can tell from the errors which implementation it has.
\* Upsert takes a record without Config and a version twice, but not both do.
ErrorsAgree == answer.pg = answer.mem
=============================================================================
