------------------------------- MODULE AuditLog -------------------------------
(***************************************************************************)
(* The audit log of the snapshot operations (internal/snapshot/audit.go).  *)
(* Record appends to a bounded list in memory under the log's mutex, which *)
(* also fixes the entry's timestamp, and, when there is a repository,      *)
(* starts a goroutine that writes the entry to audit_logs and gives up     *)
(* after five seconds.  Query and Recent read the list only; the table has *)
(* a Query of its own in the repository.                                   *)
(*                                                                         *)
(* A timestamp is the number of the entry, so all are distinct.            *)
(***************************************************************************)
EXTENDS Naturals, Sequences, FiniteSets, SequencesExt

CONSTANTS MaxEntries,   \* entries kept in memory
          RowLimit      \* LIMIT of the repository's Query

ASSUME AuditAssumption == MaxEntries \in Nat \ {0} /\ RowLimit \in Nat \ {0}

VARIABLES entries,      \* AuditLog.entries
          flying,       \* entries whose goroutine is in repo.Create
          auditRows,    \* the table audit_logs
          recorded,     \* every entry ever recorded, oldest first
          booted        \* entries recorded before this process started

auditVars == <<entries, flying, auditRows, recorded, booted>>

All == ""          \* an empty filter field
Matches(e, f) ==
    /\ f.action = All \/ e.action = f.action
    /\ f.snapshot = All \/ e.snapshot = f.snapshot
    /\ f.since = 0 \/ e.at >= f.since
    /\ f.until = 0 \/ e.at <= f.until

\* The newest n of s, oldest first: what is left after a FIFO eviction.
Newest(s, n) == IF Len(s) > n THEN SubSeq(s, Len(s) - n + 1, Len(s)) ELSE s

Query(f) ==
    LET result[i \in 0 .. Len(entries)] ==
            IF i = 0 THEN <<>>
            ELSE IF Matches(entries[i], f) THEN Append(result[i - 1], entries[i])
            ELSE result[i - 1]
    IN result[Len(entries)]

Recent(n) == IF n <= 0 THEN <<>> ELSE Newest(entries, n)

\* Timestamps are distinct, so ORDER BY timestamp DESC LIMIT is determined.
RowsQuery(f) ==
    LET found == {e \in auditRows : Matches(e, f)}
    IN  {e \in found : Cardinality({d \in found : d.at > e.at}) < RowLimit}

AuditInit ==
    /\ entries = <<>> /\ flying = {} /\ auditRows = {}
    /\ recorded = <<>> /\ booted = 0

\* Mutant: a full log returns before the goroutine.
RecordEarly(action, snapshot, hasRepo) ==
    LET e == [at |-> Len(recorded) + 1, action |-> action, snapshot |-> snapshot]
    IN  /\ entries' = Newest(Append(entries, e), MaxEntries)
        /\ recorded' = Append(recorded, e)
        /\ flying' = IF hasRepo /\ Len(entries) < MaxEntries THEN flying \cup {e} ELSE flying
        /\ UNCHANGED <<auditRows, booted>>

Record(action, snapshot, hasRepo) ==
    LET e == [at |-> Len(recorded) + 1, action |-> action, snapshot |-> snapshot]
    IN  /\ entries' = Newest(Append(entries, e), MaxEntries)
        /\ recorded' = Append(recorded, e)
        /\ flying' = IF hasRepo THEN flying \cup {e} ELSE flying
        /\ UNCHANGED <<auditRows, booted>>

\* The goroutine of one entry; goroutines run in any order.
Persist(e) ==
    /\ e \in flying
    /\ auditRows' = auditRows \cup {e}
    /\ flying' = flying \ {e}
    /\ UNCHANGED <<entries, recorded, booted>>

\* Create fails or its five seconds pass; the row may be there all the same.
GiveUp(e) ==
    /\ e \in flying
    /\ auditRows' \in {auditRows, auditRows \cup {e}}
    /\ flying' = flying \ {e}
    /\ UNCHANGED <<entries, recorded, booted>>

\* The process ends: memory and goroutines go with it.
AuditLost ==
    /\ entries' = <<>> /\ flying' = {}
    /\ booted' = Len(recorded)
    /\ UNCHANGED <<auditRows, recorded>>

-----------------------------------------------------------------------------
Filters(actions, snapshots) ==
    [action : actions \cup {All}, snapshot : snapshots \cup {All},
     since : 0..Len(recorded), until : 0..Len(recorded)]

\* The list in memory is the newest MaxEntries of what this process recorded,
\* without a hole, whatever was evicted.
WindowKept ==
    /\ entries = Newest(SubSeq(recorded, booted + 1, Len(recorded)), MaxEntries)
    /\ \A n \in 1..Len(recorded) : IsSuffix(Recent(n), recorded)

\* A reader of the table never sees an entry of the window that Query in
\* memory, asked with the same filter, does not show.
MemoryAhead(actions, snapshots) ==
    \A f \in Filters(actions, snapshots) : \A e \in RowsQuery(f) :
        entries # <<>> /\ e.at >= entries[1].at => e \in ToSet(Query(f))
=============================================================================
