---------------------------- MODULE MCDigitalTwin ----------------------------
(***************************************************************************)
(* Values for TLC.  Two URIs with labels of their own joined by one        *)
(* relation; payloads are one node, or both nodes and the relation.        *)
(***************************************************************************)
EXTENDS DigitalTwin, TLC

CONSTANTS p1, p2, u1, u2, s1, s2, s3

MCUris    == {u1, u2}
MCRels    == {<<u1, u2>>}
MCLabels  == {"Device", "Interface"}
MCTypes   == {"HAS_INTERFACE"}
MCLabelOf == (u1 :> "Device") @@ (u2 :> "Interface")
MCTypeOf  == (<<u1, u2>> :> "HAS_INTERFACE")

\* A graph of one node, for runs about which databases are loaded.
OneUri    == {u1}
OneLabel  == (u1 :> "Device")
NoRels    == {}
NoTypeOf  == [e \in NoRels |-> "HAS_INTERFACE"]
OneModel  == {[n |-> [u \in OneUri |-> 1], r |-> [e \in NoRels |-> 0]]}

Some(nodes, rels) ==
    [n |-> [u \in MCUris |-> IF u \in nodes THEN 1 ELSE 0],
     r |-> [e \in MCRels |-> IF e \in rels THEN 1 ELSE 0]]

MCModels == {Some({u1}, {}), Some({u1, u2}, MCRels)}

On(ops, names) == {[op |-> o, a |-> s, b |-> s] : o \in ops, s \in names}
Diffs          == {[op |-> "diff", a |-> s1, b |-> s2]}
Sync           == On({"fullsync"}, {s1})

Clients(j1, j2) == (p1 :> j1) @@ (p2 :> j2)

\* Snapshots on one side, the live database on the other, both with failures.
HostileJobs == Clients(On({"create", "restore", "delete"}, {s1}),
                       On({"create", "fullsync", "upsert", "delnodes", "delrels"}, {s1}))

\* The life of the catalog: two names, created, listed, expired and deleted.
CatalogJobs == Clients(On({"create", "list"}, {s1, s2}) \cup Sync,
                       On({"create", "delete"}, {s1, s2}))

\* One client diffs and restores, the other creates and syncs.
DiffJobs == Clients(Diffs \cup On({"restore"}, {s1, s2, s3}),
                    On({"create"}, {s1, s2, s3}) \cup Sync)

\* Both clients load databases at the same time, one deletes.
OverlapJobs == Clients(Diffs \cup On({"restore"}, {s1, s2}) \cup Sync,
                       Diffs \cup On({"create"}, {s1, s2}) \cup On({"delete", "query"}, {s1}))

\* One snapshot, one client per goroutine: the smallest worlds in which the
\* documented promises about Restore, List, Diff and the lock can be tried.
RestoreDeleteJobs == Clients(On({"create", "restore"}, {s1}), On({"delete", "fullsync"}, {s1}))
OneNameJobs       == Clients(On({"create", "restore", "fullsync"}, {s1}), {})
ListJobs          == Clients(On({"create", "list"}, {s1, s2}) \cup Sync, {})
TwoDiffJobs       == Clients(On({"create", "fullsync"}, {s1, s2}) \cup Diffs, Diffs)
OneDiffJobs       == Clients(On({"create", "fullsync"}, {s1, s2}) \cup Diffs, {})
QueryJobs         == Clients(Sync, On({"query"}, {s1}))
=============================================================================
