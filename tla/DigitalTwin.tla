----------------------------- MODULE DigitalTwin -----------------------------
(***************************************************************************)
(* The core of the platform: snapshot management, synchronisation and      *)
(* topology queries run by concurrent goroutines over one graph database,  *)
(* with restarts of the server process.                                    *)
(***************************************************************************)
EXTENDS SnapshotManager, SyncService

CONSTANT Crashes      \* TRUE: the process may stop and start again

ASSUME CrashAssumption == Crashes \in BOOLEAN

vars == <<twinVars, managerVars>>

\* The callers' discipline unless they are careless: Create uses a name once,
\* Diff is asked about snapshots whose Create has succeeded.
Careful(j) ==
    /\ j.op = "create" =>
          /\ archive[j.a].st = "none"
          /\ \A q \in Procs : ~(job[q].op = "create" /\ job[q].a = j.a)
    /\ j.op = "diff" => {archive[j.a].st, archive[j.b].st} = {"whole"}

Call(p) ==
    /\ \E j \in Jobs[p] : (Careless \/ Careful(j)) /\ Start(p, j)
    /\ UNCHANGED managerVars

Finish(p) ==
    /\ Return(p)
    /\ queue'  = [queue EXCEPT ![p] = <<>>]
    /\ second' = [second EXCEPT ![p] = FALSE]
    /\ UNCHANGED <<archive, metaCache, cacheReady, repo, lastAccess>>

\* The process dies and starts again: Neo4j, the YAML files and PostgreSQL
\* keep what they have, everything in memory is gone.
Restart ==
    /\ Crashes
    /\ lk' = [p \in Procs |-> "none"]
    /\ pc' = [p \in Procs |-> "idle"]
    /\ job' = [p \in Procs |-> IdleJob]
    /\ buf' = [p \in Procs |-> Empty]
    /\ todo' = [p \in Procs |-> {}]
    /\ queue' = [p \in Procs |-> <<>>]
    /\ second' = [p \in Procs |-> FALSE]
    /\ metaCache' = {}
    /\ cacheReady' = FALSE
    /\ lastAccess' = [s \in Snaps |-> 0]
    /\ UNCHANGED <<db, archive, repo>>

\* What a goroutine does on its own between a call and its return.
Step(p) ==
    \/ ManagerStep(p)
    \/ (SyncStep(p) \/ StatementFails(p)) /\ UNCHANGED managerVars

Init == TwinInit /\ ManagerInit

Next ==
    \/ \E p \in Procs :
          \/ Call(p)
          \/ LockTurn(p) /\ UNCHANGED managerVars
          \/ Step(p)
          \/ Finish(p)
    \/ Restart

Spec == Init /\ [][Next]_vars

\* A goroutine that can run is scheduled; sync.RWMutex hands its inner mutex
\* to every waiting writer in turn (starvation mode of sync.Mutex).
Fairness ==
    \A p \in Procs :
        /\ WF_vars(Step(p))
        /\ WF_vars(Finish(p))
        /\ SF_vars(LockTurn(p) /\ UNCHANGED managerVars)

FairSpec == Spec /\ Fairness

-----------------------------------------------------------------------------
(* Properties.                                                              *)

ManagerLabels == {"c_nodes", "c_rels", "c_open", "c_write", "c_body", "c_rest",
                  "c_meta", "c_repo", "c_expire", "d_clear", "d_meta", "d_repo", "e_has",
                  "e_import", "e_nodes", "e_rels", "e_list", "e_evict",
                  "e_forget", "r_clear", "r_nodes", "r_rels", "r_wnodes",
                  "r_wrels", "diff", "l_read"}
SyncLabels == {"f_clear", "f_collect", "f_nodes", "f_rels", "u_assemble",
               "u_nodes", "u_rels", "u_delete", "u_match", "u_drop", "q_read"}
PcLabels == ManagerLabels \cup SyncLabels \cup {"idle", "ok", "err"}

\* Every variable stays within its type.
TypeOK ==
    /\ lk \in [Procs -> LockStates]
    /\ db \in [Dbs -> Content]
    /\ pc \in [Procs -> PcLabels]
    /\ job \in [Procs -> Job \cup {IdleJob}]
    /\ buf \in [Procs -> Content]
    /\ todo \in [Procs -> SUBSET (Labels \cup Types)]
    /\ archive \in [Snaps -> Archive]
    /\ metaCache \subseteq Snaps
    /\ cacheReady \in BOOLEAN
    /\ repo \subseteq Snaps
    /\ lastAccess \in [Snaps -> Nat]
    /\ queue \in [Procs -> Seq(Snaps)]
    /\ second \in [Procs -> BOOLEAN]

\* The live database changes only in a step taken while one goroutine holds
\* the write lock and no other goroutine is inside the lock: Restore, FullSync
\* and IncrementalSync exclude each other, Create and QueryTopology.
LiveIsolated ==
    [][db'[Default] # db[Default] =>
         \E p \in Procs : /\ lk[p] = "write"
                          /\ \A q \in Procs \ {p} : lk[q] \notin {"read", "write"}]_vars

\* When a YAML archive becomes whole, it holds exactly what the live database
\* holds at that moment, although Create read nodes and relations in separate
\* statements: the archive is a consistent cut.
ArchiveIsCut ==
    [][\A s \in Snaps :
         archive'[s].st = "whole" /\ archive'[s] # archive[s]
            => archive'[s].c = db[Default]]_vars

\* Restore does what its caller asks: it clears the live database only with
\* the archived content at hand in the snapshot's logical database, and when
\* it succeeds the live database is the archived content.
RestoreFaithful ==
    \A p \in Procs : job[p].op = "restore" =>
        /\ pc[p] \in {"r_clear", "r_nodes", "r_rels"}
              => db[job[p].a] = archive[job[p].a].c
        /\ pc[p] = "ok" => db[Default] = archive[job[p].a].c

\* Diff compares the two archives it was asked about, for as long as its
\* queries run, whatever EnsureLoaded and its LRU cleanup did before.
DiffFaithful ==
    \A p \in Procs : pc[p] = "diff" =>
        /\ db[job[p].a] = archive[job[p].a].c
        /\ db[job[p].b] = archive[job[p].b].c

\* No logical database ever holds the same entity twice, although BulkCreate
\* and CloneDB use CREATE and may be cut short by errors and restarts.
NoDuplicates ==
    \A d \in Dbs, u \in Uris : db[d].n[u] <= 1

\* Whenever no EnsureLoaded is under way, at most MaxActive snapshot databases
\* are in Neo4j, however many loads and evictions overlapped before.
ActiveBound ==
    (\A p \in Procs : pc[p] \notin {"e_import", "e_nodes", "e_rels", "e_list",
                                    "e_evict", "e_forget"})
        => Cardinality(Loaded) <= MaxActive

WholeArchives == {s \in Snaps : archive[s].st = "whole"}

\* Whatever fails or stops in between, the repository only has names whose
\* archives are complete, since metadata is recorded after the file; and when
\* List has to do without the repository, from the cache or a scan of the
\* directory, every name it gives has a file with readable metadata.
ListRestorable ==
    /\ UseRepo => repo \subseteq WholeArchives
    /\ \A names \in ListAnswers : names \subseteq WithMeta

\* Does not hold: List never names a snapshot whose archive is cut short.  A
\* scan, and the cache that it warms, have files whose Create was cut short.
ListIntact == \A names \in ListAnswers : names \subseteq WholeArchives

\* Does not hold: List names every intact archive (when no Create is about to
\* register one).
ListComplete ==
    (\A p \in Procs : job[p].op # "create")
       => \A names \in ListAnswers : WholeArchives \subseteq names

\* A reader never waits for the lock while a writer is inside.
QueriesUnaffected ==
    \A p, q \in Procs : lk[p] = "write" => lk[q] # "waitR"

\* Every call returns: neither the lock nor the cleanup loops can hold a
\* goroutine for ever.
CallsReturn == \A p \in Procs : pc[p] # "idle" ~> pc[p] = "idle"
=============================================================================
