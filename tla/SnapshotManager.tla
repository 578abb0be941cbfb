--------------------------- MODULE SnapshotManager ---------------------------
(***************************************************************************)
(* internal/snapshot: SnapshotManager.Create, List, Delete, Restore,       *)
(* EnsureLoaded, Diff and the cleanups they run, over YAML archives, the   *)
(* logical databases in Neo4j, the in-memory metadata cache and the        *)
(* optional metadata repository in PostgreSQL.                             *)
(***************************************************************************)
EXTENDS TwinState, Sequences

CONSTANTS MaxActive,   \* snapshot databases kept in Neo4j (snapshot.max_active)
          UseRepo,     \* a SnapshotRepository is injected
          Retention,   \* retentionDays > 0
          Careless     \* TRUE: callers reuse names, diff unfinished snapshots

ASSUME ManagerAssumption ==
    /\ MaxActive \in Nat \ {0}
    /\ UseRepo \in BOOLEAN
    /\ Retention \in BOOLEAN
    /\ Careless \in BOOLEAN

VARIABLES archive,      \* archive[s]: the YAML file of s
          metaCache,    \* names in the metadata cache
          cacheReady,   \* the cache counts as warmed
          repo,         \* names in the metadata repository
          lastAccess,   \* rank of a name by last access, 0 = no entry
          queue,        \* queue[p]: databases p still has to clear
          second        \* second[p]: diff p is past its first EnsureLoaded

managerVars == <<archive, metaCache, cacheReady, repo, lastAccess, queue, second>>

\* A file is missing; has no readable document; has its metadata, but not all
\* nodes; has all nodes, and maybe not all relations; or is complete.
Archive == [st : {"none", "torn", "headed", "short", "whole"}, c : Content]

-----------------------------------------------------------------------------
(* lastAccess holds timestamps; only their order matters, so a name has its *)
(* rank among the entries, the latest one highest.                          *)

\* Mutant: every other rank is lowered, not only the later ones.
ForgetLowersAll(la, s) ==
    [t \in Snaps |-> IF t = s THEN 0 ELSE IF la[s] # 0 THEN la[t] - 1 ELSE la[t]]

Forget(la, s) ==
    [t \in Snaps |-> IF t = s THEN 0
                     ELSE IF la[s] # 0 /\ la[t] > la[s] THEN la[t] - 1
                     ELSE la[t]]

Touch(la, s) ==
    [Forget(la, s) EXCEPT ![s] = 1 + Cardinality({t \in Snaps \ {s} : la[t] # 0})]

Loaded == {s \in Snaps : HasNodes(db[s])}

\* Mutant: the sort order of the LRU cleanup is reversed.
NewestFirst(q) ==
    /\ \A i, j \in DOMAIN q :
          i < j => q[i] # q[j] /\ lastAccess[q[i]] >= lastAccess[q[j]]
    /\ \A i \in DOMAIN q, s \in Loaded :
          (\A j \in DOMAIN q : q[j] # s) => lastAccess[q[i]] >= lastAccess[s]

\* q is a prefix of the loaded databases sorted by last access, missing
\* entries first; names with equal rank come in any order.
OldestFirst(q) ==
    /\ \A i, j \in DOMAIN q :
          i < j => q[i] # q[j] /\ lastAccess[q[i]] <= lastAccess[q[j]]
    /\ \A i \in DOMAIN q, s \in Loaded :
          (\A j \in DOMAIN q : q[j] # s) => lastAccess[q[i]] <= lastAccess[s]

-----------------------------------------------------------------------------
(* Create: under the read lock, page through the nodes and the relations of *)
(* the live database, write the YAML file, then the metadata, then expire.  *)

CreateReadNodes(p) ==
    /\ At(p, "c_nodes")
    /\ buf' = [buf EXCEPT ![p] = [Empty EXCEPT !.n = db[Default].n]]
    /\ Goto(p, "c_rels")
    /\ UNCHANGED <<lk, db, job, todo, managerVars>>

CreateReadRels(p) ==
    /\ At(p, "c_rels")
    /\ buf' = [buf EXCEPT ![p].r = db[Default].r]
    /\ Goto(p, "c_open")
    /\ UNCHANGED <<lk, db, job, todo, managerVars>>

\* os.Create truncates the file of an earlier snapshot with this name.
CreateOpenFile(p) ==
    /\ At(p, "c_open")
    /\ archive' = [archive EXCEPT ![job[p].a] = [st |-> "torn", c |-> Empty]]
    /\ Goto(p, "c_write")
    /\ UNCHANGED <<lk, db, job, buf, todo, metaCache, cacheReady, repo,
                   lastAccess, queue, second>>

\* The encoder sends the metadata document to the file, then the nodes and
\* some of the relations, then the rest; an error or a stop leaves what is
\* there, and a relations document may end after any of its items.
CreateWriteMeta(p) ==
    /\ At(p, "c_write")
    /\ archive' = [archive EXCEPT ![job[p].a].st = "headed"]
    /\ Goto(p, "c_body")
    /\ UNCHANGED <<lk, db, job, buf, todo, metaCache, cacheReady, repo,
                   lastAccess, queue, second>>

CreateWriteBody(p) ==
    /\ At(p, "c_body")
    /\ \E part \in [Rels -> Copies] :
          /\ \A e \in Rels : part[e] <= buf[p].r[e]
          /\ archive' = [archive EXCEPT
                ![job[p].a] = [st |-> "short", c |-> [buf[p] EXCEPT !.r = part]]]
    /\ Goto(p, "c_rest")
    /\ UNCHANGED <<lk, db, job, buf, todo, metaCache, cacheReady, repo,
                   lastAccess, queue, second>>

\* Mutant: an encoding error is not returned.
CreateWriteUnchecked(p) ==
    /\ At(p, "c_rest")
    /\ \/ archive' = [archive EXCEPT ![job[p].a] = [st |-> "whole", c |-> buf[p]]]
       \/ Faults /\ UNCHANGED archive
    /\ Goto(p, "c_meta")
    /\ UNCHANGED <<lk, db, job, buf, todo, metaCache, cacheReady, repo,
                   lastAccess, queue, second>>

CreateWriteRest(p) ==
    /\ At(p, "c_rest")
    /\ archive' = [archive EXCEPT ![job[p].a] = [st |-> "whole", c |-> buf[p]]]
    /\ Goto(p, "c_meta")
    /\ UNCHANGED <<lk, db, job, buf, todo, metaCache, cacheReady, repo,
                   lastAccess, queue, second>>

CreateCacheMeta(p) ==
    /\ At(p, "c_meta")
    /\ metaCache' = metaCache \cup {job[p].a}
    /\ cacheReady' = TRUE
    /\ Goto(p, "c_repo")
    /\ UNCHANGED <<lk, db, job, buf, todo, archive, repo, lastAccess, queue, second>>

\* A repository error is only logged; an existing record is such an error.
CreateRepoMeta(p) ==
    /\ At(p, "c_repo")
    /\ \/ UseRepo /\ repo' = repo \cup {job[p].a}
       \/ (~UseRepo \/ Faults) /\ UNCHANGED repo
    /\ Goto(p, "c_expire")
    /\ UNCHANGED <<lk, db, job, buf, todo, archive, metaCache, cacheReady,
                   lastAccess, queue, second>>

\* cleanupExpired: the cached names older than the cutoff, in any order; the
\* snapshot just created is not among them.
CreateExpire(p) ==
    /\ At(p, "c_expire")
    /\ \/ /\ Retention
          /\ \E k \in 1 .. Cardinality(metaCache \ {job[p].a}) :
                \E q \in [1 .. k -> metaCache \ {job[p].a}] :
                   /\ \A i, j \in 1 .. k : q[i] = q[j] => i = j
                   /\ queue' = [queue EXCEPT ![p] = q]
          /\ Goto(p, "d_clear")
       \/ /\ Goto(p, "ok")
          /\ UNCHANGED queue
    /\ UNCHANGED <<lk, db, job, buf, todo, archive, metaCache, cacheReady,
                   repo, lastAccess, second>>

-----------------------------------------------------------------------------
(* Delete, called by a client or by cleanupExpired for each expired name.   *)
(* It takes no lock, clears the logical database and keeps the archive.     *)

Doomed(p) == IF job[p].op = "delete" THEN job[p].a ELSE Head(queue[p])

\* After one Delete: the call is done, or cleanupExpired takes the next name.
NextDoomed(p) ==
    IF job[p].op = "delete"
    THEN Goto(p, "ok") /\ UNCHANGED queue
    ELSE /\ queue' = [queue EXCEPT ![p] = Tail(@)]
         /\ Goto(p, IF Tail(queue[p]) = <<>> THEN "ok" ELSE "d_clear")

\* HasDB and ClearDB: clearing a database that has no node does nothing.
DeleteClear(p) ==
    /\ At(p, "d_clear")
    /\ SetDb(Doomed(p), Empty)
    /\ Goto(p, "d_meta")
    /\ UNCHANGED <<lk, job, buf, todo, managerVars>>

\* cleanupExpired logs the error of one Delete and goes on with the next.
DeleteSkip(p) ==
    /\ At(p, "d_clear")
    /\ Faults
    /\ job[p].op = "create"
    /\ NextDoomed(p)
    /\ UNCHANGED <<lk, db, job, buf, todo, archive, metaCache, cacheReady,
                   repo, lastAccess, second>>

DeleteCacheMeta(p) ==
    /\ At(p, "d_meta")
    /\ metaCache' = metaCache \ {Doomed(p)}
    /\ Goto(p, "d_repo")
    /\ UNCHANGED <<lk, db, job, buf, todo, archive, cacheReady, repo,
                   lastAccess, queue, second>>

DeleteRepoMeta(p) ==
    /\ At(p, "d_repo")
    /\ \/ repo' = repo \ {Doomed(p)}
       \/ Faults /\ UNCHANGED repo
    /\ NextDoomed(p)
    /\ UNCHANGED <<lk, db, job, buf, todo, archive, metaCache, cacheReady,
                   lastAccess, second>>

-----------------------------------------------------------------------------
(* EnsureLoaded, run by Restore under the write lock and by Diff, once for  *)
(* each of its two snapshots, under no lock.                                *)

Loading(p) == IF second[p] THEN job[p].b ELSE job[p].a

\* What the caller does once its snapshot is loaded.
LoadedNext(p) ==
    IF job[p].op = "restore" THEN Goto(p, "r_clear") /\ UNCHANGED second
    ELSE /\ Goto(p, IF second[p] THEN "diff" ELSE "e_has")
         /\ second' = [second EXCEPT ![p] = ~@]

\* Mutant: imports without asking HasDB.
LoadAlways(p) ==
    /\ At(p, "e_has")
    /\ lastAccess' = Touch(lastAccess, Loading(p))
    /\ Goto(p, "e_import")
    /\ UNCHANGED <<lk, db, job, buf, todo, archive, metaCache, cacheReady, repo,
                   queue, second>>

\* HasDB, then the access is stamped whether or not the database exists.
LoadCheck(p) ==
    /\ At(p, "e_has")
    /\ lastAccess' = Touch(lastAccess, Loading(p))
    /\ \/ HasNodes(db[Loading(p)]) /\ LoadedNext(p)
       \/ ~HasNodes(db[Loading(p)]) /\ Goto(p, "e_import") /\ UNCHANGED second
    /\ UNCHANGED <<lk, db, job, buf, todo, archive, metaCache, cacheReady, repo, queue>>

\* importFromYAML decodes three documents; it cannot tell that the last one
\* has lost relations.
LoadImport(p) ==
    LET file == archive[Loading(p)] IN
    /\ At(p, "e_import")
    /\ \/ /\ file.st \in {"short", "whole"}
          /\ buf'  = [buf EXCEPT ![p] = file.c]
          /\ todo' = [todo EXCEPT ![p] = LabelsIn(file.c)]
          /\ Goto(p, "e_nodes")
       \/ /\ file.st \notin {"short", "whole"}
          /\ Goto(p, "err")
          /\ UNCHANGED <<buf, todo>>
    /\ UNCHANGED <<lk, db, job, managerVars>>

LoadNodes(p) ==
    WriteNodes(p, Loading(p), "e_nodes", "e_rels") /\ UNCHANGED managerVars

LoadRels(p) ==
    WriteRels(p, Loading(p), "e_rels", "e_list") /\ UNCHANGED managerVars

\* Mutant: one database more than max_active is kept.
ExcessLess == Cardinality(Loaded) - MaxActive - 1

\* How many loaded databases are beyond snapshot.max_active.
Excess == Cardinality(Loaded) - MaxActive

\* cleanup: list the databases and pick the least recently used ones beyond
\* MaxActive.  A failing ListDBs ends the cleanup silently.
CleanupList(p) ==
    /\ At(p, "e_list")
    /\ \/ /\ Excess <= 0 \/ Faults
          /\ LoadedNext(p)
          /\ UNCHANGED queue
       \/ /\ Excess > 0
          /\ \E q \in [1 .. Excess -> Loaded] :
                OldestFirst(q) /\ queue' = [queue EXCEPT ![p] = q]
          /\ Goto(p, "e_evict")
          /\ UNCHANGED second
    /\ UNCHANGED <<lk, db, job, buf, todo, archive, metaCache, cacheReady,
                   repo, lastAccess>>

\* ClearDB the oldest; one that fails is skipped and keeps its access entry.
CleanupClear(p) ==
    /\ At(p, "e_evict")
    /\ queue[p] # <<>>
    /\ \/ /\ SetDb(Head(queue[p]), Empty)
          /\ Goto(p, "e_forget")
          /\ UNCHANGED queue
       \/ /\ Faults
          /\ queue' = [queue EXCEPT ![p] = Tail(@)]
          /\ UNCHANGED <<db, pc>>
    /\ UNCHANGED <<lk, job, buf, todo, archive, metaCache, cacheReady, repo,
                   lastAccess, second>>

\* Mutant: the loop does not go on to the next database.
CleanupForgetStuck(p) ==
    /\ At(p, "e_forget")
    /\ lastAccess' = Forget(lastAccess, Head(queue[p]))
    /\ Goto(p, "e_evict")
    /\ UNCHANGED <<lk, db, job, buf, todo, archive, metaCache, cacheReady,
                   repo, queue, second>>

CleanupForget(p) ==
    /\ At(p, "e_forget")
    /\ lastAccess' = Forget(lastAccess, Head(queue[p]))
    /\ queue' = [queue EXCEPT ![p] = Tail(@)]
    /\ Goto(p, "e_evict")
    /\ UNCHANGED <<lk, db, job, buf, todo, archive, metaCache, cacheReady,
                   repo, second>>

CleanupDone(p) ==
    /\ At(p, "e_evict")
    /\ queue[p] = <<>>
    /\ LoadedNext(p)
    /\ UNCHANGED <<lk, db, job, buf, todo, archive, metaCache, cacheReady,
                   repo, lastAccess, queue>>

-----------------------------------------------------------------------------
(* Restore: load, clear the live database, clone the snapshot into it.      *)

\* Mutant: the live database is not cleared first.
RestoreOverOld(p) ==
    /\ At(p, "r_clear")
    /\ Goto(p, "r_nodes")
    /\ UNCHANGED <<lk, db, job, buf, todo, managerVars>>

RestoreClear(p) ==
    /\ At(p, "r_clear")
    /\ SetDb(Default, Empty)
    /\ Goto(p, "r_nodes")
    /\ UNCHANGED <<lk, job, buf, todo, managerVars>>

CloneReadNodes(p) ==
    /\ At(p, "r_nodes")
    /\ buf' = [buf EXCEPT ![p] = [Empty EXCEPT !.n = db[job[p].a].n]]
    /\ Goto(p, "r_rels")
    /\ UNCHANGED <<lk, db, job, todo, managerVars>>

CloneReadRels(p) ==
    /\ At(p, "r_rels")
    /\ buf'  = [buf EXCEPT ![p].r = db[job[p].a].r]
    /\ todo' = [todo EXCEPT ![p] = LabelsIn(buf[p])]
    /\ Goto(p, "r_wnodes")
    /\ UNCHANGED <<lk, db, job, managerVars>>

CloneWriteNodes(p) ==
    WriteNodes(p, Default, "r_wnodes", "r_wrels") /\ UNCHANGED managerVars

CloneWriteRels(p) ==
    WriteRels(p, Default, "r_wrels", "ok") /\ UNCHANGED managerVars

\* Diff runs its difference queries on the two databases and returns.
DiffQueries(p) ==
    /\ At(p, "diff")
    /\ Goto(p, "ok")
    /\ UNCHANGED <<lk, db, job, buf, todo, managerVars>>

-----------------------------------------------------------------------------
(* List: the repository if there is one and it answers, else the cache if   *)
(* it is warm, else a scan of the snapshot directory that warms it and      *)
(* reads each file's first document only.                                   *)

WithMeta == {s \in Snaps : archive[s].st \in {"headed", "short", "whole"}}

\* List goes on after the repository: there is none, or it failed.
FallsBack == ~UseRepo \/ Faults

\* What List may answer now.
ListAnswers ==
    {names \in SUBSET Snaps :
       \/ UseRepo /\ names = repo
       \/ FallsBack /\ names = (IF cacheReady THEN metaCache ELSE WithMeta)}

List(p) ==
    /\ At(p, "l_read")
    /\ \/ /\ UseRepo \/ cacheReady
          /\ Goto(p, "ok")
          /\ UNCHANGED <<metaCache, cacheReady>>
       \/ /\ FallsBack /\ ~cacheReady
          /\ metaCache' = metaCache \cup WithMeta
          /\ cacheReady' = TRUE
          /\ Goto(p, "ok")
       \/ /\ Faults /\ ~cacheReady      \* the directory cannot be read
          /\ Goto(p, "err")
          /\ UNCHANGED <<metaCache, cacheReady>>
    /\ UNCHANGED <<lk, db, job, buf, todo, archive, repo, lastAccess, queue, second>>

-----------------------------------------------------------------------------
ManagerStep(p) ==
    \/ CreateReadNodes(p) \/ CreateReadRels(p) \/ CreateOpenFile(p)
    \/ CreateWriteMeta(p) \/ CreateWriteBody(p) \/ CreateWriteRest(p)
    \/ CreateCacheMeta(p) \/ CreateRepoMeta(p) \/ CreateExpire(p)
    \/ DeleteClear(p) \/ DeleteSkip(p) \/ DeleteCacheMeta(p) \/ DeleteRepoMeta(p)
    \/ LoadCheck(p) \/ LoadImport(p) \/ LoadNodes(p) \/ LoadRels(p)
    \/ CleanupList(p) \/ CleanupClear(p) \/ CleanupForget(p) \/ CleanupDone(p)
    \/ RestoreClear(p) \/ CloneReadNodes(p) \/ CloneReadRels(p)
    \/ CloneWriteNodes(p) \/ CloneWriteRels(p)
    \/ DiffQueries(p) \/ List(p)

ManagerInit ==
    /\ archive = [s \in Snaps |-> [st |-> "none", c |-> Empty]]
    /\ metaCache = {}
    /\ cacheReady = FALSE
    /\ repo = {}
    /\ lastAccess = [s \in Snaps |-> 0]
    /\ queue = [p \in Procs |-> <<>>]
    /\ second = [p \in Procs |-> FALSE]
=============================================================================
