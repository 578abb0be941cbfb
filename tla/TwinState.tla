------------------------------ MODULE TwinState ------------------------------
(***************************************************************************)
(* What every operation on the twin's graph has in common: the logical     *)
(* databases in Neo4j, the shared GraphLock, and the goroutines that run   *)
(* one operation at a time.  An operation is a sequence of labelled steps, *)
(* one per Cypher statement, file access or critical section of the code;  *)
(* a label is reached only with the lock the operation's code takes.       *)
(***************************************************************************)
EXTENDS GraphLock, LogicalGraph, FiniteSets

CONSTANTS Snaps,     \* snapshot names, which are logical database names too
          Default,   \* the name of the live database, "default"
          Jobs,      \* Jobs[p]: the calls that goroutine p may be given
          Models,    \* what Assemble may return: payloads of sync writes
          Faults     \* TRUE: a statement or a file access may fail

Dbs == Snaps \cup {Default}

WriteOps == {"restore", "fullsync", "upsert", "delnodes", "delrels"}
ReadOps  == {"create", "query"}
FreeOps  == {"list", "delete", "diff"}     \* these take no lock at all
Ops      == WriteOps \cup ReadOps \cup FreeOps

Job     == [op : Ops, a : Snaps, b : Snaps]    \* only diff looks at b
IdleJob == [op |-> "none", a |-> Default, b |-> Default]

ASSUME TwinAssumption ==
    /\ Default \notin Snaps
    /\ IsFiniteSet(Snaps)
    /\ Jobs \in [Procs -> SUBSET Job]
    /\ Models \subseteq Content
    /\ Faults \in BOOLEAN

VARIABLES db,      \* db[d]: content of logical database d in Neo4j
          pc,      \* pc[p]: next step of goroutine p
          job,     \* job[p]: the call p is serving
          buf,     \* buf[p]: graph data p has read and not written yet
          todo     \* todo[p]: labels or types p still has to write

localVars == <<pc, job, buf, todo>>
twinVars  == <<lk, db, localVars>>

\* Mutants: the event consumer, or Create, forgets its lock.
LockForUnlockedEvents(op) == IF op \in {"restore", "fullsync"} THEN "write"
                             ELSE IF op \in ReadOps THEN "read" ELSE "none"
LockForUnlockedCreate(op) == IF op \in WriteOps THEN "write"
                             ELSE IF op = "query" THEN "read" ELSE "none"

\* How an operation's code takes the lock.
LockFor(op) == IF op \in WriteOps THEN "write"
               ELSE IF op \in ReadOps THEN "read" ELSE "none"

\* p stands before step l and holds the lock its operation runs under.
At(p, l) == pc[p] = l /\ lk[p] = LockFor(job[p].op)

Goto(p, l) == pc' = [pc EXCEPT ![p] = l]

SetDb(d, c) == db' = [db EXCEPT ![d] = c]

\* The step an operation starts with once it has its lock.
Entry(op) == CASE op = "create"   -> "c_nodes"
               [] op = "list"     -> "l_read"
               [] op = "delete"   -> "d_clear"
               [] op = "restore"  -> "e_has"
               [] op = "diff"     -> "e_has"
               [] op = "fullsync" -> "f_clear"
               [] op = "upsert"   -> "u_assemble"
               [] op = "delnodes" -> "u_delete"
               [] op = "delrels"  -> "u_match"
               [] op = "query"    -> "q_read"

\* A call arrives; the first thing its code does is ask for its lock.
Start(p, j) ==
    /\ pc[p] = "idle"
    /\ \/ LockFor(j.op) = "write" /\ Lock(p)
       \/ LockFor(j.op) = "read"  /\ RLock(p)
       \/ LockFor(j.op) = "none"  /\ UNCHANGED lk
    /\ job' = [job EXCEPT ![p] = j]
    /\ Goto(p, Entry(j.op))
    /\ UNCHANGED <<db, buf, todo>>

\* The scheduler of the RWMutex lets a blocked writer go on.
LockTurn(p) ==
    /\ Announce(p) \/ EnterWrite(p)
    /\ UNCHANGED <<db, localVars>>

\* The call returns, with or without an error: deferred unlocks run.
Return(p) ==
    /\ pc[p] \in {"ok", "err"}
    /\ \/ lk[p] = "write" /\ Unlock(p)
       \/ lk[p] = "read"  /\ RUnlock(p)
       \/ lk[p] = "none"  /\ UNCHANGED lk
    /\ Goto(p, "idle")
    /\ job'  = [job EXCEPT ![p] = IdleJob]
    /\ buf'  = [buf EXCEPT ![p] = Empty]
    /\ todo' = [todo EXCEPT ![p] = {}]
    /\ UNCHANGED db

\* One statement of BulkCreate or CloneDB on database d: the nodes of one
\* label, labels in any order (a Go map is ranged over); then the relations.
WriteNodes(p, d, l, next) ==
    /\ At(p, l)
    /\ \/ \E g \in todo[p] :
             /\ SetDb(d, CreateNodes(db[d], buf[p], g))
             /\ todo' = [todo EXCEPT ![p] = @ \ {g}]
             /\ UNCHANGED pc
       \/ /\ todo[p] = {}
          /\ todo' = [todo EXCEPT ![p] = TypesIn(buf[p])]
          /\ Goto(p, next)
          /\ UNCHANGED db
    /\ UNCHANGED <<lk, job, buf>>

WriteRels(p, d, l, next) ==
    /\ At(p, l)
    /\ \/ \E g \in todo[p] :
             /\ SetDb(d, CreateRels(db[d], buf[p], g))
             /\ todo' = [todo EXCEPT ![p] = @ \ {g}]
             /\ UNCHANGED pc
       \/ /\ todo[p] = {}
          /\ Goto(p, next)
          /\ UNCHANGED <<db, todo>>
    /\ UNCHANGED <<lk, job, buf>>

\* Statements whose error the code returns to the caller at once.  The failed
\* statement has no effect, those before it keep theirs.
Fallible == {"c_nodes", "c_rels", "c_open", "c_write", "c_body", "c_rest",
             "d_clear", "e_has", "e_import", "e_nodes", "e_rels", "r_clear", "r_nodes", "r_rels", "r_wnodes",
             "r_wrels", "f_clear", "f_collect", "f_nodes", "f_rels",
             "u_assemble", "u_nodes", "u_rels", "u_delete", "u_match", "u_drop",
             "q_read", "diff"}

StatementFails(p) ==
    /\ Faults
    /\ pc[p] \in Fallible
    /\ At(p, pc[p])
    /\ job[p].op # "create" \/ pc[p] # "d_clear"   \* expiry only logs it
    /\ Goto(p, "err")
    /\ UNCHANGED <<lk, db, job, buf, todo>>

TwinInit ==
    /\ LockInit
    /\ db = [d \in Dbs |-> Empty]
    /\ pc = [p \in Procs |-> "idle"]
    /\ job = [p \in Procs |-> IdleJob]
    /\ buf = [p \in Procs |-> Empty]
    /\ todo = [p \in Procs |-> {}]
=============================================================================
