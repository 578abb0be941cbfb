------------------------- MODULE DigitalTwin_proofs -------------------------
(***************************************************************************)
(* Theorems about DigitalTwin for every number of goroutines, snapshots    *)
(* and databases, every graph, and with or without failures, restarts,     *)
(* retention, a metadata repository and reused snapshot names: types, what *)
(* the GraphLock achieves, that every archive is a consistent cut, that    *)
(* List names only intact archives, and that the LRU cleanup keeps its     *)
(* bound however loads overlap.                                            *)
(*                                                                         *)
(* Then what the databases hold: no entity is there twice, whatever is cut *)
(* short by errors and restarts; and Restore and Diff work on the archived *)
(* contents, when nothing fails and the calls that take no lock keep out   *)
(* of each other's way.                                                    *)
(***************************************************************************)
EXTENDS DigitalTwin, SequenceTheorems, FiniteSetTheorems, TLAPS

(* Every Cypher statement maps database contents to database contents,      *)
(* whatever the numbers of URIs, relations, labels and types.               *)

\* Counts never exceed the cap and never become negative.
LEMMA SatType == ASSUME NEW k \in Nat PROVE Sat(k) \in Copies
  BY GraphAssumption DEF Sat, Copies

\* Sums and products of counts are counts.
LEMMA ArithType == ASSUME NEW j \in Nat, NEW k \in Nat PROVE j + k \in Nat /\ j * k \in Nat
  OBVIOUS

\* The numbers of copies the model tells apart are naturals, with none and one.
LEMMA CopiesNat == Copies \subseteq Nat /\ 0 \in Copies /\ 1 \in Copies
  BY GraphAssumption DEF Copies

\* A cleared database has a content.
LEMMA EmptyType == Empty \in Content
  BY CopiesNat DEF Empty, Content

\* A content is a record of a node count and a relation count.
LEMMA ContentParts ==
  ASSUME NEW c \in Content
  PROVE  /\ c.n \in [Uris -> Copies]
         /\ c.r \in [Rels -> Copies]
         /\ \A f \in [Uris -> Copies] : [c EXCEPT !.n = f] \in Content
         /\ \A f \in [Rels -> Copies] : [c EXCEPT !.r = f] \in Content
  BY DEF Content

\* The CREATE of one label group of nodes.
LEMMA CreateNodesType ==
  ASSUME NEW c \in Content, NEW m \in Content, NEW l
  PROVE  CreateNodes(c, m, l) \in Content
<1> DEFINE f == [u \in Uris |-> IF LabelOf[u] = l THEN Sat(c.n[u] + m.n[u])
                                ELSE c.n[u]]
<1>1. f \in [Uris -> Copies]
  <2> SUFFICES ASSUME NEW u \in Uris
               PROVE  Sat(c.n[u] + m.n[u]) \in Copies /\ c.n[u] \in Copies
    OBVIOUS
  <2>1. c.n[u] \in Copies /\ m.n[u] \in Copies
    BY ContentParts
  <2>2. c.n[u] + m.n[u] \in Nat
    BY <2>1, CopiesNat, ArithType
  <2> QED
    BY <2>1, <2>2, SatType
<1> QED
  BY <1>1, ContentParts DEF CreateNodes

\* The CREATE of one type group of relations.
LEMMA CreateRelsType ==
  ASSUME NEW c \in Content, NEW m \in Content, NEW t
  PROVE  CreateRels(c, m, t) \in Content
<1> DEFINE f == [e \in Rels |->
                   IF TypeOf[e] = t THEN Sat(c.r[e] + m.r[e] * c.n[e[1]] * c.n[e[2]])
                   ELSE c.r[e]]
<1>1. f \in [Rels -> Copies]
  <2> SUFFICES ASSUME NEW e \in Rels
               PROVE  /\ Sat(c.r[e] + m.r[e] * c.n[e[1]] * c.n[e[2]]) \in Copies
                      /\ c.r[e] \in Copies
    OBVIOUS
  <2>1. c.r[e] \in Copies /\ m.r[e] \in Copies
    BY ContentParts
  <2>2. c.n[e[1]] \in Copies /\ c.n[e[2]] \in Copies
    BY ContentParts, GraphAssumption
  <2>3. m.r[e] * c.n[e[1]] \in Nat
    BY <2>1, <2>2, CopiesNat, ArithType
  <2>4. m.r[e] * c.n[e[1]] * c.n[e[2]] \in Nat
    BY <2>2, <2>3, CopiesNat, ArithType
  <2>5. c.r[e] + m.r[e] * c.n[e[1]] * c.n[e[2]] \in Nat
    BY <2>1, <2>4, CopiesNat, ArithType
  <2> QED
    BY <2>1, <2>5, SatType
<1> QED
  BY <1>1, ContentParts DEF CreateRels

\* The MERGE of one label group of nodes.
LEMMA MergeNodesType ==
  ASSUME NEW c \in Content, NEW m \in Content, NEW l
  PROVE  MergeNodes(c, m, l) \in Content
<1> DEFINE f == [u \in Uris |->
                   IF LabelOf[u] = l /\ m.n[u] > 0 /\ c.n[u] = 0 THEN 1 ELSE c.n[u]]
<1>1. f \in [Uris -> Copies]
  BY ContentParts, CopiesNat
<1> QED
  BY <1>1, ContentParts DEF MergeNodes

\* The MERGE of one type group of relations.
LEMMA MergeRelsType ==
  ASSUME NEW c \in Content, NEW m \in Content, NEW t
  PROVE  MergeRels(c, m, t) \in Content
<1> DEFINE f == [e \in Rels |->
                   IF /\ TypeOf[e] = t
                      /\ m.r[e] > 0
                      /\ c.r[e] < Sat(c.n[e[1]] * c.n[e[2]])
                   THEN Sat(c.n[e[1]] * c.n[e[2]]) ELSE c.r[e]]
<1>1. f \in [Rels -> Copies]
  <2> SUFFICES ASSUME NEW e \in Rels
               PROVE  /\ Sat(c.n[e[1]] * c.n[e[2]]) \in Copies
                      /\ c.r[e] \in Copies
    OBVIOUS
  <2>1. c.n[e[1]] \in Copies /\ c.n[e[2]] \in Copies
    BY ContentParts, GraphAssumption
  <2>2. c.n[e[1]] * c.n[e[2]] \in Nat
    BY <2>1, CopiesNat, ArithType
  <2> QED
    BY <2>2, SatType, ContentParts
<1> QED
  BY <1>1, ContentParts DEF MergeRels

\* DETACH DELETE, and DELETE of the relations of one type.
LEMMA DeleteType ==
  ASSUME NEW c \in Content, NEW gone, NEW t
  PROVE  DetachDelete(c, gone) \in Content /\ DropRels(c, gone, t) \in Content
<1>1. c.n \in [Uris -> Copies] /\ c.r \in [Rels -> Copies]
  BY ContentParts
<1>2. DetachDelete(c, gone) \in Content
  BY <1>1, CopiesNat DEF DetachDelete, Content
<1> DEFINE f == [e \in Rels |-> IF e \in gone /\ TypeOf[e] = t THEN 0 ELSE c.r[e]]
<1>3. f \in [Rels -> Copies]
  BY <1>1, CopiesNat
<1>4. DropRels(c, gone, t) \in Content
  BY <1>3, ContentParts DEF DropRels
<1> QED
  BY <1>2, <1>4
-----------------------------------------------------------------------------
(* Types.                                                                   *)

Busy == {l \in PcLabels : l # "idle"}
CreateLabels == {"c_nodes", "c_rels", "c_open", "c_write", "c_body",
                 "c_rest"}
LiveLabels   == {"r_clear", "r_nodes", "r_rels", "r_wnodes", "r_wrels",
                 "f_clear", "f_collect", "f_nodes", "f_rels", "u_assemble",
                 "u_nodes", "u_rels", "u_delete", "u_match", "u_drop"}
QueueLabels  == {"d_clear", "d_meta", "d_repo"}

\* A goroutine between a call and its return serves a call; one that clears
\* expired or evicted databases has a name to clear.
CallsTyped ==
    \A p \in Procs :
        /\ pc[p] # "idle" => job[p] \in Job
        /\ pc[p] \in QueueLabels /\ job[p].op # "delete" => queue[p] # <<>>
        /\ pc[p] = "e_forget" => queue[p] # <<>>

TypeInv == TypeOK /\ CallsTyped

-----------------------------------------------------------------------------
(* Lemmas about the operators.                                              *)

\* The parts of a job.
LEMMA JobType ==
  ASSUME NEW j \in Job
  PROVE  j.op \in Ops /\ j.a \in Snaps /\ j.b \in Snaps
  BY DEF Job

\* The groups of a content are labels and types.
LEMMA GroupsType ==
  ASSUME NEW c \in Content
  PROVE  /\ LabelsIn(c) \in SUBSET (Labels \cup Types)
         /\ TypesIn(c) \in SUBSET (Labels \cup Types)
  BY GraphAssumption DEF LabelsIn, TypesIn

\* Access ranks stay natural numbers.
LEMMA RankType ==
  ASSUME NEW la \in [Snaps -> Nat], NEW s \in Snaps
  PROVE  Forget(la, s) \in [Snaps -> Nat] /\ Touch(la, s) \in [Snaps -> Nat]
<1>1. Forget(la, s) \in [Snaps -> Nat]
  BY DEF Forget
<1>2. IsFiniteSet({t \in Snaps \ {s} : la[t] # 0})
  BY TwinAssumption, FS_Subset
<1>3. 1 + Cardinality({t \in Snaps \ {s} : la[t] # 0}) \in Nat
  BY <1>2, FS_CardinalityType
<1> QED
  BY <1>1, <1>3 DEF Touch

\* A function on 1 .. k is a sequence, and not the empty one unless k = 0.
LEMMA CountedSeq ==
  ASSUME NEW S, NEW k \in Nat, NEW q \in [1 .. k -> S]
  PROVE  q \in Seq(S) /\ (k # 0 => q # <<>>)
  OBVIOUS

\* A queue that is not empty has a head of its elements and a tail.
LEMMA PopType ==
  ASSUME NEW S, NEW q \in Seq(S), q # <<>>
  PROVE  Head(q) \in S /\ Tail(q) \in Seq(S)
  OBVIOUS

-----------------------------------------------------------------------------
(* Type correctness: TypeInv is inductive.                                  *)

\* Changing one goroutine's own entries keeps the function types.
LEMMA Update ==
  ASSUME NEW S, NEW T, NEW f \in [S -> T], NEW x \in S, NEW v \in T
  PROVE  [f EXCEPT ![x] = v] \in [S -> T]
  OBVIOUS

\* The names a busy goroutine works on are snapshot names.
LEMMA NamesType ==
  ASSUME TypeInv, NEW p \in Procs, pc[p] # "idle"
  PROVE  /\ job[p] \in Job
         /\ job[p].op \in Ops
         /\ job[p].a \in Snaps
         /\ Loading(p) \in Snaps
         /\ pc[p] \in QueueLabels => Doomed(p) \in Snaps
         /\ pc[p] = "e_forget" => Head(queue[p]) \in Snaps
<1>1. job[p] \in Job /\ queue[p] \in Seq(Snaps)
  BY DEF TypeInv, TypeOK, CallsTyped
<1>2. job[p].op \in Ops /\ job[p].a \in Snaps /\ job[p].b \in Snaps
  BY <1>1, JobType
<1>3. queue[p] # <<>> => Head(queue[p]) \in Snaps
  BY <1>1, PopType
<1> QED
  BY <1>1, <1>2, <1>3 DEF Loading, Doomed, TypeInv, CallsTyped

\* The live database is none of the snapshot databases.
LEMMA DbNames == Default \in Dbs /\ Snaps \subseteq Dbs /\ Default \notin Snaps
  BY TwinAssumption DEF Dbs

\* A step of goroutine p that moves it to label l, a label that makes no
\* demand on its queue, keeps TypeInv if it keeps the other variables' types.
OtherTypes ==
    /\ lk \in [Procs -> LockStates]
    /\ db \in [Dbs -> Content]
    /\ buf \in [Procs -> Content]
    /\ todo \in [Procs -> SUBSET (Labels \cup Types)]
    /\ archive \in [Snaps -> Archive]
    /\ metaCache \subseteq Snaps
    /\ cacheReady \in BOOLEAN
    /\ repo \subseteq Snaps
    /\ lastAccess \in [Snaps -> Nat]
    /\ second \in [Procs -> BOOLEAN]

\* A step that only moves the label and respects the other types keeps the types.
LEMMA MoveStep ==
  ASSUME TypeInv, NEW p \in Procs, pc[p] # "idle",
         NEW l \in Busy, l \notin QueueLabels, l # "e_forget",
         pc' = [pc EXCEPT ![p] = l],
         UNCHANGED <<job, queue>>,
         OtherTypes'
  PROVE  TypeInv'
<1>1. TypeOK'
  <2>1. pc' \in [Procs -> PcLabels]
    BY DEF TypeInv, TypeOK, Busy
  <2> QED
    BY <2>1 DEF TypeInv, TypeOK, OtherTypes
<1>2. CallsTyped'
  BY DEF TypeInv, TypeOK, CallsTyped
<1> QED
  BY <1>1, <1>2 DEF TypeInv

\* The same for a step that moves to a label with a demand on the queue, or
\* changes the queue: the demand is met.
LEMMA QueueStep ==
  ASSUME TypeInv, NEW p \in Procs, pc[p] # "idle",
         NEW l \in Busy, NEW q \in Seq(Snaps),
         l \in QueueLabels /\ job[p].op # "delete" => q # <<>>,
         l = "e_forget" => q # <<>>,
         pc' = [pc EXCEPT ![p] = l],
         queue' = [queue EXCEPT ![p] = q],
         UNCHANGED job,
         OtherTypes'
  PROVE  TypeInv'
<1>1. TypeOK'
  <2>1. pc' \in [Procs -> PcLabels] /\ queue' \in [Procs -> Seq(Snaps)]
    BY DEF TypeInv, TypeOK, Busy
  <2> QED
    BY <2>1 DEF TypeInv, TypeOK, OtherTypes
<1>2. CallsTyped'
  BY DEF TypeInv, TypeOK, CallsTyped
<1> QED
  BY <1>1, <1>2 DEF TypeInv

\* A step that changes only databases, buffers and todo sets.
LEMMA PlainStep ==
  ASSUME TypeInv, NEW p \in Procs, pc[p] # "idle",
         NEW l \in Busy, l \notin QueueLabels, l # "e_forget",
         pc' = [pc EXCEPT ![p] = l],
         UNCHANGED <<lk, job, managerVars>>,
         db' \in [Dbs -> Content],
         buf' \in [Procs -> Content],
         todo' \in [Procs -> SUBSET (Labels \cup Types)]
  PROVE  TypeInv'
  BY MoveStep DEF TypeInv, TypeOK, OtherTypes, managerVars

\* The labels of the manager and of the sync service are all there are.
LEMMA BusyLabels ==
  Busy = ManagerLabels \cup SyncLabels \cup {"ok", "err"}
  BY DEF Busy, PcLabels, ManagerLabels, SyncLabels

\* The two ways of one writing phase: a statement, or the end of the phase.
LEMMA StayStep ==
  ASSUME TypeInv, UNCHANGED <<lk, pc, job, managerVars>>,
         db' \in [Dbs -> Content],
         buf' \in [Procs -> Content],
         todo' \in [Procs -> SUBSET (Labels \cup Types)]
  PROVE  TypeInv'
  BY DEF TypeInv, TypeOK, CallsTyped, managerVars

\* One CREATE or MERGE of a group of nodes, in any database.
LEMMA WriteNodesType ==
  ASSUME TypeInv, NEW p \in Procs, NEW d \in Dbs, NEW l, l # "idle",
         NEW next \in Busy, next \notin QueueLabels, next # "e_forget",
         WriteNodes(p, d, l, next), UNCHANGED managerVars
  PROVE  TypeInv'
<1>1. buf[p] \in Content /\ db[d] \in Content /\ pc[p] # "idle"
  BY DEF TypeInv, TypeOK, WriteNodes, At
<1>2. CASE \E g \in todo[p] :
             /\ SetDb(d, CreateNodes(db[d], buf[p], g))
             /\ todo' = [todo EXCEPT ![p] = @ \ {g}]
             /\ UNCHANGED pc
  <2>1. PICK g \in todo[p] :
             /\ SetDb(d, CreateNodes(db[d], buf[p], g))
             /\ todo' = [todo EXCEPT ![p] = @ \ {g}]
             /\ UNCHANGED pc
    BY <1>2
  <2>2. db' \in [Dbs -> Content]
    BY <1>1, <2>1, CreateNodesType DEF SetDb, TypeInv, TypeOK
  <2>3. todo' \in [Procs -> SUBSET (Labels \cup Types)]
    BY <2>1 DEF TypeInv, TypeOK
  <2> QED
    BY <2>1, <2>2, <2>3, StayStep DEF WriteNodes, TypeInv, TypeOK
<1>3. CASE /\ todo[p] = {}
           /\ todo' = [todo EXCEPT ![p] = TypesIn(buf[p])]
           /\ Goto(p, next)
           /\ UNCHANGED db
  <2>1. todo' \in [Procs -> SUBSET (Labels \cup Types)]
    BY <1>1, <1>3, GroupsType DEF TypeInv, TypeOK
  <2> QED
    BY <1>1, <1>3, <2>1, PlainStep DEF WriteNodes, Goto, TypeInv, TypeOK
<1> QED
  BY <1>2, <1>3 DEF WriteNodes

\* One CREATE or MERGE of a group of relations, in any database.
LEMMA WriteRelsType ==
  ASSUME TypeInv, NEW p \in Procs, NEW d \in Dbs, NEW l, l # "idle",
         NEW next \in Busy, next \notin QueueLabels, next # "e_forget",
         WriteRels(p, d, l, next), UNCHANGED managerVars
  PROVE  TypeInv'
<1>1. buf[p] \in Content /\ db[d] \in Content /\ pc[p] # "idle"
  BY DEF TypeInv, TypeOK, WriteRels, At
<1>2. CASE \E g \in todo[p] :
             /\ SetDb(d, CreateRels(db[d], buf[p], g))
             /\ todo' = [todo EXCEPT ![p] = @ \ {g}]
             /\ UNCHANGED pc
  <2>1. PICK g \in todo[p] :
             /\ SetDb(d, CreateRels(db[d], buf[p], g))
             /\ todo' = [todo EXCEPT ![p] = @ \ {g}]
             /\ UNCHANGED pc
    BY <1>2
  <2>2. db' \in [Dbs -> Content]
    BY <1>1, <2>1, CreateRelsType DEF SetDb, TypeInv, TypeOK
  <2>3. todo' \in [Procs -> SUBSET (Labels \cup Types)]
    BY <2>1 DEF TypeInv, TypeOK
  <2> QED
    BY <2>1, <2>2, <2>3, StayStep DEF WriteRels, TypeInv, TypeOK
<1>3. CASE todo[p] = {} /\ Goto(p, next) /\ UNCHANGED <<db, todo>>
  BY <1>1, <1>3, PlainStep DEF WriteRels, Goto, TypeInv, TypeOK
<1> QED
  BY <1>2, <1>3 DEF WriteRels

\* The steps of Create.
LEMMA CreateType ==
  ASSUME TypeInv, NEW p \in Procs,
         \/ CreateReadNodes(p) \/ CreateReadRels(p) \/ CreateOpenFile(p)
         \/ CreateWriteMeta(p) \/ CreateWriteBody(p) \/ CreateWriteRest(p)
         \/ CreateCacheMeta(p) \/ CreateRepoMeta(p) \/ CreateExpire(p)
  PROVE  TypeInv'
<1>1. pc[p] # "idle"
  BY DEF At, CreateReadNodes, CreateReadRels, CreateOpenFile, CreateWriteMeta,
         CreateWriteBody, CreateWriteRest, CreateCacheMeta, CreateRepoMeta, CreateExpire
<1>2. job[p].a \in Snaps /\ buf[p] \in Content /\ db[Default] \in Content
  BY <1>1, NamesType, DbNames DEF TypeInv, TypeOK
<1>3. CASE CreateReadNodes(p)
  <2>1. [Empty EXCEPT !.n = db[Default].n] \in Content
    BY <1>2, EmptyType, ContentParts
  <2>2. buf' \in [Procs -> Content]
    BY <1>3, <2>1 DEF CreateReadNodes, TypeInv, TypeOK
  <2> QED
    BY <1>1, <1>3, <2>2, PlainStep DEF CreateReadNodes, Goto, Busy, PcLabels,
       ManagerLabels, QueueLabels, TypeInv, TypeOK
<1>4. CASE CreateReadRels(p)
  <2>1. [buf[p] EXCEPT !.r = db[Default].r] \in Content
    BY <1>2, ContentParts
  <2>2. buf' \in [Procs -> Content]
    BY <1>4, <2>1 DEF CreateReadRels, TypeInv, TypeOK
  <2> QED
    BY <1>1, <1>4, <2>2, PlainStep DEF CreateReadRels, Goto, Busy, PcLabels,
       ManagerLabels, QueueLabels, TypeInv, TypeOK
<1>5. CASE CreateOpenFile(p)
  <2>1. [st |-> "torn", c |-> Empty] \in Archive
    BY EmptyType DEF Archive
  <2>2. archive' \in [Snaps -> Archive]
    BY <1>5, <2>1 DEF CreateOpenFile, TypeInv, TypeOK
  <2>3. OtherTypes'
    BY <1>5, <2>2 DEF CreateOpenFile, TypeInv, TypeOK, OtherTypes
  <2> QED
    BY <1>1, <1>5, <2>3, MoveStep, BusyLabels DEF CreateOpenFile, Goto,
       ManagerLabels, QueueLabels
<1>6. CASE CreateWriteMeta(p)
  <2>1. [archive[job[p].a] EXCEPT !.st = "headed"] \in Archive
    BY <1>2 DEF TypeInv, TypeOK, Archive
  <2>2. archive' \in [Snaps -> Archive]
    BY <1>2, <1>6, <2>1 DEF CreateWriteMeta, TypeInv, TypeOK
  <2>3. OtherTypes'
    BY <1>6, <2>2 DEF CreateWriteMeta, TypeInv, TypeOK, OtherTypes
  <2> QED
    BY <1>1, <1>6, <2>3, MoveStep, BusyLabels DEF CreateWriteMeta, Goto,
       ManagerLabels, QueueLabels
<1>10. CASE CreateWriteBody(p)
  <2>1. PICK part \in [Rels -> Copies] :
           archive' = [archive EXCEPT
              ![job[p].a] = [st |-> "short", c |-> [buf[p] EXCEPT !.r = part]]]
    BY <1>10 DEF CreateWriteBody
  <2>2. [buf[p] EXCEPT !.r = part] \in Content
    BY <1>2 DEF Content
  <2>3. [st |-> "short", c |-> [buf[p] EXCEPT !.r = part]] \in Archive
    BY <2>2 DEF Archive
  <2>4. archive' \in [Snaps -> Archive]
    BY <1>2, <2>1, <2>3 DEF TypeInv, TypeOK
  <2>5. OtherTypes'
    BY <1>10, <2>4 DEF CreateWriteBody, TypeInv, TypeOK, OtherTypes
  <2> QED
    BY <1>1, <1>10, <2>5, MoveStep, BusyLabels DEF CreateWriteBody, Goto,
       ManagerLabels, QueueLabels
<1>11. CASE CreateWriteRest(p)
  <2>1. [st |-> "whole", c |-> buf[p]] \in Archive
    BY <1>2 DEF Archive
  <2>2. archive' \in [Snaps -> Archive]
    BY <1>11, <2>1 DEF CreateWriteRest, TypeInv, TypeOK
  <2>3. OtherTypes'
    BY <1>11, <2>2 DEF CreateWriteRest, TypeInv, TypeOK, OtherTypes
  <2> QED
    BY <1>1, <1>11, <2>3, MoveStep, BusyLabels DEF CreateWriteRest, Goto,
       ManagerLabels, QueueLabels
<1>7. CASE CreateCacheMeta(p)
  <2>1. OtherTypes'
    BY <1>2, <1>7 DEF CreateCacheMeta, TypeInv, TypeOK, OtherTypes
  <2> QED
    BY <1>1, <1>7, <2>1, MoveStep, BusyLabels DEF CreateCacheMeta, Goto,
       ManagerLabels, QueueLabels
<1>8. CASE CreateRepoMeta(p)
  <2>1. OtherTypes'
    BY <1>2, <1>8 DEF CreateRepoMeta, TypeInv, TypeOK, OtherTypes
  <2> QED
    BY <1>1, <1>8, <2>1, MoveStep, BusyLabels DEF CreateRepoMeta, Goto,
       ManagerLabels, QueueLabels
<1>9. CASE CreateExpire(p)
  <2> DEFINE old == metaCache \ {job[p].a}
  <2>1. Cardinality(old) \in Nat
    BY TwinAssumption, FS_Subset, FS_CardinalityType DEF TypeInv, TypeOK
  <2>2. OtherTypes'
    BY <1>9 DEF CreateExpire, TypeInv, TypeOK, OtherTypes
  <2>3. CASE Goto(p, "ok") /\ UNCHANGED queue
    BY <1>1, <1>9, <2>2, <2>3, MoveStep, BusyLabels DEF CreateExpire, Goto,
       QueueLabels
  <2>4. CASE /\ \E k \in 1 .. Cardinality(old) :
                   \E q \in [1 .. k -> old] : queue' = [queue EXCEPT ![p] = q]
             /\ Goto(p, "d_clear")
    <3>1. PICK k \in 1 .. Cardinality(old) :
                  \E q \in [1 .. k -> old] : queue' = [queue EXCEPT ![p] = q]
      BY <2>4
    <3>2. PICK q \in [1 .. k -> old] : queue' = [queue EXCEPT ![p] = q]
      BY <3>1
    <3>3. k \in Nat /\ k # 0 /\ q \in [1 .. k -> Snaps]
      BY <2>1 DEF TypeInv, TypeOK
    <3>4. q \in Seq(Snaps) /\ q # <<>>
      BY <3>3, CountedSeq
    <3> QED
      BY <1>1, <1>9, <2>2, <2>4, <3>2, <3>4, QueueStep, BusyLabels
      DEF CreateExpire, Goto, ManagerLabels
  <2> QED
    BY <1>9, <2>3, <2>4 DEF CreateExpire
<1> QED
  BY <1>3, <1>4, <1>5, <1>6, <1>7, <1>8, <1>9, <1>10, <1>11

\* The loop over the snapshots to evict or to delete.
LEMMA NextDoomedType ==
  ASSUME TypeInv, NEW p \in Procs, pc[p] \in QueueLabels,
         NextDoomed(p), UNCHANGED job, OtherTypes'
  PROVE  TypeInv'
<1>1. pc[p] # "idle" /\ queue[p] \in Seq(Snaps)
  BY DEF TypeInv, TypeOK, QueueLabels
<1>2. CASE job[p].op = "delete"
  BY <1>1, <1>2, MoveStep, BusyLabels DEF NextDoomed, Goto, QueueLabels
<1>3. CASE job[p].op # "delete"
  <2>1. queue[p] # <<>>
    BY <1>3 DEF TypeInv, CallsTyped
  <2>2. Tail(queue[p]) \in Seq(Snaps)
    BY <1>1, <2>1, PopType
  <2>3. queue' = [queue EXCEPT ![p] = Tail(queue[p])]
    BY <1>3 DEF NextDoomed
  <2>4. CASE Tail(queue[p]) = <<>>
    BY <1>1, <1>3, <2>2, <2>3, <2>4, QueueStep, BusyLabels DEF NextDoomed, Goto,
       QueueLabels
  <2>5. CASE Tail(queue[p]) # <<>>
    BY <1>1, <1>3, <2>2, <2>3, <2>5, QueueStep, BusyLabels DEF NextDoomed, Goto,
       ManagerLabels
  <2> QED
    BY <2>4, <2>5
<1> QED
  BY <1>2, <1>3

\* The steps of Delete.
LEMMA ManagerDeleteType ==
  ASSUME TypeInv, NEW p \in Procs,
         \/ DeleteClear(p) \/ DeleteSkip(p) \/ DeleteCacheMeta(p)
         \/ DeleteRepoMeta(p)
  PROVE  TypeInv'
<1>1. pc[p] # "idle" /\ pc[p] \in QueueLabels
  BY DEF At, DeleteClear, DeleteSkip, DeleteCacheMeta, DeleteRepoMeta, QueueLabels
<1>2. Doomed(p) \in Snaps /\ queue[p] \in Seq(Snaps)
  BY <1>1, NamesType DEF TypeInv, TypeOK
<1>3. job[p].op # "delete" => queue[p] # <<>>
  BY <1>1 DEF TypeInv, CallsTyped
<1>4. queue = [queue EXCEPT ![p] = queue[p]]
  BY DEF TypeInv, TypeOK
<1>5. CASE DeleteClear(p)
  <2>1. OtherTypes'
    BY <1>5, EmptyType DEF DeleteClear, SetDb, managerVars, TypeInv, TypeOK, OtherTypes
  <2> QED
    BY <1>1, <1>2, <1>3, <1>4, <1>5, <2>1, QueueStep, BusyLabels
    DEF DeleteClear, Goto, managerVars, ManagerLabels
<1>6. CASE DeleteSkip(p)
  <2>1. OtherTypes'
    BY <1>6 DEF DeleteSkip, TypeInv, TypeOK, OtherTypes
  <2> QED
    BY <1>1, <1>6, <2>1, NextDoomedType DEF DeleteSkip
<1>7. CASE DeleteCacheMeta(p)
  <2>1. OtherTypes'
    BY <1>7 DEF DeleteCacheMeta, TypeInv, TypeOK, OtherTypes
  <2> QED
    BY <1>1, <1>2, <1>3, <1>4, <1>7, <2>1, QueueStep, BusyLabels
    DEF DeleteCacheMeta, Goto, ManagerLabels
<1>8. CASE DeleteRepoMeta(p)
  <2>1. OtherTypes'
    BY <1>8 DEF DeleteRepoMeta, TypeInv, TypeOK, OtherTypes
  <2> QED
    BY <1>1, <1>8, <2>1, NextDoomedType DEF DeleteRepoMeta
<1> QED
  BY <1>5, <1>6, <1>7, <1>8

\* Both outcomes of a finished load: on to the next load, or to the caller.
LEMMA LoadedNextType ==
  ASSUME TypeInv, NEW p \in Procs, pc[p] # "idle",
         LoadedNext(p), UNCHANGED <<job, queue>>,
         second' \in [Procs -> BOOLEAN] => OtherTypes'
  PROVE  TypeInv'
<1>1. second' \in [Procs -> BOOLEAN]
  BY DEF LoadedNext, TypeInv, TypeOK
<1>2. PICK l \in {"r_clear", "diff", "e_has"} : pc' = [pc EXCEPT ![p] = l]
  BY DEF LoadedNext, Goto
<1> QED
  BY <1>1, <1>2, MoveStep, BusyLabels DEF ManagerLabels, QueueLabels

\* The steps of ensureLoaded.
LEMMA LoadType ==
  ASSUME TypeInv, NEW p \in Procs,
         LoadCheck(p) \/ LoadImport(p) \/ LoadNodes(p) \/ LoadRels(p)
  PROVE  TypeInv'
<1>1. pc[p] # "idle"
  BY DEF At, LoadCheck, LoadImport, LoadNodes, LoadRels, WriteNodes, WriteRels
<1>2. Loading(p) \in Snaps /\ Loading(p) \in Dbs
  BY <1>1, NamesType, DbNames
<1>3. CASE LoadCheck(p)
  <2>1. lastAccess' \in [Snaps -> Nat]
    BY <1>2, <1>3, RankType DEF LoadCheck, TypeInv, TypeOK
  <2>2. second' \in [Procs -> BOOLEAN] => OtherTypes'
    BY <1>3, <2>1 DEF LoadCheck, TypeInv, TypeOK, OtherTypes
  <2>3. CASE LoadedNext(p)
    BY <1>1, <1>3, <2>2, <2>3, LoadedNextType DEF LoadCheck
  <2>4. CASE Goto(p, "e_import") /\ UNCHANGED second
    <3>1. OtherTypes'
      BY <2>2, <2>4 DEF TypeInv, TypeOK
    <3> QED
      BY <1>1, <1>3, <2>4, <3>1, MoveStep, BusyLabels DEF LoadCheck, Goto,
         ManagerLabels, QueueLabels
  <2> QED
    BY <1>3, <2>3, <2>4 DEF LoadCheck
<1>4. CASE LoadImport(p)
  <2>1. archive[Loading(p)].c \in Content
    BY <1>2 DEF TypeInv, TypeOK, Archive
  <2>2. LabelsIn(archive[Loading(p)].c) \in SUBSET (Labels \cup Types)
    BY <2>1, GroupsType
  <2>3. buf' \in [Procs -> Content] /\ todo' \in [Procs -> SUBSET (Labels \cup Types)]
    BY <1>4, <2>1, <2>2 DEF LoadImport, TypeInv, TypeOK
  <2>4. PICK l \in {"e_nodes", "err"} : pc' = [pc EXCEPT ![p] = l]
    BY <1>4 DEF LoadImport, Goto
  <2> QED
    BY <1>1, <1>4, <2>3, <2>4, PlainStep, BusyLabels DEF LoadImport,
       ManagerLabels, QueueLabels, TypeInv, TypeOK
<1>5. CASE LoadNodes(p)
  BY <1>2, <1>5, WriteNodesType, BusyLabels DEF LoadNodes, ManagerLabels, QueueLabels
<1>6. CASE LoadRels(p)
  BY <1>2, <1>6, WriteRelsType, BusyLabels DEF LoadRels, ManagerLabels, QueueLabels
<1> QED
  BY <1>3, <1>4, <1>5, <1>6

\* The steps of the LRU cleanup.
LEMMA CleanupType ==
  ASSUME TypeInv, NEW p \in Procs,
         CleanupList(p) \/ CleanupClear(p) \/ CleanupForget(p) \/ CleanupDone(p)
  PROVE  TypeInv'
<1>1. pc[p] # "idle" /\ queue[p] \in Seq(Snaps)
  BY DEF At, CleanupList, CleanupClear, CleanupForget, CleanupDone, TypeInv, TypeOK
<1>2. CASE CleanupList(p)
  <2>1. Cardinality(Loaded) \in Nat
    BY TwinAssumption, FS_Subset, FS_CardinalityType DEF Loaded
  <2>2. second' \in [Procs -> BOOLEAN] => OtherTypes'
    BY <1>2 DEF CleanupList, TypeInv, TypeOK, OtherTypes
  <2>3. CASE LoadedNext(p) /\ UNCHANGED queue
    BY <1>1, <1>2, <2>2, <2>3, LoadedNextType DEF CleanupList
  <2>4. CASE /\ Excess > 0
             /\ \E q \in [1 .. Excess -> Loaded] :
                   queue' = [queue EXCEPT ![p] = q]
             /\ Goto(p, "e_evict")
             /\ UNCHANGED second
    <3>1. PICK q \in [1 .. Excess -> Loaded] : queue' = [queue EXCEPT ![p] = q]
      BY <2>4
    <3>2. Excess \in Nat
      BY <2>1, <2>4, ManagerAssumption DEF Excess
    <3>3. q \in [1 .. Excess -> Snaps]
      BY <3>1 DEF Loaded
    <3>4. q \in Seq(Snaps)
      BY <3>2, <3>3, CountedSeq
    <3>5. OtherTypes'
      BY <2>2, <2>4 DEF TypeInv, TypeOK
    <3> QED
      BY <1>1, <1>2, <2>4, <3>1, <3>4, <3>5, QueueStep, BusyLabels
      DEF CleanupList, Goto, ManagerLabels, QueueLabels
  <2> QED
    BY <1>2, <2>3, <2>4 DEF CleanupList
<1>3. CASE CleanupClear(p)
  <2>1. queue[p] # <<>> /\ Tail(queue[p]) \in Seq(Snaps)
    BY <1>1, <1>3, PopType DEF CleanupClear
  <2>2. CASE SetDb(Head(queue[p]), Empty) /\ Goto(p, "e_forget") /\ UNCHANGED queue
    <3>1. OtherTypes'
      BY <1>3, <2>2, EmptyType DEF CleanupClear, SetDb, TypeInv, TypeOK, OtherTypes
    <3>2. queue' = [queue EXCEPT ![p] = queue[p]]
      BY <2>2 DEF TypeInv, TypeOK
    <3> QED
      BY <1>1, <1>3, <2>1, <2>2, <3>1, <3>2, QueueStep, BusyLabels
      DEF CleanupClear, Goto, ManagerLabels, QueueLabels
  <2>3. CASE queue' = [queue EXCEPT ![p] = Tail(queue[p])] /\ UNCHANGED <<db, pc>>
    <3>1. OtherTypes'
      BY <1>3, <2>3 DEF CleanupClear, TypeInv, TypeOK, OtherTypes
    <3>2. pc' = [pc EXCEPT ![p] = "e_evict"]
      BY <1>3, <2>3 DEF CleanupClear, At, TypeInv, TypeOK
    <3> QED
      BY <1>1, <1>3, <2>1, <2>3, <3>1, <3>2, QueueStep, BusyLabels
      DEF CleanupClear, ManagerLabels, QueueLabels
  <2> QED
    BY <1>3, <2>2, <2>3 DEF CleanupClear
<1>4. CASE CleanupForget(p)
  <2>1. queue[p] # <<>>
    BY <1>4 DEF CleanupForget, At, TypeInv, CallsTyped
  <2>2. Head(queue[p]) \in Snaps /\ Tail(queue[p]) \in Seq(Snaps)
    BY <1>1, <2>1, PopType
  <2>3. lastAccess' \in [Snaps -> Nat]
    BY <1>4, <2>2, RankType DEF CleanupForget, TypeInv, TypeOK
  <2>4. OtherTypes'
    BY <1>4, <2>3 DEF CleanupForget, TypeInv, TypeOK, OtherTypes
  <2> QED
    BY <1>1, <1>4, <2>2, <2>4, QueueStep, BusyLabels
    DEF CleanupForget, Goto, ManagerLabels, QueueLabels
<1>5. CASE CleanupDone(p)
  <2>1. second' \in [Procs -> BOOLEAN] => OtherTypes'
    BY <1>5 DEF CleanupDone, TypeInv, TypeOK, OtherTypes
  <2> QED
    BY <1>1, <1>5, <2>1, LoadedNextType DEF CleanupDone
<1> QED
  BY <1>2, <1>3, <1>4, <1>5

\* The steps of Restore, CloneDB, Diff and List.
LEMMA RestoreType ==
  ASSUME TypeInv, NEW p \in Procs,
         \/ RestoreClear(p) \/ CloneReadNodes(p) \/ CloneReadRels(p)
         \/ CloneWriteNodes(p) \/ CloneWriteRels(p)
         \/ DiffQueries(p) \/ List(p)
  PROVE  TypeInv'
<1>1. pc[p] # "idle"
  BY DEF At, RestoreClear, CloneReadNodes, CloneReadRels, CloneWriteNodes,
         CloneWriteRels, WriteNodes, WriteRels, DiffQueries, List
<1>2. job[p].a \in Dbs /\ db[job[p].a] \in Content /\ buf[p] \in Content
  BY <1>1, NamesType, DbNames DEF TypeInv, TypeOK
<1>3. CASE RestoreClear(p)
  <2>1. db' \in [Dbs -> Content]
    BY <1>3, EmptyType DEF RestoreClear, SetDb, TypeInv, TypeOK
  <2> QED
    BY <1>1, <1>3, <2>1, PlainStep, BusyLabels DEF RestoreClear, Goto,
       ManagerLabels, QueueLabels, TypeInv, TypeOK
<1>4. CASE CloneReadNodes(p)
  <2>1. [Empty EXCEPT !.n = db[job[p].a].n] \in Content
    BY <1>2, EmptyType, ContentParts
  <2>2. buf' \in [Procs -> Content]
    BY <1>4, <2>1 DEF CloneReadNodes, TypeInv, TypeOK
  <2> QED
    BY <1>1, <1>4, <2>2, PlainStep, BusyLabels DEF CloneReadNodes, Goto,
       ManagerLabels, QueueLabels, TypeInv, TypeOK
<1>5. CASE CloneReadRels(p)
  <2>1. [buf[p] EXCEPT !.r = db[job[p].a].r] \in Content
    BY <1>2, ContentParts
  <2>2. buf' \in [Procs -> Content]
    BY <1>5, <2>1 DEF CloneReadRels, TypeInv, TypeOK
  <2>3. todo' \in [Procs -> SUBSET (Labels \cup Types)]
    BY <1>2, <1>5, GroupsType DEF CloneReadRels, TypeInv, TypeOK
  <2> QED
    BY <1>1, <1>5, <2>2, <2>3, PlainStep, BusyLabels DEF CloneReadRels, Goto,
       ManagerLabels, QueueLabels, TypeInv, TypeOK
<1>6. CASE CloneWriteNodes(p)
  BY <1>6, DbNames, WriteNodesType, BusyLabels DEF CloneWriteNodes,
     ManagerLabels, QueueLabels
<1>7. CASE CloneWriteRels(p)
  BY <1>7, DbNames, WriteRelsType, BusyLabels DEF CloneWriteRels, QueueLabels
<1>8. CASE DiffQueries(p)
  BY <1>1, <1>8, PlainStep, BusyLabels DEF DiffQueries, Goto, QueueLabels,
     TypeInv, TypeOK
<1>9. CASE List(p)
  <2>1. OtherTypes'
    BY <1>9 DEF List, WithMeta, TypeInv, TypeOK, OtherTypes
  <2> QED
    BY <1>1, <1>9, <2>1, MoveStep, BusyLabels DEF List, Goto, QueueLabels
<1> QED
  BY <1>3, <1>4, <1>5, <1>6, <1>7, <1>8, <1>9

\* Any payload may be put into a goroutine's buffer.
LEMMA PayloadType ==
  ASSUME TypeInv, NEW p \in Procs, NEW m \in Content,
         NEW g \in SUBSET (Labels \cup Types),
         buf' = [buf EXCEPT ![p] = m], todo' = [todo EXCEPT ![p] = g]
  PROVE  buf' \in [Procs -> Content] /\ todo' \in [Procs -> SUBSET (Labels \cup Types)]
  BY DEF TypeInv, TypeOK

\* The steps of FullSync.
LEMMA FullSyncType ==
  ASSUME TypeInv, NEW p \in Procs, UNCHANGED managerVars,
         FullClear(p) \/ FullCollect(p) \/ FullNodes(p) \/ FullRels(p)
  PROVE  TypeInv'
<1>1. pc[p] # "idle"
  BY DEF At, FullClear, FullCollect, FullNodes, FullRels, WriteNodes, WriteRels
<1>2. CASE FullClear(p)
  <2>1. db' \in [Dbs -> Content]
    BY <1>2, EmptyType DEF FullClear, SetDb, TypeInv, TypeOK
  <2> QED
    BY <1>1, <1>2, <2>1, PlainStep, BusyLabels DEF FullClear, Goto, SyncLabels,
       QueueLabels, TypeInv, TypeOK
<1>3. CASE FullCollect(p)
  <2>1. PICK m \in Models : /\ buf'  = [buf EXCEPT ![p] = m]
                            /\ todo' = [todo EXCEPT ![p] = LabelsIn(m)]
    BY <1>3 DEF FullCollect
  <2>2. m \in Content /\ LabelsIn(m) \in SUBSET (Labels \cup Types)
    BY TwinAssumption, GroupsType
  <2>3. buf' \in [Procs -> Content] /\ todo' \in [Procs -> SUBSET (Labels \cup Types)]
    BY <2>1, <2>2, PayloadType
  <2> QED
    BY <1>1, <1>3, <2>3, PlainStep, BusyLabels DEF FullCollect, Goto, SyncLabels,
       QueueLabels, TypeInv, TypeOK
<1>4. CASE FullNodes(p)
  BY <1>4, DbNames, WriteNodesType, BusyLabels DEF FullNodes, SyncLabels, QueueLabels
<1>5. CASE FullRels(p)
  BY <1>5, DbNames, WriteRelsType, BusyLabels DEF FullRels, QueueLabels
<1> QED
  BY <1>2, <1>3, <1>4, <1>5

\* The steps of an update event.
LEMMA UpdateType ==
  ASSUME TypeInv, NEW p \in Procs, UNCHANGED managerVars,
         UpdateAssemble(p) \/ UpdateNodes(p) \/ UpdateRels(p)
  PROVE  TypeInv'
<1>1. pc[p] # "idle" /\ buf[p] \in Content /\ db[Default] \in Content
  BY DbNames DEF At, UpdateAssemble, UpdateNodes, UpdateRels, TypeInv, TypeOK
<1>2. CASE UpdateAssemble(p)
  <2>1. PICK m \in Models : /\ buf'  = [buf EXCEPT ![p] = m]
                            /\ todo' = [todo EXCEPT ![p] = LabelsIn(m)]
    BY <1>2 DEF UpdateAssemble
  <2>2. m \in Content /\ LabelsIn(m) \in SUBSET (Labels \cup Types)
    BY TwinAssumption, GroupsType
  <2>3. buf' \in [Procs -> Content] /\ todo' \in [Procs -> SUBSET (Labels \cup Types)]
    BY <2>1, <2>2, PayloadType
  <2> QED
    BY <1>1, <1>2, <2>3, PlainStep, BusyLabels DEF UpdateAssemble, Goto,
       SyncLabels, QueueLabels, TypeInv, TypeOK
<1>3. CASE UpdateNodes(p)
  <2>1. ASSUME NEW g \in todo[p],
               SetDb(Default, MergeNodes(db[Default], buf[p], g)),
               todo' = [todo EXCEPT ![p] = @ \ {g}], UNCHANGED pc
        PROVE  TypeInv'
    <3>1. db' \in [Dbs -> Content]
      BY <1>1, <2>1, MergeNodesType DEF SetDb, TypeInv, TypeOK
    <3>2. todo' \in [Procs -> SUBSET (Labels \cup Types)]
      BY <2>1 DEF TypeInv, TypeOK
    <3> QED
      BY <1>3, <2>1, <3>1, <3>2, StayStep DEF UpdateNodes, TypeInv, TypeOK
  <2>2. CASE /\ todo' = [todo EXCEPT ![p] = TypesIn(buf[p])]
             /\ Goto(p, "u_rels")
             /\ UNCHANGED db
    <3>1. todo' \in [Procs -> SUBSET (Labels \cup Types)]
      BY <1>1, <2>2, GroupsType DEF TypeInv, TypeOK
    <3> QED
      BY <1>1, <1>3, <2>2, <3>1, PlainStep, BusyLabels DEF UpdateNodes, Goto,
         SyncLabels, QueueLabels, TypeInv, TypeOK
  <2> QED
    BY <1>3, <2>1, <2>2 DEF UpdateNodes
<1>4. CASE UpdateRels(p)
  <2>1. ASSUME NEW g \in todo[p],
               SetDb(Default, MergeRels(db[Default], buf[p], g)),
               todo' = [todo EXCEPT ![p] = @ \ {g}], UNCHANGED pc
        PROVE  TypeInv'
    <3>1. db' \in [Dbs -> Content]
      BY <1>1, <2>1, MergeRelsType DEF SetDb, TypeInv, TypeOK
    <3>2. todo' \in [Procs -> SUBSET (Labels \cup Types)]
      BY <2>1 DEF TypeInv, TypeOK
    <3> QED
      BY <1>4, <2>1, <3>1, <3>2, StayStep DEF UpdateRels, TypeInv, TypeOK
  <2>2. CASE Goto(p, "ok") /\ UNCHANGED <<db, todo>>
    BY <1>1, <1>4, <2>2, PlainStep, BusyLabels DEF UpdateRels, Goto,
       QueueLabels, TypeInv, TypeOK
  <2> QED
    BY <1>4, <2>1, <2>2 DEF UpdateRels
<1> QED
  BY <1>2, <1>3, <1>4

\* The steps of a delete event, and the topology query.
LEMMA EventDeleteType ==
  ASSUME TypeInv, NEW p \in Procs, UNCHANGED managerVars,
         DeleteNodes(p) \/ MatchRels(p) \/ DropMatched(p) \/ QueryTopology(p)
  PROVE  TypeInv'
<1>1. pc[p] # "idle" /\ buf[p] \in Content /\ db[Default] \in Content
  BY DbNames DEF At, DeleteNodes, MatchRels, DropMatched, QueryTopology, TypeInv, TypeOK
<1>2. CASE DeleteNodes(p)
  <2>1. PICK gone \in SUBSET Uris : SetDb(Default, DetachDelete(db[Default], gone))
    BY <1>2 DEF DeleteNodes
  <2>2. db' \in [Dbs -> Content]
    BY <1>1, <2>1, DeleteType DEF SetDb, TypeInv, TypeOK
  <2> QED
    BY <1>1, <1>2, <2>2, PlainStep, BusyLabels DEF DeleteNodes, Goto,
       QueueLabels, TypeInv, TypeOK
<1>3. CASE MatchRels(p)
  <2> DEFINE M(gone) ==
        [Empty EXCEPT !.r = [e \in Rels |-> IF e \in gone THEN 1 ELSE 0]]
  <2>1. PICK gone \in SUBSET Rels : /\ buf'  = [buf EXCEPT ![p] = M(gone)]
                                    /\ todo' = [todo EXCEPT ![p] = TypesIn(M(gone))]
    BY <1>3 DEF MatchRels
  <2>2. [e \in Rels |-> IF e \in gone THEN 1 ELSE 0] \in [Rels -> Copies]
    BY CopiesNat
  <2>3. M(gone) \in Content
    BY <2>2, EmptyType, ContentParts
  <2>4. TypesIn(M(gone)) \in SUBSET (Labels \cup Types)
    BY <2>3, GroupsType
  <2> HIDE DEF M
  <2>5. buf' \in [Procs -> Content] /\ todo' \in [Procs -> SUBSET (Labels \cup Types)]
    BY <2>1, <2>3, <2>4, PayloadType
  <2> QED
    BY <1>1, <1>3, <2>5, PlainStep, BusyLabels DEF MatchRels, Goto, SyncLabels,
       QueueLabels, TypeInv, TypeOK
<1>4. CASE DropMatched(p)
  <2>1. ASSUME NEW g \in todo[p],
               SetDb(Default, DropRels(db[Default], {e \in Rels : buf[p].r[e] > 0}, g)),
               todo' = [todo EXCEPT ![p] = @ \ {g}], UNCHANGED pc
        PROVE  TypeInv'
    <3>1. db' \in [Dbs -> Content]
      BY <1>1, <2>1, DeleteType DEF SetDb, TypeInv, TypeOK
    <3>2. todo' \in [Procs -> SUBSET (Labels \cup Types)]
      BY <2>1 DEF TypeInv, TypeOK
    <3> QED
      BY <1>4, <2>1, <3>1, <3>2, StayStep DEF DropMatched, TypeInv, TypeOK
  <2>2. CASE Goto(p, "ok") /\ UNCHANGED <<db, todo>>
    BY <1>1, <1>4, <2>2, PlainStep, BusyLabels DEF DropMatched, Goto,
       QueueLabels, TypeInv, TypeOK
  <2> QED
    BY <1>4, <2>1, <2>2 DEF DropMatched
<1>5. CASE QueryTopology(p)
  BY <1>1, <1>5, PlainStep, BusyLabels DEF QueryTopology, Goto, QueueLabels,
     TypeInv, TypeOK
<1> QED
  BY <1>2, <1>3, <1>4, <1>5

\* The lock operations keep every goroutine in a state of the RWMutex.
LEMMA LockType ==
  ASSUME lk \in [Procs -> LockStates], NEW p \in Procs,
         \/ RLock(p) \/ RUnlock(p) \/ Lock(p)
         \/ Announce(p) \/ EnterWrite(p) \/ Unlock(p)
  PROVE  lk' \in [Procs -> LockStates]
  BY DEF LockStates, RLock, RUnlock, Lock, Announce, EnterWrite, Unlock

\* A goroutine is given an operation.
LEMMA CallType ==
  ASSUME TypeInv, NEW p \in Procs, Call(p)
  PROVE  TypeInv'
<1>1. PICK j \in Jobs[p] : Start(p, j)
  BY DEF Call
<1>2. j \in Job /\ j.op \in Ops
  BY TwinAssumption, JobType
<1>3. lk' \in [Procs -> LockStates]
  BY <1>1, LockType DEF Start, TypeInv, TypeOK
<1>4. Entry(j.op) \in Busy /\ (Entry(j.op) \in QueueLabels => j.op = "delete")
      /\ Entry(j.op) # "e_forget"
  BY <1>2, BusyLabels DEF Entry, Ops, WriteOps, ReadOps, FreeOps, ManagerLabels,
     SyncLabels, QueueLabels
<1>5. OtherTypes' /\ queue' = queue
  BY <1>1, <1>3 DEF Call, Start, managerVars, TypeInv, TypeOK, OtherTypes
<1>6. /\ job' = [job EXCEPT ![p] = j]
      /\ pc' = [pc EXCEPT ![p] = Entry(j.op)]
  BY <1>1 DEF Start, Goto
<1>7. pc' \in [Procs -> PcLabels] /\ job' \in [Procs -> Job \cup {IdleJob}]
  BY <1>2, <1>4, <1>6 DEF Busy, TypeInv, TypeOK
<1>8. TypeOK'
  BY <1>5, <1>7 DEF TypeInv, TypeOK, OtherTypes
<1>9. CallsTyped'
  BY <1>2, <1>4, <1>5, <1>6 DEF TypeInv, TypeOK, CallsTyped
<1> QED
  BY <1>8, <1>9 DEF TypeInv

\* The steps of GraphLock.
LEMMA LockTurnType ==
  ASSUME TypeInv, NEW p \in Procs, LockTurn(p), UNCHANGED managerVars
  PROVE  TypeInv'
<1>1. lk' \in [Procs -> LockStates]
  BY LockType DEF LockTurn, TypeInv, TypeOK
<1> QED
  BY <1>1 DEF LockTurn, localVars, managerVars, TypeInv, TypeOK, CallsTyped

\* An operation returns.
LEMMA FinishType ==
  ASSUME TypeInv, NEW p \in Procs, Finish(p)
  PROVE  TypeInv'
<1>1. lk' \in [Procs -> LockStates]
  BY LockType DEF Finish, Return, TypeInv, TypeOK
<1>2. TypeOK'
  <2>1. pc' \in [Procs -> PcLabels] /\ job' \in [Procs -> Job \cup {IdleJob}]
    BY DEF Finish, Return, Goto, PcLabels, TypeInv, TypeOK
  <2>2. buf' \in [Procs -> Content] /\ todo' \in [Procs -> SUBSET (Labels \cup Types)]
    BY EmptyType DEF Finish, Return, TypeInv, TypeOK
  <2>3. queue' \in [Procs -> Seq(Snaps)] /\ second' \in [Procs -> BOOLEAN]
    BY DEF Finish, TypeInv, TypeOK
  <2> QED
    BY <1>1, <2>1, <2>2, <2>3 DEF Finish, Return, TypeInv, TypeOK
<1>3. CallsTyped'
  BY DEF Finish, Return, Goto, TypeInv, TypeOK, CallsTyped, QueueLabels
<1> QED
  BY <1>2, <1>3 DEF TypeInv

\* A statement that fails, with what it had done.
LEMMA FailsType ==
  ASSUME TypeInv, NEW p \in Procs, StatementFails(p), UNCHANGED managerVars
  PROVE  TypeInv'
<1>1. pc[p] # "idle"
  BY DEF StatementFails, Fallible
<1> QED
  BY <1>1, PlainStep, BusyLabels DEF StatementFails, Goto, QueueLabels,
     TypeInv, TypeOK

\* An empty queue is a queue of anything.
LEMMA EmptySeqType == ASSUME NEW S PROVE <<>> \in Seq(S)
  OBVIOUS

\* A crash and the start after it.
LEMMA RestartType ==
  ASSUME TypeInv, Restart
  PROVE  TypeInv'
<1>1. queue' \in [Procs -> Seq(Snaps)]
  BY EmptySeqType DEF Restart
<1>2. lk' \in [Procs -> LockStates] /\ pc' \in [Procs -> PcLabels]
  BY DEF Restart, LockStates, PcLabels
<1>3. job' \in [Procs -> Job \cup {IdleJob}] /\ buf' \in [Procs -> Content]
  BY EmptyType DEF Restart
<1>4. TypeOK'
  BY <1>1, <1>2, <1>3 DEF Restart, TypeInv, TypeOK
<1>5. CallsTyped'
  BY DEF Restart, CallsTyped, QueueLabels
<1> QED
  BY <1>4, <1>5 DEF TypeInv

\* The types hold at the start.
LEMMA InitType == Init => TypeInv
<1> SUFFICES ASSUME Init PROVE TypeInv
  OBVIOUS
<1>1. [st |-> "none", c |-> Empty] \in Archive
  BY EmptyType DEF Archive
<1>2. TypeOK
  <2>1. queue \in [Procs -> Seq(Snaps)]
    BY EmptySeqType DEF Init, ManagerInit
  <2>2. lk \in [Procs -> LockStates] /\ pc \in [Procs -> PcLabels]
    BY DEF Init, TwinInit, LockInit, LockStates, PcLabels
  <2>3. db \in [Dbs -> Content] /\ buf \in [Procs -> Content]
    BY EmptyType DEF Init, TwinInit
  <2>4. archive \in [Snaps -> Archive]
    BY <1>1 DEF Init, ManagerInit
  <2> QED
    BY <2>1, <2>2, <2>3, <2>4 DEF Init, TwinInit, ManagerInit, TypeOK
<1>3. CallsTyped
  BY DEF Init, TwinInit, CallsTyped, QueueLabels
<1> QED
  BY <1>2, <1>3 DEF TypeInv

\* One step of a goroutine on its own.
LEMMA StepType ==
  ASSUME TypeInv, NEW p \in Procs, Step(p)
  PROVE  TypeInv'
<1>1. CASE ManagerStep(p)
  BY <1>1, CreateType, ManagerDeleteType, LoadType, CleanupType, RestoreType
  DEF ManagerStep
<1>2. CASE SyncStep(p) /\ UNCHANGED managerVars
  BY <1>2, FullSyncType, UpdateType, EventDeleteType DEF SyncStep
<1>3. CASE StatementFails(p) /\ UNCHANGED managerVars
  BY <1>3, FailsType
<1> QED
  BY <1>1, <1>2, <1>3 DEF Step

\* Every step keeps the types.
LEMMA NextType == TypeInv /\ [Next]_vars => TypeInv'
<1> SUFFICES ASSUME TypeInv, [Next]_vars PROVE TypeInv'
  OBVIOUS
<1>1. CASE \E p \in Procs : \/ Call(p)
                            \/ LockTurn(p) /\ UNCHANGED managerVars
                            \/ Step(p)
                            \/ Finish(p)
  BY <1>1, CallType, LockTurnType, StepType, FinishType
<1>2. CASE Restart
  BY <1>2, RestartType
<1>3. CASE UNCHANGED vars
  BY <1>3 DEF vars, twinVars, localVars, managerVars, TypeInv, TypeOK, CallsTyped
<1> QED
  BY <1>1, <1>2, <1>3 DEF Next

\* Every variable keeps its type in every behaviour, and a goroutine that has
\* databases to clear always knows which one is next: Delete, the TTL cleanup
\* and the LRU cleanup never index an empty list (manager.go, cleanupExpired
\* and cleanup).
THEOREM TypeCorrect == Spec => []TypeInv
<1>1. Init => TypeInv
  BY InitType
<1>2. TypeInv /\ [Next]_vars => TypeInv'
  BY NextType
<1> QED
  BY <1>1, <1>2, PTL DEF Spec

\* The types a reader sees are among those of the invariant.
THEOREM TypesOK == Spec => []TypeOK
<1>1. TypeInv => TypeOK
  BY DEF TypeInv
<1> QED
  BY <1>1, TypeCorrect, PTL
-----------------------------------------------------------------------------
(* Isolation: the lock's own exclusion, that the live database is written   *)
(* under exclusion, and that every archive is a consistent cut of it.       *)

CutLabels == {"c_rels", "c_open", "c_write", "c_body", "c_rest"}

\* The labels tell the kind of operation, and an export that has begun holds
\* the read lock.
Stages ==
    \A p \in Procs :
        /\ pc[p] \in CreateLabels => job[p].op = "create"
        /\ pc[p] \in LiveLabels => job[p].op \in WriteOps
        /\ pc[p] \in CutLabels => lk[p] = "read"

\* What an export has read so far is still what the live database holds.
CutSoFar ==
    \A p \in Procs :
        /\ pc[p] \in CutLabels => buf[p].n = db[Default].n
        /\ pc[p] \in CutLabels \ {"c_rels"} => buf[p].r = db[Default].r

Isolation == TypeInv /\ Exclusion /\ Stages /\ CutSoFar

-----------------------------------------------------------------------------
(* The lock.                                                                *)

\* Every step of GraphLock keeps a writer inside alone.
LEMMA LockExclusion ==
  ASSUME lk \in [Procs -> LockStates], Exclusion, NEW p \in Procs,
         \/ RLock(p) \/ RUnlock(p) \/ Lock(p)
         \/ Announce(p) \/ EnterWrite(p) \/ Unlock(p)
  PROVE  Exclusion'
<1>1. CASE RLock(p)
  BY <1>1 DEF RLock, Exclusion, NoWriter
<1>2. CASE RUnlock(p)
  BY <1>2 DEF RUnlock, Exclusion, NoWriter
<1>3. CASE Lock(p)
  BY <1>3 DEF Lock, Exclusion, NoWriter
<1>4. CASE Announce(p)
  BY <1>4 DEF Announce, Exclusion, NoWriter
<1>5. CASE EnterWrite(p)
  BY <1>5 DEF EnterWrite, Exclusion, NoWriter
<1>6. CASE Unlock(p)
  BY <1>6 DEF Unlock, Exclusion, NoWriter
<1> QED
  BY <1>1, <1>2, <1>3, <1>4, <1>5, <1>6

\* The lock operations of one goroutine never take a read lock from another.
LEMMA LockOthers ==
  ASSUME lk \in [Procs -> LockStates], NEW p \in Procs, NEW q \in Procs,
         q # p, lk[q] = "read",
         \/ RLock(p) \/ RUnlock(p) \/ Lock(p)
         \/ Announce(p) \/ EnterWrite(p) \/ Unlock(p)
  PROVE  lk'[q] = "read"
  BY DEF RLock, RUnlock, Lock, Announce, EnterWrite, Unlock

-----------------------------------------------------------------------------
(* What a step of goroutine p may do to the others and to the live database. *)

StepFrame(p) ==
    /\ UNCHANGED <<lk, job>>
    /\ \A q \in Procs \ {p} : pc'[q] = pc[q] /\ buf'[q] = buf[q]
    /\ pc'[p] \in LiveLabels => job[p].op \in WriteOps
    /\ db'[Default] # db[Default] => lk[p] = "write"

\* A statement touches the live database only at the labels that say so, under the lock.
LEMMA WriteFrame ==
  ASSUME TypeInv, NEW p \in Procs, NEW d \in Dbs, NEW l, NEW next,
         WriteNodes(p, d, l, next) \/ WriteRels(p, d, l, next),
         l \in LiveLabels \/ d # Default,
         l \in LiveLabels => job[p].op \in WriteOps,
         next \in LiveLabels => l \in LiveLabels
  PROVE  /\ StepFrame(p)
         /\ pc'[p] \in {l, next}
<1>1. UNCHANGED <<lk, job, buf>> /\ pc[p] = l
  BY DEF WriteNodes, WriteRels, At
<1>2. /\ \A q \in Procs \ {p} : pc'[q] = pc[q]
      /\ pc'[p] \in {l, next}
  BY <1>1 DEF WriteNodes, WriteRels, Goto, TypeInv, TypeOK
<1>3. db'[Default] # db[Default] => d = Default
  BY DbNames DEF WriteNodes, WriteRels, SetDb, TypeInv, TypeOK
<1>4. job[p].op \in WriteOps => lk[p] = "write"
  BY DEF WriteNodes, WriteRels, At, LockFor
<1> QED
  BY <1>1, <1>2, <1>3, <1>4 DEF StepFrame

\* The other steps: what happens to p's own label, and to the database.
LEMMA CreateFrame ==
  ASSUME TypeInv, Stages, NEW p \in Procs,
         \/ CreateReadNodes(p) \/ CreateReadRels(p) \/ CreateOpenFile(p)
         \/ CreateWriteMeta(p) \/ CreateWriteBody(p) \/ CreateWriteRest(p)
         \/ CreateCacheMeta(p) \/ CreateRepoMeta(p) \/ CreateExpire(p)
  PROVE  StepFrame(p) /\ UNCHANGED db
<1>1. CASE CreateReadNodes(p)
  BY <1>1 DEF CreateReadNodes, Goto, StepFrame, LiveLabels, TypeInv, TypeOK
<1>2. CASE CreateReadRels(p)
  BY <1>2 DEF CreateReadRels, Goto, StepFrame, LiveLabels, TypeInv, TypeOK
<1>3. CASE CreateOpenFile(p)
  BY <1>3 DEF CreateOpenFile, Goto, StepFrame, LiveLabels, TypeInv, TypeOK
<1>4. CASE CreateWriteMeta(p)
  BY <1>4 DEF CreateWriteMeta, Goto, StepFrame, LiveLabels, TypeInv, TypeOK
<1>8. CASE CreateWriteBody(p)
  BY <1>8 DEF CreateWriteBody, Goto, StepFrame, LiveLabels, TypeInv, TypeOK
<1>9. CASE CreateWriteRest(p)
  BY <1>9 DEF CreateWriteRest, Goto, StepFrame, LiveLabels, TypeInv, TypeOK
<1>5. CASE CreateCacheMeta(p)
  BY <1>5 DEF CreateCacheMeta, Goto, StepFrame, LiveLabels, TypeInv, TypeOK
<1>6. CASE CreateRepoMeta(p)
  BY <1>6 DEF CreateRepoMeta, Goto, StepFrame, LiveLabels, TypeInv, TypeOK
<1>7. CASE CreateExpire(p)
  BY <1>7 DEF CreateExpire, Goto, StepFrame, LiveLabels, TypeInv, TypeOK
<1> QED
  BY <1>1, <1>2, <1>3, <1>4, <1>5, <1>6, <1>7, <1>8, <1>9

\* Delete stays away from the live database.
LEMMA DeleteFrame ==
  ASSUME TypeInv, NEW p \in Procs,
         \/ DeleteClear(p) \/ DeleteSkip(p) \/ DeleteCacheMeta(p)
         \/ DeleteRepoMeta(p)
  PROVE  StepFrame(p) /\ pc'[p] \notin CreateLabels
<1>1. CASE DeleteClear(p)
  <2>1. Doomed(p) # Default
    BY <1>1, NamesType, DbNames DEF DeleteClear, At, QueueLabels
  <2>2. db'[Default] = db[Default]
    BY <1>1, <2>1, DbNames DEF DeleteClear, SetDb, TypeInv, TypeOK
  <2> QED
    BY <1>1, <2>2 DEF DeleteClear, Goto, StepFrame, LiveLabels, CreateLabels,
       TypeInv, TypeOK
<1>2. CASE DeleteSkip(p)
  BY <1>2 DEF DeleteSkip, NextDoomed, Goto, StepFrame, LiveLabels, CreateLabels,
     TypeInv, TypeOK
<1>3. CASE DeleteCacheMeta(p)
  BY <1>3 DEF DeleteCacheMeta, Goto, StepFrame, LiveLabels, CreateLabels,
     TypeInv, TypeOK
<1>4. CASE DeleteRepoMeta(p)
  BY <1>4 DEF DeleteRepoMeta, NextDoomed, Goto, StepFrame, LiveLabels,
     CreateLabels, TypeInv, TypeOK
<1> QED
  BY <1>1, <1>2, <1>3, <1>4

\* Only Restore goes on from a load to the live database.
LEMMA LoadedNextFrame ==
  ASSUME TypeInv, NEW p \in Procs, LoadedNext(p)
  PROVE  /\ \A q \in Procs \ {p} : pc'[q] = pc[q]
         /\ pc'[p] \in LiveLabels => job[p].op \in WriteOps
         /\ pc'[p] \notin CreateLabels
  BY DEF LoadedNext, Goto, LiveLabels, WriteOps, CreateLabels, TypeInv, TypeOK

\* ensureLoaded fills the database of its snapshot only.
LEMMA LoadFrame ==
  ASSUME TypeInv, NEW p \in Procs,
         LoadCheck(p) \/ LoadImport(p) \/ LoadNodes(p) \/ LoadRels(p)
  PROVE  StepFrame(p) /\ pc'[p] \notin CreateLabels
<1>1. CASE LoadCheck(p)
  <2>1. CASE LoadedNext(p)
    BY <1>1, <2>1, LoadedNextFrame DEF LoadCheck, StepFrame
  <2>2. CASE Goto(p, "e_import")
    BY <1>1, <2>2 DEF LoadCheck, Goto, StepFrame, LiveLabels, CreateLabels,
       TypeInv, TypeOK
  <2> QED
    BY <1>1, <2>1, <2>2 DEF LoadCheck
<1>2. CASE LoadImport(p)
  BY <1>2 DEF LoadImport, Goto, StepFrame, LiveLabels, CreateLabels, TypeInv, TypeOK
<1>3. CASE LoadNodes(p)
  <2>1. Loading(p) \in Dbs /\ Loading(p) # Default
    BY <1>3, NamesType, DbNames DEF LoadNodes, WriteNodes, At
  <2> QED
    BY <1>3, <2>1, WriteFrame DEF LoadNodes, LiveLabels, CreateLabels
<1>4. CASE LoadRels(p)
  <2>1. Loading(p) \in Dbs /\ Loading(p) # Default
    BY <1>4, NamesType, DbNames DEF LoadRels, WriteRels, At
  <2> QED
    BY <1>4, <2>1, WriteFrame DEF LoadRels, LiveLabels, CreateLabels
<1> QED
  BY <1>1, <1>2, <1>3, <1>4

\* The cleanup clears databases of snapshots only.
LEMMA CleanupFrame ==
  ASSUME TypeInv, NEW p \in Procs,
         CleanupList(p) \/ CleanupClear(p) \/ CleanupForget(p) \/ CleanupDone(p)
  PROVE  StepFrame(p) /\ pc'[p] \notin CreateLabels
<1>1. CASE CleanupList(p)
  <2>1. CASE LoadedNext(p)
    BY <1>1, <2>1, LoadedNextFrame DEF CleanupList, StepFrame
  <2>2. CASE Goto(p, "e_evict")
    BY <1>1, <2>2 DEF CleanupList, Goto, StepFrame, LiveLabels, CreateLabels,
       TypeInv, TypeOK
  <2> QED
    BY <1>1, <2>1, <2>2 DEF CleanupList
<1>2. CASE CleanupClear(p)
  <2>1. Head(queue[p]) \in Snaps
    BY <1>2, PopType DEF CleanupClear, TypeInv, TypeOK
  <2>2. db'[Default] = db[Default]
    BY <1>2, <2>1, DbNames DEF CleanupClear, SetDb, TypeInv, TypeOK
  <2> QED
    BY <1>2, <2>2 DEF CleanupClear, At, Goto, StepFrame, LiveLabels,
       CreateLabels, TypeInv, TypeOK
<1>3. CASE CleanupForget(p)
  BY <1>3 DEF CleanupForget, Goto, StepFrame, LiveLabels, CreateLabels,
     TypeInv, TypeOK
<1>4. CASE CleanupDone(p)
  BY <1>4, LoadedNextFrame DEF CleanupDone, StepFrame
<1> QED
  BY <1>1, <1>2, <1>3, <1>4

\* Of Restore, Diff and List, only Restore writes to the live database, under the lock.
LEMMA RestoreFrame ==
  ASSUME TypeInv, Stages, NEW p \in Procs,
         \/ RestoreClear(p) \/ CloneReadNodes(p) \/ CloneReadRels(p)
         \/ CloneWriteNodes(p) \/ CloneWriteRels(p)
         \/ DiffQueries(p) \/ List(p)
  PROVE  StepFrame(p) /\ pc'[p] \notin CreateLabels
<1>1. CASE RestoreClear(p)
  <2>1. job[p].op \in WriteOps /\ lk[p] = "write"
    BY <1>1 DEF RestoreClear, At, Stages, LiveLabels, LockFor
  <2> QED
    BY <1>1, <2>1 DEF RestoreClear, Goto, managerVars, StepFrame, CreateLabels,
       TypeInv, TypeOK
<1>2. CASE CloneReadNodes(p)
  BY <1>2 DEF CloneReadNodes, At, Goto, Stages, StepFrame, LiveLabels,
     CreateLabels, TypeInv, TypeOK
<1>3. CASE CloneReadRels(p)
  BY <1>3 DEF CloneReadRels, At, Goto, Stages, StepFrame, LiveLabels,
     CreateLabels, TypeInv, TypeOK
<1>4. CASE CloneWriteNodes(p)
  <2>1. job[p].op \in WriteOps
    BY <1>4 DEF CloneWriteNodes, WriteNodes, At, Stages, LiveLabels
  <2> QED
    BY <1>4, <2>1, DbNames, WriteFrame DEF CloneWriteNodes, LiveLabels, CreateLabels
<1>5. CASE CloneWriteRels(p)
  <2>1. job[p].op \in WriteOps
    BY <1>5 DEF CloneWriteRels, WriteRels, At, Stages, LiveLabels
  <2> QED
    BY <1>5, <2>1, DbNames, WriteFrame DEF CloneWriteRels, LiveLabels, CreateLabels
<1>6. CASE DiffQueries(p)
  BY <1>6 DEF DiffQueries, Goto, StepFrame, LiveLabels, CreateLabels, TypeInv, TypeOK
<1>7. CASE List(p)
  BY <1>7 DEF List, Goto, StepFrame, LiveLabels, CreateLabels, TypeInv, TypeOK
<1> QED
  BY <1>1, <1>2, <1>3, <1>4, <1>5, <1>6, <1>7

\* The sync service writes to the live database under the lock.
LEMMA SyncFrame ==
  ASSUME TypeInv, Stages, NEW p \in Procs, SyncStep(p)
  PROVE  StepFrame(p) /\ pc'[p] \notin CreateLabels
<1>1. CASE QueryTopology(p)
  BY <1>1 DEF QueryTopology, Goto, StepFrame, LiveLabels, CreateLabels,
     TypeInv, TypeOK
<1>2. CASE ~QueryTopology(p)
  <2>1. job[p].op \in WriteOps /\ lk[p] = "write"
    BY <1>2 DEF SyncStep, FullClear, FullCollect, FullNodes, FullRels,
       UpdateAssemble, UpdateNodes, UpdateRels, DeleteNodes, MatchRels,
       DropMatched, WriteNodes, WriteRels, At, Stages, LiveLabels, LockFor
  <2>2. CASE FullClear(p)
    BY <2>1, <2>2 DEF FullClear, Goto, StepFrame, CreateLabels, TypeInv, TypeOK
  <2>3. CASE FullCollect(p)
    BY <2>1, <2>3 DEF FullCollect, Goto, StepFrame, CreateLabels, TypeInv, TypeOK
  <2>4. CASE FullNodes(p)
    BY <2>1, <2>4, DbNames, WriteFrame DEF FullNodes, LiveLabels, CreateLabels
  <2>5. CASE FullRels(p)
    BY <2>1, <2>5, DbNames, WriteFrame DEF FullRels, LiveLabels, CreateLabels
  <2>6. CASE UpdateAssemble(p)
    BY <2>1, <2>6 DEF UpdateAssemble, Goto, StepFrame, CreateLabels, TypeInv, TypeOK
  <2>7. CASE UpdateNodes(p)
    BY <2>1, <2>7 DEF UpdateNodes, At, Goto, StepFrame, CreateLabels, TypeInv, TypeOK
  <2>8. CASE UpdateRels(p)
    BY <2>1, <2>8 DEF UpdateRels, At, Goto, StepFrame, CreateLabels, TypeInv, TypeOK
  <2>9. CASE DeleteNodes(p)
    BY <2>1, <2>9 DEF DeleteNodes, Goto, StepFrame, CreateLabels, TypeInv, TypeOK
  <2>10. CASE MatchRels(p)
    BY <2>1, <2>10 DEF MatchRels, Goto, StepFrame, CreateLabels, TypeInv, TypeOK
  <2>11. CASE DropMatched(p)
    BY <2>1, <2>11 DEF DropMatched, At, Goto, StepFrame, CreateLabels, TypeInv, TypeOK
  <2> QED
    BY <1>2, <2>2, <2>3, <2>4, <2>5, <2>6, <2>7, <2>8, <2>9, <2>10, <2>11 DEF SyncStep
<1> QED
  BY <1>1, <1>2

\* A statement that fails does no more than one that succeeds may.
LEMMA FailsFrame ==
  ASSUME TypeInv, NEW p \in Procs, StatementFails(p)
  PROVE  StepFrame(p) /\ pc'[p] \notin CreateLabels
  BY DEF StatementFails, Goto, StepFrame, LiveLabels, CreateLabels, TypeInv, TypeOK

\* Every step of p is framed; it is a step of Create's export that leaves the
\* databases alone, or it does not lead to a label of the export.
LEMMA StepFramed ==
  ASSUME TypeInv, Stages, NEW p \in Procs, Step(p)
  PROVE  /\ StepFrame(p)
         /\ \/ pc'[p] \notin CreateLabels
            \/ CreateReadNodes(p) \/ CreateReadRels(p) \/ CreateOpenFile(p)
            \/ CreateWriteMeta(p) \/ CreateWriteBody(p)
<1>1. CASE \/ CreateReadNodes(p) \/ CreateReadRels(p) \/ CreateOpenFile(p)
           \/ CreateWriteMeta(p) \/ CreateWriteBody(p)
  BY <1>1, CreateFrame
<1>2. CASE \/ CreateWriteRest(p) \/ CreateCacheMeta(p) \/ CreateRepoMeta(p)
           \/ CreateExpire(p)
  <2>1. pc'[p] \notin CreateLabels
    BY <1>2 DEF CreateWriteRest, CreateCacheMeta, CreateRepoMeta, CreateExpire,
       Goto, CreateLabels, TypeInv, TypeOK
  <2> QED
    BY <1>2, <2>1, CreateFrame
<1> QED
  BY <1>1, <1>2, DeleteFrame, LoadFrame, CleanupFrame, RestoreFrame, SyncFrame,
     FailsFrame DEF Step, ManagerStep

\* The live database does not change under an export.
LEMMA ExportUndisturbed ==
  ASSUME Isolation, NEW p \in Procs, Step(p), NEW q \in Procs, lk[q] = "read"
  PROVE  db'[Default] = db[Default]
<1>1. db'[Default] # db[Default] => lk[p] = "write"
  BY StepFramed DEF Isolation, StepFrame
<1> QED
  BY <1>1 DEF Isolation, Exclusion

\* Every step of an operation keeps the lock, the stages and the cut of Create.
LEMMA StepIsolation ==
  ASSUME Isolation, NEW p \in Procs, Step(p)
  PROVE  Exclusion' /\ Stages' /\ CutSoFar'
<1>1. /\ TypeInv /\ Stages
      /\ UNCHANGED <<lk, job>>
      /\ \A q \in Procs \ {p} : pc'[q] = pc[q] /\ buf'[q] = buf[q]
      /\ pc'[p] \in LiveLabels => job[p].op \in WriteOps
  BY StepFramed DEF Isolation, StepFrame
<1>2. Exclusion'
  BY <1>1 DEF Isolation, Exclusion, NoWriter
<1>3. ASSUME NEW q \in Procs, q # p
      PROVE  /\ pc'[q] \in CreateLabels => job'[q].op = "create"
             /\ pc'[q] \in LiveLabels => job'[q].op \in WriteOps
             /\ pc'[q] \in CutLabels => /\ lk'[q] = "read"
                                        /\ buf'[q].n = db'[Default].n
             /\ pc'[q] \in CutLabels \ {"c_rels"} => buf'[q].r = db'[Default].r
  <2>1. pc'[q] = pc[q] /\ buf'[q] = buf[q] /\ job'[q] = job[q] /\ lk'[q] = lk[q]
    BY <1>1, <1>3
  <2>2. pc[q] \in CutLabels => lk[q] = "read" /\ db'[Default] = db[Default]
    BY ExportUndisturbed DEF Isolation, Stages
  <2> QED
    BY <2>1, <2>2 DEF Isolation, Stages, CutSoFar, CutLabels
<1>4. CASE pc'[p] \notin CreateLabels
  <2>1. pc'[p] \notin CutLabels
    BY <1>4 DEF CreateLabels, CutLabels
  <2> QED
    BY <1>1, <1>2, <1>3, <1>4, <2>1 DEF Stages, CutSoFar, CutLabels
<1>5. CASE CreateReadNodes(p)
  <2>1. pc'[p] = "c_rels" /\ lk[p] = "read" /\ job[p].op = "create"
        /\ buf'[p].n = db[Default].n /\ db' = db
    BY <1>1, <1>5 DEF CreateReadNodes, At, Goto, Stages, LockFor, CreateLabels,
       WriteOps, ReadOps, Empty, TypeInv, TypeOK
  <2> QED
    BY <1>1, <1>2, <1>3, <2>1 DEF Stages, CutSoFar, CutLabels, LiveLabels
<1>6. CASE CreateReadRels(p)
  <2>1. pc'[p] = "c_open" /\ pc[p] = "c_rels" /\ job[p].op = "create"
        /\ buf'[p].n = buf[p].n /\ buf'[p].r = db[Default].r /\ db' = db
    BY <1>1, <1>6 DEF CreateReadRels, At, Goto, Stages, CreateLabels, TypeInv,
       TypeOK, Content
  <2>2. lk[p] = "read" /\ buf[p].n = db[Default].n
    BY <2>1 DEF Isolation, Stages, CutSoFar, CutLabels
  <2> QED
    BY <1>1, <1>2, <1>3, <2>1, <2>2 DEF Stages, CutSoFar, CutLabels, LiveLabels
<1>7. CASE CreateOpenFile(p) \/ CreateWriteMeta(p) \/ CreateWriteBody(p)
  <2>1. /\ pc[p] \in {"c_open", "c_write", "c_body"}
        /\ pc'[p] \in {"c_write", "c_body", "c_rest"}
        /\ buf' = buf /\ db' = db
    BY <1>7 DEF CreateOpenFile, CreateWriteMeta, CreateWriteBody, At, Goto,
       Isolation, TypeInv, TypeOK
  <2>3. job[p].op = "create"
    BY <1>1, <2>1 DEF Stages, CreateLabels
  <2>2. lk[p] = "read" /\ buf[p].n = db[Default].n /\ buf[p].r = db[Default].r
    BY <2>1 DEF Isolation, Stages, CutSoFar, CutLabels
  <2> QED
    BY <1>1, <1>2, <1>3, <2>1, <2>2, <2>3 DEF Stages, CutSoFar, CutLabels,
       LiveLabels
<1> QED
  BY <1>1, <1>4, <1>5, <1>6, <1>7, StepFramed

\* So does the start of an operation.
LEMMA CallIsolation ==
  ASSUME Isolation, NEW p \in Procs, Call(p)
  PROVE  Exclusion' /\ Stages' /\ CutSoFar'
<1>1. PICK j \in Jobs[p] : Start(p, j)
  BY DEF Call
<1>2. j.op \in Ops
  BY TwinAssumption, JobType
<1>3. /\ pc' = [pc EXCEPT ![p] = Entry(j.op)]
      /\ job' = [job EXCEPT ![p] = j]
      /\ UNCHANGED <<db, buf>>
      /\ lk' = lk \/ RLock(p) \/ Lock(p)
  BY <1>1 DEF Start, Goto
<1>4. Exclusion'
  <2>1. CASE lk' = lk
    BY <2>1 DEF Isolation, Exclusion, NoWriter
  <2> QED
    BY <1>3, <2>1, LockExclusion DEF Isolation, TypeInv, TypeOK
<1>5. /\ Entry(j.op) \in CreateLabels => j.op = "create"
      /\ Entry(j.op) \in LiveLabels => j.op \in WriteOps
      /\ Entry(j.op) \notin CutLabels
  BY <1>2 DEF Entry, Ops, WriteOps, ReadOps, FreeOps, CreateLabels, LiveLabels,
     CutLabels
<1>6. \A q \in Procs \ {p} : lk[q] = "read" => lk'[q] = "read"
  BY <1>3, LockOthers DEF Isolation, TypeInv, TypeOK
<1>7. \A q \in Procs \ {p} : pc'[q] = pc[q] /\ job'[q] = job[q]
  BY <1>3 DEF Isolation, TypeInv, TypeOK
<1>8. pc'[p] = Entry(j.op) /\ job'[p] = j
  BY <1>3 DEF Isolation, TypeInv, TypeOK
<1>9. Stages'
  BY <1>5, <1>6, <1>7, <1>8 DEF Isolation, Stages
<1>10. CutSoFar'
  BY <1>3, <1>5, <1>7, <1>8 DEF Isolation, CutSoFar, CutLabels
<1> QED
  BY <1>4, <1>9, <1>10

\* So does every step of GraphLock.
LEMMA LockTurnIsolation ==
  ASSUME Isolation, NEW p \in Procs, LockTurn(p)
  PROVE  Exclusion' /\ Stages' /\ CutSoFar'
<1>1. Exclusion'
  BY LockExclusion DEF LockTurn, Isolation, TypeInv, TypeOK
<1>2. lk[p] # "read"
  BY DEF LockTurn, Announce, EnterWrite
<1>3. \A q \in Procs : lk[q] = "read" => lk'[q] = "read"
  BY <1>2, LockOthers DEF LockTurn, Isolation, TypeInv, TypeOK
<1>4. Stages'
  BY <1>3 DEF LockTurn, localVars, Isolation, Stages
<1>5. CutSoFar'
  BY DEF LockTurn, localVars, Isolation, CutSoFar
<1> QED
  BY <1>1, <1>4, <1>5

\* So does the return of an operation.
LEMMA FinishIsolation ==
  ASSUME Isolation, NEW p \in Procs, Finish(p)
  PROVE  Exclusion' /\ Stages' /\ CutSoFar'
<1>1. /\ pc' = [pc EXCEPT ![p] = "idle"]
      /\ job' = [job EXCEPT ![p] = IdleJob]
      /\ buf' = [buf EXCEPT ![p] = Empty]
      /\ UNCHANGED db
      /\ lk' = lk \/ RUnlock(p) \/ Unlock(p)
  BY DEF Finish, Return, Goto
<1>2. Exclusion'
  <2>1. CASE lk' = lk
    BY <2>1 DEF Isolation, Exclusion, NoWriter
  <2> QED
    BY <1>1, <2>1, LockExclusion DEF Isolation, TypeInv, TypeOK
<1>3. \A q \in Procs \ {p} : lk[q] = "read" => lk'[q] = "read"
  BY <1>1, LockOthers DEF Isolation, TypeInv, TypeOK
<1>4. /\ pc'[p] = "idle"
      /\ \A q \in Procs \ {p} : pc'[q] = pc[q] /\ job'[q] = job[q] /\ buf'[q] = buf[q]
  BY <1>1 DEF Isolation, TypeInv, TypeOK
<1>5. Stages'
  BY <1>3, <1>4 DEF Isolation, Stages, CreateLabels, LiveLabels, CutLabels
<1>6. CutSoFar'
  BY <1>1, <1>4 DEF Isolation, CutSoFar, CutLabels
<1> QED
  BY <1>2, <1>5, <1>6

\* The invariant of isolation holds at the start.
LEMMA InitIsolation == Init => Isolation
<1> SUFFICES ASSUME Init PROVE Isolation
  OBVIOUS
<1>1. Exclusion
  BY DEF Init, TwinInit, LockInit, Exclusion
<1>2. Stages /\ CutSoFar
  BY DEF Init, TwinInit, Stages, CutSoFar, CreateLabels, LiveLabels, CutLabels
<1> QED
  BY <1>1, <1>2, InitType DEF Isolation

\* Every step keeps the invariant of isolation.
LEMMA NextIsolation == Isolation /\ [Next]_vars => Isolation'
<1> SUFFICES ASSUME Isolation, [Next]_vars PROVE Isolation'
  OBVIOUS
<1>1. TypeInv'
  BY NextType DEF Isolation
<1>2. CASE \E p \in Procs : \/ Call(p)
                            \/ LockTurn(p) /\ UNCHANGED managerVars
                            \/ Step(p)
                            \/ Finish(p)
  BY <1>1, <1>2, CallIsolation, LockTurnIsolation, StepIsolation, FinishIsolation
  DEF Isolation
<1>3. CASE Restart
  <2>1. Exclusion'
    BY <1>3 DEF Restart, Exclusion
  <2>2. Stages' /\ CutSoFar'
    BY <1>3 DEF Restart, Stages, CutSoFar, CreateLabels, LiveLabels, CutLabels
  <2> QED
    BY <1>1, <2>1, <2>2 DEF Isolation
<1>4. CASE UNCHANGED vars
  <2>1. Exclusion'
    BY <1>4 DEF vars, twinVars, Isolation, Exclusion, NoWriter
  <2> QED
    BY <1>1, <1>4, <2>1 DEF vars, twinVars, localVars, Isolation, Stages, CutSoFar
<1> QED
  BY <1>2, <1>3, <1>4 DEF Next

\* The invariant of isolation holds of every run.
LEMMA Isolated == Spec => []Isolation
  BY InitIsolation, NextIsolation, PTL DEF Spec

\* GraphLock excludes: a writer inside is alone, and writers are announced
\* one at a time (graphlock.go), whatever the operations above it do.
THEOREM LockExcludes == Spec => []Exclusion
<1>1. Isolation => Exclusion
  BY DEF Isolation
<1> QED
  BY <1>1, Isolated, PTL

\* Spec => LiveIsolated: the live database changes only in a step taken while
\* one goroutine holds the write lock and no other is inside the lock, for
\* FullSync, IncrementalSync and Restore alike (sync_service.go, manager.go).
THEOREM LiveIsIsolated == Spec => LiveIsolated
<1>1. Isolation /\ [Next]_vars =>
        [db'[Default] # db[Default] =>
           \E p \in Procs : /\ lk[p] = "write"
                            /\ \A q \in Procs \ {p} : lk[q] \notin {"read", "write"}]_vars
  <2> SUFFICES ASSUME Isolation, [Next]_vars, db'[Default] # db[Default]
               PROVE  \E p \in Procs : /\ lk[p] = "write"
                                       /\ \A q \in Procs \ {p} :
                                             lk[q] \notin {"read", "write"}
    OBVIOUS
  <2>1. PICK p \in Procs : Step(p)
    BY DEF Next, Call, Start, LockTurn, Finish, Return, Restart, vars, twinVars
  <2>2. lk[p] = "write"
    BY <2>1, StepFramed DEF Isolation, StepFrame
  <2>3. \A q \in Procs \ {p} : lk[q] \notin {"read", "write"}
    BY <2>2 DEF Isolation, Exclusion
  <2> QED
    BY <2>2, <2>3
<1> QED
  BY <1>1, Isolated, PTL DEF Spec, LiveIsolated

\* A file that becomes complete holds what the live database holds.
LEMMA NewArchiveIsCut ==
  ASSUME Isolation, [Next]_vars, NEW s \in Snaps, archive'[s].st = "whole",
         archive'[s] # archive[s]
  PROVE  archive'[s].c = db[Default]
<1>1. PICK p \in Procs : Step(p)
  BY DEF Next, Call, LockTurn, Finish, Restart, vars, managerVars
<1>2. \/ CreateOpenFile(p) \/ CreateWriteMeta(p) \/ CreateWriteBody(p)
      \/ CreateWriteRest(p)
  BY <1>1 DEF Step, ManagerStep, managerVars, CreateReadNodes, CreateReadRels,
     CreateCacheMeta, CreateRepoMeta, CreateExpire, DeleteClear, DeleteSkip,
     DeleteCacheMeta, DeleteRepoMeta, LoadCheck, LoadImport, LoadNodes,
     LoadRels, CleanupList, CleanupClear, CleanupForget, CleanupDone,
     RestoreClear, CloneReadNodes, CloneReadRels, CloneWriteNodes,
     CloneWriteRels, DiffQueries, List
<1>3. CASE CreateOpenFile(p) \/ CreateWriteMeta(p) \/ CreateWriteBody(p)
  <2>1. job[p].a \in Snaps
    BY <1>3, NamesType DEF CreateOpenFile, CreateWriteMeta, CreateWriteBody, At,
       Isolation
  <2>2. archive \in [Snaps -> Archive]
    BY DEF Isolation, TypeInv, TypeOK
  <2>3. CASE s = job[p].a
    <3>1. archive'[s].st \in {"torn", "headed", "short"}
      <4>1. CASE CreateOpenFile(p)
        BY <2>1, <2>2, <2>3, <4>1 DEF CreateOpenFile
      <4>2. CASE CreateWriteMeta(p)
        BY <2>1, <2>2, <2>3, <4>2 DEF CreateWriteMeta, Archive
      <4>3. CASE CreateWriteBody(p)
        BY <2>1, <2>2, <2>3, <4>3 DEF CreateWriteBody
      <4> QED
        BY <1>3, <4>1, <4>2, <4>3
    <3> QED
      BY <3>1
  <2>4. CASE s # job[p].a
    BY <1>3, <2>2, <2>4 DEF CreateOpenFile, CreateWriteMeta, CreateWriteBody
  <2> QED
    BY <2>3, <2>4
<1>4. CASE CreateWriteRest(p)
  <2>1. archive'[s] = [st |-> "whole", c |-> buf[p]]
    BY <1>4 DEF CreateWriteRest, Isolation, TypeInv, TypeOK
  <2>2. buf[p].n = db[Default].n /\ buf[p].r = db[Default].r
    BY <1>4 DEF CreateWriteRest, At, Isolation, CutSoFar, CutLabels
  <2>3. buf[p] \in Content /\ db[Default] \in Content
    BY DbNames DEF Isolation, TypeInv, TypeOK
  <2>4. buf[p] = db[Default]
    BY <2>2, <2>3 DEF Content
  <2> QED
    BY <2>1, <2>4
<1> QED
  BY <1>2, <1>3, <1>4

\* Spec => ArchiveIsCut: Create reads the nodes and the relations of the live
\* database in separate statements and writes the file later still
\* (manager.go, exporter.go), yet a complete archive holds exactly what the
\* live database holds when the file is completed.
THEOREM ArchivesAreCuts == Spec => ArchiveIsCut
<1>1. Isolation /\ [Next]_vars =>
        [\A s \in Snaps :
           archive'[s].st = "whole" /\ archive'[s] # archive[s]
              => archive'[s].c = db[Default]]_vars
  BY NewArchiveIsCut
<1> QED
  BY <1>1, Isolated, PTL DEF Spec, ArchiveIsCut

-----------------------------------------------------------------------------
(* The catalogue of the snapshots, and the loaded ones.                     *)

\* The labels a call of each operation goes through.
Route(op) ==
    CASE op = "create"   -> {"c_nodes", "c_rels", "c_open", "c_write", "c_body",
                             "c_rest", "c_meta", "c_repo", "c_expire", "d_clear",
                             "d_meta", "d_repo"}
      [] op = "list"     -> {"l_read"}
      [] op = "delete"   -> {"d_clear", "d_meta", "d_repo"}
      [] op = "restore"  -> {"e_has", "e_import", "e_nodes", "e_rels", "e_list",
                             "e_evict", "e_forget", "r_clear", "r_nodes",
                             "r_rels", "r_wnodes", "r_wrels"}
      [] op = "diff"     -> {"e_has", "e_import", "e_nodes", "e_rels", "e_list",
                             "e_evict", "e_forget", "diff"}
      [] op = "fullsync" -> {"f_clear", "f_collect", "f_nodes", "f_rels"}
      [] op = "upsert"   -> {"u_assemble", "u_nodes", "u_rels"}
      [] op = "delnodes" -> {"u_delete"}
      [] op = "delrels"  -> {"u_match", "u_drop"}
      [] op = "query"    -> {"q_read"}
      [] OTHER           -> {}

\* Where a call may still wait for its lock.
Entries == {"c_nodes", "l_read", "d_clear", "e_has", "f_clear", "u_assemble",
            "u_delete", "u_match", "q_read"}

\* Every goroutine serves one of its calls along that call's route, past the
\* first step with its lock, and only Diff has a second snapshot to load.
OnRoute ==
    \A p \in Procs :
        /\ pc[p] # "idle" => /\ job[p] \in Jobs[p]
                             /\ pc[p] \in Route(job[p].op) \cup {"ok", "err"}
        /\ pc[p] = "idle" => job[p] = IdleJob
        /\ pc[p] \notin Entries \cup {"idle"} => lk[p] = LockFor(job[p].op)
        /\ second[p] => job[p].op = "diff"

-----------------------------------------------------------------------------
(* What one step of goroutine p changes.                                    *)

\* The step is taken under the call's lock and leaves the entries of the
\* other goroutines alone.
Own(p) ==
    /\ pc[p] # "idle"
    /\ lk[p] = LockFor(job[p].op)
    /\ UNCHANGED <<lk, job>>
    /\ \A q \in Procs \ {p} : /\ pc'[q] = pc[q]
                              /\ buf'[q] = buf[q]
                              /\ todo'[q] = todo[q]
                              /\ queue'[q] = queue[q]
                              /\ second'[q] = second[q]

\* It goes on along the route of the call.
Along(p) ==
    /\ pc[p] \in Route(job[p].op) => pc'[p] \in Route(job[p].op) \cup {"ok", "err"}
    /\ pc'[p] # "idle"
    /\ (second[p] => job[p].op = "diff")
          => (pc[p] \in Route(job[p].op) => (second'[p] => job[p].op = "diff"))

\* Create moves its own goroutine, along its route.
LEMMA CreateOwn ==
  ASSUME TypeInv, NEW p \in Procs,
         \/ CreateReadNodes(p) \/ CreateReadRels(p)
         \/ CreateOpenFile(p) \/ CreateWriteMeta(p) \/ CreateWriteBody(p)
         \/ CreateWriteRest(p) \/ CreateCacheMeta(p)
         \/ CreateRepoMeta(p) \/ CreateExpire(p)
  PROVE  Own(p) /\ Along(p)
<1>1. CASE CreateReadNodes(p)
  BY <1>1 DEF CreateReadNodes, At, Goto, Own, Along, Route, managerVars,
     TypeInv, TypeOK
<1>2. CASE CreateReadRels(p)
  BY <1>2 DEF CreateReadRels, At, Goto, Own, Along, Route, managerVars,
     TypeInv, TypeOK
<1>3. CASE CreateOpenFile(p)
  BY <1>3 DEF CreateOpenFile, At, Goto, Own, Along, Route, managerVars,
     TypeInv, TypeOK
<1>4. CASE CreateWriteMeta(p)
  BY <1>4 DEF CreateWriteMeta, At, Goto, Own, Along, Route, managerVars,
     TypeInv, TypeOK
<1>5. CASE CreateWriteBody(p)
  BY <1>5 DEF CreateWriteBody, At, Goto, Own, Along, Route, managerVars,
     TypeInv, TypeOK
<1>6. CASE CreateWriteRest(p)
  BY <1>6 DEF CreateWriteRest, At, Goto, Own, Along, Route, managerVars,
     TypeInv, TypeOK
<1>7. CASE CreateCacheMeta(p)
  BY <1>7 DEF CreateCacheMeta, At, Goto, Own, Along, Route, managerVars,
     TypeInv, TypeOK
<1>8. CASE CreateRepoMeta(p)
  BY <1>8 DEF CreateRepoMeta, At, Goto, Own, Along, Route, managerVars,
     TypeInv, TypeOK
<1>9. CASE CreateExpire(p)
  BY <1>9 DEF CreateExpire, At, Goto, Own, Along, Route, managerVars,
     TypeInv, TypeOK
<1> QED
  BY <1>1, <1>2, <1>3, <1>4, <1>5, <1>6, <1>7, <1>8, <1>9

\* Delete moves its own goroutine, along its route.
LEMMA DeleteOwn ==
  ASSUME TypeInv, NEW p \in Procs,
         \/ DeleteClear(p) \/ DeleteSkip(p) \/ DeleteCacheMeta(p)
         \/ DeleteRepoMeta(p)
  PROVE  Own(p) /\ Along(p)
<1>1. CASE DeleteClear(p)
  BY <1>1 DEF DeleteClear, NextDoomed, At, Goto, Own, Along, Route,
     managerVars, TypeInv, TypeOK
<1>2. CASE DeleteSkip(p)
  BY <1>2 DEF DeleteSkip, NextDoomed, At, Goto, Own, Along, Route,
     managerVars, TypeInv, TypeOK
<1>3. CASE DeleteCacheMeta(p)
  BY <1>3 DEF DeleteCacheMeta, NextDoomed, At, Goto, Own, Along, Route,
     managerVars, TypeInv, TypeOK
<1>4. CASE DeleteRepoMeta(p)
  BY <1>4 DEF DeleteRepoMeta, NextDoomed, At, Goto, Own, Along, Route,
     managerVars, TypeInv, TypeOK
<1> QED
  BY <1>1, <1>2, <1>3, <1>4

\* ensureLoaded moves its own goroutine, along its route.
LEMMA LoadOwn ==
  ASSUME TypeInv, NEW p \in Procs,
         \/ LoadCheck(p) \/ LoadImport(p) \/ LoadNodes(p)
         \/ LoadRels(p)
  PROVE  Own(p) /\ Along(p)
<1>1. CASE LoadCheck(p)
  BY <1>1 DEF LoadCheck, LoadedNext, WriteNodes, WriteRels, At, Goto, Own,
     Along, Route, managerVars, TypeInv, TypeOK
<1>2. CASE LoadImport(p)
  BY <1>2 DEF LoadImport, LoadedNext, WriteNodes, WriteRels, At, Goto, Own,
     Along, Route, managerVars, TypeInv, TypeOK
<1>3. CASE LoadNodes(p)
  BY <1>3 DEF LoadNodes, LoadedNext, WriteNodes, WriteRels, At, Goto, Own,
     Along, Route, managerVars, TypeInv, TypeOK
<1>4. CASE LoadRels(p)
  BY <1>4 DEF LoadRels, LoadedNext, WriteNodes, WriteRels, At, Goto, Own,
     Along, Route, managerVars, TypeInv, TypeOK
<1> QED
  BY <1>1, <1>2, <1>3, <1>4

\* The cleanup moves its own goroutine, along its route.
LEMMA CleanupOwn ==
  ASSUME TypeInv, NEW p \in Procs,
         \/ CleanupList(p) \/ CleanupClear(p) \/ CleanupForget(p)
         \/ CleanupDone(p)
  PROVE  Own(p) /\ Along(p)
<1>1. CASE CleanupList(p)
  BY <1>1 DEF CleanupList, LoadedNext, At, Goto, Own, Along, Route,
     managerVars, TypeInv, TypeOK
<1>2. CASE CleanupClear(p)
  BY <1>2 DEF CleanupClear, LoadedNext, At, Goto, Own, Along, Route,
     managerVars, TypeInv, TypeOK
<1>3. CASE CleanupForget(p)
  BY <1>3 DEF CleanupForget, LoadedNext, At, Goto, Own, Along, Route,
     managerVars, TypeInv, TypeOK
<1>4. CASE CleanupDone(p)
  BY <1>4 DEF CleanupDone, LoadedNext, At, Goto, Own, Along, Route,
     managerVars, TypeInv, TypeOK
<1> QED
  BY <1>1, <1>2, <1>3, <1>4

\* Restore, Diff and List move their own goroutine, along its route.
LEMMA RestoreOwn ==
  ASSUME TypeInv, NEW p \in Procs,
         \/ RestoreClear(p) \/ CloneReadNodes(p) \/ CloneReadRels(p)
         \/ CloneWriteNodes(p) \/ CloneWriteRels(p) \/ DiffQueries(p)
         \/ List(p)
  PROVE  Own(p) /\ Along(p)
<1>1. CASE RestoreClear(p)
  BY <1>1 DEF RestoreClear, WriteNodes, WriteRels, At, Goto, Own, Along,
     Route, managerVars, TypeInv, TypeOK
<1>2. CASE CloneReadNodes(p)
  BY <1>2 DEF CloneReadNodes, WriteNodes, WriteRels, At, Goto, Own, Along,
     Route, managerVars, TypeInv, TypeOK
<1>3. CASE CloneReadRels(p)
  BY <1>3 DEF CloneReadRels, WriteNodes, WriteRels, At, Goto, Own, Along,
     Route, managerVars, TypeInv, TypeOK
<1>4. CASE CloneWriteNodes(p)
  BY <1>4 DEF CloneWriteNodes, WriteNodes, WriteRels, At, Goto, Own, Along,
     Route, managerVars, TypeInv, TypeOK
<1>5. CASE CloneWriteRels(p)
  BY <1>5 DEF CloneWriteRels, WriteNodes, WriteRels, At, Goto, Own, Along,
     Route, managerVars, TypeInv, TypeOK
<1>6. CASE DiffQueries(p)
  BY <1>6 DEF DiffQueries, WriteNodes, WriteRels, At, Goto, Own, Along,
     Route, managerVars, TypeInv, TypeOK
<1>7. CASE List(p)
  BY <1>7 DEF List, WriteNodes, WriteRels, At, Goto, Own, Along, Route,
     managerVars, TypeInv, TypeOK
<1> QED
  BY <1>1, <1>2, <1>3, <1>4, <1>5, <1>6, <1>7

\* The sync service moves its own goroutine, along its route.
LEMMA SyncOwn ==
  ASSUME TypeInv, NEW p \in Procs,
         \/ FullClear(p) \/ FullCollect(p) \/ FullNodes(p)
         \/ FullRels(p) \/ UpdateAssemble(p) \/ UpdateNodes(p)
         \/ UpdateRels(p) \/ DeleteNodes(p) \/ MatchRels(p)
         \/ DropMatched(p) \/ QueryTopology(p),
         UNCHANGED managerVars
  PROVE  Own(p) /\ Along(p)
<1>1. CASE FullClear(p)
  BY <1>1 DEF FullClear, WriteNodes, WriteRels, At, Goto, Own, Along, Route,
     managerVars, TypeInv, TypeOK
<1>2. CASE FullCollect(p)
  BY <1>2 DEF FullCollect, WriteNodes, WriteRels, At, Goto, Own, Along,
     Route, managerVars, TypeInv, TypeOK
<1>3. CASE FullNodes(p)
  BY <1>3 DEF FullNodes, WriteNodes, WriteRels, At, Goto, Own, Along, Route,
     managerVars, TypeInv, TypeOK
<1>4. CASE FullRels(p)
  BY <1>4 DEF FullRels, WriteNodes, WriteRels, At, Goto, Own, Along, Route,
     managerVars, TypeInv, TypeOK
<1>5. CASE UpdateAssemble(p)
  BY <1>5 DEF UpdateAssemble, WriteNodes, WriteRels, At, Goto, Own, Along,
     Route, managerVars, TypeInv, TypeOK
<1>6. CASE UpdateNodes(p)
  BY <1>6 DEF UpdateNodes, WriteNodes, WriteRels, At, Goto, Own, Along,
     Route, managerVars, TypeInv, TypeOK
<1>7. CASE UpdateRels(p)
  BY <1>7 DEF UpdateRels, WriteNodes, WriteRels, At, Goto, Own, Along,
     Route, managerVars, TypeInv, TypeOK
<1>8. CASE DeleteNodes(p)
  BY <1>8 DEF DeleteNodes, WriteNodes, WriteRels, At, Goto, Own, Along,
     Route, managerVars, TypeInv, TypeOK
<1>9. CASE MatchRels(p)
  BY <1>9 DEF MatchRels, WriteNodes, WriteRels, At, Goto, Own, Along, Route,
     managerVars, TypeInv, TypeOK
<1>10. CASE DropMatched(p)
  BY <1>10 DEF DropMatched, WriteNodes, WriteRels, At, Goto, Own, Along,
     Route, managerVars, TypeInv, TypeOK
<1>11. CASE QueryTopology(p)
  BY <1>11 DEF QueryTopology, WriteNodes, WriteRels, At, Goto, Own, Along,
     Route, managerVars, TypeInv, TypeOK
<1> QED
  BY <1>1, <1>2, <1>3, <1>4, <1>5, <1>6, <1>7, <1>8, <1>9, <1>10, <1>11

\* Every operation moves its own goroutine, along its route.
LEMMA StepOwn ==
  ASSUME TypeInv, NEW p \in Procs, Step(p)
  PROVE  Own(p) /\ Along(p)
<1>1. CASE ManagerStep(p)
  BY <1>1, CreateOwn, DeleteOwn, LoadOwn, CleanupOwn, RestoreOwn DEF ManagerStep
<1>2. CASE SyncStep(p) /\ UNCHANGED managerVars
  BY <1>2, SyncOwn DEF SyncStep
<1>3. CASE StatementFails(p) /\ UNCHANGED managerVars
  BY <1>3 DEF StatementFails, Fallible, At, Goto, Own, Along, managerVars,
     TypeInv, TypeOK
<1> QED
  BY <1>1, <1>2, <1>3 DEF Step

\* A goroutine past the entries is not one that waits for the lock.
LEMMA Settled ==
  ASSUME OnRoute, NEW p \in Procs, pc[p] \notin Entries \cup {"idle"}
  PROVE  lk[p] \in {"none", "read", "write"} /\ lk[p] = LockFor(job[p].op)
BY DEF OnRoute, LockFor

\* A step stays on the route of its operation.
LEMMA StepOnRoute ==
  ASSUME TypeInv, OnRoute, NEW p \in Procs, Step(p)
  PROVE  OnRoute'
<1>1. Own(p) /\ Along(p)
  BY StepOwn
<1>2. ASSUME NEW q \in Procs
      PROVE  /\ pc'[q] # "idle" => /\ job'[q] \in Jobs[q]
                                   /\ pc'[q] \in Route(job'[q].op) \cup {"ok", "err"}
             /\ pc'[q] = "idle" => job'[q] = IdleJob
             /\ pc'[q] \notin Entries \cup {"idle"} => lk'[q] = LockFor(job'[q].op)
             /\ second'[q] => job'[q].op = "diff"
  <2>1. lk' = lk /\ job' = job
    BY <1>1 DEF Own
  <2>2. CASE q = p
    <3>1. pc[p] # "idle" /\ pc[p] \in Route(job[p].op) \cup {"ok", "err"}
          /\ lk[p] = LockFor(job[p].op) /\ job[p] \in Jobs[p]
      BY <1>1 DEF Own, OnRoute
    <3>2. pc[p] \notin {"ok", "err"}
      BY DEF Step, ManagerStep, SyncStep, StatementFails, Fallible, At,
         CreateReadNodes, CreateReadRels, CreateOpenFile, CreateWriteMeta,
         CreateWriteBody, CreateWriteRest, CreateCacheMeta, CreateRepoMeta,
         CreateExpire, DeleteClear, DeleteSkip, DeleteCacheMeta, DeleteRepoMeta,
         LoadCheck, LoadImport, LoadNodes, LoadRels, CleanupList, CleanupClear,
         CleanupForget, CleanupDone, RestoreClear, CloneReadNodes, CloneReadRels,
         CloneWriteNodes, CloneWriteRels, DiffQueries, List, FullClear,
         FullCollect, FullNodes, FullRels, UpdateAssemble, UpdateNodes,
         UpdateRels, DeleteNodes, MatchRels, DropMatched, QueryTopology,
         WriteNodes, WriteRels
    <3>3. pc'[p] \in Route(job[p].op) \cup {"ok", "err"} /\ pc'[p] # "idle"
          /\ (second'[p] => job[p].op = "diff")
      BY <1>1, <3>1, <3>2 DEF Along, OnRoute
    <3> QED
      BY <2>1, <2>2, <3>1, <3>3
  <2>3. CASE q # p
    <3>1. pc'[q] = pc[q] /\ second'[q] = second[q]
      BY <1>1, <2>3 DEF Own
    <3> QED
      BY <2>1, <3>1 DEF OnRoute
  <2> QED
    BY <2>2, <2>3
<1> QED
  BY <1>2 DEF OnRoute

\* The first label of an operation is on its route.
LEMMA EntryOnRoute ==
  ASSUME NEW op \in Ops
  PROVE  Entry(op) \in Route(op) /\ Entry(op) \in Entries
BY DEF Entry, Route, Entries, Ops, WriteOps, ReadOps, FreeOps

\* A call starts at the first label of its operation.
LEMMA CallOnRoute ==
  ASSUME TypeInv, OnRoute, NEW p \in Procs, Call(p)
  PROVE  OnRoute'
<1>1. PICK j \in Jobs[p] : Start(p, j)
  BY DEF Call
<1>2. j.op \in Ops
  BY TwinAssumption, JobType
<1>3. /\ pc' = [pc EXCEPT ![p] = Entry(j.op)]
      /\ job' = [job EXCEPT ![p] = j]
      /\ second' = second
      /\ pc[p] = "idle"
      /\ \A q \in Procs \ {p} : lk'[q] = lk[q]
  BY <1>1 DEF Start, Goto, Call, managerVars, Lock, RLock, TypeInv, TypeOK
<1>4. job[p] = IdleJob /\ ~second[p]
  BY <1>3 DEF OnRoute, IdleJob
<1>5. Entry(j.op) \in Route(j.op) /\ Entry(j.op) \in Entries
  BY <1>2, EntryOnRoute
<1>6. pc'[p] = Entry(j.op) /\ job'[p] = j /\ Entry(j.op) # "idle"
  BY <1>3, <1>5 DEF TypeInv, TypeOK, Entries
<1>7. \A q \in Procs \ {p} : pc'[q] = pc[q] /\ job'[q] = job[q]
  BY <1>3 DEF TypeInv, TypeOK
<1> QED
  BY <1>3, <1>4, <1>5, <1>6, <1>7 DEF OnRoute

\* Taking and giving back the lock stays on the route.
LEMMA LockTurnOnRoute ==
  ASSUME TypeInv, OnRoute, NEW p \in Procs, LockTurn(p), UNCHANGED managerVars
  PROVE  OnRoute'
<1>1. lk[p] \in {"waitW", "drain"} /\ \A q \in Procs \ {p} : lk'[q] = lk[q]
  BY DEF LockTurn, Announce, EnterWrite, TypeInv, TypeOK
<1>2. UNCHANGED <<pc, job, second>>
  BY DEF LockTurn, localVars, managerVars
<1>3. pc[p] \in Entries \cup {"idle"}
  BY <1>1, Settled
<1> QED
  BY <1>1, <1>2, <1>3 DEF OnRoute

\* After its return a goroutine is on no route.
LEMMA FinishOnRoute ==
  ASSUME TypeInv, OnRoute, NEW p \in Procs, Finish(p)
  PROVE  OnRoute'
<1>1. /\ pc' = [pc EXCEPT ![p] = "idle"]
      /\ job' = [job EXCEPT ![p] = IdleJob]
      /\ second' = [second EXCEPT ![p] = FALSE]
  BY DEF Finish, Return, Goto
<1>2. \A q \in Procs \ {p} : lk[q] # "waitR" => lk'[q] = lk[q]
  BY DEF Finish, Return, Unlock, RUnlock, TypeInv, TypeOK
<1>3. pc'[p] = "idle" /\ job'[p] = IdleJob /\ ~second'[p]
  BY <1>1 DEF TypeInv, TypeOK
<1>4. \A q \in Procs \ {p} : pc'[q] = pc[q] /\ job'[q] = job[q] /\ second'[q] = second[q]
  BY <1>1 DEF TypeInv, TypeOK
<1>5. \A q \in Procs : pc[q] \notin Entries \cup {"idle"} => lk[q] # "waitR"
  BY Settled
<1> QED
  BY <1>2, <1>3, <1>4, <1>5 DEF OnRoute

\* All goroutines are idle at the start.
LEMMA InitOnRoute == Init => OnRoute
BY DEF Init, TwinInit, ManagerInit, OnRoute

\* All goroutines are idle after a restart.
LEMMA RestartOnRoute == Restart => OnRoute'
BY DEF Restart, OnRoute

\* Every step is one of a single goroutine, or a restart, or none.
Moves(p) == \/ Call(p)
            \/ LockTurn(p) /\ UNCHANGED managerVars
            \/ Step(p)
            \/ Finish(p)

\* Every step keeps the goroutines on their routes.
LEMMA NextOnRoute == TypeInv /\ OnRoute /\ [Next]_vars => OnRoute'
<1> SUFFICES ASSUME TypeInv, OnRoute, [Next]_vars PROVE OnRoute'
  OBVIOUS
<1>1. CASE \E p \in Procs : Moves(p)
  BY <1>1, StepOnRoute, CallOnRoute, LockTurnOnRoute, FinishOnRoute DEF Moves
<1>2. CASE Restart
  BY <1>2, RestartOnRoute
<1>3. CASE UNCHANGED vars
  BY <1>3 DEF vars, twinVars, localVars, managerVars, OnRoute
<1> QED
  BY <1>1, <1>2, <1>3 DEF Next, Moves

-----------------------------------------------------------------------------
(* List and the archives.                                                   *)

\* Metadata is recorded for complete files only, and no Create truncates one:
\* callers who are not careless never use a name twice.
Catalog ==
    /\ repo \subseteq WholeArchives
    /\ \A p \in Procs :
          /\ pc[p] \in CreateLabels => archive[job[p].a].st # "whole"
          /\ pc[p] \in {"c_meta", "c_repo"} => archive[job[p].a].st = "whole"
    /\ \A p, q \in Procs :
          job[p].op = "create" /\ job[q].op = "create" /\ job[p].a = job[q].a
             => p = q

RegisterLabels == CreateLabels \cup {"c_meta", "c_repo"}

\* Only Create registers a snapshot.
LEMMA RegisterOp ==
  ASSUME OnRoute, NEW p \in Procs, pc[p] \in RegisterLabels
  PROVE  job[p].op = "create"
BY DEF OnRoute, RegisterLabels, CreateLabels, Route

\* Outside the export and the recording of metadata no step adds to the
\* archives or to the repository.
LEMMA OutsideCatalog ==
  ASSUME TypeInv, NEW p \in Procs, Step(p), pc[p] \notin RegisterLabels
  PROVE  archive' = archive /\ repo' \subseteq repo /\ pc'[p] \notin RegisterLabels
<1>1. CASE \/ CreateReadNodes(p) \/ CreateReadRels(p) \/ CreateOpenFile(p)
           \/ CreateWriteMeta(p) \/ CreateWriteBody(p) \/ CreateWriteRest(p)
           \/ CreateCacheMeta(p) \/ CreateRepoMeta(p)
  BY <1>1 DEF CreateReadNodes, CreateReadRels, CreateOpenFile, CreateWriteMeta,
     CreateWriteBody, CreateWriteRest, CreateCacheMeta, CreateRepoMeta, At,
     RegisterLabels, CreateLabels
<1>2. CASE CreateExpire(p)
  BY <1>2 DEF CreateExpire, Goto, RegisterLabels, CreateLabels, TypeInv, TypeOK
<1>3. CASE \/ DeleteClear(p) \/ DeleteSkip(p) \/ DeleteCacheMeta(p)
           \/ DeleteRepoMeta(p)
  <2>1. pc'[p] \in {"ok", "d_clear", "d_meta", "d_repo"}
    BY <1>3 DEF DeleteClear, DeleteSkip, DeleteCacheMeta, DeleteRepoMeta,
       NextDoomed, Goto, TypeInv, TypeOK
  <2>2. archive' = archive /\ repo' \subseteq repo
    BY <1>3 DEF DeleteClear, DeleteSkip, DeleteCacheMeta, DeleteRepoMeta,
       managerVars
  <2> QED
    BY <2>1, <2>2 DEF RegisterLabels, CreateLabels
<1>4. CASE LoadCheck(p) \/ LoadImport(p) \/ LoadNodes(p) \/ LoadRels(p)
  <2>1. pc'[p] \in {"r_clear", "diff", "e_has", "e_import", "e_nodes", "err",
                    "e_rels", "e_list"}
    BY <1>4 DEF LoadCheck, LoadImport, LoadNodes, LoadRels, LoadedNext,
       WriteNodes, WriteRels, At, Goto, TypeInv, TypeOK
  <2>2. archive' = archive /\ repo' = repo
    BY <1>4 DEF LoadCheck, LoadImport, LoadNodes, LoadRels, managerVars
  <2> QED
    BY <2>1, <2>2 DEF RegisterLabels, CreateLabels
<1>5. CASE \/ CleanupList(p) \/ CleanupClear(p) \/ CleanupForget(p)
           \/ CleanupDone(p)
  <2>1. pc'[p] \in {"r_clear", "diff", "e_has", "e_evict", "e_forget"}
    BY <1>5 DEF CleanupList, CleanupClear, CleanupForget, CleanupDone,
       LoadedNext, At, Goto, TypeInv, TypeOK
  <2>2. archive' = archive /\ repo' = repo
    BY <1>5 DEF CleanupList, CleanupClear, CleanupForget, CleanupDone
  <2> QED
    BY <2>1, <2>2 DEF RegisterLabels, CreateLabels
<1>6. CASE \/ RestoreClear(p) \/ CloneReadNodes(p) \/ CloneReadRels(p)
           \/ CloneWriteNodes(p) \/ CloneWriteRels(p) \/ DiffQueries(p)
           \/ List(p)
  <2>1. pc'[p] \in {"r_nodes", "r_rels", "r_wnodes", "r_wrels", "ok", "err"}
    BY <1>6 DEF RestoreClear, CloneReadNodes, CloneReadRels, CloneWriteNodes,
       CloneWriteRels, DiffQueries, List, WriteNodes, WriteRels, At, Goto,
       TypeInv, TypeOK
  <2>2. archive' = archive /\ repo' = repo
    BY <1>6 DEF RestoreClear, CloneReadNodes, CloneReadRels, CloneWriteNodes,
       CloneWriteRels, DiffQueries, List, managerVars
  <2> QED
    BY <2>1, <2>2 DEF RegisterLabels, CreateLabels
<1>7. CASE SyncStep(p) /\ UNCHANGED managerVars
  <2>1. pc'[p] \in {"f_collect", "f_nodes", "f_rels", "u_nodes", "u_rels",
                    "u_drop", "ok"}
    BY <1>7 DEF SyncStep, FullClear, FullCollect, FullNodes, FullRels,
       UpdateAssemble, UpdateNodes, UpdateRels, DeleteNodes, MatchRels,
       DropMatched, QueryTopology, WriteNodes, WriteRels, At, Goto, TypeInv,
       TypeOK
  <2> QED
    BY <1>7, <2>1 DEF RegisterLabels, CreateLabels, managerVars
<1>8. CASE StatementFails(p) /\ UNCHANGED managerVars
  BY <1>8 DEF StatementFails, Goto, RegisterLabels, CreateLabels, managerVars,
     TypeInv, TypeOK
<1> QED
  BY <1>1, <1>2, <1>3, <1>4, <1>5, <1>6, <1>7, <1>8 DEF Step, ManagerStep

\* The steps of the export and of the recording.
LEMMA InsideCatalog ==
  ASSUME TypeInv, OnRoute, NEW p \in Procs, Step(p), pc[p] \in RegisterLabels
  PROVE  LET s == job[p].a IN
         /\ \A t \in Snaps \ {s} : archive'[t] = archive[t]
         /\ pc'[p] \in CreateLabels
               => pc[p] \in CreateLabels /\ (archive[s].st # "whole" => archive'[s].st # "whole")
         /\ pc'[p] \in {"c_meta", "c_repo"} /\ pc[p] \in CreateLabels
               => archive'[s].st = "whole"
         /\ pc[p] \in {"c_meta", "c_repo"} => archive' = archive
         /\ pc[p] \in CreateLabels => repo' = repo
         /\ repo' \subseteq repo \cup {s}
<1>1. job[p].op = "create" /\ job[p].a \in Snaps
  BY RegisterOp, NamesType DEF RegisterLabels, CreateLabels
<1>2. \/ CreateReadNodes(p) \/ CreateReadRels(p) \/ CreateOpenFile(p)
      \/ CreateWriteMeta(p) \/ CreateWriteBody(p) \/ CreateWriteRest(p)
      \/ CreateCacheMeta(p) \/ CreateRepoMeta(p)
      \/ StatementFails(p) /\ UNCHANGED managerVars
  BY DEF Step, ManagerStep, SyncStep, At, RegisterLabels, CreateLabels,
     CreateExpire, DeleteClear, DeleteSkip, DeleteCacheMeta, DeleteRepoMeta,
     LoadCheck, LoadImport, LoadNodes, LoadRels, CleanupList, CleanupClear,
     CleanupForget, CleanupDone, RestoreClear, CloneReadNodes, CloneReadRels,
     CloneWriteNodes, CloneWriteRels, DiffQueries, List, FullClear,
     FullCollect, FullNodes, FullRels, UpdateAssemble, UpdateNodes,
     UpdateRels, DeleteNodes, MatchRels, DropMatched, QueryTopology,
     WriteNodes, WriteRels
<1>3. CASE CreateReadNodes(p) \/ CreateReadRels(p)
  BY <1>3 DEF CreateReadNodes, CreateReadRels, At, Goto, CreateLabels,
     managerVars, TypeInv, TypeOK
<1>4. CASE CreateOpenFile(p)
  BY <1>1, <1>4 DEF CreateOpenFile, At, Goto, CreateLabels, TypeInv, TypeOK
<1>5. CASE CreateWriteMeta(p)
  BY <1>1, <1>5 DEF CreateWriteMeta, At, Goto, CreateLabels, Archive, TypeInv, TypeOK
<1>6. CASE CreateWriteBody(p)
  BY <1>1, <1>6 DEF CreateWriteBody, At, Goto, CreateLabels, TypeInv, TypeOK
<1>7. CASE CreateWriteRest(p)
  BY <1>1, <1>7 DEF CreateWriteRest, At, Goto, CreateLabels, TypeInv, TypeOK
<1>8. CASE CreateCacheMeta(p)
  BY <1>8 DEF CreateCacheMeta, At, Goto, CreateLabels, TypeInv, TypeOK
<1>9. CASE CreateRepoMeta(p)
  BY <1>9 DEF CreateRepoMeta, At, Goto, CreateLabels, TypeInv, TypeOK
<1>10. CASE StatementFails(p) /\ UNCHANGED managerVars
  BY <1>10 DEF StatementFails, Goto, CreateLabels, managerVars, TypeInv, TypeOK
<1> QED
  BY <1>2, <1>3, <1>4, <1>5, <1>6, <1>7, <1>8, <1>9, <1>10
\* Every step of an operation keeps what is listed restorable.
LEMMA StepCatalog ==
  ASSUME TypeInv, OnRoute, Catalog, NEW p \in Procs, Step(p)
  PROVE  Catalog'
<1>1. Own(p) /\ OnRoute'
  BY StepOwn, StepOnRoute
<1>2. job' = job /\ \A q \in Procs \ {p} : pc'[q] = pc[q]
  BY <1>1 DEF Own
<1>3. CASE pc[p] \notin RegisterLabels
  <2>1. archive' = archive /\ repo' \subseteq repo /\ pc'[p] \notin RegisterLabels
    BY <1>3, OutsideCatalog
  <2> QED
    BY <1>2, <2>1 DEF Catalog, WholeArchives, RegisterLabels
<1>4. CASE pc[p] \in RegisterLabels
  <2> DEFINE s == job[p].a
  <2>1. job[p].op = "create" /\ s \in Snaps
    BY <1>4, RegisterOp, NamesType DEF RegisterLabels, CreateLabels
  <2>2. /\ \A t \in Snaps \ {s} : archive'[t] = archive[t]
        /\ pc'[p] \in CreateLabels
              => pc[p] \in CreateLabels
                 /\ (archive[s].st # "whole" => archive'[s].st # "whole")
        /\ pc'[p] \in {"c_meta", "c_repo"} /\ pc[p] \in CreateLabels
              => archive'[s].st = "whole"
        /\ pc[p] \in {"c_meta", "c_repo"} => archive' = archive
        /\ pc[p] \in CreateLabels => repo' = repo
        /\ repo' \subseteq repo \cup {s}
    BY <1>4, InsideCatalog
  <2>3. repo' \subseteq Snaps
    BY NextType DEF Next, TypeInv, TypeOK
  <2>4. repo' \subseteq WholeArchives'
    <3>1. CASE pc[p] \in CreateLabels
      <4>1. archive[s].st # "whole" /\ s \notin repo
        BY <3>1, <2>1 DEF Catalog, WholeArchives
      <4> QED
        BY <2>2, <3>1, <4>1 DEF Catalog, WholeArchives
    <3>2. CASE pc[p] \in {"c_meta", "c_repo"}
      <4>1. archive[s].st = "whole"
        BY <3>2 DEF Catalog
      <4> QED
        BY <2>1, <2>2, <3>2, <4>1 DEF Catalog, WholeArchives
    <3> QED
      BY <1>4, <3>1, <3>2 DEF RegisterLabels
  <2>5. /\ pc'[p] \in CreateLabels => archive'[s].st # "whole"
        /\ pc'[p] \in {"c_meta", "c_repo"} => archive'[s].st = "whole"
    BY <1>4, <2>2 DEF Catalog, RegisterLabels
  <2>6. ASSUME NEW q \in Procs, q # p, pc[q] \in RegisterLabels
        PROVE  archive'[job[q].a] = archive[job[q].a]
    <3>1. job[q].op = "create" /\ job[q].a \in Snaps
      BY <2>6, RegisterOp, NamesType DEF RegisterLabels, CreateLabels
    <3>2. job[q].a # s
      BY <2>1, <2>6, <3>1 DEF Catalog
    <3> QED
      BY <2>2, <3>1, <3>2
  <2> QED
    BY <1>2, <2>4, <2>5, <2>6 DEF Catalog, RegisterLabels
<1> QED
  BY <1>3, <1>4

\* So does a call, of callers that do not create and delete one name at once.
LEMMA CallCatalog ==
  ASSUME TypeInv, OnRoute, Catalog, ~Careless, NEW p \in Procs, Call(p)
  PROVE  Catalog'
<1>1. PICK j \in Jobs[p] : Careful(j) /\ Start(p, j)
  BY DEF Call
<1>2. j.op \in Ops
  BY TwinAssumption, JobType
<1>3. /\ pc' = [pc EXCEPT ![p] = Entry(j.op)]
      /\ job' = [job EXCEPT ![p] = j]
      /\ archive' = archive /\ repo' = repo
  BY <1>1 DEF Start, Goto, Call, managerVars
<1>4. /\ pc'[p] = Entry(j.op) /\ job'[p] = j
      /\ \A q \in Procs \ {p} : pc'[q] = pc[q] /\ job'[q] = job[q]
  BY <1>3 DEF TypeInv, TypeOK
<1>5. /\ Entry(j.op) \in CreateLabels => j.op = "create"
      /\ Entry(j.op) \notin {"c_meta", "c_repo"}
  BY <1>2 DEF Entry, Ops, WriteOps, ReadOps, FreeOps, CreateLabels
<1>6. j.op = "create" =>
        /\ archive[j.a].st = "none"
        /\ \A q \in Procs : ~(job[q].op = "create" /\ job[q].a = j.a)
  BY <1>1 DEF Careful
<1>7. ASSUME NEW x \in Procs, NEW y \in Procs, job'[x].op = "create",
             job'[y].op = "create", job'[x].a = job'[y].a
      PROVE  x = y
  <2>1. CASE x = p /\ y # p
    BY <1>4, <1>6, <1>7, <2>1
  <2>2. CASE x # p /\ y = p
    BY <1>4, <1>6, <1>7, <2>2
  <2>3. CASE x # p /\ y # p
    BY <1>4, <1>7, <2>3 DEF Catalog
  <2> QED
    BY <2>1, <2>2, <2>3
<1>8. ASSUME NEW q \in Procs
      PROVE  /\ pc'[q] \in CreateLabels => archive'[job'[q].a].st # "whole"
             /\ pc'[q] \in {"c_meta", "c_repo"} => archive'[job'[q].a].st = "whole"
  <2>1. CASE q = p
    BY <1>3, <1>4, <1>5, <1>6, <2>1
  <2>2. CASE q # p
    BY <1>3, <1>4, <2>2 DEF Catalog
  <2> QED
    BY <2>1, <2>2
<1>9. repo' \subseteq WholeArchives'
  BY <1>3 DEF Catalog, WholeArchives
<1> QED
  BY <1>7, <1>8, <1>9 DEF Catalog

\* So do the lock, a return and a restart.
LEMMA OtherCatalog ==
  ASSUME TypeInv, Catalog,
         \/ \E p \in Procs : LockTurn(p) /\ UNCHANGED managerVars
         \/ \E p \in Procs : Finish(p)
         \/ Restart
         \/ UNCHANGED vars
  PROVE  Catalog'
<1>1. CASE \/ \E p \in Procs : LockTurn(p) /\ UNCHANGED managerVars
           \/ UNCHANGED vars
  BY <1>1 DEF LockTurn, localVars, managerVars, vars, twinVars, Catalog, WholeArchives
<1>2. ASSUME NEW p \in Procs, Finish(p)
      PROVE  Catalog'
  <2>1. /\ pc' = [pc EXCEPT ![p] = "idle"]
        /\ job' = [job EXCEPT ![p] = IdleJob]
        /\ archive' = archive /\ repo' = repo
    BY <1>2 DEF Finish, Return, Goto
  <2>2. /\ pc'[p] = "idle" /\ job'[p].op = "none"
        /\ \A q \in Procs \ {p} : pc'[q] = pc[q] /\ job'[q] = job[q]
    BY <2>1 DEF TypeInv, TypeOK, IdleJob
  <2> QED
    BY <2>1, <2>2 DEF Catalog, WholeArchives, CreateLabels
<1>3. CASE Restart
  BY <1>3 DEF Restart, IdleJob, Catalog, WholeArchives, CreateLabels
<1> QED
  BY <1>1, <1>2, <1>3

\* The inductive invariant of the catalog.
CatalogInv == TypeInv /\ OnRoute /\ Catalog

\* Nothing is listed at the start.
LEMMA InitCatalog == Init => CatalogInv
<1> SUFFICES ASSUME Init PROVE CatalogInv
  OBVIOUS
<1>1. Catalog
  BY DEF Init, TwinInit, ManagerInit, IdleJob, Catalog, WholeArchives, CreateLabels
<1> QED
  BY <1>1, InitType, InitOnRoute DEF CatalogInv

\* Every step keeps the invariant of the catalog.
LEMMA NextCatalog ==
  ASSUME ~Careless
  PROVE  CatalogInv /\ [Next]_vars => CatalogInv'
<1> SUFFICES ASSUME CatalogInv, [Next]_vars PROVE CatalogInv'
  OBVIOUS
<1>1. TypeInv' /\ OnRoute'
  BY NextType, NextOnRoute DEF CatalogInv
<1>2. Catalog'
  BY StepCatalog, CallCatalog, OtherCatalog DEF CatalogInv, Next
<1> QED
  BY <1>1, <1>2 DEF CatalogInv

\* What List falls back on: a cached name has a file with readable metadata,
\* because no Create opens a file that was there before.
OpenLabels == {"c_nodes", "c_rels", "c_open"}

Readable ==
    /\ metaCache \subseteq WithMeta
    /\ \A p \in Procs : pc[p] \in OpenLabels => archive[job[p].a].st = "none"

\* Names come into the cache from a scan, or from the Create of a whole file.
LEMMA CacheGrows ==
  ASSUME TypeInv, NEW p \in Procs, Step(p)
  PROVE  IF pc[p] = "c_meta" THEN metaCache' \subseteq metaCache \cup {job[p].a}
         ELSE metaCache' \subseteq metaCache \cup WithMeta
<1>1. CASE \/ CreateReadNodes(p) \/ CreateReadRels(p) \/ CreateOpenFile(p)
           \/ CreateWriteMeta(p) \/ CreateWriteBody(p) \/ CreateWriteRest(p)
           \/ CreateRepoMeta(p) \/ CreateExpire(p)
  BY <1>1 DEF CreateReadNodes, CreateReadRels, CreateOpenFile, CreateWriteMeta,
     CreateWriteBody, CreateWriteRest, CreateRepoMeta, CreateExpire, managerVars
<1>2. CASE CreateCacheMeta(p)
  BY <1>2 DEF CreateCacheMeta, At
<1>3. CASE \/ DeleteClear(p) \/ DeleteSkip(p) \/ DeleteCacheMeta(p)
           \/ DeleteRepoMeta(p)
  BY <1>3 DEF DeleteClear, DeleteSkip, DeleteCacheMeta, DeleteRepoMeta, managerVars
<1>4. CASE \/ LoadCheck(p) \/ LoadImport(p) \/ LoadNodes(p) \/ LoadRels(p)
           \/ CleanupList(p) \/ CleanupClear(p) \/ CleanupForget(p) \/ CleanupDone(p)
  BY <1>4 DEF LoadCheck, LoadImport, LoadNodes, LoadRels, CleanupList, CleanupClear,
     CleanupForget, CleanupDone, managerVars
<1>5. CASE \/ RestoreClear(p) \/ CloneReadNodes(p) \/ CloneReadRels(p)
           \/ CloneWriteNodes(p) \/ CloneWriteRels(p) \/ DiffQueries(p)
  BY <1>5 DEF RestoreClear, CloneReadNodes, CloneReadRels, CloneWriteNodes,
     CloneWriteRels, DiffQueries, managerVars
<1>6. CASE List(p)
  BY <1>6 DEF List, At
<1>7. CASE (SyncStep(p) \/ StatementFails(p)) /\ UNCHANGED managerVars
  BY <1>7 DEF managerVars
<1> QED
  BY <1>1, <1>2, <1>3, <1>4, <1>5, <1>6, <1>7 DEF Step, ManagerStep

\* A file keeps its metadata while a Create that has opened it goes on.
LEMMA MetaStays ==
  ASSUME TypeInv, OnRoute, NEW p \in Procs, Step(p), pc[p] \in RegisterLabels,
         pc[p] \in OpenLabels => archive[job[p].a].st = "none"
  PROVE  /\ WithMeta \subseteq WithMeta'
         /\ pc'[p] \in OpenLabels => archive' = archive /\ pc[p] \in OpenLabels
<1>1. job[p].op = "create" /\ job[p].a \in Snaps
  BY RegisterOp, NamesType DEF RegisterLabels, CreateLabels
<1>2. \/ CreateReadNodes(p) \/ CreateReadRels(p) \/ CreateOpenFile(p)
      \/ CreateWriteMeta(p) \/ CreateWriteBody(p) \/ CreateWriteRest(p)
      \/ CreateCacheMeta(p) \/ CreateRepoMeta(p)
      \/ StatementFails(p) /\ UNCHANGED managerVars
  BY DEF Step, ManagerStep, SyncStep, At, RegisterLabels, CreateLabels,
     CreateExpire, DeleteClear, DeleteSkip, DeleteCacheMeta, DeleteRepoMeta,
     LoadCheck, LoadImport, LoadNodes, LoadRels, CleanupList, CleanupClear,
     CleanupForget, CleanupDone, RestoreClear, CloneReadNodes, CloneReadRels,
     CloneWriteNodes, CloneWriteRels, DiffQueries, List, FullClear,
     FullCollect, FullNodes, FullRels, UpdateAssemble, UpdateNodes,
     UpdateRels, DeleteNodes, MatchRels, DropMatched, QueryTopology,
     WriteNodes, WriteRels
<1>3. CASE CreateReadNodes(p) \/ CreateReadRels(p)
  BY <1>3 DEF CreateReadNodes, CreateReadRels, At, Goto, OpenLabels, WithMeta,
     managerVars, TypeInv, TypeOK
<1>4. CASE CreateOpenFile(p)
  BY <1>1, <1>4 DEF CreateOpenFile, At, Goto, OpenLabels, WithMeta, TypeInv, TypeOK
<1>5. CASE CreateWriteMeta(p)
  BY <1>1, <1>5 DEF CreateWriteMeta, At, Goto, OpenLabels, WithMeta, Archive, TypeInv, TypeOK
<1>6. CASE CreateWriteBody(p)
  BY <1>1, <1>6 DEF CreateWriteBody, At, Goto, OpenLabels, WithMeta, TypeInv, TypeOK
<1>7. CASE CreateWriteRest(p)
  BY <1>1, <1>7 DEF CreateWriteRest, At, Goto, OpenLabels, WithMeta, TypeInv, TypeOK
<1>8. CASE CreateCacheMeta(p) \/ CreateRepoMeta(p)
  BY <1>8 DEF CreateCacheMeta, CreateRepoMeta, At, Goto, OpenLabels, WithMeta, TypeInv, TypeOK
<1>9. CASE StatementFails(p) /\ UNCHANGED managerVars
  BY <1>9 DEF StatementFails, Goto, OpenLabels, WithMeta, managerVars, TypeInv, TypeOK
<1> QED
  BY <1>2, <1>3, <1>4, <1>5, <1>6, <1>7, <1>8, <1>9

\* Every step of an operation keeps the cached names readable.
LEMMA StepReadable ==
  ASSUME TypeInv, OnRoute, Catalog, Readable, NEW p \in Procs, Step(p)
  PROVE  Readable'
<1>1. job' = job /\ \A q \in Procs \ {p} : pc'[q] = pc[q]
  BY StepOwn DEF Own
<1>2. IF pc[p] = "c_meta" THEN metaCache' \subseteq metaCache \cup {job[p].a}
      ELSE metaCache' \subseteq metaCache \cup WithMeta
  BY CacheGrows
<1>3. CASE pc[p] \notin RegisterLabels
  <2>1. archive' = archive /\ pc'[p] \notin RegisterLabels
    BY <1>3, OutsideCatalog
  <2>2. pc[p] # "c_meta" /\ pc'[p] \notin OpenLabels
    BY <1>3, <2>1 DEF RegisterLabels, CreateLabels, OpenLabels
  <2>3. metaCache' \subseteq WithMeta'
    BY <1>2, <2>1, <2>2 DEF Readable, WithMeta
  <2> QED
    BY <1>1, <2>1, <2>2, <2>3 DEF Readable
<1>4. CASE pc[p] \in RegisterLabels
  <2> DEFINE s == job[p].a
  <2>1. job[p].op = "create" /\ s \in Snaps
    BY <1>4, RegisterOp, NamesType DEF RegisterLabels, CreateLabels
  <2>2. \A t \in Snaps \ {s} : archive'[t] = archive[t]
    BY <1>4, InsideCatalog
  <2>3. /\ WithMeta \subseteq WithMeta'
        /\ pc'[p] \in OpenLabels => archive' = archive /\ pc[p] \in OpenLabels
    BY <1>4, MetaStays DEF Readable
  <2>4. pc[p] = "c_meta" => s \in WithMeta
    BY <2>1 DEF Catalog, WithMeta
  <2>5. metaCache' \subseteq WithMeta'
    BY <1>2, <2>3, <2>4 DEF Readable
  <2>6. ASSUME NEW q \in Procs, q # p, pc[q] \in OpenLabels
        PROVE  archive'[job[q].a] = archive[job[q].a]
    <3>1. pc[q] \in RegisterLabels
      BY <2>6 DEF RegisterLabels, CreateLabels, OpenLabels
    <3>2. job[q].op = "create" /\ job[q].a \in Snaps
      BY <3>1, RegisterOp, NamesType DEF RegisterLabels, CreateLabels
    <3>3. job[q].a # s
      BY <2>1, <2>6, <3>2 DEF Catalog
    <3> QED
      BY <2>2, <3>2, <3>3
  <2>7. ASSUME NEW q \in Procs, pc'[q] \in OpenLabels
        PROVE  archive'[job[q].a].st = "none"
    BY <1>1, <2>3, <2>6, <2>7 DEF Readable
  <2> QED
    BY <1>1, <2>5, <2>7 DEF Readable
<1> QED
  BY <1>3, <1>4

\* So do calls, returns, the lock and a restart.
LEMMA OtherReadable ==
  ASSUME TypeInv, Readable,
         \/ ~Careless /\ \E p \in Procs : Call(p)
         \/ \E p \in Procs : LockTurn(p) /\ UNCHANGED managerVars
         \/ \E p \in Procs : Finish(p)
         \/ Restart
         \/ UNCHANGED vars
  PROVE  Readable'
<1>1. CASE \/ \E p \in Procs : LockTurn(p) /\ UNCHANGED managerVars
           \/ UNCHANGED vars
  BY <1>1 DEF LockTurn, localVars, managerVars, vars, twinVars, Readable, WithMeta
<1>2. ASSUME NEW p \in Procs, Finish(p)
      PROVE  Readable'
  <2>1. /\ pc' = [pc EXCEPT ![p] = "idle"]
        /\ job' = [job EXCEPT ![p] = IdleJob]
        /\ archive' = archive /\ metaCache' = metaCache
    BY <1>2 DEF Finish, Return, Goto
  <2>2. /\ pc'[p] = "idle"
        /\ \A q \in Procs \ {p} : pc'[q] = pc[q] /\ job'[q] = job[q]
    BY <2>1 DEF TypeInv, TypeOK
  <2> QED
    BY <2>1, <2>2 DEF Readable, WithMeta, OpenLabels
<1>3. CASE Restart
  BY <1>3 DEF Restart, Readable, WithMeta, OpenLabels
<1>4. ASSUME ~Careless, NEW p \in Procs, Call(p)
      PROVE  Readable'
  <2>1. PICK j \in Jobs[p] : Careful(j) /\ Start(p, j)
    BY <1>4 DEF Call
  <2>2. /\ pc' = [pc EXCEPT ![p] = Entry(j.op)]
        /\ job' = [job EXCEPT ![p] = j]
        /\ archive' = archive /\ metaCache' = metaCache
    BY <1>4, <2>1 DEF Start, Goto, Call, managerVars
  <2>3. /\ pc'[p] = Entry(j.op) /\ job'[p] = j
        /\ \A q \in Procs \ {p} : pc'[q] = pc[q] /\ job'[q] = job[q]
    BY <2>2 DEF TypeInv, TypeOK
  <2>4. j.op \in Ops
    BY TwinAssumption, JobType
  <2>5. Entry(j.op) \in OpenLabels => j.op = "create"
    BY <2>4 DEF Entry, Ops, WriteOps, ReadOps, FreeOps, OpenLabels
  <2>6. j.op = "create" => archive[j.a].st = "none"
    BY <2>1 DEF Careful
  <2>7. ASSUME NEW q \in Procs, pc'[q] \in OpenLabels
        PROVE  archive'[job'[q].a].st = "none"
    BY <2>2, <2>3, <2>5, <2>6, <2>7 DEF Readable
  <2> QED
    BY <2>2, <2>7 DEF Readable, WithMeta
<1> QED
  BY <1>1, <1>2, <1>3, <1>4

\* Spec => []ListRestorable, with or without a repository, when the callers do
\* not reuse names: whichever statement or file access failed, wherever the
\* process stopped, and however Create, Delete and retention overlapped, the
\* repository has complete archives only (Create records metadata last,
\* manager.go), and what List gives without it has readable metadata.
THEOREM ListedIsRestorable ==
  ASSUME ~Careless
  PROVE  Spec => []ListRestorable
<1> DEFINE ListInv == CatalogInv /\ Readable
<1>1. ListInv => ListRestorable
  <2> SUFFICES ASSUME CatalogInv, Readable PROVE ListRestorable
    OBVIOUS
  <2>1. repo \subseteq WholeArchives
    BY DEF CatalogInv, Catalog
  <2>2. WholeArchives \subseteq WithMeta
    BY DEF WholeArchives, WithMeta
  <2>3. ASSUME NEW names \in ListAnswers PROVE names \subseteq WithMeta
    BY <2>1, <2>2, <2>3 DEF ListAnswers, Readable
  <2> QED
    BY <2>1, <2>3 DEF ListRestorable
<1>2. Init => ListInv
  <2>1. Init => Readable
    BY DEF Init, TwinInit, ManagerInit, Readable, OpenLabels
  <2> QED
    BY <2>1, InitCatalog
<1>3. ListInv /\ [Next]_vars => ListInv'
  <2> SUFFICES ASSUME CatalogInv, Readable, [Next]_vars PROVE Readable'
    BY NextCatalog
  <2> QED
    BY StepReadable, OtherReadable DEF CatalogInv, Next
<1>4. QED
  BY <1>1, <1>2, <1>3, PTL DEF Spec

-----------------------------------------------------------------------------
(* The LRU cleanup.                                                         *)

Pending(q) == {q[i] : i \in DOMAIN q}

\* The databases a goroutine inside EnsureLoaded still answers for: the one
\* it has loaded until its cleanup has counted, then those it is to evict.
Owes(p) ==
    CASE pc[p] \in {"e_nodes", "e_rels", "e_list"} -> {Loading(p)}
      [] pc[p] = "e_evict"  -> Pending(queue[p])
      [] pc[p] = "e_forget" -> Pending(Tail(queue[p]))
      [] OTHER -> {}

OweLabels == {"e_nodes", "e_rels", "e_list", "e_evict", "e_forget"}

\* The loaded databases nobody answers for never exceed the bound.
Kept  == {s \in Loaded : \A p \in Procs : s \notin Owes(p)}
Bound == Cardinality(Kept) <= MaxActive

\* The loaded snapshots are finitely many.
LEMMA KeptFinite ==
  /\ IsFiniteSet(Loaded) /\ IsFiniteSet(Kept)
  /\ Cardinality(Loaded) \in Nat /\ Cardinality(Kept) \in Nat
<1>1. Loaded \subseteq Snaps /\ Kept \subseteq Snaps
  BY DEF Loaded, Kept
<1> QED
  BY <1>1, TwinAssumption, FS_Subset, FS_CardinalityType

\* They are after a step.
LEMMA KeptFiniteNext ==
  /\ IsFiniteSet(Loaded') /\ IsFiniteSet(Kept')
  /\ Cardinality(Loaded') \in Nat /\ Cardinality(Kept') \in Nat
<1>1. Loaded' \subseteq Snaps /\ Kept' \subseteq Snaps
  BY DEF Loaded, Kept
<1> QED
  BY <1>1, TwinAssumption, FS_Subset, FS_CardinalityType

\* The bound outlives a step after which no more is to be kept.
LEMMA BoundShrinks ==
  ASSUME Bound, Kept' \subseteq Kept
  PROVE  Bound'
<1>1. Cardinality(Kept') <= Cardinality(Kept)
  BY KeptFinite, FS_Subset
<1>2. MaxActive \in Nat
  BY ManagerAssumption
<1> QED
  BY <1>1, <1>2, KeptFinite, KeptFiniteNext DEF Bound

\* What is left to evict, and the one being evicted.
LEMMA PopPending ==
  ASSUME NEW S, NEW q \in Seq(S), q # <<>>
  PROVE  Pending(q) = {Head(q)} \cup Pending(Tail(q))
<1>1. /\ Len(q) \in Nat \ {0} /\ Head(q) = q[1]
      /\ DOMAIN Tail(q) = 1 .. (Len(q) - 1)
      /\ \A i \in 1 .. (Len(q) - 1) : Tail(q)[i] = q[i + 1]
      /\ DOMAIN q = 1 .. Len(q)
  OBVIOUS
<1>2. Pending(q) \subseteq {Head(q)} \cup Pending(Tail(q))
  <2> SUFFICES ASSUME NEW i \in 1 .. Len(q), i # 1
               PROVE  q[i] \in Pending(Tail(q))
    BY <1>1 DEF Pending
  <2>1. i - 1 \in 1 .. (Len(q) - 1) /\ Tail(q)[i - 1] = q[i]
    BY <1>1
  <2> QED
    BY <1>1, <2>1 DEF Pending
<1>3. {Head(q)} \cup Pending(Tail(q)) \subseteq Pending(q)
  <2>1. q[1] \in Pending(q)
    BY <1>1 DEF Pending
  <2>2. ASSUME NEW i \in 1 .. (Len(q) - 1)
        PROVE  Tail(q)[i] \in Pending(q)
    <3>1. Tail(q)[i] = q[i + 1] /\ i + 1 \in 1 .. Len(q)
      BY <1>1
    <3> QED
      BY <1>1, <3>1 DEF Pending
  <2> QED
    BY <1>1, <2>1, <2>2 DEF Pending
<1> QED
  BY <1>2, <1>3

\* A step of p that loads nothing but what p answers for, and that goes on
\* answering for what it leaves loaded, adds nothing to Kept.
LEMMA KeptFrame ==
  ASSUME TypeInv, NEW p \in Procs, Own(p),
         \A s \in Snaps : HasNodes(db'[s]) =>
            s \in Owes(p)' \/ (HasNodes(db[s]) /\ s \notin Owes(p))
  PROVE  Kept' \subseteq Kept
<1>1. \A q \in Procs \ {p} : Owes(q)' = Owes(q)
  <2> SUFFICES ASSUME NEW q \in Procs \ {p} PROVE Owes(q)' = Owes(q)
    OBVIOUS
  <2>1. pc'[q] = pc[q] /\ queue'[q] = queue[q] /\ second'[q] = second[q] /\ job' = job
    BY DEF Own
  <2>2. Loading(q)' = Loading(q)
    BY <2>1 DEF Loading
  <2> QED
    BY <2>1, <2>2 DEF Owes
<1> QED
  BY <1>1 DEF Kept, Loaded

\* A step outside the part of EnsureLoaded that answers for databases.
LEMMA KeptOutside ==
  ASSUME TypeInv, NEW p \in Procs, Own(p), pc[p] \notin OweLabels,
         \A s \in Snaps : HasNodes(db'[s]) => HasNodes(db[s])
  PROVE  Kept' \subseteq Kept
<1>1. Owes(p) = {}
  BY DEF Owes, OweLabels
<1> QED
  BY <1>1, KeptFrame
\* After a step of filling a database no further snapshot is to be kept.
LEMMA LoadKept ==
  ASSUME TypeInv, NEW p \in Procs, Own(p), LoadNodes(p) \/ LoadRels(p)
  PROVE  Kept' \subseteq Kept
<1> DEFINE d == Loading(p)
<1>1. /\ pc[p] \in {"e_nodes", "e_rels"}
      /\ pc'[p] \in {"e_nodes", "e_rels", "e_list"}
      /\ second' = second /\ job' = job
  BY DEF LoadNodes, LoadRels, WriteNodes, WriteRels, At, Goto, managerVars,
     TypeInv, TypeOK
<1>2. d' = d
  BY <1>1 DEF Loading
<1>3. Owes(p) = {d} /\ Owes(p)' = {d}
  BY <1>1, <1>2 DEF Owes
<1>4. \A s \in Snaps \ {d} : db'[s] = db[s]
  BY DbNames DEF LoadNodes, LoadRels, WriteNodes, WriteRels, SetDb, TypeInv, TypeOK
<1> QED
  BY <1>3, <1>4, KeptFrame

\* Once the cleanup has counted the databases and chosen the surplus, exactly
\* MaxActive of them are neither chosen nor left to another goroutine.
LEMMA ListBound ==
  ASSUME TypeInv, ~Faults, NEW p \in Procs, Own(p), CleanupList(p)
  PROVE  Bound'
<1>1. db' = db /\ Loaded' = Loaded
  BY DEF CleanupList, Loaded
<1>2. MaxActive \in Nat
  BY ManagerAssumption
<1>3. CASE Excess <= 0
  <2>1. Cardinality(Kept') <= Cardinality(Loaded)
    BY <1>1, KeptFinite, FS_Subset DEF Kept
  <2> QED
    BY <1>2, <1>3, <2>1, KeptFinite, KeptFiniteNext DEF Bound, Excess
<1>4. CASE Excess > 0
  <2>1. PICK q \in [1 .. Excess -> Loaded] :
           /\ OldestFirst(q)
           /\ queue' = [queue EXCEPT ![p] = q]
           /\ pc' = [pc EXCEPT ![p] = "e_evict"]
    BY <1>4, <1>2, KeptFinite DEF CleanupList, Excess, Goto
  <2>2. Excess \in Nat
    BY <1>2, <1>4, KeptFinite DEF Excess
  <2>3. pc'[p] = "e_evict" /\ queue'[p] = q
    BY <2>1 DEF TypeInv, TypeOK
  <2>4. Owes(p)' = Pending(q)
    BY <2>3 DEF Owes
  <2>5. q \in Injection(1 .. Excess, Loaded)
    <3>1. \A i, j \in 1 .. Excess : i < j => q[i] # q[j]
      BY <2>1 DEF OldestFirst
    <3>2. \A i, j \in 1 .. Excess : q[i] = q[j] => i = j
      BY <2>2, <3>1
    <3> QED
      BY <3>2 DEF Injection, IsInjective
  <2>6. Pending(q) \subseteq Loaded
    BY <2>1 DEF Pending
  <2>7. Cardinality(Pending(q)) = Excess
    <3>1. q \in Bijection(1 .. Excess, Pending(q))
      BY <2>1, <2>5 DEF Injection, Surjection, Bijection, IsInjective, Pending
    <3>2. IsFiniteSet(1 .. Excess) /\ Cardinality(1 .. Excess) = Excess
      BY <2>2, FS_Interval
    <3> QED
      BY <3>1, <3>2, FS_Bijection DEF ExistsBijection
  <2>8. /\ IsFiniteSet(Loaded \ Pending(q))
        /\ Cardinality(Loaded \ Pending(q)) = Cardinality(Loaded) - Excess
    <3>1. Loaded \cap Pending(q) = Pending(q)
      BY <2>6
    <3> QED
      BY <2>7, <3>1, KeptFinite, FS_Difference
  <2>9. Cardinality(Loaded \ Pending(q)) = MaxActive
    BY <1>2, <2>8, KeptFinite DEF Excess
  <2>10. Kept' \subseteq Loaded \ Pending(q)
    BY <1>1, <2>4 DEF Kept
  <2> QED
    BY <1>1, <2>8, <2>9, <2>10, FS_Subset DEF Bound
<1> QED
  BY <1>2, <1>3, <1>4, KeptFinite DEF Excess

\* After a step of evicting one no further snapshot is to be kept.
LEMMA EvictKept ==
  ASSUME TypeInv, ~Faults, NEW p \in Procs, Own(p),
         CleanupClear(p) \/ CleanupForget(p) \/ CleanupDone(p)
  PROVE  Kept' \subseteq Kept
<1>1. queue[p] \in Seq(Snaps)
  BY DEF TypeInv, TypeOK
<1>2. CASE CleanupClear(p)
  <2>1. /\ pc[p] = "e_evict" /\ queue[p] # <<>>
        /\ pc'[p] = "e_forget" /\ queue' = queue
        /\ db' = [db EXCEPT ![Head(queue[p])] = Empty]
    BY <1>2 DEF CleanupClear, At, Goto, SetDb, TypeInv, TypeOK
  <2>2. Owes(p) = {Head(queue[p])} \cup Owes(p)'
    BY <1>1, <2>1, PopPending DEF Owes
  <2>3. ~HasNodes(Empty)
    BY DEF HasNodes, Empty
  <2>4. \A s \in Snaps : HasNodes(db'[s]) => s # Head(queue[p]) /\ db'[s] = db[s]
    BY <2>1, <2>3, DbNames DEF TypeInv, TypeOK
  <2> QED
    BY <2>2, <2>4, KeptFrame
<1>3. CASE CleanupForget(p)
  <2>1. /\ pc[p] = "e_forget" /\ pc'[p] = "e_evict"
        /\ queue'[p] = Tail(queue[p]) /\ db' = db
    BY <1>3 DEF CleanupForget, At, Goto, TypeInv, TypeOK
  <2>2. Owes(p)' = Owes(p)
    BY <2>1 DEF Owes
  <2> QED
    BY <2>1, <2>2, KeptFrame
<1>4. CASE CleanupDone(p)
  <2>1. pc[p] = "e_evict" /\ queue[p] = <<>> /\ db' = db
    BY <1>4 DEF CleanupDone, At
  <2>2. Owes(p) = {}
    BY <2>1 DEF Owes, Pending
  <2> QED
    BY <2>1, <2>2, KeptFrame
<1> QED
  BY <1>2, <1>3, <1>4

\* The other steps load no snapshot.
LEMMA SparedOutside ==
  ASSUME TypeInv, ~Faults, NEW p \in Procs, Step(p)
  PROVE  \/ LoadNodes(p) \/ LoadRels(p) \/ CleanupList(p) \/ CleanupClear(p)
         \/ CleanupForget(p) \/ CleanupDone(p)
         \/ /\ pc[p] \notin OweLabels
            /\ \A s \in Snaps : HasNodes(db'[s]) => HasNodes(db[s])
<1>1. CASE \/ CreateReadNodes(p) \/ CreateReadRels(p) \/ CreateOpenFile(p)
           \/ CreateWriteMeta(p) \/ CreateWriteBody(p) \/ CreateWriteRest(p)
           \/ CreateCacheMeta(p) \/ CreateRepoMeta(p) \/ CreateExpire(p)
  BY <1>1 DEF CreateReadNodes, CreateReadRels, CreateOpenFile, CreateWriteMeta,
     CreateWriteBody, CreateWriteRest, CreateCacheMeta, CreateRepoMeta,
     CreateExpire, At, OweLabels
<1>2. CASE DeleteClear(p)
  <2>1. ~HasNodes(Empty)
    BY DEF HasNodes, Empty
  <2> QED
    BY <1>2, <2>1, DbNames DEF DeleteClear, SetDb, At, OweLabels, TypeInv, TypeOK
<1>3. CASE DeleteSkip(p) \/ DeleteCacheMeta(p) \/ DeleteRepoMeta(p)
  BY <1>3 DEF DeleteSkip, DeleteCacheMeta, DeleteRepoMeta, At, OweLabels
<1>4. CASE LoadCheck(p) \/ LoadImport(p)
  BY <1>4 DEF LoadCheck, LoadImport, At, OweLabels
<1>5. CASE \/ RestoreClear(p) \/ CloneReadNodes(p) \/ CloneReadRels(p)
           \/ CloneWriteNodes(p) \/ CloneWriteRels(p) \/ DiffQueries(p)
           \/ List(p)
  BY <1>5, DbNames DEF RestoreClear, CloneReadNodes, CloneReadRels,
     CloneWriteNodes, CloneWriteRels, DiffQueries, List, WriteNodes, WriteRels,
     SetDb, At, OweLabels, TypeInv, TypeOK
<1>6. CASE SyncStep(p)
  BY <1>6, DbNames DEF SyncStep, FullClear, FullCollect, FullNodes, FullRels,
     UpdateAssemble, UpdateNodes, UpdateRels, DeleteNodes, MatchRels,
     DropMatched, QueryTopology, WriteNodes, WriteRels, SetDb, At, OweLabels,
     TypeInv, TypeOK
<1>7. ~StatementFails(p)
  BY DEF StatementFails
<1> QED
  BY <1>1, <1>2, <1>3, <1>4, <1>5, <1>6, <1>7 DEF Step, ManagerStep

\* Every step of an operation keeps the bound on the loaded snapshots.
LEMMA StepBound ==
  ASSUME TypeInv, Bound, ~Faults, NEW p \in Procs, Step(p)
  PROVE  Bound'
<1>1. Own(p)
  BY StepOwn
<1> QED
  BY <1>1, SparedOutside, LoadKept, ListBound, EvictKept, KeptOutside, BoundShrinks

\* A call, its return and the lock leave what is loaded and owed as it is.
LEMMA OtherBound ==
  ASSUME TypeInv, Bound,
         \/ \E p \in Procs : Call(p)
         \/ \E p \in Procs : LockTurn(p) /\ UNCHANGED managerVars
         \/ \E p \in Procs : Finish(p)
         \/ UNCHANGED vars
  PROVE  Bound'
<1>1. CASE \/ \E p \in Procs : LockTurn(p) /\ UNCHANGED managerVars
           \/ UNCHANGED vars
  <2>1. UNCHANGED <<db, pc, job, queue, second>>
    BY <1>1 DEF LockTurn, localVars, managerVars, vars, twinVars
  <2>2. Kept' = Kept
    BY <2>1 DEF Kept, Loaded, Owes, Loading
  <2> QED
    BY <2>2, BoundShrinks
<1>2. ASSUME NEW p \in Procs, Call(p) \/ Finish(p)
      PROVE  Bound'
  <2>1. /\ pc[p] \notin OweLabels /\ db' = db
        /\ \A q \in Procs \ {p} : /\ pc'[q] = pc[q] /\ job'[q] = job[q]
                                  /\ queue'[q] = queue[q] /\ second'[q] = second[q]
    BY <1>2 DEF Call, Start, Finish, Return, Goto, managerVars, OweLabels,
       TypeInv, TypeOK
  <2>2. Owes(p) = {}
    BY <2>1 DEF Owes, OweLabels
  <2>3. \A q \in Procs \ {p} : Loading(q)' = Loading(q)
    BY <2>1 DEF Loading
  <2>4. \A q \in Procs \ {p} : Owes(q)' = Owes(q)
    BY <2>1, <2>3 DEF Owes
  <2>5. Kept' \subseteq Kept
    BY <2>1, <2>2, <2>4 DEF Kept, Loaded
  <2> QED
    BY <2>5, BoundShrinks
<1> QED
  BY <1>1, <1>2

\* Spec => []ActiveBound, when no statement fails and the process is not
\* stopped: whenever no EnsureLoaded is under way, Neo4j holds at most
\* max_active snapshot databases, however many loads, evictions, deletes and
\* restores overlapped without a common lock (cleanup, manager.go).
THEOREM ActiveIsBounded ==
  ASSUME ~Faults, ~Crashes
  PROVE  Spec => []ActiveBound
<1>1. Init => Bound
  <2> SUFFICES ASSUME Init PROVE Bound
    OBVIOUS
  <2>1. Loaded = {}
    BY DbNames DEF Init, TwinInit, Loaded, HasNodes, Empty
  <2>2. Kept = {}
    BY <2>1 DEF Kept
  <2> QED
    BY <2>2, FS_EmptySet, ManagerAssumption DEF Bound
<1>2. TypeInv /\ Bound /\ [Next]_vars => Bound'
  BY StepBound, OtherBound DEF Next, Restart
<1>3. TypeInv /\ Bound => ActiveBound
  <2> SUFFICES ASSUME TypeInv, Bound,
                      \A p \in Procs : pc[p] \notin {"e_import"} \cup OweLabels
               PROVE  Cardinality(Loaded) <= MaxActive
    BY DEF ActiveBound, OweLabels
  <2>1. \A p \in Procs : Owes(p) = {}
    BY DEF Owes, OweLabels
  <2>2. Kept = Loaded
    BY <2>1 DEF Kept
  <2> QED
    BY <2>2 DEF Bound
<1> QED
  BY <1>1, <1>2, <1>3, TypeCorrect, PTL DEF Spec

-----------------------------------------------------------------------------
(* No entity twice.                                                         *)

\* The databases a call may load.
Names(j) == CASE j.op = "diff"    -> {j.a, j.b}
              [] j.op = "restore" -> {j.a}
              [] OTHER            -> {}

\* Diff takes no lock: no other goroutine loads a snapshot that it may load.
LoadsApart ==
    \A p, q \in Procs : \A i \in Jobs[p], j \in Jobs[q] :
        p # q /\ i.op = "diff" => Names(i) \cap Names(j) = {}

\* A content with no node twice.
Plain(c) == \A u \in Uris : c.n[u] <= 1

\* The payloads have one node per URI: no two resources of a batch share one
\* (Assemble makes a node of each).
PayloadsPlain == \A m \in Models : Plain(m)

Unique ==
    /\ \A d \in Dbs : Plain(db[d])
    /\ \A p \in Procs : Plain(buf[p])
    /\ \A s \in Snaps : Plain(archive[s].c)

\* The database p is about to fill with CREATE, and the labels of which it
\* has created no node yet.
Target(p) == IF pc[p] \in {"e_import", "e_nodes"} THEN Loading(p) ELSE Default

Unwritten(p) ==
    CASE pc[p] \in {"e_import", "f_collect", "r_nodes", "r_rels"} -> Labels
      [] pc[p] \in {"e_nodes", "f_nodes", "r_wnodes"} -> todo[p]
      [] OTHER -> {}

Blank(c, ls) == \A u \in Uris : LabelOf[u] \in ls => c.n[u] = 0

Fresh == \A p \in Procs : Blank(db[Target(p)], Unwritten(p))

FillLabels == {"e_import", "e_nodes", "f_collect", "f_nodes", "r_nodes",
               "r_rels", "r_wnodes"}

-----------------------------------------------------------------------------
(* The operators.                                                           *)

\* A cleared database has nothing twice, and nothing of any label.
LEMMA PlainEmpty == Plain(Empty) /\ \A ls : Blank(Empty, ls)
BY DEF Plain, Blank, Empty

\* Databases, buffers and archives hold contents.
LEMMA ContentTypes ==
  ASSUME TypeInv
  PROVE  /\ \A d \in Dbs : db[d] \in Content
         /\ \A p \in Procs : buf[p] \in Content
         /\ \A s \in Snaps : archive[s].c \in Content
BY DEF TypeInv, TypeOK, Archive

\* CREATE of a label that is not there yet makes nothing twice.
LEMMA CreatePlain ==
  ASSUME NEW c \in Content, NEW m \in Content, NEW g, Plain(c), Plain(m),
         Blank(c, {g})
  PROVE  Plain(CreateNodes(c, m, g))
<1> SUFFICES ASSUME NEW u \in Uris PROVE CreateNodes(c, m, g).n[u] <= 1
  BY DEF Plain
<1>1. c.n[u] \in Nat /\ m.n[u] \in Nat /\ c.n[u] <= 1 /\ m.n[u] <= 1
  BY ContentParts, CopiesNat DEF Plain
<1>2. CreateNodes(c, m, g).n[u]
        = IF LabelOf[u] = g THEN Sat(c.n[u] + m.n[u]) ELSE c.n[u]
  BY DEF CreateNodes, Content
<1>3. LabelOf[u] = g => c.n[u] = 0
  BY DEF Blank
<1> QED
  BY <1>1, <1>2, <1>3, GraphAssumption DEF Sat

\* The labels still to write stay blank while another one is written.
LEMMA CreateBlank ==
  ASSUME NEW c \in Content, NEW m, NEW g, NEW ls, Blank(c, ls)
  PROVE  Blank(CreateNodes(c, m, g), ls \ {g})
BY DEF Blank, CreateNodes, Content

\* Statements on relations leave the nodes.
LEMMA RelsKeepNodes ==
  ASSUME NEW c \in Content, NEW m, NEW t
  PROVE  /\ CreateRels(c, m, t).n = c.n
         /\ MergeRels(c, m, t).n = c.n
         /\ \A gone : DropRels(c, gone, t).n = c.n
BY DEF CreateRels, MergeRels, DropRels, Content

\* MERGE makes nothing twice.
LEMMA MergePlain ==
  ASSUME NEW c \in Content, NEW m, NEW g, Plain(c)
  PROVE  Plain(MergeNodes(c, m, g))
BY DEF Plain, MergeNodes, Content

\* DETACH DELETE makes nothing twice.
LEMMA DetachPlain ==
  ASSUME NEW c \in Content, NEW gone, Plain(c)
  PROVE  Plain(DetachDelete(c, gone))
BY DEF Plain, DetachDelete, Content
-----------------------------------------------------------------------------
(* Nobody else fills the database that p fills.                             *)

\* A loader works on a snapshot its call names.
LEMMA LoadingNames ==
  ASSUME OnRoute, NEW p \in Procs,
         pc[p] \in {"e_has", "e_import", "e_nodes", "e_rels", "e_list",
                    "e_evict", "e_forget"}
  PROVE  /\ job[p] \in Jobs[p]
         /\ job[p].op \in {"restore", "diff"}
         /\ Loading(p) \in Names(job[p])
<1>1. job[p] \in Jobs[p] /\ pc[p] \in Route(job[p].op)
  BY DEF OnRoute
<1>2. job[p].op \in {"restore", "diff"}
  BY <1>1 DEF Route
<1> QED
  BY <1>1, <1>2 DEF OnRoute, Names, Loading

\* Those that fill, or merge into, the live database hold the write lock.
LEMMA LiveLocked ==
  ASSUME OnRoute, Stages, NEW p \in Procs, pc[p] \in LiveLabels \ Entries
  PROVE  lk[p] = "write"
<1>1. job[p].op \in WriteOps
  BY DEF Stages
<1>2. pc[p] # "idle"
  BY DEF LiveLabels
<1> QED
  BY <1>1, <1>2, Settled DEF LockFor

\* No two goroutines fill one database, and none merges into it.
LEMMA FillersApart ==
  ASSUME LoadsApart, Isolation, OnRoute, NEW p \in Procs, NEW q \in Procs,
         p # q, pc[p] \in FillLabels \cup {"u_nodes"}, pc[q] \in FillLabels
  PROVE  Target(p) # Target(q)
<1> DEFINE Load == {"e_import", "e_nodes"}
<1>1. TypeInv /\ Exclusion /\ Stages
  BY DEF Isolation
<1>2. ASSUME NEW x \in Procs, pc[x] \in (FillLabels \cup {"u_nodes"}) \ Load
      PROVE  lk[x] = "write" /\ Target(x) = Default
  BY <1>1, <1>2, LiveLocked DEF Target, FillLabels, LiveLabels, Entries
<1>3. ASSUME NEW x \in Procs, pc[x] \in Load
      PROVE  /\ Target(x) \in Names(job[x]) /\ Target(x) \in Snaps
             /\ job[x] \in Jobs[x]
             /\ job[x].op = "restore" => lk[x] = "write"
             /\ job[x].op \in {"restore", "diff"}
  <2>1. lk[x] = LockFor(job[x].op)
    BY <1>3, Settled DEF Entries
  <2> QED
    BY <1>1, <1>3, <2>1, LoadingNames, NamesType DEF Target, LockFor, WriteOps
<1>4. CASE pc[p] \notin Load /\ pc[q] \notin Load
  BY <1>1, <1>2, <1>4 DEF Exclusion
<1>5. CASE pc[p] \in Load /\ pc[q] \notin Load
  BY <1>2, <1>3, <1>5, DbNames
<1>6. CASE pc[p] \notin Load /\ pc[q] \in Load
  BY <1>2, <1>3, <1>6, DbNames
<1>7. CASE pc[p] \in Load /\ pc[q] \in Load
  <2>1. ~(job[p].op = "restore" /\ job[q].op = "restore")
    BY <1>1, <1>3, <1>7 DEF Exclusion
  <2>2. Names(job[p]) \cap Names(job[q]) = {}
    BY <1>3, <1>7, <2>1 DEF LoadsApart
  <2> QED
    BY <1>3, <1>7, <2>2
<1> QED
  BY <1>4, <1>5, <1>6, <1>7

-----------------------------------------------------------------------------
(* What a step of goroutine p must show.                                    *)

Clean(p) ==
    /\ Unique'
    /\ \A d \in Dbs, u \in Uris :
          db[d].n[u] = 0 /\ db'[d].n[u] # 0
             => pc[p] \in FillLabels \cup {"u_nodes"} /\ d = Target(p)
    /\ Blank(db[Target(p)], Unwritten(p))'

\* A step after which its database, its buffer and the archives have nothing twice.
LEMMA UniqueStep ==
  ASSUME Unique, NEW p \in Procs, Own(p), \A d \in Dbs : Plain(db'[d]),
         Plain(buf'[p]), \A s \in Snaps : Plain(archive'[s].c)
  PROVE  Unique'
BY DEF Unique, Own, Plain

\* A step that goes to no label of a filling and only clears databases.
LEMMA QuietClean ==
  ASSUME TypeInv, Unique, NEW p \in Procs, Own(p), pc'[p] \notin FillLabels,
         \A d \in Dbs : db'[d] = db[d] \/ db'[d] = Empty,
         Plain(buf'[p]), \A s \in Snaps : Plain(archive'[s].c)
  PROVE  Clean(p)
<1>1. \A d \in Dbs : Plain(db'[d])
  BY PlainEmpty DEF Unique
<1>2. Unwritten(p)' = {}
  BY DEF Unwritten, FillLabels
<1>3. \A d \in Dbs, u \in Uris : ~(db[d].n[u] = 0 /\ db'[d].n[u] # 0)
  BY DEF Empty
<1> QED
  BY <1>1, <1>2, <1>3, UniqueStep DEF Clean, Blank

\* Filling a database writes each label once.
LEMMA WriteNodesClean ==
  ASSUME TypeInv, Unique, Fresh, NEW p \in Procs, Own(p), NEW l, NEW next,
         l \in {"e_nodes", "f_nodes", "r_wnodes"}, next \notin FillLabels,
         WriteNodes(p, Target(p), l, next), Target(p) \in Dbs,
         UNCHANGED <<archive, second>>
  PROVE  Clean(p)
<1> DEFINE d == Target(p)
<1>1. pc[p] = l /\ job' = job /\ buf' = buf
  BY DEF WriteNodes, At
<1>2. Blank(db[d], todo[p])
  BY <1>1 DEF Fresh, Unwritten
<1>3. db[d] \in Content /\ buf[p] \in Content /\ Plain(db[d]) /\ Plain(buf[p])
  BY ContentTypes DEF Unique
<1>4. CASE db' = db /\ pc' = [pc EXCEPT ![p] = next]
  BY <1>1, <1>4, QuietClean DEF Unique, TypeInv, TypeOK
<1>5. ASSUME NEW g \in todo[p],
             db' = [db EXCEPT ![d] = CreateNodes(db[d], buf[p], g)],
             todo' = [todo EXCEPT ![p] = @ \ {g}],
             pc' = pc
      PROVE  Clean(p)
  <2>1. /\ db'[d] = CreateNodes(db[d], buf[p], g)
        /\ \A e \in Dbs \ {d} : db'[e] = db[e]
        /\ todo'[p] = todo[p] \ {g}
    BY <1>5 DEF TypeInv, TypeOK
  <2>2. Plain(db'[d])
    <3>1. Blank(db[d], {g})
      BY <1>2 DEF Blank
    <3> QED
      BY <1>3, <2>1, <3>1, CreatePlain
  <2>3. Unique'
    BY <1>1, <1>3, <2>1, <2>2, UniqueStep DEF Unique
  <2>4. Target(p)' = d
    BY <1>1, <1>5 DEF Target, Loading
  <2>5. Unwritten(p)' = todo[p] \ {g}
    BY <1>1, <1>5, <2>1 DEF Unwritten
  <2>6. Blank(db'[d], todo[p] \ {g})
    BY <1>2, <1>3, <2>1, CreateBlank
  <2>7. Blank(db[Target(p)], Unwritten(p))'
    BY <2>4, <2>5, <2>6 DEF Blank
  <2>8. pc[p] \in FillLabels
    BY <1>1 DEF FillLabels
  <2> QED
    BY <2>1, <2>3, <2>7, <2>8 DEF Clean
<1> QED
  BY <1>4, <1>5 DEF WriteNodes, SetDb, Goto

\* Writing relations makes no node twice.
LEMMA WriteRelsClean ==
  ASSUME TypeInv, Unique, NEW p \in Procs, Own(p), NEW d \in Dbs, NEW l,
         NEW next, l \notin FillLabels, next \notin FillLabels,
         WriteRels(p, d, l, next), UNCHANGED archive
  PROVE  Clean(p)
<1>1. buf' = buf /\ Plain(buf[p]) /\ \A s \in Snaps : Plain(archive'[s].c)
  BY DEF WriteRels, Unique
<1>2. \A e \in Dbs : db'[e].n = db[e].n
  <2>1. \A g : CreateRels(db[d], buf[p], g).n = db[d].n
    BY RelsKeepNodes, ContentTypes
  <2>2. db \in [Dbs -> Content]
    BY DEF TypeInv, TypeOK
  <2> QED
    BY <2>1, <2>2 DEF WriteRels, SetDb
<1>3. pc'[p] \in {l, next}
  BY DEF WriteRels, At, Goto, TypeInv, TypeOK
<1>4. Unwritten(p)' = {}
  BY <1>3 DEF Unwritten, FillLabels
<1>5. Unique'
  BY <1>1, <1>2, UniqueStep DEF Unique, Plain
<1> QED
  BY <1>2, <1>4, <1>5 DEF Clean, Blank
-----------------------------------------------------------------------------
(* The steps of each operation.                                             *)

\* What every step below is shown under.
Before == TypeInv /\ OnRoute /\ Unique /\ Fresh

\* The steps of Create.
LEMMA CreateClean ==
  ASSUME Before, NEW p \in Procs, Own(p),
         \/ CreateReadNodes(p) \/ CreateReadRels(p) \/ CreateOpenFile(p)
         \/ CreateWriteMeta(p) \/ CreateWriteBody(p) \/ CreateWriteRest(p)
         \/ CreateCacheMeta(p) \/ CreateRepoMeta(p) \/ CreateExpire(p)
  PROVE  Clean(p)
<1>1. /\ TypeInv /\ Unique /\ db' = db
      /\ Plain(buf[p]) /\ Plain(Empty) /\ Plain(db[Default])
  BY PlainEmpty, DbNames DEF Before, Unique, CreateReadNodes, CreateReadRels,
     CreateOpenFile, CreateWriteMeta, CreateWriteBody, CreateWriteRest,
     CreateCacheMeta, CreateRepoMeta, CreateExpire
<1>2. pc'[p] \notin FillLabels
  BY <1>1 DEF CreateReadNodes, CreateReadRels, CreateOpenFile, CreateWriteMeta,
     CreateWriteBody, CreateWriteRest, CreateCacheMeta, CreateRepoMeta,
     CreateExpire, Goto, FillLabels, TypeInv, TypeOK
<1>3. Plain(buf'[p])
  <2>1. CASE CreateReadNodes(p)
    <3>1. buf'[p] = [Empty EXCEPT !.n = db[Default].n]
      BY <1>1, <2>1 DEF CreateReadNodes, TypeInv, TypeOK
    <3> QED
      BY <1>1, <3>1 DEF Plain, Empty
  <2>2. CASE CreateReadRels(p)
    <3>1. buf'[p].n = buf[p].n
      BY <1>1, <2>2 DEF CreateReadRels, TypeInv, TypeOK, Content
    <3> QED
      BY <1>1, <3>1 DEF Plain
  <2>3. CASE buf' = buf
    BY <1>1, <2>3
  <2> QED
    BY <2>1, <2>2, <2>3 DEF CreateOpenFile, CreateWriteMeta, CreateWriteBody,
       CreateWriteRest, CreateCacheMeta, CreateRepoMeta, CreateExpire
<1>4. \A s \in Snaps : Plain(archive'[s].c)
  <2>1. job[p].a \in Snaps /\ archive \in [Snaps -> Archive] /\ buf[p] \in Content
    BY <1>1, NamesType, ContentTypes DEF Own, TypeInv, TypeOK
  <2>2. CASE CreateOpenFile(p)
    BY <1>1, <2>1, <2>2 DEF CreateOpenFile, Unique
  <2>3. CASE CreateWriteMeta(p)
    <3>1. archive'[job[p].a].c = archive[job[p].a].c
      BY <2>1, <2>3 DEF CreateWriteMeta, Archive
    <3> QED
      BY <1>1, <2>1, <2>3, <3>1 DEF CreateWriteMeta, Unique
  <2>4. CASE CreateWriteBody(p)
    <3>1. PICK part \in [Rels -> Copies] :
             archive' = [archive EXCEPT
                ![job[p].a] = [st |-> "short", c |-> [buf[p] EXCEPT !.r = part]]]
      BY <2>4 DEF CreateWriteBody
    <3>2. Plain([buf[p] EXCEPT !.r = part])
      BY <1>1, <2>1 DEF Plain, Content
    <3> QED
      BY <1>1, <2>1, <3>1, <3>2 DEF Unique
  <2>5. CASE CreateWriteRest(p)
    BY <1>1, <2>1, <2>5 DEF CreateWriteRest, Unique
  <2>6. CASE archive' = archive
    BY <1>1, <2>6 DEF Unique
  <2> QED
    BY <2>2, <2>3, <2>4, <2>5, <2>6 DEF CreateReadNodes, CreateReadRels,
       CreateCacheMeta, CreateRepoMeta, CreateExpire, managerVars
<1> QED
  BY <1>1, <1>2, <1>3, <1>4, QuietClean

\* The steps of Delete.
LEMMA DeleteClean ==
  ASSUME Before, NEW p \in Procs, Own(p),
         \/ DeleteClear(p) \/ DeleteSkip(p) \/ DeleteCacheMeta(p)
         \/ DeleteRepoMeta(p)
  PROVE  Clean(p)
<1>1. TypeInv /\ Unique
  BY DEF Before
<1>2. buf' = buf /\ archive' = archive
  BY DEF DeleteClear, DeleteSkip, DeleteCacheMeta, DeleteRepoMeta, managerVars
<1>3. \A d \in Dbs : db'[d] = db[d] \/ db'[d] = Empty
  BY <1>1 DEF DeleteClear, DeleteSkip, DeleteCacheMeta, DeleteRepoMeta, SetDb,
     TypeInv, TypeOK
<1>4. pc'[p] \in {"ok", "d_clear", "d_meta", "d_repo"}
  BY <1>1 DEF DeleteClear, DeleteSkip, DeleteCacheMeta, DeleteRepoMeta,
     NextDoomed, Goto, TypeInv, TypeOK
<1> QED
  BY <1>1, <1>2, <1>3, <1>4, QuietClean DEF Unique, FillLabels

\* HasDB found the database empty: all its labels are still to be written.
LEMMA NoNodesBlank ==
  ASSUME NEW c \in Content, ~HasNodes(c)
  PROVE  \A ls : Blank(c, ls)
<1>1. \A u \in Uris : c.n[u] \in Nat
  BY ContentParts, CopiesNat
<1> QED
  BY <1>1 DEF HasNodes, Blank

\* The steps of ensureLoaded.
LEMMA LoadClean ==
  ASSUME Before, NEW p \in Procs, Own(p),
         LoadCheck(p) \/ LoadImport(p) \/ LoadNodes(p) \/ LoadRels(p)
  PROVE  Clean(p)
<1>1. TypeInv /\ Unique /\ Fresh /\ Loading(p) \in Snaps /\ Loading(p) \in Dbs
  BY NamesType, DbNames DEF Before, Own
<1>2. archive' = archive /\ \A s \in Snaps : Plain(archive[s].c)
  BY <1>1 DEF LoadCheck, LoadImport, LoadNodes, LoadRels, managerVars, Unique
<1>3. CASE LoadCheck(p)
  <2>1. buf' = buf /\ db' = db /\ job' = job
    BY <1>3 DEF LoadCheck
  <2>2. CASE pc'[p] \notin FillLabels
    BY <1>1, <1>2, <2>1, <2>2, QuietClean DEF Unique
  <2>3. CASE pc'[p] \in FillLabels
    <3>1. pc'[p] = "e_import" /\ second' = second /\ ~HasNodes(db[Loading(p)])
      BY <1>1, <1>3, <2>3 DEF LoadCheck, LoadedNext, At, Goto, FillLabels,
         TypeInv, TypeOK
    <3>2. Target(p)' = Loading(p)
      BY <2>1, <3>1 DEF Target, Loading
    <3>3. Blank(db[Target(p)], Unwritten(p))'
      BY <1>1, <2>1, <3>1, <3>2, NoNodesBlank, ContentTypes DEF Blank
    <3>4. Unique'
      BY <1>1, <1>2, <2>1 DEF Unique
    <3> QED
      BY <2>1, <3>3, <3>4 DEF Clean
  <2> QED
    BY <2>2, <2>3
<1>4. CASE LoadImport(p)
  <2>1. db' = db /\ job' = job /\ second' = second /\ pc[p] = "e_import"
    BY <1>4 DEF LoadImport, managerVars, At
  <2>2. Plain(buf'[p])
    BY <1>1, <1>2, <1>4 DEF LoadImport, Unique, TypeInv, TypeOK
  <2>3. pc'[p] \in {"e_nodes", "err"}
    BY <1>1, <1>4 DEF LoadImport, Goto, TypeInv, TypeOK
  <2>4. CASE pc'[p] = "err"
    BY <1>1, <1>2, <2>1, <2>2, <2>4, QuietClean DEF FillLabels
  <2>5. CASE pc'[p] = "e_nodes"
    <3>1. Target(p)' = Loading(p) /\ Target(p) = Loading(p)
      BY <2>1, <2>5 DEF Target, Loading
    <3>2. \A u \in Uris : db[Loading(p)].n[u] = 0
      BY <1>1, <2>1, <3>1, GraphAssumption DEF Fresh, Unwritten, Blank
    <3>3. Blank(db[Target(p)], Unwritten(p))'
      BY <2>1, <3>1, <3>2 DEF Blank
    <3>4. Unique'
      BY <1>1, <1>2, <2>1, <2>2, UniqueStep DEF Unique
    <3> QED
      BY <2>1, <3>3, <3>4 DEF Clean
  <2> QED
    BY <2>3, <2>4, <2>5
<1>5. CASE LoadNodes(p)
  <2>1. pc[p] = "e_nodes" /\ second' = second
    BY <1>5 DEF LoadNodes, WriteNodes, At, managerVars
  <2>2. Target(p) = Loading(p)
    BY <2>1 DEF Target
  <2>3. "e_rels" \notin FillLabels
    BY DEF FillLabels
  <2> QED
    BY <1>1, <1>2, <1>5, <2>1, <2>2, <2>3, WriteNodesClean DEF LoadNodes
<1>6. CASE LoadRels(p)
  <2>1. "e_rels" \notin FillLabels /\ "e_list" \notin FillLabels
    BY DEF FillLabels
  <2> QED
    BY <1>1, <1>2, <1>6, <2>1, WriteRelsClean DEF LoadRels
<1> QED
  BY <1>3, <1>4, <1>5, <1>6

\* The steps of the LRU cleanup.
LEMMA CleanupClean ==
  ASSUME Before, NEW p \in Procs, Own(p),
         CleanupList(p) \/ CleanupClear(p) \/ CleanupForget(p) \/ CleanupDone(p)
  PROVE  Clean(p)
<1>1. TypeInv /\ Unique
  BY DEF Before
<1>2. buf' = buf /\ archive' = archive
  BY DEF CleanupList, CleanupClear, CleanupForget, CleanupDone
<1>3. \A d \in Dbs : db'[d] = db[d] \/ db'[d] = Empty
  BY <1>1 DEF CleanupList, CleanupClear, CleanupForget, CleanupDone, SetDb,
     TypeInv, TypeOK
<1>4. pc'[p] \in {"r_clear", "diff", "e_has", "e_evict", "e_forget"}
  BY <1>1 DEF CleanupList, CleanupClear, CleanupForget, CleanupDone,
     LoadedNext, At, Goto, TypeInv, TypeOK
<1> QED
  BY <1>1, <1>2, <1>3, <1>4, QuietClean DEF Unique, FillLabels
\* A step that leaves the live database blank, or finds it blank, and reads a
\* payload for it.
LEMMA BlankClean ==
  ASSUME TypeInv, Unique, NEW p \in Procs, Own(p), Target(p)' = Default,
         \A d \in Dbs : db'[d] = db[d] \/ db'[d] = Empty,
         \A u \in Uris : db'[Default].n[u] = 0,
         Plain(buf'[p]), \A s \in Snaps : Plain(archive'[s].c)
  PROVE  Clean(p)
<1>1. \A d \in Dbs : Plain(db'[d])
  BY PlainEmpty DEF Unique
<1>2. Blank(db[Target(p)], Unwritten(p))'
  BY DEF Blank
<1>3. \A d \in Dbs, u \in Uris : ~(db[d].n[u] = 0 /\ db'[d].n[u] # 0)
  BY DEF Empty
<1> QED
  BY <1>1, <1>2, <1>3, UniqueStep DEF Clean

\* At these labels the live database has been cleared and not been written.
LEMMA LiveBlank ==
  ASSUME Fresh, NEW p \in Procs, pc[p] \in {"f_collect", "r_nodes", "r_rels"}
  PROVE  \A u \in Uris : db[Default].n[u] = 0
<1>1. Target(p) = Default /\ Unwritten(p) = Labels
  BY DEF Target, Unwritten
<1> QED
  BY <1>1, GraphAssumption DEF Fresh, Blank

\* The steps of Restore, CloneDB, Diff and List.
LEMMA RestoreClean ==
  ASSUME Before, NEW p \in Procs, Own(p),
         \/ RestoreClear(p) \/ CloneReadNodes(p) \/ CloneReadRels(p)
         \/ CloneWriteNodes(p) \/ CloneWriteRels(p) \/ DiffQueries(p)
         \/ List(p)
  PROVE  Clean(p)
<1>1. /\ TypeInv /\ Unique /\ Fresh /\ job[p].a \in Dbs /\ Default \in Dbs
  BY NamesType, DbNames DEF Before, Own
<1>2. archive' = archive /\ \A s \in Snaps : Plain(archive[s].c)
  BY <1>1 DEF RestoreClear, CloneReadNodes, CloneReadRels, CloneWriteNodes,
     CloneWriteRels, DiffQueries, List, managerVars, Unique
<1>3. CASE RestoreClear(p)
  <2>1. pc'[p] = "r_nodes" /\ buf' = buf
    BY <1>1, <1>3 DEF RestoreClear, Goto, TypeInv, TypeOK
  <2>2. \A d \in Dbs : db'[d] = IF d = Default THEN Empty ELSE db[d]
    BY <1>1, <1>3 DEF RestoreClear, SetDb, TypeInv, TypeOK
  <2>3. Target(p)' = Default
    BY <2>1 DEF Target
  <2>4. \A u \in Uris : db'[Default].n[u] = 0
    BY <1>1, <2>2 DEF Empty
  <2> QED
    BY <1>1, <1>2, <2>1, <2>2, <2>3, <2>4, BlankClean DEF Unique
<1>4. CASE CloneReadNodes(p)
  <2>1. pc[p] = "r_nodes" /\ pc'[p] = "r_rels" /\ db' = db
        /\ buf'[p] = [Empty EXCEPT !.n = db[job[p].a].n]
    BY <1>1, <1>4 DEF CloneReadNodes, At, Goto, TypeInv, TypeOK
  <2>2. Plain(buf'[p])
    BY <1>1, <2>1 DEF Unique, Plain, Empty
  <2>3. Target(p)' = Default
    BY <2>1 DEF Target
  <2> QED
    BY <1>1, <1>2, <2>1, <2>2, <2>3, LiveBlank, BlankClean
<1>5. CASE CloneReadRels(p)
  <2>1. pc[p] = "r_rels" /\ pc'[p] = "r_wnodes" /\ db' = db
        /\ buf'[p].n = buf[p].n
    BY <1>1, <1>5 DEF CloneReadRels, At, Goto, TypeInv, TypeOK, Content
  <2>2. Plain(buf'[p])
    BY <1>1, <2>1 DEF Unique, Plain
  <2>3. Target(p)' = Default
    BY <2>1 DEF Target
  <2> QED
    BY <1>1, <1>2, <2>1, <2>2, <2>3, LiveBlank, BlankClean
<1>6. CASE CloneWriteNodes(p)
  <2>1. pc[p] = "r_wnodes" /\ second' = second
    BY <1>6 DEF CloneWriteNodes, WriteNodes, At, managerVars
  <2>2. Target(p) = Default /\ "r_wrels" \notin FillLabels
    BY <2>1 DEF Target, FillLabels
  <2> QED
    BY <1>1, <1>2, <1>6, <2>1, <2>2, WriteNodesClean DEF CloneWriteNodes
<1>7. CASE CloneWriteRels(p)
  <2>1. "r_wrels" \notin FillLabels /\ "ok" \notin FillLabels
    BY DEF FillLabels
  <2> QED
    BY <1>1, <1>2, <1>7, <2>1, WriteRelsClean DEF CloneWriteRels
<1>8. CASE DiffQueries(p) \/ List(p)
  <2>1. db' = db /\ buf' = buf /\ pc'[p] \in {"ok", "err"}
    BY <1>1, <1>8 DEF DiffQueries, List, Goto, TypeInv, TypeOK
  <2> QED
    BY <1>1, <1>2, <2>1, QuietClean DEF Unique, FillLabels
<1> QED
  BY <1>3, <1>4, <1>5, <1>6, <1>7, <1>8

\* The steps of FullSync.
LEMMA FullSyncClean ==
  ASSUME Before, PayloadsPlain, NEW p \in Procs, Own(p), UNCHANGED managerVars,
         FullClear(p) \/ FullCollect(p) \/ FullNodes(p) \/ FullRels(p)
  PROVE  Clean(p)
<1>1. /\ TypeInv /\ Unique /\ Fresh /\ Default \in Dbs
      /\ archive' = archive /\ second' = second
      /\ \A s \in Snaps : Plain(archive[s].c)
  BY DbNames DEF Before, managerVars, Unique
<1>3. CASE FullClear(p)
  <2>1. pc'[p] = "f_collect" /\ buf' = buf
    BY <1>1, <1>3 DEF FullClear, Goto, TypeInv, TypeOK
  <2>2. \A d \in Dbs : db'[d] = IF d = Default THEN Empty ELSE db[d]
    BY <1>1, <1>3 DEF FullClear, SetDb, TypeInv, TypeOK
  <2>3. Target(p)' = Default
    BY <2>1 DEF Target
  <2>4. \A u \in Uris : db'[Default].n[u] = 0
    BY <1>1, <2>2 DEF Empty
  <2> QED
    BY <1>1, <2>1, <2>2, <2>3, <2>4, BlankClean DEF Unique
<1>4. CASE FullCollect(p)
  <2>1. pc[p] = "f_collect" /\ pc'[p] = "f_nodes" /\ db' = db
    BY <1>1, <1>4 DEF FullCollect, At, Goto, TypeInv, TypeOK
  <2>2. Plain(buf'[p])
    BY <1>1, <1>4 DEF FullCollect, PayloadsPlain, TypeInv, TypeOK
  <2>3. Target(p)' = Default
    BY <2>1 DEF Target
  <2> QED
    BY <1>1, <2>1, <2>2, <2>3, LiveBlank, BlankClean
<1>5. CASE FullNodes(p)
  <2>1. pc[p] = "f_nodes"
    BY <1>5 DEF FullNodes, WriteNodes, At
  <2>2. Target(p) = Default /\ "f_rels" \notin FillLabels
    BY <2>1 DEF Target, FillLabels
  <2> QED
    BY <1>1, <1>5, <2>1, <2>2, WriteNodesClean DEF FullNodes
<1>6. CASE FullRels(p)
  <2>1. "f_rels" \notin FillLabels /\ "ok" \notin FillLabels
    BY DEF FillLabels
  <2> QED
    BY <1>1, <1>6, <2>1, WriteRelsClean DEF FullRels
<1> QED
  BY <1>3, <1>4, <1>5, <1>6

\* The steps of the events and of the topology query.
LEMMA EventClean ==
  ASSUME Before, PayloadsPlain, NEW p \in Procs, Own(p), UNCHANGED managerVars,
         \/ UpdateAssemble(p) \/ UpdateNodes(p) \/ UpdateRels(p)
         \/ DeleteNodes(p) \/ MatchRels(p) \/ DropMatched(p) \/ QueryTopology(p)
  PROVE  Clean(p)
<1>1. /\ TypeInv /\ Unique /\ Fresh /\ Default \in Dbs
      /\ db[Default] \in Content /\ Plain(db[Default]) /\ Plain(buf[p])
      /\ \A s \in Snaps : Plain(archive'[s].c)
  BY DbNames, ContentTypes DEF Before, managerVars, Unique
<1>2. pc'[p] \notin FillLabels
  BY <1>1 DEF UpdateAssemble, UpdateNodes, UpdateRels, DeleteNodes, MatchRels,
     DropMatched, QueryTopology, At, Goto, FillLabels, TypeInv, TypeOK
<1>3. Unwritten(p)' = {}
  BY <1>2 DEF Unwritten, FillLabels
<1>4. Plain(buf'[p])
  <2>1. CASE UpdateAssemble(p)
    BY <1>1, <2>1 DEF UpdateAssemble, PayloadsPlain, TypeInv, TypeOK
  <2>2. CASE MatchRels(p)
    <3>1. buf'[p].n = Empty.n
      BY <1>1, <2>2 DEF MatchRels, Empty, TypeInv, TypeOK
    <3> QED
      BY <3>1, PlainEmpty DEF Plain
  <2>3. CASE buf' = buf
    BY <1>1, <2>3
  <2> QED
    BY <2>1, <2>2, <2>3 DEF UpdateNodes, UpdateRels, DeleteNodes, DropMatched,
       QueryTopology
<1>5. \A d \in Dbs \ {Default} : db'[d] = db[d]
  BY <1>1 DEF UpdateAssemble, UpdateNodes, UpdateRels, DeleteNodes, MatchRels,
     DropMatched, QueryTopology, SetDb, TypeInv, TypeOK
<1>6. /\ Plain(db'[Default])
      /\ \A u \in Uris : db[Default].n[u] = 0 /\ db'[Default].n[u] # 0
            => pc[p] = "u_nodes"
  <2>1. CASE UpdateNodes(p)
    <3>1. db'[Default] = db[Default]
          \/ \E g \in todo[p] : db'[Default] = MergeNodes(db[Default], buf[p], g)
      BY <1>1, <2>1 DEF UpdateNodes, SetDb, TypeInv, TypeOK
    <3>2. pc[p] = "u_nodes"
      BY <2>1 DEF UpdateNodes, At
    <3> QED
      BY <1>1, <3>1, <3>2, MergePlain
  <2>2. CASE DeleteNodes(p)
    <3>1. PICK gone \in SUBSET Uris : db'[Default] = DetachDelete(db[Default], gone)
      BY <1>1, <2>2 DEF DeleteNodes, SetDb, TypeInv, TypeOK
    <3>2. \A u \in Uris : db[Default].n[u] = 0 => db'[Default].n[u] = 0
      BY <3>1 DEF DetachDelete
    <3> QED
      BY <1>1, <3>1, <3>2, DetachPlain
  <2>3. CASE UpdateRels(p) \/ DropMatched(p)
    <3>1. db'[Default].n = db[Default].n
      <4>1. \A g : /\ MergeRels(db[Default], buf[p], g).n = db[Default].n
                   /\ \A gone : DropRels(db[Default], gone, g).n = db[Default].n
        BY <1>1, RelsKeepNodes
      <4>2. CASE UpdateRels(p)
        <5>1. db'[Default] = db[Default]
              \/ \E g \in todo[p] : db'[Default] = MergeRels(db[Default], buf[p], g)
          BY <1>1, <4>2 DEF UpdateRels, SetDb, TypeInv, TypeOK
        <5> QED
          BY <4>1, <5>1
      <4>3. CASE DropMatched(p)
        <5> DEFINE gone == {e \in Rels : buf[p].r[e] > 0}
        <5>1. db'[Default] = db[Default]
              \/ \E g \in todo[p] : db'[Default] = DropRels(db[Default], gone, g)
          BY <1>1, <4>3 DEF DropMatched, SetDb, TypeInv, TypeOK
        <5> QED
          BY <4>1, <5>1
      <4> QED
        BY <2>3, <4>2, <4>3
    <3> QED
      BY <1>1, <3>1 DEF Plain
  <2>4. CASE db' = db
    BY <1>1, <2>4
  <2> QED
    BY <2>1, <2>2, <2>3, <2>4 DEF UpdateAssemble, MatchRels, QueryTopology
<1>7. Unique'
  <2>1. \A d \in Dbs : Plain(db'[d])
    BY <1>1, <1>5, <1>6 DEF Unique, Plain
  <2> QED
    BY <1>1, <1>4, <2>1, UniqueStep
<1>8. pc[p] = "u_nodes" => Target(p) = Default
  BY DEF Target
<1> QED
  BY <1>3, <1>5, <1>6, <1>7, <1>8 DEF Clean, Blank

\* Every step of an operation shows what it must.
LEMMA StepClean ==
  ASSUME Before, PayloadsPlain, NEW p \in Procs, Step(p)
  PROVE  Own(p) /\ Clean(p)
<1>1. Own(p)
  BY StepOwn DEF Before
<1>2. CASE StatementFails(p) /\ UNCHANGED managerVars
  <2>1. db' = db /\ buf' = buf /\ archive' = archive /\ pc'[p] = "err"
    BY <1>2 DEF StatementFails, Goto, managerVars, Before, TypeInv, TypeOK
  <2> QED
    BY <1>1, <2>1, QuietClean DEF Before, Unique, FillLabels
<1> QED
  BY <1>1, <1>2, CreateClean, DeleteClean, LoadClean, CleanupClean,
     RestoreClean, FullSyncClean, EventClean DEF Step, ManagerStep, SyncStep

-----------------------------------------------------------------------------
(* The invariant.                                                           *)

\* So after it nothing is there twice, and no node of a label still to be written.
LEMMA StepFresh ==
  ASSUME LoadsApart, PayloadsPlain, Isolation, OnRoute, Unique, Fresh,
         NEW p \in Procs, Step(p)
  PROVE  Unique' /\ Fresh'
<1>1. Own(p) /\ Clean(p)
  BY StepClean DEF Before, Isolation
<1>2. ASSUME NEW q \in Procs, q # p
      PROVE  Blank(db[Target(q)], Unwritten(q))'
  <2>1. /\ pc'[q] = pc[q] /\ todo'[q] = todo[q] /\ second'[q] = second[q]
        /\ job' = job
    BY <1>1, <1>2 DEF Own
  <2>2. Target(q)' = Target(q)
    BY <2>1 DEF Target, Loading
  <2>3. Unwritten(q)' = Unwritten(q)
    BY <2>1 DEF Unwritten
  <2>4. CASE pc[q] \in FillLabels
    <3>1. pc[q] # "idle"
      BY <2>4 DEF FillLabels
    <3>2. Target(q) \in Dbs
      BY <3>1, NamesType, DbNames DEF Target, Isolation
    <3>3. \A u \in Uris : db[Target(q)].n[u] = 0 => db'[Target(q)].n[u] = 0
      BY <1>1, <1>2, <2>4, <3>2, FillersApart DEF Clean
    <3> QED
      BY <2>2, <2>3, <3>3 DEF Fresh, Blank
  <2>5. CASE pc[q] \notin FillLabels
    <3>1. Unwritten(q) = {}
      BY <2>5 DEF Unwritten, FillLabels
    <3> QED
      BY <2>3, <3>1 DEF Blank
  <2> QED
    BY <2>4, <2>5
<1> QED
  BY <1>1, <1>2 DEF Clean, Fresh, Blank

\* Calls, the lock, returns and restarts write nothing.
LEMMA OtherFresh ==
  ASSUME TypeInv, Unique, Fresh,
         \/ \E p \in Procs : Call(p)
         \/ \E p \in Procs : LockTurn(p) /\ UNCHANGED managerVars
         \/ \E p \in Procs : Finish(p)
         \/ Restart
         \/ UNCHANGED vars
  PROVE  Unique' /\ Fresh'
<1>1. CASE \/ \E p \in Procs : LockTurn(p) /\ UNCHANGED managerVars
           \/ UNCHANGED vars
  <2>1. UNCHANGED <<db, pc, job, buf, todo, archive, second>>
    BY <1>1 DEF LockTurn, localVars, managerVars, vars, twinVars
  <2> QED
    BY <2>1 DEF Unique, Fresh, Blank, Target, Loading, Unwritten
<1>2. ASSUME NEW p \in Procs, Call(p) \/ Finish(p)
      PROVE  Unique' /\ Fresh'
  <2>1. /\ db' = db /\ archive' = archive
        /\ \A q \in Procs \ {p} : /\ pc'[q] = pc[q] /\ job'[q] = job[q]
                                  /\ todo'[q] = todo[q] /\ second'[q] = second[q]
    BY <1>2 DEF Call, Start, Finish, Return, Goto, managerVars, TypeInv, TypeOK
  <2>2. pc'[p] \notin FillLabels
    <3>1. CASE Finish(p)
      BY <3>1 DEF Finish, Return, Goto, FillLabels, TypeInv, TypeOK
    <3>2. CASE Call(p)
      <4>1. PICK j \in Jobs[p] : Start(p, j)
        BY <3>2 DEF Call
      <4>2. j.op \in Ops
        BY TwinAssumption, JobType
      <4>3. pc'[p] = Entry(j.op)
        BY <4>1 DEF Start, Goto, TypeInv, TypeOK
      <4> QED
        BY <4>2, <4>3, EntryOnRoute DEF Entries, FillLabels
    <3> QED
      BY <1>2, <3>1, <3>2
  <2>3. Unwritten(p)' = {}
    BY <2>2 DEF Unwritten, FillLabels
  <2>4. \A q \in Procs : buf'[q] = buf[q] \/ buf'[q] = Empty
    BY <1>2 DEF Call, Start, Finish, Return, TypeInv, TypeOK
  <2>5. Unique'
    BY <2>1, <2>4, PlainEmpty DEF Unique
  <2>6. ASSUME NEW q \in Procs, q # p
        PROVE  Blank(db[Target(q)], Unwritten(q))'
    <3>1. Loading(q)' = Loading(q)
      BY <2>1, <2>6 DEF Loading
    <3>2. Target(q)' = Target(q) /\ Unwritten(q)' = Unwritten(q)
      BY <2>1, <2>6, <3>1 DEF Target, Unwritten
    <3> QED
      BY <2>1, <3>2 DEF Fresh, Blank
  <2> QED
    BY <2>3, <2>5, <2>6 DEF Fresh, Blank
<1>3. CASE Restart
  <2>1. db' = db /\ archive' = archive /\ \A q \in Procs : buf'[q] = Empty
    BY <1>3 DEF Restart
  <2>2. \A q \in Procs : Unwritten(q)' = {}
    BY <1>3 DEF Restart, Unwritten
  <2> QED
    BY <2>1, <2>2, PlainEmpty DEF Unique, Fresh, Blank
<1> QED
  BY <1>1, <1>2, <1>3

\* The databases are empty at the start.
LEMMA InitFresh == Init => Unique /\ Fresh
<1> SUFFICES ASSUME Init PROVE Unique /\ Fresh
  OBVIOUS
<1>1. Unique
  BY PlainEmpty DEF Init, TwinInit, ManagerInit, Unique
<1>2. \A p \in Procs : Unwritten(p) = {}
  BY DEF Init, TwinInit, Unwritten
<1> QED
  BY <1>1, <1>2 DEF Fresh, Blank

\* Every step keeps entities unique.
LEMMA NextFresh ==
  ASSUME LoadsApart, PayloadsPlain
  PROVE  Isolation /\ OnRoute /\ Unique /\ Fresh /\ [Next]_vars => Unique' /\ Fresh'
<1> SUFFICES ASSUME Isolation, OnRoute, Unique, Fresh, [Next]_vars
             PROVE  Unique' /\ Fresh'
  OBVIOUS
<1>1. TypeInv
  BY DEF Isolation
<1> QED
  BY <1>1, StepFresh, OtherFresh DEF Next

\* Goroutines stay on the routes of their operations.
LEMMA Routed == Spec => []OnRoute
  BY InitOnRoute, NextOnRoute, TypeCorrect, PTL DEF Spec

\* Spec => []NoDuplicates, when payloads have one node per URI and no other
\* goroutine loads a snapshot that a Diff may load: no logical database holds
\* an entity twice, although BulkCreate and CloneDB use CREATE, one statement
\* per label (neo4j.go), and any of them may be the last one before an error
\* or a restart; callers may reuse names and delete what they like.
THEOREM EntitiesAreUnique ==
  ASSUME LoadsApart, PayloadsPlain
  PROVE  Spec => []NoDuplicates
<1>1. Unique => NoDuplicates
  BY DEF Unique, Plain, NoDuplicates
<1> QED
  BY <1>1, InitFresh, NextFresh, Isolated, Routed, PTL DEF Spec

-----------------------------------------------------------------------------
(* Restore and Diff.                                                        *)

\* Diff takes no lock: while a goroutine may be given one, no other goroutine
\* restores or diffs.
LoadsAlone ==
    \A p, q \in Procs : \A i \in Jobs[p], j \in Jobs[q] :
        p # q /\ i.op = "diff" => Names(j) = {}

\* Delete takes no lock: no other goroutine deletes what one loads.
DeletesApart ==
    \A p, q \in Procs : \A i \in Jobs[p], j \in Jobs[q] :
        p # q /\ j.op = "delete" => j.a \notin Names(i)

\* cleanupExpired deletes under Create's read lock, which Diff does not take.
RetentionApart ==
    Retention => \A p \in Procs : \A j \in Jobs[p] : j.op # "diff"

Calm == /\ ~Faults /\ ~Crashes /\ ~Careless
        /\ LoadsAlone /\ DeletesApart /\ RetentionApart /\ PayloadsPlain

\* A content in which every relation joins existing nodes.
Anchored(c) == \A e \in Rels : c.r[e] > 0 => c.n[e[1]] > 0 /\ c.n[e[2]] > 0

\* The part of m that BulkCreate or CloneDB has written when the labels ls,
\* or the types ts, are left to write.
PartNodes(m, ls) ==
    [n |-> [u \in Uris |-> IF LabelOf[u] \in ls THEN 0 ELSE m.n[u]],
     r |-> [e \in Rels |-> 0]]
PartRels(m, ts) ==
    [n |-> m.n, r |-> [e \in Rels |-> IF TypeOf[e] \in ts THEN 0 ELSE m.r[e]]]

\* The ranks of the accesses: no two entries share one, and they have no gap
\* above them.
Entered(la) == {t \in Snaps : la[t] # 0}
Ranked(la) ==
    /\ \A s, t \in Snaps : la[s] # 0 /\ la[s] = la[t] => s = t
    /\ \A s \in Snaps : la[s] <= Cardinality(Entered(la))

\* A file that is neither missing nor complete is being written.
Written ==
    \A s \in Snaps : archive[s].st \notin {"none", "whole"} =>
        \E p \in Procs : pc[p] \in {"c_write", "c_body", "c_rest"} /\ job[p].a = s

\* Archives and the live database are sound, whoever is doing what.
Sound ==
    /\ Anchored(db[Default])
    /\ \A s \in WholeArchives : Anchored(archive[s].c)
    /\ Ranked(lastAccess)
    /\ Written
    /\ \A p \in Procs :
          /\ job[p].op = "diff" => {job[p].a, job[p].b} \subseteq WholeArchives
          /\ pc[p] \in QueueLabels /\ job[p].op = "create" => Retention

Intact(s) == s \in WholeArchives /\ db[s] = archive[s].c

\* A logical database holds nothing, or its archive, or is being filled.
Cached ==
    \A s \in Snaps :
        \/ db[s] = Empty
        \/ Intact(s)
        \/ \E p \in Procs : pc[p] \in {"e_nodes", "e_rels"} /\ Loading(p) = s

\* The snapshots that EnsureLoaded has loaded and the caller still needs; with
\* max_active = 1 the second load of a Diff may evict the first one.
First(p) == IF second[p] /\ MaxActive > 1 THEN {job[p].a} ELSE {}
Held(p) ==
    CASE pc[p] \in {"e_has", "e_import", "e_nodes", "e_rels"} -> First(p) \ {Loading(p)}
      [] pc[p] \in {"e_list", "e_evict", "e_forget"} -> First(p) \cup {Loading(p)}
      [] pc[p] \in {"r_clear", "r_nodes", "r_rels"} -> {job[p].a}
      [] pc[p] = "diff" -> {job[p].b} \cup (IF MaxActive > 1 THEN {job[p].a} ELSE {})
      [] OTHER -> {}

\* They are the latest accessed, and not among those to evict.
Above(s, others) == \A t \in Snaps \ others : lastAccess[t] < lastAccess[s]
Latest(p) ==
    /\ pc[p] \in {"e_import", "e_nodes", "e_rels", "e_list", "e_evict", "e_forget"}
          => Above(Loading(p), {Loading(p)})
    /\ pc[p] \in {"e_has", "e_import", "e_nodes", "e_rels", "e_list", "e_evict", "e_forget"}
          => \A s \in First(p) : Above(s, {s, Loading(p)})
    /\ pc[p] \in {"e_evict", "e_forget"} => Pending(queue[p]) \cap Held(p) = {}

\* How far the load, or the clone, has come.
Filling(p) ==
    LET s == Loading(p) IN
    /\ pc[p] = "e_import" => db[s] = Empty
    /\ pc[p] = "e_nodes" => /\ s \in WholeArchives /\ buf[p] = archive[s].c
                            /\ db[s] = PartNodes(buf[p], todo[p])
    /\ pc[p] = "e_rels"  => /\ s \in WholeArchives /\ buf[p] = archive[s].c
                            /\ db[s] = PartRels(buf[p], todo[p])
Cloning(p) ==
    LET s == job[p].a IN
    /\ pc[p] \in {"r_nodes", "r_rels"} => db[Default] = Empty
    /\ pc[p] = "r_rels" => buf[p].n = archive[s].c.n
    /\ pc[p] = "r_wnodes" => /\ s \in WholeArchives /\ buf[p] = archive[s].c
                             /\ db[Default] = PartNodes(buf[p], todo[p])
    /\ pc[p] = "r_wrels"  => /\ s \in WholeArchives /\ buf[p] = archive[s].c
                             /\ db[Default] = PartRels(buf[p], todo[p])
    /\ pc[p] = "ok" /\ job[p].op = "restore"
          => s \in WholeArchives /\ db[Default] = archive[s].c

FaithfulAt(p) == /\ \A s \in Held(p) : Intact(s)
                 /\ Latest(p) /\ Filling(p) /\ Cloning(p)
Faithful == \A p \in Procs : FaithfulAt(p)

\* Together with Isolation, OnRoute, Catalog, Unique and Fresh these are
\* inductive.
RestoreInv == Sound /\ Cached /\ Faithful

\* What the steps are shown under.
Setting == Isolation /\ OnRoute /\ Catalog /\ Unique /\ RestoreInv
-----------------------------------------------------------------------------
(* Statements on contents.                                                  *)

\* Before the first label is written there is nothing.
LEMMA PartsEmpty ==
  ASSUME NEW m \in Content
  PROVE  PartNodes(m, LabelsIn(m)) = Empty
<1>1. \A u \in Uris : m.n[u] \in Nat
  BY ContentParts, CopiesNat
<1>2. \A u \in Uris : LabelOf[u] \notin LabelsIn(m) => m.n[u] = 0
  BY <1>1 DEF LabelsIn
<1> QED
  BY <1>2 DEF PartNodes, Empty

\* When all labels are written, no type is yet.
LEMMA PartsNodes ==
  ASSUME NEW m \in Content
  PROVE  PartNodes(m, {}) = PartRels(m, TypesIn(m))
<1>1. \A e \in Rels : m.r[e] \in Nat
  BY ContentParts, CopiesNat
<1>2. \A e \in Rels : TypeOf[e] \notin TypesIn(m) => m.r[e] = 0
  BY <1>1 DEF TypesIn
<1>3. m.n = [u \in Uris |-> m.n[u]]
  BY ContentParts
<1> QED
  BY <1>2, <1>3 DEF PartNodes, PartRels

\* When all types are written too, the content is whole.
LEMMA PartsWhole ==
  ASSUME NEW m \in Content
  PROVE  PartRels(m, {}) = m
BY DEF PartRels, Content

\* Counting copies up to the cap does not change a capped count.
LEMMA CopiesSat == ASSUME NEW k \in Copies PROVE Sat(k) = k
BY GraphAssumption DEF Copies, Sat

\* Contents are equal when their counts are.
LEMMA SameContent ==
  ASSUME NEW c \in Content, NEW d \in Content,
         \A u \in Uris : c.n[u] = d.n[u], \A e \in Rels : c.r[e] = d.r[e]
  PROVE  c = d
<1>1. c.n = d.n
  BY ContentParts
<1>2. c.r = d.r
  BY ContentParts
<1> QED
  BY <1>1, <1>2 DEF Content

\* A part of a content is a content.
LEMMA PartsType ==
  ASSUME NEW m \in Content, NEW s
  PROVE  PartNodes(m, s) \in Content /\ PartRels(m, s) \in Content
<1>1. m.n \in [Uris -> Copies] /\ m.r \in [Rels -> Copies]
  BY ContentParts
<1>2. [u \in Uris |-> IF LabelOf[u] \in s THEN 0 ELSE m.n[u]] \in [Uris -> Copies]
  BY <1>1, CopiesNat
<1>3. /\ [e \in Rels |-> 0] \in [Rels -> Copies]
      /\ [e \in Rels |-> IF TypeOf[e] \in s THEN 0 ELSE m.r[e]] \in [Rels -> Copies]
  BY <1>1, CopiesNat
<1> QED
  BY <1>1, <1>2, <1>3 DEF PartNodes, PartRels, Content

\* CREATE of one label adds its nodes to the part.
LEMMA CreateNodesPart ==
  ASSUME NEW m \in Content, NEW ls, NEW g \in ls
  PROVE  CreateNodes(PartNodes(m, ls), m, g) = PartNodes(m, ls \ {g})
<1> DEFINE c == PartNodes(m, ls)
           x == CreateNodes(c, m, g)
           y == PartNodes(m, ls \ {g})
<1>1. c \in Content /\ x \in Content /\ y \in Content
  BY PartsType, CreateNodesType
<1>2. \A u \in Uris : /\ c.n[u] = IF LabelOf[u] \in ls THEN 0 ELSE m.n[u]
                      /\ y.n[u] = IF LabelOf[u] \in ls \ {g} THEN 0 ELSE m.n[u]
  BY DEF PartNodes
<1>3. \A e \in Rels : c.r[e] = 0 /\ y.r[e] = 0
  BY DEF PartNodes
<1> HIDE DEF c, y
<1>4. /\ \A u \in Uris : x.n[u] = IF LabelOf[u] = g THEN Sat(c.n[u] + m.n[u]) ELSE c.n[u]
      /\ x.r = c.r
  BY <1>1 DEF CreateNodes, Content
<1>5. \A u \in Uris : Sat(0 + m.n[u]) = m.n[u]
  BY ContentParts, CopiesNat, CopiesSat
<1>6. \A u \in Uris : x.n[u] = y.n[u]
  BY <1>2, <1>4, <1>5
<1> HIDE DEF x
<1>7. x = y
  BY <1>1, <1>3, <1>4, <1>6, SameContent
<1> QED
  BY <1>7 DEF c, x, y

\* CREATE of one type adds its relations, where their ends are there once.
LEMMA CreateRelsPart ==
  ASSUME NEW m \in Content, Plain(m), Anchored(m), NEW ts, NEW t \in ts
  PROVE  CreateRels(PartRels(m, ts), m, t) = PartRels(m, ts \ {t})
<1> DEFINE c == PartRels(m, ts)
           x == CreateRels(c, m, t)
           y == PartRels(m, ts \ {t})
<1>1. c \in Content /\ x \in Content /\ y \in Content
  BY PartsType, CreateRelsType
<1>2. \A e \in Rels : /\ c.r[e] = IF TypeOf[e] \in ts THEN 0 ELSE m.r[e]
                      /\ y.r[e] = IF TypeOf[e] \in ts \ {t} THEN 0 ELSE m.r[e]
  BY DEF PartRels
<1>3. c.n = m.n /\ y.n = m.n
  BY DEF PartRels
<1> HIDE DEF c, y
<1>4. /\ \A e \in Rels :
            x.r[e] = IF TypeOf[e] = t
                     THEN Sat(c.r[e] + m.r[e] * m.n[e[1]] * m.n[e[2]])
                     ELSE c.r[e]
      /\ x.n = c.n
  BY <1>1, <1>3 DEF CreateRels, Content
<1>5. ASSUME NEW e \in Rels
      PROVE  Sat(0 + m.r[e] * m.n[e[1]] * m.n[e[2]]) = m.r[e]
  <2>1. e[1] \in Uris /\ e[2] \in Uris
    BY GraphAssumption
  <2>2. /\ m.r[e] \in Copies /\ m.r[e] \in Nat
        /\ m.n[e[1]] \in 0 .. 1 /\ m.n[e[2]] \in 0 .. 1
    BY <2>1, ContentParts, CopiesNat DEF Plain
  <2>3. m.r[e] = 0 \/ (m.n[e[1]] = 1 /\ m.n[e[2]] = 1)
    BY <2>2 DEF Anchored
  <2>4. 0 + m.r[e] * m.n[e[1]] * m.n[e[2]] = m.r[e]
    <3>1. CASE m.r[e] = 0
      BY <2>2, <3>1
    <3>2. CASE m.n[e[1]] = 1 /\ m.n[e[2]] = 1
      BY <2>2, <3>2
    <3> QED
      BY <2>3, <3>1, <3>2
  <2> QED
    BY <2>2, <2>4, CopiesSat
<1>6. \A e \in Rels : x.r[e] = y.r[e]
  <2> SUFFICES ASSUME NEW e \in Rels PROVE x.r[e] = y.r[e]
    OBVIOUS
  <2>1. CASE TypeOf[e] = t
    BY <1>2, <1>4, <1>5, <2>1
  <2>2. CASE TypeOf[e] # t
    BY <1>2, <1>4, <2>2
  <2> QED
    BY <2>1, <2>2
<1> HIDE DEF x
<1>7. x = y
  BY <1>1, <1>3, <1>4, <1>6, SameContent
<1> QED
  BY <1>7 DEF c, x, y

\* Without nodes there are no relations.
LEMMA AnchoredEmpty ==
  ASSUME NEW c \in Content, Anchored(c), ~HasNodes(c)
  PROVE  c = Empty
<1>1. /\ \A u \in Uris : c.n[u] \in Nat
      /\ \A e \in Rels : c.r[e] \in Nat /\ e[1] \in Uris /\ e[2] \in Uris
  BY ContentParts, CopiesNat, GraphAssumption
<1>2. \A u \in Uris : c.n[u] = 0
  BY <1>1 DEF HasNodes
<1>3. \A e \in Rels : c.r[e] = 0
  BY <1>1, <1>2 DEF Anchored
<1> QED
  BY <1>2, <1>3 DEF Content, Empty

-----------------------------------------------------------------------------
(* Relations stay anchored.                                                 *)

\* The ends of a relation and the counts are what they are.
LEMMA AnchorTypes ==
  ASSUME NEW c \in Content, NEW e \in Rels
  PROVE  /\ e[1] \in Uris /\ e[2] \in Uris
         /\ c.r[e] \in Nat /\ c.n[e[1]] \in Nat /\ c.n[e[2]] \in Nat
BY ContentParts, CopiesNat, GraphAssumption

\* The cap keeps none apart from some.
LEMMA SatPositive == ASSUME NEW k \in Nat PROVE Sat(k) > 0 <=> k > 0
BY GraphAssumption DEF Sat

\* Writing nodes leaves no relation without its ends.
LEMMA AnchoredNodes ==
  ASSUME NEW c \in Content, NEW m \in Content, NEW g, Anchored(c)
  PROVE  Anchored(CreateNodes(c, m, g)) /\ Anchored(MergeNodes(c, m, g))
<1>1. ASSUME NEW u \in Uris, c.n[u] > 0
      PROVE  CreateNodes(c, m, g).n[u] > 0 /\ MergeNodes(c, m, g).n[u] > 0
  <2>1. c.n[u] \in Nat /\ m.n[u] \in Nat
    BY ContentParts, CopiesNat
  <2>2. Sat(c.n[u] + m.n[u]) > 0
    BY <1>1, <2>1, SatPositive
  <2> QED
    BY <1>1, <2>1, <2>2 DEF CreateNodes, MergeNodes, Content
<1>2. CreateNodes(c, m, g).r = c.r /\ MergeNodes(c, m, g).r = c.r
  BY DEF CreateNodes, MergeNodes, Content
<1> QED
  BY <1>1, <1>2, AnchorTypes DEF Anchored

\* A product of counts that is not zero has no zero factor.
LEMMA ProductPositive ==
  ASSUME NEW i \in Nat, NEW j \in Nat, NEW k \in Nat
  PROVE  /\ i * j * k > 0 => j > 0 /\ k > 0
         /\ j * k > 0 => j > 0 /\ k > 0
<1>1. CASE j = 0
  BY <1>1
<1>2. CASE k = 0
  BY <1>2
<1> QED
  BY <1>1, <1>2

\* Writing relations writes none without its ends.
LEMMA AnchoredRels ==
  ASSUME NEW c \in Content, NEW m \in Content, NEW g, Anchored(c)
  PROVE  Anchored(CreateRels(c, m, g)) /\ Anchored(MergeRels(c, m, g))
<1> SUFFICES ASSUME NEW e \in Rels
             PROVE  /\ CreateRels(c, m, g).r[e] > 0 => c.n[e[1]] > 0 /\ c.n[e[2]] > 0
                    /\ MergeRels(c, m, g).r[e] > 0 => c.n[e[1]] > 0 /\ c.n[e[2]] > 0
  BY RelsKeepNodes DEF Anchored
<1> DEFINE x == c.n[e[1]]
           y == c.n[e[2]]
<1>1. /\ c.r[e] \in Nat /\ m.r[e] \in Nat /\ x \in Nat /\ y \in Nat
      /\ x * y \in Nat /\ m.r[e] * x * y \in Nat
  BY AnchorTypes, ArithType
<1>2. c.r[e] > 0 => x > 0 /\ y > 0
  BY DEF Anchored
<1>3. CreateRels(c, m, g).r[e] = c.r[e] \/ CreateRels(c, m, g).r[e] = Sat(c.r[e] + m.r[e] * x * y)
  BY DEF CreateRels, Content
<1>4. MergeRels(c, m, g).r[e] = c.r[e] \/ MergeRels(c, m, g).r[e] = Sat(x * y)
  BY DEF MergeRels, Content
<1>5. m.r[e] * x * y > 0 => x > 0 /\ y > 0
  BY <1>1, ProductPositive
<1>6. x * y > 0 => x > 0 /\ y > 0
  BY <1>1, ProductPositive
<1>7. Sat(c.r[e] + m.r[e] * x * y) > 0 => x > 0 /\ y > 0
  <2> DEFINE z == m.r[e] * x * y
  <2>1. z \in Nat /\ (z > 0 => x > 0 /\ y > 0)
    BY <1>1, <1>5
  <2> HIDE DEF z
  <2>2. c.r[e] + z \in Nat /\ (Sat(c.r[e] + z) > 0 <=> c.r[e] + z > 0)
    BY <1>1, <2>1, SatPositive
  <2>3. Sat(c.r[e] + z) > 0 => x > 0 /\ y > 0
    BY <1>1, <1>2, <2>1, <2>2
  <2> QED
    BY <2>3 DEF z
<1>8. Sat(x * y) > 0 => x > 0 /\ y > 0
  BY <1>1, <1>6, SatPositive
<1> QED
  BY <1>2, <1>3, <1>4, <1>7, <1>8

\* Deleting takes the relations with their ends.
LEMMA AnchoredDeletes ==
  ASSUME NEW c \in Content, NEW gone, NEW t, Anchored(c)
  PROVE  Anchored(DetachDelete(c, gone)) /\ Anchored(DropRels(c, gone, t))
<1>1. \A e \in Rels : c.r[e] > 0 => c.n[e[1]] > 0 /\ c.n[e[2]] > 0
  BY DEF Anchored
<1>2. \A e \in Rels : DropRels(c, gone, t).r[e] > 0 => c.r[e] > 0
  BY DEF DropRels, Content
<1>3. ASSUME NEW e \in Rels, DetachDelete(c, gone).r[e] > 0
      PROVE  e[1] \notin gone /\ e[2] \notin gone /\ c.r[e] > 0
  BY <1>3 DEF DetachDelete
<1>4. Anchored(DropRels(c, gone, t))
  BY <1>1, <1>2, RelsKeepNodes DEF Anchored
<1>5. Anchored(DetachDelete(c, gone))
  BY <1>1, <1>3, AnchorTypes DEF Anchored, DetachDelete
<1> QED
  BY <1>4, <1>5

-----------------------------------------------------------------------------
(* The ranks of the accesses.                                               *)

\* The snapshots with an access time are finitely many.
LEMMA EnteredFinite ==
  ASSUME NEW la \in [Snaps -> Nat]
  PROVE  IsFiniteSet(Entered(la)) /\ Cardinality(Entered(la)) \in Nat
<1>1. Entered(la) \subseteq Snaps
  BY DEF Entered
<1> QED
  BY <1>1, TwinAssumption, FS_Subset, FS_CardinalityType

\* Forgetting an access keeps the order of the others.
LEMMA ForgetRanked ==
  ASSUME NEW la \in [Snaps -> Nat], Ranked(la), NEW s \in Snaps
  PROVE  /\ Ranked(Forget(la, s))
         /\ Entered(Forget(la, s)) = Entered(la) \ {s}
         /\ \A t, u \in Snaps \ {s} :
               la[t] < la[u] => Forget(la, s)[t] < Forget(la, s)[u]
<1> DEFINE f == Forget(la, s)
           N == Cardinality(Entered(la))
<1>1. /\ N \in Nat
      /\ \A t \in Snaps : la[t] \in Nat /\ la[t] <= N
      /\ \A t, u \in Snaps : la[t] # 0 /\ la[t] = la[u] => t = u
  BY EnteredFinite DEF Ranked
<1>2. \A t \in Snaps : f[t] = IF t = s THEN 0
                              ELSE IF la[s] # 0 /\ la[t] > la[s] THEN la[t] - 1
                              ELSE la[t]
  BY DEF Forget
<1>3. \A t \in Snaps \ {s} : f[t] # 0 <=> la[t] # 0
  BY <1>1, <1>2
<1>4. Entered(f) = Entered(la) \ {s}
  BY <1>2, <1>3 DEF Entered
<1>5. \A t, u \in Snaps \ {s} : la[t] < la[u] => f[t] < f[u]
  BY <1>1, <1>2
<1>6. Cardinality(Entered(f)) = IF la[s] # 0 THEN N - 1 ELSE N
  <2>1. Cardinality(Entered(la) \ {s}) = IF s \in Entered(la) THEN N - 1 ELSE N
    BY EnteredFinite, FS_RemoveElement
  <2>2. s \in Entered(la) <=> la[s] # 0
    BY DEF Entered
  <2> QED
    BY <1>4, <2>1, <2>2
<1>7. \A t \in Snaps : f[t] <= Cardinality(Entered(f))
  <2>1. CASE la[s] = 0
    BY <1>1, <1>2, <1>6, <2>1
  <2>2. CASE la[s] # 0
    BY <1>1, <1>2, <1>6, <2>2
  <2> QED
    BY <2>1, <2>2
<1>8. \A t, u \in Snaps : f[t] # 0 /\ f[t] = f[u] => t = u
  BY <1>1, <1>2
<1> QED
  BY <1>4, <1>5, <1>7, <1>8 DEF Ranked

\* An access makes its snapshot the latest and keeps the order of the others.
LEMMA TouchRanked ==
  ASSUME NEW la \in [Snaps -> Nat], Ranked(la), NEW s \in Snaps
  PROVE  /\ Ranked(Touch(la, s))
         /\ \A t \in Snaps \ {s} : Touch(la, s)[t] < Touch(la, s)[s]
         /\ \A t, u \in Snaps \ {s} :
               la[t] < la[u] => Touch(la, s)[t] < Touch(la, s)[u]
<1> DEFINE f == Forget(la, s)
           g == Touch(la, s)
           E == Entered(la) \ {s}
           K == Cardinality(E)
<1>1. /\ Ranked(f) /\ Entered(f) = E
      /\ \A t, u \in Snaps \ {s} : la[t] < la[u] => f[t] < f[u]
  BY ForgetRanked
<1>2. E = {t \in Snaps \ {s} : la[t] # 0}
  BY DEF Entered
<1>3. f \in [Snaps -> Nat]
  BY RankType
<1>4. /\ g[s] = 1 + K
      /\ \A t \in Snaps \ {s} : g[t] = f[t]
  BY <1>2, <1>3 DEF Touch
<1>5. IsFiniteSet(E) /\ K \in Nat
  BY EnteredFinite, FS_RemoveElement, FS_CardinalityType
<1>6. \A t \in Snaps : f[t] \in Nat /\ f[t] <= K
  BY <1>1, <1>3 DEF Ranked
<1>7. Entered(g) = E \cup {s}
  <2>1. \A t \in Snaps \ {s} : f[t] # 0 <=> t \in E
    BY <1>1 DEF Entered
  <2> QED
    BY <1>4, <1>5, <2>1 DEF Entered
<1>8. Cardinality(Entered(g)) = K + 1
  BY <1>5, <1>7, FS_AddElement
<1>9. Ranked(g)
  <2>1. \A t \in Snaps : g[t] <= K + 1
    BY <1>4, <1>5, <1>6
  <2>2. \A t, u \in Snaps : f[t] # 0 /\ f[t] = f[u] => t = u
    BY <1>1 DEF Ranked
  <2>3. \A t, u \in Snaps : g[t] # 0 /\ g[t] = g[u] => t = u
    <3> HIDE DEF f, g, K
    <3> QED
      BY <1>4, <1>5, <1>6, <2>2
  <2> QED
    BY <1>8, <2>1, <2>3 DEF Ranked
<1>10. \A t \in Snaps \ {s} : g[t] < g[s]
  <2> HIDE DEF f, g, K
  <2> QED
    BY <1>4, <1>5, <1>6
<1>11. \A t, u \in Snaps \ {s} : la[t] < la[u] => g[t] < g[u]
  BY <1>1, <1>4
<1> QED
  BY <1>9, <1>10, <1>11
-----------------------------------------------------------------------------
(* One goroutine at a time loads, or works on what it has loaded.           *)

LoadLabels == {"e_has", "e_import", "e_nodes", "e_rels", "e_list", "e_evict",
               "e_forget"}
UseLabels  == {"r_clear", "r_nodes", "r_rels", "diff"}

Engaged(p) == /\ pc[p] \in LoadLabels \cup UseLabels
              /\ job[p].op = "restore" => lk[p] = "write"

\* Only Restore and Diff load.
LEMMA LoadersOp ==
  ASSUME OnRoute, NEW p \in Procs, pc[p] \in LoadLabels \cup UseLabels
  PROVE  /\ job[p] \in Jobs[p]
         /\ job[p].op \in {"restore", "diff"}
         /\ job[p].op = "restore" => ~second[p] /\ pc[p] # "diff"
         /\ pc[p] \in {"r_clear", "r_nodes", "r_rels"} => job[p].op = "restore"
<1>1. /\ job[p] \in Jobs[p] /\ pc[p] \in Route(job[p].op)
      /\ second[p] => job[p].op = "diff"
  BY DEF OnRoute, LoadLabels, UseLabels
<1> QED
  BY <1>1 DEF Route, LoadLabels, UseLabels

\* Two goroutines never load, or use what they loaded, at once.
LEMMA EngagedAlone ==
  ASSUME Calm, Isolation, OnRoute, NEW p \in Procs, NEW q \in Procs, p # q,
         Engaged(p), Engaged(q)
  PROVE  FALSE
<1>1. /\ job[p] \in Jobs[p] /\ job[p].op \in {"restore", "diff"}
      /\ job[q] \in Jobs[q] /\ job[q].op \in {"restore", "diff"}
  BY LoadersOp DEF Engaged
<1>2. CASE job[p].op = "restore" /\ job[q].op = "restore"
  BY <1>2 DEF Engaged, Isolation, Exclusion
<1>3. Names(job[p]) # {} /\ Names(job[q]) # {}
  BY <1>1 DEF Names
<1> QED
  BY <1>1, <1>2, <1>3 DEF Calm, LoadsAlone

\* After the first look a loader is engaged.
LEMMA EngagedPast ==
  ASSUME OnRoute, NEW p \in Procs,
         pc[p] \in (LoadLabels \cup UseLabels) \ {"e_has"}
  PROVE  Engaged(p)
<1>1. lk[p] = LockFor(job[p].op)
  BY Settled DEF LoadLabels, UseLabels, Entries
<1> QED
  BY <1>1 DEF Engaged, LockFor, WriteOps

\* A goroutine that makes a step of loading or using is engaged.
LEMMA EngagedStep ==
  ASSUME NEW p \in Procs, Own(p), pc[p] \in LoadLabels \cup UseLabels
  PROVE  Engaged(p)
BY DEF Own, Engaged, LockFor, WriteOps

\* What a loader needs is named by its call.
LEMMA EngagedNames ==
  ASSUME OnRoute, NEW p \in Procs, pc[p] \in LoadLabels \cup UseLabels
  PROVE  /\ Held(p) \subseteq Names(job[p])
         /\ pc[p] \in LoadLabels => Loading(p) \in Names(job[p])
<1>1. /\ job[p].op \in {"restore", "diff"}
      /\ job[p].op = "restore" => ~second[p] /\ pc[p] # "diff"
  BY LoadersOp
<1> QED
  BY <1>1 DEF Held, First, Loading, Names

\* A call names snapshots.
LEMMA NamesSnaps ==
  ASSUME TypeInv, NEW p \in Procs, pc[p] # "idle"
  PROVE  Names(job[p]) \subseteq Snaps
<1>1. job[p] \in Job
  BY NamesType
<1> QED
  BY <1>1, JobType DEF Names

-----------------------------------------------------------------------------
(* What another goroutine's step leaves alone.                              *)

\* Outside EnsureLoaded a step records no access and changes no snapshot
\* database, but that Delete may clear one.
LEMMA StepSpares ==
  ASSUME TypeInv, ~Faults, NEW q \in Procs, Step(q), pc[q] \notin LoadLabels
  PROVE  /\ lastAccess' = lastAccess
         /\ \A s \in Snaps : \/ db'[s] = db[s]
                             \/ /\ pc[q] = "d_clear" /\ s = Doomed(q)
                                /\ db'[s] = Empty
<1>1. CASE \/ CreateReadNodes(q) \/ CreateReadRels(q) \/ CreateOpenFile(q)
           \/ CreateWriteMeta(q) \/ CreateWriteBody(q) \/ CreateWriteRest(q)
           \/ CreateCacheMeta(q) \/ CreateRepoMeta(q) \/ CreateExpire(q)
  BY <1>1 DEF CreateReadNodes, CreateReadRels, CreateOpenFile, CreateWriteMeta,
     CreateWriteBody, CreateWriteRest, CreateCacheMeta, CreateRepoMeta,
     CreateExpire, managerVars
<1>2. CASE DeleteClear(q)
  BY <1>2, DbNames DEF DeleteClear, SetDb, At, managerVars, TypeInv, TypeOK
<1>3. CASE DeleteSkip(q) \/ DeleteCacheMeta(q) \/ DeleteRepoMeta(q)
  BY <1>3 DEF DeleteSkip, DeleteCacheMeta, DeleteRepoMeta
<1>4. CASE \/ RestoreClear(q) \/ CloneReadNodes(q) \/ CloneReadRels(q)
           \/ CloneWriteNodes(q) \/ CloneWriteRels(q) \/ DiffQueries(q)
           \/ List(q)
  BY <1>4, DbNames DEF RestoreClear, CloneReadNodes, CloneReadRels,
     CloneWriteNodes, CloneWriteRels, DiffQueries, List, WriteNodes, WriteRels,
     SetDb, managerVars, TypeInv, TypeOK
<1>5. CASE SyncStep(q) /\ UNCHANGED managerVars
  BY <1>5, DbNames DEF SyncStep, FullClear, FullCollect, FullNodes, FullRels,
     UpdateAssemble, UpdateNodes, UpdateRels, DeleteNodes, MatchRels,
     DropMatched, QueryTopology, WriteNodes, WriteRels, SetDb, managerVars,
     TypeInv, TypeOK
<1>6. ~StatementFails(q)
  BY DEF StatementFails
<1>7. /\ ~LoadCheck(q) /\ ~LoadImport(q) /\ ~LoadNodes(q) /\ ~LoadRels(q)
      /\ ~CleanupList(q) /\ ~CleanupClear(q) /\ ~CleanupForget(q)
      /\ ~CleanupDone(q)
  BY DEF LoadCheck, LoadImport, LoadNodes, LoadRels, CleanupList, CleanupClear,
     CleanupForget, CleanupDone, WriteNodes, WriteRels, At, LoadLabels
<1> QED
  BY <1>1, <1>2, <1>3, <1>4, <1>5, <1>6, <1>7 DEF Step, ManagerStep

\* A complete archive is never written again.
LEMMA WholeStays ==
  ASSUME TypeInv, OnRoute, Catalog, NEW q \in Procs, Step(q),
         NEW s \in WholeArchives
  PROVE  archive'[s] = archive[s] /\ s \in WholeArchives'
<1>1. s \in Snaps
  BY DEF WholeArchives
<1>2. CASE pc[q] \notin CreateLabels
  BY <1>1, <1>2, OutsideCatalog, InsideCatalog DEF RegisterLabels, WholeArchives
<1>3. CASE pc[q] \in CreateLabels
  <2>1. s # job[q].a
    BY <1>3 DEF Catalog, WholeArchives
  <2> QED
    BY <1>1, <1>3, <2>1, InsideCatalog DEF RegisterLabels, WholeArchives
<1> QED
  BY <1>2, <1>3

\* The steps of others leave the databases of the snapshots a loader works on.
LEMMA OtherStill ==
  ASSUME Calm, Setting, NEW p \in Procs, NEW q \in Procs, p # q, Engaged(p),
         Step(q)
  PROVE  lastAccess' = lastAccess /\ \A s \in Names(job[p]) : db'[s] = db[s]
<1>1. /\ TypeInv /\ Isolation /\ OnRoute /\ Sound /\ Exclusion
      /\ Own(q) /\ ~Faults
  BY StepOwn DEF Setting, Isolation, RestoreInv, Calm
<1>2. pc[q] \notin LoadLabels
  BY <1>1, EngagedStep, EngagedAlone
<1>3. job[p] \in Jobs[p] /\ job[p].op \in {"restore", "diff"} /\ pc[p] # "idle"
  BY <1>1, LoadersOp DEF Engaged, LoadLabels, UseLabels
<1>4. ASSUME pc[q] = "d_clear"
      PROVE  Doomed(q) \notin Names(job[p])
  <2>1. /\ job[q].op \in {"create", "delete"} /\ job[q] \in Jobs[q]
    BY <1>1, <1>4 DEF OnRoute, Route
  <2>2. CASE job[q].op = "delete"
    BY <1>3, <2>1, <2>2 DEF Doomed, Calm, DeletesApart
  <2>3. CASE job[q].op = "create"
    <3>1. lk[q] = "read" /\ Retention
      BY <1>1, <1>4, <2>3 DEF Own, LockFor, WriteOps, ReadOps, Sound, QueueLabels
    <3>2. job[p].op = "restore"
      BY <1>3, <3>1 DEF Calm, RetentionApart
    <3> QED
      BY <1>1, <3>1, <3>2 DEF Engaged, Exclusion
  <2> QED
    BY <2>1, <2>2, <2>3
<1> QED
  BY <1>1, <1>2, <1>3, <1>4, NamesSnaps, StepSpares

\* So they leave what the loader has achieved.
LEMMA OtherFaithful ==
  ASSUME Calm, Setting, NEW p \in Procs, NEW q \in Procs, p # q, Step(q)
  PROVE  FaithfulAt(p)'
<1>1. /\ TypeInv /\ Isolation /\ OnRoute /\ Catalog /\ FaithfulAt(p)
      /\ Stages /\ Exclusion
  BY DEF Setting, Isolation, RestoreInv, Faithful
<1>2. /\ pc'[p] = pc[p] /\ buf'[p] = buf[p] /\ todo'[p] = todo[p]
      /\ queue'[p] = queue[p] /\ second'[p] = second[p] /\ job' = job
  BY <1>1, StepOwn DEF Own
<1>3. Loading(p)' = Loading(p) /\ First(p)' = First(p)
  BY <1>2 DEF Loading, First
<1>4. Held(p)' = Held(p)
  BY <1>2, <1>3 DEF Held
<1>5. \A s \in WholeArchives : archive'[s] = archive[s] /\ s \in WholeArchives'
  BY <1>1, WholeStays
<1>6. Engaged(p) => /\ lastAccess' = lastAccess
                    /\ \A s \in Names(job[p]) : db'[s] = db[s]
                    /\ Held(p) \subseteq Names(job[p])
                    /\ pc[p] \in LoadLabels => Loading(p) \in Names(job[p])
  BY <1>1, OtherStill, EngagedNames DEF Engaged
<1>7. ~Engaged(p) => /\ Held(p) = {} /\ (pc[p] = "e_has" => First(p) = {})
                     /\ pc[p] \notin (LoadLabels \cup UseLabels) \ {"e_has"}
  <2> SUFFICES ASSUME ~Engaged(p)
               PROVE  /\ Held(p) = {} /\ (pc[p] = "e_has" => First(p) = {})
                      /\ pc[p] \notin (LoadLabels \cup UseLabels) \ {"e_has"}
    OBVIOUS
  <2>1. pc[p] \notin (LoadLabels \cup UseLabels) \ {"e_has"}
    BY <1>1, EngagedPast
  <2>2. CASE pc[p] = "e_has"
    <3>1. ~second[p]
      BY <1>1, <2>2, LoadersOp DEF Engaged, LoadLabels
    <3> QED
      BY <2>1, <2>2, <3>1 DEF Held, First
  <2>3. CASE pc[p] # "e_has"
    <3>1. Held(p) = {}
      BY <2>1, <2>3 DEF Held, LoadLabels, UseLabels
    <3> QED
      BY <2>1, <2>3, <3>1
  <2> QED
    BY <2>2, <2>3
<1>8. \A s \in Held(p) : Intact(s)'
  BY <1>1, <1>5, <1>6, <1>7 DEF FaithfulAt, Intact
<1>9. Latest(p)'
  <2>1. CASE Engaged(p)
    BY <1>1, <1>2, <1>3, <1>4, <1>6, <2>1 DEF FaithfulAt, Latest, Above
  <2>2. CASE ~Engaged(p)
    BY <1>2, <1>3, <1>7, <2>2 DEF Latest, LoadLabels, UseLabels
  <2> QED
    BY <2>1, <2>2
<1>10. Filling(p)'
  <2>1. CASE Engaged(p)
    <3>1. pc[p] \in {"e_import", "e_nodes", "e_rels"} => db'[Loading(p)] = db[Loading(p)]
      BY <1>6, <2>1 DEF LoadLabels
    <3> QED
      BY <1>1, <1>2, <1>3, <1>5, <3>1 DEF FaithfulAt, Filling
  <2>2. CASE ~Engaged(p)
    BY <1>2, <1>7, <2>2 DEF Filling, LoadLabels, UseLabels
  <2> QED
    BY <2>1, <2>2
<1>11. Cloning(p)'
  <2> DEFINE Clones == \/ pc[p] \in {"r_nodes", "r_rels", "r_wnodes", "r_wrels"}
                       \/ pc[p] = "ok" /\ job[p].op = "restore"
  <2>1. CASE Clones
    <3>1. job[p].op \in WriteOps
      BY <1>1, <2>1 DEF Stages, LiveLabels, WriteOps
    <3>2. lk[p] = "write"
      BY <1>1, <2>1, <3>1, Settled DEF LockFor, Entries
    <3>3. db'[Default] = db[Default]
      BY <1>1, <3>2, StepFramed DEF StepFrame, Exclusion
    <3>4. pc[p] = "r_rels" => job[p].a \in WholeArchives
      BY <1>1 DEF FaithfulAt, Held, Intact
    <3> QED
      BY <1>1, <1>2, <1>5, <3>3, <3>4 DEF FaithfulAt, Cloning
  <2>2. CASE ~Clones
    BY <1>2, <2>2 DEF Cloning
  <2> QED
    BY <2>1, <2>2
<1> QED
  BY <1>4, <1>8, <1>9, <1>10, <1>11 DEF FaithfulAt
-----------------------------------------------------------------------------
(* What a loader's own step achieves.                                       *)

\* EnsureLoaded returns: its snapshot is loaded and is the latest accessed.
LEMMA LoadedFaithful ==
  ASSUME TypeInv, OnRoute, NEW p \in Procs, pc[p] \in LoadLabels, LoadedNext(p),
         UNCHANGED <<db, job, archive>>,
         \A t \in Snaps \ {Loading(p)} : lastAccess'[t] < lastAccess'[Loading(p)],
         \A s \in First(p) \cup {Loading(p)} : Intact(s)
  PROVE  FaithfulAt(p)'
<1>1. /\ job[p].op \in {"restore", "diff"}
      /\ job[p].op = "restore" => ~second[p]
  BY LoadersOp
<1>2. \A s \in Snaps : Intact(s) => Intact(s)'
  BY DEF Intact, WholeArchives
<1>3. CASE job[p].op = "restore"
  <2>1. pc'[p] = "r_clear" /\ Loading(p) = job[p].a
    BY <1>1, <1>3 DEF LoadedNext, Goto, Loading, TypeInv, TypeOK
  <2>2. Held(p)' = {Loading(p)}
    BY <2>1 DEF Held
  <2> QED
    BY <1>2, <2>1, <2>2 DEF FaithfulAt, Latest, Filling, Cloning, Intact, WholeArchives
<1>4. CASE job[p].op = "diff" /\ second[p]
  <2>1. pc'[p] = "diff" /\ Loading(p) = job[p].b
    BY <1>4 DEF LoadedNext, Goto, Loading, TypeInv, TypeOK
  <2>2. Held(p)' \subseteq First(p) \cup {Loading(p)}
    BY <1>4, <2>1 DEF Held, First
  <2> QED
    BY <1>2, <2>1, <2>2 DEF FaithfulAt, Latest, Filling, Cloning, Intact, WholeArchives
<1>5. CASE job[p].op = "diff" /\ ~second[p]
  <2>1. pc'[p] = "e_has" /\ second'[p] /\ Loading(p) = job[p].a
    BY <1>5 DEF LoadedNext, Goto, Loading, TypeInv, TypeOK
  <2>2. First(p)' \subseteq {Loading(p)} /\ Held(p)' \subseteq {Loading(p)}
    BY <2>1 DEF First, Held
  <2>3. \A s \in First(p)' : \A t \in Snaps \ {s, Loading(p)'} : lastAccess'[t] < lastAccess'[s]
    BY <2>2
  <2>4. \A s \in Held(p)' : Intact(s)'
    BY <1>2, <2>2 DEF Intact, WholeArchives
  <2>5. Latest(p)' /\ Filling(p)' /\ Cloning(p)'
    BY <2>1, <2>3 DEF Latest, Above, Filling, Cloning
  <2> QED
    BY <2>4, <2>5 DEF FaithfulAt
<1> QED
  BY <1>1, <1>3, <1>4, <1>5

\* What HasDB sees is empty or the archive: nobody else is filling it.
LEMMA CachedNow ==
  ASSUME Calm, Setting, NEW p \in Procs, Own(p), pc[p] = "e_has"
  PROVE  db[Loading(p)] = Empty \/ Intact(Loading(p))
<1>1. TypeInv /\ Isolation /\ OnRoute /\ Cached /\ Engaged(p)
  BY EngagedStep DEF Setting, Isolation, RestoreInv, LoadLabels
<1>2. Loading(p) \in Snaps
  BY <1>1, NamesType DEF Own
<1>3. ASSUME NEW q \in Procs, pc[q] \in {"e_nodes", "e_rels"}
      PROVE  FALSE
  <2>1. q # p
    BY <1>3
  <2>2. Engaged(q)
    BY <1>1, <1>3, EngagedPast DEF LoadLabels
  <2> QED
    BY <1>1, <2>1, <2>2, EngagedAlone
<1> QED
  BY <1>1, <1>2, <1>3 DEF Cached

\* A complete archive holds a content with nothing twice and no loose relation.
LEMMA ArchivesSound ==
  ASSUME Setting, NEW s \in WholeArchives
  PROVE  archive[s].c \in Content /\ Plain(archive[s].c) /\ Anchored(archive[s].c)
BY ContentTypes DEF Setting, Isolation, RestoreInv, Sound, Unique, WholeArchives

\* A database found loaded holds what its archive holds.
LEMMA CheckFaithful ==
  ASSUME Calm, Setting, NEW p \in Procs, Own(p), LoadCheck(p)
  PROVE  FaithfulAt(p)'
<1> DEFINE s == Loading(p)
<1>1. /\ TypeInv /\ OnRoute /\ FaithfulAt(p) /\ Ranked(lastAccess)
      /\ lastAccess \in [Snaps -> Nat]
  BY DEF Setting, Isolation, RestoreInv, Sound, Faithful, TypeInv, TypeOK
<1>2. /\ pc[p] = "e_has" /\ lastAccess' = Touch(lastAccess, s)
      /\ UNCHANGED <<db, job, archive>> /\ s \in Snaps
  BY <1>1, NamesType DEF LoadCheck, At
<1>3. /\ \A t \in Snaps \ {s} : lastAccess'[t] < lastAccess'[s]
      /\ \A t, u \in Snaps \ {s} :
            lastAccess[t] < lastAccess[u] => lastAccess'[t] < lastAccess'[u]
  BY <1>1, <1>2, TouchRanked
<1>4. db[s] = Empty \/ Intact(s)
  BY <1>2, CachedNow
<1>5. \A t \in First(p) \ {s} : Intact(t)
  BY <1>1, <1>2 DEF FaithfulAt, Held
<1>6. CASE HasNodes(db[s]) /\ LoadedNext(p)
  <2>1. ~HasNodes(Empty)
    BY DEF HasNodes, Empty
  <2>2. Intact(s)
    BY <1>4, <1>6, <2>1
  <2>3. pc[p] \in LoadLabels
    BY <1>2 DEF LoadLabels
  <2> QED
    BY <1>1, <1>2, <1>3, <1>5, <1>6, <2>2, <2>3, LoadedFaithful
<1>7. CASE ~HasNodes(db[s]) /\ Goto(p, "e_import") /\ UNCHANGED second
  <2>1. db[s] = Empty
    <3>1. CASE Intact(s)
      BY <1>7, <3>1, ArchivesSound, AnchoredEmpty DEF Intact
    <3> QED
      BY <1>4, <3>1
  <2>2. pc'[p] = "e_import" /\ Loading(p)' = s /\ First(p)' = First(p)
    BY <1>1, <1>2, <1>7 DEF Goto, Loading, First, TypeInv, TypeOK
  <2>3. Held(p)' = First(p) \ {s}
    BY <2>2 DEF Held
  <2>4. \A t \in Held(p)' : Intact(t)'
    BY <1>2, <1>5, <2>3 DEF Intact, WholeArchives
  <2>5. ASSUME NEW t \in First(p), NEW x \in Snaps \ {t, s}
        PROVE  lastAccess'[x] < lastAccess'[t]
    <3>1. CASE t = s
      BY <1>3, <3>1
    <3>2. CASE t # s
      <4>1. t \in Snaps
        BY <1>1, <1>2, NamesType DEF First
      <4>2. lastAccess[x] < lastAccess[t]
        BY <1>1, <1>2 DEF FaithfulAt, Latest, Above
      <4> QED
        BY <1>3, <3>2, <4>1, <4>2
    <3> QED
      BY <3>1, <3>2
  <2>6. Latest(p)'
    BY <1>3, <2>2, <2>5 DEF Latest, Above
  <2>7. Filling(p)' /\ Cloning(p)'
    BY <1>2, <2>1, <2>2 DEF Filling, Cloning
  <2> QED
    BY <2>4, <2>6, <2>7 DEF FaithfulAt
<1> QED
  BY <1>6, <1>7 DEF LoadCheck

\* The file a loader reads is complete: a Create in the middle of it holds the
\* read lock, and a Diff is asked about complete ones.
LEMMA ImportWhole ==
  ASSUME Calm, Setting, NEW p \in Procs, Own(p), pc[p] = "e_import",
         archive[Loading(p)].st \in {"short", "whole"}
  PROVE  Loading(p) \in WholeArchives
<1>1. /\ TypeInv /\ OnRoute /\ Stages /\ Exclusion /\ Sound
      /\ Loading(p) \in Snaps /\ pc[p] \in LoadLabels
  BY NamesType DEF Setting, Isolation, RestoreInv, Own, LoadLabels
<1>2. CASE job[p].op = "diff"
  BY <1>1, <1>2 DEF Sound, Loading
<1>3. CASE job[p].op # "diff"
  <2>1. lk[p] = "write"
    BY <1>1, <1>3, LoadersOp DEF Own, LockFor, WriteOps
  <2>2. ASSUME NEW q \in Procs, pc[q] \in {"c_write", "c_body", "c_rest"}
        PROVE  FALSE
    <3>1. lk[q] = "read"
      BY <1>1, <2>2 DEF Stages, CutLabels
    <3> QED
      BY <1>1, <2>1, <3>1 DEF Exclusion
  <2>3. archive[Loading(p)].st \in {"none", "whole"}
    BY <1>1, <2>2 DEF Sound, Written
  <2> QED
    BY <1>1, <2>3 DEF WholeArchives
<1> QED
  BY <1>2, <1>3

\* The import starts with an empty database and the content of the archive.
LEMMA ImportFaithful ==
  ASSUME Calm, Setting, NEW p \in Procs, Own(p), LoadImport(p)
  PROVE  FaithfulAt(p)'
<1> DEFINE s == Loading(p)
<1>1. TypeInv /\ FaithfulAt(p)
  BY DEF Setting, Isolation, RestoreInv, Faithful
<1>2. /\ pc[p] = "e_import" /\ UNCHANGED <<db, job, archive, second, lastAccess>>
      /\ s \in Snaps
  BY <1>1, NamesType DEF LoadImport, At, managerVars
<1>3. CASE pc'[p] = "err"
  BY <1>3 DEF FaithfulAt, Held, Latest, Filling, Cloning
<1>4. CASE pc'[p] # "err"
  <2>1. /\ pc'[p] = "e_nodes" /\ archive[s].st \in {"short", "whole"}
        /\ buf'[p] = archive[s].c /\ todo'[p] = LabelsIn(archive[s].c)
    BY <1>1, <1>4 DEF LoadImport, Goto, TypeInv, TypeOK
  <2>2. s \in WholeArchives
    BY <1>2, <2>1, ImportWhole
  <2>3. db[s] = PartNodes(buf'[p], todo'[p])
    BY <1>1, <1>2, <2>1, <2>2, ArchivesSound, PartsEmpty DEF FaithfulAt, Filling
  <2>4. Loading(p)' = s /\ First(p)' = First(p)
    BY <1>2 DEF Loading, First
  <2>5. Held(p)' = Held(p)
    BY <1>2, <2>1, <2>4 DEF Held
  <2>6. \A t \in Held(p)' : Intact(t)'
    BY <1>1, <1>2, <2>5 DEF FaithfulAt, Intact, WholeArchives
  <2>7. Latest(p)'
    BY <1>1, <1>2, <2>1, <2>4 DEF FaithfulAt, Latest, Above
  <2>8. Filling(p)' /\ Cloning(p)'
    BY <1>2, <2>1, <2>2, <2>3, <2>4 DEF Filling, Cloning, WholeArchives
  <2> QED
    BY <2>6, <2>7, <2>8 DEF FaithfulAt
<1> QED
  BY <1>3, <1>4
-----------------------------------------------------------------------------
(* Filling a database, one statement at a time.                             *)

\* One statement writes one more label of the buffer.
LEMMA FilledNodes ==
  ASSUME TypeInv, NEW p \in Procs, NEW d \in Dbs, NEW l, NEW next,
         WriteNodes(p, d, l, next), db[d] = PartNodes(buf[p], todo[p])
  PROVE  /\ UNCHANGED <<lk, job, buf>>
         /\ \A x \in Dbs \ {d} : db'[x] = db[x]
         /\ \/ pc'[p] = l /\ db'[d] = PartNodes(buf[p], todo'[p])
            \/ pc'[p] = next /\ db'[d] = PartRels(buf[p], todo'[p])
<1>1. buf[p] \in Content
  BY DEF TypeInv, TypeOK
<1>2. ASSUME NEW g \in todo[p], SetDb(d, CreateNodes(db[d], buf[p], g)),
             todo' = [todo EXCEPT ![p] = @ \ {g}], UNCHANGED pc
      PROVE  /\ \A x \in Dbs \ {d} : db'[x] = db[x]
             /\ pc'[p] = l /\ db'[d] = PartNodes(buf[p], todo'[p])
  <2>1. todo'[p] = todo[p] \ {g} /\ pc'[p] = l
    BY <1>2 DEF WriteNodes, At, TypeInv, TypeOK
  <2>2. CreateNodes(db[d], buf[p], g) = PartNodes(buf[p], todo[p] \ {g})
    BY <1>1, <1>2, CreateNodesPart
  <2> QED
    BY <1>2, <2>1, <2>2 DEF SetDb, TypeInv, TypeOK
<1>3. ASSUME todo[p] = {}, todo' = [todo EXCEPT ![p] = TypesIn(buf[p])],
             Goto(p, next), db' = db
      PROVE  /\ \A x \in Dbs \ {d} : db'[x] = db[x]
             /\ pc'[p] = next /\ db'[d] = PartRels(buf[p], todo'[p])
  <2>1. todo'[p] = TypesIn(buf[p]) /\ pc'[p] = next
    BY <1>3 DEF Goto, TypeInv, TypeOK
  <2> QED
    BY <1>1, <1>3, <2>1, PartsNodes
<1> QED
  BY <1>2, <1>3 DEF WriteNodes

\* One statement writes one more type of the buffer.
LEMMA FilledRels ==
  ASSUME TypeInv, NEW p \in Procs, NEW d \in Dbs, NEW l, NEW next,
         WriteRels(p, d, l, next), db[d] = PartRels(buf[p], todo[p]),
         Plain(buf[p]), Anchored(buf[p])
  PROVE  /\ UNCHANGED <<lk, job, buf>>
         /\ \A x \in Dbs \ {d} : db'[x] = db[x]
         /\ \/ pc'[p] = l /\ db'[d] = PartRels(buf[p], todo'[p])
            \/ pc'[p] = next /\ db'[d] = buf[p]
<1>1. buf[p] \in Content
  BY DEF TypeInv, TypeOK
<1>2. ASSUME NEW g \in todo[p], SetDb(d, CreateRels(db[d], buf[p], g)),
             todo' = [todo EXCEPT ![p] = @ \ {g}], UNCHANGED pc
      PROVE  /\ \A x \in Dbs \ {d} : db'[x] = db[x]
             /\ pc'[p] = l /\ db'[d] = PartRels(buf[p], todo'[p])
  <2>1. todo'[p] = todo[p] \ {g} /\ pc'[p] = l
    BY <1>2 DEF WriteRels, At, TypeInv, TypeOK
  <2>2. CreateRels(db[d], buf[p], g) = PartRels(buf[p], todo[p] \ {g})
    BY <1>1, <1>2, CreateRelsPart
  <2> QED
    BY <1>2, <2>1, <2>2 DEF SetDb, TypeInv, TypeOK
<1>3. ASSUME todo[p] = {}, Goto(p, next), db' = db
      PROVE  /\ \A x \in Dbs \ {d} : db'[x] = db[x]
             /\ pc'[p] = next /\ db'[d] = buf[p]
  <2>1. pc'[p] = next
    BY <1>3 DEF Goto, TypeInv, TypeOK
  <2> QED
    BY <1>1, <1>3, <2>1, PartsWhole
<1> QED
  BY <1>2, <1>3 DEF WriteRels

\* When the last is written the database holds what the archive holds.
LEMMA FillFaithful ==
  ASSUME Calm, Setting, NEW p \in Procs, Own(p), LoadNodes(p) \/ LoadRels(p)
  PROVE  FaithfulAt(p)'
<1> PICK s : s = Loading(p)
  OBVIOUS
<1>1. /\ TypeInv /\ OnRoute /\ FaithfulAt(p) /\ Unique
  BY DEF Setting, Isolation, RestoreInv, Faithful
<1>2. UNCHANGED managerVars /\ pc[p] \in {"e_nodes", "e_rels"} /\ s \in Snaps /\ s \in Dbs
  BY <1>1, NamesType, DbNames DEF LoadNodes, LoadRels, WriteNodes, WriteRels, At
<1>3. s \in WholeArchives /\ buf[p] = archive[s].c
  BY <1>1, <1>2 DEF FaithfulAt, Filling
<1>4. Plain(buf[p]) /\ Anchored(buf[p])
  BY <1>3, ArchivesSound
<1>5. /\ UNCHANGED <<job, buf>>
      /\ \A x \in Dbs \ {s} : db'[x] = db[x]
      /\ \/ pc'[p] = "e_nodes" /\ db'[s] = PartNodes(buf[p], todo'[p])
         \/ pc'[p] = "e_rels" /\ db'[s] = PartRels(buf[p], todo'[p])
         \/ pc'[p] = "e_list" /\ db'[s] = buf[p]
  <2>1. CASE LoadNodes(p)
    <3>1. WriteNodes(p, s, "e_nodes", "e_rels") /\ pc[p] = "e_nodes"
      BY <2>1 DEF LoadNodes, WriteNodes, At
    <3>2. db[s] = PartNodes(buf[p], todo[p])
      BY <1>1, <3>1 DEF FaithfulAt, Filling
    <3> QED
      BY <1>1, <1>2, <3>1, <3>2, FilledNodes
  <2>2. CASE LoadRels(p)
    <3>1. WriteRels(p, s, "e_rels", "e_list") /\ pc[p] = "e_rels"
      BY <2>2 DEF LoadRels, WriteRels, At
    <3>2. db[s] = PartRels(buf[p], todo[p])
      BY <1>1, <3>1 DEF FaithfulAt, Filling
    <3> QED
      BY <1>1, <1>2, <1>4, <3>1, <3>2, FilledRels
  <2> QED
    BY <2>1, <2>2
<1>6. Loading(p)' = s /\ First(p)' = First(p) /\ lastAccess' = lastAccess /\ archive' = archive
  BY <1>2, <1>5 DEF Loading, First, managerVars
<1>7. Held(p)' = IF pc'[p] = "e_list" THEN First(p) \cup {s} ELSE First(p) \ {s}
  BY <1>5, <1>6 DEF Held
<1>8. \A t \in First(p) \ {s} : Intact(t)'
  <2>1. \A t \in First(p) \ {s} : Intact(t)
    BY <1>1, <1>2 DEF FaithfulAt, Held
  <2> QED
    BY <1>5, <1>6, <2>1, DbNames DEF Intact, WholeArchives
<1>9. pc'[p] = "e_list" => Intact(s)'
  BY <1>3, <1>5, <1>6 DEF Intact, WholeArchives
<1>10. \A t \in Held(p)' : Intact(t)'
  <2>1. CASE pc'[p] = "e_list"
    <3>1. \A t \in First(p) \cup {s} : Intact(t)'
      BY <1>8, <1>9, <2>1
    <3> QED
      BY <1>7, <2>1, <3>1
  <2>2. CASE pc'[p] # "e_list"
    BY <1>7, <1>8, <2>2
  <2> QED
    BY <2>1, <2>2
<1>11. Latest(p)'
  BY <1>1, <1>2, <1>5, <1>6 DEF FaithfulAt, Latest, Above
<1>12. Filling(p)' /\ Cloning(p)'
  BY <1>3, <1>5, <1>6 DEF Filling, Cloning, WholeArchives
<1> QED
  BY <1>10, <1>11, <1>12 DEF FaithfulAt
-----------------------------------------------------------------------------
(* The LRU cleanup spares what its caller still needs.                      *)

\* What cleanup lists leaves MaxActive databases loaded.
LEMMA ListLeaves ==
  ASSUME Excess > 0, NEW q \in [1 .. Excess -> Loaded], OldestFirst(q)
  PROVE  Cardinality(Loaded \ Pending(q)) = MaxActive
<1>1. MaxActive \in Nat /\ Excess \in Nat
  BY ManagerAssumption, KeptFinite DEF Excess
<1>2. \A i, j \in 1 .. Excess : q[i] = q[j] => i = j
  <2>1. \A i, j \in 1 .. Excess : i < j => q[i] # q[j]
    BY DEF OldestFirst
  <2> QED
    BY <1>1, <2>1
<1>3. Cardinality(Pending(q)) = Excess
  <2>1. q \in Bijection(1 .. Excess, Pending(q))
    BY <1>2 DEF Injection, Surjection, Bijection, IsInjective, Pending
  <2>2. IsFiniteSet(1 .. Excess) /\ Cardinality(1 .. Excess) = Excess
    BY <1>1, FS_Interval
  <2> QED
    BY <2>1, <2>2, FS_Bijection DEF ExistsBijection
<1>4. Loaded \cap Pending(q) = Pending(q)
  BY DEF Pending
<1>5. Cardinality(Loaded \ Pending(q)) = Cardinality(Loaded) - Excess
  BY <1>3, <1>4, KeptFinite, FS_Difference
<1> QED
  BY <1>1, <1>5, KeptFinite DEF Excess

\* The latest accessed databases are not among those to evict.
LEMMA ListSpares ==
  ASSUME TypeInv, Excess > 0, NEW q \in [1 .. Excess -> Loaded], OldestFirst(q),
         NEW s \in Snaps, NEW F \in SUBSET Snaps, Above(s, {s}),
         F # {} => MaxActive > 1, \A t \in F : Above(t, {t, s})
  PROVE  Pending(q) \cap (F \cup {s}) = {}
<1> DEFINE R == Loaded \ Pending(q)
<1>1. R \subseteq Snaps /\ IsFiniteSet(R) /\ Cardinality(R) = MaxActive
  BY ListLeaves, KeptFinite, FS_Subset DEF Loaded
<1>2. MaxActive \in Nat \ {0} /\ lastAccess \in [Snaps -> Nat]
  BY ManagerAssumption DEF TypeInv, TypeOK
<1>3. \A i \in DOMAIN q : q[i] \in Snaps
  BY DEF Loaded
<1>4. ASSUME NEW i \in DOMAIN q, NEW x \in R
      PROVE  lastAccess[q[i]] <= lastAccess[x] /\ x # q[i]
  BY DEF OldestFirst, Pending
<1>5. R # {}
  BY <1>1, <1>2, FS_EmptySet
<1>6. s \notin Pending(q)
  <2> SUFFICES ASSUME NEW i \in DOMAIN q, q[i] = s PROVE FALSE
    BY DEF Pending
  <2>1. PICK x \in R : TRUE
    BY <1>5
  <2>2. lastAccess[s] <= lastAccess[x] /\ x # s /\ x \in Snaps
    BY <1>1, <1>4, <2>1
  <2>3. lastAccess[x] < lastAccess[s]
    BY <2>2 DEF Above
  <2> QED
    BY <1>2, <2>2, <2>3
<1>7. ASSUME NEW t \in F
      PROVE  t \notin Pending(q)
  <2> SUFFICES ASSUME NEW i \in DOMAIN q, q[i] = t PROVE FALSE
    BY DEF Pending
  <2>1. R # {s}
    <3>1. MaxActive > 1 /\ MaxActive # 1
      BY <1>2, <1>7
    <3>2. Cardinality({s}) = 1
      BY FS_Singleton
    <3> HIDE DEF R
    <3> QED
      BY <1>1, <3>1, <3>2
  <2>2. PICK x \in R : x # s
    BY <1>5, <2>1
  <2>3. lastAccess[t] <= lastAccess[x] /\ x # t /\ x \in Snaps
    BY <1>1, <1>4, <2>2
  <2>4. lastAccess[x] < lastAccess[t]
    BY <2>2, <2>3, <1>7 DEF Above
  <2> QED
    BY <1>2, <2>3, <2>4, <1>7
<1> QED
  BY <1>6, <1>7

\* Diff needs its first snapshot while it loads the second, if two fit.
LEMMA FirstSnaps ==
  ASSUME TypeInv, NEW p \in Procs, pc[p] # "idle"
  PROVE  First(p) \subseteq Snaps /\ (First(p) # {} => MaxActive > 1)
BY NamesType DEF First

\* The cleanup picks none its caller needs: they are the latest.
LEMMA ListFaithful ==
  ASSUME Calm, Setting, NEW p \in Procs, Own(p), CleanupList(p)
  PROVE  FaithfulAt(p)'
<1> PICK s : s = Loading(p)
  OBVIOUS
<1>1. /\ TypeInv /\ OnRoute /\ FaithfulAt(p)
      /\ pc[p] = "e_list" /\ UNCHANGED <<db, job, archive, lastAccess>>
      /\ s \in Snaps
  BY NamesType DEF Setting, Isolation, RestoreInv, Faithful, CleanupList, At
<1>2. /\ Held(p) = First(p) \cup {s} /\ Above(s, {s})
      /\ \A t \in First(p) : Above(t, {t, s})
      /\ \A t \in Held(p) : Intact(t)
  BY <1>1 DEF FaithfulAt, Held, Latest
<1>3. CASE LoadedNext(p)
  <2>1. /\ pc[p] \in LoadLabels
        /\ \A t \in Snaps \ {Loading(p)} : lastAccess'[t] < lastAccess'[Loading(p)]
        /\ \A t \in First(p) \cup {Loading(p)} : Intact(t)
    BY <1>1, <1>2 DEF LoadLabels, Above
  <2> QED
    BY <1>1, <1>3, <2>1, LoadedFaithful
<1>4. CASE ~LoadedNext(p)
  <2>1. PICK q \in [1 .. Excess -> Loaded] :
           /\ Excess > 0 /\ OldestFirst(q)
           /\ queue' = [queue EXCEPT ![p] = q]
           /\ pc' = [pc EXCEPT ![p] = "e_evict"] /\ second' = second
    BY <1>4 DEF CleanupList, Goto
  <2>2. pc'[p] = "e_evict" /\ queue'[p] = q
    BY <1>1, <2>1 DEF TypeInv, TypeOK
  <2>3. Pending(q) \cap (First(p) \cup {s}) = {}
    BY <1>1, <1>2, <2>1, FirstSnaps, ListSpares
  <2>4. Loading(p)' = s /\ First(p)' = First(p)
    BY <1>1, <2>1 DEF Loading, First
  <2>5. Held(p)' = Held(p)
    BY <1>2, <2>2, <2>4 DEF Held
  <2>6. \A t \in Held(p)' : Intact(t)'
    BY <1>1, <1>2, <2>5 DEF Intact, WholeArchives
  <2>7. Latest(p)'
    BY <1>1, <1>2, <2>2, <2>3, <2>4, <2>5 DEF Latest, Above
  <2> QED
    BY <2>2, <2>6, <2>7 DEF FaithfulAt, Filling, Cloning
<1> QED
  BY <1>3, <1>4

\* Clearing an evicted database leaves those that are needed.
LEMMA EvictFaithful ==
  ASSUME Calm, Setting, NEW p \in Procs, Own(p), CleanupClear(p)
  PROVE  FaithfulAt(p)'
<1> PICK s, h : s = Loading(p) /\ h = Head(queue[p])
  OBVIOUS
<1>1. /\ TypeInv /\ FaithfulAt(p) /\ ~Faults /\ queue[p] \in Seq(Snaps)
  BY DEF Setting, Isolation, RestoreInv, Faithful, TypeInv, TypeOK, Calm
<1>2. /\ pc[p] = "e_evict" /\ queue[p] # <<>> /\ pc'[p] = "e_forget"
      /\ db' = [db EXCEPT ![h] = Empty]
      /\ UNCHANGED <<job, archive, lastAccess, second, queue>>
  BY <1>1 DEF CleanupClear, At, SetDb, Goto, TypeInv, TypeOK
<1>3. h \in Pending(queue[p]) /\ h \in Snaps
  BY <1>1, <1>2, PopPending, PopType
<1>4. Loading(p)' = s /\ First(p)' = First(p)
  BY <1>2 DEF Loading, First
<1>5. Held(p)' = Held(p)
  BY <1>2, <1>4 DEF Held
<1>6. \A t \in Held(p) : t # h /\ Intact(t)
  BY <1>1, <1>2, <1>3 DEF FaithfulAt, Latest
<1>7. \A t \in Held(p)' : Intact(t)'
  BY <1>1, <1>2, <1>5, <1>6, DbNames DEF Intact, WholeArchives, TypeInv, TypeOK
<1>8. Latest(p)'
  BY <1>1, <1>2, <1>4, <1>5 DEF FaithfulAt, Latest, Above
<1> QED
  BY <1>2, <1>7, <1>8 DEF FaithfulAt, Filling, Cloning

\* Forgetting its access does too.
LEMMA ForgetFaithful ==
  ASSUME Calm, Setting, NEW p \in Procs, Own(p), CleanupForget(p)
  PROVE  FaithfulAt(p)'
<1> PICK s, h : s = Loading(p) /\ h = Head(queue[p])
  OBVIOUS
<1>1. /\ TypeInv /\ FaithfulAt(p) /\ queue[p] \in Seq(Snaps)
      /\ Ranked(lastAccess) /\ lastAccess \in [Snaps -> Nat]
  BY DEF Setting, Isolation, RestoreInv, Sound, Faithful, TypeInv, TypeOK
<1>2. /\ pc[p] = "e_forget" /\ pc'[p] = "e_evict"
      /\ lastAccess' = Forget(lastAccess, h) /\ queue'[p] = Tail(queue[p])
      /\ UNCHANGED <<db, job, archive, second>>
  BY <1>1 DEF CleanupForget, At, Goto, TypeInv, TypeOK
<1>3. queue[p] # <<>> /\ s \in Snaps
  BY <1>1, <1>2, NamesType DEF TypeInv, CallsTyped
<1>4. Pending(queue[p]) = {h} \cup Pending(Tail(queue[p])) /\ h \in Snaps
  BY <1>1, <1>3, PopPending, PopType
<1>5. Loading(p)' = s /\ First(p)' = First(p) /\ First(p) \subseteq Snaps
  BY <1>1, <1>2, FirstSnaps DEF Loading, First
<1>6. /\ Held(p) = First(p) \cup {s} /\ Held(p)' = Held(p) /\ h \notin Held(p)
      /\ \A t \in Held(p) : Intact(t)
  BY <1>1, <1>2, <1>4, <1>5 DEF Held, FaithfulAt, Latest
<1>7. \A t \in Held(p)' : Intact(t)'
  BY <1>2, <1>6 DEF Intact, WholeArchives
<1>8. ASSUME NEW t \in Snaps \ {h}, NEW x \in Snaps, lastAccess[x] < lastAccess[t]
      PROVE  lastAccess'[x] < lastAccess'[t]
  <2>1. CASE x # h
    BY <1>1, <1>2, <1>4, <1>8, <2>1, ForgetRanked
  <2>2. CASE x = h
    <3>1. lastAccess'[h] = 0 /\ lastAccess[t] # 0
      BY <1>1, <1>2, <1>4, <1>8 DEF Forget
    <3>2. t \in Entered(lastAccess) \ {h}
      BY <1>8, <3>1 DEF Entered
    <3>3. t \in Entered(lastAccess')
      BY <1>1, <1>2, <1>4, <3>2, ForgetRanked
    <3>4. lastAccess'[t] \in Nat \ {0}
      BY <1>1, <1>2, <1>4, <3>3, RankType DEF Entered
    <3> QED
      BY <2>2, <3>1, <3>4
  <2> QED
    BY <2>1, <2>2
<1>9. Latest(p)'
  <2>1. \A x \in Snaps \ {s} : lastAccess'[x] < lastAccess'[s]
    BY <1>1, <1>2, <1>3, <1>6, <1>8 DEF FaithfulAt, Latest, Above
  <2>2. \A t \in First(p) : \A x \in Snaps \ {t, s} : lastAccess'[x] < lastAccess'[t]
    BY <1>1, <1>2, <1>5, <1>6, <1>8 DEF FaithfulAt, Latest, Above
  <2>3. Pending(Tail(queue[p])) \cap Held(p) = {}
    BY <1>1, <1>2, <1>4 DEF FaithfulAt, Latest
  <2> QED
    BY <1>2, <1>5, <1>6, <2>1, <2>2, <2>3 DEF Latest, Above
<1> QED
  BY <1>2, <1>7, <1>9 DEF FaithfulAt, Filling, Cloning

\* After the cleanup the loader has what it loaded.
LEMMA DoneFaithful ==
  ASSUME Calm, Setting, NEW p \in Procs, Own(p), CleanupDone(p)
  PROVE  FaithfulAt(p)'
<1>1. /\ TypeInv /\ OnRoute /\ FaithfulAt(p)
      /\ pc[p] = "e_evict" /\ UNCHANGED <<db, job, archive, lastAccess>>
      /\ LoadedNext(p)
  BY DEF Setting, Isolation, RestoreInv, Faithful, CleanupDone, At
<1>2. /\ pc[p] \in LoadLabels
      /\ \A t \in Snaps \ {Loading(p)} : lastAccess'[t] < lastAccess'[Loading(p)]
      /\ \A t \in First(p) \cup {Loading(p)} : Intact(t)
  BY <1>1 DEF FaithfulAt, Held, Latest, Above, LoadLabels
<1> QED
  BY <1>1, <1>2, LoadedFaithful
-----------------------------------------------------------------------------
(* Restore's own steps, and the others'.                                    *)

\* Restore clears the live database and reads the database of the snapshot.
LEMMA CloneFaithful ==
  ASSUME Calm, Setting, NEW p \in Procs, Own(p),
         RestoreClear(p) \/ CloneReadNodes(p) \/ CloneReadRels(p)
  PROVE  FaithfulAt(p)'
<1> PICK s : s = job[p].a
  OBVIOUS
<1>1. /\ TypeInv /\ OnRoute /\ FaithfulAt(p) /\ pc[p] \in {"r_clear", "r_nodes", "r_rels"}
      /\ s \in Snaps /\ s # Default /\ {s, Default} \subseteq Dbs
  BY NamesType, DbNames DEF Setting, Isolation, RestoreInv, Faithful, RestoreClear,
     CloneReadNodes, CloneReadRels, At
<1>2. /\ UNCHANGED <<job, archive>>
      /\ s \in WholeArchives /\ db[s] = archive[s].c
  BY <1>1 DEF FaithfulAt, Held, Intact, RestoreClear, CloneReadNodes,
     CloneReadRels, managerVars
<1>3. archive[s].c \in Content /\ archive[s].c.n = [u \in Uris |-> archive[s].c.n[u]]
  BY <1>1, <1>2, ArchivesSound, ContentParts
<1>4. s \in WholeArchives' /\ archive'[s] = archive[s]
  BY <1>2 DEF WholeArchives
<1>5. CASE RestoreClear(p)
  <2>1. pc'[p] = "r_nodes" /\ db'[s] = db[s] /\ db'[Default] = Empty
    BY <1>1, <1>5 DEF RestoreClear, SetDb, Goto, TypeInv, TypeOK
  <2>2. Held(p)' = {s}
    BY <1>2, <2>1 DEF Held
  <2> QED
    BY <1>2, <1>4, <2>1, <2>2 DEF FaithfulAt, Intact, Latest, Filling, Cloning
<1>6. CASE CloneReadNodes(p)
  <2>1. pc[p] = "r_nodes" /\ pc'[p] = "r_rels" /\ buf'[p].n = db[s].n /\ db' = db
    BY <1>1, <1>6 DEF CloneReadNodes, Goto, At, Empty, TypeInv, TypeOK
  <2>2. Held(p)' = {s}
    BY <1>2, <2>1 DEF Held
  <2> QED
    BY <1>1, <1>2, <1>4, <2>1, <2>2 DEF FaithfulAt, Intact, Latest, Filling, Cloning
<1>7. CASE CloneReadRels(p)
  <2>1. /\ pc[p] = "r_rels" /\ pc'[p] = "r_wnodes" /\ db' = db
        /\ buf'[p] = [buf[p] EXCEPT !.r = db[s].r] /\ todo'[p] = LabelsIn(buf[p])
    BY <1>1, <1>7 DEF CloneReadRels, Goto, At, TypeInv, TypeOK
  <2>2. buf[p] \in Content /\ buf[p].n = archive[s].c.n /\ db[Default] = Empty
    BY <1>1, <2>1 DEF FaithfulAt, Cloning, TypeInv, TypeOK
  <2>3. buf'[p] = archive[s].c
    BY <1>2, <1>3, <2>1, <2>2 DEF Content
  <2>4. todo'[p] = LabelsIn(archive[s].c)
    BY <2>1, <2>2 DEF LabelsIn
  <2>5. db[Default] = PartNodes(buf'[p], todo'[p])
    BY <1>3, <2>2, <2>3, <2>4, PartsEmpty
  <2>6. Held(p)' = {}
    BY <2>1 DEF Held
  <2> QED
    BY <1>2, <1>4, <2>1, <2>3, <2>5, <2>6 DEF FaithfulAt, Latest, Filling, Cloning
<1> QED
  BY <1>5, <1>6, <1>7

\* Restore writes what it has read.
LEMMA CloneFillFaithful ==
  ASSUME Calm, Setting, NEW p \in Procs, Own(p), CloneWriteNodes(p) \/ CloneWriteRels(p)
  PROVE  FaithfulAt(p)'
<1> PICK s : s = job[p].a
  OBVIOUS
<1>1. /\ TypeInv /\ OnRoute /\ FaithfulAt(p) /\ pc[p] \in {"r_wnodes", "r_wrels"}
      /\ UNCHANGED managerVars /\ Default \in Dbs
  BY DbNames DEF Setting, Isolation, RestoreInv, Faithful, CloneWriteNodes,
     CloneWriteRels, WriteNodes, WriteRels, At
<1>2. s \in WholeArchives /\ buf[p] = archive[s].c
  BY <1>1 DEF FaithfulAt, Cloning
<1>3. Plain(buf[p]) /\ Anchored(buf[p])
  BY <1>2, ArchivesSound
<1>4. /\ UNCHANGED <<job, buf>>
      /\ \/ pc'[p] = "r_wnodes" /\ db'[Default] = PartNodes(buf[p], todo'[p])
         \/ pc'[p] = "r_wrels" /\ db'[Default] = PartRels(buf[p], todo'[p])
         \/ pc'[p] = "ok" /\ db'[Default] = buf[p]
  <2>1. CASE CloneWriteNodes(p)
    <3>1. WriteNodes(p, Default, "r_wnodes", "r_wrels") /\ pc[p] = "r_wnodes"
      BY <2>1 DEF CloneWriteNodes, WriteNodes, At
    <3>2. db[Default] = PartNodes(buf[p], todo[p])
      BY <1>1, <3>1 DEF FaithfulAt, Cloning
    <3> QED
      BY <1>1, <3>1, <3>2, FilledNodes
  <2>2. CASE CloneWriteRels(p)
    <3>1. WriteRels(p, Default, "r_wrels", "ok") /\ pc[p] = "r_wrels"
      BY <2>2 DEF CloneWriteRels, WriteRels, At
    <3>2. db[Default] = PartRels(buf[p], todo[p])
      BY <1>1, <3>1 DEF FaithfulAt, Cloning
    <3> QED
      BY <1>1, <1>3, <3>1, <3>2, FilledRels
  <2> QED
    BY <2>1, <2>2
<1>5. archive' = archive
  BY <1>1 DEF managerVars
<1>6. Held(p)' = {}
  BY <1>4 DEF Held
<1> QED
  BY <1>2, <1>4, <1>5, <1>6 DEF FaithfulAt, Latest, Filling, Cloning, WholeArchives

\* A step of a goroutine that neither restores nor diffs.
LEMMA ElseFaithful ==
  ASSUME Calm, Setting, NEW p \in Procs, Own(p), Along(p), OnRoute',
         job[p].op \notin {"restore", "diff"} \/ DiffQueries(p)
  PROVE  FaithfulAt(p)'
<1>1. TypeInv /\ OnRoute
  BY DEF Setting, Isolation
<1>2. /\ pc'[p] \notin LoadLabels \cup UseLabels \cup {"r_wnodes", "r_wrels"}
      /\ ~(pc'[p] = "ok" /\ job'[p].op = "restore")
  <2>1. CASE job[p].op \notin {"restore", "diff"}
    <3>1. pc'[p] \in Route(job[p].op) \cup {"ok", "err"} /\ job'[p] = job[p]
      BY DEF OnRoute, Own, Along
    <3> QED
      BY <2>1, <3>1 DEF Route, LoadLabels, UseLabels
  <2>2. CASE DiffQueries(p)
    <3>1. pc[p] = "diff" /\ pc'[p] = "ok"
      BY <1>1, <2>2 DEF DiffQueries, At, Goto, TypeInv, TypeOK
    <3> QED
      BY <1>1, <3>1, LoadersOp DEF Own, UseLabels, LoadLabels
  <2> QED
    BY <2>1, <2>2
<1>3. Held(p)' = {}
  BY <1>2 DEF Held, LoadLabels, UseLabels
<1> QED
  BY <1>2, <1>3 DEF FaithfulAt, Latest, Filling, Cloning, LoadLabels, UseLabels
\* Which steps a goroutine that restores or diffs can take.
LEMMA LoaderSteps ==
  ASSUME TypeInv, OnRoute, Stages, ~Faults, NEW p \in Procs, Step(p),
         job[p].op \in {"restore", "diff"}
  PROVE  \/ LoadCheck(p) \/ LoadImport(p) \/ LoadNodes(p) \/ LoadRels(p)
         \/ CleanupList(p) \/ CleanupClear(p) \/ CleanupForget(p) \/ CleanupDone(p)
         \/ RestoreClear(p) \/ CloneReadNodes(p) \/ CloneReadRels(p)
         \/ CloneWriteNodes(p) \/ CloneWriteRels(p) \/ DiffQueries(p)
<1>1. pc[p] \in Route(job[p].op) \cup {"ok", "err"}
  BY DEF OnRoute, TypeInv, TypeOK, IdleJob
<1>2. pc[p] \notin {"c_nodes", "c_rels", "c_open", "c_write", "c_body", "c_rest",
                    "c_meta", "c_repo", "c_expire", "d_clear", "d_meta",
                    "d_repo", "l_read"} \cup SyncLabels
  BY <1>1 DEF Route, SyncLabels
<1>3. ~SyncStep(p)
  BY <1>2 DEF SyncStep, FullClear, FullCollect, FullNodes, FullRels,
     UpdateAssemble, UpdateNodes, UpdateRels, DeleteNodes, MatchRels,
     DropMatched, QueryTopology, WriteNodes, WriteRels, At, SyncLabels
<1>4. /\ ~CreateReadNodes(p) /\ ~CreateReadRels(p) /\ ~CreateOpenFile(p)
      /\ ~CreateWriteMeta(p) /\ ~CreateWriteBody(p) /\ ~CreateWriteRest(p)
      /\ ~CreateCacheMeta(p) /\ ~CreateRepoMeta(p) /\ ~CreateExpire(p)
      /\ ~DeleteClear(p) /\ ~DeleteSkip(p) /\ ~DeleteCacheMeta(p)
      /\ ~DeleteRepoMeta(p) /\ ~List(p)
  BY <1>2 DEF CreateReadNodes, CreateReadRels, CreateOpenFile, CreateWriteMeta,
     CreateWriteBody, CreateWriteRest, CreateCacheMeta, CreateRepoMeta,
     CreateExpire, DeleteClear, DeleteSkip, DeleteCacheMeta, DeleteRepoMeta,
     List, At
<1>5. ~StatementFails(p)
  BY DEF StatementFails
<1> QED
  BY <1>3, <1>4, <1>5 DEF Step, ManagerStep

\* Every step of any goroutine keeps what the loaders have achieved.
LEMMA StepFaithful ==
  ASSUME Calm, Setting, NEW p \in Procs, Step(p)
  PROVE  Faithful'
<1>1. /\ TypeInv /\ OnRoute /\ Stages /\ ~Faults
  BY DEF Setting, Isolation, Calm
<1>2. Own(p) /\ Along(p) /\ OnRoute'
  BY <1>1, StepOwn, StepOnRoute
<1>3. FaithfulAt(p)'
  <2>1. CASE job[p].op \notin {"restore", "diff"}
    BY <1>2, <2>1, ElseFaithful
  <2>2. CASE job[p].op \in {"restore", "diff"}
    BY <1>1, <1>2, <2>2, LoaderSteps, ElseFaithful, CheckFaithful, ImportFaithful,
       FillFaithful, ListFaithful, EvictFaithful, ForgetFaithful, DoneFaithful,
       CloneFaithful, CloneFillFaithful
  <2> QED
    BY <2>1, <2>2
<1>4. \A q \in Procs \ {p} : FaithfulAt(q)'
  BY OtherFaithful
<1> QED
  BY <1>3, <1>4 DEF Faithful
-----------------------------------------------------------------------------
(* The live database and the archives stay sound.                           *)

\* Every statement keeps the relations of the live database anchored.
LEMMA StepAnchored ==
  ASSUME TypeInv, Anchored(db[Default]), NEW p \in Procs, Step(p)
  PROVE  Anchored(db'[Default])
<1> DEFINE c == db[Default]
<1>1. /\ c \in Content /\ buf[p] \in Content /\ Default \in Dbs /\ db \in [Dbs -> Content]
      /\ pc[p] # "idle" => Loading(p) \in Snaps
      /\ pc[p] \in QueueLabels => Doomed(p) \in Snaps
      /\ pc[p] # "idle" => job[p].a \in Snaps
      /\ Default \notin Snaps /\ Snaps \subseteq Dbs
  BY NamesType, DbNames DEF TypeInv, TypeOK, QueueLabels
<1>2. Anchored(Empty)
  BY DEF Anchored, Empty
<1>3. ASSUME db'[Default] \in {c, Empty} PROVE Anchored(db'[Default])
  BY <1>2, <1>3
<1>4. ASSUME NEW d \in Dbs, NEW l, NEW next,
             WriteNodes(p, d, l, next) \/ WriteRels(p, d, l, next)
      PROVE  Anchored(db'[Default])
  <2>1. \/ db' = db
        \/ \E g : db' = [db EXCEPT ![d] = CreateNodes(db[d], buf[p], g)]
        \/ \E g : db' = [db EXCEPT ![d] = CreateRels(db[d], buf[p], g)]
    BY <1>4 DEF WriteNodes, WriteRels, SetDb
  <2>2. \/ db'[Default] = c
        \/ \E g : db'[Default] = CreateNodes(c, buf[p], g)
        \/ \E g : db'[Default] = CreateRels(c, buf[p], g)
    BY <1>1, <2>1
  <2> QED
    BY <1>1, <2>2, AnchoredNodes, AnchoredRels
<1>5. CASE \/ CreateReadNodes(p) \/ CreateReadRels(p) \/ CreateOpenFile(p)
           \/ CreateWriteMeta(p) \/ CreateWriteBody(p) \/ CreateWriteRest(p)
           \/ CreateCacheMeta(p) \/ CreateRepoMeta(p) \/ CreateExpire(p)
           \/ DeleteSkip(p) \/ DeleteCacheMeta(p) \/ DeleteRepoMeta(p)
           \/ StatementFails(p)
  BY <1>5 DEF CreateReadNodes, CreateReadRels, CreateOpenFile, CreateWriteMeta,
     CreateWriteBody, CreateWriteRest, CreateCacheMeta, CreateRepoMeta,
     CreateExpire, DeleteSkip, DeleteCacheMeta, DeleteRepoMeta, StatementFails
<1>6. CASE DeleteClear(p)
  BY <1>1, <1>6 DEF DeleteClear, SetDb, At, QueueLabels
<1>7. CASE LoadCheck(p) \/ LoadImport(p) \/ CleanupList(p) \/ CleanupForget(p)
           \/ CleanupDone(p) \/ CloneReadNodes(p) \/ CloneReadRels(p)
           \/ DiffQueries(p) \/ List(p)
  BY <1>7 DEF LoadCheck, LoadImport, CleanupList, CleanupForget, CleanupDone,
     CloneReadNodes, CloneReadRels, DiffQueries, List
<1>8. CASE CleanupClear(p)
  <2>1. queue[p] \in Seq(Snaps) /\ queue[p] # <<>>
    BY <1>8 DEF CleanupClear, TypeInv, TypeOK
  <2>2. Head(queue[p]) \in Snaps
    BY <2>1, PopType
  <2> QED
    BY <1>1, <1>8, <2>2 DEF CleanupClear, SetDb
<1>9. CASE RestoreClear(p) \/ (SyncStep(p) /\ FullClear(p))
  BY <1>1, <1>2, <1>9 DEF RestoreClear, FullClear, SetDb
<1>10. CASE LoadNodes(p) \/ LoadRels(p)
  <2>1. pc[p] # "idle"
    BY <1>10 DEF LoadNodes, LoadRels, WriteNodes, WriteRels, At
  <2>2. Loading(p) \in Dbs
    BY <1>1, <2>1
  <2> QED
    BY <1>4, <1>10, <2>2 DEF LoadNodes, LoadRels
<1>11. CASE CloneWriteNodes(p) \/ CloneWriteRels(p) \/ FullNodes(p) \/ FullRels(p)
  BY <1>1, <1>4, <1>11 DEF CloneWriteNodes, CloneWriteRels, FullNodes, FullRels
<1>12. CASE FullCollect(p) \/ UpdateAssemble(p) \/ MatchRels(p) \/ QueryTopology(p)
  BY <1>12 DEF FullCollect, UpdateAssemble, MatchRels, QueryTopology
<1>13. CASE UpdateNodes(p) \/ UpdateRels(p)
  <2>1. \/ db'[Default] = c
        \/ \E g : db'[Default] = MergeNodes(c, buf[p], g)
        \/ \E g : db'[Default] = MergeRels(c, buf[p], g)
    BY <1>1, <1>13 DEF UpdateNodes, UpdateRels, SetDb
  <2> QED
    BY <1>1, <2>1, AnchoredNodes, AnchoredRels
<1>14. CASE DeleteNodes(p)
  <2>1. PICK gone : db' = [db EXCEPT ![Default] = DetachDelete(c, gone)]
    BY <1>14 DEF DeleteNodes, SetDb
  <2> QED
    BY <1>1, <2>1, AnchoredDeletes
<1>15. CASE DropMatched(p)
  <2>1. CASE db' = db
    BY <2>1
  <2>2. CASE db' # db
    <3>1. PICK g \in todo[p] :
             db' = [db EXCEPT ![Default] =
                      DropRels(c, {e \in Rels : buf[p].r[e] > 0}, g)]
      BY <1>15, <2>2 DEF DropMatched, SetDb
    <3> QED
      BY <1>1, <3>1, AnchoredDeletes
  <2> QED
    BY <2>1, <2>2
<1> QED
  BY <1>5, <1>6, <1>7, <1>8, <1>9, <1>10, <1>11, <1>12, <1>13, <1>14,
     <1>15
     DEF Step, ManagerStep, SyncStep

\* The steps of EnsureLoaded.
LEMMA LoadingSteps ==
  ASSUME ~Faults, NEW p \in Procs, Step(p), pc[p] \in LoadLabels
  PROVE  \/ LoadCheck(p) \/ LoadImport(p) \/ LoadNodes(p) \/ LoadRels(p)
         \/ CleanupList(p) \/ CleanupClear(p) \/ CleanupForget(p) \/ CleanupDone(p)
<1>1. ~SyncStep(p) /\ ~StatementFails(p)
  BY DEF SyncStep, FullClear, FullCollect, FullNodes, FullRels, UpdateAssemble,
     UpdateNodes, UpdateRels, DeleteNodes, MatchRels, DropMatched,
     QueryTopology, WriteNodes, WriteRels, At, LoadLabels, StatementFails
<1>2. /\ ~CreateReadNodes(p) /\ ~CreateReadRels(p) /\ ~CreateOpenFile(p)
      /\ ~CreateWriteMeta(p) /\ ~CreateWriteBody(p) /\ ~CreateWriteRest(p)
      /\ ~CreateCacheMeta(p) /\ ~CreateRepoMeta(p) /\ ~CreateExpire(p)
      /\ ~DeleteClear(p) /\ ~DeleteSkip(p) /\ ~DeleteCacheMeta(p)
      /\ ~DeleteRepoMeta(p) /\ ~List(p)
  BY DEF CreateReadNodes, CreateReadRels, CreateOpenFile, CreateWriteMeta,
     CreateWriteBody, CreateWriteRest, CreateCacheMeta, CreateRepoMeta,
     CreateExpire, DeleteClear, DeleteSkip, DeleteCacheMeta, DeleteRepoMeta,
     List, At, LoadLabels
<1>3. /\ ~RestoreClear(p) /\ ~CloneReadNodes(p) /\ ~CloneReadRels(p)
      /\ ~CloneWriteNodes(p) /\ ~CloneWriteRels(p) /\ ~DiffQueries(p)
  BY DEF RestoreClear, CloneReadNodes, CloneReadRels, CloneWriteNodes,
     CloneWriteRels, DiffQueries, WriteNodes, WriteRels, At, LoadLabels
<1> QED
  BY <1>1, <1>2, <1>3 DEF Step, ManagerStep

\* The ranks change only in EnsureLoaded.
LEMMA StepRanked ==
  ASSUME TypeInv, Ranked(lastAccess), ~Faults, NEW p \in Procs, Step(p)
  PROVE  Ranked(lastAccess')
<1>1. lastAccess \in [Snaps -> Nat]
  BY DEF TypeInv, TypeOK
<1>2. CASE pc[p] \notin LoadLabels
  BY <1>2, StepSpares
<1>3. CASE LoadCheck(p)
  <2>1. Loading(p) \in Snaps /\ lastAccess' = Touch(lastAccess, Loading(p))
    BY <1>3, NamesType DEF LoadCheck, At
  <2> QED
    BY <1>1, <2>1, TouchRanked
<1>4. CASE CleanupForget(p)
  <2>1. Head(queue[p]) \in Snaps /\ lastAccess' = Forget(lastAccess, Head(queue[p]))
    BY <1>4, NamesType DEF CleanupForget, At
  <2> QED
    BY <1>1, <2>1, ForgetRanked
<1>5. CASE \/ LoadImport(p) \/ LoadNodes(p) \/ LoadRels(p) \/ CleanupList(p)
           \/ CleanupClear(p) \/ CleanupDone(p)
  BY <1>5 DEF LoadImport, LoadNodes, LoadRels, CleanupList, CleanupClear,
     CleanupDone, managerVars
<1>6. CASE pc[p] \in LoadLabels
  <2>1. \/ LoadCheck(p) \/ LoadImport(p) \/ LoadNodes(p) \/ LoadRels(p)
        \/ CleanupList(p) \/ CleanupClear(p) \/ CleanupForget(p) \/ CleanupDone(p)
    BY <1>6, LoadingSteps
  <2> QED
    BY <1>3, <1>4, <1>5, <2>1
<1> QED
  BY <1>2, <1>6

\* The steps of Create up to the recording, when nothing fails.
LEMMA ExportSteps ==
  ASSUME ~Faults, NEW p \in Procs, Step(p), pc[p] \in CreateLabels
  PROVE  \/ CreateReadNodes(p) \/ CreateReadRels(p) \/ CreateOpenFile(p)
         \/ CreateWriteMeta(p) \/ CreateWriteBody(p) \/ CreateWriteRest(p)
<1>1. ~SyncStep(p) /\ ~StatementFails(p)
  BY DEF SyncStep, FullClear, FullCollect, FullNodes, FullRels, UpdateAssemble,
     UpdateNodes, UpdateRels, DeleteNodes, MatchRels, DropMatched,
     QueryTopology, WriteNodes, WriteRels, At, CreateLabels, StatementFails
<1>2. /\ ~CreateCacheMeta(p) /\ ~CreateRepoMeta(p) /\ ~CreateExpire(p)
      /\ ~DeleteClear(p) /\ ~DeleteSkip(p) /\ ~DeleteCacheMeta(p)
      /\ ~DeleteRepoMeta(p) /\ ~List(p)
  BY DEF CreateCacheMeta, CreateRepoMeta, CreateExpire, DeleteClear,
     DeleteSkip, DeleteCacheMeta, DeleteRepoMeta, List, At, CreateLabels
<1>3. /\ ~LoadCheck(p) /\ ~LoadImport(p) /\ ~LoadNodes(p) /\ ~LoadRels(p)
      /\ ~CleanupList(p) /\ ~CleanupClear(p) /\ ~CleanupForget(p)
      /\ ~CleanupDone(p) /\ ~RestoreClear(p) /\ ~CloneReadNodes(p)
      /\ ~CloneReadRels(p) /\ ~CloneWriteNodes(p) /\ ~CloneWriteRels(p)
      /\ ~DiffQueries(p)
  BY DEF LoadCheck, LoadImport, LoadNodes, LoadRels, CleanupList, CleanupClear,
     CleanupForget, CleanupDone, RestoreClear, CloneReadNodes, CloneReadRels,
     CloneWriteNodes, CloneWriteRels, DiffQueries, WriteNodes, WriteRels, At,
     CreateLabels
<1> QED
  BY <1>1, <1>2, <1>3 DEF Step, ManagerStep

\* A file that is not complete is still being written after every step.
LEMMA StepWritten ==
  ASSUME TypeInv, OnRoute, Written, ~Faults, NEW p \in Procs, Step(p)
  PROVE  Written'
<1>1. Own(p)
  BY StepOwn
<1>2. /\ job' = job /\ archive \in [Snaps -> Archive] /\ pc \in [Procs -> PcLabels]
      /\ \A q \in Procs \ {p} : pc'[q] = pc[q]
  BY <1>1 DEF Own, TypeInv, TypeOK
<1>3. CASE pc[p] \in CreateLabels
  <2>1. job[p].a \in Snaps
    BY <1>3, NamesType DEF CreateLabels
  <2>2. CASE CreateReadNodes(p) \/ CreateReadRels(p)
    BY <1>2, <2>2 DEF CreateReadNodes, CreateReadRels, Goto, At, managerVars, Written
  <2>3. CASE CreateOpenFile(p) \/ CreateWriteMeta(p) \/ CreateWriteBody(p)
    <3>1. pc'[p] \in {"c_write", "c_body", "c_rest"}
      BY <1>2, <2>3 DEF CreateOpenFile, CreateWriteMeta, CreateWriteBody, Goto
    <3>2. \A s \in Snaps \ {job[p].a} : archive'[s] = archive[s]
      BY <1>2, <2>3 DEF CreateOpenFile, CreateWriteMeta, CreateWriteBody
    <3>3. \A q \in Procs : pc[q] \in {"c_write", "c_body", "c_rest"}
                              => pc'[q] \in {"c_write", "c_body", "c_rest"}
      BY <1>2, <3>1
    <3> QED
      BY <1>2, <3>1, <3>2, <3>3 DEF Written
  <2>4. CASE CreateWriteRest(p)
    <3>1. archive'[job[p].a].st = "whole"
      BY <1>2, <2>1, <2>4 DEF CreateWriteRest
    <3>2. \A s \in Snaps \ {job[p].a} : archive'[s] = archive[s]
      BY <1>2, <2>4 DEF CreateWriteRest
    <3> QED
      BY <1>2, <3>1, <3>2 DEF Written
  <2> QED
    BY <1>3, <2>2, <2>3, <2>4, ExportSteps
<1>4. CASE pc[p] \notin CreateLabels
  <2>1. archive' = archive
    BY <1>4, OutsideCatalog, InsideCatalog DEF RegisterLabels
  <2> QED
    BY <1>2, <1>4, <2>1 DEF Written, CreateLabels
<1> QED
  BY <1>3, <1>4

\* Only retention sends a goroutine to the deletes.
LEMMA ExpirySteps ==
  ASSUME TypeInv, NEW p \in Procs, Step(p), pc'[p] \in QueueLabels,
         pc[p] \notin QueueLabels
  PROVE  Retention
<1>1. CASE \/ CreateReadNodes(p) \/ CreateReadRels(p) \/ CreateOpenFile(p)
           \/ CreateWriteMeta(p) \/ CreateWriteBody(p) \/ CreateWriteRest(p)
           \/ CreateCacheMeta(p) \/ CreateRepoMeta(p)
  BY <1>1 DEF CreateReadNodes, CreateReadRels, CreateOpenFile, CreateWriteMeta,
     CreateWriteBody, CreateWriteRest, CreateCacheMeta, CreateRepoMeta, Goto,
     QueueLabels, TypeInv, TypeOK
<1>2. CASE CreateExpire(p)
  BY <1>2 DEF CreateExpire, Goto, QueueLabels, TypeInv, TypeOK
<1>3. CASE \/ DeleteClear(p) \/ DeleteSkip(p) \/ DeleteCacheMeta(p)
           \/ DeleteRepoMeta(p)
  BY <1>3 DEF DeleteClear, DeleteSkip, DeleteCacheMeta, DeleteRepoMeta, At, QueueLabels
<1>4. CASE LoadCheck(p) \/ LoadImport(p) \/ LoadNodes(p) \/ LoadRels(p)
  BY <1>4 DEF LoadCheck, LoadImport, LoadNodes, LoadRels, LoadedNext,
     WriteNodes, WriteRels, At, Goto, QueueLabels, TypeInv, TypeOK
<1>5. CASE \/ CleanupList(p) \/ CleanupClear(p) \/ CleanupForget(p)
           \/ CleanupDone(p)
  BY <1>5 DEF CleanupList, CleanupClear, CleanupForget, CleanupDone,
     LoadedNext, At, Goto, QueueLabels, TypeInv, TypeOK
<1>6. CASE \/ RestoreClear(p) \/ CloneReadNodes(p) \/ CloneReadRels(p)
           \/ CloneWriteNodes(p) \/ CloneWriteRels(p) \/ DiffQueries(p)
           \/ List(p)
  BY <1>6 DEF RestoreClear, CloneReadNodes, CloneReadRels, CloneWriteNodes,
     CloneWriteRels, DiffQueries, List, WriteNodes, WriteRels, At, Goto,
     QueueLabels, TypeInv, TypeOK
<1>7. CASE SyncStep(p)
  BY <1>7 DEF SyncStep, FullClear, FullCollect, FullNodes, FullRels,
     UpdateAssemble, UpdateNodes, UpdateRels, DeleteNodes, MatchRels,
     DropMatched, QueryTopology, WriteNodes, WriteRels, At, Goto, QueueLabels,
     TypeInv, TypeOK
<1>8. CASE StatementFails(p)
  BY <1>8 DEF StatementFails, Goto, QueueLabels, TypeInv, TypeOK
<1> QED
  BY <1>1, <1>2, <1>3, <1>4, <1>5, <1>6, <1>7, <1>8 DEF Step, ManagerStep
-----------------------------------------------------------------------------
(* The invariant.                                                           *)

\* Every step keeps the live database and the archives sound.
LEMMA StepSound ==
  ASSUME Calm, Setting, NEW p \in Procs, Step(p)
  PROVE  Sound'
<1>1. /\ TypeInv /\ Isolation /\ OnRoute /\ Catalog /\ Sound /\ ~Faults
      /\ Own(p) /\ Default \in Dbs
  BY StepOwn, DbNames DEF Setting, Isolation, RestoreInv, Calm
<1>2. job' = job /\ \A q \in Procs \ {p} : pc'[q] = pc[q]
  BY <1>1 DEF Own
<1>3. Anchored(db[Default])'
  BY <1>1, StepAnchored DEF Sound
<1>4. ASSUME NEW s \in WholeArchives'
      PROVE  Anchored(archive'[s].c)
  <2>1. CASE archive'[s] = archive[s]
    BY <1>1, <1>4, <2>1 DEF Sound, WholeArchives
  <2>2. CASE archive'[s] # archive[s]
    <3>1. archive'[s].c = db[Default]
      BY <1>1, <1>4, <2>2, NewArchiveIsCut DEF WholeArchives, Next
    <3> QED
      BY <1>1, <3>1 DEF Sound
  <2> QED
    BY <2>1, <2>2
<1>5. Ranked(lastAccess')
  BY <1>1, StepRanked DEF Sound
<1>6. Written'
  BY <1>1, StepWritten DEF Sound
<1>7. ASSUME NEW q \in Procs, job'[q].op = "diff"
      PROVE  {job'[q].a, job'[q].b} \subseteq WholeArchives'
  BY <1>1, <1>2, <1>7, WholeStays DEF Sound
<1>8. ASSUME NEW q \in Procs, pc'[q] \in QueueLabels, job'[q].op = "create"
      PROVE  Retention
  <2>1. CASE pc[q] \in QueueLabels
    BY <1>1, <1>2, <1>8, <2>1 DEF Sound
  <2>2. CASE pc[q] \notin QueueLabels
    BY <1>1, <1>2, <1>8, <2>2, ExpirySteps
  <2> QED
    BY <2>1, <2>2
<1> QED
  BY <1>3, <1>4, <1>5, <1>6, <1>7, <1>8 DEF Sound

\* What the steps of EnsureLoaded do to the snapshot databases.
LEMMA LoadingEffect ==
  ASSUME TypeInv, ~Faults, NEW p \in Procs, Step(p), pc[p] \in LoadLabels,
         NEW s \in Snaps
  PROVE  /\ \/ db'[s] = db[s]
            \/ db'[s] = Empty
            \/ pc[p] \in {"e_nodes", "e_rels"} /\ s = Loading(p)
         /\ pc[p] \in {"e_nodes", "e_rels"} =>
               pc'[p] \in {"e_nodes", "e_rels", "e_list"} /\ second' = second
<1>1. Loading(p) \in Snaps /\ db \in [Dbs -> Content] /\ s \in Dbs
  BY NamesType, DbNames DEF LoadLabels, TypeInv, TypeOK
<1>2. CASE \/ LoadCheck(p) \/ LoadImport(p) \/ CleanupList(p) \/ CleanupForget(p)
           \/ CleanupDone(p)
  BY <1>2 DEF LoadCheck, LoadImport, CleanupList, CleanupForget, CleanupDone, At
<1>3. CASE LoadNodes(p) \/ LoadRels(p)
  BY <1>1, <1>3 DEF LoadNodes, LoadRels, WriteNodes, WriteRels, SetDb, At, Goto,
     managerVars, TypeInv, TypeOK
<1>4. CASE CleanupClear(p)
  BY <1>1, <1>4 DEF CleanupClear, SetDb, At
<1> QED
  BY <1>2, <1>3, <1>4, LoadingSteps

\* Every step keeps the loaded databases equal to their archives.
LEMMA StepCached ==
  ASSUME Calm, Setting, NEW p \in Procs, Step(p), FaithfulAt(p)'
  PROVE  Cached'
<1>1. /\ TypeInv /\ OnRoute /\ Catalog /\ Cached /\ ~Faults /\ Own(p)
  BY StepOwn DEF Setting, Isolation, RestoreInv, Calm
<1>2. /\ job' = job
      /\ \A q \in Procs \ {p} : pc'[q] = pc[q] /\ second'[q] = second[q]
  BY <1>1 DEF Own
<1> SUFFICES ASSUME NEW s \in Snaps
             PROVE  \/ db'[s] = Empty
                    \/ s \in WholeArchives' /\ db'[s] = archive'[s].c
                    \/ \E q \in Procs : /\ pc'[q] \in {"e_nodes", "e_rels"}
                                        /\ (IF second'[q] THEN job'[q].b ELSE job'[q].a) = s
  BY DEF Cached, Intact, Loading
<1>3. CASE pc[p] \in {"e_nodes", "e_rels"} /\ s = Loading(p)
  <2>1. /\ pc'[p] \in {"e_nodes", "e_rels", "e_list"} /\ second' = second
    BY <1>1, <1>3, LoadingEffect DEF LoadLabels
  <2>2. CASE pc'[p] = "e_list"
    <3>1. Loading(p)' = s
      BY <1>2, <1>3, <2>1 DEF Loading
    <3>2. s \in Held(p)'
      BY <2>2, <3>1 DEF Held
    <3> QED
      BY <3>2 DEF FaithfulAt, Intact
  <2>3. CASE pc'[p] \in {"e_nodes", "e_rels"}
    BY <1>2, <1>3, <2>1, <2>3 DEF Loading
  <2> QED
    BY <2>1, <2>2, <2>3
<1>4. CASE ~(pc[p] \in {"e_nodes", "e_rels"} /\ s = Loading(p))
  <2>1. db'[s] = db[s] \/ db'[s] = Empty
    BY <1>1, <1>4, LoadingEffect, StepSpares
  <2>2. CASE Intact(s)
    BY <1>1, <2>1, <2>2, WholeStays DEF Intact
  <2>3. ASSUME NEW q \in Procs, pc[q] \in {"e_nodes", "e_rels"}, Loading(q) = s
        PROVE  /\ pc'[q] \in {"e_nodes", "e_rels"}
               /\ (IF second'[q] THEN job'[q].b ELSE job'[q].a) = s
    BY <1>2, <1>4, <2>3 DEF Loading
  <2> QED
    BY <1>1, <2>1, <2>2, <2>3 DEF Cached
<1> QED
  BY <1>3, <1>4

\* A goroutine that has not begun, or has returned, needs nothing.
LEMMA RestFaithful ==
  ASSUME NEW p \in Procs, ~second'[p],
         pc'[p] \notin (LoadLabels \cup UseLabels \cup {"r_wnodes", "r_wrels", "ok"})
                          \ {"e_has"}
  PROVE  FaithfulAt(p)'
<1>1. First(p)' = {} /\ Held(p)' = {}
  BY DEF First, Held, LoadLabels, UseLabels
<1> QED
  BY <1>1 DEF FaithfulAt, Latest, Filling, Cloning, LoadLabels, UseLabels

\* Calls and returns move one goroutine and leave the stores alone.
LEMMA StoresStay ==
  ASSUME NEW p \in Procs, UNCHANGED <<db, archive, lastAccess>>,
         pc'[p] = pc[p], buf'[p] = buf[p], todo'[p] = todo[p],
         queue'[p] = queue[p], second'[p] = second[p], job'[p] = job[p],
         FaithfulAt(p)
  PROVE  FaithfulAt(p)'
<1>1. Loading(p)' = Loading(p) /\ First(p)' = First(p)
  BY DEF Loading, First
<1>2. Held(p)' = Held(p)
  BY <1>1 DEF Held
<1> QED
  BY <1>1, <1>2 DEF FaithfulAt, Intact, WholeArchives, Latest, Above, Filling, Cloning

\* A call changes no content.
LEMMA CallRestore ==
  ASSUME Calm, Setting, NEW p \in Procs, Call(p)
  PROVE  RestoreInv'
<1>1. TypeInv /\ OnRoute /\ Sound /\ Cached /\ Faithful /\ ~Careless
  BY DEF Setting, Isolation, RestoreInv, Calm
<1>2. PICK j \in Jobs[p] : Careful(j) /\ Start(p, j)
  BY <1>1 DEF Call
<1>3. j.op \in Ops /\ pc[p] = "idle"
  BY <1>2, TwinAssumption, JobType DEF Start
<1>4. /\ pc'[p] = Entry(j.op) /\ job'[p] = j
      /\ \A q \in Procs \ {p} : pc'[q] = pc[q] /\ job'[q] = job[q]
      /\ UNCHANGED <<db, archive, lastAccess, buf, todo, queue, second>>
  BY <1>1, <1>2 DEF Start, Goto, Call, managerVars, TypeInv, TypeOK
<1>5. ~second[p] /\ Entry(j.op) \in Entries
  BY <1>1, <1>3, EntryOnRoute DEF OnRoute, IdleJob
<1>6. FaithfulAt(p)'
  BY <1>4, <1>5, RestFaithful DEF Entries, LoadLabels, UseLabels
<1>7. Faithful'
  BY <1>1, <1>4, <1>6, StoresStay DEF Faithful
<1>8. Written'
  BY <1>1, <1>3, <1>4 DEF Sound, Written
<1>9. j.op = "diff" => {j.a, j.b} \subseteq WholeArchives
  <2>1. j.a \in Snaps /\ j.b \in Snaps
    BY TwinAssumption, JobType
  <2> QED
    BY <1>2, <2>1 DEF Careful, WholeArchives
<1>10. Entry(j.op) \in QueueLabels => j.op # "create"
  BY <1>3 DEF Entry, QueueLabels
<1>11. Sound'
  <2>1. \A q \in Procs : /\ job'[q].op = "diff" => {job'[q].a, job'[q].b} \subseteq WholeArchives'
                         /\ pc'[q] \in QueueLabels /\ job'[q].op = "create" => Retention
    BY <1>1, <1>4, <1>9, <1>10 DEF Sound, WholeArchives
  <2> QED
    BY <1>1, <1>4, <1>8, <2>1 DEF Sound, WholeArchives
<1>12. Cached'
  BY <1>1, <1>3, <1>4 DEF Cached, Intact, WholeArchives, Loading
<1> QED
  BY <1>7, <1>11, <1>12 DEF RestoreInv

\* A return changes no content.
LEMMA FinishRestore ==
  ASSUME Setting, NEW p \in Procs, Finish(p)
  PROVE  RestoreInv'
<1>1. TypeInv /\ OnRoute /\ Sound /\ Cached /\ Faithful
  BY DEF Setting, Isolation, RestoreInv
<1>2. /\ pc[p] \in {"ok", "err"} /\ pc'[p] = "idle" /\ job'[p].op = "none"
      /\ ~second'[p]
      /\ \A q \in Procs \ {p} :
            /\ pc'[q] = pc[q] /\ job'[q] = job[q] /\ buf'[q] = buf[q]
            /\ todo'[q] = todo[q] /\ queue'[q] = queue[q] /\ second'[q] = second[q]
      /\ UNCHANGED <<db, archive, lastAccess>>
  BY <1>1 DEF Finish, Return, Goto, IdleJob, TypeInv, TypeOK
<1>3. FaithfulAt(p)'
  BY <1>2, RestFaithful DEF LoadLabels, UseLabels
<1>4. Faithful'
  BY <1>1, <1>2, <1>3, StoresStay DEF Faithful
<1>5. Written'
  BY <1>1, <1>2 DEF Sound, Written
<1>6. Sound'
  <2>1. \A q \in Procs : /\ job'[q].op = "diff" => {job'[q].a, job'[q].b} \subseteq WholeArchives'
                         /\ pc'[q] \in QueueLabels /\ job'[q].op = "create" => Retention
    BY <1>1, <1>2 DEF Sound, WholeArchives, QueueLabels
  <2> QED
    BY <1>1, <1>2, <1>5, <2>1 DEF Sound, WholeArchives
<1>7. Cached'
  <2>1. \A q \in Procs : pc[q] \in {"e_nodes", "e_rels"} =>
            pc'[q] \in {"e_nodes", "e_rels"} /\ Loading(q)' = Loading(q)
    BY <1>2 DEF Loading
  <2> QED
    BY <1>1, <1>2, <2>1 DEF Cached, Intact, WholeArchives
<1> QED
  BY <1>4, <1>6, <1>7 DEF RestoreInv

\* Nothing is loaded at the start.
LEMMA InitRestore == Init => RestoreInv
<1> SUFFICES ASSUME Init PROVE RestoreInv
  OBVIOUS
<1>1. /\ db = [d \in Dbs |-> Empty] /\ pc = [q \in Procs |-> "idle"]
      /\ job = [q \in Procs |-> IdleJob] /\ second = [q \in Procs |-> FALSE]
      /\ archive = [s \in Snaps |-> [st |-> "none", c |-> Empty]]
      /\ lastAccess = [s \in Snaps |-> 0]
  BY DEF Init, TwinInit, ManagerInit
<1>2. Anchored(Empty)
  BY DEF Anchored, Empty
<1>3. Ranked(lastAccess)
  <2>1. Entered(lastAccess) = {} /\ \A s \in Snaps : lastAccess[s] = 0
    BY <1>1 DEF Entered
  <2>2. Cardinality(Entered(lastAccess)) = 0
    BY <2>1, FS_EmptySet
  <2> QED
    BY <2>1, <2>2 DEF Ranked
<1>4. Sound
  BY <1>1, <1>2, <1>3, DbNames DEF Sound, WholeArchives, Written, IdleJob, QueueLabels
<1>5. Cached
  BY <1>1, DbNames DEF Cached
<1>6. Faithful
  BY <1>1 DEF Faithful, FaithfulAt, Held, Latest, Filling, Cloning
<1> QED
  BY <1>4, <1>5, <1>6 DEF RestoreInv

\* Every step keeps the invariant of Restore and Diff.
LEMMA NextRestore ==
  ASSUME Calm
  PROVE  Setting /\ [Next]_vars => RestoreInv'
<1> SUFFICES ASSUME Setting, [Next]_vars PROVE RestoreInv'
  OBVIOUS
<1>1. ASSUME NEW p \in Procs, Step(p)
      PROVE  RestoreInv'
  <2>1. Faithful' /\ FaithfulAt(p)'
    BY <1>1, StepFaithful DEF Faithful
  <2> QED
    BY <1>1, <2>1, StepSound, StepCached DEF RestoreInv
<1>2. CASE \/ \E p \in Procs : LockTurn(p) /\ UNCHANGED managerVars
           \/ UNCHANGED vars
  <2>1. UNCHANGED <<db, pc, job, buf, todo, managerVars>>
    BY <1>2 DEF LockTurn, localVars, vars, twinVars
  <2>2. Sound' /\ Cached'
    BY <2>1 DEF Setting, RestoreInv, Sound, Cached, Intact, Loading, WholeArchives,
       Written, managerVars
  <2>3. Faithful'
    BY <2>1, StoresStay DEF Setting, RestoreInv, Faithful, managerVars
  <2> QED
    BY <2>2, <2>3 DEF RestoreInv
<1>3. ~Restart
  BY DEF Restart, Calm
<1> QED
  BY <1>1, <1>2, <1>3, CallRestore, FinishRestore DEF Next

\* In a calm run no two calls load one snapshot at once.
LEMMA CalmApart == ASSUME Calm PROVE LoadsApart
BY DEF Calm, LoadsAlone, LoadsApart

\* The invariants hold together of every calm run.
LEMMA Restored == ASSUME Calm PROVE Spec => []Setting
<1>1. ~Careless /\ PayloadsPlain /\ LoadsApart
  BY CalmApart DEF Calm
<1>2. Spec => []CatalogInv
  BY <1>1, InitCatalog, NextCatalog, PTL DEF Spec
<1>3. Spec => []Unique
  BY <1>1, InitFresh, NextFresh, Isolated, Routed, PTL DEF Spec
<1>4. CatalogInv => Catalog
  BY DEF CatalogInv
<1>5. Isolation /\ OnRoute /\ Catalog /\ Unique /\ RestoreInv <=> Setting
  BY DEF Setting
<1> QED
  BY <1>2, <1>3, <1>4, <1>5, Isolated, Routed, InitRestore, NextRestore, PTL DEF Spec

\* Spec => []RestoreFaithful, when no statement fails, the process is not
\* restarted, callers do not reuse names, and Diff, Delete and retention, the
\* operations without (or under a shared) lock, keep out of the way of what
\* another goroutine loads: Restore clears the live database (manager.go)
\* only with the archived content at hand, and a Restore that succeeds leaves
\* the live database equal to the archive, for every graph, every bound on
\* the active snapshots and every number of goroutines.
THEOREM RestoresAreFaithful ==
  ASSUME Calm
  PROVE  Spec => []RestoreFaithful
<1>1. Setting => RestoreFaithful
  <2> SUFFICES ASSUME Setting, NEW p \in Procs, job[p].op = "restore"
               PROVE  /\ pc[p] \in {"r_clear", "r_nodes", "r_rels"}
                            => db[job[p].a] = archive[job[p].a].c
                      /\ pc[p] = "ok" => db[Default] = archive[job[p].a].c
    BY DEF RestoreFaithful
  <2>1. FaithfulAt(p)
    BY DEF Setting, RestoreInv, Faithful
  <2> QED
    BY <2>1 DEF FaithfulAt, Held, Intact, Cloning
<1> QED
  BY <1>1, Restored, PTL

\* Spec => []DiffFaithful under the same conditions and max_active > 1: the
\* second EnsureLoaded of a Diff never evicts what the first one has loaded,
\* so its queries (manager.go) compare the two archives it was asked about.
THEOREM DiffsAreFaithful ==
  ASSUME Calm, MaxActive > 1
  PROVE  Spec => []DiffFaithful
<1>1. Setting => DiffFaithful
  <2> SUFFICES ASSUME Setting, NEW p \in Procs, pc[p] = "diff"
               PROVE  /\ db[job[p].a] = archive[job[p].a].c
                      /\ db[job[p].b] = archive[job[p].b].c
    BY DEF DiffFaithful
  <2>1. FaithfulAt(p)
    BY DEF Setting, RestoreInv, Faithful
  <2> QED
    BY <2>1 DEF FaithfulAt, Held, Intact
<1> QED
  BY <1>1, Restored, PTL
=============================================================================
