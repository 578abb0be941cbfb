---------------------------- MODULE LogicalGraph ----------------------------
(***************************************************************************)
(* What one Cypher statement of internal/graph/neo4j.go does to a logical  *)
(* database.  Neo4j runs every statement in a transaction of its own, so a *)
(* statement is the unit of atomicity; BulkCreate, Upsert, CloneDB and     *)
(* DeleteRelations send one statement per label and one per relation type  *)
(* and can stop between any two of them.                                   *)
(*                                                                         *)
(* A database is abstracted to how many nodes carry each URI and how many  *)
(* relations join each pair of URIs.  CREATE is not idempotent, so a count *)
(* above one is a duplicate; counts saturate at MaxCopies.                 *)
(***************************************************************************)
EXTENDS Naturals

CONSTANTS Uris,        \* node URIs
          Rels,        \* possible relations, pairs <<from, to>> of URIs
          Labels,      \* most specific labels
          Types,       \* relation types
          LabelOf,     \* the label of each URI
          TypeOf,      \* the type of each relation
          MaxCopies    \* counts saturate here ("many")

ASSUME GraphAssumption ==
    /\ Rels \subseteq Uris \X Uris
    /\ LabelOf \in [Uris -> Labels]
    /\ TypeOf \in [Rels -> Types]
    /\ MaxCopies \in Nat \ {0}

Copies  == 0 .. MaxCopies
Content == [n : [Uris -> Copies], r : [Rels -> Copies]]

Empty == [n |-> [u \in Uris |-> 0], r |-> [e \in Rels |-> 0]]

Sat(k) == IF k > MaxCopies THEN MaxCopies ELSE k

\* HasDB: count(n) > 0 over the nodes of the database.
HasNodes(c) == \E u \in Uris : c.n[u] > 0

\* The label groups and type groups a payload is written in.
LabelsIn(c) == {LabelOf[u] : u \in {v \in Uris : c.n[v] > 0}}
TypesIn(c)  == {TypeOf[e] : e \in {f \in Rels : c.r[f] > 0}}

\* UNWIND nodes CREATE (x:Label): one new node per row of the payload m.
CreateNodes(c, m, l) ==
    [c EXCEPT !.n = [u \in Uris |->
        IF LabelOf[u] = l THEN Sat(c.n[u] + m.n[u]) ELSE c.n[u]]]

\* UNWIND rels MATCH (a) MATCH (b) CREATE (a)-[:Type]->(b): a row creates one
\* relation per pair of matching nodes, so none when an end is missing.
CreateRels(c, m, t) ==
    [c EXCEPT !.r = [e \in Rels |->
        IF TypeOf[e] = t THEN Sat(c.r[e] + m.r[e] * c.n[e[1]] * c.n[e[2]])
                         ELSE c.r[e]]]

\* MERGE on (_db, uri): creates the node only when there is none.
MergeNodes(c, m, l) ==
    [c EXCEPT !.n = [u \in Uris |->
        IF LabelOf[u] = l /\ m.n[u] > 0 /\ c.n[u] = 0 THEN 1 ELSE c.n[u]]]

\* MERGE (a)-[:Type]->(b): at least one relation per pair of matching nodes.
MergeRels(c, m, t) ==
    [c EXCEPT !.r = [e \in Rels |->
        IF /\ TypeOf[e] = t
           /\ m.r[e] > 0
           /\ c.r[e] < Sat(c.n[e[1]] * c.n[e[2]])
        THEN Sat(c.n[e[1]] * c.n[e[2]]) ELSE c.r[e]]]

\* UNWIND uris MATCH (n {uri}) DETACH DELETE n: the nodes and every relation
\* that touches them.
DetachDelete(c, gone) ==
    [n |-> [u \in Uris |-> IF u \in gone THEN 0 ELSE c.n[u]],
     r |-> [e \in Rels |-> IF e[1] \in gone \/ e[2] \in gone
                           THEN 0 ELSE c.r[e]]]

\* MATCH (a)-[x:Type]->(b) DELETE x for the listed relations of one type.
DropRels(c, gone, t) ==
    [c EXCEPT !.r = [e \in Rels |->
        IF e \in gone /\ TypeOf[e] = t THEN 0 ELSE c.r[e]]]
=============================================================================
