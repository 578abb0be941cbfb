---------------------------- MODULE GraphAssembler ----------------------------
(***************************************************************************)
(* A batch of normalized resources becomes nodes and relations             *)
(* (assembler.go).  A relation stands for one entry of a list: resource i, *)
(* field, place n.  Warnings are the relations whose target is not in the  *)
(* batch.  Go ranges over the relation fields in any order, so the order   *)
(* of the relations is left open: they are a set.                          *)
(***************************************************************************)
EXTENDS Normalizer

CONSTANT NoModel

VARIABLES model      \* the GraphModel, NoModel before

pipeVars == <<loadVars, batch, model>>

NodeOf(a) ==
    [labels |-> GetLabels(a.kind),
     uri    |-> a.uri,
     props  |-> Restrict(a.props, DOMAIN a.props \ DOMAIN types[a.kind].fields)]

\* toStringSlice; the relation type exists and lists the kind as a source.
Derives(a, field) ==
    /\ field \in DOMAIN a.props
    /\ a.props[field].t = "list"
    /\ types[a.kind].fields[field] \in DOMAIN relations
    /\ a.kind \in relations[types[a.kind].fields[field]].source

Derived ==
    UNION {UNION {{[i |-> i, field |-> f, n |-> n,
                    type |-> types[batch[i].kind].fields[f],
                    from |-> batch[i].uri, to |-> batch[i].props[f].v[n]] :
                      n \in DOMAIN batch[i].props[f].v} :
                  f \in {g \in DOMAIN types[batch[i].kind].fields : Derives(batch[i], g)}} :
           i \in DOMAIN batch}

Uris == {batch[i].uri : i \in DOMAIN batch}

\* Mutant: one pass, a target must come before.
AssembleOnePass ==
    /\ pc = "ready" /\ model = NoModel /\ batch # <<>>
    /\ LET valid == {r \in Derived : \E i \in 1 .. r.i : batch[i].uri = r.to}
       IN model' = [nodes |-> [i \in DOMAIN batch |-> NodeOf(batch[i])],
                    relations |-> valid, warnings |-> Derived \ valid]
    /\ UNCHANGED <<loadVars, batch>>

Assemble ==
    /\ pc = "ready" /\ model = NoModel /\ batch # <<>>
    /\ LET valid == {r \in Derived : r.to \in Uris}
       IN model' = [nodes |-> [i \in DOMAIN batch |-> NodeOf(batch[i])],
                    relations |-> valid, warnings |-> Derived \ valid]
    /\ UNCHANGED <<loadVars, batch>>

Init == LoadInit /\ batch = <<>> /\ model = NoModel

Next ==
    \/ LoadStep /\ UNCHANGED <<batch, model>>
    \/ model = NoModel /\ UNCHANGED model /\ \E r \in Resources : Normalize(r)
    \/ Assemble

Spec == Init /\ [][Next]_pipeVars

-----------------------------------------------------------------------------
(* Properties.                                                              *)

\* Types: slices lie within their arrays, and the place of the search is one
\* of a known stage.
TypeOK ==
    /\ pc \in {"read", "cycle", "topo", "merge", "ready", "failed"}
    /\ why \in {"none", "document", "empty", "cycle", "parent"}
    /\ (pc = "failed") <=> (why # "none")
    /\ \A t \in DOMAIN types :
          /\ types[t].rules.len <= Len(heap[types[t].rules.arr])
          /\ Hole \notin ToSet(RulesOf(t))
    /\ DOMAIN types \subseteq Names
    /\ IsInjective(path) /\ IsInjective(order)
    /\ inStack \subseteq visited
    /\ Len(batch) <= MaxBatch

Graph == model # NoModel

\* An ancestor's relation field is one for its descendants as well.
IsRelation(kind, f) == \E t \in ToSet(Line(kind)) : f \in DOMAIN Declared(t).fields

\* Every resource of the batch is one node with the labels of its line, the
\* root's first, and its properties without any relation field, its own or
\* inherited.
NodesFaithful ==
    Graph => \A i \in DOMAIN batch :
        LET node == model.nodes[i]
        IN /\ node.labels = Reverse(Line(batch[i].kind))
           /\ DOMAIN node.props = {f \in DOMAIN batch[i].props : ~IsRelation(batch[i].kind, f)}
           /\ \A f \in DOMAIN node.props : node.props[f] = batch[i].props[f]

\* Whatever the order of the batch, an entry of a relation field is an edge if
\* its target is in the batch and a warning if not, and no edge dangles.
EdgesClosed ==
    Graph => \A i \in DOMAIN batch : \A f \in DOMAIN batch[i].props :
        IsRelation(batch[i].kind, f) /\ Derives(batch[i], f) =>
            \A n \in DOMAIN batch[i].props[f].v :
                LET to == batch[i].props[f].v[n]
                    Has(S) == \E r \in S : r.from = batch[i].uri /\ r.to = to
                                           /\ r.i = i /\ r.field = f
                IN IF \E j \in DOMAIN model.nodes : model.nodes[j].uri = to
                   THEN Has(model.relations) ELSE Has(model.warnings)

\* No two nodes have one URI, the "unique identifier within the logical database"
\* of the comment on Node: what two sources report of one device is one node.
OneNodePerUri ==
    Graph => \A i, j \in DOMAIN model.nodes : model.nodes[i].uri = model.nodes[j].uri => i = j

\* The graph of a batch is made of its resources and of nothing else.
GraphFaithful == NodesFaithful /\ EdgesClosed
=============================================================================
