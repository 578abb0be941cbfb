---------------------------- MODULE SchemaRegistry ----------------------------
(***************************************************************************)
(* Loading the ontology (internal/schema loader.go, registry.go): the      *)
(* documents of a directory are read and registered, the inheritance graph *)
(* is searched for cycles, sorted, and every type takes over what its      *)
(* parent has.  Names are natural numbers, in the order sort.Strings gives *)
(* them; 0 is the empty name.                                              *)
(*                                                                         *)
(* A Go slice of rules is [arr, len]: the first len places of an array of  *)
(* the heap, whose length is the slice's capacity.  append writes behind   *)
(* the slice when there is room, also when another slice shares the array. *)
(***************************************************************************)
EXTENDS Naturals, FiniteSets, FiniteSetsExt, SequencesExt, Functions

CONSTANTS Directories,  \* sequences of documents a directory may hold
          Hole          \* an unused place of an array

\* A directory is a sequence of documents; every entity has a name, its lists
\* are lists and its mapping is a map; the text of a default is a text.
ASSUME DirectoriesAssumption ==
    \A ds \in Directories :
        /\ ds \in Seq(ToSet(ds))
        /\ \A d \in ToSet(ds) :
              d.kind = "entity" =>
                  /\ {"name", "extends", "props", "mapping", "rules", "fields", "keys", "template"}
                        \subseteq DOMAIN d
                  /\ d.name \in Nat \ {0} /\ d.extends \in Nat
                  /\ d.rules \in Seq(ToSet(d.rules)) /\ d.keys \in Seq(ToSet(d.keys))
                  /\ d.template \in Seq(ToSet(d.template))
                  /\ IsFiniteSet(DOMAIN d.mapping)
                  /\ \A f \in DOMAIN d.props :
                        d.props[f].default.v \in Seq(ToSet(d.props[f].default.v))

VARIABLES docs,      \* the documents, in the order of the files
          types,     \* registryImpl.entityTypes
          relations, \* registryImpl.relationTypes
          heap,      \* the arrays of the rules; heap[i] starts as those of docs[i]
          pc,        \* read, cycle, topo, merge, ready, failed
          why,       \* the error Load returned
          todo,      \* keys the loop of detectCycle or topoSort has before it
          call,      \* the node a recursive call is about, 0 when returning
          path,      \* the calls under way
          visited, inStack,
          order      \* topoSort's result; merged types are taken off

registry == <<docs, types, relations, heap>>
search   == <<todo, call, path, visited, inStack, order>>
loadVars == <<registry, pc, why, search>>

Bad(d) == d.kind \in {"malformed", "version", "unknown"}
Of(kind) == {i \in DOMAIN docs : docs[i].kind = kind}

\* The last document of a name wins.
Registered(kind) ==
    [n \in {docs[i].name : i \in Of(kind)} |->
        Max({i \in Of(kind) : docs[i].name = n})]

Fails(error) ==
    /\ pc' = "failed"
    /\ why' = error
    /\ UNCHANGED <<registry, search>>

\* A document that cannot be parsed, has another apiVersion or kind fails the
\* whole directory; empty documents are skipped.
LoadFromDir ==
    /\ pc = "read"
    /\ \E i \in DOMAIN docs : Bad(docs[i])
    /\ Fails("document")

NothingFound ==
    /\ pc = "read"
    /\ \A i \in DOMAIN docs : docs[i].kind = "empty"
    /\ Fails("empty")

Children(ts) == {t \in DOMAIN ts : ts[t].extends # 0}

Load ==
    /\ pc = "read"
    /\ Of("entity") \cup Of("relation") # {}
    /\ \A i \in DOMAIN docs : ~Bad(docs[i])
    /\ LET last == Registered("entity")
           ts   == [n \in DOMAIN last |->
                     [docs[last[n]] EXCEPT !.rules = [arr |-> last[n], len |-> Len(@)]]]
       IN /\ types' = ts
          /\ todo' = Children(ts)
          /\ pc' = IF Children(ts) = {} THEN "ready" ELSE "cycle"
    /\ relations' = LET last == Registered("relation")
                    IN [n \in DOMAIN last |-> docs[last[n]]]
    /\ UNCHANGED <<docs, heap, why, call, path, visited, inStack, order>>

ParentOf(n) == IF n \in DOMAIN types THEN types[n].extends ELSE 0

\* detectCycle: dfs is called, or finds the node on the stack, or knows it.
DfsCall ==
    /\ pc = "cycle" /\ call # 0
    /\ \/ call \in inStack /\ Fails("cycle")
       \/ /\ call \in visited \ inStack
          /\ call' = 0
          /\ UNCHANGED <<registry, pc, why, todo, path, visited, inStack, order>>
       \/ /\ call \notin visited \cup inStack
          /\ visited' = visited \cup {call}
          /\ inStack' = inStack \cup {call}
          /\ path' = Append(path, call)
          /\ call' = ParentOf(call)
          /\ UNCHANGED <<registry, pc, why, todo, order>>

\* Mutant: the stack is not unwound.
DfsReturnStays ==
    /\ pc = "cycle" /\ call = 0 /\ path # <<>>
    /\ path' = Front(path)
    /\ UNCHANGED <<registry, pc, why, todo, call, visited, inStack, order>>

DfsReturn ==
    /\ pc = "cycle" /\ call = 0 /\ path # <<>>
    /\ inStack' = inStack \ {Last(path)}
    /\ path' = Front(path)
    /\ UNCHANGED <<registry, pc, why, todo, call, visited, order>>

\* The loop over the sorted keys, and then topoSort's over all nodes.
DfsNext ==
    /\ pc = "cycle" /\ call = 0 /\ path = <<>>
    /\ \/ /\ todo # {}
          /\ call' = Min(todo)
          /\ todo' = todo \ {Min(todo)}
          /\ UNCHANGED <<pc, visited>>
       \/ /\ todo = {}
          /\ pc' = "topo"
          /\ todo' = UNION {{t, types[t].extends} : t \in Children(types)}
          /\ visited' = {}
          /\ UNCHANGED call
    /\ UNCHANGED <<registry, why, path, inStack, order>>

TopoCall ==
    /\ pc = "topo" /\ call # 0
    /\ \/ /\ call \in visited
          /\ call' = 0
          /\ UNCHANGED <<path, visited>>
       \/ /\ call \notin visited
          /\ visited' = visited \cup {call}
          /\ path' = Append(path, call)
          /\ call' = ParentOf(call)
    /\ UNCHANGED <<registry, pc, why, todo, inStack, order>>

TopoReturn ==
    /\ pc = "topo" /\ call = 0 /\ path # <<>>
    /\ order' = Append(order, Last(path))
    /\ path' = Front(path)
    /\ UNCHANGED <<registry, pc, why, todo, call, visited, inStack>>

TopoNext ==
    /\ pc = "topo" /\ call = 0 /\ path = <<>>
    /\ \/ todo # {} /\ call' = Min(todo) /\ todo' = todo \ {Min(todo)} /\ UNCHANGED pc
       \/ todo = {} /\ pc' = "merge" /\ UNCHANGED <<call, todo>>
    /\ UNCHANGED <<registry, why, path, visited, inStack, order>>

Rules(slice) == IF slice.len = 0 THEN <<>> ELSE SubSeq(heap[slice.arr], 1, slice.len)
RulesOf(t)   == Rules(types[t].rules)

\* append(s, more...): the new heap and slice.  An array that is too short is
\* replaced by one of twice the length, or of the length needed.
AppendTo(s, more) ==
    LET cap == Len(heap[s.arr])
        len == s.len + Len(more)
        Put(array) == [i \in DOMAIN array |->
            IF i \in s.len + 1 .. len THEN more[i - s.len] ELSE array[i]]
        longer == [i \in 1 .. Max({len, 2 * cap}) |->
            IF i <= s.len THEN heap[s.arr][i] ELSE Hole]
    IN IF more = <<>> THEN [heap |-> heap, slice |-> s]
       ELSE IF len <= cap
       THEN [heap |-> [heap EXCEPT ![s.arr] = Put(@)], slice |-> [s EXCEPT !.len = len]]
       ELSE [heap |-> Append(heap, Put(longer)),
             slice |-> [arr |-> Len(heap) + 1, len |-> len]]

\* What the child has wins.
Under(child, parent) ==
    [k \in DOMAIN child \cup DOMAIN parent |->
        IF k \in DOMAIN child THEN child[k] ELSE parent[k]]

\* Mutant: the child's rules first.
MergeRulesChildFirst(c, p) ==
    LET child == types[c] parent == types[p]
        appended == AppendTo(child.rules, Rules(parent.rules))
    IN /\ types' = [types EXCEPT
             ![c] = [child EXCEPT !.props = Under(child.props, parent.props),
                                  !.mapping = Under(child.mapping, parent.mapping),
                                  !.fields = Under(child.fields, parent.fields),
                                  !.rules = appended.slice]]
       /\ heap' = appended.heap

mergeEntityType(c, p) ==
    LET child == types[c] parent == types[p]
        appended == AppendTo(parent.rules, Rules(child.rules))
    IN /\ types' = [types EXCEPT
             ![c] = [child EXCEPT !.props = Under(child.props, parent.props),
                                  !.mapping = Under(child.mapping, parent.mapping),
                                  !.fields = Under(child.fields, parent.fields),
                                  !.rules = appended.slice]]
       /\ heap' = appended.heap

\* resolveInheritance: the types are merged in order.
MergeNext ==
    /\ pc = "merge" /\ order # <<>>
    /\ LET c == Head(order) p == ParentOf(c)
       IN \/ p = 0 /\ UNCHANGED <<types, heap, pc, why>>
          \/ /\ p # 0 /\ p \notin DOMAIN types
             /\ pc' = "failed" /\ why' = "parent"
             /\ UNCHANGED <<types, heap>>
          \/ /\ p \in DOMAIN types
             /\ mergeEntityType(c, p)
             /\ UNCHANGED <<pc, why>>
    /\ order' = Tail(order)
    /\ UNCHANGED <<docs, relations, todo, call, path, visited, inStack>>

\* crossValidate only logs.
Resolved ==
    /\ pc = "merge" /\ order = <<>>
    /\ pc' = "ready"
    /\ UNCHANGED <<registry, why, search>>

\* Labels from the root down to kind, which a cycle would end too: climb[n] are
\* those after n more rounds of the loop, and there is a round for each type.
GetLabels(kind) ==
    LET rounds == Cardinality(DOMAIN types)
        climb[n \in 0 .. rounds] ==
            IF n = 0 THEN <<kind>>
            ELSE LET p == ParentOf(Head(climb[n - 1]))
                 IN IF p \in {0} \cup ToSet(climb[n - 1]) THEN climb[n - 1]
                    ELSE <<p>> \o climb[n - 1]
    IN climb[rounds]

LoadInit ==
    /\ docs \in Directories
    /\ types = <<>> /\ relations = <<>>
    /\ heap = [i \in DOMAIN docs |-> IF docs[i].kind = "entity" THEN docs[i].rules ELSE <<>>]
    /\ pc = "read" /\ why = "none"
    /\ todo = {} /\ call = 0 /\ path = <<>>
    /\ visited = {} /\ inStack = {} /\ order = <<>>

LoadStep ==
    \/ LoadFromDir \/ NothingFound \/ Load
    \/ DfsCall \/ DfsReturn \/ DfsNext
    \/ TopoCall \/ TopoReturn \/ TopoNext
    \/ MergeNext \/ Resolved

-----------------------------------------------------------------------------
(* Properties.                                                              *)

\* What the winning document of t said, before any merge.
Declared(t) == docs[Registered("entity")[t]]
Parent(t)   == Declared(t).extends
Names       == DOMAIN Registered("entity")

Cyclic  == \E S \in (SUBSET Names) \ {{}} : \A t \in S : Parent(t) \in S
Orphans == {t \in Names : Parent(t) \notin Names \cup {0}}

\* Load refuses a directory exactly for what is wrong with it: a circular
\* inheritance, else a parent nobody defines; and it accepts every other one.
LoadVerdict ==
    /\ pc = "ready" => ~Cyclic /\ Orphans = {}
    /\ why = "cycle" => Cyclic
    /\ why = "parent" => ~Cyclic /\ Orphans # {}

\* t and its ancestors, nearest first: ancestor[i] is i generations above t, 0
\* beyond the root.
Line(t) ==
    LET n == Cardinality(Names)
        ancestor[i \in 0 .. n] ==
            IF i = 0 THEN t
            ELSE IF ancestor[i - 1] \in Names THEN Parent(ancestor[i - 1]) ELSE 0
    IN [i \in {i \in 1 .. n : ancestor[i - 1] \in Names} |-> ancestor[i - 1]]

\* What the nearest type of a line says about k in one part of its document.
Nearest(line, k, part) ==
    LET i == Min({j \in DOMAIN line : k \in DOMAIN Declared(line[j])[part]})
    IN Declared(line[i])[part][k]

Inherits(t, part) ==
    LET line == Line(t) got == types[t][part]
    IN /\ DOMAIN got = UNION {DOMAIN Declared(line[i])[part] : i \in DOMAIN line}
       /\ \A k \in DOMAIN got : got[k] = Nearest(line, k, part)

Inheritable == {"props", "mapping", "fields"}

\* For each property, field mapping and relation field, the definition of the
\* nearest ancestor that has one.
DefinitionsInherited(t) == \A part \in Inheritable : Inherits(t, part)

Chained(t) ==
    RulesOf(t) = FlattenSeq([i \in DOMAIN Line(t) |-> Declared(Reverse(Line(t))[i]).rules])

Siblings(t) == {u \in Names \ {t} : Parent(u) = Parent(t) /\ Parent(t) # 0}

\* The rules of the ancestors, the root's first, and then its own, unless the
\* slice they are appended to may be shared with a sibling.
RulesChained(t) == (\A a \in ToSet(Line(t)) : Siblings(a) = {}) => Chained(t)

\* After loading, every type has what its line of ancestors gives it, over any
\* number of generations and whatever the names and the order of the files.
Inherited == pc = "ready" => \A t \in Names : DefinitionsInherited(t) /\ RulesChained(t)

\* The same without the restriction, as mergeEntityType's comment has it.
AllRulesChained == pc = "ready" => \A t \in Names : Chained(t)
=============================================================================
