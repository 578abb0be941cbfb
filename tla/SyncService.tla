----------------------------- MODULE SyncService -----------------------------
(***************************************************************************)
(* internal/service: SyncService.FullSync and IncrementalSync (as the      *)
(* event consumer runs it) and AnalysisService.QueryTopology.  They work   *)
(* on the live database only and have no state beyond TwinState.           *)
(*                                                                         *)
(* Collecting from the connectors, normalising and assembling touch no     *)
(* shared state; what they hand to the graph is any payload of Models.     *)
(***************************************************************************)
EXTENDS TwinState

\* FullSync clears the live database before it asks any connector.
FullClear(p) ==
    /\ At(p, "f_clear")
    /\ SetDb(Default, Empty)
    /\ Goto(p, "f_collect")
    /\ UNCHANGED <<lk, job, buf, todo>>

FullCollect(p) ==
    /\ At(p, "f_collect")
    /\ \E m \in Models :
          /\ buf'  = [buf EXCEPT ![p] = m]
          /\ todo' = [todo EXCEPT ![p] = LabelsIn(m)]
    /\ Goto(p, "f_nodes")
    /\ UNCHANGED <<lk, db, job>>

FullNodes(p) == WriteNodes(p, Default, "f_nodes", "f_rels")
FullRels(p)  == WriteRels(p, Default, "f_rels", "ok")

\* Action "update": assemble the event's resources and Upsert them.
UpdateAssemble(p) ==
    /\ At(p, "u_assemble")
    /\ \E m \in Models :
          /\ buf'  = [buf EXCEPT ![p] = m]
          /\ todo' = [todo EXCEPT ![p] = LabelsIn(m)]
    /\ Goto(p, "u_nodes")
    /\ UNCHANGED <<lk, db, job>>

UpdateNodes(p) ==
    /\ At(p, "u_nodes")
    /\ \/ \E g \in todo[p] :
             /\ SetDb(Default, MergeNodes(db[Default], buf[p], g))
             /\ todo' = [todo EXCEPT ![p] = @ \ {g}]
             /\ UNCHANGED pc
       \/ /\ todo[p] = {}
          /\ todo' = [todo EXCEPT ![p] = TypesIn(buf[p])]
          /\ Goto(p, "u_rels")
          /\ UNCHANGED db
    /\ UNCHANGED <<lk, job, buf>>

UpdateRels(p) ==
    /\ At(p, "u_rels")
    /\ \/ \E g \in todo[p] :
             /\ SetDb(Default, MergeRels(db[Default], buf[p], g))
             /\ todo' = [todo EXCEPT ![p] = @ \ {g}]
             /\ UNCHANGED pc
       \/ /\ todo[p] = {}
          /\ Goto(p, "ok")
          /\ UNCHANGED <<db, todo>>
    /\ UNCHANGED <<lk, job, buf>>

\* Action "delete": one statement for all the URIs of the event.
DeleteNodes(p) ==
    /\ At(p, "u_delete")
    /\ \E gone \in SUBSET Uris : SetDb(Default, DetachDelete(db[Default], gone))
    /\ Goto(p, "ok")
    /\ UNCHANGED <<lk, job, buf, todo>>

\* Action "delete_relation": one statement per type of the event's relations.
MatchRels(p) ==
    /\ At(p, "u_match")
    /\ \E gone \in SUBSET Rels :
          LET m == [Empty EXCEPT !.r = [e \in Rels |-> IF e \in gone THEN 1 ELSE 0]]
          IN /\ buf'  = [buf EXCEPT ![p] = m]
             /\ todo' = [todo EXCEPT ![p] = TypesIn(m)]
    /\ Goto(p, "u_drop")
    /\ UNCHANGED <<lk, db, job>>

DropMatched(p) ==
    /\ At(p, "u_drop")
    /\ \/ \E g \in todo[p] :
             /\ SetDb(Default, DropRels(db[Default],
                                        {e \in Rels : buf[p].r[e] > 0}, g))
             /\ todo' = [todo EXCEPT ![p] = @ \ {g}]
             /\ UNCHANGED pc
       \/ /\ todo[p] = {}
          /\ Goto(p, "ok")
          /\ UNCHANGED <<db, todo>>
    /\ UNCHANGED <<lk, job, buf>>

\* QueryTopology: one read of the live database under the read lock.
QueryTopology(p) ==
    /\ At(p, "q_read")
    /\ Goto(p, "ok")
    /\ UNCHANGED <<lk, db, job, buf, todo>>

SyncStep(p) ==
    \/ FullClear(p) \/ FullCollect(p) \/ FullNodes(p) \/ FullRels(p)
    \/ UpdateAssemble(p) \/ UpdateNodes(p) \/ UpdateRels(p)
    \/ DeleteNodes(p) \/ MatchRels(p) \/ DropMatched(p)
    \/ QueryTopology(p)
=============================================================================
